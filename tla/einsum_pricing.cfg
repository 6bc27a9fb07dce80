SPECIFICATION Spec
CONSTANTS
    Threads = {t1, t2}
    Programs <- AllPrograms
    DiminoBudgets = {3, 50}
    PartitionBudgets = {4, 100}
    MaxCalls = 2
    MaxChanges = 1
INVARIANTS
    TypeOK
    GeneratorsSuffice
    LadderCounts
    DetectedHolds
    PriceTrue
    SymmetryNeverCosts
    ResultSymmetryHolds
    LimitHonoured
    ConfigureSticks
SYMMETRY ThreadSymmetry
