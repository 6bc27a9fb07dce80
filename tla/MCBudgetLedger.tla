--------------------------- MODULE MCBudgetLedger ---------------------------
(* Small instances of BudgetLedger: every context has the same budget, and   *)
(* three ways of using the ledger.                                           *)
EXTENDS BudgetLedger, TLC

CONSTANTS MCBudgetSize, c1, c2, d1, d2

\* A default takes one charge, every other context as much as MCBudgetSize.
MCBudget == [c \in Ctx |-> IF c \in Defaults THEN 1 ELSE MCBudgetSize]

\* Each context is used by one thread at a time, resets are quiescent.
Owned == [contexts |-> {c1, c2}, limited |-> {},
          exclusive |-> TRUE, quiescent |-> TRUE]

\* Threads share a context with a deadline and reset at any moment.
Shared == [contexts |-> {c1}, limited |-> {c1},
           exclusive |-> FALSE, quiescent |-> FALSE]

\* One thread resets while another closes a context of its own.
Racing == [contexts |-> {c1}, limited |-> {},
           exclusive |-> TRUE, quiescent |-> FALSE]

OwnedOrShared == {Owned, Shared}
OnlyRacing == {Racing}

\* No definition tells one thread from another, and no property is a liveness one.
Symmetric == Permutations(Threads) \cup Permutations(Defaults)
=============================================================================
