---------------------------- MODULE EinsumPricing ----------------------------
(***************************************************************************)
(* Threads price contractions (compute_accumulation_cost and its cache)    *)
(* while the settings that bound the enumeration of groups are changed.    *)
(*                                                                         *)
(* A call is a stack of frames: pricing an expression prices the reduced   *)
(* contraction that is left of it, or the steps of its path, through the   *)
(* same cache.                                                             *)
(***************************************************************************)
EXTENDS SubgraphSymmetry

CONSTANTS
    Threads,
    Programs,           \* the sets of contractions a program asks for
    DiminoBudgets,      \* values the settings are given
    PartitionBudgets,
    MaxCalls,           \* bound of the model: calls of all threads
    MaxChanges          \* bound of the model: calls of configure()

ASSUME PricingAssumption ==
    /\ DiminoBudgets \subseteq Nat /\ DiminoBudgets # {}
    /\ PartitionBudgets \subseteq Nat /\ PartitionBudgets # {}

\* What an operand is: symmetry is declared of axes of one size.
IsOperand(op, size) ==
    /\ op = Operand(op.tensor, op.labels, op.sym)
    /\ op.labels \in Seq(DOMAIN size)
    /\ op.sym \subseteq Bijection(DOMAIN op.labels, DOMAIN op.labels)
    /\ \A g \in op.sym : \A a \in DOMAIN op.labels : size[op.labels[g[a]]] = size[op.labels[a]]

\* What is asked for: copies of one object have its shape and its symmetry, and
\* no operand of a path has a label twice.
IsContraction(e) ==
    /\ e = [ops |-> e.ops, same |-> e.same, out |-> e.out, size |-> e.size]
    /\ e.ops \in Seq(ToSet(e.ops))
    /\ e.size \in [DOMAIN e.size -> Nat]
    /\ \A k \in Positions(e) : IsOperand(e.ops[k], e.size)
    /\ e.out \subseteq Labels(e)
    /\ e.same \subseteq SUBSET Positions(e)
    /\ \A C, D \in e.same : C # D => C \cap D = {}
    /\ \A C \in e.same : \A j, k \in C :
           /\ e.ops[j].tensor = e.ops[k].tensor
           /\ e.ops[j].sym = e.ops[k].sym
           /\ Len(e.ops[j].labels) = Len(e.ops[k].labels)
           /\ \A a \in DOMAIN e.ops[j].labels :
                  e.size[e.ops[j].labels[a]] = e.size[e.ops[k].labels[a]]
    /\ Len(e.ops) >= 3 => \A k \in Positions(e) : IsInjective(e.ops[k].labels)

Expressions == UNION Programs

ASSUME ContractionAssumption == \A e \in Expressions : IsContraction(e)

\* The expressions that are priced on the way, with what is known of each before
\* anything runs: tabulated, since every state asks for it.
Known ==
    LET steps(e) == {Step(e, p[1], p[2]) :
                       p \in {q \in (SUBSET Positions(e)) \X (SUBSET Positions(e)) :
                                q[1] # {} /\ q[2] # {} /\ q[1] \cap q[2] = {}}}
        direct == Expressions \cup UNION {steps(e) : e \in {x \in Expressions : Len(x.ops) >= 3}}
    IN  direct \cup {Residual(e) : e \in {x \in direct : Len(x.ops) = 2}}
Single == {e \in Known : Len(e.ops) <= 2}      \* contractions without a path

CandidatesOf == [e \in {x \in Known : Exchangeable(x)} |-> Candidates(e)]

VARIABLES
    program,        \* the contractions this program asks for
    settings,       \* _SETTINGS
    cache,          \* _accumulation_cache: <<expression, partition budget>> -> price
    stack,          \* the frames of each thread, the outermost first
    answer,         \* what the last call of each thread returned or raised
    inForce,        \* the Dimino budgets that may be in force (history)
    calls, changes

vars == <<program, settings, cache, stack, answer, calls, changes, inForce>>

None == [kind |-> "none"]
Priced(total, fallback, dense) ==
    [kind |-> "price", total |-> total, fallback |-> fallback, dense |-> dense]

Frame(e, partitionBudget) ==
    [expr |-> e, limit |-> partitionBudget, at |-> "lookup",
     chosen |-> {}, rest |-> {}, seen |-> 0, scope |-> 0,
     extra |-> 0, fallback |-> FALSE, dense |-> FALSE, parts |-> {{k} : k \in Positions(e)},
     merging |-> <<>>, saved |-> 0, inner |-> None]

Top(t) == stack[t][Len(stack[t])]
At(t, place) == stack[t] # <<>> /\ Top(t).at = place
SetTop(t, f) == stack' = [stack EXCEPT ![t] = [@ EXCEPT ![Len(@)] = f]]
Push(t, f, g) == stack' = [stack EXCEPT ![t] = [@ EXCEPT ![Len(@)] = f] \o <<g>>]

Init ==
    /\ program \in Programs
    /\ settings \in [dimino : DiminoBudgets, partition : PartitionBudgets]
    /\ cache = << >>
    /\ stack = [t \in Threads |-> <<>>]
    /\ answer = [t \in Threads |-> None]
    /\ calls = 0 /\ changes = 0
    /\ inForce = {settings.dimino}

----------------------------------------------------------------------------
(* Settings and calls.                                                     *)

Configure(t) ==
    /\ stack[t] = <<>> /\ changes < MaxChanges
    /\ changes' = changes + 1
    /\ \/ \E b \in DiminoBudgets \ {settings.dimino} :
             /\ settings' = [settings EXCEPT !.dimino = b]
             /\ inForce' = {b} \cup {Top(u).saved : u \in {v \in Threads : At(v, "override")}}
       \/ \E b \in PartitionBudgets \ {settings.partition} :
             settings' = [settings EXCEPT !.partition = b] /\ UNCHANGED inForce
    /\ UNCHANGED <<cache, stack, answer, calls>>

Call(t) ==
    /\ stack[t] = <<>> /\ calls < MaxCalls
    /\ calls' = calls + 1
    /\ \E e \in program : stack' = [stack EXCEPT ![t] = <<Frame(e, settings.partition)>>]
    /\ answer' = [answer EXCEPT ![t] = None]
    /\ UNCHANGED <<settings, cache, changes, inForce>>

HandedDown(frames, price) == [Front(frames) EXCEPT ![Len(frames) - 1] = [@ EXCEPT !.inner = price]]

\* The frame ends: its caller has the price, or the call is answered.
Deliver(t, price) ==
    IF Len(stack[t]) = 1
    THEN /\ stack' = [stack EXCEPT ![t] = <<>>]
         /\ answer' = [answer EXCEPT ![t] =
              [kind |-> "price", expr |-> Top(t).expr, limit |-> Top(t).limit, total |-> price.total,
               fallback |-> price.fallback, dense |-> price.dense]]
    ELSE /\ stack' = [stack EXCEPT ![t] = HandedDown(@, price)]
         /\ UNCHANGED answer

\* Mutant: the expression alone is the key.
KeyWithoutLimit(f) == <<f.expr, 0>>

Key(f) == <<f.expr, f.limit>>

Hit(t) ==
    /\ At(t, "lookup") /\ Key(Top(t)) \in DOMAIN cache
    /\ Deliver(t, cache[Key(Top(t))])
    /\ UNCHANGED <<settings, cache, calls, changes, inForce>>

\* A price is remembered unless another thread has been faster.
Store(t, price) ==
    /\ cache' = [key \in DOMAIN cache \cup {Key(Top(t))} |->
                   IF key \in DOMAIN cache THEN cache[key] ELSE price]
    /\ Deliver(t, price)

Bail(t) == Store(t, Priced(DensePrice(Top(t).expr), TRUE, TRUE))

Raise(t) ==
    /\ stack' = [stack EXCEPT ![t] = <<>>]
    /\ answer' = [answer EXCEPT ![t] = [kind |-> "error", expr |-> stack[t][1].expr]]
    /\ UNCHANGED cache

----------------------------------------------------------------------------
(* Detection, enumerating groups within the budgets.                       *)

Enumerate(t) ==
    LET f == Top(t)
        candidates == CandidatesOf[f.expr]
    IN  /\ At(t, "lookup") /\ Key(f) \notin DOMAIN cache
        /\ IF \E k \in Positions(f.expr) :
                  /\ k = Min(Class(f.expr, k))
                  /\ Exceeds(Cardinality(AxisGroup(f.expr.ops[k])), settings.dimino)
           THEN Bail(t)
           ELSE IF ~ Exchangeable(f.expr) THEN Raise(t)
           ELSE /\ SetTop(t, [f EXCEPT !.at = "select", !.scope = settings.dimino,
                        !.chosen = IF Cardinality(candidates) = 1 THEN candidates ELSE {},
                        !.rest = IF Cardinality(candidates) = 1 THEN {} ELSE candidates])
                /\ UNCHANGED <<cache, answer>>
        /\ UNCHANGED <<settings, calls, changes, inForce>>

\* An enumeration of n elements is refused by its own limit, or by the scope's.
Refused(f, n) == Exceeds(n, settings.dimino) \/ f.seen + n > f.scope

Closure(f) == Dimino(Labels(f.expr), f.chosen)
With(f, g) == [f EXCEPT !.chosen = @ \cup {g}]

\* Mutant: a candidate that moves no label the others leave alone is redundant.
GrowsByLabels(f, g) == ~ Moved(g) \subseteq UNION {Moved(h) : h \in f.chosen}

Grows(f, g) == Cardinality(Closure(With(f, g))) > Cardinality(Closure(f))

Select(t) ==
    LET f == Top(t) IN
    /\ At(t, "select")
    /\ \E g \in f.rest :
         LET n == Cardinality(Closure(With(f, g)))
         IN  IF Refused(f, n) THEN Bail(t)
             ELSE /\ SetTop(t, [IF Grows(f, g) THEN With(f, g) ELSE f
                                EXCEPT !.rest = @ \ {g}, !.seen = @ + n])
                  /\ UNCHANGED <<cache, answer>>
    /\ UNCHANGED <<settings, calls, changes, inForce>>

\* The group is closed; the expression is priced, or taken apart.
Close(t) ==
    LET f == Top(t)
        n == Cardinality(Closure(f))
        price == ContractionPrice(f.expr, f.chosen, f.limit)
    IN  /\ At(t, "select") /\ f.rest = {}
        /\ IF f.chosen # {} /\ Refused(f, n) THEN Bail(t)
           ELSE IF Cardinality(Positions(f.expr)) >= 3
           THEN SetTop(t, [f EXCEPT !.at = "walk"]) /\ UNCHANGED <<cache, answer>>
           ELSE IF Cardinality(Positions(f.expr)) = 2
                     /\ \E k \in Positions(f.expr) : Isolated(f.expr, k) # {}
           THEN SetTop(t, [f EXCEPT !.at = "reduce"]) /\ UNCHANGED <<cache, answer>>
           ELSE Store(t, Priced(price.total, price.fallback, price.fallback))
        /\ UNCHANGED <<settings, calls, changes, inForce>>

----------------------------------------------------------------------------
(* Taking the expression apart.                                            *)

\* Reductions read the settings themselves; a budget of their own may refuse
\* the group of a symmetric operand.
Reductions(e, summed) ==
    LET K == DOMAIN summed
        price(op, k) == ReductionPrice(op, summed[k], e.size, settings.partition)
        exact(k) == price(e.ops[k], k)
        dense(k) == price([e.ops[k] EXCEPT !.sym = {}], k)
        symmetric == {k \in K : summed[k] # {} /\ e.ops[k].sym # {}}
    IN  {[total |-> MapThenSumSet(LAMBDA k : IF k \in D THEN dense(k).total ELSE exact(k).total, K),
          dense |-> D # {} \/ \E k \in K : exact(k).fallback] : D \in SUBSET symmetric}

Reduce(t) ==
    LET f == Top(t) IN
    /\ At(t, "reduce") /\ f.inner = None
    /\ \E r \in Reductions(f.expr, [k \in Positions(f.expr) |-> Isolated(f.expr, k)]) :
         Push(t, [f EXCEPT !.extra = r.total, !.dense = r.dense],
              Frame(Residual(f.expr), f.limit))
    /\ UNCHANGED <<settings, cache, answer, calls, changes, inForce>>

Combine(t) ==
    LET f == Top(t) IN
    /\ At(t, "reduce") /\ f.inner # None
    /\ Store(t, Priced(f.inner.total + f.extra, f.inner.fallback, f.inner.dense \/ f.dense))
    /\ UNCHANGED <<settings, calls, changes, inForce>>

\* The oracle enumerates the row group of a subset outside of every handler.
OracleRaises(e, S) == Exceeds(Cardinality(RowGroup(e, S)), settings.dimino)

\* The next two operands of the path; any path may have been found.
Contract(t) ==
    LET f == Top(t) IN
    /\ At(t, "walk") /\ f.inner = None
    /\ \E S, T \in f.parts :
         /\ Min(S) < Min(T)
         /\ IF \E P \in {S, T} : /\ Cardinality(P) = 1 /\ SummedIn(f.expr, P) = {}
                                 /\ OracleRaises(f.expr, P)
            THEN Raise(t)
            ELSE
            /\ UNCHANGED <<cache, answer>>
            /\ \E r \in Reductions(f.expr, [k \in Positions(f.expr) |->
                  IF {k} \in {S, T} THEN SummedIn(f.expr, {k}) ELSE {}]) :
              Push(t, [f EXCEPT !.extra = @ + r.total, !.dense = @ \/ r.dense,
                                !.merging = <<S, T>>],
                   Frame(Step(f.expr, S, T), f.limit))
    /\ UNCHANGED <<settings, calls, changes, inForce>>

\* Mutant: whether the last step was exact decides.
FallbackOfLast(f) == f.inner.fallback

\* A path is priced exactly only if each of its steps is.
FallbackSoFar(f) == f.fallback \/ f.inner.fallback

\* The cheapest candidate is the price of the step.
Settle(t, f, joint, budget) ==
    LET S == f.merging[1]
        T == f.merging[2]
    IN  SetTop(t, [f EXCEPT
            !.at = "walk", !.inner = None, !.merging = <<>>, !.saved = 0,
            !.extra = @ + Min({f.inner.total} \cup joint \cup
                               (IF Exceeds(1 + Cardinality(OutputGroup(f.expr, S \cup T)), budget)
                                THEN {} ELSE OutputCandidate(f.expr, S, T))),
            !.fallback = FallbackSoFar(f), !.dense = @ \/ f.inner.dense,
            !.parts = (@ \ {S, T}) \cup {S \cup T}])

SettleStep(t) ==
    LET f == Top(t) IN
    /\ At(t, "walk") /\ f.inner # None
    /\ IF \/ OracleRaises(f.expr, f.merging[1] \cup f.merging[2])
          \/ JointRaises(f.expr, f.merging[1], f.merging[2])
       THEN Raise(t)
       ELSE /\ IF JointApplies(f.expr, f.merging[1], f.merging[2])
               THEN SetTop(t, [f EXCEPT !.at = "override", !.saved = settings.dimino])
               ELSE Settle(t, f, {}, settings.dimino)
            /\ UNCHANGED <<cache, answer>>
    /\ UNCHANGED <<settings, calls, changes, inForce>>

\* Mutant: the budget the call started with.
PutBackFirst(f) == f.scope

PutBack(f) == f.saved

\* The joint group is counted, within the budget that was set for it unless another
\* one has been configured since, and the budget read before is set again.
Restore(t) ==
    LET f == Top(t)
        n == Cardinality(JointOnStep(f.expr, f.merging[1], f.merging[2]))
    IN  /\ At(t, "override")
        /\ settings' = [settings EXCEPT !.dimino = PutBack(f)]
        /\ \E budget \in {f.saved, settings.dimino} :
             Settle(t, f, IF Exceeds(n, budget) THEN {}
                          ELSE {JointCandidate(f.expr, f.merging[1], f.merging[2])}, f.saved)
        /\ UNCHANGED <<cache, answer, calls, changes, inForce>>

Finish(t) ==
    LET f == Top(t) IN
    /\ At(t, "walk") /\ f.inner = None /\ Cardinality(f.parts) = 1
    /\ Store(t, Priced(f.extra, f.fallback, f.dense))
    /\ UNCHANGED <<settings, calls, changes, inForce>>

Work(t) ==
    \/ Hit(t) \/ Enumerate(t) \/ Select(t) \/ Close(t) \/ Reduce(t) \/ Combine(t)
    \/ Contract(t) \/ SettleStep(t) \/ Restore(t) \/ Finish(t)

\* Nothing is being priced: a call that is never answered is a deadlock.
Idle == (\A t \in Threads : stack[t] = <<>>) /\ UNCHANGED vars

Next ==
    \/ UNCHANGED program /\ \E t \in Threads : Configure(t) \/ Call(t) \/ Work(t)
    \/ Idle

Spec == Init /\ [][Next]_vars

----------------------------------------------------------------------------
(* Properties.                                                             *)

PriceType == [kind : {"price"}, total : Nat, fallback : BOOLEAN, dense : BOOLEAN]

TypeOK ==
    /\ settings \in [dimino : DiminoBudgets, partition : PartitionBudgets]
    /\ \A key \in DOMAIN cache : cache[key] \in PriceType
    /\ \A t \in Threads : \A i \in DOMAIN stack[t] :
           /\ stack[t][i].at \in {"lookup", "select", "reduce", "walk", "override"}
           /\ stack[t][i].inner \in PriceType \cup {None}
    /\ calls \in 0..MaxCalls /\ changes \in 0..MaxChanges

Closing(t) == At(t, "select") /\ Top(t).rest = {}

\* In whatever order the candidates are tried (_minimal_generators), the ones that
\* are kept generate every renaming that was detected, and nothing else.
GeneratorsSuffice ==
    \A t \in Threads : Closing(t) =>
        Dimino(Labels(Top(t).expr), Top(t).chosen) = Renamings(Top(t).expr)

\* Each regime of the ladder (compute_accumulation) counts the accumulations of its
\* component, as enumerated by their definition.
LadderCounts ==
    \A t \in Threads : Closing(t) =>
        \A c \in Components(Labels(Top(t).expr), Top(t).chosen, Top(t).expr.size, Top(t).expr.out) :
            Ladder(c, Top(t).limit).regime # "unavailable" =>
                Ladder(c, Top(t).limit).count = Cardinality(Accumulations(c))

\* A detected renaming (run_sigma_loop) leaves every product unchanged, in every
\* expression whose operands are whole: the copies of one object are one tensor.
Whole(e) == \A k \in Positions(e) : e.ops[k].labels = e.ops[k].whole.labels
FalselyDetected ==
    {e \in {x \in DOMAIN CandidatesOf : Whole(x)} :
       \E pi \in CandidatesOf[e] : ~ HoldsPointwise(e, pi)}
DetectedHolds ==
    \A t \in Threads : At(t, "select") => Top(t).expr \notin FalselyDetected

\* Labels summed before the rest is counted: only a binary contraction has them.
Early(e, k) == IF Len(e.ops) = 2 THEN Isolated(e, k) ELSE {}
Counted(e) == IF Len(e.ops) = 2 THEN Residual(e) ELSE e

\* Copies of one object stay copies if they were summed over the same axes.
Gone(op) == {a \in DOMAIN op.whole.labels : op.whole.labels[a] \notin ToSet(op.labels)}
Genuine(e) == [e EXCEPT !.same = {C \in @ : \A j, k \in C : Gone(e.ops[j]) = Gone(e.ops[k])}]

\* The exact part of a price, by its definition.
ReferenceReduction(op, L, size) ==
    LET axes == DOMAIN op.labels
        whole == [labels |-> axes, size |-> [a \in axes |-> size[op.labels[a]]],
                  visible |-> axes \ AxesOf(op, L), group |-> AxisGroup(op)]
        events == Accumulations(whole)
    IN  IF L = {} THEN 0 ELSE Cardinality(events) - Cardinality({p[2] : p \in events})

ReferenceTotal(e) ==
    MapThenSumSet(LAMBDA k : ReferenceReduction(e.ops[k], Early(e, k), e.size), Positions(e))
      + ReferencePrice(Genuine(Counted(e)))
Reference == [e \in Single |-> ReferenceTotal(e)]

\* The contractions whose early reductions part the copies of an object.
Parted == {e \in Single : Genuine(Counted(e)) # Counted(e)}

\* A price without a dense part is the one the definition gives: the components, the
\* regimes, the budgets and the cache do not change it, and neither do reductions
\* that leave copies of one object equal.  Where they are reduced over different
\* axes (Residual hands the pattern on), the price is never above the right one, but
\* it may be below.
PriceTrue ==
    \A key \in DOMAIN cache :
        key[1] \in Single /\ ~ cache[key].dense =>
            \/ cache[key].total = Reference[key[1]]
            \/ key[1] \in Parted /\ cache[key].total <= Reference[key[1]]

\* Symmetry is a discount: without a path, a price that is exact is not above the one
\* of the same contraction without any symmetry, and one that was given up, in whole
\* or in part, is not above the dense price (which may be above the former).
WithoutSymmetry(e) ==
    [e EXCEPT !.same = {}, !.ops = [k \in Positions(e) |-> [e.ops[k] EXCEPT !.sym = {}]]]
Plain == [e \in Single |-> ReferenceTotal(WithoutSymmetry(e))]
SymmetryNeverCosts ==
    \A key \in DOMAIN cache :
        key[1] \in Single =>
            cache[key].total <= IF cache[key].dense THEN DensePrice(key[1]) ELSE Plain[key[1]]

\* The symmetry the oracle gives the result (_infer_multi_operand_output_symmetry
\* tags it) holds of the result, where no copies are relabelled together.
FalselyTagged ==
    {e \in Expressions :
       /\ CopyRelabels(e, Positions(e)) = {}
       /\ \E pi \in OutputGroup(e, Positions(e)) : ~ HoldsOfResult(e, pi)}
ResultSymmetryHolds ==
    \A t \in Threads : At(t, "walk") => Top(t).expr \notin FalselyTagged

Generating(e) == {gens \in SUBSET CandidatesOf[e] : Dimino(Labels(e), gens) = Renamings(e)}

\* Contractions that cannot be counted within a limit, whatever generators are kept.
StepsBeyond ==
    {p \in {x \in Single : Exchangeable(Counted(x))} \X PartitionBudgets :
       \A gens \in Generating(Counted(p[1])) :
           ContractionPrice(Counted(p[1]), gens, p[2]).fallback}

\* A path, as the sets of operands it contracts: each is one operand or joins two by
\* a step that can be counted within the limit.
Path(e, limit, tree) ==
    /\ {} \notin tree
    /\ \A P \in tree :
           \/ Cardinality(P) = 1
           \/ \E S, T \in tree : /\ S \cap T = {} /\ S \cup T = P
                                /\ <<Step(e, S, T), limit>> \notin StepsBeyond

PathsBeyond ==
    {p \in {x \in Known : Len(x.ops) >= 3} \X PartitionBudgets :
       ~ \E tree \in SUBSET (SUBSET Positions(p[1])) :
             Positions(p[1]) \in tree /\ Path(p[1], p[2], tree)}

BeyondLimit == StepsBeyond \cup PathsBeyond

\* A call made under a partition budget (einsum_accumulation_cost) is not answered
\* with a count that needed more partitions, whatever generators were kept, also
\* when the budget has been changed since: neither for the contraction, nor for any
\* step of its path.  Of what an operand is summed over before this says nothing:
\* reductions are counted within the budget in force when they run.
LimitHonoured ==
    \A t \in Threads :
        answer[t].kind = "price" /\ ~ answer[t].fallback =>
            <<answer[t].expr, answer[t].limit>> \notin BeyondLimit

\* A budget that has been configured stays in force, except when a thread had the
\* one before saved to set it again (compute_step_cost_from_joint_group).
ConfigureSticks == settings.dimino \in inForce
=============================================================================
