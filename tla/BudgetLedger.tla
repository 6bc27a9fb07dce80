---------------------------- MODULE BudgetLedger ----------------------------
(***************************************************************************)
(* In-process FLOP accounting (src/src/flopscope/_budget.py): threads that *)
(* enter BudgetContexts, charge operations to them, leave them, and reset  *)
(* the session-wide accumulator.  The unit of atomicity is the lock: one   *)
(* action per critical section of a context's _summary_lock or of the      *)
(* accumulator's _lock, so that a close or a reset made of several         *)
(* sections can interleave with the other threads.  Where the code takes   *)
(* no lock, creating the process-wide default, the unit is one access to   *)
(* the shared variable.                                                    *)
(*                                                                         *)
(* Time is abstracted to "past the deadline or not"; names, namespaces and *)
(* durations of operations are left out.  The totals kept by an operation  *)
(* rollup are kept as FLOP sums.                                           *)
(***************************************************************************)
EXTENDS Naturals, FiniteSets, Functions

CONSTANTS
  Threads,
  Explicit,         \* BudgetContext objects the program creates
  Defaults,         \* BudgetContexts that _get_global_default() may create
  NoCtx,            \* Python's None
  NoThread,
  Budget,           \* flop_budget of every context
  Cost,             \* adjusted costs an operation may have
  Programs          \* the ways of using the ledger a behaviour may follow

(***************************************************************************)
(* A way of using the ledger:                                              *)
(*   contexts   the explicit contexts the program opens                    *)
(*   limited    those of them created with wall_time_limit_s               *)
(*   exclusive  it never has one context open in two threads               *)
(*   quiescent  while budget_reset() runs, no other thread has an explicit *)
(*              context open, opens one or closes one                      *)
(***************************************************************************)
Program == [contexts : SUBSET Explicit, limited : SUBSET Explicit,
            exclusive : BOOLEAN, quiescent : BOOLEAN]

Ctx == Explicit \cup Defaults

ASSUME CtxAssumption == Defaults \cap Explicit = {} /\ NoCtx \notin Ctx
ASSUME FiniteAssumption == IsFiniteSet(Ctx)
ASSUME ThreadAssumption == NoThread \notin Threads
ASSUME BudgetAssumption == Budget \in [Ctx -> Nat \ {0}]
ASSUME CostAssumption == Cost \subseteq Nat
ASSUME ProgramAssumption == Programs \subseteq Program

VARIABLES
  program,    \* the way of using the ledger of this behaviour
  active,     \* _thread_local.active_budget
  global,     \* _global_default
  built,      \* the defaults that were created
  previous,   \* ctx._previous_budget
  late,       \* the clock is past ctx._deadline
  used,       \* ctx._flops_used
  recorded,   \* ctx._recorded_flops_used
  unrolled,   \* FLOPs in ctx._unrecorded_rollup
  counted,    \* ctx._budget_recorded
  accUsed,    \* per context, its part of the accumulator's _flops_used
  accRollup,  \* per context, its part of the accumulator's _rollup
  accBudget,  \* how often the context's budget is in _flop_budget
  accLock,    \* holder of the accumulator's lock
  stage,      \* where each thread is
  work,       \* the context its operation, close or baseline works on
  todo,       \* contexts a running budget_reset() has still to baseline
  mark,       \* history: used at the start of the last budget_reset()
  stale       \* history: FLOPs spent before that start and merged after it

ctxVars == <<used, recorded, unrolled, counted>>
accVars == <<accUsed, accRollup, accBudget>>
history == <<mark, stale>>
vars == <<program, active, global, built, previous, late, used, recorded, unrolled,
          counted, accUsed, accRollup, accBudget, accLock, stage, work, todo,
          mark, stale>>

Stage == {"idle", "creating", "adopting", "returning", "required", "upfront",
          "deferred", "exiting", "merged", "marked", "clearing", "baselining"}

\* Inside require_budget(), which found no active context.
Requiring == {"creating", "adopting", "returning"}

Operating == {"upfront", "deferred"}
Closing == {"exiting", "merged", "marked"}

TypeOK ==
  /\ program \in Programs
  /\ active \in [Threads -> Ctx \cup {NoCtx}]
  /\ global \in Defaults \cup {NoCtx}
  /\ built \in SUBSET Defaults
  /\ previous \in [Explicit -> {NoCtx} \cup Defaults]
  /\ late \in [Ctx -> BOOLEAN]
  /\ used \in [Ctx -> Nat]
  /\ recorded \in [Ctx -> Nat]
  /\ unrolled \in [Ctx -> Nat]
  /\ counted \in [Ctx -> BOOLEAN]
  /\ accUsed \in [Ctx -> Nat]
  /\ accRollup \in [Ctx -> Nat]
  /\ accBudget \in [Ctx -> Nat]
  /\ accLock \in Threads \cup {NoThread}
  /\ stage \in [Threads -> Stage]
  /\ work \in [Threads -> Ctx \cup {NoCtx}]
  /\ \A t \in Threads : /\ stage[t] \in {"adopting", "returning"} => global \in Defaults
                        /\ stage[t] = "required" => work[t] \in Defaults
                        /\ stage[t] \in Operating => work[t] \in Ctx
                        /\ stage[t] \in Closing => work[t] \in Explicit
  /\ todo \in [Threads -> SUBSET Ctx]
  /\ mark \in [Ctx -> Nat]
  /\ stale \in Nat

Init ==
  /\ program \in Programs
  /\ active = [t \in Threads |-> NoCtx]
  /\ global = NoCtx
  /\ built = {}
  /\ previous = [c \in Explicit |-> NoCtx]
  /\ late = [c \in Ctx |-> FALSE]
  /\ used = [c \in Ctx |-> 0]
  /\ recorded = [c \in Ctx |-> 0]
  /\ unrolled = [c \in Ctx |-> 0]
  /\ counted = [c \in Ctx |-> FALSE]
  /\ accUsed = [c \in Ctx |-> 0]
  /\ accRollup = [c \in Ctx |-> 0]
  /\ accBudget = [c \in Ctx |-> 0]
  /\ accLock = NoThread
  /\ stage = [t \in Threads |-> "idle"]
  /\ work = [t \in Threads |-> NoCtx]
  /\ todo = [t \in Threads |-> {}]
  /\ mark = [c \in Ctx |-> 0]
  /\ stale = 0

-----------------------------------------------------------------------------
(***************************************************************************)
(* Contexts.                                                               *)
(***************************************************************************)

\* Thread t has explicit context c open, or is still inside its __exit__.
Holds(t, c) == active[t] = c \/ (stage[t] \in Closing /\ work[t] = c)

Open(c) == \E t \in Threads : Holds(t, c)

Active(c) == \E t \in Threads : active[t] = c

\* Defaults that are _global_default no more: another thread's took its place.
Orphaned == built \ {global}

Resetting == \E t \in Threads : stage[t] \in {"clearing", "baselining"}

(***************************************************************************)
(* BudgetContext.__enter__: only the calling thread's own active context   *)
(* is looked at, and the global default may be shadowed.  A thread whose   *)
(* default was replaced is told it must not nest, and stays as it is.      *)
(***************************************************************************)
Enter(t, c) ==
  /\ stage[t] = "idle"
  /\ active[t] \in {NoCtx, global}
  /\ c \in program.contexts
  /\ program.exclusive => ~ Open(c)
  /\ program.quiescent => ~ Resetting
  /\ previous' = [previous EXCEPT ![c] = active[t]]
  /\ active' = [active EXCEPT ![t] = c]
  /\ late' = [late EXCEPT ![c] = FALSE]
  /\ UNCHANGED <<program, global, built, ctxVars, accVars, accLock, stage, work, todo,
                 history>>

\* The wall clock passes the deadline of an open context.
DeadlinePasses(c) ==
  /\ c \in program.limited
  /\ Active(c)
  /\ ~ late[c]
  /\ late' = [late EXCEPT ![c] = TRUE]
  /\ UNCHANGED <<program, active, global, built, previous, ctxVars, accVars, accLock,
                 stage, work, todo, history>>

-----------------------------------------------------------------------------
(***************************************************************************)
(* Operations.                                                             *)
(***************************************************************************)

(***************************************************************************)
(* require_budget() of a thread with no active context, and in it          *)
(* _get_global_default(), which takes no lock: the global is read, found   *)
(* missing, created and assigned, made the active context of this thread   *)
(* and of no other, and read again to be returned.  Of two threads that    *)
(* both found it missing the later one replaces the default of the other.  *)
(***************************************************************************)
RequireBudget(t) ==
  /\ stage[t] = "idle"
  /\ active[t] = NoCtx
  /\ stage' = [stage EXCEPT ![t] = IF global = NoCtx THEN "creating" ELSE "returning"]
  /\ UNCHANGED <<program, active, global, built, previous, late, ctxVars,
                 accVars, accLock, work, todo, history>>

\* Line 2363: a new BudgetContext becomes _global_default.
CreateDefault(t) ==
  /\ stage[t] = "creating"
  /\ \E d \in Defaults \ built : global' = d /\ built' = built \cup {d}
  /\ stage' = [stage EXCEPT ![t] = "adopting"]
  /\ UNCHANGED <<program, active, previous, late, ctxVars, accVars, accLock,
                 work, todo, history>>

\* Line 2368: the global, as it is by now, becomes the thread's active context.
AdoptDefault(t) ==
  /\ stage[t] = "adopting"
  /\ active' = [active EXCEPT ![t] = global]
  /\ stage' = [stage EXCEPT ![t] = "returning"]
  /\ UNCHANGED <<program, global, built, previous, late, ctxVars, accVars,
                 accLock, work, todo, history>>

\* Line 2369: the global is read once more for the operation to be charged to.
ReturnDefault(t) ==
  /\ stage[t] = "returning"
  /\ work' = [work EXCEPT ![t] = global]
  /\ stage' = [stage EXCEPT ![t] = "required"]
  /\ UNCHANGED <<program, active, global, built, previous, late, ctxVars,
                 accVars, accLock, todo, history>>

\* The context the next operation of t is charged to, once it is known.
Required(t) == IF stage[t] = "required" THEN work[t] ELSE active[t]

HasRequired(t) ==
  stage[t] = "required" \/ (stage[t] = "idle" /\ active[t] # NoCtx)

Return(t) ==
  /\ stage' = [stage EXCEPT ![t] = "idle"]
  /\ work' = [work EXCEPT ![t] = NoCtx]

Affordable(c, n) == n <= Budget[c] - used[c]

\* The part of _charge_op that moves FLOPs: the counter and both rollups.
Charge(c, n) ==
  /\ used' = [used EXCEPT ![c] = @ + n]
  /\ unrolled' = [unrolled EXCEPT ![c] = @ + n]
  /\ UNCHANGED <<recorded, counted>>

(***************************************************************************)
(* deduct(): charge, then open the timer around the kernel.  An operation  *)
(* that does not fit raises BudgetExhaustedError and moves nothing; one    *)
(* past the deadline raises TimeExhaustedError after it was charged, and   *)
(* its kernel does not run.                                                *)
(***************************************************************************)
Deduct(t, n) ==
  LET c == Required(t) IN
  /\ HasRequired(t)
  /\ \/ /\ ~ Affordable(c, n)
        /\ Return(t)
        /\ UNCHANGED ctxVars
     \/ /\ Affordable(c, n)
        /\ Charge(c, n)
        /\ IF late[c]
             THEN Return(t)
             ELSE /\ stage' = [stage EXCEPT ![t] = "upfront"]
                  /\ work' = [work EXCEPT ![t] = c]
  /\ UNCHANGED <<program, active, global, built, previous, late, accVars,
                 accLock, todo, history>>

(***************************************************************************)
(* deduct_after(): the timer opens and the kernel runs at once; nothing is *)
(* charged and no deadline is looked at until the block exits.             *)
(***************************************************************************)
BeginDeferred(t) ==
  /\ HasRequired(t)
  /\ stage' = [stage EXCEPT ![t] = "deferred"]
  /\ work' = [work EXCEPT ![t] = Required(t)]
  /\ UNCHANGED <<program, active, global, built, previous, late, ctxVars,
                 accVars, accLock, todo, history>>

(***************************************************************************)
(* _OpTimer.__exit__: the record gets its durations, the charge made up    *)
(* front stays whether the kernel returned, raised, or was too late.       *)
(***************************************************************************)
FinishUpfront(t) ==
  /\ stage[t] = "upfront"
  /\ Return(t)
  /\ UNCHANGED <<program, active, global, built, previous, late, ctxVars, accVars,
                 accLock, todo, history>>

\* Mutant: the budget is not looked at again once the kernel has run.
FinishDeferredUnchecked(t) ==
  /\ stage[t] = "deferred"
  /\ \E n \in Cost : Charge(work[t], n)
  /\ Return(t)
  /\ UNCHANGED <<program, active, global, built, previous, late, accVars, accLock,
                 todo, history>>

(***************************************************************************)
(* _DeferredOpTimer.__exit__: a kernel that raised is not charged (the     *)
(* last disjunct of the second conjunct); one that returned is charged if  *)
(* it fits, and raises BudgetExhaustedError, its result lost, if not.      *)
(***************************************************************************)
FinishDeferred(t) ==
  /\ stage[t] = "deferred"
  /\ \/ \E n \in Cost :
          /\ Affordable(work[t], n)
          /\ Charge(work[t], n)
     \/ UNCHANGED ctxVars
  /\ Return(t)
  /\ UNCHANGED <<program, active, global, built, previous, late, accVars, accLock,
                 todo, history>>

-----------------------------------------------------------------------------
(***************************************************************************)
(* BudgetContext.__exit__ and BudgetAccumulator.record.                    *)
(***************************************************************************)

\* Mutant: the context to record is read after the previous one was restored.
ExitRestoresFirst(t) ==
  /\ stage[t] = "idle"
  /\ active[t] \in Explicit
  /\ active' = [active EXCEPT ![t] = previous[active[t]]]
  /\ stage' = [stage EXCEPT ![t] = "exiting"]
  /\ work' = [work EXCEPT ![t] = previous[active[t]]]
  /\ UNCHANGED <<program, global, built, previous, late, ctxVars, accVars, accLock,
                 todo, history>>

\* The active context is restored before the accumulator's lock is taken.
Exit(t) ==
  /\ stage[t] = "idle"
  /\ active[t] \in Explicit
  /\ active' = [active EXCEPT ![t] = previous[active[t]]]
  /\ stage' = [stage EXCEPT ![t] = "exiting"]
  /\ work' = [work EXCEPT ![t] = active[t]]
  /\ UNCHANGED <<program, global, built, previous, late, ctxVars, accVars, accLock,
                 todo, history>>

\* FLOPs of c the accumulator has not seen.
Delta(c) == IF used[c] > recorded[c] THEN used[c] - recorded[c] ELSE 0

\* Those of them that were spent before the last budget_reset() began.
Overdue(c) == IF mark[c] > recorded[c] THEN mark[c] - recorded[c] ELSE 0

\* Mutant: what was recorded at an earlier close is recorded again.
MergeWholeCounter(t) ==
  LET c == work[t] IN
  /\ stage[t] = "exiting"
  /\ accLock = NoThread
  /\ accLock' = t
  /\ accUsed' = [accUsed EXCEPT ![c] = @ + used[c]]
  /\ accRollup' = [accRollup EXCEPT ![c] = @ + unrolled[c]]
  /\ accBudget' = [accBudget EXCEPT ![c] = IF counted[c] THEN @ ELSE @ + 1]
  /\ stale' = stale + Overdue(c)
  /\ stage' = [stage EXCEPT ![t] = "merged"]
  /\ UNCHANGED <<program, active, global, built, previous, late, ctxVars, work, todo,
                 mark>>

(***************************************************************************)
(* record(): under the accumulator's lock, first section of the context's  *)
(* lock: _snapshot_summary_delta(), merged into the totals.                *)
(***************************************************************************)
Merge(t) ==
  LET c == work[t] IN
  /\ stage[t] = "exiting"
  /\ accLock = NoThread
  /\ accLock' = t
  /\ accUsed' = [accUsed EXCEPT ![c] = @ + Delta(c)]
  /\ accRollup' = [accRollup EXCEPT ![c] = @ + unrolled[c]]
  /\ accBudget' = [accBudget EXCEPT ![c] = IF counted[c] THEN @ ELSE @ + 1]
  /\ stale' = stale + Overdue(c)
  /\ stage' = [stage EXCEPT ![t] = "merged"]
  /\ UNCHANGED <<program, active, global, built, previous, late, ctxVars, work, todo,
                 mark>>

\* Mutant: the rollup is emptied, the boundary of the counter stays.
MarkRollupOnly(c) ==
  /\ unrolled' = [unrolled EXCEPT ![c] = 0]
  /\ counted' = [counted EXCEPT ![c] = TRUE]
  /\ UNCHANGED <<used, recorded>>

\* _mark_recorded(): the boundary moves to what is used now.
MarkRecorded(c) ==
  /\ recorded' = [recorded EXCEPT ![c] = used[c]]
  /\ unrolled' = [unrolled EXCEPT ![c] = 0]
  /\ counted' = [counted EXCEPT ![c] = TRUE]
  /\ UNCHANGED used

\* Second section: the boundary of the merged delta.
Commit(t) ==
  /\ stage[t] = "merged"
  /\ MarkRecorded(work[t])
  /\ stage' = [stage EXCEPT ![t] = "marked"]
  /\ UNCHANGED <<program, active, global, built, previous, late, accVars, accLock,
                 work, todo, history>>

(***************************************************************************)
(* Last section: the closing time is merged (only timing is) and the       *)
(* boundary is moved once more, then the accumulator's lock is released.   *)
(***************************************************************************)
CommitClose(t) ==
  /\ stage[t] = "marked"
  /\ MarkRecorded(work[t])
  /\ accLock' = NoThread
  /\ Return(t)
  /\ UNCHANGED <<program, active, global, built, previous, late, accVars, todo,
                 history>>

-----------------------------------------------------------------------------
(***************************************************************************)
(* budget_reset(): the accumulator is cleared under its lock, then every   *)
(* context is given a new baseline under that context's lock.  The model   *)
(* runs one budget_reset() at a time.                                      *)
(***************************************************************************)

Quiet(t) ==
  \A u \in Threads \ {t} : active[u] \notin Explicit /\ stage[u] = "idle"

CallReset(t) ==
  /\ stage[t] = "idle"
  /\ ~ Resetting
  /\ program.quiescent => Quiet(t)
  /\ stage' = [stage EXCEPT ![t] = "clearing"]
  /\ mark' = used
  /\ stale' = 0
  /\ UNCHANGED <<program, active, global, built, previous, late, ctxVars, accVars,
                 accLock, work, todo>>

\* BudgetAccumulator.reset()
ClearAccumulator(t) ==
  /\ stage[t] = "clearing"
  /\ accLock = NoThread
  /\ accUsed' = [c \in Ctx |-> 0]
  /\ accRollup' = [c \in Ctx |-> 0]
  /\ accBudget' = [c \in Ctx |-> 0]
  /\ stale' = 0
  /\ stage' = [stage EXCEPT ![t] = "baselining"]
  /\ todo' = [todo EXCEPT ![t] = Explicit \cup built]
  /\ UNCHANGED <<program, active, global, built, previous, late, ctxVars, accLock,
                 work, mark>>

\* Mutants: a new baseline that leaves out the rollup, the boundary or the flag.
BaselineKeepsRollup(t, c) ==
  /\ stage[t] = "baselining"
  /\ c \in todo[t]
  /\ recorded' = [recorded EXCEPT ![c] = used[c]]
  /\ UNCHANGED unrolled
  /\ counted' = [counted EXCEPT ![c] = FALSE]
  /\ todo' = [todo EXCEPT ![t] = @ \ {c}]
  /\ UNCHANGED <<program, active, global, built, previous, late, used, accVars,
                 accLock, stage, work, history>>

BaselineKeepsBoundary(t, c) ==
  /\ stage[t] = "baselining"
  /\ c \in todo[t]
  /\ UNCHANGED recorded
  /\ unrolled' = [unrolled EXCEPT ![c] = 0]
  /\ counted' = [counted EXCEPT ![c] = FALSE]
  /\ todo' = [todo EXCEPT ![t] = @ \ {c}]
  /\ UNCHANGED <<program, active, global, built, previous, late, used, accVars,
                 accLock, stage, work, history>>

BaselineKeepsFlag(t, c) ==
  /\ stage[t] = "baselining"
  /\ c \in todo[t]
  /\ recorded' = [recorded EXCEPT ![c] = used[c]]
  /\ unrolled' = [unrolled EXCEPT ![c] = 0]
  /\ UNCHANGED counted
  /\ todo' = [todo EXCEPT ![t] = @ \ {c}]
  /\ UNCHANGED <<program, active, global, built, previous, late, used, accVars,
                 accLock, stage, work, history>>

\* _mark_reset_baseline() of one context
Baseline(t, c) ==
  /\ stage[t] = "baselining"
  /\ c \in todo[t]
  /\ recorded' = [recorded EXCEPT ![c] = used[c]]
  /\ unrolled' = [unrolled EXCEPT ![c] = 0]
  /\ counted' = [counted EXCEPT ![c] = FALSE]
  /\ todo' = [todo EXCEPT ![t] = @ \ {c}]
  /\ UNCHANGED <<program, active, global, built, previous, late, used, accVars,
                 accLock, stage, work, history>>

ResetReturns(t) ==
  /\ stage[t] = "baselining"
  /\ todo[t] = {}
  /\ Return(t)
  /\ UNCHANGED <<program, active, global, built, previous, late, ctxVars, accVars,
                 accLock, todo, history>>

-----------------------------------------------------------------------------
Next ==
  \/ \E c \in Explicit : DeadlinePasses(c)
  \/ \E t \in Threads :
       \/ \E c \in Explicit : Enter(t, c)
       \/ RequireBudget(t)
       \/ CreateDefault(t)
       \/ AdoptDefault(t)
       \/ ReturnDefault(t)
       \/ \E n \in Cost : Deduct(t, n)
       \/ BeginDeferred(t)
       \/ FinishUpfront(t)
       \/ FinishDeferred(t)
       \/ Exit(t)
       \/ Merge(t)
       \/ Commit(t)
       \/ CommitClose(t)
       \/ CallReset(t)
       \/ ClearAccumulator(t)
       \/ \E c \in Ctx : Baseline(t, c)
       \/ ResetReturns(t)

Spec == Init /\ [][Next]_vars

-----------------------------------------------------------------------------
(***************************************************************************)
(* What the accounting promises.                                           *)
(***************************************************************************)

\* FLOPs of c that are neither merged nor being merged.
Pending(c) ==
  IF \E t \in Threads : stage[t] = "merged" /\ work[t] = c THEN 0 ELSE Delta(c)

\* What the session total holds for c once c is closed.
Total(c) == accUsed[c] + Pending(c)

SumOver(f) == FoldFunction(LAMBDA x, y : x + y, 0, f)

\* Mutant: only the active context of the thread is added to the recorded ones.
LiveActiveOnly(t) == {active[t]} \ {NoCtx}

\* _live_summary_contexts() of thread t: the global and the active context.
Live(t) == {global, active[t]} \ {NoCtx}

\* "flops_used" of a budget_summary_dict() called by thread t.
Report(t) == SumOver(accUsed) + SumOver([c \in Live(t) |-> Delta(c)])

\* No context is ever charged past its budget, however threads that share it
\* interleave (_charge_op checks and charges in one critical section).
Enforced == \A c \in Ctx : used[c] <= Budget[c]

\* The per-operation rollups and the FLOP counters are kept separately; in the
\* accumulator, and in the part of a context not yet merged, they agree, so the
\* "operations" of every summary add up to its "flops_used".
SummaryCoherent ==
  \A c \in Ctx : /\ recorded[c] <= used[c]
                 /\ unrolled[c] = used[c] - recorded[c]
                 /\ accRollup[c] = accUsed[c]

\* A FLOP is in the session total at most once, whatever closes, re-entries and
\* resets of whatever threads do to the context it was charged to.
NeverDoubleCounted == \A c \in Ctx : Total(c) <= used[c]

\* Each context is used by one thread at a time and resets are quiescent: what
\* the documentation of budgets shows.
Orderly == program.exclusive /\ program.quiescent

\* The session total without the contexts in hidden.
Without(hidden) == [c \in Ctx |-> IF c \in hidden THEN 0 ELSE Total(c)]

\* In an orderly program, a thread that is alone in having a context open reads
\* the whole session: nothing charged to a closed context or to the default is
\* missing from budget_summary_dict().  All it can miss is what was charged to a
\* default that another thread's replaced (both found _global_default missing),
\* unless that is the thread's own active context.
OwnViewComplete ==
  \A t \in Threads :
    /\ Orderly
    /\ \A u \in Threads \ {t} :
         active[u] \notin Explicit /\ stage[u] \notin Closing
    /\ stage[t] \notin Closing
    => Report(t) = SumOver(Without(Orphaned \ {active[t]}))

\* budget_reset() forgets: once it returned, the session total holds nothing
\* that was spent before it was called.
ResetForgets == ~ Resetting => stale = 0

\* ... in a program whose resets are quiescent: no close or re-entry brings back
\* what was spent before one.
QuietResetForgets == program.quiescent => ResetForgets

\* In an orderly program the session's flop_budget holds the budget of a context
\* at most once, and once whenever it holds FLOPs of that context:
\* flops_remaining is never negative and never inflated.
BudgetBacksUsage ==
  Orderly => \A c \in Explicit :
    /\ accBudget[c] + (IF Active(c) /\ ~ counted[c] THEN 1 ELSE 0) <= 1
    /\ accUsed[c] > 0 => accBudget[c] = 1

\* The abstract session meter, and the total this ledger keeps for it.
Meter == INSTANCE SessionMeter WITH
           Ctx <- Ctx, Defaults <- Defaults, Budget <- Budget,
           spent <- used,
           total <- Without(Orphaned),
           disowned <- Orphaned,
           resetting <- Resetting

\* In an orderly program, closing a context moves FLOPs between its own counter
\* and the accumulator without losing or repeating one.  Two things lower the
\* session total: a running budget_reset(), and a thread that replaces the
\* default another one has just created, whose FLOPs, spent and to come, are in
\* no session total from then on.
MeterSpec ==
  /\ Orderly => Meter!Init
  /\ [][Orderly => Meter!Next]_(Meter!meter)
=============================================================================
