------------------------------ MODULE OpTimers ------------------------------
(***************************************************************************)
(* The timing split of a context (src/src/flopscope/_budget.py): every     *)
(* instant between the first and the last line of a program is the         *)
(* backend's, flopscope's own, or the program's.  Counted operations,      *)
(* their timers, raw numpy calls and calls back into the program nest as   *)
(* one thread's stack of frames; each frame measures its own span and      *)
(* subtracts what was classified inside it.                                *)
(*                                                                         *)
(* A reset starts a new session summary at any moment, from a callback or  *)
(* from another thread, while frames are open.  `spent' is the truth the   *)
(* totals are compared with.  MaxTime, MaxDepth and MaxResets bound a run. *)
(***************************************************************************)
EXTENDS Integers, Sequences, SequencesExt

CONSTANTS
  MaxTime,    \* bound on the clock
  MaxDepth,   \* bound on the frames open at once
  MaxResets   \* bound on budget_reset()

ASSUME BoundAssumption == MaxTime \in Nat /\ MaxDepth \in Nat /\ MaxResets \in Nat

VARIABLES
  now,        \* perf_counter()
  stack,      \* the frames open, innermost last
  total,      \* _total_flopscope_backend_time, ..._overhead_time, _total_user_code_time
  boundary,   \* the totals at the last reset
  resets,     \* resets so far
  spent,      \* history: time since the last reset by what the thread was doing
  blurred     \* history: since the last reset, a case that is not exact occurred

vars == <<now, stack, total, boundary, resets, spent, blurred>>

(***************************************************************************)
(* wrapper: a call of a _counted_wrapper;  timer: a deduct block;          *)
(* call: a _LiveBackendCall;  tracked: one that profiles its callbacks;    *)
(* root: a Python frame entered from a tracked call;                       *)
(* callback: _call_user_code.                                              *)
(***************************************************************************)
Kind == {"wrapper", "timer", "call", "tracked", "root", "callback"}

Bucket == {"backend", "overhead", "user"}

\* Where time goes that passes while a frame is the innermost one.
BucketOf(kind) ==
  CASE kind \in {"wrapper", "timer"} -> "overhead"
    [] kind \in {"call", "tracked"} -> "backend"
    [] kind \in {"root", "callback"} -> "user"

\* `base' is the totals and `mark' the duration of the timer when the frame was
\* opened; `own' is what a timer's calls, or a tracked call's roots, have taken.
Frame == [kind : Kind, start : Nat, base : [Bucket -> Nat], mark : Nat, own : Nat]

TypeOK ==
  /\ now \in Nat
  /\ stack \in Seq(Frame)
  /\ total \in [Bucket -> Nat]
  /\ boundary \in [Bucket -> Nat]
  /\ resets \in Nat
  /\ spent \in [Bucket -> Nat]
  /\ blurred \in BOOLEAN

Nothing == [b \in Bucket |-> 0]

Init ==
  /\ now = 0
  /\ stack = <<>>
  /\ total = Nothing
  /\ boundary = Nothing
  /\ resets = 0
  /\ spent = Nothing
  /\ blurred = FALSE

-----------------------------------------------------------------------------
Idle == stack = <<>>

Innermost == Last(stack).kind

Timers == {i \in DOMAIN stack : stack[i].kind = "timer"}

\* _current_op_timer: its position on the stack.
CurrentTimer == CHOOSE i \in Timers : \A j \in Timers : j <= i

TimerOwn == IF Timers = {} THEN 0 ELSE stack[CurrentTimer].own

Under(kinds) == ~ Idle /\ Innermost \in kinds

Open(kind) ==
  /\ Len(stack) < MaxDepth
  /\ stack' = Append(stack, [kind |-> kind, start |-> now, base |-> total,
                             mark |-> TimerOwn, own |-> 0])
  /\ UNCHANGED <<now, total, boundary, resets, spent>>

Within(kinds) == \E i \in DOMAIN stack : stack[i].kind \in kinds

\* A counted operation called by the program, by another or from numpy.
EnterWrapper ==
  /\ Idle \/ Under({"wrapper", "timer", "call", "root", "callback"})
  /\ Open("wrapper")
  /\ UNCHANGED blurred

EnterTimer ==
  /\ Idle \/ Under({"wrapper", "timer"})
  /\ Open("timer")
  /\ UNCHANGED blurred

BeginCall(kind) ==
  /\ Under({"timer", "call", "root"})
  /\ Timers # {}
  /\ Open(kind)
  /\ UNCHANGED blurred

\* Python entered from a tracked call.
EnterRoot ==
  /\ Under({"tracked"})
  /\ Open("root")
  /\ blurred' = (blurred \/ Within({"callback"}))

\* A callback of the program, before the operation is charged.
EnterCallback ==
  /\ Under({"wrapper"})
  /\ Open("callback")
  /\ blurred' = (blurred \/ Within({"callback"}))

-----------------------------------------------------------------------------
\* Mutant: the difference is not clamped.
BeyondUnclamped(a, b) == a - b

\* max(a - b, 0.0)
Beyond(a, b) == IF a > b THEN a - b ELSE 0

Elapsed(f) == now - f.start

Gained(f, b) == total[b] - f.base[b]

Nested(f) == Gained(f, "backend") + Gained(f, "overhead")

Classified(f) == Nested(f) + Gained(f, "user")

\* The frame closed is gone; `own' of the frame at position i grew by n.
Close(i, n) ==
  stack' = Front([stack EXCEPT ![i].own = @ + n])

Add(b, n) == [total EXCEPT ![b] = @ + n]

Closed == UNCHANGED <<now, boundary, resets, spent, blurred>>

\* What is left of the span of a wrapper is its own.
ExitWrapper ==
  /\ Under({"wrapper"})
  /\ LET f == Last(stack) IN total' = Add("overhead", Beyond(Elapsed(f), Classified(f)))
  /\ stack' = Front(stack)
  /\ Closed

\* Mutant: time of the program inside the block is taken for overhead.
ExitTimerKeepsUser ==
  /\ Under({"timer"})
  /\ LET f == Last(stack) IN
       total' = [total EXCEPT !["backend"] = @ + f.own,
                   !["overhead"] = @ + Beyond(Elapsed(f), f.own + Nested(f))]
  /\ stack' = Front(stack)
  /\ Closed

\* The calls of a block are the backend's, the rest of it flopscope's.
ExitTimer ==
  /\ Under({"timer"})
  /\ LET f == Last(stack) IN
       total' = [total EXCEPT !["backend"] = @ + f.own,
                   !["overhead"] = @ + Beyond(Elapsed(f), f.own + Classified(f))]
  /\ stack' = Front(stack)
  /\ Closed

\* commit() without a tracker: what was classified meanwhile, in the totals or in
\* the timer, is not the call's.
EndCall ==
  /\ Under({"call"})
  /\ LET f == Last(stack) IN
       Close(CurrentTimer, Beyond(Elapsed(f), Classified(f) + (TimerOwn - f.mark)))
  /\ UNCHANGED total
  /\ Closed

\* commit() with a tracker: the spans of the roots are not the call's.
EndTracked ==
  /\ Under({"tracked"})
  /\ LET f == Last(stack) IN Close(CurrentTimer, Beyond(Elapsed(f), f.own))
  /\ UNCHANGED total
  /\ Closed

\* The tracker's return event; the tracked call is the frame below.
ReturnRoot ==
  /\ Under({"root"})
  /\ LET f == Last(stack) IN
       /\ total' = Add("user", Beyond(Elapsed(f), Classified(f) + (TimerOwn - f.mark)))
       /\ Close(Len(stack) - 1, Elapsed(f))
  /\ Closed

\* _call_user_code(): what the program spent in callbacks of its own is not
\* subtracted.
ExitCallback ==
  /\ Under({"callback"})
  /\ LET f == Last(stack) IN total' = Add("user", Beyond(Elapsed(f), Nested(f)))
  /\ stack' = Front(stack)
  /\ Closed

-----------------------------------------------------------------------------
Tick ==
  /\ now < MaxTime
  /\ now' = now + 1
  /\ spent' = [spent EXCEPT ![IF Idle THEN "user" ELSE BucketOf(Innermost)] = @ + 1]
  /\ UNCHANGED <<stack, total, boundary, resets, blurred>>

\* _rebase_after_reset() of a timer, of a call, and of the roots of its tracker.
Rebased(f) ==
  [f EXCEPT !.start = now, !.base = total, !.mark = 0, !.own = 0]

Rebases == {"timer", "call", "tracked", "root"}

\* Mutant: calls in progress are not rebased.
ResetTimersOnly ==
  /\ resets < MaxResets
  /\ resets' = resets + 1
  /\ boundary' = total
  /\ spent' = Nothing
  /\ stack' = [i \in DOMAIN stack |->
                 IF stack[i].kind = "timer" THEN Rebased(stack[i]) ELSE stack[i]]
  /\ blurred' = Within({"wrapper"})
  /\ UNCHANGED <<now, total>>

\* _mark_reset_baseline(): wrappers and callbacks in progress are not rebased.
Reset ==
  /\ resets < MaxResets
  /\ resets' = resets + 1
  /\ boundary' = total
  /\ spent' = Nothing
  /\ stack' = [i \in DOMAIN stack |->
                 IF stack[i].kind \in Rebases THEN Rebased(stack[i]) ELSE stack[i]]
  /\ blurred' = Within({"wrapper"})
  /\ UNCHANGED <<now, total>>

Next ==
  \/ Tick
  \/ EnterWrapper \/ ExitWrapper
  \/ EnterTimer \/ ExitTimer
  \/ BeginCall("call") \/ EndCall
  \/ BeginCall("tracked") \/ EndTracked
  \/ EnterRoot \/ ReturnRoot
  \/ EnterCallback \/ ExitCallback
  \/ Reset

Spec == Init /\ [][Next]_vars

-----------------------------------------------------------------------------
\* What a summary reports of a bucket since the last reset.
Reported(b) == total[b] - boundary[b]

\* The split is exact once nothing is in progress, whatever nested, unless a
\* callback ran inside a callback or a wrapper was open at a reset.
SplitExact ==
  Idle /\ ~ blurred =>
    Reported("backend") = spent["backend"] /\ Reported("overhead") = spent["overhead"]

\* Until the first reset no instant is counted twice, in whatever state the frames
\* are: neither the backend nor flopscope is credited with more than passed in it.
\* That stays so after a reset with no wrapper open, as long as no callback runs in a
\* callback.  A wrapper open at a reset keeps its start, so flopscope is then credited
\* with time from before it.
NothingTwice ==
  resets = 0 \/ ~ blurred =>
    \A b \in {"backend", "overhead"} : Reported(b) <= spent[b]

\* Once nothing is in progress, no time of flopscope itself is missing: the split
\* is exact, and nesting is handled, as the documentation of the totals says.
OverheadComplete == Idle => Reported("overhead") >= spent["overhead"]
=============================================================================
