---------------------------- MODULE OpTimersProofs ----------------------------
(***************************************************************************)
(* Proofs about OpTimers, for any depth of frames and any number of ticks  *)
(* and resets.                                                             *)
(***************************************************************************)
EXTENDS OpTimers, SequenceTheorems, TLAPS

USE BoundAssumption

-----------------------------------------------------------------------------
(***************************************************************************)
(* Frames opened and closed.                                               *)
(***************************************************************************)
\* The sequence without its last element.
LEMMA FrontOf ==
  ASSUME NEW S, NEW s \in Seq(S), s # <<>>
  PROVE  /\ Front(s) \in Seq(S)
         /\ Len(s) \in Nat \ {0} /\ Len(Front(s)) = Len(s) - 1
         /\ DOMAIN Front(s) = 1 .. Len(s) - 1
         /\ \A i \in 1 .. Len(s) - 1 : Front(s)[i] = s[i]
         /\ Last(s) = s[Len(s)] /\ Last(s) \in S
<1>1. Len(s) \in Nat \ {0} /\ DOMAIN s = 1 .. Len(s)
  BY EmptySeq
<1>2. \A i \in 1 .. Len(s) - 1 : s[i] \in S
  BY <1>1
<1>3. /\ Front(s) \in Seq(S) /\ Len(Front(s)) = Len(s) - 1
      /\ \A i \in 1 .. Len(s) - 1 : Front(s)[i] = s[i]
  BY <1>1, <1>2, SubSeqProperties DEF Front
<1> QED BY <1>1, <1>3 DEF Last

\* A frame with another own time.
LEMMA OwnUpdate ==
  ASSUME NEW f \in Frame, NEW x \in Nat
  PROVE  [f EXCEPT !.own = @ + x] \in Frame
<1>1. f.own + x \in Nat
  BY DEF Frame
<1> QED BY <1>1, Zenon DEF Frame

\* r is s without its innermost frame, and the frame at j has x more of its own.
Shrunk(s, r, j, x) ==
  /\ r \in Seq(Frame) /\ Len(s) \in Nat \ {0} /\ Len(r) = Len(s) - 1
  /\ \A i \in 1 .. Len(s) - 1 :
       /\ r[i].kind = s[i].kind /\ r[i].start = s[i].start
       /\ r[i].base = s[i].base /\ r[i].mark = s[i].mark
       /\ r[i].own = s[i].own + (IF i = j THEN x ELSE 0)

\* Closing a frame that credits the frame at j.
LEMMA CloseProperties ==
  ASSUME NEW s \in Seq(Frame), s # <<>>, NEW j, NEW x \in Nat
  PROVE  Shrunk(s, Front([s EXCEPT ![j].own = @ + x]), j, x)
<1> DEFINE e == [s EXCEPT ![j].own = @ + x]
<1>1. Len(s) \in Nat \ {0} /\ DOMAIN s = 1 .. Len(s) /\ \A i \in 1 .. Len(s) : s[i] \in Frame
  BY EmptySeq
<1>2. /\ DOMAIN e = 1 .. Len(s)
      /\ \A i \in 1 .. Len(s) : e[i] = IF i = j THEN [s[i] EXCEPT !.own = @ + x] ELSE s[i]
  BY <1>1
<1>3. \A i \in 1 .. Len(s) : /\ e[i] \in Frame
                             /\ e[i].kind = s[i].kind /\ e[i].start = s[i].start
                             /\ e[i].base = s[i].base /\ e[i].mark = s[i].mark
                             /\ e[i].own = s[i].own + (IF i = j THEN x ELSE 0)
  <2> SUFFICES ASSUME NEW i \in 1 .. Len(s)
               PROVE  /\ e[i] \in Frame
                      /\ e[i].kind = s[i].kind /\ e[i].start = s[i].start
                      /\ e[i].base = s[i].base /\ e[i].mark = s[i].mark
                      /\ e[i].own = s[i].own + (IF i = j THEN x ELSE 0)
    OBVIOUS
  <2>1. s[i] \in Frame
    BY <1>1
  <2>2. [s[i] EXCEPT !.own = @ + x] \in Frame
    BY <2>1, OwnUpdate
  <2>3. CASE i = j
    <3>1. e[i] = [s[i] EXCEPT !.own = @ + x]
      BY <1>2, <2>3
    <3> HIDE DEF e
    <3> QED BY <2>1, <2>2, <2>3, <3>1 DEF Frame
  <2>4. CASE i # j
    <3>1. e[i] = s[i]
      BY <1>2, <2>4
    <3> HIDE DEF e
    <3> QED BY <2>1, <2>4, <3>1 DEF Frame
  <2> QED BY <2>3, <2>4
<1>4. e = [i \in 1 .. Len(s) |-> e[i]]
  BY <1>2
<1>5. e \in Seq(Frame) /\ Len(e) = Len(s)
  <2> HIDE DEF e
  <2>1. e \in Seq(Frame)
    BY <1>1, <1>3, <1>4
  <2> QED BY <1>1, <1>2, <2>1
<1>6. e # <<>>
  <2> HIDE DEF e
  <2> QED BY <1>1, <1>5
<1>7. /\ Front(e) \in Seq(Frame) /\ Len(Front(e)) = Len(e) - 1
      /\ \A i \in 1 .. Len(e) - 1 : Front(e)[i] = e[i]
  BY <1>5, <1>6, FrontOf
<1> HIDE DEF e
<1>8. ASSUME NEW i \in 1 .. Len(s) - 1
      PROVE  Front(e)[i] = e[i] /\ i \in 1 .. Len(s)
  <2>1. i \in 1 .. Len(s)
    BY <1>1, <1>8
  <2>2. Front(e)[i] = e[i]
    BY <1>5, <1>7, <1>8
  <2> QED BY <2>1, <2>2
<1>9. Shrunk(s, Front(e), j, x)
  BY <1>1, <1>3, <1>5, <1>7, <1>8 DEF Shrunk
<1> QED BY <1>9 DEF e

-----------------------------------------------------------------------------
(***************************************************************************)
(* How frames nest, and whose timer is running.                            *)
(***************************************************************************)
Depth == Len(stack)

\* An open frame.
LEMMA FrameAt ==
  ASSUME TypeOK, NEW i \in 1 .. Depth
  PROVE  stack[i] \in Frame
<1>1. stack \in Seq(Frame) /\ i \in 1 .. Len(stack)
  BY DEF TypeOK, Depth
<1> QED BY <1>1

\* The kinds a frame can be opened under.
Parents(kind) ==
  CASE kind = "wrapper" -> {"none", "wrapper", "timer", "call", "root", "callback"}
    [] kind = "timer" -> {"none", "wrapper", "timer"}
    [] kind \in {"call", "tracked"} -> {"timer", "call", "root"}
    [] kind = "root" -> {"tracked"}
    [] kind = "callback" -> {"wrapper"}

\* The kind of the frame below.
ParentOf(s, i) == IF i = 1 THEN "none" ELSE s[i - 1].kind

\* Every frame is under one that can open it, and began in the past.
ShapeInv ==
  \A i \in 1 .. Depth :
    ParentOf(stack, i) \in Parents(stack[i].kind) /\ stack[i].start <= now

\* t is the innermost timer below position i, or 0.
InnermostTimer(s, i, t) ==
  /\ t \in 0 .. i - 1
  /\ t # 0 => s[t].kind = "timer"
  /\ \A j \in 1 .. i - 1 : s[j].kind = "timer" => j <= t

\* What the timer at t has.
OwnOf(s, t) == IF t = 0 THEN 0 ELSE s[t].own

\* top[i] is the innermost timer below position i.
TopInv(top) == \A i \in 1 .. Depth + 1 : InnermostTimer(stack, i, top[i])

\* The timer a timer restores has what it had when the block was entered.
MarkInv(top) ==
  \A i \in 1 .. Depth : stack[i].kind = "timer" => stack[i].mark = OwnOf(stack, top[i])

\* A call is timed by a block around it.
CallInv(top) ==
  \A i \in 1 .. Depth : stack[i].kind \in {"call", "tracked"} => top[i] # 0

\* How frames nest.
NestInv(top) == ShapeInv /\ TopInv(top) /\ MarkInv(top) /\ CallInv(top)

\* What the current timer has, by its position.
LEMMA OwnOfCurrent ==
  ASSUME NEW s \in Seq(Frame), NEW t, InnermostTimer(s, Len(s) + 1, t)
  PROVE  LET T == {i \in DOMAIN s : s[i].kind = "timer"}
             C == CHOOSE i \in T : \A j \in T : j <= i IN
         /\ T # {} <=> t # 0
         /\ t # 0 => C = t
         /\ (IF T = {} THEN 0 ELSE s[C].own) = OwnOf(s, t)
         /\ OwnOf(s, t) \in Nat
<1> DEFINE T == {i \in DOMAIN s : s[i].kind = "timer"}
           C == CHOOSE i \in T : \A j \in T : j <= i
<1>1. DOMAIN s = 1 .. Len(s) /\ Len(s) \in Nat /\ \A i \in 1 .. Len(s) : s[i] \in Frame
  OBVIOUS
<1>2. t \in 0 .. Len(s) /\ \A j \in T : j <= t /\ j \in 1 .. Len(s)
  BY <1>1 DEF InnermostTimer
<1>3. CASE t = 0
  <2>1. T = {}
    BY <1>1, <1>2, <1>3
  <2> QED BY <1>3, <2>1 DEF OwnOf
<1>4. CASE t # 0
  <2>1. t \in T
    BY <1>1, <1>2, <1>4 DEF InnermostTimer
  <2>2. \A i \in T : (\A j \in T : j <= i) => i = t
    <3> HIDE DEF T
    <3> QED BY <1>2, <2>1
  <2>3. C = t
    <3> HIDE DEF T
    <3> QED BY <1>2, <2>1, <2>2
  <2>4. s[t].own \in Nat
    BY <1>1, <2>1 DEF Frame
  <2> HIDE DEF C
  <2>5. OwnOf(s, t) = s[t].own
    BY <1>4 DEF OwnOf
  <2>6. T # {}
    BY <2>1, Zenon
  <2>7. (IF T = {} THEN 0 ELSE s[C].own) = s[t].own
    BY <2>3, <2>6, Zenon
  <2> QED BY <1>4, <2>3, <2>4, <2>5, <2>6, <2>7, Zenon DEF C
<1> QED BY <1>3, <1>4

\* The same of the state.
LEMMA TimerOwnIs ==
  ASSUME stack \in Seq(Frame), NEW t, InnermostTimer(stack, Depth + 1, t)
  PROVE  /\ TimerOwn = OwnOf(stack, t) /\ TimerOwn \in Nat
         /\ Timers # {} <=> t # 0
         /\ t # 0 => CurrentTimer = t
  BY OwnOfCurrent, Zenon DEF TimerOwn, Timers, CurrentTimer, Depth

\* After the step.
LEMMA TimerOwnBecomes ==
  ASSUME stack' \in Seq(Frame), NEW t, InnermostTimer(stack', Depth' + 1, t)
  PROVE  TimerOwn' = OwnOf(stack', t) /\ TimerOwn' \in Nat
  BY OwnOfCurrent, Zenon DEF TimerOwn, Timers, CurrentTimer, Depth

-----------------------------------------------------------------------------
(***************************************************************************)
(* What a step does to the frames: it lets the clock tick, opens a frame,  *)
(* closes one, or resets.                                                  *)
(***************************************************************************)
Opening(kind) ==
  /\ stack' \in Seq(Frame) /\ Depth \in Nat /\ Depth' = Depth + 1
  /\ \A i \in 1 .. Depth : stack'[i] = stack[i]
  /\ stack'[Depth + 1] = [kind |-> kind, start |-> now, base |-> total,
                          mark |-> TimerOwn, own |-> 0]
  /\ ParentOf(stack', Depth + 1) \in Parents(kind)
  /\ kind \in {"call", "tracked"} => Timers # {}
  /\ UNCHANGED <<now, total, boundary, resets, spent>>
  /\ blurred' \in BOOLEAN /\ (blurred => blurred')
  /\ kind \in {"root", "callback"} /\ ~ blurred' =>
       \A i \in 1 .. Depth : stack[i].kind # "callback"

\* What the innermost frame pays to the totals and, x, to another frame.
Due(paid, x) ==
  LET f == stack[Depth] IN
    \/ /\ f.kind = "wrapper"
       /\ x = 0 /\ paid["backend"] = 0 /\ paid["user"] = 0
       /\ paid["overhead"] = Beyond(Elapsed(f), Classified(f))
    \/ /\ f.kind = "timer"
       /\ x = 0 /\ paid["backend"] = f.own /\ paid["user"] = 0
       /\ paid["overhead"] = Beyond(Elapsed(f), f.own + Classified(f))
    \/ /\ f.kind = "callback"
       /\ x = 0 /\ paid["backend"] = 0 /\ paid["overhead"] = 0
       /\ paid["user"] = Beyond(Elapsed(f), Nested(f))
    \/ /\ f.kind = "call"
       /\ x = Beyond(Elapsed(f), Classified(f) + (TimerOwn - f.mark))
       /\ \A b \in Bucket : paid[b] = 0
    \/ /\ f.kind = "tracked"
       /\ x = Beyond(Elapsed(f), f.own)
       /\ \A b \in Bucket : paid[b] = 0
    \/ /\ f.kind = "root"
       /\ x = Elapsed(f) /\ paid["backend"] = 0 /\ paid["overhead"] = 0
       /\ paid["user"] = Beyond(Elapsed(f), Classified(f) + (TimerOwn - f.mark))

\* The innermost frame is gone; the one at j has x more of its own.
Closing(paid, j, x) ==
  /\ Shrunk(stack, stack', j, x)
  /\ total' \in [Bucket -> Nat] /\ \A b \in Bucket : total'[b] = total[b] + paid[b]
  /\ stack[Depth].kind \in {"call", "tracked"} => j = CurrentTimer
  /\ stack[Depth].kind = "root" => j = Depth - 1
  /\ Due(paid, x)
  /\ UNCHANGED <<now, boundary, resets, spent, blurred>>

\* Wrappers and callbacks keep what they started with.
Resetting ==
  /\ stack' \in Seq(Frame) /\ Depth \in Nat /\ Depth' = Depth
  /\ \A i \in 1 .. Depth :
       /\ stack'[i].kind = stack[i].kind
       /\ stack[i].kind \in Rebases => /\ stack'[i].start = now /\ stack'[i].base = total
                                       /\ stack'[i].mark = 0 /\ stack'[i].own = 0
       /\ stack[i].kind \notin Rebases => stack'[i] = stack[i]
  /\ resets' = resets + 1 /\ boundary' = total /\ spent' = Nothing
  /\ blurred' \in BOOLEAN
  /\ ~ blurred' => \A i \in 1 .. Depth : stack[i].kind # "wrapper"
  /\ UNCHANGED <<now, total>>

\* The time goes to the innermost frame.
Ticking ==
  /\ now' = now + 1
  /\ spent' = [spent EXCEPT ![IF Depth = 0 THEN "user" ELSE BucketOf(stack[Depth].kind)] = @ + 1]
  /\ UNCHANGED <<stack, total, boundary, resets, blurred>>

\* Opening a frame.
LEMMA OpenStep ==
  ASSUME TypeOK, NEW top, TopInv(top), NEW kind \in Kind, Open(kind),
         (IF Idle THEN "none" ELSE Innermost) \in Parents(kind),
         kind \in {"call", "tracked"} => Timers # {},
         blurred' = (blurred \/ (kind \in {"root", "callback"} /\ Within({"callback"})))
  PROVE  Opening(kind)
<1> DEFINE f == [kind |-> kind, start |-> now, base |-> total, mark |-> TimerOwn, own |-> 0]
<1>1. Depth \in Nat /\ InnermostTimer(stack, Depth + 1, top[Depth + 1])
  BY DEF TypeOK, TopInv, Depth
<1>2. TimerOwn \in Nat
  BY <1>1, TimerOwnIs DEF TypeOK
<1>3. f \in Frame
  BY <1>2 DEF TypeOK, Frame
<1>4. stack' = Append(stack, f)
  BY DEF Open
<1> HIDE DEF f
<1>5. /\ stack' \in Seq(Frame) /\ Depth' = Depth + 1
      /\ \A i \in 1 .. Depth : stack'[i] = stack[i]
      /\ stack'[Depth + 1] = f
  BY <1>3, <1>4, AppendProperties DEF TypeOK, Depth
<1>6. ParentOf(stack', Depth + 1) = IF Idle THEN "none" ELSE Innermost
  BY <1>1, <1>5, EmptySeq DEF TypeOK, ParentOf, Idle, Innermost, Last, Depth
<1>7. Within({"callback"}) <=> \E i \in 1 .. Depth : stack[i].kind = "callback"
  BY DEF TypeOK, Within, Depth
<1>8. UNCHANGED <<now, total, boundary, resets, spent>>
  BY DEF Open
<1>9. blurred' \in BOOLEAN /\ (blurred => blurred')
  BY DEF TypeOK
<1>10. kind \in {"root", "callback"} /\ ~ blurred' =>
         \A i \in 1 .. Depth : stack[i].kind # "callback"
  BY <1>7
<1> QED BY <1>1, <1>5, <1>6, <1>8, <1>9, <1>10 DEF Opening, f

\* Closing a frame: what it is paid for.
LEMMA CloseStep ==
  ASSUME TypeOK, NEW top \in [Nat -> Nat], NestInv(top), ~ Idle,
         \/ ExitWrapper \/ ExitTimer \/ ExitCallback \/ EndCall \/ EndTracked \/ ReturnRoot
  PROVE  \E paid \in [Bucket -> Nat], j \in Nat, x \in Nat : Closing(paid, j, x)
<1> DEFINE f == stack[Depth]
<1>0. stack \in Seq(Frame) /\ stack # <<>>
  BY DEF TypeOK, Idle
<1>1. /\ Depth \in Nat \ {0} /\ f \in Frame /\ Last(stack) = f /\ Innermost = f.kind
      /\ Front(stack) \in Seq(Frame) /\ Len(Front(stack)) = Depth - 1
      /\ \A i \in 1 .. Depth - 1 : Front(stack)[i] = stack[i] /\ stack[i] \in Frame
  <2>1. /\ Front(stack) \in Seq(Frame)
        /\ Len(stack) \in Nat \ {0} /\ Len(Front(stack)) = Len(stack) - 1
        /\ \A i \in 1 .. Len(stack) - 1 : Front(stack)[i] = stack[i]
        /\ Last(stack) = stack[Len(stack)]
    BY <1>0, FrontOf
  <2>2. \A i \in 1 .. Depth : stack[i] \in Frame
    BY FrameAt
  <2>3. Depth \in Nat \ {0} /\ Depth \in 1 .. Depth /\ \A i \in 1 .. Depth - 1 : i \in 1 .. Depth
    <3>1. Depth \in Nat \ {0}
      BY <2>1 DEF Depth
    <3> HIDE <2>1
    <3> QED BY <3>1
  <2>4. f \in Frame /\ Last(stack) = f /\ Innermost = f.kind
    BY <2>1, <2>2, <2>3 DEF Depth, Innermost
  <2> HIDE DEF f
  <2> QED BY <2>1, <2>2, <2>3, <2>4 DEF Depth
<1>2. /\ InnermostTimer(stack, Depth + 1, top[Depth + 1]) /\ top[Depth + 1] \in Nat
  BY <1>1, SMTT(30) DEF NestInv, TopInv
<1>3. /\ TimerOwn \in Nat
      /\ top[Depth + 1] # 0 => CurrentTimer = top[Depth + 1]
  BY <1>0, <1>2, TimerOwnIs
<1>4. Elapsed(f) \in Nat
  <2>1. f.start <= now
    BY <1>1 DEF NestInv, ShapeInv
  <2>2. f.start \in Nat
    BY <1>1 DEF Frame
  <2>3. now \in Nat
    BY DEF TypeOK
  <2> HIDE DEF f
  <2> QED BY <2>1, <2>2, <2>3 DEF Elapsed
<1>5. /\ f.own \in Nat /\ f.mark \in Nat /\ f.kind \in Kind
      /\ Nested(f) \in Int /\ Classified(f) \in Int
  <2>1. f.own \in Nat /\ f.mark \in Nat /\ f.kind \in Kind /\ f.base \in [Bucket -> Nat]
    BY <1>1 DEF Frame
  <2> HIDE DEF f
  <2>2. \A b \in Bucket : Gained(f, b) \in Int
    <3>1. ASSUME NEW b \in Bucket PROVE total[b] \in Nat /\ f.base[b] \in Nat
      BY <2>1 DEF TypeOK
    <3> QED BY <3>1 DEF Gained
  <2> QED BY <2>1, <2>2 DEF Nested, Classified, Bucket
<1>6. \A a, b \in Int : Beyond(a, b) \in Nat
  BY DEF Beyond
<1>7. ASSUME stack' = Front(stack), Closed, NEW paid \in [Bucket -> Nat],
             total' \in [Bucket -> Nat], \A b \in Bucket : total'[b] = total[b] + paid[b],
             f.kind \in {"wrapper", "timer", "callback"}, Due(paid, 0)
      PROVE  Closing(paid, 0, 0)
  <2>1. \A i \in 1 .. Depth - 1 : stack'[i] = stack[i] /\ stack[i].own \in Nat
    BY <1>1, <1>7 DEF Frame
  <2>2. \A i \in 1 .. Depth - 1 : stack'[i].own = stack[i].own + (IF i = 0 THEN 0 ELSE 0)
    BY <2>1
  <2>3. Shrunk(stack, stack', 0, 0)
    BY <1>1, <1>7, <2>1, <2>2 DEF Shrunk, Depth
  <2>4. UNCHANGED <<now, boundary, resets, spent, blurred>>
    BY <1>7 DEF Closed
  <2> QED BY <1>7, <2>3, <2>4 DEF Closing, f
<1>8. ASSUME NEW j \in Nat, NEW x \in Nat, Close(j, x), Closed, NEW paid \in [Bucket -> Nat],
             total' \in [Bucket -> Nat], \A b \in Bucket : total'[b] = total[b] + paid[b],
             f.kind \in {"call", "tracked"} => j = CurrentTimer,
             f.kind = "root" => j = Depth - 1, Due(paid, x)
      PROVE  Closing(paid, j, x)
  <2>1. Shrunk(stack, stack', j, x)
    <3>1. stack' = Front([stack EXCEPT ![j].own = @ + x])
      BY <1>8 DEF Close
    <3> QED BY <1>0, <1>8, <3>1, CloseProperties
  <2> QED BY <1>1, <1>8, <2>1 DEF Closing, Closed
<1>20. total \in [Bucket -> Nat]
  BY DEF TypeOK
<1>22. ASSUME NEW c \in Bucket, NEW m \in Nat, NEW paid \in [Bucket -> Nat], total' = Add(c, m),
              \A b \in Bucket : paid[b] = IF b = c THEN m ELSE 0
       PROVE  total' \in [Bucket -> Nat] /\ \A b \in Bucket : total'[b] = total[b] + paid[b]
  BY <1>20, <1>22 DEF Add
<1>23. ASSUME UNCHANGED total
       PROVE  total' \in [Bucket -> Nat] /\ \A b \in Bucket : total'[b] = total[b] + Nothing[b]
  BY <1>20, <1>23 DEF Nothing
<1>24. Nothing \in [Bucket -> Nat] /\ \A b \in Bucket : Nothing[b] = 0
  BY DEF Nothing
<1>25. "backend" \in Bucket /\ "overhead" \in Bucket /\ "user" \in Bucket
  BY DEF Bucket
<1> HIDE DEF f
<1>9. CASE ExitWrapper
  <2> DEFINE m == Beyond(Elapsed(f), Classified(f))
             paid == [a \in Bucket |-> IF a = "overhead" THEN m ELSE 0]
  <2>1. m \in Nat
    BY <1>4, <1>5, <1>6
  <2>2. total' = Add("overhead", m) /\ stack' = Front(stack) /\ Closed /\ f.kind = "wrapper"
    BY <1>1, <1>9, Zenon DEF ExitWrapper, Under
  <2> HIDE DEF m
  <2>3. paid \in [Bucket -> Nat]
    BY <2>1
  <2>4. total' \in [Bucket -> Nat] /\ \A b \in Bucket : total'[b] = total[b] + paid[b]
    BY <1>22, <1>25, <2>1, <2>2, <2>3, ZenonT(30)
  <2>5. paid["backend"] = 0 /\ paid["user"] = 0 /\ paid["overhead"] = m
    BY <1>25
  <2> HIDE DEF paid
  <2>6. Due(paid, 0)
    BY <2>2, <2>5 DEF Due, m, f
  <2>7. Closing(paid, 0, 0)
    BY <1>7, <2>2, <2>3, <2>4, <2>6
  <2> QED BY <2>3, <2>7
<1>10. CASE ExitTimer
  <2> DEFINE m == Beyond(Elapsed(f), f.own + Classified(f))
             paid == [a \in Bucket |-> IF a = "overhead" THEN m ELSE
                                       IF a = "backend" THEN f.own ELSE 0]
  <2>1. m \in Nat
    <3>1. Elapsed(f) \in Int /\ f.own + Classified(f) \in Int
      BY <1>4, <1>5
    <3> QED BY <1>6, <3>1
  <2>2. /\ total' = [total EXCEPT !["backend"] = @ + f.own, !["overhead"] = @ + m]
        /\ stack' = Front(stack) /\ Closed /\ f.kind = "timer"
    BY <1>1, <1>10, Zenon DEF ExitTimer, Under
  <2> HIDE DEF m
  <2>3. paid \in [Bucket -> Nat]
    BY <1>5, <2>1
  <2>4. total' \in [Bucket -> Nat] /\ \A b \in Bucket : total'[b] = total[b] + paid[b]
    BY <1>5, <1>20, <1>25, <2>1, <2>2
  <2>5. paid["backend"] = f.own /\ paid["user"] = 0 /\ paid["overhead"] = m
    BY <1>25
  <2> HIDE DEF paid
  <2>6. Due(paid, 0)
    BY <2>2, <2>5 DEF Due, m, f
  <2>7. Closing(paid, 0, 0)
    BY <1>7, <2>2, <2>3, <2>4, <2>6
  <2> QED BY <2>3, <2>7
<1>11. CASE ExitCallback
  <2> DEFINE m == Beyond(Elapsed(f), Nested(f))
             paid == [a \in Bucket |-> IF a = "user" THEN m ELSE 0]
  <2>1. m \in Nat
    BY <1>4, <1>5, <1>6
  <2>2. total' = Add("user", m) /\ stack' = Front(stack) /\ Closed /\ f.kind = "callback"
    BY <1>1, <1>11, Zenon DEF ExitCallback, Under
  <2> HIDE DEF m
  <2>3. paid \in [Bucket -> Nat]
    BY <2>1
  <2>4. total' \in [Bucket -> Nat] /\ \A b \in Bucket : total'[b] = total[b] + paid[b]
    BY <1>22, <1>25, <2>1, <2>2, <2>3
  <2>5. paid["backend"] = 0 /\ paid["overhead"] = 0 /\ paid["user"] = m
    BY <1>25
  <2> HIDE DEF paid
  <2>6. Due(paid, 0)
    BY <2>2, <2>5 DEF Due, m, f
  <2>7. Closing(paid, 0, 0)
    BY <1>7, <2>2, <2>3, <2>4, <2>6
  <2> QED BY <2>3, <2>7
<1>12. ASSUME f.kind \in {"call", "tracked"}
       PROVE  CurrentTimer \in Nat
  <2>1. Depth \in 1 .. Depth /\ Depth \in 1 .. Depth + 1
    BY <1>1
  <2>2. top[Depth] # 0
    BY <1>12, <2>1 DEF NestInv, CallInv, f
  <2>3. InnermostTimer(stack, Depth, top[Depth])
    BY <2>1 DEF NestInv, TopInv
  <2>4. top[Depth] \in 1 .. Depth - 1 /\ stack[top[Depth]].kind = "timer"
    BY <2>1, <2>2, <2>3 DEF InnermostTimer
  <2>5. Depth \in Nat
    BY <1>1
  <2>6. top[Depth] \in 1 .. (Depth + 1) - 1
    BY <2>4, <2>5
  <2>7. top[Depth] <= top[Depth + 1]
    BY <1>2, <2>4, <2>6 DEF InnermostTimer
  <2>8. top[Depth + 1] # 0
    BY <1>2, <2>5, <2>6, <2>7
  <2> QED BY <1>2, <1>3, <2>8
<1>13. CASE EndCall
  <2> DEFINE x == Beyond(Elapsed(f), Classified(f) + (TimerOwn - f.mark))
  <2>1. x \in Nat
    <3>1. Elapsed(f) \in Int /\ Classified(f) + (TimerOwn - f.mark) \in Int
      BY <1>3, <1>4, <1>5
    <3> QED BY <1>6, <3>1
  <2>2. Close(CurrentTimer, x) /\ UNCHANGED total /\ Closed /\ f.kind = "call"
    BY <1>1, <1>13, Zenon DEF EndCall, Under
  <2>3. Due(Nothing, x)
    BY <1>24, <2>2 DEF Due, f
  <2> HIDE DEF x
  <2>4. Closing(Nothing, CurrentTimer, x)
    BY <1>8, <1>12, <1>23, <1>24, <2>1, <2>2, <2>3
  <2> QED BY <1>12, <1>24, <2>1, <2>2, <2>4
<1>14. CASE EndTracked
  <2> DEFINE x == Beyond(Elapsed(f), f.own)
  <2>1. x \in Nat
    <3>1. Elapsed(f) \in Int /\ f.own \in Int
      BY <1>4, <1>5
    <3> QED BY <1>6, <3>1
  <2>2. Close(CurrentTimer, x) /\ UNCHANGED total /\ Closed /\ f.kind = "tracked"
    BY <1>1, <1>14, Zenon DEF EndTracked, Under
  <2>3. Due(Nothing, x)
    BY <1>24, <2>2 DEF Due, f
  <2> HIDE DEF x
  <2>4. Closing(Nothing, CurrentTimer, x)
    BY <1>8, <1>12, <1>23, <1>24, <2>1, <2>2, <2>3
  <2> QED BY <1>12, <1>24, <2>1, <2>2, <2>4
<1>15. CASE ReturnRoot
  <2> DEFINE m == Beyond(Elapsed(f), Classified(f) + (TimerOwn - f.mark))
             paid == [a \in Bucket |-> IF a = "user" THEN m ELSE 0]
  <2>1. m \in Nat
    <3>1. Elapsed(f) \in Int /\ Classified(f) + (TimerOwn - f.mark) \in Int
      BY <1>3, <1>4, <1>5
    <3> QED BY <1>6, <3>1
  <2>2. /\ total' = Add("user", m) /\ Close(Depth - 1, Elapsed(f)) /\ Closed /\ f.kind = "root"
    BY <1>1, <1>15, Zenon DEF ReturnRoot, Under, Depth
  <2> HIDE DEF m
  <2>3. paid \in [Bucket -> Nat]
    BY <2>1
  <2>4. total' \in [Bucket -> Nat] /\ \A b \in Bucket : total'[b] = total[b] + paid[b]
    BY <1>22, <1>25, <2>1, <2>2, <2>3
  <2>5. paid["backend"] = 0 /\ paid["overhead"] = 0 /\ paid["user"] = m
    BY <1>25
  <2> HIDE DEF paid
  <2>6. Due(paid, Elapsed(f))
    BY <2>2, <2>5 DEF Due, m, f
  <2>7. Depth - 1 \in Nat
    BY <1>1
  <2>8. Closing(paid, Depth - 1, Elapsed(f))
    BY <1>4, <1>8, <2>2, <2>3, <2>4, <2>6, <2>7
  <2> QED BY <1>4, <2>3, <2>7, <2>8
<1> QED BY <1>9, <1>10, <1>11, <1>13, <1>14, <1>15

\* budget_reset(), by what it does to each frame.
LEMMA ResetStep ==
  ASSUME TypeOK, Reset
  PROVE  Resetting
<1>1. /\ stack \in Seq(Frame) /\ Depth \in Nat /\ DOMAIN stack = 1 .. Depth
      /\ \A i \in 1 .. Depth : stack[i] \in Frame
  BY DEF TypeOK, Depth
<1>2. /\ stack' = [i \in 1 .. Depth |->
                     IF stack[i].kind \in Rebases THEN Rebased(stack[i]) ELSE stack[i]]
      /\ resets' = resets + 1 /\ boundary' = total /\ spent' = Nothing
      /\ blurred' = Within({"wrapper"}) /\ UNCHANGED <<now, total>>
  BY <1>1 DEF Reset
<1>3. ASSUME NEW f \in Frame
      PROVE  /\ Rebased(f) \in Frame /\ Rebased(f).kind = f.kind
             /\ Rebased(f).start = now /\ Rebased(f).base = total
             /\ Rebased(f).mark = 0 /\ Rebased(f).own = 0
  BY Zenon, <1>3 DEF TypeOK, Rebased, Frame
<1>4. \A i \in 1 .. Depth : stack'[i] \in Frame
  BY <1>1, <1>2, <1>3
<1>5. stack' \in Seq(Frame) /\ Depth' = Depth
  BY <1>1, <1>2, <1>4 DEF Depth
<1>6. \A i \in 1 .. Depth :
       /\ stack'[i].kind = stack[i].kind
       /\ stack[i].kind \in Rebases => /\ stack'[i].start = now /\ stack'[i].base = total
                                       /\ stack'[i].mark = 0 /\ stack'[i].own = 0
       /\ stack[i].kind \notin Rebases => stack'[i] = stack[i]
  BY <1>1, <1>2, <1>3
<1>7. blurred' \in BOOLEAN /\ (~ blurred' => \A i \in 1 .. Depth : stack[i].kind # "wrapper")
  BY <1>1, <1>2 DEF Within
<1> QED BY <1>1, <1>2, <1>5, <1>6, <1>7 DEF Resetting

\* Every step is one of these.
LEMMA StepCases ==
  ASSUME TypeOK, NEW top \in [Nat -> Nat], NestInv(top), Next
  PROVE  \/ Ticking
         \/ \E kind \in Kind : Opening(kind)
         \/ \E paid \in [Bucket -> Nat], j \in Nat, x \in Nat : Closing(paid, j, x)
         \/ Resetting
<1> DEFINE Parent == IF Idle THEN "none" ELSE Innermost
<1>1. CASE Tick
  <2>1. Idle <=> Depth = 0
    BY EmptySeq DEF TypeOK, Idle, Depth
  <2> QED BY <1>1, <2>1 DEF Tick, Ticking, Innermost, Last, Depth
<1>2. ASSUME NEW kind \in Kind, Open(kind), Parent \in Parents(kind),
             kind \in {"call", "tracked"} => Timers # {},
             blurred' = (blurred \/ (kind \in {"root", "callback"} /\ Within({"callback"})))
      PROVE  Opening(kind)
  BY <1>2, OpenStep DEF NestInv
<1>3. CASE EnterWrapper
  <2>1. Parent \in Parents("wrapper")
    BY <1>3 DEF EnterWrapper, Under, Parents
  <2>2. /\ Open("wrapper")
        /\ blurred' = (blurred \/ ("wrapper" \in {"root", "callback"} /\ Within({"callback"})))
    BY <1>3 DEF EnterWrapper, TypeOK
  <2>3. "wrapper" \in Kind /\ "wrapper" \notin {"call", "tracked"}
    BY DEF Kind
  <2>4. Opening("wrapper")
    BY <1>2, <2>1, <2>2, <2>3
  <2> QED BY <2>3, <2>4
<1>4. CASE EnterTimer
  <2>1. Parent \in Parents("timer")
    BY <1>4 DEF EnterTimer, Under, Parents
  <2>2. /\ Open("timer")
        /\ blurred' = (blurred \/ ("timer" \in {"root", "callback"} /\ Within({"callback"})))
    BY <1>4 DEF EnterTimer, TypeOK
  <2>3. "timer" \in Kind /\ "timer" \notin {"call", "tracked"}
    BY DEF Kind
  <2>4. Opening("timer")
    BY <1>2, <2>1, <2>2, <2>3
  <2> QED BY <2>3, <2>4
<1>5. ASSUME NEW kind \in {"call", "tracked"}, BeginCall(kind)
      PROVE  \E k \in Kind : Opening(k)
  <2>1. Parent \in Parents(kind)
    BY <1>5 DEF BeginCall, Under, Parents
  <2>2. /\ Open(kind) /\ Timers # {}
        /\ blurred' = (blurred \/ (kind \in {"root", "callback"} /\ Within({"callback"})))
    BY <1>5 DEF BeginCall, TypeOK
  <2>3. kind \in Kind
    BY DEF Kind
  <2>4. Opening(kind)
    BY <1>2, <2>1, <2>2, <2>3
  <2> QED BY <2>3, <2>4
<1>6. CASE EnterRoot
  <2>1. Parent \in Parents("root")
    BY <1>6 DEF EnterRoot, Under, Parents
  <2>2. /\ Open("root")
        /\ blurred' = (blurred \/ ("root" \in {"root", "callback"} /\ Within({"callback"})))
    BY <1>6 DEF EnterRoot, TypeOK
  <2>3. "root" \in Kind /\ "root" \notin {"call", "tracked"}
    BY DEF Kind
  <2>4. Opening("root")
    BY <1>2, <2>1, <2>2, <2>3
  <2> QED BY <2>3, <2>4
<1>7. CASE EnterCallback
  <2>1. Parent \in Parents("callback")
    BY <1>7 DEF EnterCallback, Under, Parents
  <2>2. /\ Open("callback")
        /\ blurred' = (blurred \/ ("callback" \in {"root", "callback"} /\ Within({"callback"})))
    BY <1>7 DEF EnterCallback, TypeOK
  <2>3. "callback" \in Kind /\ "callback" \notin {"call", "tracked"}
    BY DEF Kind
  <2>4. Opening("callback")
    BY <1>2, <2>1, <2>2, <2>3
  <2> QED BY <2>3, <2>4
<1>8. CASE ExitWrapper \/ ExitTimer \/ ExitCallback \/ EndCall \/ EndTracked \/ ReturnRoot
  <2>1. ~ Idle
    BY <1>8 DEF ExitWrapper, ExitTimer, ExitCallback, EndCall, EndTracked, ReturnRoot, Under
  <2> QED BY <1>8, <2>1, CloseStep
<1>9. CASE Reset
  BY <1>9, ResetStep
<1> QED BY <1>1, <1>3, <1>4, <1>5, <1>6, <1>7, <1>8, <1>9 DEF Next

-----------------------------------------------------------------------------
(***************************************************************************)
(* Types and the nesting of frames.                                        *)
(***************************************************************************)
\* The innermost timers when a frame of the kind is opened.
Grown(top, kind) ==
  [top EXCEPT ![Depth + 2] = IF kind = "timer" THEN Depth + 1 ELSE top[Depth + 1]]

\* A frame that is opened keeps the types and the nesting.
LEMMA OpeningNests ==
  ASSUME TypeOK, NEW top \in [Nat -> Nat], NestInv(top), NEW kind \in Kind, Opening(kind),
         NEW g \in [Nat -> Nat], g = Grown(top, kind)
  PROVE  TypeOK' /\ NestInv(g)'
<1> DEFINE new == [kind |-> kind, start |-> now, base |-> total, mark |-> TimerOwn, own |-> 0]
           t == IF kind = "timer" THEN Depth + 1 ELSE top[Depth + 1]
<1>0. Depth \in Nat /\ Depth' = Depth + 1 /\ now' = now
  BY DEF Opening
<1>1. /\ stack \in Seq(Frame) /\ stack' \in Seq(Frame)
      /\ \A i \in 1 .. Depth : stack'[i] = stack[i]
      /\ stack'[Depth + 1] = new
  BY DEF TypeOK, Opening
<1>2. TypeOK'
  BY <1>1 DEF TypeOK, Opening
<1>3. g[Depth + 2] = t /\ \A i \in 1 .. Depth + 1 : g[i] = top[i]
  <2>1. Depth + 2 \in Nat /\ \A i \in 1 .. Depth + 1 : i \in Nat /\ i # Depth + 2
    BY <1>0
  <2> QED BY <2>1 DEF Grown
<1>4. new.kind = kind /\ new.start = now /\ new.mark = TimerOwn
  OBVIOUS
<1> HIDE DEF new
<1>5. \A i \in 1 .. Depth + 1 : InnermostTimer(stack, i, top[i])
  BY DEF NestInv, TopInv
<1>6. ASSUME NEW i \in 1 .. Depth + 1 PROVE InnermostTimer(stack', i, g[i])
  <2>1. InnermostTimer(stack, i, top[i]) /\ g[i] = top[i]
    BY <1>3, <1>5, <1>6
  <2>2. \A j \in 1 .. i - 1 : j \in 1 .. Depth /\ stack'[j] = stack[j]
    <3>1. ASSUME NEW j \in 1 .. i - 1 PROVE j \in 1 .. Depth
      BY <1>0, <1>6, <3>1
    <3> QED BY <1>1, <3>1
  <2>3. top[i] # 0 => top[i] \in 1 .. i - 1
    BY <1>0, <1>6, <2>1 DEF InnermostTimer
  <2> QED BY <2>1, <2>2, <2>3 DEF InnermostTimer
<1>7. InnermostTimer(stack', Depth + 2, t)
  <2>1. InnermostTimer(stack', Depth + 1, top[Depth + 1])
    BY <1>0, <1>3, <1>6
  <2>2. CASE kind = "timer"
    <3>1. t = Depth + 1
      BY <2>2
    <3> HIDE DEF t
    <3>2. stack'[t].kind = "timer"
      BY <1>1, <1>4, <2>2, <3>1
    <3>3. t \in 0 .. (Depth + 2) - 1 /\ \A j \in 1 .. (Depth + 2) - 1 : j <= t
      BY <1>0, <3>1
    <3> QED BY <3>2, <3>3 DEF InnermostTimer
  <2>3. CASE kind # "timer"
    <3>1. t = top[Depth + 1]
      BY <2>3
    <3>2. \A j \in 1 .. (Depth + 2) - 1 : j \in 1 .. (Depth + 1) - 1 \/ j = Depth + 1
      BY <1>0
    <3>3. stack'[Depth + 1].kind # "timer"
      BY <1>1, <1>4, <2>3
    <3>4. t \in 0 .. (Depth + 2) - 1
      <4>1. top[Depth + 1] \in 0 .. (Depth + 1) - 1
        BY <2>1 DEF InnermostTimer
      <4> QED BY <1>0, <3>1, <4>1
    <3> HIDE DEF t
    <3> QED BY <2>1, <3>1, <3>2, <3>3, <3>4 DEF InnermostTimer
  <2> QED BY <2>2, <2>3
<1>8. TopInv(g)'
  <2>1. ASSUME NEW i \in 1 .. Depth + 2 PROVE InnermostTimer(stack', i, g[i])
    <3>1. i \in 1 .. Depth + 1 \/ i = Depth + 2
      BY <1>0, <2>1
    <3> HIDE DEF t
    <3> QED BY <1>3, <1>6, <1>7, <3>1
  <2>2. (Depth + 1) + 1 = Depth + 2
    BY <1>0
  <2> QED BY <1>0, <2>1, <2>2 DEF TopInv
<1>9. ShapeInv'
  <2>1. ASSUME NEW i \in 1 .. Depth + 1
        PROVE  ParentOf(stack', i) \in Parents(stack'[i].kind) /\ stack'[i].start <= now
    <3>1. CASE i = Depth + 1
      <4>1. stack'[i].kind = kind /\ stack'[i].start = now
        BY <1>1, <1>4, <3>1
      <4>2. ParentOf(stack', i) \in Parents(kind) /\ now <= now
        BY <3>1 DEF Opening, TypeOK
      <4> QED BY <4>1, <4>2
    <3>2. CASE i \in 1 .. Depth
      <4>1. i # 1 => i - 1 \in 1 .. Depth
        BY <1>0, <3>2
      <4>2. stack'[i] = stack[i] /\ (i # 1 => stack'[i - 1] = stack[i - 1])
        BY <1>1, <3>2, <4>1
      <4> QED BY <3>2, <4>2 DEF NestInv, ShapeInv, ParentOf
    <3> QED BY <1>0, <3>1, <3>2
  <2> QED BY <1>0, <2>1 DEF ShapeInv
<1>10. OwnOf(stack, top[Depth + 1]) = TimerOwn
  <2>1. InnermostTimer(stack, Depth + 1, top[Depth + 1])
    BY <1>0, <1>5
  <2> QED BY <1>1, <2>1, TimerOwnIs
<1>11. ASSUME NEW i \in 1 .. Depth + 1 PROVE OwnOf(stack', top[i]) = OwnOf(stack, top[i])
  <2>1. InnermostTimer(stack, i, top[i])
    BY <1>5, <1>11
  <2>2. top[i] # 0 => top[i] \in 1 .. Depth
    <3>1. top[i] \in 0 .. i - 1
      BY <2>1 DEF InnermostTimer
    <3> QED BY <1>0, <1>11, <3>1
  <2> QED BY <1>1, <2>2 DEF OwnOf
<1>12. MarkInv(g)'
  <2>1. ASSUME NEW i \in 1 .. Depth + 1, stack'[i].kind = "timer"
        PROVE  stack'[i].mark = OwnOf(stack', g[i])
    <3>0. g[i] = top[i]
      BY <1>3, <2>1
    <3>1. CASE i = Depth + 1
      BY <1>1, <1>4, <1>10, <1>11, <3>0, <3>1
    <3>2. CASE i \in 1 .. Depth
      BY <1>1, <1>11, <2>1, <3>0, <3>2 DEF NestInv, MarkInv
    <3> QED BY <1>0, <2>1, <3>1, <3>2
  <2> QED BY <1>0, <2>1 DEF MarkInv
<1>13. CallInv(g)'
  <2>1. ASSUME NEW i \in 1 .. Depth + 1, stack'[i].kind \in {"call", "tracked"}
        PROVE  g[i] # 0
    <3>0. g[i] = top[i]
      BY <1>3, <2>1
    <3>1. CASE i = Depth + 1
      <4>1. Timers # {}
        BY <1>1, <1>4, <2>1, <3>1 DEF Opening
      <4>2. InnermostTimer(stack, Depth + 1, top[Depth + 1])
        BY <1>0, <1>5
      <4> QED BY <1>1, <3>0, <3>1, <4>1, <4>2, TimerOwnIs
    <3>2. CASE i \in 1 .. Depth
      BY <1>1, <2>1, <3>0, <3>2 DEF NestInv, CallInv
    <3> QED BY <1>0, <2>1, <3>1, <3>2
  <2> QED BY <1>0, <2>1 DEF CallInv
<1> QED BY <1>2, <1>8, <1>9, <1>12, <1>13 DEF NestInv

\* A credited frame is the current timer, or a tracked call.
LEMMA Credited ==
  ASSUME TypeOK, NEW top \in [Nat -> Nat], NestInv(top),
         NEW paid \in [Bucket -> Nat], NEW j \in Nat, NEW x \in Nat, Closing(paid, j, x)
  PROVE  /\ stack[Depth].kind \in {"call", "tracked"} =>
              /\ j = top[Depth] /\ j \in 1 .. Depth - 1 /\ stack[j].kind = "timer"
              /\ top[Depth + 1] = j
         /\ stack[Depth].kind = "root" =>
              j = Depth - 1 /\ j \in 1 .. Depth - 1 /\ stack[j].kind = "tracked"
         /\ stack[Depth].kind \notin {"call", "tracked", "root"} => x = 0
<1>1. Depth \in Nat \ {0} /\ stack \in Seq(Frame)
  BY DEF Closing, Shrunk, Depth, TypeOK
<1>2. InnermostTimer(stack, Depth, top[Depth]) /\ InnermostTimer(stack, Depth + 1, top[Depth + 1])
  <2>1. Depth \in 1 .. Depth + 1 /\ Depth + 1 \in 1 .. Depth + 1
    BY <1>1
  <2> QED BY <2>1 DEF NestInv, TopInv
<1>3. ASSUME stack[Depth].kind \in {"call", "tracked"}
      PROVE  /\ j = top[Depth] /\ j \in 1 .. Depth - 1 /\ stack[j].kind = "timer"
             /\ top[Depth + 1] = j
  <2>1. Depth \in 1 .. Depth
    BY <1>1
  <2>2. top[Depth] # 0
    BY <1>3, <2>1 DEF NestInv, CallInv
  <2>3. top[Depth] \in 1 .. Depth - 1 /\ stack[top[Depth]].kind = "timer"
    BY <1>1, <1>2, <2>2 DEF InnermostTimer
  <2>4. top[Depth] \in 1 .. (Depth + 1) - 1
    BY <1>1, <2>3
  <2>5. top[Depth] <= top[Depth + 1]
    BY <1>2, <2>3, <2>4 DEF InnermostTimer
  <2>6. top[Depth + 1] \in 0 .. Depth /\ top[Depth + 1] # 0
    <3>1. top[Depth + 1] \in 0 .. (Depth + 1) - 1
      BY <1>2 DEF InnermostTimer
    <3> QED BY <1>1, <2>3, <2>5, <3>1
  <2>7. stack[top[Depth + 1]].kind = "timer"
    BY <1>2, <2>6 DEF InnermostTimer
  <2>8. top[Depth + 1] # Depth
    BY <1>3, <2>7
  <2>9. top[Depth + 1] \in 1 .. Depth - 1
    <3>1. Depth \in Nat
      BY <1>1
    <3> QED BY <2>6, <2>8, <3>1
  <2>10. top[Depth + 1] <= top[Depth]
    BY <1>2, <2>7, <2>9 DEF InnermostTimer
  <2>11. top[Depth + 1] = top[Depth]
    BY <1>1, <2>3, <2>5, <2>6, <2>10
  <2>12. j = CurrentTimer
    BY <1>3 DEF Closing
  <2>13. CurrentTimer = top[Depth + 1]
    BY <1>1, <1>2, <2>6, TimerOwnIs
  <2> QED BY <2>3, <2>11, <2>12, <2>13
<1>4. ASSUME stack[Depth].kind = "root"
      PROVE  j = Depth - 1 /\ j \in 1 .. Depth - 1 /\ stack[j].kind = "tracked"
  <2>1. Depth \in 1 .. Depth
    BY <1>1
  <2>2. ParentOf(stack, Depth) \in Parents("root")
    BY <1>4, <2>1 DEF NestInv, ShapeInv
  <2>3. ParentOf(stack, Depth) = "tracked"
    BY <2>2 DEF Parents
  <2>4. Depth # 1 /\ stack[Depth - 1].kind = "tracked"
    BY <2>3 DEF ParentOf
  <2>5. j = Depth - 1
    BY <1>4 DEF Closing
  <2> QED BY <1>1, <2>4, <2>5
<1>5. stack[Depth].kind \notin {"call", "tracked", "root"} => x = 0
  BY DEF Closing, Due
<1> QED BY <1>3, <1>4, <1>5

\* So does one that is closed: the timer it restores has what it had.
LEMMA ClosingNests ==
  ASSUME TypeOK, NEW top \in [Nat -> Nat], NestInv(top),
         NEW paid \in [Bucket -> Nat], NEW j \in Nat, NEW x \in Nat, Closing(paid, j, x)
  PROVE  TypeOK' /\ NestInv(top)'
<1>0. Depth \in Nat \ {0} /\ Depth' = Depth - 1 /\ now' = now
  BY DEF Closing, Shrunk, Depth
<1>1. /\ stack \in Seq(Frame) /\ stack' \in Seq(Frame)
      /\ \A i \in 1 .. Depth - 1 :
           /\ stack'[i].kind = stack[i].kind /\ stack'[i].start = stack[i].start
           /\ stack'[i].mark = stack[i].mark
           /\ stack'[i].own = stack[i].own + (IF i = j THEN x ELSE 0)
  BY DEF TypeOK, Closing, Shrunk, Depth
<1>2. TypeOK'
  BY <1>1 DEF TypeOK, Closing
<1>3. ASSUME NEW i \in 1 .. Depth - 1
      PROVE  i \in 1 .. Depth /\ i \in 1 .. Depth + 1 /\ stack[i].own \in Nat
  <2>1. i \in 1 .. Depth /\ i \in 1 .. Depth + 1
    BY <1>0, <1>3
  <2>2. stack[i] \in Frame
    BY <1>1, <2>1 DEF Depth
  <2> QED BY <2>1, <2>2 DEF Frame
<1>4. TopInv(top)'
  <2>1. ASSUME NEW i \in 1 .. Depth PROVE InnermostTimer(stack', i, top[i])
    <3>1. InnermostTimer(stack, i, top[i])
      BY <1>0, <2>1 DEF NestInv, TopInv
    <3>2. ASSUME NEW k \in 1 .. i - 1 PROVE k \in 1 .. Depth - 1
      BY <1>0, <2>1, <3>2
    <3>3. \A k \in 1 .. i - 1 : stack'[k].kind = stack[k].kind
      BY <1>1, <3>2
    <3>4. top[i] # 0 => top[i] \in 1 .. i - 1
      BY <1>0, <2>1, <3>1 DEF InnermostTimer
    <3> QED BY <3>1, <3>3, <3>4 DEF InnermostTimer
  <2>2. Depth' + 1 = Depth
    BY <1>0
  <2> QED BY <2>1, <2>2 DEF TopInv
<1>5. ShapeInv'
  <2>1. ASSUME NEW i \in 1 .. Depth - 1
        PROVE  ParentOf(stack', i) \in Parents(stack'[i].kind) /\ stack'[i].start <= now
    <3>1. i # 1 => i - 1 \in 1 .. Depth - 1
      BY <1>0, <2>1
    <3>2. ParentOf(stack', i) = ParentOf(stack, i)
      BY <1>1, <3>1 DEF ParentOf
    <3>3. ParentOf(stack, i) \in Parents(stack[i].kind) /\ stack[i].start <= now
      BY <1>3 DEF NestInv, ShapeInv
    <3> QED BY <1>1, <3>2, <3>3
  <2> QED BY <1>0, <2>1 DEF ShapeInv
<1>6. MarkInv(top)'
  <2>1. ASSUME NEW i \in 1 .. Depth - 1, stack[i].kind = "timer"
        PROVE  stack'[i].mark = OwnOf(stack', top[i])
    <3>1. InnermostTimer(stack, i, top[i]) /\ InnermostTimer(stack, Depth, top[Depth])
      BY <1>0, <1>3 DEF NestInv, TopInv
    <3>2. top[i] # 0 => top[i] \in 1 .. i - 1 /\ top[i] \in 1 .. Depth - 1
      BY <1>0, <2>1, <3>1 DEF InnermostTimer
    <3>3. top[i] # 0 /\ x # 0 => top[i] # j
      <4>1. CASE stack[Depth].kind \in {"call", "tracked"}
        <5>1. i <= top[Depth]
          BY <2>1, <3>1 DEF InnermostTimer
        <5>2. j = top[Depth]
          BY <4>1, Credited
        <5> QED BY <1>0, <3>2, <5>1, <5>2
      <4>2. CASE stack[Depth].kind = "root"
        <5>1. stack[j].kind = "tracked"
          BY <4>2, Credited
        <5>2. top[i] # 0 => stack[top[i]].kind = "timer"
          BY <3>1 DEF InnermostTimer
        <5> QED BY <5>1, <5>2
      <4>3. CASE stack[Depth].kind \notin {"call", "tracked", "root"}
        BY <4>3, Credited
      <4> QED BY <4>1, <4>2, <4>3
    <3>4. OwnOf(stack', top[i]) = OwnOf(stack, top[i])
      <4>1. CASE top[i] = 0
        BY <4>1 DEF OwnOf
      <4>2. CASE top[i] # 0
        <5>1. stack'[top[i]].own = stack[top[i]].own
          <6>1. (IF top[i] = j THEN x ELSE 0) = 0
            BY <3>3, <4>2
          <6>2. stack[top[i]].own \in Nat
            BY <1>3, <3>2, <4>2
          <6>3. stack'[top[i]].own = stack[top[i]].own + 0
            BY <1>1, <3>2, <4>2, <6>1
          <6> QED BY <6>2, <6>3
        <5> QED BY <4>2, <5>1 DEF OwnOf
      <4> QED BY <4>1, <4>2
    <3>5. stack[i].mark = OwnOf(stack, top[i])
      BY <1>3, <2>1 DEF NestInv, MarkInv
    <3> QED BY <1>1, <3>4, <3>5
  <2>2. \A i \in 1 .. Depth - 1 : stack'[i].kind = stack[i].kind
    BY <1>1
  <2> QED BY <1>0, <2>1, <2>2 DEF MarkInv
<1>7. CallInv(top)'
  <2>1. \A i \in 1 .. Depth - 1 : stack[i].kind \in {"call", "tracked"} => top[i] # 0
    BY <1>3 DEF NestInv, CallInv
  <2> QED BY <1>0, <1>1, <2>1 DEF CallInv
<1> QED BY <1>2, <1>4, <1>5, <1>6, <1>7 DEF NestInv

\* So does a reset, which rebases some frames and leaves others.
LEMMA ResettingNests ==
  ASSUME TypeOK, NEW top \in [Nat -> Nat], NestInv(top), Resetting
  PROVE  TypeOK' /\ NestInv(top)'
<1>0. Depth \in Nat /\ Depth' = Depth /\ now' = now
  BY DEF Resetting
<1>1. /\ stack \in Seq(Frame) /\ stack' \in Seq(Frame)
      /\ \A i \in 1 .. Depth :
           /\ stack'[i].kind = stack[i].kind
           /\ stack[i].kind \in Rebases => /\ stack'[i].start = now
                                           /\ stack'[i].mark = 0 /\ stack'[i].own = 0
           /\ stack[i].kind \notin Rebases => stack'[i] = stack[i]
  BY DEF TypeOK, Resetting
<1>2. TypeOK'
  BY <1>1 DEF TypeOK, Resetting, Nothing
<1>3. ASSUME NEW i \in 1 .. Depth + 1
      PROVE  InnermostTimer(stack, i, top[i]) /\ InnermostTimer(stack', i, top[i])
  <2>1. InnermostTimer(stack, i, top[i])
    BY DEF NestInv, TopInv
  <2>2. ASSUME NEW k \in 1 .. i - 1 PROVE k \in 1 .. Depth
    BY <1>0, <1>3, <2>2
  <2>3. \A k \in 1 .. i - 1 : stack'[k].kind = stack[k].kind
    BY <1>1, <2>2
  <2>4. top[i] # 0 => top[i] \in 1 .. i - 1
    BY <1>0, <1>3, <2>1 DEF InnermostTimer
  <2> QED BY <2>1, <2>3, <2>4 DEF InnermostTimer
<1>4. TopInv(top)'
  BY <1>0, <1>3 DEF TopInv
<1>5. ShapeInv'
  <2>1. ASSUME NEW i \in 1 .. Depth
        PROVE  ParentOf(stack', i) \in Parents(stack'[i].kind) /\ stack'[i].start <= now
    <3>1. i # 1 => i - 1 \in 1 .. Depth
      BY <1>0, <2>1
    <3>2. ParentOf(stack', i) = ParentOf(stack, i)
      BY <1>1, <3>1 DEF ParentOf
    <3>3. ParentOf(stack, i) \in Parents(stack[i].kind) /\ stack[i].start <= now
      BY DEF NestInv, ShapeInv
    <3>4. now <= now
      BY DEF TypeOK
    <3>5. stack'[i].start <= now
      BY <1>1, <3>3, <3>4
    <3> QED BY <1>1, <3>2, <3>3, <3>5
  <2> QED BY <1>0, <2>1 DEF ShapeInv
<1>6. MarkInv(top)'
  <2>1. ASSUME NEW i \in 1 .. Depth, stack[i].kind = "timer"
        PROVE  stack'[i].mark = OwnOf(stack', top[i])
    <3>1. stack'[i].mark = 0
      BY <1>1, <2>1 DEF Rebases
    <3>2. InnermostTimer(stack, i, top[i])
      BY <1>0, <1>3
    <3>3. top[i] # 0 => top[i] \in 1 .. Depth /\ stack[top[i]].kind = "timer"
      BY <1>0, <2>1, <3>2 DEF InnermostTimer
    <3>4. top[i] # 0 => stack'[top[i]].own = 0
      BY <1>1, <3>3 DEF Rebases
    <3> QED BY <3>1, <3>4 DEF OwnOf
  <2> QED BY <1>0, <1>1, <2>1 DEF MarkInv
<1>7. CallInv(top)'
  BY <1>0, <1>1 DEF NestInv, CallInv
<1> QED BY <1>2, <1>4, <1>5, <1>6, <1>7 DEF NestInv

\* So does a tick.
LEMMA TickingNests ==
  ASSUME TypeOK, NEW top \in [Nat -> Nat], NestInv(top), Ticking
  PROVE  TypeOK' /\ NestInv(top)'
<1>1. TypeOK'
  <2> DEFINE c == IF Depth = 0 THEN "user" ELSE BucketOf(stack[Depth].kind)
  <2>1. c \in Bucket
    <3>1. Depth # 0 => stack[Depth] \in Frame
      BY DEF TypeOK, Depth
    <3> QED BY <3>1 DEF Frame, Kind, BucketOf, Bucket
  <2>2. spent' = [spent EXCEPT ![c] = @ + 1]
    BY DEF Ticking
  <2> HIDE DEF c
  <2>3. spent' \in [Bucket -> Nat]
    <3>1. spent \in [Bucket -> Nat]
      BY DEF TypeOK
    <3>2. spent[c] + 1 \in Nat
      BY <2>1, <3>1
    <3> QED BY <2>1, <2>2, <3>1, <3>2
  <2>4. now' \in Nat
    BY DEF TypeOK, Ticking
  <2> QED BY <2>3, <2>4 DEF TypeOK, Ticking
<1>2. ASSUME NEW i \in 1 .. Depth, stack[i].start <= now PROVE stack[i].start <= now + 1
  <2>1. stack[i] \in Frame
    BY DEF TypeOK, Depth
  <2>2. stack[i].start \in Nat
    BY <2>1 DEF Frame
  <2>3. now \in Nat
    BY DEF TypeOK
  <2> QED BY <1>2, <2>2, <2>3
<1>3. NestInv(top)'
  BY <1>2 DEF NestInv, ShapeInv, TopInv, MarkInv, CallInv, Ticking, Depth
<1> QED BY <1>1, <1>3

-----------------------------------------------------------------------------
(***************************************************************************)
(* The account of a stretch of time.                                       *)
(***************************************************************************)
SumOf(f) == f["backend"] + f["overhead"] + f["user"]

\* The account of a frame, from its opening to that of the next one, or to now: d
\* is the length, p what passed by bucket, t of that the ticks the frame itself was
\* innermost, g the growth of the totals, c the calls credited to its timer.  Of
\* what passed in frames that are closed neither the backend nor flopscope is given
\* more than there was, nothing is given to nobody, and all is exact unless e.
Segment(k, own, d, p, t, g, c, e) ==
  LET in(b) == p[b] - (IF b = BucketOf(k) THEN t ELSE 0)
      sum == in("backend") + in("overhead") + in("user") IN
  /\ d = SumOf(p)
  /\ \A b \in Bucket : 0 <= in(b) /\ 0 <= g[b]
  /\ 0 <= c
  /\ g["backend"] + c <= in("backend") /\ g["overhead"] <= in("overhead")
  /\ SumOf(g) + c >= sum
  /\ ~ e => /\ g["backend"] + c = in("backend")
          /\ g["overhead"] = in("overhead") /\ g["user"] = in("user")
  /\ k \in {"wrapper", "callback"} => c = 0
  /\ k = "tracked" => own = sum
  /\ ~ e /\ k = "callback" => in("user") = 0

\* The account of a stretch that is over.
Settled(d, p, g, c, e) ==
  /\ d = SumOf(p)
  /\ \A b \in Bucket : 0 <= p[b] /\ 0 <= g[b]
  /\ 0 <= c
  /\ g["backend"] + c <= p["backend"] /\ g["overhead"] <= p["overhead"]
  /\ SumOf(g) + c >= SumOf(p)
  /\ ~ e => /\ g["backend"] + c = p["backend"]
          /\ g["overhead"] = p["overhead"] /\ g["user"] = p["user"]

\* A frame that was just opened or rebased.
LEMMA SegmentStarts ==
  ASSUME NEW k \in Kind, NEW p, NEW g, NEW e \in BOOLEAN,
         \A b \in Bucket : p[b] = 0 /\ g[b] = 0
  PROVE  Segment(k, 0, 0, p, 0, g, 0, e)
<1>1. \A b \in Bucket : p[b] - (IF b = BucketOf(k) THEN 0 ELSE 0) = 0
  OBVIOUS
<1>2. "backend" \in Bucket /\ "overhead" \in Bucket /\ "user" \in Bucket
  BY DEF Bucket
<1> QED BY <1>1, <1>2 DEF Segment, SumOf

\* A tick of the innermost frame.
Ticked(k, own, d, p, t, g, c, e, d2, q, t2) ==
  /\ k \in Kind /\ d \in Int /\ p \in [Bucket -> Int] /\ t \in Nat
  /\ g \in [Bucket -> Int] /\ c \in Int /\ e \in BOOLEAN
  /\ Segment(k, own, d, p, t, g, c, e)
  /\ d2 = d + 1 /\ q \in [Bucket -> Int] /\ t2 = t + 1
  /\ \A b \in Bucket : q[b] = p[b] + (IF b = BucketOf(k) THEN 1 ELSE 0)

\* It keeps the account of the frame.
LEMMA SegmentTicks ==
  ASSUME NEW k, NEW own, NEW d, NEW p, NEW t, NEW g, NEW c, NEW e, NEW d2, NEW q, NEW t2,
         Ticked(k, own, d, p, t, g, c, e, d2, q, t2)
  PROVE  Segment(k, own, d2, q, t2, g, c, e)
<1> SUFFICES ASSUME k \in Kind, d \in Int, p \in [Bucket -> Int], t \in Nat,
                    g \in [Bucket -> Int], c \in Int, e \in BOOLEAN,
                    Segment(k, own, d, p, t, g, c, e),
                    d2 = d + 1, q \in [Bucket -> Int], t2 = t + 1,
                    \A b \in Bucket : q[b] = p[b] + (IF b = BucketOf(k) THEN 1 ELSE 0)
             PROVE  Segment(k, own, d2, q, t2, g, c, e)
  BY DEF Ticked
<1>1. BucketOf(k) \in Bucket
  BY DEF Kind, BucketOf, Bucket
<1>2. \A b \in Bucket : q[b] - (IF b = BucketOf(k) THEN t2 ELSE 0)
                          = p[b] - (IF b = BucketOf(k) THEN t ELSE 0)
  OBVIOUS
<1>3. "backend" \in Bucket /\ "overhead" \in Bucket /\ "user" \in Bucket
  BY DEF Bucket
<1>4. SumOf(q) = SumOf(p) + 1
  <2>1. BucketOf(k) = "backend" \/ BucketOf(k) = "overhead" \/ BucketOf(k) = "user"
    BY <1>1 DEF Bucket
  <2> QED BY <1>3, <2>1 DEF SumOf
<1>5. d2 = SumOf(q)
  BY <1>4 DEF Segment
<1> QED BY <1>2, <1>3, <1>5 DEF Segment

\* What a closed frame was given becomes part of the account of the frame below.
Merge(k, own, d, p, t, g, c, e, d2, p2, g2, c2, own3, d3, p3, g3, c3) ==
  /\ k \in Kind /\ own \in Int /\ d \in Int /\ p \in [Bucket -> Int] /\ t \in Nat
  /\ g \in [Bucket -> Int] /\ c \in Int /\ e \in BOOLEAN
  /\ Segment(k, own, d, p, t, g, c, e)
  /\ d2 \in Int /\ p2 \in [Bucket -> Int] /\ g2 \in [Bucket -> Int] /\ c2 \in Int
  /\ Settled(d2, p2, g2, c2, e)
  /\ k \in {"wrapper", "callback"} => c2 = 0
  /\ ~ e /\ k = "callback" => p2["user"] = 0
  /\ k = "tracked" => own3 = own + d2
  /\ d3 = d + d2 /\ c3 = c + c2
  /\ p3 \in [Bucket -> Int] /\ \A b \in Bucket : p3[b] = p[b] + p2[b]
  /\ g3 \in [Bucket -> Int] /\ \A b \in Bucket : g3[b] = g[b] + g2[b]

\* The account goes on.
LEMMA SegmentsMerge ==
  ASSUME NEW k, NEW own, NEW d, NEW p, NEW t, NEW g, NEW c, NEW e, NEW d2, NEW p2, NEW g2, NEW c2,
         NEW own3, NEW d3, NEW p3, NEW g3, NEW c3,
         Merge(k, own, d, p, t, g, c, e, d2, p2, g2, c2, own3, d3, p3, g3, c3)
  PROVE  Segment(k, own3, d3, p3, t, g3, c3, e)
<1> SUFFICES ASSUME k \in Kind, own \in Int, d \in Int, p \in [Bucket -> Int], t \in Nat,
                    g \in [Bucket -> Int], c \in Int, e \in BOOLEAN,
                    Segment(k, own, d, p, t, g, c, e),
                    d2 \in Int, p2 \in [Bucket -> Int], g2 \in [Bucket -> Int], c2 \in Int,
                    Settled(d2, p2, g2, c2, e),
                    k \in {"wrapper", "callback"} => c2 = 0,
                    ~ e /\ k = "callback" => p2["user"] = 0,
                    k = "tracked" => own3 = own + d2,
                    d3 = d + d2, c3 = c + c2,
                    p3 \in [Bucket -> Int], \A b \in Bucket : p3[b] = p[b] + p2[b],
                    g3 \in [Bucket -> Int], \A b \in Bucket : g3[b] = g[b] + g2[b]
             PROVE  Segment(k, own3, d3, p3, t, g3, c3, e)
  BY DEF Merge
<1> DEFINE i(b) == p[b] - (IF b = BucketOf(k) THEN t ELSE 0)
           i3(b) == p3[b] - (IF b = BucketOf(k) THEN t ELSE 0)
<1>1. "backend" \in Bucket /\ "overhead" \in Bucket /\ "user" \in Bucket
  BY DEF Bucket
<1>2. \A b \in Bucket : /\ i(b) \in Int /\ i3(b) \in Int /\ i3(b) = i(b) + p2[b]
                        /\ p[b] \in Int /\ p2[b] \in Int /\ g[b] \in Int /\ g2[b] \in Int
                        /\ g3[b] = g[b] + g2[b] /\ p3[b] = p[b] + p2[b]
  OBVIOUS
<1>3. /\ d = SumOf(p)
      /\ \A b \in Bucket : 0 <= i(b) /\ 0 <= g[b]
      /\ 0 <= c
      /\ g["backend"] + c <= i("backend") /\ g["overhead"] <= i("overhead")
      /\ SumOf(g) + c >= i("backend") + i("overhead") + i("user")
      /\ ~ e => /\ g["backend"] + c = i("backend")
              /\ g["overhead"] = i("overhead") /\ g["user"] = i("user")
      /\ k \in {"wrapper", "callback"} => c = 0
      /\ k = "tracked" => own = i("backend") + i("overhead") + i("user")
      /\ ~ e /\ k = "callback" => i("user") = 0
  BY DEF Segment
<1> HIDE DEF i, i3
<1>4. /\ d3 = SumOf(p3)
      /\ \A b \in Bucket : 0 <= i3(b) /\ 0 <= g3[b]
      /\ 0 <= c3
      /\ g3["backend"] + c3 <= i3("backend") /\ g3["overhead"] <= i3("overhead")
  BY <1>1, <1>2, <1>3 DEF Settled, SumOf
<1>5. SumOf(g3) + c3 >= i3("backend") + i3("overhead") + i3("user")
  BY <1>1, <1>2, <1>3 DEF Settled, SumOf
<1>6. ~ e => /\ g3["backend"] + c3 = i3("backend")
           /\ g3["overhead"] = i3("overhead") /\ g3["user"] = i3("user")
  BY <1>1, <1>2, <1>3 DEF Settled
<1>7. k \in {"wrapper", "callback"} => c3 = 0
  BY <1>3
<1>8. k = "tracked" => own3 = i3("backend") + i3("overhead") + i3("user")
  BY <1>1, <1>2, <1>3 DEF Settled, SumOf
<1>9. ~ e /\ k = "callback" => i3("user") = 0
  BY <1>1, <1>2, <1>3
<1> QED BY <1>4, <1>5, <1>6, <1>7, <1>8, <1>9 DEF Segment, i3

\* What a closing frame pays, from its account.
Owed(k, own, d, g, c, paid, x) ==
  \/ /\ k = "wrapper"
     /\ x = 0 /\ paid["backend"] = 0 /\ paid["user"] = 0
     /\ paid["overhead"] = Beyond(d, SumOf(g))
  \/ /\ k = "timer" /\ c = own
     /\ x = 0 /\ paid["backend"] = own /\ paid["user"] = 0
     /\ paid["overhead"] = Beyond(d, own + SumOf(g))
  \/ /\ k = "callback"
     /\ x = 0 /\ paid["backend"] = 0 /\ paid["overhead"] = 0
     /\ paid["user"] = Beyond(d, g["backend"] + g["overhead"])
  \/ /\ k = "call"
     /\ x = Beyond(d, SumOf(g) + c)
     /\ paid["backend"] = 0 /\ paid["overhead"] = 0 /\ paid["user"] = 0
  \/ /\ k = "tracked"
     /\ x = Beyond(d, own)
     /\ paid["backend"] = 0 /\ paid["overhead"] = 0 /\ paid["user"] = 0
  \/ /\ k = "root"
     /\ paid["backend"] = 0 /\ paid["overhead"] = 0
     /\ paid["user"] = Beyond(d, SumOf(g) + c)

\* The account of a closing frame, with what it pays.
Debt(k, own, d, p, t, g, c, e, paid, x, g2, c2) ==
  /\ k \in Kind /\ own \in Int /\ d \in Int /\ p \in [Bucket -> Int] /\ t \in Nat
  /\ g \in [Bucket -> Int] /\ c \in Int /\ e \in BOOLEAN /\ paid \in [Bucket -> Nat]
  /\ x \in Nat /\ g2 \in [Bucket -> Int] /\ c2 \in Int
  /\ Segment(k, own, d, p, t, g, c, e) /\ Owed(k, own, d, g, c, paid, x)
  /\ \A b \in Bucket : g2[b] = g[b] + paid[b]
  /\ k = "timer" => c2 = 0
  /\ k \in {"call", "tracked"} => c2 = c + x
  /\ k \in {"wrapper", "callback", "root"} => c2 = c

\* A closing frame settles its account: what it pays is what was left of its span.
LEMMA OwedSettles ==
  ASSUME NEW k, NEW own, NEW d, NEW p, NEW t, NEW g, NEW c, NEW e, NEW paid, NEW x, NEW g2, NEW c2,
         Debt(k, own, d, p, t, g, c, e, paid, x, g2, c2)
  PROVE  Settled(d, p, g2, c2, e)
<1> SUFFICES ASSUME k \in Kind, own \in Int, d \in Int, p \in [Bucket -> Int], t \in Nat,
                    g \in [Bucket -> Int], c \in Int, e \in BOOLEAN,
                    Segment(k, own, d, p, t, g, c, e),
                    paid \in [Bucket -> Nat], x \in Nat, Owed(k, own, d, g, c, paid, x),
                    g2 \in [Bucket -> Int], \A b \in Bucket : g2[b] = g[b] + paid[b], c2 \in Int,
                    k = "timer" => c2 = 0,
                    k \in {"call", "tracked"} => c2 = c + x,
                    k \in {"wrapper", "callback", "root"} => c2 = c
             PROVE  Settled(d, p, g2, c2, e)
  BY DEF Debt
<1> DEFINE i(b) == p[b] - (IF b = BucketOf(k) THEN t ELSE 0)
<1>1. "backend" \in Bucket /\ "overhead" \in Bucket /\ "user" \in Bucket
  BY DEF Bucket
<1>2. \A b \in Bucket : /\ i(b) \in Int /\ p[b] = i(b) + (IF b = BucketOf(k) THEN t ELSE 0)
                        /\ p[b] \in Int /\ g[b] \in Int /\ g2[b] \in Int /\ paid[b] \in Nat
                        /\ g2[b] = g[b] + paid[b]
  OBVIOUS
<1>3. /\ d = SumOf(p)
      /\ \A b \in Bucket : 0 <= i(b) /\ 0 <= g[b]
      /\ 0 <= c
      /\ g["backend"] + c <= i("backend") /\ g["overhead"] <= i("overhead")
      /\ SumOf(g) + c >= i("backend") + i("overhead") + i("user")
      /\ ~ e => /\ g["backend"] + c = i("backend")
              /\ g["overhead"] = i("overhead") /\ g["user"] = i("user")
      /\ k \in {"wrapper", "callback"} => c = 0
      /\ k = "tracked" => own = i("backend") + i("overhead") + i("user")
      /\ ~ e /\ k = "callback" => i("user") = 0
  BY DEF Segment
<1> HIDE DEF i
<1>11. /\ i("backend") \in Int /\ i("overhead") \in Int /\ i("user") \in Int
       /\ p["backend"] \in Int /\ p["overhead"] \in Int /\ p["user"] \in Int
       /\ g["backend"] \in Int /\ g["overhead"] \in Int /\ g["user"] \in Int
       /\ g2["backend"] \in Int /\ g2["overhead"] \in Int /\ g2["user"] \in Int
  BY <1>1, <1>2
<1>12. /\ 0 <= i("backend") /\ 0 <= i("overhead") /\ 0 <= i("user")
       /\ 0 <= g["backend"] /\ 0 <= g["overhead"] /\ 0 <= g["user"]
  BY <1>1, <1>3
<1>13. /\ d = SumOf(p)
       /\ 0 <= c
       /\ g["backend"] + c <= i("backend") /\ g["overhead"] <= i("overhead")
       /\ SumOf(g) + c >= i("backend") + i("overhead") + i("user")
       /\ ~ e => /\ g["backend"] + c = i("backend")
               /\ g["overhead"] = i("overhead") /\ g["user"] = i("user")
  BY <1>3
<1>4. ASSUME NEW b \in Bucket PROVE 0 <= p[b] /\ 0 <= g2[b]
  <2>1. i(b) \in Int /\ 0 <= i(b) /\ g[b] \in Int /\ 0 <= g[b] /\ paid[b] \in Nat
    BY <1>2, <1>3
  <2>2. p[b] = i(b) \/ p[b] = i(b) + t
    BY <1>2
  <2>3. g2[b] = g[b] + paid[b]
    BY <1>2
  <2> QED BY <2>1, <2>2, <2>3
<1>5. CASE k = "wrapper"
  <2>1. /\ p["backend"] = i("backend") /\ p["overhead"] = i("overhead") + t
        /\ p["user"] = i("user")
    BY <1>1, <1>2, <1>5 DEF BucketOf
  <2>2. /\ g2["backend"] = g["backend"] /\ g2["user"] = g["user"] /\ c = 0 /\ c2 = 0
        /\ g2["overhead"] = g["overhead"] + Beyond(d, SumOf(g))
    BY <1>1, <1>2, <1>3, <1>5 DEF Owed
  <2>8. /\ d = SumOf(p)
        /\ g2["backend"] + c2 <= p["backend"] /\ g2["overhead"] <= p["overhead"]
    BY <1>11, <1>12, <1>13, <2>1, <2>2 DEF SumOf, Beyond
  <2>9. 0 <= c2 /\ SumOf(g2) + c2 >= SumOf(p)
    BY <1>11, <1>12, <1>13, <2>1, <2>2 DEF SumOf, Beyond
  <2>10. ~ e => /\ g2["backend"] + c2 = p["backend"]
                /\ g2["overhead"] = p["overhead"] /\ g2["user"] = p["user"]
    BY <1>11, <1>12, <1>13, <2>1, <2>2 DEF SumOf, Beyond
  <2> QED BY <1>4, <2>8, <2>9, <2>10 DEF Settled
<1>6. CASE k = "timer"
  <2>1. /\ p["backend"] = i("backend") /\ p["overhead"] = i("overhead") + t
        /\ p["user"] = i("user")
    BY <1>1, <1>2, <1>6 DEF BucketOf
  <2>2. /\ g2["backend"] = g["backend"] + c /\ g2["user"] = g["user"] /\ c2 = 0
        /\ g2["overhead"] = g["overhead"] + Beyond(d, c + SumOf(g))
    BY <1>1, <1>2, <1>3, <1>6 DEF Owed
  <2>8. /\ d = SumOf(p)
        /\ g2["backend"] + c2 <= p["backend"] /\ g2["overhead"] <= p["overhead"]
    BY <1>11, <1>12, <1>13, <2>1, <2>2 DEF SumOf, Beyond
  <2>9. 0 <= c2 /\ SumOf(g2) + c2 >= SumOf(p)
    BY <1>11, <1>12, <1>13, <2>1, <2>2 DEF SumOf, Beyond
  <2>10. ~ e => /\ g2["backend"] + c2 = p["backend"]
                /\ g2["overhead"] = p["overhead"] /\ g2["user"] = p["user"]
    BY <1>11, <1>12, <1>13, <2>1, <2>2 DEF SumOf, Beyond
  <2> QED BY <1>4, <2>8, <2>9, <2>10 DEF Settled
<1>7. CASE k = "callback"
  <2>1. /\ p["backend"] = i("backend") /\ p["overhead"] = i("overhead")
        /\ p["user"] = i("user") + t
    BY <1>1, <1>2, <1>7 DEF BucketOf
  <2>2. /\ g2["backend"] = g["backend"] /\ g2["overhead"] = g["overhead"] /\ c = 0 /\ c2 = 0
        /\ g2["user"] = g["user"] + Beyond(d, g["backend"] + g["overhead"])
    BY <1>1, <1>2, <1>3, <1>7 DEF Owed
  <2>3. ~ e => i("user") = 0
    BY <1>3, <1>7
  <2>8. /\ d = SumOf(p)
        /\ g2["backend"] + c2 <= p["backend"] /\ g2["overhead"] <= p["overhead"]
    BY <1>11, <1>12, <1>13, <2>1, <2>2, <2>3 DEF SumOf, Beyond
  <2>9. 0 <= c2 /\ SumOf(g2) + c2 >= SumOf(p)
    BY <1>11, <1>12, <1>13, <2>1, <2>2, <2>3 DEF SumOf, Beyond
  <2>10. ~ e => /\ g2["backend"] + c2 = p["backend"]
                /\ g2["overhead"] = p["overhead"] /\ g2["user"] = p["user"]
    BY <1>11, <1>12, <1>13, <2>1, <2>2, <2>3 DEF SumOf, Beyond
  <2> QED BY <1>4, <2>8, <2>9, <2>10 DEF Settled
<1>8. CASE k = "call"
  <2>1. /\ p["backend"] = i("backend") + t /\ p["overhead"] = i("overhead")
        /\ p["user"] = i("user")
    BY <1>1, <1>2, <1>8 DEF BucketOf
  <2>2. /\ g2["backend"] = g["backend"] /\ g2["overhead"] = g["overhead"]
        /\ g2["user"] = g["user"] /\ c2 = c + Beyond(d, SumOf(g) + c)
    BY <1>1, <1>2, <1>3, <1>8 DEF Owed
  <2>8. /\ d = SumOf(p)
        /\ g2["backend"] + c2 <= p["backend"] /\ g2["overhead"] <= p["overhead"]
    BY <1>11, <1>12, <1>13, <2>1, <2>2 DEF SumOf, Beyond
  <2>9. 0 <= c2 /\ SumOf(g2) + c2 >= SumOf(p)
    BY <1>11, <1>12, <1>13, <2>1, <2>2 DEF SumOf, Beyond
  <2>10. ~ e => /\ g2["backend"] + c2 = p["backend"]
                /\ g2["overhead"] = p["overhead"] /\ g2["user"] = p["user"]
    BY <1>11, <1>12, <1>13, <2>1, <2>2 DEF SumOf, Beyond
  <2> QED BY <1>4, <2>8, <2>9, <2>10 DEF Settled
<1>9. CASE k = "tracked"
  <2>1. /\ p["backend"] = i("backend") + t /\ p["overhead"] = i("overhead")
        /\ p["user"] = i("user")
    BY <1>1, <1>2, <1>9 DEF BucketOf
  <2>2. /\ g2["backend"] = g["backend"] /\ g2["overhead"] = g["overhead"]
        /\ g2["user"] = g["user"] /\ c2 = c + Beyond(d, own)
    BY <1>1, <1>2, <1>3, <1>9 DEF Owed
  <2>3. own = i("backend") + i("overhead") + i("user")
    BY <1>3, <1>9
  <2>8. /\ d = SumOf(p)
        /\ g2["backend"] + c2 <= p["backend"] /\ g2["overhead"] <= p["overhead"]
    BY <1>11, <1>12, <1>13, <2>1, <2>2, <2>3 DEF SumOf, Beyond
  <2>9. 0 <= c2 /\ SumOf(g2) + c2 >= SumOf(p)
    BY <1>11, <1>12, <1>13, <2>1, <2>2, <2>3 DEF SumOf, Beyond
  <2>10. ~ e => /\ g2["backend"] + c2 = p["backend"]
                /\ g2["overhead"] = p["overhead"] /\ g2["user"] = p["user"]
    BY <1>11, <1>12, <1>13, <2>1, <2>2, <2>3 DEF SumOf, Beyond
  <2> QED BY <1>4, <2>8, <2>9, <2>10 DEF Settled
<1>10. CASE k = "root"
  <2>1. /\ p["backend"] = i("backend") /\ p["overhead"] = i("overhead")
        /\ p["user"] = i("user") + t
    BY <1>1, <1>2, <1>10 DEF BucketOf
  <2>2. /\ g2["backend"] = g["backend"] /\ g2["overhead"] = g["overhead"] /\ c2 = c
        /\ g2["user"] = g["user"] + Beyond(d, SumOf(g) + c)
    BY <1>1, <1>2, <1>3, <1>10 DEF Owed
  <2>8. /\ d = SumOf(p)
        /\ g2["backend"] + c2 <= p["backend"] /\ g2["overhead"] <= p["overhead"]
    BY <1>11, <1>12, <1>13, <2>1, <2>2 DEF SumOf, Beyond
  <2>9. 0 <= c2 /\ SumOf(g2) + c2 >= SumOf(p)
    BY <1>11, <1>12, <1>13, <2>1, <2>2 DEF SumOf, Beyond
  <2>10. ~ e => /\ g2["backend"] + c2 = p["backend"]
                /\ g2["overhead"] = p["overhead"] /\ g2["user"] = p["user"]
    BY <1>11, <1>12, <1>13, <2>1, <2>2, SMTT(30) DEF SumOf, Beyond
  <2> QED BY <1>4, <2>8, <2>9, <2>10 DEF Settled
<1> QED BY <1>5, <1>6, <1>7, <1>8, <1>9, <1>10 DEF Kind

-----------------------------------------------------------------------------
(***************************************************************************)
(* The open frames cut the time of a run: at the opening of each, and now. *)
(* snap[i] is what had been spent when frame i was opened, ticks[i] how    *)
(* often the clock ticked while it was the innermost one.                  *)
(***************************************************************************)
StartOf(i) == IF i <= Depth THEN stack[i].start ELSE now
BaseOf(i) == IF i <= Depth THEN stack[i].base ELSE total
MarkOf(i) == IF i <= Depth THEN stack[i].mark ELSE TimerOwn
SpentAt(snap, i) == IF i <= Depth THEN snap[i] ELSE spent

\* Between the cuts i and i + 1: what was spent, what the totals grew by, and what
\* the calls of the frame gave to its timer.
Passed(snap, i) == [b \in Bucket |-> SpentAt(snap, i + 1)[b] - SpentAt(snap, i)[b]]
Gains(i) == [b \in Bucket |-> BaseOf(i + 1)[b] - BaseOf(i)[b]]
Credit(i) == MarkOf(i + 1) - (IF stack[i].kind = "timer" THEN 0 ELSE MarkOf(i))

\* The account of the frame at i.
SegmentAt(snap, ticks, i) ==
  Segment(stack[i].kind, stack[i].own, StartOf(i + 1) - StartOf(i), Passed(snap, i),
          ticks[i], Gains(i), Credit(i), blurred)

\* Unless blurred, nothing inside a callback is the program's time.
CallbackInv(snap) ==
  ~ blurred => \A i, j \in 1 .. Depth : stack[i].kind = "callback" /\ i < j =>
     stack[j].kind \notin {"callback", "root"} /\ Passed(snap, j)["user"] = 0

\* At no cut has more been reported than was spent; at the first it was exact.
CumulInv(snap) ==
  /\ \A i \in 1 .. Depth + 1, b \in {"backend", "overhead"} :
       BaseOf(i)[b] - boundary[b] <= SpentAt(snap, i)[b]
  /\ ~ blurred => \A b \in {"backend", "overhead"} :
       BaseOf(1)[b] - boundary[b] = SpentAt(snap, 1)[b]

\* After a reset with a wrapper open nothing is known.
Good == resets = 0 \/ ~ blurred

\* The accounts of all frames, and of the time before each.
AccountInv(snap, ticks) ==
  Good => /\ \A i \in 1 .. Depth : SegmentAt(snap, ticks, i)
          /\ CallbackInv(snap)
          /\ CumulInv(snap)

\* Values of `spent', one for each position.
Snaps == [Nat -> [Bucket -> Nat]]

\* f goes on with x after its first n values.
Extended(f, n, x, g) == g[n + 1] = x /\ \A i \in 1 .. n : g[i] = f[i]

\* A cut that a step does not move.
SameCut(s, s2, i) ==
  /\ StartOf(i)' = StartOf(i) /\ BaseOf(i)' = BaseOf(i) /\ MarkOf(i)' = MarkOf(i)
  /\ SpentAt(s2, i)' = SpentAt(s, i)

\* What is known at a cut.
LEMMA CutTypes ==
  ASSUME TypeOK, NEW top \in [Nat -> Nat], NestInv(top),
         NEW snap \in Snaps, NEW i \in 1 .. Depth + 1
  PROVE  /\ StartOf(i) \in Nat /\ BaseOf(i) \in [Bucket -> Nat] /\ MarkOf(i) \in Nat
         /\ SpentAt(snap, i) \in [Bucket -> Nat]
<1>1. stack \in Seq(Frame) /\ Depth \in Nat
  BY DEF TypeOK, Depth
<1>2. CASE i <= Depth
  <2>1. i \in 1 .. Depth /\ i \in Nat
    BY <1>1, <1>2
  <2>2. stack[i] \in Frame
    BY <1>1, <2>1 DEF Depth
  <2> QED BY <1>2, <2>1, <2>2 DEF Frame, StartOf, BaseOf, MarkOf, SpentAt, Snaps
<1>3. CASE ~ (i <= Depth)
  <2>1. InnermostTimer(stack, Depth + 1, top[Depth + 1])
    BY <1>1 DEF NestInv, TopInv
  <2>2. TimerOwn \in Nat
    BY <1>1, <2>1, TimerOwnIs
  <2> QED BY <1>3, <2>2 DEF TypeOK, StartOf, BaseOf, MarkOf, SpentAt
<1> QED BY <1>2, <1>3

\* The account of a frame between two cuts that stay.
LEMMA SegmentKept ==
  ASSUME NEW s, NEW s2, NEW ticks, NEW ticks2, NEW i, SameCut(s, s2, i), SameCut(s, s2, i + 1),
         stack'[i].kind = stack[i].kind,
         stack[i].kind = "tracked" => stack'[i].own = stack[i].own,
         ticks2[i] = ticks[i], blurred => blurred', SegmentAt(s, ticks, i)
  PROVE  SegmentAt(s2, ticks2, i)' /\ Passed(s2, i)' = Passed(s, i)
<1>1. Passed(s2, i)' = Passed(s, i)
  BY DEF Passed, SameCut
<1>2. Gains(i)' = Gains(i)
  BY DEF Gains, SameCut
<1>3. Credit(i)' = Credit(i)
  BY DEF Credit, SameCut
<1>4. (StartOf(i + 1) - StartOf(i))' = StartOf(i + 1) - StartOf(i)
  BY DEF SameCut
<1>7. Segment(stack[i].kind, stack'[i].own, StartOf(i + 1) - StartOf(i), Passed(s, i),
              ticks[i], Gains(i), Credit(i), blurred')
  <2>1. blurred => blurred'
    OBVIOUS
  <2>2. Segment(stack[i].kind, stack[i].own, StartOf(i + 1) - StartOf(i), Passed(s, i),
                ticks[i], Gains(i), Credit(i), blurred)
    BY DEF SegmentAt
  <2>3. stack[i].kind = "tracked" => stack'[i].own = stack[i].own
    OBVIOUS
  <2> HIDE DEF StartOf, Passed, Gains, Credit
  <2> QED BY <2>1, <2>2, <2>3 DEF Segment
<1>8. Segment(stack'[i].kind, stack'[i].own, (StartOf(i + 1) - StartOf(i))', Passed(s2, i)',
              ticks2[i], Gains(i)', Credit(i)', blurred')
  BY <1>1, <1>2, <1>3, <1>4, <1>7
<1> QED BY <1>1, <1>8 DEF SegmentAt

\* A new frame starts an account with nothing in it.
LEMMA OpeningAccounts ==
  ASSUME TypeOK, NEW top \in [Nat -> Nat], NestInv(top), NEW kind \in Kind, Opening(kind),
         NEW g \in [Nat -> Nat], g = Grown(top, kind), TypeOK', NestInv(g)',
         NEW snap \in Snaps, NEW ticks \in [Nat -> Nat],
         AccountInv(snap, ticks), NEW n \in Nat, n = Depth,
         NEW s2, Extended(snap, n, spent, s2), NEW k2, Extended(ticks, n, 0, k2)
  PROVE  AccountInv(s2, k2)'
<1> DEFINE new == [kind |-> kind, start |-> now, base |-> total, mark |-> TimerOwn, own |-> 0]
<1>0. Depth = n /\ Depth' = n + 1
  BY DEF Opening
<1>1. /\ stack \in Seq(Frame) /\ stack' \in Seq(Frame)
      /\ \A i \in 1 .. n : stack'[i] = stack[i]
      /\ stack'[n + 1] = new
      /\ UNCHANGED <<now, total, boundary, resets, spent>>
      /\ blurred => blurred'
  BY DEF TypeOK, Opening
<1>2. /\ new.kind = kind /\ new.start = now /\ new.base = total
      /\ new.mark = TimerOwn /\ new.own = 0
  OBVIOUS
<1> HIDE DEF new
<1>3. /\ s2[n + 1] = spent /\ k2[n + 1] = 0
      /\ \A i \in 1 .. n : s2[i] = snap[i] /\ k2[i] = ticks[i]
  BY DEF Extended
<1>4. ASSUME NEW i \in 1 .. n + 1 PROVE SameCut(snap, s2, i)
  <2>1. CASE i = n + 1
    <3>1. ~ (i <= Depth) /\ i <= Depth'
      BY <1>0, <2>1
    <3> QED BY <1>1, <1>2, <1>3, <2>1, <3>1 DEF SameCut, StartOf, BaseOf, MarkOf, SpentAt
  <2>2. CASE i \in 1 .. n
    <3>1. i <= Depth /\ i <= Depth'
      BY <1>0, <2>2
    <3> QED BY <1>1, <1>3, <2>2, <3>1 DEF SameCut, StartOf, BaseOf, MarkOf, SpentAt
  <2> QED BY <1>4, <2>1, <2>2
<1>5. /\ StartOf(n + 2)' = now /\ BaseOf(n + 2)' = total /\ SpentAt(s2, n + 2)' = spent
      /\ MarkOf(n + 2)' = TimerOwn'
  <2>1. ~ (n + 2 <= Depth')
    BY <1>0
  <2> QED BY <1>1, <2>1 DEF StartOf, BaseOf, MarkOf, SpentAt
<1>6. /\ StartOf(n + 1)' = now /\ BaseOf(n + 1)' = total /\ SpentAt(s2, n + 1)' = spent
      /\ MarkOf(n + 1)' = TimerOwn
  <2>1. ~ (n + 1 <= Depth)
    BY <1>0
  <2>2. SameCut(snap, s2, n + 1)
    <3>1. n + 1 \in 1 .. n + 1
      OBVIOUS
    <3> QED BY <1>4, <3>1
  <2> QED BY <2>1, <2>2 DEF SameCut, StartOf, BaseOf, MarkOf, SpentAt
<1>7. stack'[n + 1].kind = kind /\ stack'[n + 1].own = 0
  BY <1>1, <1>2
<1>8. MarkOf(n + 2)' = IF kind = "timer" THEN 0 ELSE TimerOwn
  <2>1. InnermostTimer(stack', n + 2, g[n + 2])
    <3>1. n + 2 \in 1 .. Depth' + 1
      BY <1>0
    <3> QED BY <3>1 DEF NestInv, TopInv
  <2>2. n + 2 = Depth' + 1
    BY <1>0
  <2>3. TimerOwn' = OwnOf(stack', g[n + 2])
    BY <1>1, <2>1, <2>2, TimerOwnBecomes
  <2>4. g[n + 2] = IF kind = "timer" THEN n + 1 ELSE top[n + 1]
    <3>1. n + 2 \in Nat
      OBVIOUS
    <3> QED BY <1>0, <3>1 DEF Grown
  <2>5. CASE kind = "timer"
    <3>1. g[n + 2] = n + 1 /\ n + 1 # 0
      BY <2>4, <2>5
    <3> QED BY <1>5, <1>7, <2>3, <2>5, <3>1 DEF OwnOf
  <2>6. CASE kind # "timer"
    <3>1. InnermostTimer(stack, n + 1, top[n + 1])
      BY <1>0 DEF NestInv, TopInv
    <3>2. TimerOwn = OwnOf(stack, top[n + 1])
      BY <1>0, <1>1, <3>1, TimerOwnIs
    <3>3. top[n + 1] # 0 => top[n + 1] \in 1 .. n
      <4>1. top[n + 1] \in 0 .. (n + 1) - 1
        BY <3>1 DEF InnermostTimer
      <4> QED BY <4>1
    <3>4. OwnOf(stack', top[n + 1]) = OwnOf(stack, top[n + 1])
      BY <1>1, <3>3 DEF OwnOf
    <3> QED BY <1>5, <2>3, <2>4, <2>6, <3>2, <3>4
  <2> QED BY <2>5, <2>6
<1>9. Passed(s2, n + 1)' = Nothing /\ Gains(n + 1)' = Nothing /\ Credit(n + 1)' = 0
  <2>1. (n + 1) + 1 = n + 2
    OBVIOUS
  <2>2. ASSUME NEW b \in Bucket PROVE spent[b] - spent[b] = 0 /\ total[b] - total[b] = 0
    <3>1. spent[b] \in Nat /\ total[b] \in Nat
      BY DEF TypeOK
    <3> QED BY <3>1
  <2>3. Passed(s2, n + 1)' = Nothing
    BY <1>5, <1>6, <2>1, <2>2 DEF Passed, Nothing
  <2>4. Gains(n + 1)' = Nothing
    <3>1. BaseOf((n + 1) + 1)' = total /\ BaseOf(n + 1)' = total
      BY <1>5, <1>6, <2>1
    <3> QED BY <2>2, <3>1 DEF Gains, Nothing
  <2>5. TimerOwn \in Nat
    <3>1. InnermostTimer(stack, n + 1, top[n + 1])
      BY <1>0 DEF NestInv, TopInv
    <3> QED BY <1>0, <1>1, <3>1, TimerOwnIs
  <2>6. Credit(n + 1)' = 0
    <3>1. MarkOf((n + 1) + 1)' = IF kind = "timer" THEN 0 ELSE TimerOwn
      BY <1>8, <2>1
    <3>2. MarkOf(n + 1)' = TimerOwn /\ stack'[n + 1].kind = kind
      BY <1>6, <1>7
    <3> QED BY <2>5, <3>1, <3>2 DEF Credit
  <2> QED BY <2>3, <2>4, <2>6
<1>10. (StartOf((n + 1) + 1) - StartOf(n + 1))' = 0
  <2>1. (n + 1) + 1 = n + 2 /\ now - now = 0
    BY DEF TypeOK
  <2> QED BY <1>5, <1>6, <2>1
<1>11. SegmentAt(s2, k2, n + 1)'
  <2>1. \A b \in Bucket : Nothing[b] = 0
    BY DEF Nothing
  <2>2. Segment(kind, 0, 0, Nothing, 0, Nothing, 0, blurred')
    BY <2>1, SegmentStarts DEF TypeOK
  <2> QED BY <1>3, <1>7, <1>9, <1>10, <2>2 DEF SegmentAt
<1> SUFFICES ASSUME Good' PROVE (\A i \in 1 .. Depth : SegmentAt(s2, k2, i))'
                                /\ CallbackInv(s2)' /\ CumulInv(s2)'
  BY DEF AccountInv
<1>12. /\ \A i \in 1 .. n : SegmentAt(snap, ticks, i)
       /\ CallbackInv(snap) /\ CumulInv(snap)
  BY <1>0, <1>1 DEF AccountInv, Good
<1>13. ASSUME NEW i \in 1 .. n
       PROVE  SegmentAt(s2, k2, i)' /\ Passed(s2, i)' = Passed(snap, i)
  <2>1. i \in 1 .. n + 1 /\ i + 1 \in 1 .. n + 1
    OBVIOUS
  <2>2. SameCut(snap, s2, i) /\ SameCut(snap, s2, i + 1)
    BY <1>4, <2>1
  <2>3. stack'[i] = stack[i] /\ k2[i] = ticks[i] /\ (blurred => blurred')
    BY <1>1, <1>3
  <2>4. stack'[i].kind = stack[i].kind /\ (stack[i].kind = "tracked" => stack'[i].own = stack[i].own)
    BY <2>3
  <2>5. SegmentAt(snap, ticks, i)
    BY <1>12
  <2> QED BY <2>2, <2>3, <2>4, <2>5, SegmentKept
<1>14. (\A i \in 1 .. Depth : SegmentAt(s2, k2, i))'
  <2>1. ASSUME NEW i \in 1 .. n + 1 PROVE SegmentAt(s2, k2, i)'
    <3>1. i \in 1 .. n \/ i = n + 1
      OBVIOUS
    <3> QED BY <1>11, <1>13, <3>1
  <2> QED BY <1>0, <2>1
<1>15. CallbackInv(s2)'
  <2> SUFFICES ASSUME ~ blurred', NEW i \in 1 .. n + 1, NEW j \in 1 .. n + 1,
                      stack'[i].kind = "callback", i < j
               PROVE  /\ stack'[j].kind \notin {"callback", "root"}
                      /\ Passed(s2, j)'["user"] = 0
    BY <1>0 DEF CallbackInv
  <2>1. i \in 1 .. n /\ stack[i].kind = "callback"
    <3>1. i \in 1 .. n
      OBVIOUS
    <3> QED BY <1>1, <3>1
  <2>2. CASE j = n + 1
    <3>1. kind \notin {"root", "callback"}
      BY <1>0, <2>1 DEF Opening
    <3> QED BY <1>7, <1>9, <2>2, <3>1 DEF Nothing, Bucket
  <2>3. CASE j \in 1 .. n
    <3>1. stack[j].kind \notin {"callback", "root"} /\ Passed(snap, j)["user"] = 0
      BY <1>0, <1>1, <1>12, <2>1, <2>3 DEF CallbackInv
    <3> QED BY <1>1, <1>13, <2>3, <3>1
  <2> QED BY <2>2, <2>3
<1>16. CumulInv(s2)'
  <2>1. ASSUME NEW i \in 1 .. n + 2, NEW b \in {"backend", "overhead"}
        PROVE  BaseOf(i)'[b] - boundary'[b] <= SpentAt(s2, i)'[b]
    <3>1. CASE i \in 1 .. n + 1
      <4>1. BaseOf(i)[b] - boundary[b] <= SpentAt(snap, i)[b]
        BY <1>0, <1>12, <3>1 DEF CumulInv
      <4>2. SameCut(snap, s2, i)
        BY <1>4, <3>1
      <4> QED BY <1>1, <4>1, <4>2 DEF SameCut
    <3>2. CASE i = n + 2
      <4>1. BaseOf(n + 1)[b] - boundary[b] <= SpentAt(snap, n + 1)[b]
        BY <1>0, <1>12 DEF CumulInv
      <4>2. ~ (n + 1 <= Depth)
        BY <1>0
      <4> QED BY <1>1, <1>5, <3>2, <4>1, <4>2 DEF BaseOf, SpentAt
    <3> QED BY <3>1, <3>2
  <2>2. ASSUME ~ blurred', NEW b \in {"backend", "overhead"}
        PROVE  BaseOf(1)'[b] - boundary'[b] = SpentAt(s2, 1)'[b]
    <3>1. BaseOf(1)[b] - boundary[b] = SpentAt(snap, 1)[b]
      BY <1>1, <1>12, <2>2 DEF CumulInv
    <3>2. SameCut(snap, s2, 1)
      <4>1. 1 \in 1 .. n + 1
        OBVIOUS
      <4> QED BY <1>4, <4>1
    <3> QED BY <1>1, <3>1, <3>2 DEF SameCut
  <2>3. Depth' + 1 = n + 2
    BY <1>0
  <2> QED BY <2>1, <2>2, <2>3 DEF CumulInv
<1> QED BY <1>14, <1>15, <1>16

\* What the current timer has after a frame was closed.
LEMMA TimerOwnAfter ==
  ASSUME TypeOK, NEW top \in [Nat -> Nat], NestInv(top), TypeOK', NestInv(top)',
         NEW paid \in [Bucket -> Nat], NEW j \in Nat, NEW x \in Nat, Closing(paid, j, x),
         NEW n \in Nat, n = Depth
  PROVE  /\ stack[n].kind = "timer" => TimerOwn = stack[n].own /\ TimerOwn' = stack[n].mark
         /\ stack[n].kind \in {"call", "tracked"} => TimerOwn' = TimerOwn + x
         /\ stack[n].kind \notin {"timer", "call", "tracked"} => TimerOwn' = TimerOwn
<1>0. n \in Nat \ {0} /\ Depth' = n - 1
  BY DEF Closing, Shrunk, Depth
<1>1. /\ stack \in Seq(Frame) /\ stack' \in Seq(Frame)
      /\ \A i \in 1 .. n - 1 : stack'[i].own = stack[i].own + (IF i = j THEN x ELSE 0)
  BY DEF Closing, Shrunk, TypeOK, Depth
<1>2. InnermostTimer(stack, n, top[n]) /\ InnermostTimer(stack, n + 1, top[n + 1])
  <2>1. n \in 1 .. Depth + 1 /\ n + 1 \in 1 .. Depth + 1
    BY <1>0
  <2> QED BY <2>1 DEF NestInv, TopInv
<1>3. TimerOwn = OwnOf(stack, top[n + 1]) /\ TimerOwn \in Nat
  BY <1>1, <1>2, TimerOwnIs
<1>4. TimerOwn' = OwnOf(stack', top[n])
  <2>1. Depth' + 1 = n /\ n \in 1 .. Depth' + 1
    BY <1>0
  <2>2. InnermostTimer(stack', n, top[n])
    BY <2>1 DEF NestInv, TopInv
  <2> QED BY <1>1, <2>1, <2>2, TimerOwnBecomes
<1>5. top[n] \in 0 .. n - 1 /\ top[n + 1] \in 0 .. n
  <2>1. top[n] \in 0 .. n - 1 /\ top[n + 1] \in 0 .. (n + 1) - 1
    BY <1>2 DEF InnermostTimer
  <2> QED BY <1>0, <2>1
<1>6. top[n] # 0 => stack[top[n]].own \in Nat
  <2>1. top[n] # 0 => top[n] \in 1 .. n
    BY <1>0, <1>5
  <2>2. top[n] # 0 => stack[top[n]] \in Frame
    BY <1>1, <2>1 DEF Depth
  <2> QED BY <2>2 DEF Frame
<1>7. CASE stack[n].kind = "timer"
  <2>1. n \in 1 .. (n + 1) - 1
    BY <1>0
  <2>2. n <= top[n + 1]
    BY <1>2, <1>7, <2>1 DEF InnermostTimer
  <2>3. top[n + 1] = n
    BY <1>0, <1>5, <2>2
  <2>4. TimerOwn = stack[n].own
    BY <1>0, <1>3, <2>3 DEF OwnOf
  <2>5. stack[n].mark = OwnOf(stack, top[n])
    <3>1. n \in 1 .. Depth
      BY <1>0
    <3> QED BY <1>7, <3>1 DEF NestInv, MarkInv
  <2>6. x = 0
    BY <1>7 DEF Closing, Due
  <2>7. OwnOf(stack', top[n]) = OwnOf(stack, top[n])
    <3>1. CASE top[n] = 0
      BY <3>1 DEF OwnOf
    <3>2. CASE top[n] # 0
      <4>1. top[n] \in 1 .. n - 1
        BY <1>0, <1>5, <3>2
      <4>2. stack'[top[n]].own = stack[top[n]].own + 0
        BY <1>1, <2>6, <4>1
      <4> QED BY <1>6, <3>2, <4>2 DEF OwnOf
    <3> QED BY <3>1, <3>2
  <2> QED BY <1>4, <1>7, <2>4, <2>5, <2>7
<1>8. CASE stack[n].kind \in {"call", "tracked"}
  <2>1. j = top[n] /\ j \in 1 .. n - 1 /\ top[n + 1] = j
    BY <1>8, Credited
  <2>2. stack'[j].own = stack[j].own + (IF j = j THEN x ELSE 0)
    BY <1>1, <2>1
  <2>3. j # 0
    BY <2>1
  <2> QED BY <1>3, <1>4, <1>8, <2>1, <2>2, <2>3 DEF OwnOf
<1>9. CASE stack[n].kind \notin {"timer", "call", "tracked"}
  <2>1. top[n + 1] = top[n]
    <3>1. top[n + 1] # n
      BY <1>0, <1>2, <1>9 DEF InnermostTimer
    <3>2. top[n + 1] # 0 => top[n + 1] \in 1 .. n - 1
      BY <1>0, <1>5, <3>1
    <3>3. top[n + 1] # 0 => top[n + 1] <= top[n]
      BY <1>2, <3>2 DEF InnermostTimer
    <3>4. top[n] # 0 => top[n] \in 1 .. (n + 1) - 1
      BY <1>0, <1>5
    <3>5. top[n] # 0 => top[n] <= top[n + 1]
      BY <1>2, <3>4 DEF InnermostTimer
    <3> QED BY <1>5, <3>3, <3>5
  <2>2. top[n] # 0 /\ x # 0 => top[n] # j
    <3>1. CASE stack[n].kind = "root"
      <4>1. stack[j].kind = "tracked"
        BY <3>1, Credited
      <4>2. top[n] # 0 => stack[top[n]].kind = "timer"
        BY <1>2 DEF InnermostTimer
      <4> QED BY <4>1, <4>2
    <3>2. CASE stack[n].kind # "root"
      BY <1>9, <3>2, Credited
    <3> QED BY <3>1, <3>2
  <2>3. OwnOf(stack', top[n]) = OwnOf(stack, top[n])
    <3>1. CASE top[n] = 0
      BY <3>1 DEF OwnOf
    <3>2. CASE top[n] # 0
      <4>1. top[n] \in 1 .. n - 1
        BY <1>0, <1>5, <3>2
      <4>2. (IF top[n] = j THEN x ELSE 0) = 0
        BY <2>2, <3>2
      <4>3. stack'[top[n]].own = stack[top[n]].own + 0
        BY <1>1, <4>1, <4>2
      <4> QED BY <1>6, <3>2, <4>3 DEF OwnOf
    <3> QED BY <3>1, <3>2
  <2> QED BY <1>3, <1>4, <1>9, <2>1, <2>3
<1> QED BY <1>7, <1>8, <1>9

\* The innermost frame settles its account.
LEMMA ClosingSettles ==
  ASSUME TypeOK, NEW top \in [Nat -> Nat], NestInv(top), TypeOK', NestInv(top)',
         NEW paid \in [Bucket -> Nat], NEW j \in Nat, NEW x \in Nat, Closing(paid, j, x),
         NEW n \in Nat, n = Depth, NEW snap \in Snaps, NEW ticks \in [Nat -> Nat],
         SegmentAt(snap, ticks, n)
  PROVE  /\ Settled(now - StartOf(n), Passed(snap, n),
                    [b \in Bucket |-> total'[b] - BaseOf(n)[b]], TimerOwn' - MarkOf(n), blurred)
         /\ stack[n].kind \in {"wrapper", "timer", "callback"} => TimerOwn' - MarkOf(n) = 0
         /\ TimerOwn' \in Nat
<1> DEFINE k == stack[n].kind
           own == stack[n].own
           d == now - StartOf(n)
           p == Passed(snap, n)
           G == Gains(n)
           c == Credit(n)
           c2 == TimerOwn' - MarkOf(n)
           g == [b \in Bucket |-> total'[b] - BaseOf(n)[b]]
<1>0. n \in Nat \ {0} /\ n \in 1 .. Depth /\ n \in 1 .. Depth + 1 /\ n + 1 \in 1 .. Depth + 1
  <2>1. n \in Nat \ {0}
    BY DEF Closing, Shrunk, Depth
  <2>2. n \in 1 .. n /\ n \in 1 .. n + 1 /\ n + 1 \in 1 .. n + 1
    BY <2>1
  <2> QED BY <2>1, <2>2
<1>1. stack[n] \in Frame /\ StartOf(n) = stack[n].start /\ MarkOf(n) = stack[n].mark
      /\ BaseOf(n) = stack[n].base
  BY <1>0 DEF TypeOK, Depth, StartOf, MarkOf, BaseOf
<1>2. /\ StartOf(n + 1) = now /\ MarkOf(n + 1) = TimerOwn /\ BaseOf(n + 1) = total
  <2>1. ~ (n + 1 <= Depth)
    BY <1>0
  <2> QED BY <2>1 DEF StartOf, MarkOf, BaseOf
<1>3. /\ StartOf(n) \in Nat /\ MarkOf(n) \in Nat /\ TimerOwn \in Nat /\ now \in Nat
      /\ BaseOf(n) \in [Bucket -> Nat]
  BY <1>0, <1>2, CutTypes DEF TypeOK
<1>4. k \in Kind /\ own \in Nat
  BY <1>1 DEF Frame
<1>5. p \in [Bucket -> Int]
  <2>1. SpentAt(snap, n) \in [Bucket -> Nat] /\ SpentAt(snap, n + 1) \in [Bucket -> Nat]
    BY <1>0, CutTypes
  <2> QED BY <2>1 DEF Passed
<1>6. G \in [Bucket -> Int] /\ \A b \in Bucket : G[b] = total[b] - BaseOf(n)[b]
  <2>1. ASSUME NEW b \in Bucket PROVE total[b] - BaseOf(n)[b] \in Int
    <3>1. total[b] \in Nat /\ BaseOf(n)[b] \in Nat
      BY <1>3 DEF TypeOK
    <3> QED BY <3>1
  <2> QED BY <1>2, <2>1 DEF Gains
<1>7. c = IF k = "timer" THEN TimerOwn ELSE TimerOwn - MarkOf(n)
  <2>1. TimerOwn - 0 = TimerOwn
    BY <1>3
  <2> QED BY <1>2, <2>1 DEF Credit
<1>8. c \in Int /\ d \in Int
  BY <1>3, <1>7
<1>9. g \in [Bucket -> Int] /\ \A b \in Bucket : g[b] = G[b] + paid[b]
  <2>1. ASSUME NEW b \in Bucket PROVE g[b] \in Int /\ g[b] = G[b] + paid[b]
    <3>1. total'[b] = total[b] + paid[b] /\ g[b] = total'[b] - BaseOf(n)[b]
      BY DEF Closing
    <3>2. total[b] \in Nat /\ BaseOf(n)[b] \in Nat /\ paid[b] \in Nat
      BY <1>3 DEF TypeOK
    <3> QED BY <1>6, <3>1, <3>2
  <2> QED BY <2>1
<1>10. /\ k = "timer" => TimerOwn = own /\ c2 = 0
       /\ k \in {"call", "tracked"} => c2 = c + x
       /\ k \in {"wrapper", "callback", "root"} => c2 = c
       /\ TimerOwn' \in Nat
  <2>1. /\ k = "timer" => TimerOwn = own /\ TimerOwn' = MarkOf(n)
        /\ k \in {"call", "tracked"} => TimerOwn' = TimerOwn + x
        /\ k \notin {"timer", "call", "tracked"} => TimerOwn' = TimerOwn
    BY <1>1, TimerOwnAfter
  <2>2. k = "timer" \/ k \in {"call", "tracked"} \/ k \notin {"timer", "call", "tracked"}
    OBVIOUS
  <2> HIDE DEF k, own
  <2> QED BY <1>3, <1>7, <2>1, <2>2
<1>11. Segment(k, own, d, p, ticks[n], G, c, blurred)
  BY <1>2 DEF SegmentAt
<1>12. Owed(k, own, d, G, c, paid, x)
  <2>1. /\ Elapsed(stack[n]) = d /\ \A b \in Bucket : Gained(stack[n], b) = G[b]
    BY <1>1, <1>6 DEF Elapsed, Gained
  <2>2. /\ Nested(stack[n]) = G["backend"] + G["overhead"]
        /\ Classified(stack[n]) = SumOf(G)
    BY <2>1 DEF Nested, Classified, SumOf, Bucket
  <2>3. Due(paid, x)
    BY DEF Closing
  <2>4. k # "timer" => c = TimerOwn - stack[n].mark
    BY <1>1, <1>7
  <2>5. k = "timer" => c = own
    BY <1>7, <1>10
  <2>6. "backend" \in Bucket /\ "overhead" \in Bucket /\ "user" \in Bucket
    BY DEF Bucket
  <2>7. \/ /\ k = "wrapper"
           /\ x = 0 /\ paid["backend"] = 0 /\ paid["user"] = 0
           /\ paid["overhead"] = Beyond(d, SumOf(G))
        \/ /\ k = "timer"
           /\ x = 0 /\ paid["backend"] = own /\ paid["user"] = 0
           /\ paid["overhead"] = Beyond(d, own + SumOf(G))
        \/ /\ k = "callback"
           /\ x = 0 /\ paid["backend"] = 0 /\ paid["overhead"] = 0
           /\ paid["user"] = Beyond(d, G["backend"] + G["overhead"])
        \/ /\ k = "call"
           /\ x = Beyond(d, SumOf(G) + (TimerOwn - stack[n].mark))
           /\ paid["backend"] = 0 /\ paid["overhead"] = 0 /\ paid["user"] = 0
        \/ /\ k = "tracked"
           /\ x = Beyond(d, own)
           /\ paid["backend"] = 0 /\ paid["overhead"] = 0 /\ paid["user"] = 0
        \/ /\ k = "root"
           /\ paid["backend"] = 0 /\ paid["overhead"] = 0
           /\ paid["user"] = Beyond(d, SumOf(G) + (TimerOwn - stack[n].mark))
    <3> HIDE DEF d, G, c
    <3> QED BY <2>1, <2>2, <2>3, <2>6, Zenon DEF Due
  <2> HIDE DEF k, own, d, G, c
  <2> QED BY <2>4, <2>5, <2>7 DEF Owed
<1>13. ticks[n] \in Nat /\ blurred \in BOOLEAN /\ c2 \in Int
  <2>1. ticks[n] \in Nat
    BY <1>0
  <2>2. c2 \in Int
    BY <1>3, <1>10
  <2> QED BY <2>1, <2>2 DEF TypeOK
<1>14. Settled(d, p, g, c2, blurred)
  <2>1. own \in Int
    BY <1>4
  <2>2. /\ k = "timer" => c2 = 0
        /\ k \in {"call", "tracked"} => c2 = c + x
        /\ k \in {"wrapper", "callback", "root"} => c2 = c
    BY <1>10
  <2>3. \A b \in Bucket : g[b] = G[b] + paid[b]
    BY <1>9
  <2> HIDE DEF k, own, d, p, G, c, c2, g
  <2>4. Debt(k, own, d, p, ticks[n], G, c, blurred, paid, x, g, c2)
    BY <1>4, <1>5, <1>6, <1>8, <1>9, <1>11, <1>12, <1>13, <2>1, <2>2, <2>3, Zenon DEF Debt
  <2> QED BY <2>4, OwedSettles
<1>15. k \in {"wrapper", "callback"} => c = 0
  BY <1>11 DEF Segment
<1>16. k \in {"wrapper", "timer", "callback"} => c2 = 0
  BY <1>10, <1>15
<1> QED BY <1>10, <1>14, <1>16

\* A frame that is closed moves the last cut only.
LEMMA ClosingCuts ==
  ASSUME NEW paid \in [Bucket -> Nat], NEW j \in Nat, NEW x \in Nat, Closing(paid, j, x),
         NEW n \in Nat, n = Depth, NEW snap
  PROVE  /\ n \in Nat \ {0} /\ Depth' = n - 1
         /\ \A i \in 1 .. n - 1 : SameCut(snap, snap, i)
         /\ StartOf(n)' = now /\ BaseOf(n)' = total' /\ MarkOf(n)' = TimerOwn'
         /\ SpentAt(snap, n)' = spent
         /\ SpentAt(snap, n + 1) = spent
<1>0. n \in Nat \ {0} /\ Depth' = n - 1
  BY DEF Closing, Shrunk, Depth
<1>1. \A i \in 1 .. n - 1 :
        /\ stack'[i].start = stack[i].start /\ stack'[i].base = stack[i].base
        /\ stack'[i].mark = stack[i].mark
  BY DEF Closing, Shrunk, Depth
<1>2. ASSUME NEW i \in 1 .. n - 1 PROVE SameCut(snap, snap, i)
  <2>1. i <= Depth /\ i <= Depth'
    BY <1>0, <1>2
  <2> QED BY <1>1, <2>1 DEF SameCut, StartOf, BaseOf, MarkOf, SpentAt
<1>3. /\ StartOf(n)' = now /\ BaseOf(n)' = total' /\ MarkOf(n)' = TimerOwn'
      /\ SpentAt(snap, n)' = spent
  <2>1. ~ (n <= Depth')
    BY <1>0
  <2>2. now' = now /\ spent' = spent
    BY DEF Closing
  <2> QED BY <2>1, <2>2 DEF StartOf, BaseOf, MarkOf, SpentAt
<1>4. SpentAt(snap, n + 1) = spent
  <2>1. ~ (n + 1 <= Depth)
    BY <1>0
  <2> QED BY <2>1 DEF SpentAt
<1> QED BY <1>0, <1>2, <1>3, <1>4

\* The frame below a closed one takes over its account.
LEMMA ParentAccounts ==
  ASSUME TypeOK, NEW top \in [Nat -> Nat], NestInv(top), TypeOK', NestInv(top)',
         NEW paid \in [Bucket -> Nat], NEW j \in Nat, NEW x \in Nat, Closing(paid, j, x),
         NEW n \in Nat, n = Depth, NEW snap \in Snaps, NEW ticks \in [Nat -> Nat],
         SegmentAt(snap, ticks, n), n > 1, SegmentAt(snap, ticks, n - 1), CallbackInv(snap)
  PROVE  /\ SegmentAt(snap, ticks, n - 1)'
         /\ \A b \in Bucket :
              Passed(snap, n - 1)'[b] = Passed(snap, n - 1)[b] + Passed(snap, n)[b]
<1> PICK m \in Nat : m = n - 1
  OBVIOUS
<1> SUFFICES ASSUME n = m + 1, m # 0, SegmentAt(snap, ticks, m)
             PROVE  /\ SegmentAt(snap, ticks, m)'
                    /\ \A b \in Bucket :
                         Passed(snap, m)'[b] = Passed(snap, m)[b] + Passed(snap, n)[b]
  OBVIOUS
<1> DEFINE k == stack[m].kind
           d2 == now - StartOf(n)
           p2 == Passed(snap, n)
           g2 == [b \in Bucket |-> total'[b] - BaseOf(n)[b]]
           c2 == TimerOwn' - MarkOf(n)
<1>0. /\ m \in 1 .. n - 1 /\ m \in 1 .. Depth /\ m \in 1 .. Depth + 1 /\ n \in 1 .. Depth
      /\ n \in 1 .. Depth + 1 /\ n + 1 \in 1 .. Depth + 1 /\ m < n
  <2>1. m \in 1 .. n - 1 /\ m \in 1 .. n /\ m \in 1 .. n + 1 /\ n \in 1 .. n /\ n \in 1 .. n + 1
        /\ n + 1 \in 1 .. n + 1 /\ m < n
    OBVIOUS
  <2> QED BY <2>1
<1>1. /\ SameCut(snap, snap, m) /\ StartOf(n)' = now /\ BaseOf(n)' = total'
      /\ MarkOf(n)' = TimerOwn' /\ SpentAt(snap, n)' = spent /\ SpentAt(snap, n + 1) = spent
  BY <1>0, ClosingCuts
<1>2. /\ Settled(d2, p2, g2, c2, blurred)
      /\ stack[n].kind \in {"wrapper", "timer", "callback"} => c2 = 0
      /\ TimerOwn' \in Nat
  BY ClosingSettles
<1>3. /\ StartOf(m) \in Nat /\ BaseOf(m) \in [Bucket -> Nat] /\ MarkOf(m) \in Nat
      /\ SpentAt(snap, m) \in [Bucket -> Nat]
  BY <1>0, CutTypes
<1>4. /\ StartOf(n) \in Nat /\ BaseOf(n) \in [Bucket -> Nat] /\ MarkOf(n) \in Nat
      /\ SpentAt(snap, n) \in [Bucket -> Nat]
  BY <1>0, CutTypes
<1>5. now \in Nat /\ total \in [Bucket -> Nat] /\ total' \in [Bucket -> Nat]
      /\ spent \in [Bucket -> Nat] /\ blurred \in BOOLEAN
  BY DEF TypeOK
<1>6. /\ k \in Kind /\ stack[m].own \in Nat
      /\ stack'[m].kind = k /\ stack'[m].own = stack[m].own + (IF m = j THEN x ELSE 0)
  <2>1. stack[m] \in Frame
    BY <1>0, FrameAt
  <2>2. stack'[m].kind = k /\ stack'[m].own = stack[m].own + (IF m = j THEN x ELSE 0)
    BY <1>0 DEF Closing, Shrunk, Depth
  <2> QED BY <2>1, <2>2 DEF Frame
<1>7. k \in Parents(stack[n].kind)
  <2>1. ParentOf(stack, n) \in Parents(stack[n].kind)
    BY <1>0 DEF NestInv, ShapeInv
  <2>2. n # 1 /\ n - 1 = m
    OBVIOUS
  <2> QED BY <2>1, <2>2 DEF ParentOf
<1>8. stack[n].kind \in Kind
  <2>1. stack[n] \in Frame
    BY <1>0, FrameAt
  <2> QED BY <2>1 DEF Frame
<1>9. k \in {"wrapper", "callback"} => c2 = 0
  <2>1. k \in {"wrapper", "callback"} => stack[n].kind \in {"wrapper", "timer", "callback"}
    BY <1>7, <1>8 DEF Parents, Kind
  <2> QED BY <1>2, <2>1
<1>10. ~ blurred /\ k = "callback" => p2["user"] = 0
  BY <1>0 DEF CallbackInv
<1>11. k = "tracked" => stack'[m].own = stack[m].own + d2
  <2>1. k = "tracked" => stack[n].kind = "root"
    BY <1>7, <1>8 DEF Parents, Kind
  <2>2. stack[n].kind = "root" => j = n - 1 /\ x = Elapsed(stack[n])
    BY DEF Closing, Due
  <2>3. Elapsed(stack[n]) = d2
    <3>1. StartOf(n) = stack[n].start
      BY <1>0 DEF StartOf
    <3> QED BY <3>1 DEF Elapsed
  <2>4. n - 1 = m
    OBVIOUS
  <2> QED BY <1>6, <2>1, <2>2, <2>3, <2>4
<1>12. /\ Passed(snap, m) \in [Bucket -> Int] /\ Passed(snap, n) \in [Bucket -> Int]
       /\ Passed(snap, m)' \in [Bucket -> Int]
       /\ \A b \in Bucket : Passed(snap, m)'[b] = Passed(snap, m)[b] + Passed(snap, n)[b]
  <2>1. ASSUME NEW b \in Bucket
        PROVE  /\ SpentAt(snap, n)[b] - SpentAt(snap, m)[b] \in Int
               /\ spent[b] - SpentAt(snap, n)[b] \in Int
               /\ spent[b] - SpentAt(snap, m)[b] \in Int
               /\ spent[b] - SpentAt(snap, m)[b]
                    = (SpentAt(snap, n)[b] - SpentAt(snap, m)[b]) + (spent[b] - SpentAt(snap, n)[b])
    <3>1. spent[b] \in Nat /\ SpentAt(snap, n)[b] \in Nat /\ SpentAt(snap, m)[b] \in Nat
      BY <1>3, <1>4, <1>5
    <3> QED BY <3>1
  <2>2. Passed(snap, m) = [b \in Bucket |-> SpentAt(snap, n)[b] - SpentAt(snap, m)[b]]
    BY DEF Passed
  <2>3. Passed(snap, n) = [b \in Bucket |-> spent[b] - SpentAt(snap, n)[b]]
    BY <1>1 DEF Passed
  <2>4. Passed(snap, m)' = [b \in Bucket |-> spent[b] - SpentAt(snap, m)[b]]
    <3>1. SpentAt(snap, m + 1)' = spent /\ SpentAt(snap, m)' = SpentAt(snap, m)
      BY <1>1 DEF SameCut
    <3> QED BY <3>1 DEF Passed
  <2> QED BY <2>1, <2>2, <2>3, <2>4
<1>13. /\ Gains(m) \in [Bucket -> Int] /\ g2 \in [Bucket -> Int] /\ Gains(m)' \in [Bucket -> Int]
       /\ \A b \in Bucket : Gains(m)'[b] = Gains(m)[b] + g2[b]
  <2>1. ASSUME NEW b \in Bucket
        PROVE  /\ BaseOf(n)[b] - BaseOf(m)[b] \in Int
               /\ total'[b] - BaseOf(n)[b] \in Int
               /\ total'[b] - BaseOf(m)[b] \in Int
               /\ total'[b] - BaseOf(m)[b]
                    = (BaseOf(n)[b] - BaseOf(m)[b]) + (total'[b] - BaseOf(n)[b])
    <3>1. total'[b] \in Nat /\ BaseOf(n)[b] \in Nat /\ BaseOf(m)[b] \in Nat
      BY <1>3, <1>4, <1>5
    <3> QED BY <3>1
  <2>2. Gains(m) = [b \in Bucket |-> BaseOf(n)[b] - BaseOf(m)[b]]
    BY DEF Gains
  <2>3. Gains(m)' = [b \in Bucket |-> total'[b] - BaseOf(m)[b]]
    <3>1. BaseOf(m + 1)' = total' /\ BaseOf(m)' = BaseOf(m)
      BY <1>1 DEF SameCut
    <3> QED BY <3>1 DEF Gains
  <2> QED BY <2>1, <2>2, <2>3
<1>14. Credit(m) \in Int /\ c2 \in Int /\ Credit(m)' = Credit(m) + c2
  <2>1. Credit(m) = MarkOf(n) - (IF k = "timer" THEN 0 ELSE MarkOf(m))
    BY DEF Credit
  <2>2. Credit(m)' = TimerOwn' - (IF k = "timer" THEN 0 ELSE MarkOf(m))
    <3>1. MarkOf(m + 1)' = TimerOwn' /\ MarkOf(m)' = MarkOf(m)
      BY <1>1 DEF SameCut
    <3> QED BY <1>6, <3>1 DEF Credit
  <2> HIDE DEF k
  <2> QED BY <1>2, <1>3, <1>4, <2>1, <2>2
<1>15. /\ StartOf(n) - StartOf(m) \in Int /\ d2 \in Int
       /\ (StartOf(n) - StartOf(m))' = (StartOf(n) - StartOf(m)) + d2
  <2>1. StartOf(m)' = StartOf(m)
    BY <1>1 DEF SameCut
  <2>2. (StartOf(n) - StartOf(m))' = now - StartOf(m)
    BY <1>1, <2>1
  <2> QED BY <1>3, <1>4, <1>5, <2>2
<1>16. Segment(k, stack[m].own, StartOf(n) - StartOf(m), Passed(snap, m), ticks[m],
               Gains(m), Credit(m), blurred)
  BY DEF SegmentAt
<1>17. ticks[m] \in Nat /\ stack[m].own \in Int
  BY <1>6
<1>18. Merge(k, stack[m].own, StartOf(n) - StartOf(m), Passed(snap, m), ticks[m],
             Gains(m), Credit(m), blurred, d2, p2, g2, c2, stack'[m].own,
             (StartOf(n) - StartOf(m))', Passed(snap, m)', Gains(m)', Credit(m)')
  <2> HIDE DEF k, d2, p2, g2, c2
  <2>1. p2 = Passed(snap, n)
    BY DEF p2
  <2> QED BY <1>2, <1>5, <1>6, <1>9, <1>10, <1>11, <1>12, <1>13, <1>14, <1>15, <1>16, <1>17,
             <2>1, Zenon DEF Merge
<1>19. Segment(k, stack'[m].own, (StartOf(n) - StartOf(m))', Passed(snap, m)', ticks[m],
               Gains(m)', Credit(m)', blurred)
  <2> HIDE DEF k, d2, p2, g2, c2
  <2> QED BY <1>18, SegmentsMerge
<1>20. blurred' = blurred
  BY DEF Closing
<1> QED BY <1>6, <1>12, <1>19, <1>20 DEF SegmentAt

\* Closing a frame keeps the accounts.
LEMMA ClosingAccounts ==
  ASSUME TypeOK, NEW top \in [Nat -> Nat], NestInv(top), TypeOK', NestInv(top)',
         NEW paid \in [Bucket -> Nat], NEW j \in Nat, NEW x \in Nat, Closing(paid, j, x),
         NEW n \in Nat, n = Depth, NEW snap \in Snaps, NEW ticks \in [Nat -> Nat],
         AccountInv(snap, ticks)
  PROVE  AccountInv(snap, ticks)'
<1>0. /\ n \in Nat \ {0} /\ Depth' = n - 1
      /\ \A i \in 1 .. n - 1 : SameCut(snap, snap, i)
      /\ StartOf(n)' = now /\ BaseOf(n)' = total' /\ MarkOf(n)' = TimerOwn'
      /\ SpentAt(snap, n)' = spent /\ SpentAt(snap, n + 1) = spent
  BY ClosingCuts
<1>1. /\ \A i \in 1 .. n - 1 :
           /\ stack'[i].kind = stack[i].kind
           /\ stack'[i].own = stack[i].own + (IF i = j THEN x ELSE 0)
      /\ UNCHANGED <<boundary, resets, spent, blurred>>
  BY DEF Closing, Shrunk, Depth
<1>2. n \in 1 .. Depth /\ n \in 1 .. Depth + 1
  <2>1. n \in 1 .. n /\ n \in 1 .. n + 1
    BY <1>0
  <2> QED BY <2>1
<1> SUFFICES ASSUME Good' PROVE (\A i \in 1 .. Depth : SegmentAt(snap, ticks, i))'
                                /\ CallbackInv(snap)' /\ CumulInv(snap)'
  BY DEF AccountInv
<1>3. /\ \A i \in 1 .. n : SegmentAt(snap, ticks, i)
      /\ CallbackInv(snap) /\ CumulInv(snap)
  BY <1>1 DEF AccountInv, Good
<1>4. SegmentAt(snap, ticks, n)
  BY <1>2, <1>3
<1>5. /\ Settled(now - StartOf(n), Passed(snap, n),
                 [b \in Bucket |-> total'[b] - BaseOf(n)[b]], TimerOwn' - MarkOf(n), blurred)
      /\ stack[n].kind \in {"wrapper", "timer", "callback"} => TimerOwn' - MarkOf(n) = 0
      /\ TimerOwn' \in Nat
  BY <1>4, ClosingSettles
<1>6. ASSUME NEW i \in Nat, i # 0, i + 1 < n
      PROVE  SegmentAt(snap, ticks, i)' /\ Passed(snap, i)' = Passed(snap, i)
  <2>1. i \in 1 .. n - 1 /\ i + 1 \in 1 .. n - 1 /\ i \in 1 .. n /\ i # n - 1
    BY <1>0, <1>6
  <2>2. SameCut(snap, snap, i) /\ SameCut(snap, snap, i + 1)
    BY <1>0, <2>1
  <2>3. stack[i].kind = "tracked" => stack'[i].own = stack[i].own
    <3>1. ASSUME stack[i].kind = "tracked" PROVE i # j \/ x = 0
      <4>1. CASE stack[Depth].kind \in {"call", "tracked"}
        <5>1. stack[j].kind = "timer"
          BY <4>1, Credited
        <5> QED BY <3>1, <5>1
      <4>2. CASE stack[Depth].kind = "root"
        <5>1. j = n - 1
          BY <4>2 DEF Closing
        <5> QED BY <2>1, <5>1
      <4>3. CASE stack[Depth].kind \notin {"call", "tracked", "root"}
        BY <4>3, Credited
      <4> QED BY <4>1, <4>2, <4>3
    <3>2. stack[i].own \in Nat
      <4>1. stack[i] \in Frame
        BY <2>1, FrameAt
      <4> QED BY <4>1 DEF Frame
    <3>3. stack'[i].own = stack[i].own + (IF i = j THEN x ELSE 0)
      BY <1>1, <2>1
    <3> QED BY <3>1, <3>2, <3>3
  <2>4. stack'[i].kind = stack[i].kind /\ (blurred => blurred') /\ SegmentAt(snap, ticks, i)
    BY <1>1, <1>3, <2>1
  <2> QED BY <2>2, <2>3, <2>4, SegmentKept
<1>7. ASSUME n > 1
      PROVE  /\ SegmentAt(snap, ticks, n - 1)'
             /\ \A b \in Bucket :
                  Passed(snap, n - 1)'[b] = Passed(snap, n - 1)[b] + Passed(snap, n)[b]
  <2>1. n - 1 \in 1 .. n
    BY <1>7
  <2>2. SegmentAt(snap, ticks, n - 1) /\ CallbackInv(snap)
    BY <1>3, <2>1
  <2> QED BY <1>4, <1>7, <2>2, ParentAccounts
<1>8. (\A i \in 1 .. Depth : SegmentAt(snap, ticks, i))'
  <2>1. ASSUME NEW i \in 1 .. n - 1 PROVE SegmentAt(snap, ticks, i)'
    <3>1. i \in Nat /\ i # 0 /\ (i + 1 < n \/ (i = n - 1 /\ n > 1))
      BY <1>0, <2>1
    <3> QED BY <1>6, <1>7, <3>1
  <2> QED BY <1>0, <2>1
<1>9. CallbackInv(snap)'
  <2> SUFFICES ASSUME ~ blurred', NEW a \in 1 .. n - 1, NEW i \in 1 .. n - 1,
                      stack'[a].kind = "callback", a < i
               PROVE  /\ stack'[i].kind \notin {"callback", "root"}
                      /\ Passed(snap, i)'["user"] = 0
    BY <1>0 DEF CallbackInv
  <2>0. a \in 1 .. n /\ i \in 1 .. n /\ a < n /\ i \in Nat /\ i # 0
    BY <1>0
  <2>1. stack[a].kind = "callback" /\ ~ blurred
    BY <1>1
  <2>2. stack[i].kind \notin {"callback", "root"} /\ Passed(snap, i)["user"] = 0
    BY <1>3, <2>0, <2>1 DEF CallbackInv
  <2>3. Passed(snap, n)["user"] = 0
    BY <1>2, <1>3, <2>0, <2>1 DEF CallbackInv
  <2>4. Passed(snap, i)'["user"] = 0
    <3>1. CASE i + 1 < n
      BY <1>6, <2>0, <2>2, <3>1
    <3>2. CASE i = n - 1 /\ n > 1
      <4>1. "user" \in Bucket
        BY DEF Bucket
      <4>2. Passed(snap, i)'["user"] = Passed(snap, i)["user"] + Passed(snap, n)["user"]
        BY <1>7, <2>0, <3>2, <4>1
      <4> QED BY <2>2, <2>3, <4>2
    <3> QED BY <1>0, <2>0, <3>1, <3>2
  <2> QED BY <1>1, <2>2, <2>4
<1>10. ASSUME NEW b \in {"backend", "overhead"}
       PROVE  /\ b \in Bucket /\ boundary[b] \in Nat /\ total'[b] \in Nat /\ BaseOf(n)[b] \in Nat
              /\ spent[b] \in Nat /\ SpentAt(snap, n)[b] \in Nat
              /\ total'[b] - BaseOf(n)[b] <= spent[b] - SpentAt(snap, n)[b]
              /\ ~ blurred /\ TimerOwn' - MarkOf(n) = 0 =>
                   total'[b] - BaseOf(n)[b] = spent[b] - SpentAt(snap, n)[b]
  <2>1. b \in Bucket
    BY <1>10 DEF Bucket
  <2>2. /\ BaseOf(n) \in [Bucket -> Nat] /\ SpentAt(snap, n) \in [Bucket -> Nat]
        /\ MarkOf(n) \in Nat
    BY <1>2, CutTypes
  <2>3. boundary[b] \in Nat /\ total'[b] \in Nat /\ BaseOf(n)[b] \in Nat /\ spent[b] \in Nat
        /\ SpentAt(snap, n)[b] \in Nat
    BY <2>1, <2>2 DEF TypeOK
  <2>4. Passed(snap, n)[b] = spent[b] - SpentAt(snap, n)[b]
    BY <1>0, <2>1 DEF Passed
  <2> DEFINE G == [a \in Bucket |-> total'[a] - BaseOf(n)[a]]
             c == TimerOwn' - MarkOf(n)
             p == Passed(snap, n)
  <2>5. G[b] = total'[b] - BaseOf(n)[b]
    BY <2>1
  <2>6. c \in Int
    BY <1>5, <2>2
  <2>7. Settled(now - StartOf(n), p, G, c, blurred)
    BY <1>5
  <2>8. G[b] \in Int /\ p[b] \in Int
    BY <2>3, <2>4, <2>5
  <2> HIDE DEF G, c, p
  <2>9. /\ 0 <= c /\ G["backend"] + c <= p["backend"] /\ G["overhead"] <= p["overhead"]
        /\ ~ blurred => G["backend"] + c = p["backend"] /\ G["overhead"] = p["overhead"]
    BY <2>7 DEF Settled
  <2>10. G[b] <= p[b]
    BY <1>10, <2>6, <2>8, <2>9
  <2>11. ~ blurred /\ c = 0 => G[b] = p[b]
    BY <1>10, <2>6, <2>8, <2>9
  <2> QED BY <2>1, <2>3, <2>4, <2>5, <2>10, <2>11 DEF c, p
<1>11. ASSUME NEW i \in 1 .. n, NEW b \in {"backend", "overhead"}
       PROVE  (BaseOf(i)[b] - boundary[b] <= SpentAt(snap, i)[b])'
  <2>1. CASE i \in 1 .. n - 1
    <3>1. i \in 1 .. Depth + 1
      BY <1>0, <2>1
    <3>2. BaseOf(i)[b] - boundary[b] <= SpentAt(snap, i)[b]
      BY <1>3, <3>1 DEF CumulInv
    <3>3. SameCut(snap, snap, i)
      BY <1>0, <2>1
    <3> QED BY <1>1, <3>2, <3>3 DEF SameCut
  <2>2. CASE i = n
    <3>1. BaseOf(n)[b] - boundary[b] <= SpentAt(snap, n)[b]
      BY <1>2, <1>3 DEF CumulInv
    <3>2. total'[b] - boundary[b] <= spent[b]
      BY <1>10, <3>1
    <3> QED BY <1>0, <1>1, <2>2, <3>2
  <2> QED BY <1>0, <2>1, <2>2
<1>12. ASSUME ~ blurred', NEW b \in {"backend", "overhead"}
       PROVE  (BaseOf(1)[b] - boundary[b] = SpentAt(snap, 1)[b])'
  <2>1. BaseOf(1)[b] - boundary[b] = SpentAt(snap, 1)[b]
    BY <1>1, <1>3, <1>12 DEF CumulInv
  <2>2. CASE n = 1
    <3>1. stack[1].kind \in {"wrapper", "timer", "callback"}
      <4>1. ParentOf(stack, 1) \in Parents(stack[1].kind)
        BY <1>2, <2>2 DEF NestInv, ShapeInv
      <4>2. stack[1].kind \in Kind
        <5>1. stack[1] \in Frame
          BY <1>2, <2>2, FrameAt
        <5> QED BY <5>1 DEF Frame
      <4> QED BY <4>1, <4>2 DEF ParentOf, Parents, Kind
    <3>2. total'[b] - BaseOf(1)[b] = spent[b] - SpentAt(snap, 1)[b]
      BY <1>1, <1>5, <1>10, <1>12, <2>2, <3>1
    <3>3. /\ boundary[b] \in Nat /\ total'[b] \in Nat /\ BaseOf(1)[b] \in Nat
          /\ spent[b] \in Nat /\ SpentAt(snap, 1)[b] \in Nat
      BY <1>10, <1>12, <2>2
    <3>4. total'[b] - boundary[b] = spent[b]
      BY <2>1, <3>2, <3>3
    <3> QED BY <1>0, <1>1, <2>2, <3>4
  <2>3. CASE n # 1
    <3>1. 1 \in 1 .. n - 1
      BY <1>0, <2>3
    <3>2. SameCut(snap, snap, 1)
      BY <1>0, <3>1
    <3> QED BY <1>1, <2>1, <3>2 DEF SameCut
  <2> QED BY <2>2, <2>3
<1>13. CumulInv(snap)'
  <2>1. Depth' + 1 = n
    BY <1>0
  <2> QED BY <1>11, <1>12, <2>1 DEF CumulInv
<1> QED BY <1>8, <1>9, <1>13

\* One more tick of the innermost frame.
Bumped(f, n, g) == g[n] = f[n] + 1 /\ \A i \in 1 .. n - 1 : g[i] = f[i]

\* A tick is on the account of the innermost frame.
LEMMA TickingAccounts ==
  ASSUME TypeOK, NEW top \in [Nat -> Nat], NestInv(top), TypeOK', NestInv(top)', Ticking,
         NEW n \in Nat, n = Depth, NEW snap \in Snaps, NEW ticks \in [Nat -> Nat],
         AccountInv(snap, ticks), NEW k2 \in [Nat -> Nat], Bumped(ticks, n, k2)
  PROVE  AccountInv(snap, k2)'
<1> DEFINE c == IF n = 0 THEN "user" ELSE BucketOf(stack[n].kind)
<1>0. /\ stack' = stack /\ Depth' = n /\ total' = total /\ boundary' = boundary
      /\ resets' = resets /\ blurred' = blurred /\ now' = now + 1
  BY DEF Ticking, Depth
<1>1. k2[n] = ticks[n] + 1 /\ \A i \in 1 .. n - 1 : k2[i] = ticks[i]
  BY DEF Bumped
<1>2. ASSUME NEW i \in 1 .. n PROVE SameCut(snap, snap, i)
  <2>1. i <= Depth /\ i <= Depth'
    BY <1>0, <1>2
  <2> QED BY <1>0, <2>1 DEF SameCut, StartOf, BaseOf, MarkOf, SpentAt
<1>3. /\ StartOf(n + 1) = now /\ BaseOf(n + 1) = total /\ MarkOf(n + 1) = TimerOwn
      /\ SpentAt(snap, n + 1) = spent
      /\ StartOf(n + 1)' = now + 1 /\ BaseOf(n + 1)' = total /\ MarkOf(n + 1)' = TimerOwn
      /\ SpentAt(snap, n + 1)' = spent'
  <2>1. ~ (n + 1 <= Depth) /\ ~ (n + 1 <= Depth')
    BY <1>0
  <2>2. TimerOwn' = TimerOwn
    BY <1>0 DEF TimerOwn, Timers, CurrentTimer
  <2> QED BY <1>0, <2>1, <2>2 DEF StartOf, BaseOf, MarkOf, SpentAt
<1>4. c \in Bucket /\ (n # 0 => stack[n].kind \in Kind)
  <2>1. n # 0 => stack[n].kind \in Kind
    <3>1. n # 0 => n \in 1 .. n
      OBVIOUS
    <3>2. n # 0 => stack[n] \in Frame
      BY <3>1, FrameAt
    <3> QED BY <3>2 DEF Frame
  <2> QED BY <2>1 DEF Kind, BucketOf, Bucket
<1>5. \A b \in Bucket : /\ spent[b] \in Nat /\ spent'[b] \in Nat
                        /\ spent'[b] = spent[b] + (IF b = c THEN 1 ELSE 0)
  <2>1. spent' = [spent EXCEPT ![c] = @ + 1]
    BY DEF Ticking
  <2>2. spent \in [Bucket -> Nat]
    BY DEF TypeOK
  <2> HIDE DEF c
  <2> QED BY <1>4, <2>1, <2>2
<1> SUFFICES ASSUME Good' PROVE (\A i \in 1 .. Depth : SegmentAt(snap, k2, i))'
                                /\ CallbackInv(snap)' /\ CumulInv(snap)'
  BY DEF AccountInv
<1>6. /\ \A i \in 1 .. n : SegmentAt(snap, ticks, i)
      /\ CallbackInv(snap) /\ CumulInv(snap)
  BY <1>0 DEF AccountInv, Good
<1>7. ASSUME NEW i \in 1 .. n - 1
      PROVE  SegmentAt(snap, k2, i)' /\ Passed(snap, i)' = Passed(snap, i)
  <2>1. i \in 1 .. n /\ i + 1 \in 1 .. n
    BY <1>7
  <2>2. SameCut(snap, snap, i) /\ SameCut(snap, snap, i + 1)
    BY <1>2, <2>1
  <2>3. /\ stack'[i].kind = stack[i].kind /\ stack'[i].own = stack[i].own
        /\ k2[i] = ticks[i] /\ (blurred => blurred') /\ SegmentAt(snap, ticks, i)
    BY <1>0, <1>1, <1>6, <2>1
  <2> QED BY <2>2, <2>3, SegmentKept
<1>8. ASSUME n # 0
      PROVE  /\ SegmentAt(snap, k2, n)'
             /\ \A b \in Bucket : Passed(snap, n)'[b] = Passed(snap, n)[b] + (IF b = c THEN 1 ELSE 0)
  <2>1. n \in 1 .. n /\ n \in 1 .. n + 1 /\ n + 1 \in 1 .. n + 1
    BY <1>8
  <2>2. SameCut(snap, snap, n)
    BY <1>2, <2>1
  <2>3. /\ StartOf(n) \in Nat /\ BaseOf(n) \in [Bucket -> Nat] /\ MarkOf(n) \in Nat
        /\ SpentAt(snap, n) \in [Bucket -> Nat] /\ TimerOwn \in Nat
    BY <1>3, <2>1, CutTypes
  <2>4. /\ Passed(snap, n) \in [Bucket -> Int] /\ Passed(snap, n)' \in [Bucket -> Int]
        /\ \A b \in Bucket : Passed(snap, n)'[b] = Passed(snap, n)[b] + (IF b = c THEN 1 ELSE 0)
    <3>1. Passed(snap, n) = [b \in Bucket |-> spent[b] - SpentAt(snap, n)[b]]
      BY <1>3 DEF Passed
    <3>2. Passed(snap, n)' = [b \in Bucket |-> spent'[b] - SpentAt(snap, n)[b]]
      <4>1. SpentAt(snap, n)' = SpentAt(snap, n)
        BY <2>2 DEF SameCut
      <4> QED BY <1>3, <4>1 DEF Passed
    <3>3. ASSUME NEW b \in Bucket
          PROVE  /\ spent[b] - SpentAt(snap, n)[b] \in Int /\ spent'[b] - SpentAt(snap, n)[b] \in Int
                 /\ spent'[b] - SpentAt(snap, n)[b]
                      = (spent[b] - SpentAt(snap, n)[b]) + (IF b = c THEN 1 ELSE 0)
      <4>1. SpentAt(snap, n)[b] \in Nat
        BY <2>3
      <4> HIDE DEF c
      <4> QED BY <1>5, <4>1
    <3> HIDE DEF c
    <3> QED BY <3>1, <3>2, <3>3
  <2>5. /\ Gains(n) \in [Bucket -> Int] /\ Gains(n)' = Gains(n)
    <3>1. Gains(n) = [b \in Bucket |-> total[b] - BaseOf(n)[b]]
      BY <1>3 DEF Gains
    <3>2. Gains(n)' = Gains(n)
      BY <1>3, <2>2 DEF Gains, SameCut
    <3>3. ASSUME NEW b \in Bucket PROVE total[b] - BaseOf(n)[b] \in Int
      <4>1. total[b] \in Nat /\ BaseOf(n)[b] \in Nat
        BY <2>3 DEF TypeOK
      <4> QED BY <4>1
    <3> QED BY <3>1, <3>2, <3>3
  <2>6. /\ Credit(n) \in Int /\ Credit(n)' = Credit(n)
    <3>1. Credit(n) = TimerOwn - (IF stack[n].kind = "timer" THEN 0 ELSE MarkOf(n))
      BY <1>3 DEF Credit
    <3>2. Credit(n)' = TimerOwn - (IF stack[n].kind = "timer" THEN 0 ELSE MarkOf(n))
      BY <1>0, <1>3, <2>2 DEF Credit, SameCut
    <3> QED BY <2>3, <3>1, <3>2
  <2>7. /\ StartOf(n + 1) - StartOf(n) \in Int
        /\ (StartOf(n + 1) - StartOf(n))' = (StartOf(n + 1) - StartOf(n)) + 1
    <3>1. StartOf(n)' = StartOf(n)
      BY <2>2 DEF SameCut
    <3>2. now \in Nat
      BY DEF TypeOK
    <3>3. (now + 1) - StartOf(n) = (now - StartOf(n)) + 1 /\ now - StartOf(n) \in Int
      BY <2>3, <3>2
    <3>4. (StartOf(n + 1) - StartOf(n))' = (now + 1) - StartOf(n)
      BY <1>3, <3>1
    <3> QED BY <1>3, <3>3, <3>4
  <2>8. Segment(stack[n].kind, stack[n].own, StartOf(n + 1) - StartOf(n), Passed(snap, n),
                ticks[n], Gains(n), Credit(n), blurred)
    BY <1>6, <2>1 DEF SegmentAt
  <2>9. c = BucketOf(stack[n].kind)
    BY <1>8
  <2>10. blurred \in BOOLEAN /\ ticks[n] \in Nat /\ stack[n].kind \in Kind
    BY <1>4, <1>8 DEF TypeOK
  <2>11. \A b \in Bucket :
           Passed(snap, n)'[b] = Passed(snap, n)[b] + (IF b = BucketOf(stack[n].kind) THEN 1 ELSE 0)
    BY <2>4, <2>9
  <2>12. Ticked(stack[n].kind, stack[n].own, StartOf(n + 1) - StartOf(n), Passed(snap, n),
                ticks[n], Gains(n), Credit(n), blurred,
                (StartOf(n + 1) - StartOf(n))', Passed(snap, n)', k2[n])
    BY <1>1, <2>4, <2>5, <2>6, <2>7, <2>8, <2>10, <2>11, Zenon DEF Ticked
  <2>13. Segment(stack[n].kind, stack[n].own, (StartOf(n + 1) - StartOf(n))', Passed(snap, n)',
                 k2[n], Gains(n), Credit(n), blurred)
    BY <2>12, SegmentTicks
  <2> QED BY <1>0, <2>4, <2>5, <2>6, <2>13 DEF SegmentAt
<1>9. (\A i \in 1 .. Depth : SegmentAt(snap, k2, i))'
  <2>1. ASSUME NEW i \in 1 .. n PROVE SegmentAt(snap, k2, i)'
    <3>1. i \in 1 .. n - 1 \/ (i = n /\ n # 0)
      BY <2>1
    <3> QED BY <1>7, <1>8, <3>1
  <2> QED BY <1>0, <2>1
<1>10. CallbackInv(snap)'
  <2> SUFFICES ASSUME ~ blurred', NEW a \in 1 .. n, NEW i \in 1 .. n,
                      stack'[a].kind = "callback", a < i
               PROVE  /\ stack'[i].kind \notin {"callback", "root"}
                      /\ Passed(snap, i)'["user"] = 0
    BY <1>0 DEF CallbackInv
  <2>1. stack[i].kind \notin {"callback", "root"} /\ Passed(snap, i)["user"] = 0
    BY <1>0, <1>6 DEF CallbackInv
  <2>2. CASE i \in 1 .. n - 1
    BY <1>0, <1>7, <2>1, <2>2
  <2>3. CASE i = n /\ n # 0
    <3>1. c # "user"
      BY <1>4, <2>1, <2>3 DEF BucketOf, Kind
    <3>2. "user" \in Bucket
      BY DEF Bucket
    <3> HIDE DEF c
    <3>3. Passed(snap, n)'["user"] = Passed(snap, n)["user"] + 0
      BY <1>8, <2>3, <3>1, <3>2
    <3> QED BY <1>0, <2>1, <2>3, <3>3
  <2> QED BY <2>2, <2>3
<1>11. ASSUME NEW b \in {"backend", "overhead"}
       PROVE  /\ b \in Bucket /\ spent[b] \in Nat /\ spent'[b] \in Nat /\ spent[b] <= spent'[b]
              /\ total[b] \in Nat /\ boundary[b] \in Nat
              /\ n = 0 => spent'[b] = spent[b]
  <2>1. b \in Bucket /\ b # "user"
    BY <1>11 DEF Bucket
  <2>2. total[b] \in Nat /\ boundary[b] \in Nat
    BY <2>1 DEF TypeOK
  <2>3. n = 0 => c = "user"
    OBVIOUS
  <2> HIDE DEF c
  <2> QED BY <1>5, <2>1, <2>2, <2>3
<1>12. ASSUME NEW i \in 1 .. n + 1, NEW b \in {"backend", "overhead"}
       PROVE  (BaseOf(i)[b] - boundary[b] <= SpentAt(snap, i)[b])'
  <2>1. BaseOf(i)[b] - boundary[b] <= SpentAt(snap, i)[b]
    BY <1>6 DEF CumulInv
  <2>2. CASE i \in 1 .. n
    <3>1. SameCut(snap, snap, i)
      BY <1>2, <2>2
    <3> QED BY <1>0, <2>1, <3>1 DEF SameCut
  <2>3. CASE i = n + 1
    <3>1. total[b] - boundary[b] <= spent[b]
      BY <1>3, <2>1, <2>3
    <3>2. total[b] - boundary[b] <= spent'[b]
      BY <1>11, <3>1
    <3> QED BY <1>0, <1>3, <2>3, <3>2
  <2> QED BY <2>2, <2>3
<1>13. ASSUME ~ blurred', NEW b \in {"backend", "overhead"}
       PROVE  (BaseOf(1)[b] - boundary[b] = SpentAt(snap, 1)[b])'
  <2>1. BaseOf(1)[b] - boundary[b] = SpentAt(snap, 1)[b]
    BY <1>0, <1>6, <1>13 DEF CumulInv
  <2>2. CASE n = 0
    <3>1. n + 1 = 1
      BY <2>2
    <3> QED BY <1>0, <1>3, <1>11, <2>1, <2>2, <3>1
  <2>3. CASE n # 0
    <3>1. 1 \in 1 .. n
      BY <2>3
    <3>2. SameCut(snap, snap, 1)
      BY <1>2, <3>1
    <3> QED BY <1>0, <2>1, <3>2 DEF SameCut
  <2> QED BY <2>2, <2>3
<1>14. CumulInv(snap)'
  BY <1>0, <1>12, <1>13 DEF CumulInv
<1> QED BY <1>9, <1>10, <1>14

\* A reset with no wrapper open starts every account anew.
LEMMA ResettingAccounts ==
  ASSUME TypeOK, NEW top \in [Nat -> Nat], NestInv(top), TypeOK', NestInv(top)', Resetting,
         NEW n \in Nat, n = Depth, NEW s2 \in Snaps, s2 = [i \in Nat |-> Nothing],
         NEW k2 \in [Nat -> Nat], k2 = [i \in Nat |-> 0]
  PROVE  AccountInv(s2, k2)'
<1>0. /\ Depth' = n /\ now' = now /\ total' = total /\ boundary' = total /\ spent' = Nothing
      /\ \A i \in 1 .. n : stack'[i].kind = stack[i].kind
      /\ resets' = resets + 1
  BY DEF Resetting
<1> SUFFICES ASSUME Good' PROVE (\A i \in 1 .. Depth : SegmentAt(s2, k2, i))'
                                /\ CallbackInv(s2)' /\ CumulInv(s2)'
  BY DEF AccountInv
<1>1. \A i \in 1 .. n : stack[i].kind # "wrapper"
  <2>1. resets' # 0
    BY <1>0 DEF TypeOK
  <2> QED BY <2>1 DEF Good, Resetting
<1>2. ASSUME NEW i \in 1 .. n
      PROVE  stack[i].kind \in Rebases
  <2>1. stack[i].kind \in Kind
    <3>1. stack[i] \in Frame
      BY <1>2, FrameAt
    <3> QED BY <3>1 DEF Frame
  <2>2. stack[i].kind # "callback"
    <3>1. SUFFICES ASSUME stack[i].kind = "callback" PROVE FALSE
      OBVIOUS
    <3>2. ParentOf(stack, i) = "wrapper"
      <4>1. ParentOf(stack, i) \in Parents("callback")
        BY <3>1 DEF NestInv, ShapeInv
      <4> QED BY <4>1 DEF Parents
    <3>3. i # 1 /\ stack[i - 1].kind = "wrapper"
      BY <3>2 DEF ParentOf
    <3>4. i - 1 \in 1 .. n
      BY <1>2, <3>3
    <3> QED BY <1>1, <3>3, <3>4
  <2>3. stack[i].kind # "wrapper"
    BY <1>1, <1>2
  <2> QED BY <2>1, <2>2, <2>3 DEF Kind, Rebases
<1>3. \A i \in 1 .. n : /\ stack'[i].start = now /\ stack'[i].base = total
                        /\ stack'[i].mark = 0 /\ stack'[i].own = 0
  BY <1>2 DEF Resetting
<1>4. TimerOwn' = 0
  <2>1. n + 1 \in 1 .. Depth' + 1 /\ n + 1 = Depth' + 1
    BY <1>0
  <2>2. InnermostTimer(stack', n + 1, top[n + 1])
    BY <2>1 DEF NestInv, TopInv
  <2>3. stack' \in Seq(Frame)
    BY DEF TypeOK
  <2>4. TimerOwn' = OwnOf(stack', top[n + 1])
    BY <2>1, <2>2, <2>3, TimerOwnBecomes
  <2>5. top[n + 1] # 0 => top[n + 1] \in 1 .. n
    <3>1. top[n + 1] \in 0 .. (n + 1) - 1
      BY <2>2 DEF InnermostTimer
    <3> QED BY <3>1
  <2> QED BY <1>3, <2>4, <2>5 DEF OwnOf
<1>5. ASSUME NEW i \in 1 .. n + 1
      PROVE  /\ StartOf(i)' = now /\ BaseOf(i)' = total /\ MarkOf(i)' = 0
             /\ SpentAt(s2, i)' = Nothing
  <2>1. CASE i \in 1 .. n
    <3>1. i <= Depth' /\ i \in Nat
      BY <1>0, <2>1
    <3> QED BY <1>3, <2>1, <3>1 DEF StartOf, BaseOf, MarkOf, SpentAt
  <2>2. CASE i = n + 1
    <3>1. ~ (i <= Depth')
      BY <1>0, <2>2
    <3> QED BY <1>0, <1>4, <3>1 DEF StartOf, BaseOf, MarkOf, SpentAt
  <2> QED BY <2>1, <2>2
<1>6. \A b \in Bucket : Nothing[b] = 0 /\ Nothing[b] - Nothing[b] = 0 /\ total[b] - total[b] = 0
  <2>1. ASSUME NEW b \in Bucket PROVE Nothing[b] = 0 /\ total[b] \in Nat
    BY DEF Nothing, TypeOK
  <2> QED BY <2>1
<1>7. ASSUME NEW i \in 1 .. n
      PROVE  SegmentAt(s2, k2, i)'
  <2>1. i \in 1 .. n + 1 /\ i + 1 \in 1 .. n + 1 /\ i \in Nat
    BY <1>7
  <2>2. /\ StartOf(i)' = now /\ BaseOf(i)' = total /\ MarkOf(i)' = 0 /\ SpentAt(s2, i)' = Nothing
        /\ StartOf(i + 1)' = now /\ BaseOf(i + 1)' = total /\ MarkOf(i + 1)' = 0
        /\ SpentAt(s2, i + 1)' = Nothing
    BY <1>5, <2>1
  <2>3. Passed(s2, i)' = Nothing
    <3>1. Passed(s2, i)' = [b \in Bucket |-> Nothing[b] - Nothing[b]]
      BY <2>2 DEF Passed
    <3> QED BY <1>6, <3>1 DEF Nothing
  <2>4. Gains(i)' = Nothing
    <3>1. Gains(i)' = [b \in Bucket |-> total[b] - total[b]]
      BY <2>2 DEF Gains
    <3> QED BY <1>6, <3>1 DEF Nothing
  <2>5. Credit(i)' = 0 /\ (StartOf(i + 1) - StartOf(i))' = 0
    <3>1. Credit(i)' = 0
      BY <2>2 DEF Credit
    <3>2. now - now = 0
      BY DEF TypeOK
    <3> QED BY <2>2, <3>1, <3>2
  <2>6. stack'[i].kind \in Kind /\ stack'[i].own = 0 /\ k2[i] = 0
    <3>1. stack[i] \in Frame
      BY <1>7, FrameAt
    <3> QED BY <1>0, <1>3, <1>7, <2>1, <3>1 DEF Frame
  <2>7. Segment(stack'[i].kind, 0, 0, Nothing, 0, Nothing, 0, blurred')
    <3>1. \A b \in Bucket : Nothing[b] = 0
      BY <1>6
    <3>2. blurred' \in BOOLEAN
      BY DEF TypeOK
    <3> QED BY <2>6, <3>1, <3>2, SegmentStarts
  <2> QED BY <2>3, <2>4, <2>5, <2>6, <2>7 DEF SegmentAt
<1>8. (\A i \in 1 .. Depth : SegmentAt(s2, k2, i))'
  BY <1>0, <1>7
<1>9. CallbackInv(s2)'
  <2>1. \A i \in 1 .. n : stack'[i].kind # "callback"
    BY <1>0, <1>2 DEF Rebases
  <2> QED BY <1>0, <2>1 DEF CallbackInv
<1>10. ASSUME NEW i \in 1 .. n + 1, NEW b \in {"backend", "overhead"}
       PROVE  (BaseOf(i)[b] - boundary[b] = SpentAt(s2, i)[b])' /\ SpentAt(s2, i)'[b] = 0
  <2>1. b \in Bucket
    BY <1>10 DEF Bucket
  <2> QED BY <1>0, <1>5, <1>6, <2>1
<1>11. CumulInv(s2)'
  <2>1. Depth' + 1 = n + 1 /\ 1 \in 1 .. n + 1
    BY <1>0
  <2>2. ASSUME NEW i \in 1 .. n + 1, NEW b \in {"backend", "overhead"}
        PROVE  (BaseOf(i)[b] - boundary[b] <= SpentAt(s2, i)[b])'
    BY <1>10
  <2> QED BY <1>10, <2>1, <2>2 DEF CumulInv
<1> QED BY <1>8, <1>9, <1>11

-----------------------------------------------------------------------------
(***************************************************************************)
(* The inductive invariant, and what follows from it.                      *)
(***************************************************************************)
\* Some such timers, values and ticks exist.
TimersInv ==
  \E top \in [Nat -> Nat], snap \in Snaps, ticks \in [Nat -> Nat] :
    NestInv(top) /\ AccountInv(snap, ticks)

\* Nothing is open at the start, and nothing is spent.
LEMMA TimersStart == Init => TypeOK /\ TimersInv
<1> SUFFICES ASSUME Init PROVE TypeOK /\ TimersInv
  OBVIOUS
<1> DEFINE zero == [i \in Nat |-> 0]
           none == [i \in Nat |-> Nothing]
<1>1. stack = <<>> /\ Depth = 0
  BY DEF Init, Depth
<1>2. Nothing \in [Bucket -> Nat] /\ \A b \in Bucket : Nothing[b] = 0
  BY DEF Nothing
<1>3. TypeOK
  <2>1. stack \in Seq(Frame)
    BY <1>1
  <2>2. now \in Nat /\ resets \in Nat /\ blurred \in BOOLEAN
    BY DEF Init
  <2>3. total \in [Bucket -> Nat] /\ boundary \in [Bucket -> Nat] /\ spent \in [Bucket -> Nat]
    BY <1>2 DEF Init
  <2> QED BY <2>1, <2>2, <2>3 DEF TypeOK
<1>4. zero \in [Nat -> Nat] /\ none \in Snaps /\ \A i \in Nat : zero[i] = 0
  BY <1>2 DEF Snaps
<1> HIDE DEF zero, none
<1>5. NestInv(zero)
  <2>1. InnermostTimer(stack, 1, zero[1])
    BY <1>4 DEF InnermostTimer
  <2>2. TopInv(zero)
    BY <1>1, <2>1 DEF TopInv
  <2> QED BY <1>1, <2>2 DEF NestInv, ShapeInv, MarkInv, CallInv
<1>6. AccountInv(none, zero)
  <2>1. BaseOf(1) = Nothing /\ SpentAt(none, 1) = Nothing /\ boundary = Nothing
    BY <1>1 DEF Init, BaseOf, SpentAt
  <2>2. \A b \in {"backend", "overhead"} : Nothing[b] = 0
    BY <1>2 DEF Bucket
  <2>3. CumulInv(none)
    BY <1>1, <2>1, <2>2 DEF CumulInv
  <2> QED BY <1>1, <2>3 DEF AccountInv, CallbackInv
<1> QED BY <1>3, <1>4, <1>5, <1>6 DEF TimersInv

\* Every step keeps the invariant.
LEMMA TimersStep == TypeOK /\ TimersInv /\ [Next]_vars => TypeOK' /\ TimersInv'
<1> SUFFICES ASSUME TypeOK, TimersInv, [Next]_vars PROVE TypeOK' /\ TimersInv'
  OBVIOUS
<1>1. PICK top \in [Nat -> Nat], snap \in Snaps, ticks \in [Nat -> Nat] :
        NestInv(top) /\ AccountInv(snap, ticks)
  BY DEF TimersInv
<1>2. PICK n \in Nat : n = Depth
  BY DEF TypeOK, Depth
<1>3. CASE UNCHANGED vars
  <2>1. TypeOK'
    BY <1>3 DEF TypeOK, vars
  <2>2. NestInv(top)'
    BY <1>1, <1>3 DEF NestInv, ShapeInv, TopInv, MarkInv, CallInv, Depth, vars
  <2>3. /\ Depth' = Depth /\ stack' = stack /\ TimerOwn' = TimerOwn
        /\ UNCHANGED <<now, total, boundary, resets, spent, blurred>>
    BY <1>3 DEF TimerOwn, Timers, CurrentTimer, Depth, vars
  <2>4. ASSUME NEW i
        PROVE  /\ StartOf(i)' = StartOf(i) /\ BaseOf(i)' = BaseOf(i)
               /\ MarkOf(i)' = MarkOf(i) /\ SpentAt(snap, i)' = SpentAt(snap, i)
    BY <2>3 DEF StartOf, BaseOf, MarkOf, SpentAt
  <2>5. ASSUME NEW i
        PROVE  /\ Passed(snap, i)' = Passed(snap, i) /\ Gains(i)' = Gains(i)
               /\ Credit(i)' = Credit(i)
               /\ (StartOf(i + 1) - StartOf(i))' = StartOf(i + 1) - StartOf(i)
    BY <2>3, <2>4 DEF Passed, Gains, Credit
  <2>6. ASSUME NEW i PROVE SegmentAt(snap, ticks, i)' = SegmentAt(snap, ticks, i)
    BY <2>3, <2>5 DEF SegmentAt
  <2>7. CallbackInv(snap)' = CallbackInv(snap)
    BY <2>3, <2>5 DEF CallbackInv
  <2>8. CumulInv(snap)' = CumulInv(snap)
    BY <2>3, <2>4 DEF CumulInv
  <2>9. AccountInv(snap, ticks)'
    BY <1>1, <2>3, <2>6, <2>7, <2>8 DEF AccountInv, Good
  <2> QED BY <2>1, <2>2, <2>9 DEF TimersInv
<1>4. CASE Ticking
  <2>0. ticks[n] + 1 \in Nat
    OBVIOUS
  <2>1. PICK k2 \in [Nat -> Nat] : k2 = [ticks EXCEPT ![n] = @ + 1]
    BY <2>0
  <2>2. Bumped(ticks, n, k2)
    <3>1. \A i \in 1 .. n - 1 : i \in Nat /\ i # n
      OBVIOUS
    <3> QED BY <2>1, <3>1 DEF Bumped
  <2>3. TypeOK' /\ NestInv(top)'
    BY <1>1, <1>4, TickingNests
  <2>4. AccountInv(snap, k2)'
    BY <1>1, <1>2, <1>4, <2>2, <2>3, TickingAccounts
  <2> QED BY <2>3, <2>4 DEF TimersInv
<1>5. ASSUME NEW kind \in Kind, Opening(kind)
      PROVE  TypeOK' /\ TimersInv'
  <2>0. n + 1 \in Nat /\ n + 2 \in Nat /\ top[n + 1] \in Nat /\ spent \in [Bucket -> Nat]
    <3>1. n + 1 \in Nat /\ n + 2 \in Nat
      OBVIOUS
    <3> QED BY <3>1 DEF TypeOK
  <2>1. PICK g \in [Nat -> Nat] : g = Grown(top, kind)
    BY <1>2, <2>0 DEF Grown
  <2>2. PICK s2 \in Snaps : s2 = [snap EXCEPT ![n + 1] = spent]
    BY <2>0 DEF Snaps
  <2>3. PICK k2 \in [Nat -> Nat] : k2 = [ticks EXCEPT ![n + 1] = 0]
    BY <2>0
  <2>4. Extended(snap, n, spent, s2) /\ Extended(ticks, n, 0, k2)
    <3>1. \A i \in 1 .. n : i \in Nat /\ i # n + 1
      OBVIOUS
    <3> QED BY <2>0, <2>2, <2>3, <3>1 DEF Extended, Snaps
  <2>5. TypeOK' /\ NestInv(g)'
    BY <1>1, <1>5, <2>1, OpeningNests
  <2>6. AccountInv(s2, k2)'
    BY <1>1, <1>2, <1>5, <2>1, <2>4, <2>5, OpeningAccounts
  <2> QED BY <2>5, <2>6 DEF TimersInv
<1>6. ASSUME NEW paid \in [Bucket -> Nat], NEW j \in Nat, NEW x \in Nat, Closing(paid, j, x)
      PROVE  TypeOK' /\ TimersInv'
  <2>1. TypeOK' /\ NestInv(top)'
    BY <1>1, <1>6, ClosingNests
  <2>2. AccountInv(snap, ticks)'
    BY <1>1, <1>2, <1>6, <2>1, ClosingAccounts
  <2> QED BY <2>1, <2>2 DEF TimersInv
<1>7. CASE Resetting
  <2>0. Nothing \in [Bucket -> Nat]
    BY DEF Nothing
  <2>1. PICK s2 \in Snaps : s2 = [i \in Nat |-> Nothing]
    BY <2>0 DEF Snaps
  <2>2. PICK k2 \in [Nat -> Nat] : k2 = [i \in Nat |-> 0]
    OBVIOUS
  <2>3. TypeOK' /\ NestInv(top)'
    BY <1>1, <1>7, ResettingNests
  <2>4. AccountInv(s2, k2)'
    BY <1>1, <1>2, <1>7, <2>1, <2>2, <2>3, ResettingAccounts
  <2> QED BY <2>3, <2>4 DEF TimersInv
<1> QED BY <1>1, <1>3, <1>4, <1>5, <1>6, <1>7, StepCases

\* The types of the timers' state, whatever frames are open.
THEOREM TimersTypes == Spec => []TypeOK
<1> QED BY TimersStart, TimersStep, PTL DEF Spec

\* At the cut that is now, the account says what was reported and what was spent.
LEMMA AccountNow ==
  ASSUME TypeOK, TimersInv, Good, NEW b \in {"backend", "overhead"}
  PROVE  /\ Reported(b) <= spent[b]
         /\ Idle /\ ~ blurred => Reported(b) = spent[b]
<1>1. PICK top \in [Nat -> Nat], snap \in Snaps, ticks \in [Nat -> Nat] :
        NestInv(top) /\ AccountInv(snap, ticks)
  BY DEF TimersInv
<1>2. CumulInv(snap)
  BY <1>1 DEF AccountInv
<1>3. Depth \in Nat
  BY DEF TypeOK, Depth
<1>4. BaseOf(Depth + 1) = total /\ SpentAt(snap, Depth + 1) = spent
  <2>1. ~ (Depth + 1 <= Depth)
    BY <1>3
  <2> QED BY <2>1 DEF BaseOf, SpentAt
<1>5. Depth + 1 \in 1 .. Depth + 1
  BY <1>3
<1>6. Reported(b) <= spent[b]
  BY <1>2, <1>4, <1>5 DEF CumulInv, Reported
<1>7. ASSUME Idle, ~ blurred PROVE Reported(b) = spent[b]
  <2>1. Depth + 1 = 1
    BY <1>7 DEF Idle, Depth
  <2> QED BY <1>2, <1>4, <1>7, <2>1 DEF CumulInv, Reported
<1> QED BY <1>6, <1>7

\* Until the first reset, and after one with no wrapper open until a callback runs in a
\* callback, no instant is credited twice to the backend or to flopscope, however frames
\* of a context nest and whatever is still open (exit, commit and _call_user_code).
THEOREM TimersNothingTwice == Spec => []NothingTwice
<1>1. TypeOK /\ TimersInv => NothingTwice
  <2> SUFFICES ASSUME TypeOK, TimersInv, Good, NEW b \in {"backend", "overhead"}
               PROVE  Reported(b) <= spent[b]
    BY DEF NothingTwice, Good
  <2> QED BY AccountNow
<1> QED BY <1>1, TimersStart, TimersStep, PTL DEF Spec

\* Whatever nested, once nothing is in progress the split between the backend and
\* flopscope is exact, over any number of resets, unless a callback ran inside a
\* callback or a wrapper was open at the last reset.
THEOREM TimersSplitExact == Spec => []SplitExact
<1>1. TypeOK /\ TimersInv => SplitExact
  <2> SUFFICES ASSUME TypeOK, TimersInv, Idle, ~ blurred
               PROVE  /\ Reported("backend") = spent["backend"]
                      /\ Reported("overhead") = spent["overhead"]
    BY DEF SplitExact
  <2>1. Good
    BY DEF Good
  <2>2. \A b \in {"backend", "overhead"} : Reported(b) = spent[b]
    BY <2>1, AccountNow
  <2> QED BY <2>2
<1> QED BY <1>1, TimersStart, TimersStep, PTL DEF Spec
===============================================================================
