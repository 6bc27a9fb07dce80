------------------------ MODULE BudgetLedgerProofs --------------------------
(***************************************************************************)
(* Theorems about BudgetLedger for every set of threads and contexts,      *)
(* every assignment of budgets and every set of costs; then what orderly   *)
(* use, one thread per context and quiescent resets, adds to the books, up *)
(* to the implementation of SessionMeter.                                  *)
(***************************************************************************)
EXTENDS BudgetLedger, FiniteSetTheorems, TLAPS

-----------------------------------------------------------------------------
(***************************************************************************)
(* SumOver, the fold every summary is taken with: that it does not depend  *)
(* on the order of the contexts, and that sums over them add up.           *)
(***************************************************************************)

\* Among finite sets, a nonempty family has a member no other member is a proper subset of.
LEMMA SmallestMember ==
  ASSUME NEW S, IsFiniteSet(S), NEW B \in SUBSET SUBSET S, B # {}
  PROVE  \E b \in B : \A a \in SUBSET b : a # b => a \notin B
<1>1. IsWellFoundedOn(StrictSubsetOrdering(S), SUBSET S)
  BY FS_StrictSubsetOrderingWellFounded, FS_FiniteSubsetsOfFinite
<1>2. PICK b \in B : \A a \in B : <<a, b>> \notin StrictSubsetOrdering(S)
  <2> DEFINE R == StrictSubsetOrdering(S)
             T == SUBSET S
  <2>1. IsWellFoundedOn(R, T)
    BY <1>1
  <2>2. B \subseteq T /\ B # {}
    OBVIOUS
  <2> HIDE DEF R, T
  <2>3. \E x \in B : \A y \in B : ~ (<<y, x>> \in R)
    BY <2>1, <2>2, WFMin
  <2> QED BY <2>3 DEF R
<1>3. ASSUME NEW a \in SUBSET b, a # b, a \in B
      PROVE  FALSE
  BY <1>2, <1>3 DEF StrictSubsetOrdering
<1> QED BY <1>3

First(s) == CHOOSE x \in s : TRUE

\* g adds up f over every subset of S, one element at a time.
Adds(g, f, S) ==
  /\ g \in [SUBSET S -> Nat]
  /\ g[{}] = 0
  /\ \A s \in SUBSET S : s # {} => g[s] = f[First(s)] + g[s \ {First(s)}]

LEMMA FirstIn == ASSUME NEW s, s # {} PROVE First(s) \in s
  BY DEF First

LEMMA AddsUnique ==
  ASSUME NEW f, NEW S, IsFiniteSet(S), NEW T, NEW g, NEW h, Adds(g, f, S), Adds(h, f, T),
         NEW s \in SUBSET S, s \in SUBSET T
  PROVE  g[s] = h[s]
<1> DEFINE B == {u \in SUBSET S : u \in SUBSET T /\ g[u] # h[u]}
<1>1. SUFFICES ASSUME B # {} PROVE FALSE
  OBVIOUS
<1>2. PICK b \in B : \A a \in SUBSET b : a # b => a \notin B
  <2>1. B \in SUBSET SUBSET S
    OBVIOUS
  <2> HIDE DEF B
  <2> QED BY <1>1, <2>1, SmallestMember
<1>3. b # {}
  BY DEF Adds
<1> DEFINE r == b \ {First(b)}
<1>4. r \in SUBSET b /\ r # b
  BY <1>3, FirstIn
<1>5. g[r] = h[r]
  BY <1>2, <1>4
<1>6. g[b] = f[First(b)] + g[r] /\ h[b] = f[First(b)] + h[r]
  BY <1>3 DEF Adds
<1> QED BY <1>5, <1>6

LEMMA AddsExists ==
  ASSUME NEW S, IsFiniteSet(S), NEW f \in [S -> Nat]
  PROVE  \E g : Adds(g, f, S)
<1> DEFINE B == {u \in SUBSET S : ~ \E g : Adds(g, f, u)}
<1>1. SUFFICES ASSUME B # {} PROVE FALSE
  OBVIOUS
<1>2. PICK b \in B : \A a \in SUBSET b : a # b => a \notin B
  <2>1. B \in SUBSET SUBSET S
    OBVIOUS
  <2> HIDE DEF B
  <2> QED BY <1>1, <2>1, SmallestMember
<1> DEFINE h(r) == CHOOSE g : Adds(g, f, r)
           v(r) == h(r)[r]
           G == [u \in SUBSET b |->
                   IF u = {} THEN 0
                   ELSE f[First(u)] + v(u \ {First(u)})]
<1>3. ASSUME NEW r \in SUBSET b, r # b
      PROVE  Adds(h(r), f, r)
  <2>1. \E g : Adds(g, f, r)
    BY <1>2, <1>3
  <2> QED BY <2>1
<1>4. ASSUME NEW r \in SUBSET b, r # b
      PROVE  v(r) \in Nat /\ G[r] = v(r)
  <2>1. Adds(h(r), f, r)
    BY <1>3, <1>4
  <2>2. v(r) \in Nat
    BY <2>1 DEF Adds
  <2>3. CASE r = {}
    BY <2>1, <2>3 DEF Adds
  <2>4. CASE r # {}
    <3> DEFINE q == r \ {First(r)}
    <3>1. q \in SUBSET r /\ q \in SUBSET b /\ q # b
      BY <2>4, <1>4, FirstIn
    <3>2. Adds(h(q), f, q)
      BY <1>3, <3>1
    <3>3. h(r)[q] = h(q)[q]
      <4>1. IsFiniteSet(q) /\ q \in SUBSET q
        BY FS_Subset, <3>1
      <4> HIDE DEF h, q
      <4> QED BY <4>1, <3>1, <3>2, <2>1, AddsUnique
    <3>4. v(r) = f[First(r)] + h(r)[q]
      BY <2>1, <2>4 DEF Adds
    <3>5. G[r] = f[First(r)] + v(q)
      BY <2>4
    <3> QED BY <3>3, <3>4, <3>5, <2>2
  <2> QED BY <2>2, <2>3, <2>4
<1>5. Adds(G, f, b)
  <2>1. G[{}] = 0
    OBVIOUS
  <2>2. ASSUME NEW s \in SUBSET b, s # {}
        PROVE  /\ G[s] \in Nat
               /\ G[s] = f[First(s)] + G[s \ {First(s)}]
    <3>1. First(s) \in s
      BY <2>2, FirstIn
    <3> DEFINE q == s \ {First(s)}
    <3>2. q \in SUBSET b /\ q # b
      BY <3>1
    <3>3. v(q) \in Nat /\ G[q] = v(q)
      <4> HIDE DEF v, G, q
      <4> QED BY <1>4, <3>2
    <3>4. G[s] = f[First(s)] + v(q)
      BY <2>2
    <3>5. f[First(s)] \in Nat
      BY <3>1
    <3> QED BY <3>3, <3>4, <3>5
  <2>3. G \in [SUBSET b -> Nat]
    <3>1. ASSUME NEW s \in SUBSET b PROVE G[s] \in Nat
      <4> HIDE DEF G
      <4>1. CASE s = {}
        BY <2>1, <4>1
      <4>2. CASE s # {}
        BY <2>2, <4>2
      <4> QED BY <4>1, <4>2
    <3> QED BY <3>1
  <2> HIDE DEF G
  <2> QED BY <2>1, <2>2, <2>3 DEF Adds
<1> HIDE DEF G
<1> QED BY <1>5

\* The fold finds them.
LEMMA SumIs ==
  ASSUME NEW S, IsFiniteSet(S), NEW f \in [S -> Nat]
  PROVE  \E g : Adds(g, f, S) /\ SumOver(f) = g[S]
<1> DEFINE Def(g) == [s \in SUBSET S |-> IF s = {} THEN 0
                        ELSE f[First(s)] + g[s \ {First(s)}]]
<1> DEFINE G == CHOOSE g : g = Def(g)
<1>1. PICK g0 : Adds(g0, f, S)
  BY AddsExists
<1>2. g0 = Def(g0)
  BY <1>1 DEF Adds
<1>3. G = Def(G)
  <2> HIDE DEF Def
  <2> QED BY <1>2
<1>4. DOMAIN f = S
  OBVIOUS
<1>5. SumOver(f) = G[S]
  BY <1>4, Zenon DEF SumOver, FoldFunction, FoldFunctionOnSet, MapThenFoldSet, First
<1>6. Adds(G, f, S)
  <2>1. G[{}] = 0
    BY <1>3
  <2>2. ASSUME NEW s \in SUBSET S, s # {}
        PROVE  G[s] = f[First(s)] + G[s \ {First(s)}]
    <3>1. G[s] = Def(G)[s]
      BY <1>3
    <3> HIDE DEF G
    <3> QED BY <3>1, <2>2
  <2>3. ASSUME NEW s \in SUBSET S
        PROVE  g0[s] = G[s]
    <3> DEFINE B == {u \in SUBSET S : g0[u] # G[u]}
    <3>1. SUFFICES ASSUME B # {} PROVE FALSE
      OBVIOUS
    <3>2. PICK b \in B : \A a \in SUBSET b : a # b => a \notin B
      <4>1. B \in SUBSET SUBSET S
        OBVIOUS
      <4> HIDE DEF B
      <4> QED BY <3>1, <4>1, SmallestMember
    <3> HIDE DEF G
    <3>3. b # {}
      BY <1>1, <2>1 DEF Adds
    <3>4. g0[b] = f[First(b)] + g0[b \ {First(b)}]
      BY <1>1, <3>3 DEF Adds
    <3>5. g0[b \ {First(b)}] = G[b \ {First(b)}]
      BY <3>2, <3>3, FirstIn
    <3> QED BY <2>2, <3>3, <3>4, <3>5
  <2>4. G = [s \in SUBSET S |-> G[s]]
    <3> HIDE DEF G
    <3>1. \E F : G = [s \in SUBSET S |-> F[s]]
      BY <1>3
    <3> QED BY <3>1
  <2> HIDE DEF G
  <2>5. G = g0
    BY <1>1, <2>3, <2>4 DEF Adds
  <2> QED BY <1>1, <2>5
<1> HIDE DEF G
<1> QED BY <1>5, <1>6

\* A sum can be taken from any of its elements.
LEMMA AddsAny ==
  ASSUME NEW S, IsFiniteSet(S), NEW f \in [S -> Nat], NEW g, Adds(g, f, S),
         NEW s \in SUBSET S, NEW a \in s
  PROVE  g[s] = f[a] + g[s \ {a}]
<1> DEFINE B == {u \in SUBSET S : \E x \in u : g[u] # f[x] + g[u \ {x}]}
<1>1. SUFFICES ASSUME B # {} PROVE FALSE
  OBVIOUS
<1>2. PICK b \in B : \A r \in SUBSET b : r # b => r \notin B
  <2>1. B \in SUBSET SUBSET S
    OBVIOUS
  <2> HIDE DEF B
  <2> QED BY <1>1, <2>1, SmallestMember
<1>3. PICK x \in b : g[b] # f[x] + g[b \ {x}]
  BY <1>2
<1> DEFINE y == First(b)
<1>4. y \in b /\ g[b] = f[y] + g[b \ {y}]
  BY FirstIn DEF Adds
<1>5. x # y
  BY <1>3, <1>4
<1> HIDE DEF y
<1>6. g[b \ {y}] = f[x] + g[(b \ {y}) \ {x}]
  BY <1>2, <1>4, <1>5
<1>7. g[b \ {x}] = f[y] + g[(b \ {x}) \ {y}]
  BY <1>2, <1>4, <1>5
<1>8. (b \ {x}) \ {y} = (b \ {y}) \ {x}
  OBVIOUS
<1> DEFINE k == g[(b \ {y}) \ {x}]
<1>9. f[x] \in Nat /\ f[y] \in Nat /\ k \in Nat
  BY <1>4 DEF Adds
<1>10. g[b] = f[y] + (f[x] + k) /\ g[b \ {x}] = f[y] + k
  BY <1>4, <1>6, <1>7, <1>8, Zenon
<1> HIDE DEF k
<1>11. f[y] + (f[x] + k) = f[x] + (f[y] + k)
  BY <1>9
<1> QED BY <1>3, <1>10, <1>11, Zenon

\* Two sums over nested sets add up to the sum of their values.
LEMMA SumsAdd ==
  ASSUME NEW S, IsFiniteSet(S), NEW D \in SUBSET S, NEW f \in [S -> Nat], NEW d \in [D -> Nat],
         NEW h \in [S -> Nat],
         \A c \in S : h[c] = f[c] + (IF c \in D THEN d[c] ELSE 0)
  PROVE  SumOver(h) = SumOver(f) + SumOver(d)
<1>1. PICK gf : Adds(gf, f, S) /\ SumOver(f) = gf[S]
  BY SumIs
<1>2. PICK gh : Adds(gh, h, S) /\ SumOver(h) = gh[S]
  BY SumIs
<1>3. IsFiniteSet(D)
  BY FS_Subset
<1>4. PICK gd : Adds(gd, d, D) /\ SumOver(d) = gd[D]
  BY <1>3, SumIs
<1> DEFINE B == {u \in SUBSET S : gh[u] # gf[u] + gd[u \cap D]}
<1>5. SUFFICES ASSUME B # {} PROVE FALSE
  <2>1. S \notin B => gh[S] = gf[S] + gd[S \cap D]
    OBVIOUS
  <2>2. S \cap D = D
    OBVIOUS
  <2> QED BY <1>1, <1>2, <1>4, <2>1, <2>2
<1>6. PICK b \in B : \A r \in SUBSET b : r # b => r \notin B
  <2>1. B \in SUBSET SUBSET S
    OBVIOUS
  <2> HIDE DEF B
  <2> QED BY <1>5, <2>1, SmallestMember
<1>7. b # {}
  <2>1. {} \cap D = {}
    OBVIOUS
  <2>2. gh[{}] = 0 /\ gf[{}] = 0 /\ gd[{}] = 0
    BY <1>1, <1>2, <1>4 DEF Adds
  <2>3. {} \notin B
    BY <2>1, <2>2
  <2> HIDE DEF B
  <2> QED BY <2>3
<1>8. PICK x : x \in b
  BY <1>7
<1> DEFINE r == b \ {x}
<1>9. r \in SUBSET S /\ gh[r] = gf[r] + gd[r \cap D]
  BY <1>6, <1>8
<1>10. gh[b] = h[x] + gh[r] /\ gf[b] = f[x] + gf[r]
  <2>1. b \in SUBSET S
    OBVIOUS
  <2> HIDE DEF B
  <2>2. gh[b] = h[x] + gh[b \ {x}]
    BY <1>2, <1>8, <2>1, AddsAny
  <2>3. gf[b] = f[x] + gf[b \ {x}]
    BY <1>1, <1>8, <2>1, AddsAny
  <2> QED BY <2>2, <2>3
<1>11. gd[b \cap D] = (IF x \in D THEN d[x] ELSE 0) + gd[r \cap D]
  <2>1. gd[r \cap D] \in Nat
    BY <1>4 DEF Adds
  <2>2. CASE x \in D
    <3>1. x \in b \cap D /\ b \cap D \in SUBSET D /\ r \cap D = (b \cap D) \ {x}
      BY <1>8, <2>2
    <3>2. gd[b \cap D] = d[x] + gd[(b \cap D) \ {x}]
      <4> DEFINE s == b \cap D
      <4>1. x \in s /\ s \in SUBSET D
        BY <3>1
      <4> HIDE DEF B, r, s
      <4>2. gd[s] = d[x] + gd[s \ {x}]
        BY <1>3, <1>4, <4>1, AddsAny
      <4> QED BY <4>2 DEF s
    <3> QED BY <2>2, <3>1, <3>2
  <2>3. CASE x \notin D
    <3>1. b \cap D = r \cap D
      BY <2>3
    <3>2. gd[b \cap D] = 0 + gd[r \cap D]
      <4> HIDE DEF r, B
      <4> QED BY <2>1, <3>1
    <3> QED BY <2>3, <3>2
  <2> QED BY <2>2, <2>3
<1>12. /\ gh[r] \in Nat /\ gf[r] \in Nat /\ gd[r \cap D] \in Nat
       /\ f[x] \in Nat /\ (x \in D => d[x] \in Nat)
  BY <1>1, <1>2, <1>4, <1>8, <1>9 DEF Adds
<1>13. h[x] = f[x] + (IF x \in D THEN d[x] ELSE 0)
  BY <1>8
<1> HIDE DEF r
<1>14. gh[b] = gf[b] + gd[b \cap D]
  BY <1>9, <1>10, <1>11, <1>12, <1>13
<1> QED BY <1>6, <1>14

-----------------------------------------------------------------------------
USE CtxAssumption, ThreadAssumption, BudgetAssumption, CostAssumption,
    ProgramAssumption DEF Ctx

(***************************************************************************)
(* Type correctness.                                                       *)
(***************************************************************************)

\* Every variable of the ledger keeps its type: in particular counters never
\* go below zero and an open context is never recorded as its own predecessor.
THEOREM LedgerTypes == Spec => []TypeOK
<1>1. Init => TypeOK
  <2> SUFFICES ASSUME Init PROVE TypeOK
    OBVIOUS
  <2>1. /\ program \in Programs
        /\ active \in [Threads -> Ctx \cup {NoCtx}]
        /\ global \in Defaults \cup {NoCtx} /\ built \in SUBSET Defaults
        /\ previous \in [Explicit -> {NoCtx} \cup Defaults]
        /\ late \in [Ctx -> BOOLEAN]
        /\ counted \in [Ctx -> BOOLEAN]
    BY DEF Init
  <2>2. /\ used \in [Ctx -> Nat] /\ recorded \in [Ctx -> Nat]
        /\ unrolled \in [Ctx -> Nat] /\ mark \in [Ctx -> Nat]
    BY DEF Init
  <2>3. /\ accUsed \in [Ctx -> Nat] /\ accRollup \in [Ctx -> Nat]
        /\ accBudget \in [Ctx -> Nat] /\ stale \in Nat
        /\ accLock \in Threads \cup {NoThread}
    BY DEF Init
  <2>4. /\ stage \in [Threads -> Stage]
        /\ work \in [Threads -> Ctx \cup {NoCtx}]
        /\ todo \in [Threads -> SUBSET Ctx]
        /\ \A t \in Threads : stage[t] = "idle"
    BY DEF Init, Stage
  <2> QED BY <2>1, <2>2, <2>3, <2>4 DEF TypeOK, Operating, Closing
<1>2. TypeOK /\ [Next]_vars => TypeOK'
  <2> SUFFICES ASSUME TypeOK, [Next]_vars PROVE TypeOK'
    OBVIOUS
  <2> USE DEF TypeOK, Stage, Operating, Closing, ctxVars, accVars, history
  <2>1. ASSUME NEW c \in Explicit, DeadlinePasses(c) PROVE TypeOK'
    BY <2>1 DEF DeadlinePasses
  <2>2. ASSUME NEW t \in Threads, NEW c \in Explicit, Enter(t, c) PROVE TypeOK'
    BY <2>2 DEF Enter
  <2>3. ASSUME NEW t \in Threads, NEW n \in Cost, Deduct(t, n) PROVE TypeOK'
    <3>1. Required(t) \in Ctx /\ n \in Nat
      BY <2>3 DEF Deduct, HasRequired, Required
    <3>3. /\ used' \in [Ctx -> Nat] /\ recorded' \in [Ctx -> Nat]
          /\ unrolled' \in [Ctx -> Nat] /\ counted' \in [Ctx -> BOOLEAN]
      BY <2>3, <3>1 DEF Deduct, Charge
    <3>4. stage' \in [Threads -> Stage] /\ work' \in [Threads -> Ctx \cup {NoCtx}]
      BY <2>3, <3>1 DEF Deduct, Return
    <3>5. \A u \in Threads : /\ stage'[u] \in {"adopting", "returning"} => global' \in Defaults
                             /\ stage'[u] = "required" => work'[u] \in Defaults
                             /\ stage'[u] \in Operating => work'[u] \in Ctx
                             /\ stage'[u] \in Closing => work'[u] \in Explicit
      BY <2>3, <3>1 DEF Deduct, Return
    <3>6. UNCHANGED <<program, active, global, built, previous, late, accVars, accLock,
                      todo, history>>
      BY <2>3 DEF Deduct
    <3> QED BY <3>3, <3>4, <3>5, <3>6
  <2>4. ASSUME NEW t \in Threads, BeginDeferred(t) PROVE TypeOK'
    BY <2>4 DEF BeginDeferred, HasRequired, Required
  <2>5. ASSUME NEW t \in Threads, FinishUpfront(t) PROVE TypeOK'
    BY <2>5 DEF FinishUpfront, Return
  <2>6. ASSUME NEW t \in Threads, FinishDeferred(t) PROVE TypeOK'
    <3>1. stage' \in [Threads -> Stage] /\ work' \in [Threads -> Ctx \cup {NoCtx}]
      BY <2>6 DEF FinishDeferred, Return
    <3>2. /\ used' \in [Ctx -> Nat] /\ recorded' \in [Ctx -> Nat]
          /\ unrolled' \in [Ctx -> Nat] /\ counted' \in [Ctx -> BOOLEAN]
      BY <2>6 DEF FinishDeferred, Charge
    <3>3. \A u \in Threads : /\ stage'[u] \in {"adopting", "returning"} => global' \in Defaults
                             /\ stage'[u] = "required" => work'[u] \in Defaults
                             /\ stage'[u] \in Operating => work'[u] \in Ctx
                             /\ stage'[u] \in Closing => work'[u] \in Explicit
      BY <2>6 DEF FinishDeferred, Return
    <3>4. UNCHANGED <<program, active, global, built, previous, late, accVars, accLock,
                      todo, history>>
      BY <2>6 DEF FinishDeferred
    <3> QED BY <3>1, <3>2, <3>3, <3>4
  <2>7. ASSUME NEW t \in Threads, Exit(t) PROVE TypeOK'
    BY <2>7 DEF Exit
  <2>8. ASSUME NEW t \in Threads, Merge(t) PROVE TypeOK'
    <3>1. \A c \in Ctx : Delta(c) \in Nat /\ Overdue(c) \in Nat
      BY DEF Delta, Overdue
    <3>2. Overdue(work[t]) \in Nat
      BY <3>1, <2>8 DEF Merge
    <3> QED BY <2>8, <3>1 DEF Merge
  <2>9. ASSUME NEW t \in Threads, Commit(t) PROVE TypeOK'
    BY <2>9 DEF Commit, MarkRecorded
  <2>10. ASSUME NEW t \in Threads, CommitClose(t) PROVE TypeOK'
    BY <2>10 DEF CommitClose, MarkRecorded, Return
  <2>11. ASSUME NEW t \in Threads, CallReset(t) PROVE TypeOK'
    BY <2>11 DEF CallReset
  <2>12. ASSUME NEW t \in Threads, ClearAccumulator(t) PROVE TypeOK'
    BY <2>12 DEF ClearAccumulator
  <2>13. ASSUME NEW t \in Threads, NEW c \in Ctx, Baseline(t, c) PROVE TypeOK'
    BY <2>13 DEF Baseline
  <2>14. ASSUME NEW t \in Threads, ResetReturns(t) PROVE TypeOK'
    BY <2>14 DEF ResetReturns, Return
  <2>15. CASE UNCHANGED vars
    BY <2>15 DEF vars
  <2>16. ASSUME NEW t \in Threads, RequireBudget(t) PROVE TypeOK'
    BY <2>16 DEF RequireBudget
  <2>17. ASSUME NEW t \in Threads, CreateDefault(t) PROVE TypeOK'
    BY <2>17 DEF CreateDefault
  <2>18. ASSUME NEW t \in Threads, AdoptDefault(t) PROVE TypeOK'
    BY <2>18 DEF AdoptDefault
  <2>19. ASSUME NEW t \in Threads, ReturnDefault(t) PROVE TypeOK'
    BY <2>19 DEF ReturnDefault
  <2> QED
    BY <2>1, <2>2, <2>3, <2>4, <2>5, <2>6, <2>7, <2>8, <2>9, <2>10, <2>11,
       <2>12, <2>13, <2>14, <2>15, <2>16, <2>17, <2>18, <2>19 DEF Next
<1> QED BY <1>1, <1>2, PTL DEF Spec

-----------------------------------------------------------------------------
(***************************************************************************)
(* Enforcement, coherence of the two sets of books, and no double count.   *)
(* The strengthening is LockOwned: a close that has merged its delta still *)
(* holds the accumulator's lock, so no other close can merge the same      *)
(* FLOPs before the boundary of the first is committed.                    *)
(***************************************************************************)
LockOwned ==
  \A t \in Threads : stage[t] \in {"merged", "marked"} => accLock = t

\* The inductive invariant.
LedgerInv == Enforced /\ SummaryCoherent /\ NeverDoubleCounted /\ LockOwned

\* Some thread is between merging the delta of c and moving its boundary.
Merged(c) == \E t \in Threads : stage[t] = "merged" /\ work[t] = c

\* Nobody but t moves, and t neither merges nor holds a merge open.
Aside(t) ==
  /\ stage[t] \notin {"merged", "marked"} /\ stage'[t] \notin {"merged", "marked"}
  /\ \A u \in Threads \ {t} : stage'[u] = stage[u] /\ work'[u] = work[u]

\* A step of t aside from merging leaves the contexts being merged as they are,
\* and the lock with whoever is merging.
LEMMA AsideKeepsMergers ==
  ASSUME NEW t \in Threads, Aside(t)
  PROVE  /\ \A d \in Ctx : Merged(d)' <=> Merged(d)
         /\ UNCHANGED accLock /\ LockOwned => LockOwned'
  BY DEF Aside, Merged, LockOwned

\* What is pending of c, before and after a step: nothing while c is merged, all
\* of its delta otherwise.
LEMMA PendingCases ==
  ASSUME NEW c \in Ctx
  PROVE  /\ Merged(c) => Pending(c) = 0
         /\ ~ Merged(c) => Pending(c) = Delta(c)
         /\ Merged(c)' => Pending(c)' = 0
         /\ ~ Merged(c)' => Pending(c)' = Delta(c)'
  BY DEF Pending, Merged

\* A charge of n to c keeps the books, whether or not c is being merged.
LEMMA ChargeKeepsBooks ==
  ASSUME TypeOK, LedgerInv, NEW c \in Ctx, NEW n \in Cost, NEW t \in Threads,
         Affordable(c, n), Charge(c, n), UNCHANGED <<accVars, accLock>>,
         Aside(t)
  PROVE  LedgerInv'
<1>1. n \in Nat
  OBVIOUS
<1>2. /\ used' = [used EXCEPT ![c] = @ + n]
      /\ unrolled' = [unrolled EXCEPT ![c] = @ + n]
      /\ recorded' = recorded
      /\ accUsed' = accUsed /\ accRollup' = accRollup /\ accLock' = accLock
  BY DEF Charge, accVars
<1>3. Enforced'
  BY <1>1, <1>2 DEF TypeOK, LedgerInv, Enforced, Affordable
<1>4. SummaryCoherent'
  BY <1>1, <1>2 DEF TypeOK, LedgerInv, SummaryCoherent
<1>5. ASSUME NEW d \in Ctx PROVE Total(d)' <= used'[d]
  <2>1. Total(d) <= used[d] /\ Total(d) = accUsed[d] + Pending(d)
    BY DEF LedgerInv, NeverDoubleCounted, Total
  <2>2. Total(d)' = accUsed[d] + Pending(d)'
    BY <1>2 DEF Total
  <2>3. Delta(d) = used[d] - recorded[d] /\ Delta(d)' = used'[d] - recorded[d]
    BY <1>1, <1>2, <1>4 DEF TypeOK, LedgerInv, SummaryCoherent, Delta
  <2>4. used'[d] = IF d = c THEN used[d] + n ELSE used[d]
    BY <1>2 DEF TypeOK
  <2>5. Merged(d)' <=> Merged(d)
    BY AsideKeepsMergers
  <2>6. accUsed[d] \in Nat /\ used[d] \in Nat /\ recorded[d] \in Nat
    BY DEF TypeOK
  <2>7. CASE Merged(d)
    BY <1>1, <2>1, <2>2, <2>4, <2>5, <2>6, <2>7, PendingCases
  <2>8. CASE ~ Merged(d)
    BY <1>1, <2>1, <2>2, <2>3, <2>4, <2>5, <2>6, <2>8, PendingCases
  <2> QED BY <2>7, <2>8
<1>6. LockOwned'
  BY <1>2, AsideKeepsMergers DEF LedgerInv
<1> QED BY <1>3, <1>4, <1>5, <1>6 DEF LedgerInv, NeverDoubleCounted

\* A step that moves no FLOP and touches no merge keeps the books.
LEMMA FrameKeepsBooks ==
  ASSUME TypeOK, LedgerInv, NEW t \in Threads, Aside(t),
         UNCHANGED <<ctxVars, accVars, accLock>>
  PROVE  LedgerInv'
<1>1. /\ used' = used /\ unrolled' = unrolled /\ recorded' = recorded
      /\ accUsed' = accUsed /\ accRollup' = accRollup /\ accLock' = accLock
  BY DEF ctxVars, accVars
<1>2. Enforced' /\ SummaryCoherent'
  BY <1>1 DEF LedgerInv, Enforced, SummaryCoherent
<1>3. \A d \in Ctx : Total(d)' = Total(d)
  BY <1>1, AsideKeepsMergers, PendingCases DEF Total, Delta
<1>4. LockOwned'
  BY <1>1, AsideKeepsMergers DEF LedgerInv
<1> QED BY <1>1, <1>2, <1>3, <1>4 DEF LedgerInv, NeverDoubleCounted

\* A new boundary for c, by a commit or by a baseline: nothing of c is pending
\* afterwards, and what the accumulator holds of c is at most what was used.
LEMMA BoundaryKeepsBooks ==
  ASSUME TypeOK, LedgerInv, NEW c \in Ctx,
         used' = used, UNCHANGED accVars,
         recorded' = [recorded EXCEPT ![c] = used[c]],
         unrolled' = [unrolled EXCEPT ![c] = 0],
         \A d \in Ctx : d # c => (Merged(d)' <=> Merged(d)),
         LockOwned'
  PROVE  LedgerInv'
<1>1. accUsed' = accUsed /\ accRollup' = accRollup
  BY DEF accVars
<1>2. Enforced' /\ SummaryCoherent'
  BY <1>1 DEF TypeOK, LedgerInv, Enforced, SummaryCoherent
<1>3. ASSUME NEW d \in Ctx PROVE Total(d)' <= used'[d]
  <2>1. Total(d) <= used[d] /\ Total(d) = accUsed[d] + Pending(d)
    BY DEF LedgerInv, NeverDoubleCounted, Total
  <2>2. Total(d)' = accUsed[d] + Pending(d)'
    BY <1>1 DEF Total
  <2>3. /\ accUsed[d] \in Nat /\ used[d] \in Nat /\ recorded[d] \in Nat
        /\ recorded[d] <= used[d]
    BY DEF TypeOK, LedgerInv, SummaryCoherent
  <2>4. Delta(d) \in Nat
    BY <2>3 DEF Delta
  <2>5. CASE d = c
    <3>1. Delta(d)' = 0
      BY <2>3, <2>5 DEF TypeOK, Delta
    <3>2. Pending(d)' = 0 /\ Pending(d) \in Nat
      BY <3>1, <2>4, PendingCases
    <3> QED BY <3>2, <2>1, <2>2, <2>3
  <2>6. CASE d # c
    <3>1. Delta(d)' = Delta(d)
      BY <2>6 DEF TypeOK, Delta
    <3>2. Pending(d)' = Pending(d)
      BY <3>1, <2>6, PendingCases
    <3> QED BY <3>2, <2>1, <2>2
  <2> QED BY <2>5, <2>6
<1> QED BY <1>2, <1>3 DEF LedgerInv, NeverDoubleCounted

\* Every action keeps the books: charges and boundaries by the lemmas above, a
\* merge because the lock excludes a second one of the same context.
LEMMA LedgerStep ==
  ASSUME TypeOK, LedgerInv, [Next]_vars
  PROVE  LedgerInv'
<1> USE DEF Operating, Closing
<1>1. ASSUME NEW c \in Explicit, DeadlinePasses(c) PROVE LedgerInv'
  <2>1. UNCHANGED <<ctxVars, accVars, accLock, stage, work>>
    BY <1>1 DEF DeadlinePasses
  <2> QED BY <2>1 DEF LedgerInv, Enforced, SummaryCoherent, NeverDoubleCounted,
                      LockOwned, Total, Pending, Delta, ctxVars, accVars
<1>2. ASSUME NEW t \in Threads, NEW c \in Explicit, Enter(t, c) PROVE LedgerInv'
  BY <1>2, FrameKeepsBooks DEF Enter, Aside
<1>3. ASSUME NEW t \in Threads, NEW n \in Cost, Deduct(t, n) PROVE LedgerInv'
  <2>1. Aside(t) /\ UNCHANGED <<accVars, accLock>>
    BY <1>3 DEF Deduct, Return, Aside, HasRequired, TypeOK
  <2>2. Required(t) \in Ctx
    BY <1>3 DEF Deduct, HasRequired, Required, TypeOK
  <2>3. CASE UNCHANGED ctxVars
    BY <2>1, <2>3, FrameKeepsBooks
  <2>4. CASE Affordable(Required(t), n) /\ Charge(Required(t), n)
    BY <2>1, <2>2, <2>4, ChargeKeepsBooks
  <2> QED BY <1>3, <2>3, <2>4 DEF Deduct
<1>4. ASSUME NEW t \in Threads, BeginDeferred(t) PROVE LedgerInv'
  BY <1>4, FrameKeepsBooks DEF BeginDeferred, HasRequired, Aside, TypeOK
<1>5. ASSUME NEW t \in Threads, FinishUpfront(t) PROVE LedgerInv'
  BY <1>5, FrameKeepsBooks DEF FinishUpfront, Return, Aside, TypeOK
<1>6. ASSUME NEW t \in Threads, FinishDeferred(t) PROVE LedgerInv'
  <2>1. Aside(t) /\ UNCHANGED <<accVars, accLock>>
    BY <1>6 DEF FinishDeferred, Return, Aside, TypeOK
  <2>2. work[t] \in Ctx
    BY <1>6 DEF FinishDeferred, TypeOK
  <2>3. CASE UNCHANGED ctxVars
    BY <2>1, <2>3, FrameKeepsBooks
  <2>4. ASSUME NEW n \in Cost, Affordable(work[t], n), Charge(work[t], n)
        PROVE  LedgerInv'
    BY <2>1, <2>2, <2>4, ChargeKeepsBooks
  <2> QED BY <1>6, <2>3, <2>4 DEF FinishDeferred
<1>7. ASSUME NEW t \in Threads, Exit(t) PROVE LedgerInv'
  BY <1>7, FrameKeepsBooks DEF Exit, Aside, TypeOK
<1>8. ASSUME NEW t \in Threads, Merge(t) PROVE LedgerInv'
  <2> DEFINE c == work[t]
  <2>1. c \in Ctx
    BY <1>8 DEF Merge, TypeOK
  <2>2. \A u \in Threads : stage[u] \notin {"merged", "marked"}
    BY <1>8 DEF Merge, LedgerInv, LockOwned
  <2>3. /\ used' = used /\ recorded' = recorded /\ unrolled' = unrolled
        /\ accUsed' = [accUsed EXCEPT ![c] = @ + Delta(c)]
        /\ accRollup' = [accRollup EXCEPT ![c] = @ + unrolled[c]]
        /\ work' = work /\ stage' = [stage EXCEPT ![t] = "merged"]
        /\ accLock' = t
    BY <1>8 DEF Merge, ctxVars
  <2>4. \A d \in Ctx : ~ Merged(d) /\ (d = c => Merged(d)') /\ Delta(d)' = Delta(d)
    BY <2>2, <2>3 DEF Merged, TypeOK, Delta
  <2>5. \A d \in Ctx : /\ Delta(d) = used[d] - recorded[d]
                       /\ Delta(d) = unrolled[d]
                       /\ Delta(d) \in Nat
    BY DEF TypeOK, LedgerInv, SummaryCoherent, Delta
  <2>6. Enforced' /\ SummaryCoherent'
    BY <2>1, <2>3, <2>5 DEF TypeOK, LedgerInv, Enforced, SummaryCoherent
  <2>7. ASSUME NEW d \in Ctx PROVE Total(d)' <= used'[d]
    <3>1. accUsed[d] + Delta(d) <= used[d] /\ accUsed[d] \in Nat
      BY <2>4, PendingCases DEF LedgerInv, NeverDoubleCounted, Total, TypeOK
    <3>2. CASE d = c
      <4>1. accUsed'[d] = accUsed[d] + Delta(d)
        BY <2>1, <2>3, <3>2 DEF TypeOK
      <4>2. Pending(d)' = 0
        BY <2>4, <3>2, PendingCases
      <4>3. Total(d)' = accUsed'[d] + Pending(d)'
        BY DEF Total
      <4> HIDE DEF c
      <4> QED BY <2>3, <2>5, <3>1, <4>1, <4>2, <4>3
    <3>3. CASE d # c
      <4>1. accUsed'[d] = accUsed[d] /\ ~ Merged(d)'
        BY <2>2, <2>3, <3>3 DEF TypeOK, Merged
      <4>2. Pending(d)' = Delta(d)
        BY <2>4, <4>1, PendingCases
      <4> QED BY <2>3, <3>1, <4>1, <4>2 DEF Total
    <3> QED BY <3>2, <3>3
  <2>8. LockOwned'
    BY <2>2, <2>3 DEF LockOwned, TypeOK
  <2> QED BY <2>6, <2>7, <2>8 DEF LedgerInv, NeverDoubleCounted
<1>9. ASSUME NEW t \in Threads, Commit(t) PROVE LedgerInv'
  <2>1. work[t] \in Ctx /\ stage[t] = "merged"
    BY <1>9 DEF Commit, TypeOK
  <2>2. /\ work' = work /\ stage' = [stage EXCEPT ![t] = "marked"]
        /\ accLock' = accLock
    BY <1>9 DEF Commit
  <2>3. \A d \in Ctx : d # work[t] => (Merged(d)' <=> Merged(d))
    BY <2>1, <2>2 DEF Merged, TypeOK
  <2>4. LockOwned'
    BY <2>1, <2>2 DEF LedgerInv, LockOwned, TypeOK
  <2> QED BY <1>9, <2>1, <2>3, <2>4, BoundaryKeepsBooks DEF Commit, MarkRecorded
<1>10. ASSUME NEW t \in Threads, CommitClose(t) PROVE LedgerInv'
  <2>1. work[t] \in Ctx /\ stage[t] = "marked"
    BY <1>10 DEF CommitClose, TypeOK
  <2>2. /\ work' = [work EXCEPT ![t] = NoCtx]
        /\ stage' = [stage EXCEPT ![t] = "idle"]
        /\ accLock' = NoThread
    BY <1>10 DEF CommitClose, Return
  <2>3. \A d \in Ctx : Merged(d)' <=> Merged(d)
    BY <2>1, <2>2 DEF Merged, TypeOK
  <2>4. LockOwned'
    BY <2>1, <2>2 DEF LedgerInv, LockOwned, TypeOK
  <2> QED BY <1>10, <2>1, <2>3, <2>4, BoundaryKeepsBooks
          DEF CommitClose, MarkRecorded
<1>11. ASSUME NEW t \in Threads, CallReset(t) PROVE LedgerInv'
  BY <1>11, FrameKeepsBooks DEF CallReset, Aside, TypeOK
<1>12. ASSUME NEW t \in Threads, ClearAccumulator(t) PROVE LedgerInv'
  <2>1. Aside(t)
    BY <1>12 DEF ClearAccumulator, Aside, TypeOK
  <2>2. /\ used' = used /\ recorded' = recorded /\ unrolled' = unrolled
        /\ accUsed' = [c \in Ctx |-> 0] /\ accRollup' = [c \in Ctx |-> 0]
        /\ accLock' = accLock
    BY <1>12 DEF ClearAccumulator, ctxVars
  <2>3. Enforced' /\ SummaryCoherent'
    BY <2>2 DEF LedgerInv, Enforced, SummaryCoherent
  <2>4. ASSUME NEW d \in Ctx PROVE Total(d)' <= used'[d]
    <3>1. Delta(d)' = Delta(d) /\ Delta(d) \in Nat /\ Delta(d) <= used[d]
          /\ used[d] \in Nat
      BY <2>2 DEF Delta, TypeOK
    <3>2. Pending(d)' \in {0, Delta(d)}
      BY <3>1, PendingCases
    <3> QED BY <2>2, <3>1, <3>2 DEF Total
  <2>5. LockOwned'
    BY <2>1, <2>2, AsideKeepsMergers DEF LedgerInv
  <2> QED BY <2>3, <2>4, <2>5 DEF LedgerInv, NeverDoubleCounted
<1>13. ASSUME NEW t \in Threads, NEW c \in Ctx, Baseline(t, c) PROVE LedgerInv'
  <2>1. UNCHANGED <<stage, work, accLock>>
    BY <1>13 DEF Baseline
  <2>2. LockOwned' /\ \A d \in Ctx : Merged(d)' <=> Merged(d)
    BY <2>1 DEF LedgerInv, LockOwned, Merged
  <2> QED BY <1>13, <2>2, BoundaryKeepsBooks DEF Baseline
<1>14. ASSUME NEW t \in Threads, ResetReturns(t) PROVE LedgerInv'
  BY <1>14, FrameKeepsBooks DEF ResetReturns, Return, Aside, TypeOK
<1>15. CASE UNCHANGED vars
  BY <1>15 DEF vars, ctxVars, accVars, LedgerInv, Enforced, SummaryCoherent,
               NeverDoubleCounted, LockOwned, Total, Pending, Delta
<1>16. ASSUME NEW t \in Threads,
             RequireBudget(t) \/ CreateDefault(t) \/ AdoptDefault(t) \/ ReturnDefault(t)
      PROVE  LedgerInv'
  BY <1>16, FrameKeepsBooks
     DEF RequireBudget, CreateDefault, AdoptDefault, ReturnDefault, Aside, TypeOK
<1> QED
  BY <1>1, <1>2, <1>3, <1>4, <1>5, <1>6, <1>7, <1>8, <1>9, <1>10, <1>11, <1>12,
     <1>13, <1>14, <1>15, <1>16 DEF Next

\* The books are in order before anything was charged.
LEMMA LedgerInitially == Init => LedgerInv
<1> SUFFICES ASSUME Init PROVE LedgerInv
  OBVIOUS
<1>1. Enforced /\ SummaryCoherent /\ LockOwned
  BY DEF Init, Enforced, SummaryCoherent, LockOwned
<1>2. ASSUME NEW c \in Ctx PROVE Total(c) <= used[c]
  BY DEF Init, Total, Pending, Delta
<1> QED BY <1>1, <1>2 DEF LedgerInv, NeverDoubleCounted

\* The inductive invariant of the ledger.
THEOREM LedgerInvariant == Spec => []LedgerInv
<1>1. TypeOK /\ LedgerInv /\ [Next]_vars => LedgerInv'
  BY LedgerStep
<1> QED BY LedgerInitially, LedgerTypes, <1>1, PTL DEF Spec

\* No schedule of threads sharing a context charges it past its budget.
THEOREM LedgerEnforced == Spec => []Enforced
<1>1. LedgerInv => Enforced
  BY DEF LedgerInv
<1> QED BY LedgerInvariant, <1>1, PTL

\* The rollups and the FLOP counters agree, in contexts and accumulator alike.
THEOREM LedgerCoherent == Spec => []SummaryCoherent
<1>1. LedgerInv => SummaryCoherent
  BY DEF LedgerInv
<1> QED BY LedgerInvariant, <1>1, PTL

\* No FLOP is in the session total twice, even when threads that share a
\* context close it and reset the session at the same time.
THEOREM LedgerCountsOnce == Spec => []NeverDoubleCounted
<1>1. LedgerInv => NeverDoubleCounted
  BY DEF LedgerInv
<1> QED BY LedgerInvariant, <1>1, PTL

-----------------------------------------------------------------------------
(***************************************************************************)
(* The parts of the inductive invariant.                                   *)
(***************************************************************************)
\* Where a thread is inside budget_reset().
ResetStages == {"clearing", "baselining"}

\* Where a thread's own context is: an operation is charged to the context that is
\* active, and a thread that closes one has left it.
ThreadInv ==
  \A t \in Threads :
    /\ stage[t] \in Operating /\ work[t] \in Explicit => active[t] = work[t]
    /\ stage[t] \in Closing => active[t] \notin Explicit
    /\ stage[t] \in Requiring => active[t] \notin Explicit
    /\ \A u \in Threads : stage[t] \in ResetStages /\ stage[u] \in ResetStages => t = u

\* A default is not used before it is built, the global is one that was, and no default
\* is ever closed: nothing of it is in the accumulator.
DefaultInv ==
  /\ global \in built \cup {NoCtx}
  /\ \A t \in Threads : active[t] \in Defaults => active[t] \in built
  /\ \A t \in Threads : stage[t] \in Operating /\ work[t] \in Defaults => work[t] \in built
  /\ \A t \in Threads : stage[t] = "required" => work[t] \in built
  /\ \A c \in Explicit : previous[c] \in Defaults => previous[c] \in built
  /\ \A d \in Defaults \ built : used[d] = 0
  /\ \A d \in Defaults : accUsed[d] = 0

\* What was spent before a reset is behind every boundary when it returns.
QuietInv ==
  /\ \A c \in Ctx : mark[c] <= used[c]
  /\ program.quiescent =>
       /\ \A t, u \in Threads :
            stage[t] \in ResetStages /\ u # t => /\ active[u] \notin Explicit
                                                 /\ stage[u] \notin Closing
       /\ ~ Resetting => \A c \in Ctx : mark[c] <= recorded[c]
       /\ \A t \in Threads : stage[t] = "baselining" =>
            \A c \in Ctx \ todo[t] : mark[c] <= recorded[c]
       /\ stale = 0

\* A context has one thread; once that has closed it nothing of it is pending.
ExclusiveInv ==
  program.exclusive =>
    /\ \A t, u \in Threads, c \in Explicit : Holds(t, c) /\ Holds(u, c) => t = u
    /\ \A c \in Explicit : ~ Open(c) => used[c] = recorded[c]
    /\ \A t \in Threads : stage[t] = "marked" => used[work[t]] = recorded[work[t]]

\* The budget of a context is in the session budget when it is counted or being counted.
BackedInv ==
  Orderly => \A c \in Explicit :
    /\ accBudget[c] \in {0, 1}
    /\ accUsed[c] > 0 => accBudget[c] = 1
    /\ accBudget[c] = 1 => counted[c] \/ Merged(c)
    /\ Merged(c) => accBudget[c] = 1
    /\ \A t \in Threads : stage[t] = "marked" /\ work[t] = c => counted[c]
    /\ counted[c] /\ (\A t \in Threads : stage[t] # "baselining") => accBudget[c] = 1
    /\ \A t \in Threads : stage[t] = "baselining" =>
         /\ accBudget[c] = 0 /\ accUsed[c] = 0
         /\ c \notin todo[t] => ~ counted[c]

-----------------------------------------------------------------------------
\* Threads keep the context they work on and the one they have active apart.
LEMMA ThreadStep ==
  ASSUME TypeOK, ThreadInv, [Next]_vars
  PROVE  ThreadInv'
<1> USE DEF Stage, Requiring, Operating, Closing, ctxVars, accVars, history, ResetStages
<1> USE DEF ThreadInv, TypeOK, Resetting
<1>1. ASSUME NEW c \in Explicit, DeadlinePasses(c) PROVE ThreadInv'
  BY <1>1 DEF DeadlinePasses
<1>2. ASSUME NEW t \in Threads, NEW c \in Explicit, Enter(t, c) PROVE ThreadInv'
  BY <1>2 DEF Enter
<1>3. ASSUME NEW t \in Threads, NEW n \in Cost, Deduct(t, n) PROVE ThreadInv'
  BY <1>3 DEF Deduct, Charge, Return, HasRequired, Required
<1>4. ASSUME NEW t \in Threads, BeginDeferred(t) PROVE ThreadInv'
  BY <1>4 DEF BeginDeferred, HasRequired, Required
<1>5. ASSUME NEW t \in Threads, FinishUpfront(t) PROVE ThreadInv'
  BY <1>5 DEF FinishUpfront, Return
<1>6. ASSUME NEW t \in Threads, FinishDeferred(t) PROVE ThreadInv'
  BY <1>6 DEF FinishDeferred, Return, Charge
<1>7. ASSUME NEW t \in Threads, Exit(t) PROVE ThreadInv'
  BY <1>7 DEF Exit
<1>8. ASSUME NEW t \in Threads, Merge(t) PROVE ThreadInv'
  BY <1>8 DEF Merge
<1>9. ASSUME NEW t \in Threads, Commit(t) PROVE ThreadInv'
  BY <1>9 DEF Commit, MarkRecorded
<1>10. ASSUME NEW t \in Threads, CommitClose(t) PROVE ThreadInv'
  BY <1>10 DEF CommitClose, MarkRecorded, Return
<1>11. ASSUME NEW t \in Threads, CallReset(t) PROVE ThreadInv'
  BY <1>11 DEF CallReset
<1>12. ASSUME NEW t \in Threads, ClearAccumulator(t) PROVE ThreadInv'
  BY <1>12 DEF ClearAccumulator
<1>13. ASSUME NEW t \in Threads, NEW c \in Ctx, Baseline(t, c) PROVE ThreadInv'
  BY <1>13 DEF Baseline
<1>14. ASSUME NEW t \in Threads, ResetReturns(t) PROVE ThreadInv'
  BY <1>14 DEF ResetReturns, Return
<1>15. CASE UNCHANGED vars
  BY <1>15 DEF vars
<1>16. ASSUME NEW t \in Threads,
             RequireBudget(t) \/ CreateDefault(t) \/ AdoptDefault(t) \/ ReturnDefault(t)
      PROVE  ThreadInv'
  BY <1>16 DEF RequireBudget, CreateDefault, AdoptDefault, ReturnDefault
<1> QED
  BY <1>1, <1>2, <1>3, <1>4, <1>5, <1>6, <1>7,
     <1>8, <1>9, <1>10, <1>11, <1>12, <1>13, <1>14, <1>15, <1>16 DEF Next

\* Nobody uses a default before it is built.
LEMMA DefaultStep ==
  ASSUME TypeOK, DefaultInv, [Next]_vars
  PROVE  DefaultInv'
<1> USE DEF Stage, Requiring, Operating, Closing, ctxVars, accVars, history, ResetStages
<1> USE DEF DefaultInv, TypeOK
<1>1. ASSUME NEW c \in Explicit, DeadlinePasses(c) PROVE DefaultInv'
  BY <1>1 DEF DeadlinePasses
<1>2. ASSUME NEW t \in Threads, NEW c \in Explicit, Enter(t, c) PROVE DefaultInv'
  BY <1>2 DEF Enter
<1>3. ASSUME NEW t \in Threads, NEW n \in Cost, Deduct(t, n) PROVE DefaultInv'
  BY <1>3 DEF Deduct, Charge, Return, HasRequired, Required
<1>4. ASSUME NEW t \in Threads, BeginDeferred(t) PROVE DefaultInv'
  BY <1>4 DEF BeginDeferred, HasRequired, Required
<1>5. ASSUME NEW t \in Threads, FinishUpfront(t) PROVE DefaultInv'
  BY <1>5 DEF FinishUpfront, Return
<1>6. ASSUME NEW t \in Threads, FinishDeferred(t) PROVE DefaultInv'
  BY <1>6 DEF FinishDeferred, Return, Charge
<1>7. ASSUME NEW t \in Threads, Exit(t) PROVE DefaultInv'
  BY <1>7 DEF Exit
<1>8. ASSUME NEW t \in Threads, Merge(t) PROVE DefaultInv'
  BY <1>8 DEF Merge
<1>9. ASSUME NEW t \in Threads, Commit(t) PROVE DefaultInv'
  BY <1>9 DEF Commit, MarkRecorded
<1>10. ASSUME NEW t \in Threads, CommitClose(t) PROVE DefaultInv'
  BY <1>10 DEF CommitClose, MarkRecorded, Return
<1>11. ASSUME NEW t \in Threads, CallReset(t) PROVE DefaultInv'
  BY <1>11 DEF CallReset
<1>12. ASSUME NEW t \in Threads, ClearAccumulator(t) PROVE DefaultInv'
  BY <1>12 DEF ClearAccumulator
<1>13. ASSUME NEW t \in Threads, NEW c \in Ctx, Baseline(t, c) PROVE DefaultInv'
  BY <1>13 DEF Baseline
<1>14. ASSUME NEW t \in Threads, ResetReturns(t) PROVE DefaultInv'
  BY <1>14 DEF ResetReturns, Return
<1>15. CASE UNCHANGED vars
  BY <1>15 DEF vars
<1>16. ASSUME NEW t \in Threads,
             RequireBudget(t) \/ CreateDefault(t) \/ AdoptDefault(t) \/ ReturnDefault(t)
      PROVE  DefaultInv'
  BY <1>16 DEF RequireBudget, CreateDefault, AdoptDefault, ReturnDefault
<1> QED
  BY <1>1, <1>2, <1>3, <1>4, <1>5, <1>6, <1>7,
     <1>8, <1>9, <1>10, <1>11, <1>12, <1>13, <1>14, <1>15, <1>16 DEF Next

\* What a reset has put behind the boundaries stays behind them.
LEMMA QuietStep ==
  ASSUME TypeOK, SummaryCoherent, ThreadInv, DefaultInv, QuietInv, [Next]_vars
  PROVE  QuietInv'
<1> USE DEF Stage, Requiring, Operating, Closing, ctxVars, accVars, history, ResetStages
<1> USE DEF QuietInv, TypeOK, Resetting, ThreadInv, SummaryCoherent
<1>1. ASSUME NEW c \in Explicit, DeadlinePasses(c) PROVE QuietInv'
  BY <1>1 DEF DeadlinePasses
<1>2. ASSUME NEW t \in Threads, NEW c \in Explicit, Enter(t, c) PROVE QuietInv'
  BY <1>2 DEF Enter
<1>3. ASSUME NEW t \in Threads, NEW n \in Cost, Deduct(t, n) PROVE QuietInv'
  BY <1>3, SMTT(30) DEF Deduct, Charge, Return, HasRequired, Required
<1>4. ASSUME NEW t \in Threads, BeginDeferred(t) PROVE QuietInv'
  BY <1>4 DEF BeginDeferred, HasRequired, Required
<1>5. ASSUME NEW t \in Threads, FinishUpfront(t) PROVE QuietInv'
  BY <1>5 DEF FinishUpfront, Return
<1>6. ASSUME NEW t \in Threads, FinishDeferred(t) PROVE QuietInv'
  BY <1>6 DEF FinishDeferred, Return, Charge
<1>7. ASSUME NEW t \in Threads, Exit(t) PROVE QuietInv'
  BY <1>7 DEF Exit
<1>8. ASSUME NEW t \in Threads, Merge(t) PROVE QuietInv'
  <2>1. ASSUME program.quiescent PROVE ~ Resetting
    BY <1>8, <2>1 DEF Merge
  <2>2. program.quiescent => Overdue(work[t]) = 0
    BY <1>8, <2>1 DEF Merge, Overdue
  <2>3. program.quiescent => stale' = 0
    BY <1>8, <2>2 DEF Merge
  <2>4. /\ UNCHANGED <<program, active, used, recorded, mark, todo>>
        /\ stage' = [stage EXCEPT ![t] = "merged"]
    BY <1>8 DEF Merge
  <2>5. program.quiescent => \A u, v \in Threads :
          stage'[u] \in ResetStages /\ v # u => active'[v] \notin Explicit /\ stage'[v] \notin Closing
    BY <2>1, <2>4
  <2>6. Resetting' <=> Resetting
    BY <1>8, <2>4 DEF Merge
  <2>7. \A u \in Threads : stage'[u] = "baselining" => stage[u] = "baselining"
    BY <2>4
  <2> QED BY <2>3, <2>4, <2>5, <2>6, <2>7
<1>9. ASSUME NEW t \in Threads, Commit(t) PROVE QuietInv'
  BY <1>9 DEF Commit, MarkRecorded
<1>10. ASSUME NEW t \in Threads, CommitClose(t) PROVE QuietInv'
  BY <1>10 DEF CommitClose, MarkRecorded, Return
<1>11. ASSUME NEW t \in Threads, CallReset(t) PROVE QuietInv'
  BY <1>11 DEF CallReset, Quiet
<1>12. ASSUME NEW t \in Threads, ClearAccumulator(t) PROVE QuietInv'
  <2>1. /\ UNCHANGED <<program, active, used, recorded, mark>> /\ stale' = 0
        /\ stage[t] = "clearing" /\ stage' = [stage EXCEPT ![t] = "baselining"]
        /\ todo' = [todo EXCEPT ![t] = Explicit \cup built]
    BY <1>12 DEF ClearAccumulator
  <2>2. Resetting'
    BY <2>1
  <2>3. \A c \in Ctx \ todo'[t] : mark[c] <= recorded[c]
    BY <2>1 DEF DefaultInv
  <2>4. \A u \in Threads : stage'[u] = "baselining" => u = t
    BY <2>1
  <2>5. program.quiescent => \A u, v \in Threads :
          stage'[u] \in ResetStages /\ v # u => active'[v] \notin Explicit /\ stage'[v] \notin Closing
    BY <2>1
  <2> QED BY <2>1, <2>2, <2>3, <2>4, <2>5
<1>13. ASSUME NEW t \in Threads, NEW c \in Ctx, Baseline(t, c) PROVE QuietInv'
  BY <1>13 DEF Baseline
<1>14. ASSUME NEW t \in Threads, ResetReturns(t) PROVE QuietInv'
  BY <1>14 DEF ResetReturns, Return
<1>15. CASE UNCHANGED vars
  BY <1>15 DEF vars
<1>16. ASSUME NEW t \in Threads,
             RequireBudget(t) \/ CreateDefault(t) \/ AdoptDefault(t) \/ ReturnDefault(t)
      PROVE  QuietInv'
  BY <1>16 DEF RequireBudget, CreateDefault, AdoptDefault, ReturnDefault
<1> QED
  BY <1>1, <1>2, <1>3, <1>4, <1>5, <1>6, <1>7,
     <1>8, <1>9, <1>10, <1>11, <1>12, <1>13, <1>14, <1>15, <1>16 DEF Next

\* A context is left to one thread, and left without a remainder.
LEMMA ExclusiveStep ==
  ASSUME TypeOK, SummaryCoherent, ThreadInv, ExclusiveInv, [Next]_vars
  PROVE  ExclusiveInv'
<1> USE DEF Stage, Requiring, Operating, Closing, ctxVars, accVars, history, ResetStages
<1> USE DEF ExclusiveInv, TypeOK, Holds, Open, ThreadInv
<1>1. ASSUME NEW c \in Explicit, DeadlinePasses(c) PROVE ExclusiveInv'
  BY <1>1 DEF DeadlinePasses
<1>2. ASSUME NEW t \in Threads, NEW c \in Explicit, Enter(t, c) PROVE ExclusiveInv'
  BY <1>2 DEF Enter
<1>3. ASSUME NEW t \in Threads, NEW n \in Cost, Deduct(t, n) PROVE ExclusiveInv'
  <2> DEFINE c == Required(t)
  <2>1. /\ stage[t] \in {"idle", "required"} /\ c \in Ctx /\ (c \in Explicit => active[t] = c)
        /\ UNCHANGED <<program, recorded, active>>
        /\ stage'[t] \in {"idle", "upfront"}
        /\ \A u \in Threads : u # t => work'[u] = work[u] /\ stage'[u] = stage[u]
    BY <1>3 DEF Deduct, Charge, Return, HasRequired, Required
  <2>2. \A d \in Ctx : d # c => used'[d] = used[d]
    BY <1>3, <2>1 DEF Deduct, Charge
  <2> HIDE DEF c
  <2>3. \A u \in Threads, d \in Explicit : Holds(u, d)' <=> Holds(u, d)
    BY <2>1
  <2>4. \A d \in Explicit : ~ Open(d)' => d # c /\ ~ Open(d)
    BY <2>1, <2>3
  <2>5. ASSUME program.exclusive, NEW u \in Threads, stage'[u] = "marked"
        PROVE  used'[work'[u]] = recorded'[work'[u]]
    <3>1. u # t /\ stage[u] = "marked" /\ work'[u] = work[u] /\ work[u] \in Explicit
      BY <2>1, <2>5
    <3>2. work[u] # c
      BY <2>1, <2>5, <3>1
    <3> QED BY <2>1, <2>2, <2>5, <3>1, <3>2
  <2> QED BY <2>1, <2>2, <2>3, <2>4, <2>5
<1>4. ASSUME NEW t \in Threads, BeginDeferred(t) PROVE ExclusiveInv'
  BY <1>4 DEF BeginDeferred, HasRequired, Required
<1>5. ASSUME NEW t \in Threads, FinishUpfront(t) PROVE ExclusiveInv'
  BY <1>5 DEF FinishUpfront, Return
<1>6. ASSUME NEW t \in Threads, FinishDeferred(t) PROVE ExclusiveInv'
  BY <1>6 DEF FinishDeferred, Return, Charge
<1>7. ASSUME NEW t \in Threads, Exit(t) PROVE ExclusiveInv'
  BY <1>7 DEF Exit
<1>8. ASSUME NEW t \in Threads, Merge(t) PROVE ExclusiveInv'
  BY <1>8 DEF Merge
<1>9. ASSUME NEW t \in Threads, Commit(t) PROVE ExclusiveInv'
  BY <1>9 DEF Commit, MarkRecorded
<1>10. ASSUME NEW t \in Threads, CommitClose(t) PROVE ExclusiveInv'
  BY <1>10 DEF CommitClose, MarkRecorded, Return
<1>11. ASSUME NEW t \in Threads, CallReset(t) PROVE ExclusiveInv'
  BY <1>11 DEF CallReset
<1>12. ASSUME NEW t \in Threads, ClearAccumulator(t) PROVE ExclusiveInv'
  BY <1>12 DEF ClearAccumulator
<1>13. ASSUME NEW t \in Threads, NEW c \in Ctx, Baseline(t, c) PROVE ExclusiveInv'
  BY <1>13 DEF Baseline
<1>14. ASSUME NEW t \in Threads, ResetReturns(t) PROVE ExclusiveInv'
  BY <1>14 DEF ResetReturns, Return
<1>15. CASE UNCHANGED vars
  BY <1>15 DEF vars
<1>16. ASSUME NEW t \in Threads,
             RequireBudget(t) \/ CreateDefault(t) \/ AdoptDefault(t) \/ ReturnDefault(t)
      PROVE  ExclusiveInv'
  <2>1. /\ UNCHANGED <<program, used, recorded>>
        /\ \A u \in Threads : active'[u] = active[u] \/ (active[u] \notin Explicit /\ active'[u] \notin Explicit)
        /\ \A u \in Threads : stage'[u] = stage[u] \/ (stage[u] \notin Closing /\ stage'[u] \notin Closing)
        /\ \A u \in Threads : stage[u] \in Closing => work'[u] = work[u]
    BY <1>16 DEF RequireBudget, CreateDefault, AdoptDefault, ReturnDefault
  <2>2. ASSUME NEW u \in Threads, NEW d \in Explicit PROVE Holds(u, d)' <=> Holds(u, d)
    <3>1. active'[u] = d <=> active[u] = d
      BY <2>1
    <3>2. stage'[u] \in Closing /\ work'[u] = d <=> stage[u] \in Closing /\ work[u] = d
      BY <2>1
    <3> QED BY <3>1, <3>2
  <2> HIDE DEF Holds
  <2> QED BY <2>1, <2>2
<1> QED
  BY <1>1, <1>2, <1>3, <1>4, <1>5, <1>6, <1>7,
     <1>8, <1>9, <1>10, <1>11, <1>12, <1>13, <1>14, <1>15, <1>16 DEF Next

\* The budget of a context is counted once.
LEMMA BackedStep ==
  ASSUME TypeOK, ThreadInv, QuietInv, ExclusiveInv, LockOwned, BackedInv, [Next]_vars
  PROVE  BackedInv'
<1> USE DEF Stage, Requiring, Operating, Closing, ctxVars, accVars, history, ResetStages
<1> USE DEF BackedInv, TypeOK, Merged, Orderly
<1>1. ASSUME NEW c \in Explicit, DeadlinePasses(c) PROVE BackedInv'
  BY <1>1 DEF DeadlinePasses
<1>2. ASSUME NEW t \in Threads, NEW c \in Explicit, Enter(t, c) PROVE BackedInv'
  BY <1>2 DEF Enter
<1>3. ASSUME NEW t \in Threads, NEW n \in Cost, Deduct(t, n) PROVE BackedInv'
  BY <1>3, SMTT(30) DEF Deduct, Charge, Return, HasRequired, Required
<1>4. ASSUME NEW t \in Threads, BeginDeferred(t) PROVE BackedInv'
  BY <1>4 DEF BeginDeferred, HasRequired, Required
<1>5. ASSUME NEW t \in Threads, FinishUpfront(t) PROVE BackedInv'
  BY <1>5 DEF FinishUpfront, Return
<1>6. ASSUME NEW t \in Threads, FinishDeferred(t) PROVE BackedInv'
  BY <1>6 DEF FinishDeferred, Return, Charge
<1>7. ASSUME NEW t \in Threads, Exit(t) PROVE BackedInv'
  BY <1>7 DEF Exit
<1>8. ASSUME NEW t \in Threads, Merge(t) PROVE BackedInv'
  <2> DEFINE c == work[t]
  <2>1. /\ c \in Explicit /\ stage[t] = "exiting" /\ accLock = NoThread
        /\ accUsed' = [accUsed EXCEPT ![c] = @ + Delta(c)]
        /\ accBudget' = [accBudget EXCEPT ![c] = IF counted[c] THEN @ ELSE @ + 1]
        /\ stage' = [stage EXCEPT ![t] = "merged"]
        /\ UNCHANGED <<program, counted, work, todo>>
    BY <1>8 DEF Merge
  <2>2. \A u \in Threads : stage[u] \notin {"merged", "marked"}
    BY <2>1 DEF LockOwned
  <2>3. \A d \in Explicit : /\ ~ Merged(d) /\ (Merged(d)' <=> d = c)
    BY <2>1, <2>2
  <2>4. ASSUME Orderly PROVE \A u \in Threads : stage[u] # "baselining" /\ stage'[u] # "baselining"
    BY <2>1, <2>4 DEF QuietInv
  <2>5. ASSUME Orderly, NEW d \in Explicit, d # c
        PROVE  accBudget'[d] = accBudget[d] /\ accUsed'[d] = accUsed[d]
    BY <2>1, <2>5
  <2>6. Orderly => accBudget'[c] = 1
    BY <2>1, <2>3, <2>4
  <2> HIDE DEF c
  <2>7. \A u \in Threads : stage'[u] # "marked"
    BY <2>1, <2>2
  <2> HIDE DEF Merged
  <2> QED BY <2>1, <2>3, <2>4, <2>5, <2>6, <2>7
<1>9. ASSUME NEW t \in Threads, Commit(t) PROVE BackedInv'
  BY <1>9 DEF Commit, MarkRecorded
<1>10. ASSUME NEW t \in Threads, CommitClose(t) PROVE BackedInv'
  BY <1>10 DEF CommitClose, MarkRecorded, Return
<1>11. ASSUME NEW t \in Threads, CallReset(t) PROVE BackedInv'
  BY <1>11 DEF CallReset
<1>12. ASSUME NEW t \in Threads, ClearAccumulator(t) PROVE BackedInv'
  <2>1. /\ accUsed' = [c \in Ctx |-> 0] /\ accBudget' = [c \in Ctx |-> 0]
        /\ stage[t] = "clearing" /\ stage' = [stage EXCEPT ![t] = "baselining"]
        /\ todo' = [todo EXCEPT ![t] = Explicit \cup built]
        /\ UNCHANGED <<program, counted, work>>
    BY <1>12 DEF ClearAccumulator
  <2>2. ASSUME Orderly
        PROVE  /\ \A u \in Threads : stage'[u] \notin Closing
               /\ \A u \in Threads : stage'[u] = "baselining" => u = t
    BY <2>1, <2>2 DEF QuietInv, ThreadInv
  <2>3. \A c \in Explicit : accUsed'[c] = 0 /\ accBudget'[c] = 0 /\ c \in todo'[t]
    BY <2>1
  <2>4. stage'[t] = "baselining"
    BY <2>1
  <2> QED BY <2>1, <2>2, <2>3, <2>4
<1>13. ASSUME NEW t \in Threads, NEW c \in Ctx, Baseline(t, c) PROVE BackedInv'
  BY <1>13 DEF Baseline, QuietInv
<1>14. ASSUME NEW t \in Threads, ResetReturns(t) PROVE BackedInv'
  BY <1>14 DEF ResetReturns, Return
<1>15. CASE UNCHANGED vars
  BY <1>15 DEF vars
<1>16. ASSUME NEW t \in Threads,
             RequireBudget(t) \/ CreateDefault(t) \/ AdoptDefault(t) \/ ReturnDefault(t)
      PROVE  BackedInv'
  BY <1>16 DEF RequireBudget, CreateDefault, AdoptDefault, ReturnDefault
<1> QED
  BY <1>1, <1>2, <1>3, <1>4, <1>5, <1>6, <1>7,
     <1>8, <1>9, <1>10, <1>11, <1>12, <1>13, <1>14, <1>15, <1>16 DEF Next

-----------------------------------------------------------------------------
(***************************************************************************)
(* The invariants of orderly use.                                          *)
(***************************************************************************)
OrderlyInv == ThreadInv /\ DefaultInv /\ QuietInv /\ ExclusiveInv /\ BackedInv

\* All of it holds of a ledger nobody has used.
LEMMA OrderlyInitially == Init => OrderlyInv
<1> SUFFICES ASSUME Init PROVE OrderlyInv
  OBVIOUS
<1>1. /\ \A t \in Threads : stage[t] = "idle" /\ active[t] = NoCtx
      /\ \A c \in Ctx : used[c] = 0 /\ recorded[c] = 0 /\ mark[c] = 0
      /\ \A c \in Ctx : accUsed[c] = 0 /\ accBudget[c] = 0 /\ counted[c] = FALSE
      /\ \A c \in Explicit : previous[c] = NoCtx
      /\ stale = 0
  BY DEF Init
<1>2. ThreadInv /\ DefaultInv
  <2>1. ThreadInv
    BY <1>1 DEF ThreadInv, Requiring, Operating, Closing, ResetStages
  <2>2. global = NoCtx
    BY DEF Init
  <2> QED BY <1>1, <2>1, <2>2 DEF DefaultInv, Operating
<1>3. QuietInv
  BY <1>1 DEF QuietInv, ResetStages
<1>4. ExclusiveInv
  BY <1>1 DEF ExclusiveInv, Holds, Closing
<1>5. BackedInv
  BY <1>1 DEF BackedInv, Merged
<1> QED BY <1>2, <1>3, <1>4, <1>5 DEF OrderlyInv

\* The inductive invariant of the ledger and of its orderly use.
LEMMA LedgerOrderly == Spec => [](TypeOK /\ LedgerInv /\ OrderlyInv)
<1>1. TypeOK /\ LedgerInv /\ OrderlyInv /\ [Next]_vars => OrderlyInv'
  BY ThreadStep, DefaultStep, QuietStep, ExclusiveStep, BackedStep DEF OrderlyInv, LedgerInv
<1> QED BY <1>1, OrderlyInitially, LedgerTypes, LedgerInvariant, PTL DEF Spec

\* A reset no other thread runs into forgets for good: no close and no re-entry brings
\* back to the session total what was spent before it.
THEOREM LedgerResetForgets == Spec => []QuietResetForgets
<1>1. OrderlyInv => QuietResetForgets
  BY DEF OrderlyInv, QuietInv, QuietResetForgets, ResetForgets
<1> QED BY <1>1, LedgerOrderly, PTL

\* In an orderly program the session's flop_budget holds the budget of a context at most
\* once, and holds it whenever the session holds FLOPs of that context.
THEOREM LedgerBudgetBacks == Spec => []BudgetBacksUsage
<1>1. ASSUME TypeOK, OrderlyInv, Orderly, NEW c \in Explicit
      PROVE  /\ accBudget[c] + (IF Active(c) /\ ~ counted[c] THEN 1 ELSE 0) <= 1
             /\ accUsed[c] > 0 => accBudget[c] = 1
  <2>1. /\ accBudget[c] \in {0, 1} /\ (accUsed[c] > 0 => accBudget[c] = 1)
        /\ accBudget[c] = 1 => counted[c] \/ Merged(c)
    BY <1>1 DEF OrderlyInv, BackedInv
  <2>2. ~ (Merged(c) /\ Active(c))
    BY <1>1 DEF OrderlyInv, ThreadInv, ExclusiveInv, Orderly, Merged, Active, Holds, Closing
  <2> QED BY <2>1, <2>2
<1>2. TypeOK /\ OrderlyInv => BudgetBacksUsage
  BY <1>1 DEF BudgetBacksUsage
<1> QED BY <1>2, LedgerOrderly, PTL

\* What OwnViewComplete says of its sums, context by context: what a thread alone with
\* its contexts does not find in the accumulator is of the default or of its own context.
OwnViewParts ==
  \A t \in Threads :
    /\ Orderly
    /\ \A u \in Threads \ {t} : active[u] \notin Explicit /\ stage[u] \notin Closing
    /\ stage[t] \notin Closing
    => \A c \in Ctx :
         Without(Orphaned \ {active[t]})[c]
           = accUsed[c] + (IF c \in Live(t) THEN Delta(c) ELSE 0)

\* Nothing charged to a closed context is missing from what budget_summary_dict() reads.
LEMMA LedgerOwnViewParts == Spec => []OwnViewParts
<1>1. ASSUME TypeOK, LedgerInv, OrderlyInv, Orderly, NEW t \in Threads, NEW c \in Ctx,
             \A u \in Threads \ {t} : active[u] \notin Explicit /\ stage[u] \notin Closing,
             stage[t] \notin Closing
      PROVE  (IF c \in Orphaned \ {active[t]} THEN 0 ELSE Total(c))
               = accUsed[c] + (IF c \in Live(t) THEN Delta(c) ELSE 0)
  <2>1. Pending(c) = Delta(c)
    BY <1>1, PendingCases DEF Merged, Closing
  <2>2. accUsed[c] \in Nat /\ c # NoCtx
    BY <1>1 DEF TypeOK
  <2>3. CASE c \in Orphaned \ {active[t]}
    <3>1. c \notin Live(t) /\ c \in Defaults
      BY <1>1, <2>3 DEF Orphaned, Live, TypeOK
    <3>2. accUsed[c] = 0
      BY <1>1, <3>1 DEF OrderlyInv, DefaultInv
    <3> QED BY <2>3, <3>1, <3>2
  <2>4. CASE c \in Live(t) /\ c \notin Orphaned \ {active[t]}
    BY <2>1, <2>4 DEF Total
  <2>5. CASE c \notin Live(t) /\ c \notin Orphaned \ {active[t]}
    <3>1. CASE c \in Explicit
      <4>1. \A u \in Threads : ~ Holds(u, c)
        BY <1>1, <2>2, <2>5, <3>1 DEF Holds, Live
      <4>2. used[c] = recorded[c] /\ used[c] \in Nat
        BY <1>1, <3>1, <4>1 DEF OrderlyInv, ExclusiveInv, Orderly, Open, TypeOK
      <4>3. Delta(c) = 0
        BY <4>2 DEF Delta
      <4> QED BY <2>1, <2>5, <4>3 DEF Total
    <3>2. CASE c \notin Explicit
      <4>1. c \in Defaults \ built
        BY <2>2, <2>5, <3>2 DEF Live, Orphaned
      <4>2. used[c] = 0 /\ recorded[c] \in Nat
        BY <1>1, <4>1 DEF OrderlyInv, DefaultInv, TypeOK
      <4>3. Delta(c) = 0
        BY <4>2 DEF Delta
      <4> QED BY <2>1, <2>5, <4>3 DEF Total
    <3> QED BY <3>1, <3>2
  <2> QED BY <2>3, <2>4, <2>5
<1>2. TypeOK /\ LedgerInv /\ OrderlyInv => OwnViewParts
  <2> SUFFICES ASSUME TypeOK, LedgerInv, OrderlyInv, Orderly, NEW t \in Threads, NEW c \in Ctx,
                      \A u \in Threads \ {t} : active[u] \notin Explicit /\ stage[u] \notin Closing,
                      stage[t] \notin Closing
               PROVE  Without(Orphaned \ {active[t]})[c]
                        = accUsed[c] + (IF c \in Live(t) THEN Delta(c) ELSE 0)
    BY DEF OwnViewParts
  <2>1. Without(Orphaned \ {active[t]})[c] = IF c \in Orphaned \ {active[t]} THEN 0 ELSE Total(c)
    BY DEF Without
  <2> QED BY <1>1, <2>1
<1> QED BY <1>2, LedgerOrderly, PTL

-----------------------------------------------------------------------------
(***************************************************************************)
(* What a summary adds up.                                                 *)
(***************************************************************************)
\* The parts of the session total are numbers.
LEMMA TotalIsNat ==
  ASSUME TypeOK, NEW c \in Ctx
  PROVE  Delta(c) \in Nat /\ Pending(c) \in Nat /\ Total(c) \in Nat
<1>1. Delta(c) \in Nat
  BY DEF TypeOK, Delta
<1>2. Pending(c) \in Nat
  BY <1>1 DEF Pending
<1> QED BY <1>1, <1>2 DEF Total, TypeOK

\* In an orderly program a thread that is alone in having a context open reads the whole
\* session: budget_summary_dict() adds up to everything charged to any context but the
\* defaults that another thread's creation of the default replaced.
THEOREM LedgerOwnViewComplete == Spec => []OwnViewComplete
<1>1. ASSUME TypeOK, OwnViewParts, Orderly, NEW t \in Threads,
             \A u \in Threads \ {t} : active[u] \notin Explicit /\ stage[u] \notin Closing,
             stage[t] \notin Closing
      PROVE  Report(t) = SumOver(Without(Orphaned \ {active[t]}))
  <2> DEFINE D == Live(t)
             h == Without(Orphaned \ {active[t]})
             d == [c \in D |-> Delta(c)]
  <2>1. D \in SUBSET Ctx
    BY <1>1 DEF TypeOK, Live
  <2>2. accUsed \in [Ctx -> Nat]
    BY <1>1 DEF TypeOK
  <2>3. h \in [Ctx -> Nat] /\ d \in [D -> Nat]
    BY <1>1, <2>1, TotalIsNat DEF Without
  <2>4. ASSUME NEW c \in Ctx
        PROVE  h[c] = accUsed[c] + (IF c \in D THEN d[c] ELSE 0)
    BY <1>1 DEF OwnViewParts
  <2>5. Report(t) = SumOver(accUsed) + SumOver(d)
    BY DEF Report
  <2> HIDE DEF D, h, d
  <2>6. SumOver(h) = SumOver(accUsed) + SumOver(d)
    BY <2>1, <2>2, <2>3, <2>4, FiniteAssumption, SumsAdd
  <2> QED BY <2>5, <2>6 DEF h
<1>2. TypeOK /\ OwnViewParts => OwnViewComplete
  BY <1>1 DEF OwnViewComplete
<1> QED BY <1>2, LedgerTypes, LedgerOwnViewParts, PTL

-----------------------------------------------------------------------------
(***************************************************************************)
(* An orderly ledger implements SessionMeter.                              *)
(***************************************************************************)
\* A charge is added once to what the context spent and once to the session total,
\* unless it falls into a merge of the same context, or the context is a default that
\* was replaced.
LEMMA ChargeImplements ==
  ASSUME TypeOK, TypeOK', LedgerInv, LedgerInv', NEW c \in Ctx, NEW n \in Cost, NEW t \in Threads,
         Affordable(c, n), Charge(c, n), UNCHANGED <<accVars, accLock>>, Aside(t),
         ~ Merged(c), Resetting' <=> Resetting, UNCHANGED <<global, built>>
  PROVE  Meter!Charge
<1>1. /\ n \in Nat /\ used[c] \in Nat /\ Budget[c] \in Nat
      /\ used' = [used EXCEPT ![c] = @ + n] /\ recorded' = recorded /\ accUsed' = accUsed
  BY DEF Charge, accVars, TypeOK
<1>2. used'[c] - used[c] = n /\ used'[c] \in used[c] .. Budget[c]
  BY <1>1 DEF TypeOK, Affordable
<1>3. ASSUME NEW d \in Ctx
      PROVE  Total(d)' = IF d = c THEN Total(d) + n ELSE Total(d)
  <2>1. Merged(d)' <=> Merged(d)
    BY AsideKeepsMergers
  <2>2. Delta(d) = used[d] - recorded[d] /\ Delta(d)' = used'[d] - recorded'[d]
    <3>1. /\ used[d] \in Nat /\ recorded[d] \in Nat /\ recorded[d] <= used[d]
          /\ used'[d] \in Nat /\ recorded'[d] \in Nat /\ recorded'[d] <= used'[d]
      BY DEF TypeOK, LedgerInv, SummaryCoherent
    <3> QED BY <3>1 DEF Delta
  <2>3. used'[d] = IF d = c THEN used[d] + n ELSE used[d]
    BY <1>1 DEF TypeOK
  <2>4. /\ used[d] \in Nat /\ recorded[d] \in Nat /\ accUsed[d] \in Nat
        /\ recorded'[d] = recorded[d] /\ accUsed'[d] = accUsed[d]
    BY <1>1 DEF TypeOK
  <2>5. CASE Merged(d)
    <3>1. d # c /\ Pending(d) = 0 /\ Pending(d)' = 0
      BY <2>1, <2>5, PendingCases
    <3> QED BY <2>4, <3>1 DEF Total
  <2>6. CASE ~ Merged(d)
    <3>1. Pending(d) = used[d] - recorded[d] /\ Pending(d)' = used'[d] - recorded[d]
      BY <2>1, <2>2, <2>4, <2>6, PendingCases
    <3> QED BY <1>1, <2>3, <2>4, <3>1 DEF Total
  <2> QED BY <2>5, <2>6
<1>4. UNCHANGED Orphaned
  BY DEF Orphaned
<1>5. UNCHANGED Resetting
  BY DEF Resetting
<1>6. Without(Orphaned)' = IF c \in Orphaned THEN Without(Orphaned)
                           ELSE [Without(Orphaned) EXCEPT ![c] = @ + n]
  <2>1. \A d \in Ctx : Without(Orphaned)'[d] = IF d \in Orphaned THEN 0 ELSE Total(d)'
    BY <1>4 DEF Without
  <2>2. \A d \in Ctx : Without(Orphaned)[d] = IF d \in Orphaned THEN 0 ELSE Total(d)
    BY DEF Without
  <2>3. /\ Without(Orphaned)' = [d \in Ctx |-> Without(Orphaned)'[d]]
        /\ Without(Orphaned) = [d \in Ctx |-> Without(Orphaned)[d]]
    BY DEF Without
  <2>4. DOMAIN Without(Orphaned) = Ctx
    BY DEF Without
  <2>5. CASE c \in Orphaned
    <3>1. \A d \in Ctx : Without(Orphaned)'[d] = Without(Orphaned)[d]
      BY <1>3, <2>1, <2>2, <2>5
    <3> QED BY <2>3, <2>5, <3>1
  <2>6. CASE c \notin Orphaned
    <3>1. \A d \in Ctx : Without(Orphaned)'[d] = IF d = c THEN Without(Orphaned)[d] + n
                                                     ELSE Without(Orphaned)[d]
      BY <1>3, <2>1, <2>2, <2>6
    <3> HIDE DEF Without
    <3> QED BY <2>3, <2>4, <2>6, <3>1
  <2> QED BY <2>5, <2>6
<1> QED BY <1>1, <1>2, <1>4, <1>5, <1>6 DEF Meter!Charge

\* A step that moves no FLOP and touches no merge leaves the session total as it is.
LEMMA FrameImplements ==
  ASSUME NEW t \in Threads, Aside(t), UNCHANGED <<ctxVars, accVars>>
  PROVE  used' = used /\ \A d \in Ctx : Total(d)' = Total(d)
<1>1. used' = used /\ recorded' = recorded /\ accUsed' = accUsed
  BY DEF ctxVars, accVars
<1>2. ASSUME NEW d \in Ctx PROVE Total(d)' = Total(d)
  <2>1. Merged(d)' <=> Merged(d)
    BY AsideKeepsMergers
  <2>2. Delta(d)' = Delta(d)
    BY <1>1 DEF Delta
  <2>3. Pending(d)' = Pending(d)
    BY <2>1, <2>2, PendingCases
  <2> QED BY <1>1, <2>3 DEF Total
<1> QED BY <1>1, <1>2

\* Every step of an orderly ledger is a step of the meter, or one it does not see.
LEMMA MeterStep ==
  ASSUME TypeOK, TypeOK', LedgerInv, LedgerInv', OrderlyInv, [Next]_vars, Orderly
  PROVE  Meter!Next \/ UNCHANGED Meter!meter
<1> USE DEF ResetStages
<1>1. ThreadInv /\ ExclusiveInv /\ QuietInv /\ LockOwned /\ program.exclusive /\ program.quiescent
  BY DEF OrderlyInv, LedgerInv, Orderly
\* What a step that the meter does not see has to show.
<1>2. ASSUME used' = used, \A d \in Ctx : Total(d)' = Total(d), UNCHANGED <<global, built>>,
             Resetting' <=> Resetting
      PROVE  UNCHANGED Meter!meter
  <2>1. UNCHANGED Resetting
    BY <1>2 DEF Resetting
  <2>2. UNCHANGED Orphaned
    BY <1>2 DEF Orphaned
  <2>3. UNCHANGED Without(Orphaned)
    BY <1>2, <2>2 DEF Without
  <2> QED BY <1>2, <2>1, <2>2, <2>3 DEF Meter!meter
\* No thread charges a context that another one is merging.
<1>3. ASSUME NEW t \in Threads, NEW c \in Ctx, c \in Explicit => active[t] = c,
             stage[t] \notin Closing
      PROVE  ~ Merged(c)
  BY <1>1, <1>3 DEF Merged, ExclusiveInv, Holds, Closing, TypeOK
<1>4. ASSUME NEW c \in Explicit, DeadlinePasses(c) PROVE UNCHANGED Meter!meter
  <2>1. UNCHANGED <<global, built, used, recorded, accUsed, stage, work>>
    BY <1>4 DEF DeadlinePasses, ctxVars, accVars
  <2> QED BY <1>2, <2>1 DEF Total, Pending, Delta, Resetting
<1>5. ASSUME NEW t \in Threads, NEW c \in Explicit, Enter(t, c) PROVE UNCHANGED Meter!meter
  BY <1>2, <1>5, FrameImplements DEF Enter, Aside, Resetting
<1>6. ASSUME NEW t \in Threads, NEW n \in Cost, Deduct(t, n)
      PROVE  Meter!Charge \/ UNCHANGED Meter!meter
  <2>1. Aside(t) /\ UNCHANGED <<accVars, accLock>> /\ (Resetting' <=> Resetting)
        /\ UNCHANGED <<global, built>>
    BY <1>6 DEF Deduct, Return, HasRequired, Aside, TypeOK, Resetting
  <2>2. /\ Required(t) \in Ctx /\ (Required(t) \in Explicit => active[t] = Required(t))
        /\ stage[t] \notin Closing
    BY <1>6 DEF Deduct, HasRequired, Required, TypeOK, Closing
  <2>3. CASE UNCHANGED ctxVars
    BY <1>2, <2>1, <2>3, FrameImplements
  <2>4. CASE Affordable(Required(t), n) /\ Charge(Required(t), n)
    BY <1>3, <2>1, <2>2, <2>4, ChargeImplements
  <2> QED BY <1>6, <2>3, <2>4 DEF Deduct
<1>7. ASSUME NEW t \in Threads, BeginDeferred(t) PROVE UNCHANGED Meter!meter
  BY <1>2, <1>7, FrameImplements DEF BeginDeferred, HasRequired, Aside, TypeOK, Resetting
<1>8. ASSUME NEW t \in Threads, FinishUpfront(t) PROVE UNCHANGED Meter!meter
  BY <1>2, <1>8, FrameImplements DEF FinishUpfront, Return, Aside, TypeOK, Resetting
<1>9. ASSUME NEW t \in Threads, FinishDeferred(t)
      PROVE  Meter!Charge \/ UNCHANGED Meter!meter
  <2>1. Aside(t) /\ UNCHANGED <<accVars, accLock>> /\ (Resetting' <=> Resetting)
        /\ UNCHANGED <<global, built>>
    BY <1>9 DEF FinishDeferred, Return, Aside, TypeOK, Resetting
  <2>2. /\ work[t] \in Ctx /\ (work[t] \in Explicit => active[t] = work[t])
        /\ stage[t] \notin Closing
    BY <1>1, <1>9 DEF FinishDeferred, TypeOK, ThreadInv, Operating, Closing
  <2>3. CASE UNCHANGED ctxVars
    BY <1>2, <2>1, <2>3, FrameImplements
  <2>4. ASSUME NEW n \in Cost, Affordable(work[t], n), Charge(work[t], n)
        PROVE  Meter!Charge
    BY <1>3, <2>1, <2>2, <2>4, ChargeImplements
  <2> QED BY <1>9, <2>3, <2>4 DEF FinishDeferred
<1>10. ASSUME NEW t \in Threads, Exit(t) PROVE UNCHANGED Meter!meter
  BY <1>2, <1>10, FrameImplements DEF Exit, Aside, TypeOK, Resetting
<1>11. ASSUME NEW t \in Threads, Merge(t) PROVE UNCHANGED Meter!meter
  <2> DEFINE c == work[t]
  <2>1. /\ c \in Ctx /\ stage[t] = "exiting" /\ accLock = NoThread
        /\ used' = used /\ recorded' = recorded /\ work' = work /\ UNCHANGED <<global, built>>
        /\ accUsed' = [accUsed EXCEPT ![c] = @ + Delta(c)]
        /\ stage' = [stage EXCEPT ![t] = "merged"]
    BY <1>11 DEF Merge, ctxVars, TypeOK, Closing
  <2>2. \A d \in Ctx : ~ Merged(d) /\ (Merged(d)' <=> d = c)
    BY <1>1, <2>1 DEF Merged, LockOwned, TypeOK
  <2>3. \A d \in Ctx : Delta(d)' = Delta(d)
    BY <2>1 DEF Delta
  <2> HIDE DEF c
  <2>4. ASSUME NEW d \in Ctx PROVE Total(d)' = Total(d)
    <3>1. Pending(d) = Delta(d) /\ Pending(d)' = IF d = c THEN 0 ELSE Delta(d)
      BY <2>2, <2>3, PendingCases
    <3>2. accUsed'[d] = IF d = c THEN accUsed[d] + Delta(d) ELSE accUsed[d]
      BY <2>1 DEF TypeOK
    <3>3. Delta(d) \in Nat /\ accUsed[d] \in Nat
      BY TotalIsNat DEF TypeOK
    <3> QED BY <3>1, <3>2, <3>3 DEF Total
  <2>5. Resetting' <=> Resetting
    BY <2>1 DEF Resetting, TypeOK
  <2> QED BY <1>2, <2>1, <2>4, <2>5
<1>12. ASSUME NEW t \in Threads, Commit(t) \/ CommitClose(t) PROVE UNCHANGED Meter!meter
  <2> DEFINE c == work[t]
  <2>1. /\ c \in Ctx /\ stage[t] \in {"merged", "marked"}
        /\ used' = used /\ recorded' = [recorded EXCEPT ![c] = used[c]] /\ accUsed' = accUsed
        /\ stage'[t] \in {"marked", "idle"} /\ UNCHANGED <<global, built>>
        /\ \A u \in Threads \ {t} : stage'[u] = stage[u] /\ work'[u] = work[u]
    BY <1>12 DEF Commit, CommitClose, MarkRecorded, Return, accVars, TypeOK, Closing
  <2>2. \A u \in Threads \ {t} : stage[u] \notin {"merged", "marked"}
    BY <1>1, <2>1 DEF LockOwned
  <2>3. /\ \A d \in Ctx : ~ Merged(d)'
        /\ \A d \in Ctx : Merged(d) => d = c /\ stage[t] = "merged"
        /\ stage[t] = "merged" => Merged(c)
    BY <2>1, <2>2 DEF Merged
  <2>4. stage[t] = "marked" => used[c] = recorded[c]
    BY <1>1 DEF ExclusiveInv
  <2> HIDE DEF c
  <2>5. ASSUME NEW d \in Ctx PROVE Pending(d)' = Pending(d)
    <3>1. CASE d = c
      <4>1. Delta(d)' = 0 /\ (stage[t] = "marked" => Delta(d) = 0)
        BY <2>1, <2>4, <3>1 DEF Delta, TypeOK
      <4> QED BY <2>1, <2>3, <3>1, <4>1, PendingCases
    <3>2. CASE d # c
      <4>1. Delta(d)' = Delta(d)
        BY <2>1, <3>2 DEF Delta, TypeOK
      <4> QED BY <2>3, <3>2, <4>1, PendingCases
    <3> QED BY <3>1, <3>2
  <2>6. Resetting' <=> Resetting
    BY <2>1 DEF Resetting
  <2> QED BY <1>2, <2>1, <2>5, <2>6 DEF Total
\* What a call of budget_reset(), or its return, has to show.
<1>20. ASSUME used' = used, \A d \in Ctx : Total(d)' = Total(d), UNCHANGED <<global, built>>
       PROVE  UNCHANGED <<used, Without(Orphaned), Orphaned>>
  <2>1. UNCHANGED Orphaned
    BY <1>20 DEF Orphaned
  <2>2. UNCHANGED Without(Orphaned)
    BY <1>20, <2>1 DEF Without
  <2> QED BY <1>20, <2>1, <2>2
<1>13. ASSUME NEW t \in Threads, CallReset(t) PROVE Meter!BeginReset
  <2>1. ~ Resetting /\ Resetting' /\ Aside(t) /\ UNCHANGED <<ctxVars, accVars, global, built>>
    BY <1>13 DEF CallReset, Resetting, Aside, TypeOK
  <2>2. used' = used /\ \A d \in Ctx : Total(d)' = Total(d)
    BY <2>1, FrameImplements
  <2>3. Resetting' = TRUE
    BY <2>1 DEF Resetting
  <2> QED BY <1>20, <2>1, <2>2, <2>3 DEF Meter!BeginReset
\* A running reset only lowers the parts of the session total.
<1>14. ASSUME Resetting, Resetting', used' = used, \A d \in Ctx : Total(d)' <= Total(d),
              UNCHANGED <<global, built>>
       PROVE  Meter!Forget
  <2>1. ASSUME NEW d \in Ctx PROVE Total(d)' \in Nat
    <3>1. accUsed'[d] \in Nat /\ used'[d] \in Nat /\ recorded'[d] \in Nat
      BY DEF TypeOK
    <3>2. Delta(d)' \in Nat
      BY <3>1 DEF Delta
    <3>3. Pending(d)' \in Nat
      BY <3>2, PendingCases
    <3> QED BY <3>1, <3>3 DEF Total
  <2>2. UNCHANGED Resetting
    BY <1>14 DEF Resetting
  <2>3. UNCHANGED Orphaned
    BY <1>14 DEF Orphaned
  <2>4. Without(Orphaned)' \in [Ctx -> Nat]
    BY <2>1 DEF Without
  <2>5. \A d \in Ctx : Without(Orphaned)'[d] <= Without(Orphaned)[d]
    BY <1>14, <2>3 DEF Without
  <2> QED BY <1>14, <2>2, <2>3, <2>4, <2>5 DEF Meter!Forget
<1>15. ASSUME NEW t \in Threads, ClearAccumulator(t) PROVE Meter!Forget
  <2>1. /\ used' = used /\ recorded' = recorded /\ accUsed' = [d \in Ctx |-> 0]
        /\ Aside(t) /\ Resetting /\ Resetting' /\ UNCHANGED <<global, built>>
    BY <1>15 DEF ClearAccumulator, ctxVars, Aside, TypeOK, Resetting
  <2>2. ASSUME NEW d \in Ctx PROVE Total(d)' <= Total(d)
    <3>1. Delta(d)' = Delta(d) /\ (Merged(d)' <=> Merged(d))
      BY <2>1, AsideKeepsMergers DEF Delta
    <3>2. Pending(d)' = Pending(d)
      BY <3>1, PendingCases
    <3> QED BY <2>1, <3>2, TotalIsNat DEF Total, TypeOK
  <2> QED BY <1>14, <2>1, <2>2
<1>16. ASSUME NEW t \in Threads, NEW c \in Ctx, Baseline(t, c) PROVE Meter!Forget
  <2>1. /\ used' = used /\ recorded' = [recorded EXCEPT ![c] = used[c]] /\ accUsed' = accUsed
        /\ UNCHANGED <<stage, work, global, built>> /\ Resetting /\ Resetting'
    BY <1>16 DEF Baseline, accVars, Resetting
  <2>2. ASSUME NEW d \in Ctx PROVE Total(d)' <= Total(d)
    <3>1. Delta(d)' \in {0, Delta(d)} /\ (Merged(d)' <=> Merged(d))
      BY <2>1 DEF Delta, TypeOK, Merged
    <3>2. Pending(d)' \in {0, Pending(d)}
      BY <3>1, PendingCases
    <3> QED BY <2>1, <3>2, TotalIsNat DEF Total, TypeOK
  <2> QED BY <1>14, <2>1, <2>2
<1>17. ASSUME NEW t \in Threads, ResetReturns(t) PROVE Meter!EndReset
  <2>1. Resetting /\ Aside(t) /\ UNCHANGED <<ctxVars, accVars, global, built>>
    BY <1>17 DEF ResetReturns, Return, Resetting, Aside, TypeOK
  <2>2. ~ Resetting'
    BY <1>1, <1>17 DEF ResetReturns, Return, Resetting, ThreadInv, TypeOK
  <2>3. used' = used /\ \A d \in Ctx : Total(d)' = Total(d)
    BY <2>1, FrameImplements
  <2>4. Resetting' = FALSE
    BY <2>2 DEF Resetting
  <2> QED BY <1>20, <2>1, <2>3, <2>4 DEF Meter!EndReset
<1>18. CASE UNCHANGED vars
  <2>1. UNCHANGED <<global, built, used, recorded, accUsed, stage, work>>
    BY <1>18 DEF vars
  <2> QED BY <1>2, <2>1 DEF Total, Pending, Delta, Resetting
<1>19. ASSUME NEW t \in Threads, RequireBudget(t) \/ AdoptDefault(t) \/ ReturnDefault(t)
       PROVE  UNCHANGED Meter!meter
  <2>1. Aside(t) /\ UNCHANGED <<ctxVars, accVars, global, built>> /\ (Resetting' <=> Resetting)
    BY <1>19 DEF RequireBudget, AdoptDefault, ReturnDefault, Aside, TypeOK, Resetting
  <2> QED BY <1>2, <2>1, FrameImplements
\* A default that replaces another one disowns it; the first one replaces none.
<1>21. ASSUME NEW t \in Threads, CreateDefault(t)
       PROVE  Meter!Disown \/ UNCHANGED Meter!meter
  <2>1. PICK d \in Defaults \ built : global' = d /\ built' = built \cup {d}
    BY <1>21 DEF CreateDefault
  <2>2. Aside(t) /\ UNCHANGED <<ctxVars, accVars>> /\ (Resetting' <=> Resetting)
    BY <1>21 DEF CreateDefault, Aside, TypeOK, Resetting
  <2>3. used' = used /\ \A c \in Ctx : Total(c)' = Total(c)
    BY <2>2, FrameImplements
  <2>4. UNCHANGED Resetting
    BY <2>2 DEF Resetting
  <2>5. global \in built \cup {NoCtx} /\ global # d
    BY <2>1 DEF OrderlyInv, DefaultInv
  <2>6. Total(d) = 0
    <3>1. used[d] = 0 /\ Total(d) <= used[d]
      BY <2>1 DEF OrderlyInv, DefaultInv, LedgerInv, NeverDoubleCounted
    <3> QED BY <2>1, <3>1, TotalIsNat
  <2>7. CASE global = NoCtx
    <3>1. Orphaned' = Orphaned
      BY <2>1, <2>7 DEF Orphaned, TypeOK
    <3>2. UNCHANGED Without(Orphaned)
      BY <2>3, <3>1 DEF Without
    <3> QED BY <2>3, <2>4, <3>1, <3>2 DEF Meter!meter
  <2>8. CASE global # NoCtx
    <3>1. global \in Defaults \ Orphaned /\ Orphaned' = Orphaned \cup {global}
      BY <2>1, <2>5, <2>8 DEF Orphaned, TypeOK
    <3>2. Without(Orphaned)' = [Without(Orphaned) EXCEPT ![global] = 0]
      <4>1. \A c \in Ctx : Without(Orphaned)'[c] = IF c \in Orphaned' THEN 0 ELSE Total(c)'
        BY DEF Without
      <4>2. \A c \in Ctx : Without(Orphaned)[c] = IF c \in Orphaned THEN 0 ELSE Total(c)
        BY DEF Without
      <4>3. /\ Without(Orphaned)' = [c \in Ctx |-> Without(Orphaned)'[c]]
            /\ Without(Orphaned) = [c \in Ctx |-> Without(Orphaned)[c]]
        BY DEF Without
      <4> QED BY <2>3, <3>1, <4>1, <4>2, <4>3
    <3> QED BY <2>3, <2>4, <3>1, <3>2 DEF Meter!Disown
  <2> QED BY <2>7, <2>8
<1> QED
  BY <1>4, <1>5, <1>6, <1>7, <1>8, <1>9, <1>10, <1>11, <1>12, <1>13, <1>15, <1>16,
     <1>17, <1>18, <1>19, <1>21 DEF Next, Meter!Next

\* Closing a context moves FLOPs between its counter and the accumulator without losing
\* or repeating one, in any orderly program: whatever the interleaving of the threads'
\* closes, the ledger is the meter a user of budgets relies on, and what that meter loses
\* beside a reset is what was charged to a default another thread replaced.
THEOREM LedgerImplementsMeter == Spec => MeterSpec
<1>1. Init => (Orderly => Meter!Init)
  <2> SUFFICES ASSUME Init PROVE Meter!Init
    OBVIOUS
  <2>1. \A c \in Ctx : Total(c) = 0
    BY DEF Init, Total, Pending, Delta
  <2>2. Resetting = FALSE
    BY DEF Init, Resetting
  <2>3. Orphaned = {}
    BY DEF Init, Orphaned
  <2>4. Without(Orphaned) = [c \in Ctx |-> 0]
    BY <2>1, <2>3 DEF Without
  <2> QED BY <2>2, <2>3, <2>4 DEF Init, Meter!Init
<1>2. /\ TypeOK /\ LedgerInv /\ OrderlyInv /\ (TypeOK /\ LedgerInv /\ OrderlyInv)' /\ [Next]_vars
      => [Orderly => Meter!Next]_(Meter!meter)
  BY MeterStep
<1> QED BY <1>1, <1>2, LedgerOrderly, PTL DEF Spec, MeterSpec
=============================================================================
