----------------------- MODULE FlopscopeServerProofs ------------------------
(***************************************************************************)
(* What the handling of one request does to the state of the server: the   *)
(* lemmas that the theorems about ServerRequests and RemoteSession share.  *)
(***************************************************************************)
EXTENDS FlopscopeServer, FiniteSetTheorems, TLAPS

USE KernelAssumption, ServerAssumption

\* Every handle in the store was minted, so the store is finite; it holds no
\* more than MAX_ARRAY_COUNT arrays.
StoreInv ==
  /\ IsFiniteSet(arrays)
  /\ \A h \in arrays : h < nextHandle
  /\ Cardinality(arrays) <= MaxArrayCount

\* _alloc_handle(): n new handles, which no array in the store has.
LEMMA NewHandlesAreNew ==
  ASSUME ServerTypeOK, StoreInv, NEW n \in Nat
  PROVE  /\ NewHandles(n) \in SUBSET Nat
         /\ \A h \in NewHandles(n) : nextHandle <= h /\ h < nextHandle + n
         /\ IsFiniteSet(arrays \cup NewHandles(n))
         /\ Cardinality(arrays \cup NewHandles(n)) = Cardinality(arrays) + n
<1>1. nextHandle \in Nat
  BY DEF ServerTypeOK
<1>2. /\ NewHandles(n) \in SUBSET Nat
      /\ \A h \in NewHandles(n) : nextHandle <= h /\ h < nextHandle + n
  BY <1>1 DEF NewHandles
<1>3. IsFiniteSet(NewHandles(n)) /\ Cardinality(NewHandles(n)) = n
  BY <1>1, FS_Interval DEF NewHandles
<1>4. arrays \cap NewHandles(n) = {}
  BY <1>1, <1>2 DEF StoreInv, ServerTypeOK
<1>5. IsFiniteSet(arrays) /\ Cardinality(arrays) \in Nat
  BY FS_CardinalityType DEF StoreInv
<1>6. Cardinality(arrays \cap NewHandles(n)) = 0
  BY <1>4, FS_EmptySet
<1>7. /\ IsFiniteSet(arrays \cup NewHandles(n))
      /\ Cardinality(arrays \cup NewHandles(n))
           = Cardinality(arrays) + Cardinality(NewHandles(n))
               - Cardinality(arrays \cap NewHandles(n))
  BY <1>3, <1>5, FS_Union
<1> QED BY <1>2, <1>3, <1>5, <1>6, <1>7

\* An operation that ran: its cost is charged and reported whatever became of
\* its result, which is stored and sent as a whole or not at all.
LEMMA RunOutcomes ==
  ASSUME ServerTypeOK, StoreInv, NEW kernel \in Kernels, Run(kernel)
  PROVE  /\ used' = used + kernel.cost /\ session' = session
         /\ response' \in Response
         /\ response'.budget = used' /\ response'.summary = None
         /\ \/ UNCHANGED <<arrays, nextHandle>> /\ response'.ids = {}
            \/ /\ Fits(kernel) /\ response'.status = "ok"
               /\ response'.ids = NewHandles(kernel.arrays)
               /\ arrays' = arrays \cup NewHandles(kernel.arrays)
               /\ nextHandle' = nextHandle + kernel.arrays
         /\ response'.status = "MemoryError" => ~ Fits(kernel)
<1>1. kernel.cost \in Nat /\ kernel.arrays \in Nat /\ used \in Nat
  BY DEF ServerTypeOK
<1>2. NewHandles(kernel.arrays) \in SUBSET Nat
  BY <1>1, NewHandlesAreNew
<1>3. CASE ~ kernel.deliverable
  BY <1>1, <1>3 DEF Run, Error, Response, Errors
<1>4. CASE kernel.deliverable /\ ~ Fits(kernel)
  BY <1>1, <1>4 DEF Run, Error, Response, Errors
<1>5. CASE kernel.deliverable /\ Fits(kernel)
  BY <1>1, <1>2, <1>5 DEF Run, Ok, Response
<1> QED BY <1>3, <1>4, <1>5

\* What a request may do: nothing but answer; open or close the session; free
\* handles; or run an operation.
LEMMA HandleOutcomes ==
  ASSUME ServerTypeOK, NEW req \in Request, Handle(req)
  PROVE  \/ /\ UNCHANGED serverVars
            /\ response' \in Response /\ response'.ids = {}
            /\ response'.budget \in {None, used} /\ response'.summary \in {None, used}
            /\ req.op \in {"budget_open", "budget_close"} => response'.status # "ok"
            /\ /\ req.op = "budget_summary" /\ response'.status = "ok"
               => response'.summary = used
         \/ /\ req.op = "budget_open" /\ ~ session /\ session' = TRUE /\ used' = 0
            /\ UNCHANGED <<arrays, nextHandle>> /\ response' = Ok(None, None, {})
         \/ /\ req.op = "budget_close" /\ session /\ session' = FALSE /\ used' = 0
            /\ UNCHANGED <<arrays, nextHandle>> /\ response' = Ok(None, used, {})
         \/ /\ req.op = "free" /\ arrays' = arrays \ req.ids
            /\ UNCHANGED <<session, used, nextHandle>> /\ response' = Ok(None, None, {})
         \/ /\ req.op = "compute" /\ session /\ Refusal(req) = "ok"
            /\ Run(req.kernel)
<1> USE DEF Ok, Error, Response, Errors, Refuse, ServerTypeOK
<1>1. CASE Hello(req)
  BY <1>1 DEF Hello
<1>2. CASE BudgetOpen(req)
  BY <1>2 DEF BudgetOpen
<1>3. CASE BudgetClose(req)
  BY <1>3 DEF BudgetClose, CloseSession
<1>4. CASE BudgetSummary(req)
  BY <1>4 DEF BudgetSummary
<1>5. CASE NoSession(req)
  BY <1>5 DEF NoSession
<1>6. CASE Free(req)
  BY <1>6 DEF Free
<1>7. CASE Fetch(req)
  BY <1>7 DEF Fetch
<1>8. CASE Compute(req)
  BY <1>8 DEF Compute, Refusal
<1> QED BY <1>1, <1>2, <1>3, <1>4, <1>5, <1>6, <1>7, <1>8 DEF Handle

\* The types of the server, and its store, after any request.
LEMMA HandleKeepsStore ==
  ASSUME ServerTypeOK, StoreInv, NEW req \in Request, Handle(req)
  PROVE  /\ ServerTypeOK' /\ response' \in Response
         /\ StoreInv'
         /\ nextHandle <= nextHandle'
         /\ \A h \in response'.ids : nextHandle <= h /\ h < nextHandle' /\ h \in arrays'
         /\ arrays' \subseteq arrays \cup response'.ids
         /\ \A h \in arrays \ arrays' : req.op = "free" /\ h \in req.ids
<1> USE DEF ServerTypeOK
<1>1. ASSUME NEW ids, (req.op = "free" /\ ids = req.ids) \/ ids = {},
             arrays' = arrays \ ids, UNCHANGED nextHandle, session' \in BOOLEAN,
             used' \in Nat, response' \in Response, response'.ids = {}
      PROVE  /\ ServerTypeOK' /\ StoreInv' /\ nextHandle <= nextHandle'
             /\ \A h \in response'.ids : nextHandle <= h /\ h < nextHandle' /\ h \in arrays'
             /\ arrays' \subseteq arrays \cup response'.ids
             /\ \A h \in arrays \ arrays' : req.op = "free" /\ h \in req.ids
  <2>1. IsFiniteSet(arrays \ ids) /\ Cardinality(arrays \ ids) <= Cardinality(arrays)
    BY FS_Subset DEF StoreInv
  <2>2. Cardinality(arrays \ ids) \in Nat /\ Cardinality(arrays) \in Nat
    BY <2>1, FS_CardinalityType DEF StoreInv
  <2>3. ServerTypeOK' /\ nextHandle <= nextHandle'
    <3>1. arrays' \in SUBSET Nat
      BY <1>1
    <3>2. nextHandle' \in Nat /\ nextHandle <= nextHandle'
      BY <1>1
    <3> QED BY <1>1, <3>1, <3>2
  <2>4. arrays' \subseteq arrays /\ \A h \in arrays \ arrays' : req.op = "free" /\ h \in req.ids
    BY <1>1
  <2>5. StoreInv'
    BY <1>1, <2>1, <2>2, <2>4 DEF StoreInv
  <2> QED BY <1>1, <2>3, <2>4, <2>5
<1>2. CASE req.op = "compute" /\ Run(req.kernel)
  <2> DEFINE n == req.kernel.arrays
  <2>1. req.kernel \in Kernels /\ n \in Nat /\ req.kernel.cost \in Nat
    BY <1>2 DEF Request
  <2>2. /\ used' = used + req.kernel.cost /\ session' = session
        /\ response' \in Response
        /\ \/ UNCHANGED <<arrays, nextHandle>> /\ response'.ids = {}
           \/ /\ Fits(req.kernel)
              /\ response'.ids = NewHandles(n)
              /\ arrays' = arrays \cup NewHandles(n)
              /\ nextHandle' = nextHandle + n
    BY <1>2, <2>1, RunOutcomes
  <2>3. CASE UNCHANGED <<arrays, nextHandle>> /\ response'.ids = {}
    BY <2>1, <2>2, <2>3 DEF StoreInv
  <2>4. CASE /\ Fits(req.kernel) /\ response'.ids = NewHandles(n)
             /\ arrays' = arrays \cup NewHandles(n)
             /\ nextHandle' = nextHandle + n
    <3>1. /\ NewHandles(n) \in SUBSET Nat
          /\ \A h \in NewHandles(n) : nextHandle <= h /\ h < nextHandle + n
          /\ IsFiniteSet(arrays') /\ Cardinality(arrays') = Cardinality(arrays) + n
      BY <2>1, <2>4, NewHandlesAreNew
    <3>2. nextHandle' \in Nat /\ nextHandle <= nextHandle' /\ arrays' \in SUBSET Nat
      <4> HIDE DEF n
      <4>1. nextHandle \in Nat /\ nextHandle' = nextHandle + n
        BY <2>4
      <4>2. arrays \in SUBSET Nat /\ arrays' = arrays \cup NewHandles(n)
        BY <2>4
      <4>3. n \in Nat
        BY <2>1
      <4>4. nextHandle' \in Nat /\ nextHandle <= nextHandle'
        BY <4>1, <4>3
      <4>5. NewHandles(n) \in SUBSET Nat
        BY <3>1
      <4>6. arrays' \in SUBSET Nat
        BY <4>2, <4>5
      <4> QED BY <4>4, <4>6
    <3>3. StoreInv'
      <4>1. \A h \in arrays' : h < nextHandle'
        BY <2>1, <2>4, <3>1 DEF StoreInv
      <4>2. Cardinality(arrays') <= MaxArrayCount
        BY <2>4, <3>1 DEF Fits
      <4> QED BY <3>1, <4>1, <4>2 DEF StoreInv
    <3>4. used' \in Nat /\ session' \in BOOLEAN
      BY <2>1, <2>2
    <3> HIDE DEF n
    <3> QED BY <2>2, <2>4, <3>1, <3>2, <3>3, <3>4
  <2> QED BY <2>2, <2>3, <2>4
<1>3. Ok(None, None, {}) \in Response /\ Ok(None, used, {}) \in Response
  BY DEF Ok, Response
<1>4. Ok(None, None, {}).ids = {} /\ Ok(None, used, {}).ids = {}
  BY DEF Ok
<1>5. CASE UNCHANGED <<arrays, nextHandle>> /\ response'.ids = {}
           /\ response' \in Response /\ session' \in BOOLEAN /\ used' \in Nat
  <2>1. arrays' = arrays \ {}
    BY <1>5
  <2> QED BY <1>1, <1>5, <2>1
<1>6. CASE /\ req.op = "free" /\ arrays' = arrays \ req.ids
           /\ UNCHANGED <<session, used, nextHandle>> /\ response' = Ok(None, None, {})
  BY <1>1, <1>3, <1>4, <1>6
<1>7. CASE UNCHANGED serverVars /\ response' \in Response /\ response'.ids = {}
  BY <1>5, <1>7 DEF serverVars
<1>8. CASE session' \in BOOLEAN /\ used' = 0 /\ UNCHANGED <<arrays, nextHandle>>
           /\ response' \in {Ok(None, None, {}), Ok(None, used, {})}
  BY <1>3, <1>4, <1>5, <1>8
<1>9. \/ UNCHANGED serverVars /\ response' \in Response /\ response'.ids = {}
      \/ /\ session' \in BOOLEAN /\ used' = 0 /\ UNCHANGED <<arrays, nextHandle>>
         /\ response' \in {Ok(None, None, {}), Ok(None, used, {})}
      \/ /\ req.op = "free" /\ arrays' = arrays \ req.ids
         /\ UNCHANGED <<session, used, nextHandle>> /\ response' = Ok(None, None, {})
      \/ req.op = "compute" /\ Run(req.kernel)
  BY HandleOutcomes
<1> QED BY <1>2, <1>6, <1>7, <1>8, <1>9
=============================================================================
