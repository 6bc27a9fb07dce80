------------------------ MODULE ServerRequestsProofs ------------------------
(***************************************************************************)
(* Theorems about ServerRequests, for every capacity, budget and table of  *)
(* operations, and whatever bounds a run puts on handles and FLOPs.        *)
(***************************************************************************)
EXTENDS ServerRequests, FlopscopeServerProofs

USE KernelAssumption, ServerAssumption

-----------------------------------------------------------------------------
(***************************************************************************)
(* Type correctness, and the store.                                        *)
(***************************************************************************)
\* The inductive invariant: the store is what was minted, delivered and not
\* freed, and every FLOP of the summary is in a session closed or open.
RequestInv == StoreInv /\ NoStranding /\ SummaryAccounts

\* The requests a client chooses from are requests the server can handle.
LEMMA RequestsWellFormed == Requests \subseteq Request
  BY DEF Requests, Request, Handles

\* A request keeps the types and the invariant.
LEMMA RespondKeeps ==
  ASSUME TypeOK, RequestInv, NEW req \in Requests, Respond(req)
  PROVE  TypeOK' /\ RequestInv'
<1>1. req \in Request
  BY RequestsWellFormed
<1>2. ServerTypeOK /\ StoreInv /\ Handle(req)
  BY DEF TypeOK, RequestInv, Respond
<1>3. /\ ServerTypeOK' /\ StoreInv' /\ response' \in Response
      /\ arrays' \subseteq arrays \cup response'.ids
  BY <1>1, <1>2, HandleKeepsStore
<1>4. NoStranding'
  BY <1>3 DEF Respond, RequestInv, NoStranding
<1>5. /\ session /\ session' => used' - used \in Nat
      /\ ~ session /\ session' => used' = 0
  <2>1. ASSUME req.op = "compute", session, Run(req.kernel)
        PROVE  used' - used \in Nat
    <3>1. req.kernel \in Kernels /\ used \in Nat
      BY <1>1, <1>2, <2>1 DEF Request, ServerTypeOK
    <3>2. req.kernel.cost \in Nat
      BY <3>1
    <3>3. used' = used + req.kernel.cost
      BY <1>2, <2>1, <3>1, RunOutcomes
    <3> QED BY <3>1, <3>2, <3>3
  <2>2. used' = used => used' - used \in Nat
    BY <1>2 DEF ServerTypeOK
  <2> QED BY <1>1, <1>2, <2>1, <2>2, HandleOutcomes DEF serverVars
<1>6. /\ past' = (IF session /\ ~ session' THEN past + used ELSE past)
      /\ spent' = (IF session /\ session' THEN spent + (used' - used) ELSE spent)
      /\ past \in Nat /\ spent \in Nat /\ used \in Nat /\ used' \in Nat
      /\ session \in BOOLEAN /\ session' \in BOOLEAN
  BY <1>3 DEF Respond, RecordClosed, TypeOK, ServerTypeOK
<1>7. SummaryAccounts' /\ past' \in Nat /\ spent' \in Nat
  <2>1. past + (IF session THEN used ELSE 0) = spent
    BY DEF RequestInv, SummaryAccounts
  <2> SUFFICES /\ past' + (IF session' THEN used' ELSE 0) = spent'
               /\ past' \in Nat /\ spent' \in Nat
    BY DEF SummaryAccounts
  <2>2. CASE session /\ session'
    <3>1. used' - used \in Nat
      BY <1>5, <2>2
    <3>2. past' = past /\ spent' = spent + (used' - used) /\ past + used = spent
      BY <1>6, <2>1, <2>2
    <3>3. past \in Nat /\ spent \in Nat /\ used \in Nat /\ used' \in Nat
      BY <1>6
    <3>4. past' \in Nat
      BY <3>2, <3>3
    <3>5. spent' \in Nat
      <4>1. PICK n \in Nat : used' - used = n
        BY <3>1
      <4>2. spent' = spent + n
        BY <3>2, <4>1
      <4> QED BY <3>3, <4>2
    <3>6. past' + used' = spent'
      BY <3>2, <3>3
    <3> QED BY <2>2, <3>4, <3>5, <3>6
  <2>3. CASE session /\ ~ session'
    BY <1>6, <2>1, <2>3
  <2>4. CASE ~ session /\ session'
    BY <1>5, <1>6, <2>1, <2>4
  <2>5. CASE ~ session /\ ~ session'
    BY <1>6, <2>1, <2>5
  <2> QED BY <2>2, <2>3, <2>4, <2>5
<1>8. asked' \in Request \cup {ResetRequest, None} /\ delivered' \in SUBSET Nat
  BY <1>1, <1>3 DEF Respond, TypeOK, Response
<1> QED BY <1>3, <1>4, <1>7, <1>8 DEF TypeOK, RequestInv

\* Requests, resets of the summary and idle polls keep both.
LEMMA RequestStep ==
  ASSUME TypeOK, RequestInv, [Next]_allVars
  PROVE  TypeOK' /\ RequestInv'
<1>1. ASSUME NEW req \in Requests, Respond(req)
      PROVE  TypeOK' /\ RequestInv'
  BY <1>1, RespondKeeps
<1>2. CASE BudgetSummaryReset
  <2>1. response' \in Response
    BY <1>2 DEF BudgetSummaryReset, Ok, Error, Response, Errors
  <2>2. /\ UNCHANGED <<serverVars, delivered>> /\ asked' = ResetRequest
        /\ \/ UNCHANGED <<past, spent>>
           \/ ~ session /\ past' = 0 /\ spent' = 0
    BY <1>2 DEF BudgetSummaryReset, Refuse
  <2>3. TypeOK'
    BY <2>1, <2>2 DEF TypeOK, ServerTypeOK, serverVars
  <2>4. StoreInv' /\ NoStranding'
    BY <2>2 DEF RequestInv, StoreInv, NoStranding, serverVars
  <2>5. SummaryAccounts'
    BY <2>2 DEF RequestInv, SummaryAccounts, serverVars
  <2> QED BY <2>3, <2>4, <2>5 DEF RequestInv
<1>3. CASE IdlePoll
  <2>1. /\ session /\ ~ session' /\ session' \in BOOLEAN /\ used' = 0
        /\ past' = past + used /\ asked' = None /\ response' = None
        /\ UNCHANGED <<arrays, nextHandle, delivered, spent>>
    BY <1>3 DEF IdlePoll, Reap, CloseSession, RecordClosed
  <2>2. TypeOK'
    BY <2>1 DEF TypeOK, ServerTypeOK
  <2>3. StoreInv' /\ NoStranding' /\ SummaryAccounts'
    BY <2>1 DEF RequestInv, StoreInv, NoStranding, SummaryAccounts
  <2> QED BY <2>2, <2>3 DEF RequestInv
<1>4. CASE UNCHANGED allVars
  BY <1>4 DEF allVars, serverVars, requestVars, TypeOK, ServerTypeOK, RequestInv,
              StoreInv, NoStranding, SummaryAccounts
<1> QED BY <1>1, <1>2, <1>3, <1>4 DEF Next

\* The server starts without a session and with an empty store.
LEMMA RequestInitially == Init => TypeOK /\ RequestInv
<1> SUFFICES ASSUME Init PROVE TypeOK /\ RequestInv
  OBVIOUS
<1>1. TypeOK
  BY DEF Init, ServerInit, TypeOK, ServerTypeOK
<1>2. StoreInv
  BY FS_EmptySet DEF Init, ServerInit, StoreInv
<1>3. NoStranding /\ SummaryAccounts
  BY DEF Init, ServerInit, NoStranding, SummaryAccounts
<1> QED BY <1>1, <1>2, <1>3 DEF RequestInv

\* Types and the inductive invariant, of every state.
LEMMA RequestInvariant == Spec => [](TypeOK /\ RequestInv)
<1>1. TypeOK /\ RequestInv /\ [Next]_allVars => (TypeOK /\ RequestInv)'
  BY RequestStep
<1> QED BY <1>1, RequestInitially, PTL DEF Spec

\* Every variable of the server keeps its type, whatever is requested.
THEOREM ServerTypes == Spec => []TypeOK
  BY RequestInvariant, PTL

\* MAX_ARRAY_COUNT bounds the store although results may hold more arrays than
\* the table of reservations says.
THEOREM ServerStoreBounded == Spec => []StoreBounded
<1>1. RequestInv => StoreBounded
  BY DEF RequestInv, StoreInv, StoreBounded
<1> QED BY <1>1, RequestInvariant, PTL

\* No array is in the store whose handle was not sent to the client.
THEOREM ServerStrandsNothing == Spec => []NoStranding
<1>1. RequestInv => NoStranding
  BY DEF RequestInv
<1> QED BY <1>1, RequestInvariant, PTL

\* The session summary accounts for every FLOP charged since it was reset.
THEOREM ServerSummaryAccounts == Spec => []SummaryAccounts
<1>1. RequestInv => SummaryAccounts
  BY DEF RequestInv
<1> QED BY <1>1, RequestInvariant, PTL

-----------------------------------------------------------------------------
(***************************************************************************)
(* What a response says of the charge.                                     *)
(***************************************************************************)
\* A charge is reported by the response of the request that was charged, also
\* when the request failed.
THEOREM ServerReportsCharges == Spec => ChargesReported
<1>1. ASSUME TypeOK, RequestInv, [Next]_allVars
      PROVE  [session /\ session' /\ used' # used => response'.budget = used']_allVars
  <2> SUFFICES ASSUME session, session', used' # used
               PROVE  response'.budget = used'
    OBVIOUS
  <2>1. PICK req \in Requests : Respond(req)
    BY <1>1 DEF Next, BudgetSummaryReset, IdlePoll, Reap, CloseSession, allVars,
                serverVars
  <2>2. req \in Request /\ ServerTypeOK /\ StoreInv /\ Handle(req)
    BY <1>1, <2>1, RequestsWellFormed DEF Respond, TypeOK, RequestInv
  <2>3. req.op = "compute" /\ Run(req.kernel)
    BY <2>2, HandleOutcomes DEF serverVars
  <2>4. req.kernel \in Kernels
    BY <2>2, <2>3 DEF Request
  <2> QED BY <2>2, <2>3, <2>4, RunOutcomes
<1> QED BY <1>1, RequestInvariant, PTL DEF Spec, ChargesReported

\* Where the table of reservations is right, a full store refuses before the
\* operation is dispatched, and nothing is charged.
THEOREM ServerRefusesBeforeCharge == Spec => ReservedRefusalIsFree
<1> DEFINE Costless == /\ asked' # None
                       /\ asked'.op = "compute"
                       /\ asked'.kernel.arrays <= asked'.kernel.reserve
                       /\ response'.status = "MemoryError"
                       => used' = used
<1>1. ASSUME TypeOK, RequestInv, [Next]_allVars
      PROVE  [Costless]_<<asked, response, used>>
  <2> SUFFICES ASSUME used' # used, asked' # None, asked'.op = "compute",
                      asked'.kernel.arrays <= asked'.kernel.reserve,
                      response'.status = "MemoryError"
               PROVE  FALSE
    OBVIOUS
  <2>1. PICK req \in Requests : Respond(req)
    BY <1>1 DEF Next, BudgetSummaryReset, IdlePoll, allVars, serverVars
  <2>2. /\ req \in Request /\ ServerTypeOK /\ StoreInv /\ Handle(req)
        /\ asked' = req
    BY <1>1, <2>1, RequestsWellFormed DEF Respond, TypeOK, RequestInv
  <2>3. Refusal(req) = "ok" /\ Run(req.kernel)
    BY <2>2, HandleOutcomes DEF serverVars
  <2>4. req.kernel \in Kernels
    BY <2>2 DEF Request
  <2>5. /\ req.kernel.arrays \in Nat /\ req.kernel.reserve \in Nat
        /\ Cardinality(arrays) \in Nat
    BY <2>2, <2>4, FS_CardinalityType DEF StoreInv
  <2>6. GatePasses(req.kernel)
    BY <2>3 DEF Refusal
  <2>7. ~ Fits(req.kernel)
    BY <2>2, <2>3, <2>4, RunOutcomes
  <2>8. req.kernel.arrays <= req.kernel.reserve
    BY <2>2
  <2> QED BY <2>5, <2>6, <2>7, <2>8 DEF GatePasses, Fits
<1> QED BY <1>1, RequestInvariant, PTL DEF Spec, ReservedRefusalIsFree
=============================================================================
