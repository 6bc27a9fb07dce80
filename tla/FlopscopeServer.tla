-------------------------- MODULE FlopscopeServer ---------------------------
(***************************************************************************)
(* The compute server (src/flopscope-server/src/flopscope_server): one     *)
(* budget session at a time, and a store of array handles that outlives    *)
(* the sessions.  The REP loop is single threaded, so the handling of one  *)
(* request is one step: Handle(req) relates a request, the server's   *)
(* state before and after it, and the reply.                               *)
(*                                                                         *)
(* The budget of a session is a context of BudgetLedger used by one        *)
(* thread: `used' is its _flops_used.  Arrays are their handles, with the  *)
(* ids of _alloc_handle ("a0", "a1", ...) as numbers.  Lifecycle requests  *)
(* are those of a client that passes _control_token_ok; encoding, timing   *)
(* and byte counts are left out.                                           *)
(***************************************************************************)
EXTENDS Naturals, FiniteSets

CONSTANTS
  FlopBudget,      \* flop_budget of every session
  MaxArrayCount,   \* MAX_ARRAY_COUNT
  Kernels,         \* the operations, see KernelAssumption
  None             \* an absent response, or field of one

(***************************************************************************)
(* An operation, as far as the protocol sees it: its cost, the handles     *)
(* _prospective_handle_count reserves for it, the arrays its result holds, *)
(* and whether _pack_result can deliver the result.  The table of          *)
(* reservations is incomplete on purpose: `arrays' may exceed `reserve'.   *)
(***************************************************************************)
ASSUME KernelAssumption ==
  Kernels \subseteq [cost : Nat, reserve : Nat, arrays : Nat, deliverable : BOOLEAN]
ASSUME ServerAssumption ==
  FlopBudget \in Nat \ {0} /\ MaxArrayCount \in Nat /\ None \notin Nat

VARIABLES
  session,      \* a session is open
  used,         \* FLOPs charged to the open session's context
  arrays,       \* handles in the ArrayStore
  nextHandle,   \* _next_handle_id
  response      \* the response sent last, None once it has left

serverVars == <<session, used, arrays, nextHandle>>

Request ==
  [op : {"hello", "budget_open", "budget_close", "budget_summary"}]
    \cup [op : {"free"}, ids : SUBSET Nat]
    \cup [op : {"fetch"}, id : Nat]
    \cup [op : {"compute"}, args : SUBSET Nat, kernel : Kernels]

Errors == {"NoBudgetContextError", "RuntimeError", "MemoryError", "KeyError",
           "BudgetExhaustedError", "UnsupportedReturnType"}

\* `budget' is the flops_used of a response that carries the budget as a dict,
\* `summary' the flops_used of a summary, `ids' the handles of the result.
Response ==
  [status : {"ok"} \cup Errors, budget : Nat \cup {None},
   summary : Nat \cup {None}, ids : SUBSET Nat]

ASSUME NoneAssumption == None \notin Response

Ok(budget, summary, ids) ==
  [status |-> "ok", budget |-> budget, summary |-> summary, ids |-> ids]

Error(type, budget) ==
  [status |-> type, budget |-> budget, summary |-> None, ids |-> {}]

ServerTypeOK ==
  /\ session \in BOOLEAN
  /\ used \in Nat
  /\ arrays \in SUBSET Nat
  /\ nextHandle \in Nat
  /\ response \in Response \cup {None}

ServerInit ==
  /\ session = FALSE
  /\ used = 0
  /\ arrays = {}
  /\ nextHandle = 0
  /\ response = None

-----------------------------------------------------------------------------
Refuse(type, budget) == response' = Error(type, budget) /\ UNCHANGED serverVars

Hello(req) ==
  /\ req.op = "hello"
  /\ response' = Ok(None, None, {})
  /\ UNCHANGED serverVars

BudgetOpen(req) ==
  /\ req.op = "budget_open"
  /\ \/ session /\ Refuse("RuntimeError", None)
     \/ /\ ~ session
        /\ session' = TRUE
        /\ used' = 0
        /\ response' = Ok(None, None, {})
        /\ UNCHANGED <<arrays, nextHandle>>

\* Mutant: the store belongs to the session.
CloseSessionClearsStore ==
  /\ session' = FALSE
  /\ used' = 0
  /\ arrays' = {}
  /\ UNCHANGED nextHandle

\* Session.close(): the context is recorded, the handle store is not cleared.
CloseSession ==
  /\ session' = FALSE
  /\ used' = 0
  /\ UNCHANGED <<arrays, nextHandle>>

BudgetClose(req) ==
  /\ req.op = "budget_close"
  /\ \/ ~ session /\ Refuse("NoBudgetContextError", None)
     \/ /\ session
        /\ CloseSession
        /\ response' = Ok(None, used, {})

\* A summary of the active context, the one a client's BudgetContext asks for.
BudgetSummary(req) ==
  /\ req.op = "budget_summary"
  /\ \/ ~ session /\ Refuse("NoBudgetContextError", None)
     \/ session /\ response' = Ok(used, used, {}) /\ UNCHANGED serverVars

-----------------------------------------------------------------------------
(***************************************************************************)
(* Requests that need a session, and are refused without one.              *)
(***************************************************************************)
NeedsSession(req) == req.op \in {"free", "fetch", "compute"}

NoSession(req) ==
  /\ NeedsSession(req)
  /\ ~ session
  /\ Refuse("NoBudgetContextError", None)

\* ArrayStore.free(): unknown handles are ignored.
Free(req) ==
  /\ req.op = "free"
  /\ session
  /\ arrays' = arrays \ req.ids
  /\ response' = Ok(None, None, {})
  /\ UNCHANGED <<session, used, nextHandle>>

Fetch(req) ==
  /\ req.op = "fetch"
  /\ session
  /\ response' = IF req.id \in arrays THEN Ok(None, None, {}) ELSE Error("KeyError", used)
  /\ UNCHANGED serverVars

\* Mutant: every operation is taken to need one slot.
GateOneSlot(kernel) == Cardinality(arrays) + 1 <= MaxArrayCount

\* Capacity, first layer: decided before the operation is dispatched.
GatePasses(kernel) == Cardinality(arrays) + kernel.reserve <= MaxArrayCount

\* Mutant: the second layer trusts the table of the first.
FitsReserved(kernel) == Cardinality(arrays) + kernel.reserve <= MaxArrayCount

\* Capacity, second layer: the exact count, before the first store.
Fits(kernel) == Cardinality(arrays) + kernel.arrays <= MaxArrayCount

Affordable(kernel) == used + kernel.cost <= FlopBudget

\* Why a request is refused before anything is charged, "ok" if it is not.  The
\* first reason that holds is the one reported.
Refusal(req) ==
  IF ~ GatePasses(req.kernel) THEN "MemoryError"
  ELSE IF ~ (req.args \subseteq arrays) THEN "KeyError"
  ELSE IF ~ Affordable(req.kernel) THEN "BudgetExhaustedError"
  ELSE "ok"

\* _alloc_handle(), as often as the result has arrays.
NewHandles(n) == nextHandle .. (nextHandle + n - 1)

\* Mutant: elements are stored until one does not fit.
RunStoresPartly(kernel) ==
  LET charged == used + kernel.cost
      room == MaxArrayCount - Cardinality(arrays)
      stored == IF kernel.arrays <= room THEN kernel.arrays ELSE room IN
  /\ used' = charged
  /\ UNCHANGED session
  /\ arrays' = arrays \cup NewHandles(stored)
  /\ nextHandle' = nextHandle + stored
  /\ response' = IF stored = kernel.arrays
                   THEN Ok(charged, None, NewHandles(stored))
                   ELSE Error("MemoryError", charged)

\* Mutant: an error is reported without the budget it was charged to.
RunFailsSilently(kernel) ==
  LET charged == used + kernel.cost
      delivered == kernel.deliverable /\ Fits(kernel) IN
  /\ used' = charged
  /\ UNCHANGED session
  /\ IF delivered
       THEN /\ arrays' = arrays \cup NewHandles(kernel.arrays)
            /\ nextHandle' = nextHandle + kernel.arrays
            /\ response' = Ok(charged, None, NewHandles(kernel.arrays))
       ELSE /\ UNCHANGED <<arrays, nextHandle>>
            /\ response' = Error("MemoryError", None)

(***************************************************************************)
(* _dispatch and _pack_result: the charge is made by the time the kernel   *)
(* ran; the result is checked as a whole, then stored as a whole.          *)
(***************************************************************************)
Run(kernel) ==
  LET charged == used + kernel.cost IN
  /\ used' = charged
  /\ UNCHANGED session
  /\ \/ /\ ~ kernel.deliverable
        /\ response' = Error("UnsupportedReturnType", charged)
        /\ UNCHANGED <<arrays, nextHandle>>
     \/ /\ kernel.deliverable
        /\ ~ Fits(kernel)
        /\ response' = Error("MemoryError", charged)
        /\ UNCHANGED <<arrays, nextHandle>>
     \/ /\ kernel.deliverable
        /\ Fits(kernel)
        /\ arrays' = arrays \cup NewHandles(kernel.arrays)
        /\ nextHandle' = nextHandle + kernel.arrays
        /\ response' = Ok(charged, None, NewHandles(kernel.arrays))

Compute(req) ==
  /\ req.op = "compute"
  /\ session
  /\ \/ Refusal(req) # "ok" /\ Refuse(Refusal(req), used)
     \/ Refusal(req) = "ok" /\ Run(req.kernel)

Handle(req) ==
  \/ Hello(req)
  \/ BudgetOpen(req)
  \/ BudgetClose(req)
  \/ BudgetSummary(req)
  \/ NoSession(req)
  \/ Free(req)
  \/ Fetch(req)
  \/ Compute(req)

\* Mutant: the context of the session is closed, the session is kept.
ReapContextOnly ==
  /\ session
  /\ used' = 0
  /\ UNCHANGED <<session, arrays, nextHandle>>

\* _reap_session_if_stale(), at a poll of the socket that found no request.
Reap == session /\ CloseSession
=============================================================================
