--------------------------- MODULE ServerRequests ---------------------------
(***************************************************************************)
(* The compute server under every sequence of requests and idle polls,     *)
(* whoever sends them, with the accumulator of the library it runs on: the *)
(* FLOPs of a session reach the session summary when it is closed or       *)
(* reaped, and budget_summary_reset clears it between sessions.            *)
(***************************************************************************)
EXTENDS FlopscopeServer

CONSTANTS
  MaxHandles,   \* bound on the handles a run mints
  MaxPast       \* bound on the FLOPs of closed sessions

VARIABLES
  past,        \* FLOPs the accumulator holds of closed sessions
  asked,       \* the last request
  delivered,   \* history: handles a response has carried
  spent        \* history: FLOPs charged since the last budget_summary_reset

requestVars == <<past, asked, delivered, spent>>
allVars == <<serverVars, response, requestVars>>

ResetRequest == [op |-> "budget_summary_reset"]

TypeOK ==
  /\ ServerTypeOK
  /\ past \in Nat
  /\ asked \in Request \cup {ResetRequest, None}
  /\ delivered \in SUBSET Nat
  /\ spent \in Nat

Init ==
  /\ ServerInit
  /\ past = 0
  /\ asked = None
  /\ delivered = {}
  /\ spent = 0

\* Mutant: the counter of the context is read after it was cleared.
RecordAfterClear ==
  past' = IF session /\ ~ session' THEN past + (used' - used) ELSE past

\* What the accumulator records of a step: the context of a session that ends.
RecordClosed == past' = IF session /\ ~ session' THEN past + used ELSE past

Respond(req) ==
  /\ Handle(req)
  /\ asked' = req
  /\ delivered' = delivered \cup response'.ids
  /\ spent' = IF session /\ session' THEN spent + (used' - used) ELSE spent
  /\ RecordClosed

\* Mutant: history is cleared while a session is open.
ResetAnytime ==
  /\ asked' = ResetRequest
  /\ UNCHANGED <<serverVars, delivered>>
  /\ response' = Ok(None, None, {})
  /\ past' = 0
  /\ spent' = 0

\* Refused while a session is open: a summary never loses part of a session.
BudgetSummaryReset ==
  /\ asked' = ResetRequest
  /\ UNCHANGED <<serverVars, delivered>>
  /\ \/ session /\ response' = Error("RuntimeError", None) /\ UNCHANGED <<past, spent>>
     \/ ~ session /\ response' = Ok(None, None, {}) /\ past' = 0 /\ spent' = 0

IdlePoll ==
  /\ Reap
  /\ RecordClosed
  /\ asked' = None
  /\ response' = None
  /\ UNCHANGED <<delivered, spent>>

\* The requests of a run: at most MaxHandles handles are minted, and no session
\* is opened once the closed ones may have spent MaxPast.
Bounded(req) ==
  /\ req.op = "compute" => nextHandle + req.kernel.arrays <= MaxHandles
  /\ req.op = "budget_open" => past + FlopBudget <= MaxPast

Handles == 0 .. MaxHandles

Requests ==
  [op : {"hello", "budget_open", "budget_close", "budget_summary"}]
    \cup [op : {"free"}, ids : SUBSET Handles]
    \cup [op : {"fetch"}, id : Handles]
    \cup [op : {"compute"}, args : {{}} \cup {{h} : h \in Handles}, kernel : Kernels]

Next ==
  \/ \E req \in Requests : Bounded(req) /\ Respond(req)
  \/ BudgetSummaryReset
  \/ IdlePoll

Spec == Init /\ [][Next]_allVars

-----------------------------------------------------------------------------
\* The store never holds more than MAX_ARRAY_COUNT arrays, although a result
\* may hold more arrays than were reserved for it before it was computed.
StoreBounded == Cardinality(arrays) <= MaxArrayCount

\* Every handle in the store was sent to the client, which alone can free it:
\* a refused result is refused as a whole.
NoStranding == arrays \subseteq delivered

\* No charge goes unreported: a response to a request that was charged for
\* carries the count after the charge, also when it reports an error.
ChargesReported ==
  [][session /\ session' /\ used' # used => response'.budget = used']_allVars

\* For an operation whose result has at most the arrays reserved for it, a full
\* store is a refusal before dispatch, which costs nothing.
ReservedRefusalIsFree ==
  [][/\ asked' # None
     /\ asked'.op = "compute"
     /\ asked'.kernel.arrays <= asked'.kernel.reserve
     /\ response'.status = "MemoryError"
     => used' = used]_<<asked, response, used>>

\* The summary of the server accounts for every FLOP charged since it was last
\* reset, whether sessions were closed or reaped.
SummaryAccounts == past + (IF session THEN used ELSE 0) = spent
=============================================================================
