--------------------------- MODULE RemoteSession ----------------------------
(***************************************************************************)
(* A participant process and its compute server, joined by a REQ/REP pair  *)
(* of sockets: BudgetContexts opened and closed remotely, proxies of       *)
(* server-side arrays that are freed when they are garbage collected, and  *)
(* every request exposed to the client's receive timeout                   *)
(* (src/flopscope-client/src/flopscope: _connection, _handles, _budget,    *)
(* _remote_array).                                                         *)
(*                                                                         *)
(* One step is one call of a socket or one section of Python code between  *)
(* two of them; finalizers run between any two steps.  A client that timed *)
(* out throws its socket away, so sockets are numbered, a response to an   *)
(* old one is dropped, and an old request may still reach the server       *)
(* later.  Timeouts are bounded by MaxTimeouts, handles by MaxHandles.     *)
(***************************************************************************)
EXTENDS FlopscopeServer, FiniteSetsExt

CONSTANTS
  Contexts,      \* BudgetContext objects of the participant
  MaxTimeouts,   \* bound on receive timeouts of a run
  MaxHandles,    \* bound on the handles a run mints
  Reaping,       \* the server may find the session idle for too long
  Ordered        \* no request overtakes one sent on an older socket

ASSUME ClientAssumption ==
  /\ None \notin Contexts
  /\ MaxTimeouts \in Nat /\ MaxHandles \in Nat
  /\ Reaping \in BOOLEAN /\ Ordered \in BOOLEAN

VARIABLES
  active,      \* _active_context
  opened,      \* contexts whose _is_open is set
  cached,      \* ctx._flops_used
  proxies,     \* handles of the RemoteArrays alive
  pending,     \* _handles._pending
  phase,       \* where send_recv is
  call,        \* the call being made, None if there is none
  frees,       \* handles _flush_pending_frees took from pending
  resume,      \* where to go on once the handshake is done
  socket,      \* number of the client's socket: timeouts so far
  handshaked,  \* _handshake_done
  inbox,       \* requests on their way to the server, with their socket
  sender,      \* socket of the request the server answered last
  reaped       \* the server has reaped a session (history)

budgetVars == <<active, opened, cached>>
handleVars == <<proxies, pending>>
callVars == <<phase, call, frees, resume>>
socketVars == <<socket, handshaked>>
networkVars == <<inbox, sender>>
serverAll == <<serverVars, response, reaped>>
vars == <<budgetVars, handleVars, callVars, socketVars, networkVars, serverAll>>

Phase == {"idle", "capability", "drain", "clear", "flush", "freeing",
          "send", "hello", "waiting"}

\* A call of the library: the request it encodes, and the context it is for.
Call == [req : Request, ctx : Contexts \cup {None}]

Sockets == 0 .. MaxTimeouts

TypeOK ==
  /\ ServerTypeOK
  /\ active \in Contexts \cup {None}
  /\ opened \in SUBSET Contexts
  /\ cached \in [Contexts -> Nat]
  /\ proxies \in SUBSET Nat
  /\ pending \in SUBSET Nat
  /\ phase \in Phase
  /\ call \in Call \cup {None}
  /\ frees \in SUBSET Nat
  /\ resume \in Phase
  /\ socket \in Sockets
  /\ handshaked \in BOOLEAN
  /\ inbox \in SUBSET [from : Sockets, req : Request]
  /\ sender \in Sockets
  /\ reaped \in BOOLEAN

Init ==
  /\ ServerInit
  /\ active = None
  /\ opened = {}
  /\ cached = [c \in Contexts |-> 0]
  /\ proxies = {}
  /\ pending = {}
  /\ phase = "idle"
  /\ call = None
  /\ frees = {}
  /\ resume = "idle"
  /\ socket = 0
  /\ handshaked = FALSE
  /\ inbox = {}
  /\ sender = 0
  /\ reaped = FALSE

-----------------------------------------------------------------------------
(***************************************************************************)
(* The calls a program makes.                                              *)
(***************************************************************************)
Begin(req, ctx, first) ==
  /\ phase = "idle"
  /\ call' = [req |-> req, ctx |-> ctx]
  /\ phase' = first
  /\ UNCHANGED <<budgetVars, handleVars, frees, resume, socketVars, networkVars,
                 serverAll>>

\* BudgetContext.__enter__ refuses nesting before it sends anything.
Enter(c) ==
  /\ active = None
  /\ Begin([op |-> "budget_open"], c, "drain")

\* BudgetContext.__exit__ of the active context; it stays active on an error,
\* so the call can be made again.
Exit(c) ==
  /\ c \in opened
  /\ Begin([op |-> "budget_close"], c, "drain")

\* summary_dict() of an open context checks the server's capability first.
Summary(c) ==
  /\ c \in opened
  /\ Begin([op |-> "budget_summary"], c, "capability")

Minted(m) == IF m.req.op = "compute" THEN m.req.kernel.arrays ELSE 0

\* Handles that requests sent earlier may still mint.
Coming == MapThenSumSet(Minted, inbox)

\* An operation on live proxies, with or without an active context.
Operate(args, kernel) ==
  /\ args \subseteq proxies
  /\ nextHandle + Coming + kernel.arrays <= MaxHandles
  /\ Begin([op |-> "compute", args |-> args, kernel |-> kernel], None, "drain")

\* tolist(), repr(): the data of a live proxy.
Read(h) ==
  /\ h \in proxies
  /\ Begin([op |-> "fetch", id |-> h], None, "drain")

\* Handles of proxies a call in progress refers to.
InUse ==
  IF call = None THEN {}
  ELSE IF call.req.op = "compute" THEN call.req.args
  ELSE IF call.req.op = "fetch" THEN {call.req.id}
  ELSE {}

\* A proxy is collected: weakref.finalize runs enqueue_free, at any moment.
Finalize(h) ==
  /\ h \in proxies \ InUse
  /\ proxies' = proxies \ {h}
  /\ pending' = pending \cup {h}
  /\ UNCHANGED <<budgetVars, callVars, socketVars, networkVars, serverAll>>

-----------------------------------------------------------------------------
(***************************************************************************)
(* Connection.send_recv.                                                   *)
(***************************************************************************)
Goto(next) == phase' = next

\* require_capability(), once the handshake is done.
CapabilityKnown ==
  /\ phase = "capability"
  /\ handshaked
  /\ Goto("drain")
  /\ UNCHANGED <<budgetVars, handleVars, call, frees, resume, socketVars,
                 networkVars, serverAll>>

\* drain_pending(): the queue is copied ...
CopyPending ==
  /\ phase = "drain"
  /\ frees' = pending
  /\ Goto(IF pending = {} THEN "send" ELSE "clear")
  /\ UNCHANGED <<budgetVars, handleVars, call, resume, socketVars, networkVars,
                 serverAll>>

\* ... and cleared.
ClearPending ==
  /\ phase = "clear"
  /\ pending' = {}
  /\ Goto("flush")
  /\ UNCHANGED <<budgetVars, proxies, call, frees, resume, socketVars,
                 networkVars, serverAll>>

Send(req) == inbox' = inbox \cup {[from |-> socket, req |-> req]}

\* _ensure_handshaked(): a hello before the first request of a socket.
SendHello ==
  /\ phase \in {"capability", "flush", "send"}
  /\ ~ handshaked
  /\ Send([op |-> "hello"])
  /\ resume' = phase
  /\ Goto("hello")
  /\ UNCHANGED <<budgetVars, handleVars, call, frees, socketVars, sender,
                 serverAll>>

SendFree ==
  /\ phase = "flush"
  /\ handshaked
  /\ Send([op |-> "free", ids |-> frees])
  /\ Goto("freeing")
  /\ UNCHANGED <<budgetVars, handleVars, call, frees, resume, socketVars,
                 sender, serverAll>>

SendRequest ==
  /\ phase = "send"
  /\ handshaked
  /\ Send(call.req)
  /\ Goto("waiting")
  /\ UNCHANGED <<budgetVars, handleVars, call, frees, resume, socketVars,
                 sender, serverAll>>

\* recv() of the response to the request sent last on the current socket.
Receive ==
  /\ response # None
  /\ sender = socket
  /\ response' = None
  /\ UNCHANGED <<serverVars, reaped, socket, networkVars>>

\* Mutant: the handshake is not remembered.
ReceiveHelloForgets ==
  /\ phase = "hello"
  /\ Receive
  /\ Goto(resume)
  /\ UNCHANGED <<budgetVars, handleVars, call, frees, resume, handshaked>>

ReceiveHello ==
  /\ phase = "hello"
  /\ Receive
  /\ handshaked' = TRUE
  /\ Goto(resume)
  /\ UNCHANGED <<budgetVars, handleVars, call, frees, resume>>

\* Mutant: the frees are flushed until none is left, and none is removed.
ReceiveFreedAgain ==
  /\ phase = "freeing"
  /\ Receive
  /\ Goto("flush")
  /\ UNCHANGED <<budgetVars, handleVars, call, frees, resume, handshaked>>

\* Whatever the response to a free is, it is ignored.
ReceiveFreed ==
  /\ phase = "freeing"
  /\ Receive
  /\ frees' = {}
  /\ Goto("send")
  /\ UNCHANGED <<budgetVars, handleVars, call, resume, handshaked>>

\* Mutants: every response is taken to carry the budget; errors are not synced.
SyncedBlindly(rep) ==
  IF active = None THEN cached ELSE [cached EXCEPT ![active] = rep.budget]

SyncedOnSuccess(rep) ==
  IF active = None \/ rep.budget = None \/ rep.status # "ok" THEN cached
  ELSE [cached EXCEPT ![active] = rep.budget]

\* _sync_active_context_from_response(): run before errors are raised, on every
\* response that carries the budget; the count only moves up.
Synced(rep) ==
  IF active = None \/ rep.budget = None THEN cached
  ELSE [cached EXCEPT ![active] = IF rep.budget > @ THEN rep.budget ELSE @]

\* The call returns a value or raises: the program goes on.
CallEnds ==
  /\ Goto("idle")
  /\ call' = None

\* Mutants: a closed context stays active; a re-entered one keeps its count.
ReceiptKeepsActive(rep) ==
  LET c == call.ctx
      op == call.req.op
      succeeded == rep.status = "ok" IN
  /\ active' = IF succeeded /\ op = "budget_open" THEN c ELSE active
  /\ opened' = IF succeeded /\ op = "budget_open" THEN opened \cup {c}
               ELSE IF succeeded /\ op = "budget_close" THEN opened \ {c} ELSE opened
  /\ cached' = Synced(rep)
  /\ proxies' = IF succeeded /\ op = "compute" THEN proxies \cup rep.ids ELSE proxies

ReceiptKeepsCount(rep) ==
  LET c == call.ctx
      op == call.req.op
      succeeded == rep.status = "ok" IN
  /\ active' = IF succeeded /\ op = "budget_open" THEN c
             ELSE IF succeeded /\ op = "budget_close" THEN None ELSE active
  /\ opened' = IF succeeded /\ op = "budget_open" THEN opened \cup {c}
               ELSE IF succeeded /\ op = "budget_close" THEN opened \ {c} ELSE opened
  /\ cached' = Synced(rep)
  /\ proxies' = IF succeeded /\ op = "compute" THEN proxies \cup rep.ids ELSE proxies

\* What the caller of send_recv does with the response.
Receipt(rep) ==
  LET c == call.ctx
      op == call.req.op
      succeeded == rep.status = "ok" IN
  \/ /\ ~ succeeded \/ op = "fetch"
     /\ cached' = Synced(rep)
     /\ UNCHANGED <<active, opened, proxies>>
  \/ /\ succeeded /\ op = "budget_open"
     /\ active' = c
     /\ opened' = opened \cup {c}
     /\ cached' = [cached EXCEPT ![c] = 0]
     /\ UNCHANGED proxies
  \/ /\ succeeded /\ op = "budget_close"
     /\ active' = None
     /\ opened' = opened \ {c}
     /\ cached' = [cached EXCEPT ![c] = rep.summary]
     /\ UNCHANGED proxies
  \/ /\ succeeded /\ op = "budget_summary"
     /\ cached' = [Synced(rep) EXCEPT ![c] = rep.summary]
     /\ UNCHANGED <<active, opened, proxies>>
  \/ /\ succeeded /\ op = "compute"
     /\ proxies' = proxies \cup rep.ids
     /\ cached' = Synced(rep)
     /\ UNCHANGED <<active, opened>>

ReceiveResponse ==
  /\ phase = "waiting"
  /\ Receive
  /\ Receipt(response)
  /\ CallEnds
  /\ UNCHANGED <<pending, frees, resume, handshaked>>

\* _reset_socket(): close(linger=0) drops a request that has not left yet, and
\* one that has left will be answered to nobody.
ResetSocket ==
  /\ socket < MaxTimeouts
  /\ socket' = socket + 1
  /\ handshaked' = FALSE
  /\ \/ inbox' = inbox
     \/ inbox' = {m \in inbox : m.from # socket}
  /\ UNCHANGED <<budgetVars, handleVars, resume, sender, serverAll>>

\* A timeout while frees are flushed is swallowed; the ids are gone.
FlushTimesOut ==
  /\ phase = "freeing" \/ (phase = "hello" /\ resume = "flush")
  /\ ResetSocket
  /\ frees' = {}
  /\ Goto("send")
  /\ UNCHANGED call

\* Any other is raised to the program; an open context stays open.
CallTimesOut ==
  /\ phase = "waiting" \/ (phase = "hello" /\ resume # "flush")
  /\ ResetSocket
  /\ CallEnds
  /\ UNCHANGED frees

-----------------------------------------------------------------------------
(***************************************************************************)
(* The server's loop and the network.                                      *)
(***************************************************************************)
Serve(m) ==
  /\ response = None
  /\ Ordered => \A n \in inbox : m.from <= n.from
  /\ Handle(m.req)
  /\ inbox' = inbox \ {m}
  /\ sender' = m.from
  /\ UNCHANGED <<reaped, budgetVars, handleVars, callVars, socketVars>>

\* The peer of a response to an old socket is gone.
DropResponse ==
  /\ response # None
  /\ sender # socket
  /\ response' = None
  /\ UNCHANGED <<budgetVars, handleVars, callVars, socketVars, networkVars,
                 serverVars, reaped>>

\* The poll of an empty socket finds the session idle for session_timeout_s.
ReapIdle ==
  /\ Reaping
  /\ inbox = {}
  /\ Reap
  /\ reaped' = TRUE
  /\ UNCHANGED <<budgetVars, handleVars, callVars, socketVars, networkVars,
                 response>>

-----------------------------------------------------------------------------
\* The steps of send_recv, once a call has begun.
CallStep ==
  \/ CapabilityKnown
  \/ CopyPending
  \/ ClearPending
  \/ SendHello
  \/ SendFree
  \/ SendRequest
  \/ ReceiveHello
  \/ ReceiveFreed
  \/ ReceiveResponse

ServerStep ==
  \/ \E m \in inbox : Serve(m)
  \/ DropResponse

Next ==
  \/ \E c \in Contexts : Enter(c) \/ Exit(c) \/ Summary(c)
  \/ \E kernel \in Kernels, args \in SUBSET proxies : Operate(args, kernel)
  \/ \E h \in proxies : Read(h) \/ Finalize(h)
  \/ CallStep
  \/ FlushTimesOut
  \/ CallTimesOut
  \/ ServerStep
  \/ ReapIdle

Spec == Init /\ [][Next]_vars

\* The program may stop calling and need not drop its proxies, but a call once
\* begun runs on, and the server's loop never stops.
FairSpec == Spec /\ WF_vars(CallStep) /\ WF_vars(ServerStep) /\ WF_vars(ReapIdle)

-----------------------------------------------------------------------------
Idle == phase = "idle"

\* A live proxy always has its array on the server: no free of whatever age,
\* order or socket removes an array a proxy still refers to.
ProxiesBacked == proxies \subseteq arrays

\* Requests that freed or may free handles: in the queue of the client, taken
\* from it, or on their way.
Doomed ==
  pending \cup frees \cup UNION {m.req.ids : m \in {n \in inbox : n.req.op = "free"}}

\* Every array of the server has a proxy, is about to get one, or is about to
\* be freed: no handle is lost.
HandlesAccounted ==
  arrays \subseteq proxies \cup Doomed
                     \cup (IF response = None THEN {} ELSE response.ids)

Undisturbed == socket = 0 /\ ~ reaped

\* While no call has timed out and no session was reaped, the client and the server
\* agree between two calls whether a session is open.
SessionAgreed == Idle /\ Undisturbed => (active # None <=> session)

\* And the cached count is the server's, also after operations that failed.
CountCurrent == Idle /\ active # None /\ Undisturbed => cached[active] = used

\* The cached count of the active context never runs ahead of the session: a
\* client may overestimate what is left, never underestimate it.
CountNeverAhead == active # None /\ session => cached[active] <= used

\* Every call returns or raises.
CallsEnd == ~ Idle ~> Idle

\* A session whose program falls silent, or does not know of it, is reaped.
IdleSessionsEnd == session /\ Idle ~> ~ session \/ ~ Idle
=============================================================================
