------------------------- MODULE RemoteSessionProofs -------------------------
(***************************************************************************)
(* Theorems about RemoteSession: for any contexts, kernels and budgets, any*)
(* number of timeouts and handles, whether or not the server reaps idle    *)
(* sessions.                                                               *)
(***************************************************************************)
EXTENDS RemoteSession, FlopscopeServerProofs

USE KernelAssumption, ServerAssumption, NoneAssumption, ClientAssumption

-----------------------------------------------------------------------------
(***************************************************************************)
(* Types and the protocol of a socket.                                     *)
(***************************************************************************)
\* Where a request of the current socket is on its way or its answer is awaited.
Awaiting == {"hello", "freeing", "waiting"}

\* That request.
Outstanding ==
  IF phase = "hello" THEN [op |-> "hello"]
  ELSE IF phase = "freeing" THEN [op |-> "free", ids |-> frees]
  ELSE call.req

\* The answer to it has arrived.
Answered == response # None /\ sender = socket

BudgetOps == {"budget_open", "budget_close", "budget_summary"}

\* What is known of the call being made: it is for the context that is open, or
\* it is about to open one.
CallFits ==
  /\ call \in Call
  /\ call.req.op \notin {"hello", "free"}
  /\ call.req.op \in BudgetOps => call.ctx \in Contexts
  /\ call.req.op = "budget_open" => active = None
  /\ call.req.op \in {"budget_close", "budget_summary"} => active = call.ctx

\* At most one context is open, the active one.
OneOpen == opened = IF active = None THEN {} ELSE {active}

\* Per socket, requests and responses alternate.
LockStep ==
  /\ sender <= socket
  /\ \A m \in inbox :
       /\ m.from <= socket
       /\ m.from = socket => phase \in Awaiting /\ ~ Answered /\ m.req = Outstanding
  /\ Answered => phase \in Awaiting
  /\ phase = "hello" => resume \in {"capability", "flush", "send"}
  /\ /\ Answered /\ phase = "waiting" /\ response.status = "ok"
     /\ call.req.op \in {"budget_close", "budget_summary"}
     => response.summary \in Nat

\* The inductive invariant of the protocol.
ProtocolInv == StoreInv /\ OneOpen /\ LockStep /\ (phase # "idle" => CallFits)


\* A request sent on a socket that awaits nothing is well typed, and the one that is
\* outstanding.
LEMMA SendKeepsLockStep ==
  ASSUME TypeOK, LockStep, NEW req \in Request, Send(req), phase \notin Awaiting,
         phase' \in Awaiting, req = Outstanding', UNCHANGED <<socket, sender, response>>,
         phase' = "hello" => resume' \in {"capability", "flush", "send"}
  PROVE  inbox' \in SUBSET [from : Sockets, req : Request] /\ LockStep'
<1> DEFINE new == [from |-> socket, req |-> req]
<1>1. inbox' = inbox \cup {new}
  BY DEF Send
<1>2. new \in [from : Sockets, req : Request] /\ new.from = socket /\ new.req = req
  BY DEF TypeOK
<1>3. socket \in Nat /\ socket' = socket /\ ~ Answered /\ ~ Answered' /\ sender' <= socket'
  BY DEF TypeOK, LockStep, Answered, Sockets
<1> HIDE DEF new
<1>4. inbox' \in SUBSET [from : Sockets, req : Request]
  BY <1>1, <1>2 DEF TypeOK
<1>5. \A m \in inbox' : m.from <= socket' /\ (m.from = socket' => m.req = Outstanding')
  BY <1>1, <1>2, <1>3 DEF LockStep
<1> QED BY <1>3, <1>4, <1>5 DEF LockStep

\* A step after which the current socket has nothing in the network keeps to the
\* protocol.
LEMMA QuietKeepsLockStep ==
  ASSUME TypeOK, LockStep, inbox' \subseteq inbox, ~ Answered', sender' <= socket',
         \A m \in inbox' : m.from < socket',
         socket' \in Nat, phase' = "hello" => resume' \in {"capability", "flush", "send"}
  PROVE  LockStep'
<1>1. \A m \in inbox' : m.from \in Nat
  BY DEF TypeOK, Sockets
<1> QED BY <1>1 DEF LockStep

\* After a timeout the client has a new socket, which nothing was sent on.
LEMMA ResetKeepsLockStep ==
  ASSUME TypeOK, LockStep, ResetSocket, phase' # "hello"
  PROVE  /\ inbox' \in SUBSET [from : Sockets, req : Request] /\ socket' \in Sockets
         /\ LockStep'
<1>1. /\ socket \in Nat /\ socket' = socket + 1 /\ socket' \in Sockets
      /\ sender \in Nat /\ sender' = sender
  BY DEF ResetSocket, TypeOK, Sockets
<1>2. inbox' \subseteq inbox
  BY DEF ResetSocket
<1>3. \A m \in inbox : m.from \in Nat /\ m.from <= socket
  BY DEF TypeOK, Sockets, LockStep
<1>4. ~ Answered' /\ sender' <= socket'
  BY <1>1 DEF LockStep, Answered
<1>5. LockStep'
  BY <1>1, <1>2, <1>3, <1>4, QuietKeepsLockStep
<1> QED BY <1>1, <1>2, <1>5 DEF TypeOK

\* A response received leaves nothing of the current socket in the network.
LEMMA ReceiveKeepsLockStep ==
  ASSUME TypeOK, LockStep, Receive, phase' # "hello"
  PROVE  LockStep'
<1>1. /\ Answered /\ ~ Answered' /\ socket' = socket /\ sender' = sender /\ inbox' = inbox
      /\ socket \in Nat /\ sender \in Nat /\ sender <= socket
  BY DEF Receive, Answered, TypeOK, Sockets, LockStep, networkVars
<1>2. \A m \in inbox : m.from \in Nat /\ m.from <= socket /\ m.from # socket
  BY <1>1 DEF TypeOK, Sockets, LockStep
<1> QED BY <1>1, <1>2, QuietKeepsLockStep

\* A request served: its answer is the one outstanding if its socket is the current one.
LEMMA ServeKeepsLockStep ==
  ASSUME TypeOK, ProtocolInv, NEW m \in inbox, Serve(m)
  PROVE  LockStep'
<1> USE DEF ProtocolInv
<1>1. /\ inbox' = inbox \ {m} /\ sender' = m.from /\ Handle(m.req) /\ response = None
      /\ UNCHANGED <<phase, call, frees, resume, socket>>
  BY DEF Serve, callVars, socketVars
<1>2. m.from \in Nat /\ socket \in Nat /\ m.req \in Request /\ m.from <= socket
  BY DEF TypeOK, Sockets, LockStep
<1>3. ~ Answered /\ Outstanding' = Outstanding
  BY <1>1 DEF Answered, Outstanding
<1>4. ASSUME NEW n \in inbox', n.from = socket
      PROVE  phase' \in Awaiting /\ ~ Answered' /\ n.req = Outstanding'
  <2>1. n \in inbox /\ n # m /\ n \in [from : Sockets, req : Request]
             /\ m \in [from : Sockets, req : Request]
    BY <1>1, <1>4 DEF TypeOK
  <2>2. phase \in Awaiting /\ n.req = Outstanding
    BY <1>4, <2>1 DEF LockStep
  <2>3. m.from # socket
    <3>1. SUFFICES ASSUME m.from = socket PROVE FALSE
      OBVIOUS
    <3>2. m.req = Outstanding
      BY <3>1 DEF LockStep
    <3> QED BY <3>1, <3>2, <2>1, <2>2, <1>4
  <2> QED BY <1>1, <1>3, <2>2, <2>3 DEF Answered
<1>5. ASSUME Answered' PROVE phase' \in Awaiting /\ m.req = Outstanding
  BY <1>1, <1>5 DEF Answered, LockStep
<1>6. ASSUME Answered', phase' = "waiting", response'.status = "ok",
             call'.req.op \in {"budget_close", "budget_summary"}
      PROVE  response'.summary \in Nat
  <2>1. m.req.op \in {"budget_close", "budget_summary"} /\ used \in Nat
    BY <1>1, <1>5, <1>6 DEF Outstanding, TypeOK, ServerTypeOK
  <2>2. ServerTypeOK /\ m.req \in Request /\ Handle(m.req)
    BY <1>1, <1>2 DEF TypeOK
  <2>3. CASE UNCHANGED serverVars /\ response'.summary = used
    BY <2>1, <2>3
  <2>4. CASE response' = Ok(None, used, {})
    BY <2>1, <2>4 DEF Ok
  <2>5. \/ UNCHANGED serverVars /\ response'.summary = used
        \/ response' = Ok(None, used, {})
    BY <2>1, <2>2, <1>6, HandleOutcomes
  <2> QED BY <2>3, <2>4, <2>5
<1> QED BY <1>1, <1>2, <1>4, <1>5, <1>6 DEF LockStep

\* Every step keeps the types and the protocol.
LEMMA ProtocolStep ==
  ASSUME TypeOK, ProtocolInv, [Next]_vars
  PROVE  TypeOK' /\ ProtocolInv'
<1> USE DEF ProtocolInv, OneOpen, CallFits, Awaiting, BudgetOps
<1> USE DEF budgetVars, handleVars, callVars, socketVars, networkVars, serverAll, serverVars
<1>1. ASSUME NEW req \in Request, NEW ctx \in Contexts \cup {None}, NEW first \in {"drain", "capability"},
             Begin(req, ctx, first), req.op \notin {"hello", "free"},
             req.op \in BudgetOps => ctx \in Contexts,
             req.op = "budget_open" => active = None,
             req.op \in {"budget_close", "budget_summary"} => active = ctx
      PROVE  TypeOK' /\ ProtocolInv'
  <2>1. TypeOK'
    BY <1>1 DEF Begin, TypeOK, ServerTypeOK, Call, Phase
  <2>2. LockStep'
    BY <1>1 DEF Begin, LockStep, Answered, Outstanding
  <2>3. StoreInv' /\ OneOpen' /\ CallFits'
    BY <1>1 DEF Begin, StoreInv, Call
  <2> QED BY <2>1, <2>2, <2>3
<1>2. ASSUME NEW c \in Contexts, Enter(c) \/ Exit(c) \/ Summary(c)
      PROVE  TypeOK' /\ ProtocolInv'
  <2>1. \A op \in {"budget_open", "budget_close", "budget_summary"} :
          [op |-> op] \in Request /\ [op |-> op].op = op
    BY DEF Request
  <2> QED BY <1>1, <1>2, <2>1 DEF Enter, Exit, Summary
<1>3. ASSUME NEW kernel \in Kernels, NEW args \in SUBSET proxies, Operate(args, kernel)
      PROVE  TypeOK' /\ ProtocolInv'
  <2>1. [op |-> "compute", args |-> args, kernel |-> kernel] \in Request
    BY DEF Request, TypeOK
  <2> QED BY <1>1, <1>3, <2>1 DEF Operate
<1>4. ASSUME NEW h \in proxies, Read(h)
      PROVE  TypeOK' /\ ProtocolInv'
  <2>1. [op |-> "fetch", id |-> h] \in Request
    BY DEF Request, TypeOK
  <2> QED BY <1>1, <1>4, <2>1 DEF Read
<1>5. ASSUME NEW h \in proxies, Finalize(h)
      PROVE  TypeOK' /\ ProtocolInv'
  <2>1. TypeOK'
    BY <1>5 DEF Finalize, TypeOK, ServerTypeOK
  <2>2. LockStep'
    BY <1>5 DEF Finalize, LockStep, Answered, Outstanding
  <2> QED BY <1>5, <2>1, <2>2 DEF Finalize, StoreInv
<1>6. CASE CapabilityKnown
  <2>1. TypeOK'
    BY <1>6 DEF CapabilityKnown, TypeOK, ServerTypeOK, Phase, Goto
  <2>2. LockStep'
    BY <1>6 DEF CapabilityKnown, TypeOK, LockStep, Answered, Outstanding, Goto
  <2>3. StoreInv' /\ OneOpen' /\ (phase' # "idle" => CallFits')
    BY <1>6 DEF CapabilityKnown, StoreInv, Goto
  <2> QED BY <2>1, <2>2, <2>3
<1>7. CASE CopyPending
  <2>1. TypeOK'
    BY <1>7 DEF CopyPending, TypeOK, ServerTypeOK, Phase, Goto
  <2>2. LockStep'
    BY <1>7 DEF CopyPending, TypeOK, LockStep, Answered, Outstanding, Goto
  <2>3. StoreInv' /\ OneOpen' /\ (phase' # "idle" => CallFits')
    BY <1>7 DEF CopyPending, StoreInv, Goto
  <2> QED BY <2>1, <2>2, <2>3
<1>8. CASE ClearPending
  <2>1. TypeOK'
    BY <1>8 DEF ClearPending, TypeOK, ServerTypeOK, Phase, Goto
  <2>2. LockStep'
    BY <1>8 DEF ClearPending, TypeOK, LockStep, Answered, Outstanding, Goto
  <2>3. StoreInv' /\ OneOpen' /\ (phase' # "idle" => CallFits')
    BY <1>8 DEF ClearPending, StoreInv, Goto
  <2> QED BY <2>1, <2>2, <2>3
<1>9. CASE SendHello
  <2>1. [op |-> "hello"] \in Request
    BY DEF Request, TypeOK
  <2>2. Send([op |-> "hello"]) /\ UNCHANGED <<socket, sender, response>> /\ phase \notin Awaiting
    BY <1>9 DEF SendHello
  <2>3. phase' \in Awaiting /\ [op |-> "hello"] = Outstanding'
        /\ (phase' = "hello" => resume' \in {"capability", "flush", "send"})
    BY <1>9 DEF SendHello, Goto, Outstanding
  <2>4. inbox' \in SUBSET [from : Sockets, req : Request] /\ LockStep'
    BY <2>1, <2>2, <2>3, SendKeepsLockStep
  <2>5. TypeOK'
    BY <1>9, <2>4 DEF SendHello, TypeOK, ServerTypeOK, Phase, Goto
  <2>6. StoreInv' /\ OneOpen' /\ (phase' # "idle" => CallFits')
    BY <1>9 DEF SendHello, StoreInv, Goto
  <2> QED BY <2>4, <2>5, <2>6
<1>10. CASE SendFree
  <2>1. [op |-> "free", ids |-> frees] \in Request
    BY DEF Request, TypeOK
  <2>2. Send([op |-> "free", ids |-> frees]) /\ UNCHANGED <<socket, sender, response>> /\ phase \notin Awaiting
    BY <1>10 DEF SendFree
  <2>3. phase' \in Awaiting /\ [op |-> "free", ids |-> frees] = Outstanding'
        /\ (phase' = "hello" => resume' \in {"capability", "flush", "send"})
    BY <1>10 DEF SendFree, Goto, Outstanding
  <2>4. inbox' \in SUBSET [from : Sockets, req : Request] /\ LockStep'
    BY <2>1, <2>2, <2>3, SendKeepsLockStep
  <2>5. TypeOK'
    BY <1>10, <2>4 DEF SendFree, TypeOK, ServerTypeOK, Phase, Goto
  <2>6. StoreInv' /\ OneOpen' /\ (phase' # "idle" => CallFits')
    BY <1>10 DEF SendFree, StoreInv, Goto
  <2> QED BY <2>4, <2>5, <2>6
<1>11. CASE SendRequest
  <2>1. call.req \in Request
    BY <1>11 DEF SendRequest, Call
  <2>2. Send(call.req) /\ UNCHANGED <<socket, sender, response>> /\ phase \notin Awaiting
    BY <1>11 DEF SendRequest
  <2>3. phase' \in Awaiting /\ call.req = Outstanding'
        /\ (phase' = "hello" => resume' \in {"capability", "flush", "send"})
    BY <1>11 DEF SendRequest, Goto, Outstanding
  <2>4. inbox' \in SUBSET [from : Sockets, req : Request] /\ LockStep'
    BY <2>1, <2>2, <2>3, SendKeepsLockStep
  <2>5. TypeOK'
    BY <1>11, <2>4 DEF SendRequest, TypeOK, ServerTypeOK, Phase, Goto
  <2>6. StoreInv' /\ OneOpen' /\ (phase' # "idle" => CallFits')
    BY <1>11 DEF SendRequest, StoreInv, Goto
  <2> QED BY <2>4, <2>5, <2>6
<1>12. CASE ReceiveHello
  <2>1. LockStep'
    BY <1>12, ReceiveKeepsLockStep DEF ReceiveHello, Goto, LockStep
  <2>2. TypeOK'
    BY <1>12 DEF ReceiveHello, TypeOK, ServerTypeOK, Phase, Goto, Receive
  <2>3. StoreInv' /\ OneOpen' /\ (phase' # "idle" => CallFits')
    BY <1>12 DEF ReceiveHello, StoreInv, Goto, Receive
  <2> QED BY <2>1, <2>2, <2>3
<1>13. CASE ReceiveFreed
  <2>1. LockStep'
    BY <1>13, ReceiveKeepsLockStep DEF ReceiveFreed, Goto, LockStep
  <2>2. TypeOK'
    BY <1>13 DEF ReceiveFreed, TypeOK, ServerTypeOK, Phase, Goto, Receive
  <2>3. StoreInv' /\ OneOpen' /\ (phase' # "idle" => CallFits')
    BY <1>13 DEF ReceiveFreed, StoreInv, Goto, Receive
  <2> QED BY <2>1, <2>2, <2>3
<1>14. CASE ReceiveResponse
  <2> DEFINE rep == response
  <2>1. LockStep'
    BY <1>14, ReceiveKeepsLockStep DEF ReceiveResponse, CallEnds, Goto
  <2>2. /\ Receipt(response) /\ response \in Response /\ call \in Call /\ call.ctx \in Contexts \cup {None}
        /\ phase' = "idle" /\ call' = None
        /\ UNCHANGED <<serverVars, reaped, socket, networkVars, pending, frees, resume, handshaked>>
        /\ response' = None
    BY <1>14 DEF ReceiveResponse, Receive, CallEnds, Goto, TypeOK, ServerTypeOK, Call
  <2>3. /\ response.status = "ok" /\ call.req.op \in {"budget_close", "budget_summary"}
        => response.summary \in Nat
    BY <1>14 DEF ReceiveResponse, Receive, Answered, LockStep
  <2>4. Synced(response) \in [Contexts -> Nat]
    BY <2>2 DEF Synced, TypeOK, Response
  <2>5. cached' \in [Contexts -> Nat]
    BY <2>2, <2>3, <2>4, <1>14 DEF Receipt, TypeOK, ReceiveResponse
  <2>6. /\ active' \in Contexts \cup {None} /\ opened' \in SUBSET Contexts
        /\ proxies' \in SUBSET Nat /\ OneOpen'
    BY <2>2, <1>14, ZenonT(30) DEF Receipt, TypeOK, ReceiveResponse, Response
  <2>7. TypeOK'
    BY <2>2, <2>5, <2>6 DEF TypeOK, ServerTypeOK, Phase
  <2>8. StoreInv'
    BY <2>2 DEF StoreInv
  <2> QED BY <2>1, <2>2, <2>6, <2>7, <2>8
<1>15. CASE FlushTimesOut
  <2>1. ResetSocket /\ phase' # "hello"
    BY <1>15 DEF FlushTimesOut, Goto
  <2>2. inbox' \in SUBSET [from : Sockets, req : Request] /\ socket' \in Sockets /\ LockStep'
    BY <2>1, ResetKeepsLockStep
  <2>3. TypeOK'
    BY <1>15, <2>2 DEF FlushTimesOut, TypeOK, ServerTypeOK, Phase, Goto, ResetSocket
  <2>4. StoreInv' /\ OneOpen' /\ (phase' # "idle" => CallFits')
    BY <1>15 DEF FlushTimesOut, StoreInv, Goto, ResetSocket
  <2> QED BY <2>2, <2>3, <2>4
<1>16. CASE CallTimesOut
  <2>1. ResetSocket /\ phase' # "hello"
    BY <1>16 DEF CallTimesOut, Goto, CallEnds
  <2>2. inbox' \in SUBSET [from : Sockets, req : Request] /\ socket' \in Sockets /\ LockStep'
    BY <2>1, ResetKeepsLockStep
  <2>3. TypeOK'
    BY <1>16, <2>2 DEF CallTimesOut, TypeOK, ServerTypeOK, Phase, Goto, ResetSocket, CallEnds
  <2>4. StoreInv' /\ OneOpen' /\ (phase' # "idle" => CallFits')
    BY <1>16 DEF CallTimesOut, StoreInv, Goto, ResetSocket, CallEnds
  <2> QED BY <2>2, <2>3, <2>4
<1>17. ASSUME NEW m \in inbox, Serve(m)
      PROVE  TypeOK' /\ ProtocolInv'
  <2>1. m.req \in Request /\ m.from \in Sockets /\ Handle(m.req) /\ ServerTypeOK
    BY <1>17 DEF Serve, TypeOK
  <2>2. ServerTypeOK' /\ StoreInv'
    BY <2>1, HandleKeepsStore
  <2>3. TypeOK'
    BY <1>17, <2>1, <2>2 DEF Serve, TypeOK
  <2>4. LockStep'
    BY <1>17, ServeKeepsLockStep
  <2> QED BY <1>17, <2>2, <2>3, <2>4 DEF Serve
<1>18. CASE DropResponse
  <2>1. TypeOK'
    BY <1>18 DEF DropResponse, TypeOK, ServerTypeOK, Phase, Goto
  <2>2. LockStep'
    BY <1>18 DEF DropResponse, TypeOK, LockStep, Answered, Outstanding, Goto
  <2>3. StoreInv' /\ OneOpen' /\ (phase' # "idle" => CallFits')
    BY <1>18 DEF DropResponse, StoreInv, Goto
  <2> QED BY <2>1, <2>2, <2>3
<1>19. CASE ReapIdle
  <2>1. TypeOK'
    BY <1>19 DEF ReapIdle, TypeOK, ServerTypeOK, Phase, Goto, Reap, CloseSession
  <2>2. LockStep'
    BY <1>19 DEF ReapIdle, TypeOK, LockStep, Answered, Outstanding, Goto, Reap, CloseSession
  <2>3. StoreInv' /\ OneOpen' /\ (phase' # "idle" => CallFits')
    BY <1>19 DEF ReapIdle, StoreInv, Goto, Reap, CloseSession
  <2> QED BY <2>1, <2>2, <2>3
<1>20. CASE UNCHANGED vars
  BY <1>20 DEF vars, TypeOK, ServerTypeOK, StoreInv, LockStep, Answered, Outstanding
<1> QED
  BY <1>2, <1>3, <1>4, <1>5, <1>6, <1>7, <1>8, <1>9, <1>10, <1>11, <1>12, <1>13, <1>14, <1>15, <1>16, <1>17, <1>18, <1>19, <1>20 DEF Next, CallStep, ServerStep

\* The types and the protocol of every state.
LEMMA RemoteProtocol == Spec => [](TypeOK /\ ProtocolInv)
<1>1. ASSUME Init PROVE TypeOK /\ ProtocolInv
  <2> USE <1>1 DEF Init, ServerInit
  <2>1. TypeOK
    <3>1. cached \in [Contexts -> Nat] /\ socket \in Sockets /\ sender \in Sockets
      BY DEF Sockets
    <3>2. ServerTypeOK /\ phase \in Phase /\ resume \in Phase
      BY DEF ServerTypeOK, Phase
    <3> QED BY <3>1, <3>2 DEF TypeOK
  <2>2. StoreInv
    BY FS_EmptySet DEF StoreInv
  <2>3. OneOpen /\ LockStep /\ phase = "idle"
    BY DEF OneOpen, LockStep, Answered, Sockets
  <2> QED BY <2>1, <2>2, <2>3 DEF ProtocolInv
<1>2. TypeOK /\ ProtocolInv /\ [Next]_vars => (TypeOK /\ ProtocolInv)'
  BY ProtocolStep
<1> QED BY <1>1, <1>2, PTL DEF Spec

\* Every variable of the client, the network and the server keeps its type: above all
\* a count never becomes None, whatever response it is taken from.
THEOREM RemoteTypes == Spec => []TypeOK
  BY RemoteProtocol, PTL

-----------------------------------------------------------------------------
(***************************************************************************)
(* The steps that neither serve a request, nor hand the program the answer *)
(* to its call, nor reap the session: what the invariants below need of    *)
(* them.                                                                   *)
(***************************************************************************)
\* Handles of the response on its way.
Carried == IF response = None THEN {} ELSE response.ids

\* The answer to the call is there, if no call has timed out.
Delivered == phase = "waiting" /\ response # None

\* None of the three.
OtherStep ==
  /\ UNCHANGED <<session, used, arrays, nextHandle, active, cached, reaped>>
  /\ response' \in {response, None}
  /\ proxies' \subseteq proxies
  /\ \A h \in Doomed' : h \in Doomed \/ h \in proxies \ proxies'
  /\ Answered' => Answered /\ inbox' = inbox
  /\ \A m \in inbox' : m \in inbox \/ (m.req.op = "budget_open" => active = None)
  /\ Undisturbed' =>
       /\ Undisturbed /\ (Delivered' <=> Delivered)
       /\ Delivered => UNCHANGED <<call, response>>

\* Without a timeout, whatever response there is answers the request outstanding.
LEMMA UndisturbedProtocol ==
  ASSUME TypeOK, ProtocolInv, Undisturbed
  PROVE  /\ response # None => Answered
         /\ \A m \in inbox : m.from = socket /\ m.req = Outstanding /\ phase \in Awaiting
<1>1. socket = 0 /\ sender \in Nat /\ sender <= 0
  BY DEF Undisturbed, TypeOK, Sockets, ProtocolInv, LockStep
<1>2. sender = socket
  BY <1>1
<1>3. \A m \in inbox : m.from \in Nat /\ m.from <= socket
  BY DEF TypeOK, Sockets, ProtocolInv, LockStep
<1>4. \A m \in inbox : m.from = socket
  BY <1>1, <1>3
<1> QED BY <1>2, <1>4 DEF Answered, ProtocolInv, LockStep

\* Every step but the arrival of a response, the service of a request and the
\* reaping of a session is an OtherStep.
LEMMA OtherSteps ==
  ASSUME TypeOK, ProtocolInv, Next,
         ~ ReceiveResponse, \A m \in inbox : ~ Serve(m), ~ ReapIdle
  PROVE  OtherStep
<1> USE DEF budgetVars, handleVars, callVars, socketVars, networkVars, serverAll, serverVars
<1>1. /\ Answered => phase \in Awaiting
      /\ Undisturbed /\ response # None => Answered
      /\ phase # "idle" => CallFits
      /\ phase = "hello" => resume \in {"capability", "flush", "send"}
      /\ sender \in Nat /\ socket \in Nat /\ sender <= socket
  BY UndisturbedProtocol DEF ProtocolInv, LockStep, TypeOK, Sockets
<1>2. /\ \A h : h \in Doomed <=> \/ h \in pending \cup frees
                                 \/ \E m \in inbox : m.req.op = "free" /\ h \in m.req.ids
      /\ \A h : h \in Doomed' <=> \/ h \in (pending \cup frees)'
                                  \/ \E m \in inbox' : m.req.op = "free" /\ h \in m.req.ids
  BY DEF Doomed
<1> USE DEF Goto
<1>3. ASSUME NEW req, NEW ctx, NEW first \in {"drain", "capability"}, Begin(req, ctx, first)
      PROVE  OtherStep
  BY <1>1, <1>3 DEF Begin, OtherStep, Doomed, Answered, Awaiting, Undisturbed, Delivered
<1>4. CASE \/ \E c \in Contexts : Enter(c) \/ Exit(c) \/ Summary(c)
           \/ \E kernel \in Kernels, args \in SUBSET proxies : Operate(args, kernel)
           \/ \E h \in proxies : Read(h)
  BY <1>3, <1>4 DEF Enter, Exit, Summary, Operate, Read
<1>5. ASSUME NEW h \in proxies, Finalize(h)
      PROVE  OtherStep
  <2>1. UNCHANGED <<callVars, inbox, session, used, arrays, nextHandle, active, cached, reaped,
                    response, socket, sender>>
    BY <1>5 DEF Finalize
  <2>2. proxies' = proxies \ {h} /\ pending' = pending \cup {h}
    BY <1>5 DEF Finalize
  <2>3. \A g \in Doomed' : g \in Doomed \/ g \in proxies \ proxies'
    BY <1>2, <2>1, <2>2
  <2> QED BY <2>1, <2>2, <2>3 DEF OtherStep, Answered, Undisturbed, Delivered
<1>6. CASE CapabilityKnown
  <2>1. \A h \in Doomed' : h \in Doomed
    BY <1>1, <1>2, <1>6 DEF CapabilityKnown
  <2>2. \A m \in inbox' : m \in inbox \/ (m.req.op = "budget_open" => active = None)
    BY <1>1, <1>6 DEF CapabilityKnown
  <2>3. Answered' => Answered /\ inbox' = inbox
    BY <1>1, <1>6 DEF CapabilityKnown, Answered, Awaiting
  <2>4. Undisturbed' => /\ Undisturbed /\ (Delivered' <=> Delivered)
                        /\ Delivered => UNCHANGED <<call, response>>
    BY <1>1, <1>6 DEF CapabilityKnown, Undisturbed, Delivered, Answered, Awaiting
  <2>5. /\ UNCHANGED <<session, used, arrays, nextHandle, active, cached, reaped>>
        /\ response' \in {response, None} /\ proxies' \subseteq proxies
    BY <1>6 DEF CapabilityKnown
  <2> QED BY <2>1, <2>2, <2>3, <2>4, <2>5 DEF OtherStep
<1>7. CASE CopyPending
  <2>1. \A h \in Doomed' : h \in Doomed
    BY <1>1, <1>2, <1>7 DEF CopyPending
  <2>2. \A m \in inbox' : m \in inbox \/ (m.req.op = "budget_open" => active = None)
    BY <1>1, <1>7 DEF CopyPending
  <2>3. Answered' => Answered /\ inbox' = inbox
    BY <1>1, <1>7 DEF CopyPending, Answered, Awaiting
  <2>4. Undisturbed' => /\ Undisturbed /\ (Delivered' <=> Delivered)
                        /\ Delivered => UNCHANGED <<call, response>>
    BY <1>1, <1>7 DEF CopyPending, Undisturbed, Delivered, Answered, Awaiting
  <2>5. /\ UNCHANGED <<session, used, arrays, nextHandle, active, cached, reaped>>
        /\ response' \in {response, None} /\ proxies' \subseteq proxies
    BY <1>7 DEF CopyPending
  <2> QED BY <2>1, <2>2, <2>3, <2>4, <2>5 DEF OtherStep
<1>8. CASE ClearPending
  <2>1. \A h \in Doomed' : h \in Doomed
    BY <1>1, <1>2, <1>8 DEF ClearPending
  <2>2. \A m \in inbox' : m \in inbox \/ (m.req.op = "budget_open" => active = None)
    BY <1>1, <1>8 DEF ClearPending
  <2>3. Answered' => Answered /\ inbox' = inbox
    BY <1>1, <1>8 DEF ClearPending, Answered, Awaiting
  <2>4. Undisturbed' => /\ Undisturbed /\ (Delivered' <=> Delivered)
                        /\ Delivered => UNCHANGED <<call, response>>
    BY <1>1, <1>8 DEF ClearPending, Undisturbed, Delivered, Answered, Awaiting
  <2>5. /\ UNCHANGED <<session, used, arrays, nextHandle, active, cached, reaped>>
        /\ response' \in {response, None} /\ proxies' \subseteq proxies
    BY <1>8 DEF ClearPending
  <2> QED BY <2>1, <2>2, <2>3, <2>4, <2>5 DEF OtherStep
<1>9. CASE SendHello
  <2>1. \A h \in Doomed' : h \in Doomed
    BY <1>1, <1>2, <1>9 DEF SendHello, Send
  <2>2. \A m \in inbox' : m \in inbox \/ (m.req.op = "budget_open" => active = None)
    BY <1>1, <1>9 DEF SendHello, Send
  <2>3. Answered' => Answered /\ inbox' = inbox
    BY <1>1, <1>9 DEF SendHello, Answered, Awaiting, Send
  <2>4. Undisturbed' => /\ Undisturbed /\ (Delivered' <=> Delivered)
                        /\ Delivered => UNCHANGED <<call, response>>
    BY <1>1, <1>9 DEF SendHello, Undisturbed, Delivered, Answered, Awaiting, Send
  <2>5. /\ UNCHANGED <<session, used, arrays, nextHandle, active, cached, reaped>>
        /\ response' \in {response, None} /\ proxies' \subseteq proxies
    BY <1>9 DEF SendHello, Send
  <2> QED BY <2>1, <2>2, <2>3, <2>4, <2>5 DEF OtherStep
<1>10. CASE SendFree
  <2>1. \A h \in Doomed' : h \in Doomed
    BY <1>1, <1>2, <1>10 DEF SendFree, Send
  <2>2. \A m \in inbox' : m \in inbox \/ (m.req.op = "budget_open" => active = None)
    BY <1>1, <1>10 DEF SendFree, Send
  <2>3. Answered' => Answered /\ inbox' = inbox
    BY <1>1, <1>10 DEF SendFree, Answered, Awaiting, Send
  <2>4. Undisturbed' => /\ Undisturbed /\ (Delivered' <=> Delivered)
                        /\ Delivered => UNCHANGED <<call, response>>
    BY <1>1, <1>10 DEF SendFree, Undisturbed, Delivered, Answered, Awaiting, Send
  <2>5. /\ UNCHANGED <<session, used, arrays, nextHandle, active, cached, reaped>>
        /\ response' \in {response, None} /\ proxies' \subseteq proxies
    BY <1>10 DEF SendFree, Send
  <2> QED BY <2>1, <2>2, <2>3, <2>4, <2>5 DEF OtherStep
<1>11. CASE SendRequest
  <2>1. \A h \in Doomed' : h \in Doomed
    BY <1>1, <1>2, <1>11 DEF SendRequest, Send, CallFits
  <2>2. \A m \in inbox' : m \in inbox \/ (m.req.op = "budget_open" => active = None)
    BY <1>1, <1>11 DEF SendRequest, Send, CallFits
  <2>3. Answered' => Answered /\ inbox' = inbox
    BY <1>1, <1>11 DEF SendRequest, Answered, Awaiting, Send, CallFits
  <2>4. Undisturbed' => /\ Undisturbed /\ (Delivered' <=> Delivered)
                        /\ Delivered => UNCHANGED <<call, response>>
    BY <1>1, <1>11 DEF SendRequest, Undisturbed, Delivered, Answered, Awaiting, Send, CallFits
  <2>5. /\ UNCHANGED <<session, used, arrays, nextHandle, active, cached, reaped>>
        /\ response' \in {response, None} /\ proxies' \subseteq proxies
    BY <1>11 DEF SendRequest, Send, CallFits
  <2> QED BY <2>1, <2>2, <2>3, <2>4, <2>5 DEF OtherStep
<1>12. CASE ReceiveHello
  <2>1. \A h \in Doomed' : h \in Doomed
    BY <1>1, <1>2, <1>12 DEF ReceiveHello, Receive
  <2>2. \A m \in inbox' : m \in inbox \/ (m.req.op = "budget_open" => active = None)
    BY <1>1, <1>12 DEF ReceiveHello, Receive
  <2>3. Answered' => Answered /\ inbox' = inbox
    BY <1>1, <1>12 DEF ReceiveHello, Answered, Awaiting, Receive
  <2>4. Undisturbed' => /\ Undisturbed /\ (Delivered' <=> Delivered)
                        /\ Delivered => UNCHANGED <<call, response>>
    BY <1>1, <1>12 DEF ReceiveHello, Undisturbed, Delivered, Answered, Awaiting, Receive
  <2>5. /\ UNCHANGED <<session, used, arrays, nextHandle, active, cached, reaped>>
        /\ response' \in {response, None} /\ proxies' \subseteq proxies
    BY <1>12 DEF ReceiveHello, Receive
  <2> QED BY <2>1, <2>2, <2>3, <2>4, <2>5 DEF OtherStep
<1>13. CASE ReceiveFreed
  <2>1. \A h \in Doomed' : h \in Doomed
    BY <1>1, <1>2, <1>13 DEF ReceiveFreed, Receive
  <2>2. \A m \in inbox' : m \in inbox \/ (m.req.op = "budget_open" => active = None)
    BY <1>1, <1>13 DEF ReceiveFreed, Receive
  <2>3. Answered' => Answered /\ inbox' = inbox
    BY <1>1, <1>13 DEF ReceiveFreed, Answered, Awaiting, Receive
  <2>4. Undisturbed' => /\ Undisturbed /\ (Delivered' <=> Delivered)
                        /\ Delivered => UNCHANGED <<call, response>>
    BY <1>1, <1>13 DEF ReceiveFreed, Undisturbed, Delivered, Answered, Awaiting, Receive
  <2>5. /\ UNCHANGED <<session, used, arrays, nextHandle, active, cached, reaped>>
        /\ response' \in {response, None} /\ proxies' \subseteq proxies
    BY <1>13 DEF ReceiveFreed, Receive
  <2> QED BY <2>1, <2>2, <2>3, <2>4, <2>5 DEF OtherStep
<1>14. CASE FlushTimesOut
  <2>1. \A h \in Doomed' : h \in Doomed
    BY <1>1, <1>2, <1>14 DEF FlushTimesOut, ResetSocket
  <2>2. \A m \in inbox' : m \in inbox \/ (m.req.op = "budget_open" => active = None)
    BY <1>1, <1>14 DEF FlushTimesOut, ResetSocket
  <2>3. Answered' => Answered /\ inbox' = inbox
    BY <1>1, <1>14 DEF FlushTimesOut, Answered, Awaiting, ResetSocket
  <2>4. Undisturbed' => /\ Undisturbed /\ (Delivered' <=> Delivered)
                        /\ Delivered => UNCHANGED <<call, response>>
    BY <1>1, <1>14 DEF FlushTimesOut, Undisturbed, Delivered, Answered, Awaiting, ResetSocket
  <2>5. /\ UNCHANGED <<session, used, arrays, nextHandle, active, cached, reaped>>
        /\ response' \in {response, None} /\ proxies' \subseteq proxies
    BY <1>14 DEF FlushTimesOut, ResetSocket
  <2> QED BY <2>1, <2>2, <2>3, <2>4, <2>5 DEF OtherStep
<1>15. CASE CallTimesOut
  <2>1. \A h \in Doomed' : h \in Doomed
    BY <1>1, <1>2, <1>15 DEF CallTimesOut, ResetSocket, CallEnds
  <2>2. \A m \in inbox' : m \in inbox \/ (m.req.op = "budget_open" => active = None)
    BY <1>1, <1>15 DEF CallTimesOut, ResetSocket, CallEnds
  <2>3. Answered' => Answered /\ inbox' = inbox
    BY <1>1, <1>15 DEF CallTimesOut, Answered, Awaiting, ResetSocket, CallEnds
  <2>4. Undisturbed' => /\ Undisturbed /\ (Delivered' <=> Delivered)
                        /\ Delivered => UNCHANGED <<call, response>>
    BY <1>1, <1>15 DEF CallTimesOut, Undisturbed, Delivered, Answered, Awaiting, ResetSocket, CallEnds
  <2>5. /\ UNCHANGED <<session, used, arrays, nextHandle, active, cached, reaped>>
        /\ response' \in {response, None} /\ proxies' \subseteq proxies
    BY <1>15 DEF CallTimesOut, ResetSocket, CallEnds
  <2> QED BY <2>1, <2>2, <2>3, <2>4, <2>5 DEF OtherStep
<1>16. CASE DropResponse
  <2>1. \A h \in Doomed' : h \in Doomed
    BY <1>1, <1>2, <1>16 DEF DropResponse
  <2>2. \A m \in inbox' : m \in inbox \/ (m.req.op = "budget_open" => active = None)
    BY <1>1, <1>16 DEF DropResponse
  <2>3. Answered' => Answered /\ inbox' = inbox
    BY <1>1, <1>16 DEF DropResponse, Answered, Awaiting
  <2>4. Undisturbed' => /\ Undisturbed /\ (Delivered' <=> Delivered)
                        /\ Delivered => UNCHANGED <<call, response>>
    BY <1>1, <1>16 DEF DropResponse, Undisturbed, Delivered, Answered, Awaiting
  <2>5. /\ UNCHANGED <<session, used, arrays, nextHandle, active, cached, reaped>>
        /\ response' \in {response, None} /\ proxies' \subseteq proxies
    BY <1>16 DEF DropResponse
  <2> QED BY <2>1, <2>2, <2>3, <2>4, <2>5 DEF OtherStep
<1> QED
  BY <1>4, <1>5, <1>6, <1>7, <1>8, <1>9, <1>10, <1>11, <1>12, <1>13, <1>14, <1>15, <1>16 DEF Next, CallStep, ServerStep

-----------------------------------------------------------------------------
(***************************************************************************)
(* Handles: whatever the timeouts and the order the network delivers in.   *)
(***************************************************************************)
\* Handles of live proxies are stored; none of them is about to be freed or about to
\* be handed out again, and no handle is to be freed before it is minted.
HandleInv ==
  /\ ProxiesBacked
  /\ Carried \subseteq arrays
  /\ proxies \cap Doomed = {}
  /\ Carried \cap (proxies \cup Doomed) = {}
  /\ \A h \in Doomed : h < nextHandle

\* The client, the network and the server keep the handles of live proxies apart from
\* those to be freed.
LEMMA HandleStep ==
  ASSUME TypeOK, ProtocolInv, HandleInv, [Next]_vars
  PROVE  HandleInv'
<1> USE DEF HandleInv, ProxiesBacked, Carried
<1>1. /\ \A h : h \in Doomed <=> \/ h \in pending \cup frees
                                 \/ \E m \in inbox : m.req.op = "free" /\ h \in m.req.ids
      /\ \A h : h \in Doomed' <=> \/ h \in (pending \cup frees)'
                                  \/ \E m \in inbox' : m.req.op = "free" /\ h \in m.req.ids
  BY DEF Doomed
<1>2. /\ \A h \in arrays : h \in Nat /\ h < nextHandle
      /\ nextHandle \in Nat
  BY DEF TypeOK, ServerTypeOK, ProtocolInv, StoreInv
<1>3. CASE OtherStep
  BY <1>2, <1>3 DEF OtherStep
<1>4. CASE ReceiveResponse
  <2>1. /\ response # None /\ response' = None /\ proxies' \subseteq proxies \cup response.ids
        /\ UNCHANGED <<pending, frees, inbox, arrays, nextHandle>>
    BY <1>4 DEF ReceiveResponse, Receive, Receipt, CallEnds, serverVars, networkVars
  <2>2. \A h \in Doomed' : h \in Doomed
    BY <1>1, <2>1
  <2> QED BY <2>1, <2>2
<1>5. ASSUME NEW m \in inbox, Serve(m)
      PROVE  HandleInv'
  <2>1. /\ response = None /\ inbox' = inbox \ {m} /\ Handle(m.req)
        /\ UNCHANGED <<pending, frees, proxies>>
    BY <1>5 DEF Serve, handleVars, callVars
  <2>2. ServerTypeOK /\ m.req \in Request /\ StoreInv
    BY DEF TypeOK, ProtocolInv
  <2>3. /\ response' \in Response /\ nextHandle' \in Nat
        /\ nextHandle <= nextHandle'
        /\ \A h \in response'.ids : nextHandle <= h /\ h < nextHandle' /\ h \in arrays'
        /\ \A h \in arrays \ arrays' : m.req.op = "free" /\ h \in m.req.ids
    BY <2>1, <2>2, HandleKeepsStore DEF ServerTypeOK
  <2>4. \A h \in Doomed' : h \in Doomed
    BY <1>1, <2>1
  <2>5. \A h \in Doomed : h \in Nat /\ h < nextHandle
    <3>1. \A n \in inbox : n.req.op = "free" => n.req.ids \subseteq Nat
      BY DEF TypeOK, Request
    <3>2. \A h \in Doomed : h \in Nat
      BY <1>1, <3>1 DEF TypeOK
    <3> QED BY <3>2
  <2>6. response' # None /\ response'.ids \in SUBSET Nat
    BY <2>3 DEF Response
  <2>7. proxies' \subseteq arrays'
    BY <1>1, <2>1, <2>3
  <2>8. \A h \in response'.ids : h \notin proxies /\ h \notin Doomed
    BY <1>2, <2>3, <2>5, <2>6
  <2>9. \A h \in Doomed' : h < nextHandle'
    BY <1>2, <2>3, <2>4, <2>5
  <2> QED BY <2>1, <2>3, <2>4, <2>6, <2>7, <2>8, <2>9
<1>6. CASE ReapIdle
  <2>1. UNCHANGED <<pending, frees, inbox, proxies, arrays, nextHandle, response>>
    BY <1>6 DEF ReapIdle, Reap, CloseSession, handleVars, callVars, networkVars
  <2> QED BY <1>1, <2>1
<1>7. CASE UNCHANGED vars
  <2>1. UNCHANGED <<pending, frees, inbox, proxies, arrays, nextHandle, response>>
    BY <1>7 DEF vars, handleVars, callVars, networkVars, serverAll, serverVars
  <2> QED BY <1>1, <2>1
<1> QED BY <1>3, <1>4, <1>5, <1>6, <1>7, OtherSteps

\* A live proxy always has its array on the server: no free, whatever its age, its order
\* and its socket, removes an array a proxy still refers to.
THEOREM RemoteProxiesBacked == Spec => []ProxiesBacked
<1>1. Init => HandleInv
  BY DEF Init, ServerInit, HandleInv, ProxiesBacked, Carried, Doomed
<1>2. TypeOK /\ ProtocolInv /\ HandleInv /\ [Next]_vars => HandleInv'
  BY HandleStep
<1>3. HandleInv => ProxiesBacked
  BY DEF HandleInv
<1> QED BY <1>1, <1>2, <1>3, RemoteProtocol, PTL DEF Spec

-----------------------------------------------------------------------------
(***************************************************************************)
(* What the client knows of the session, while no call has timed out and   *)
(* no session was reaped.                                                  *)
(***************************************************************************)
\* A call that opens or closes the session was served and has not returned.
Turning ==
  /\ Delivered /\ response.status = "ok"
  /\ call.req.op \in {"budget_open", "budget_close"}

\* Client and server agree, but for a call that turns the session.
AgreementInv ==
  Undisturbed =>
    IF Turning THEN session <=> call.req.op = "budget_open"
               ELSE session <=> active # None

\* The cached count is the server's, but for a call whose answer holds what is missing.
CurrentInv ==
  Undisturbed /\ session =>
    /\ Turning => used = 0
    /\ active # None /\ ~ Delivered => cached[active] = used
    /\ active # None /\ Delivered =>
         /\ cached[active] <= used
         /\ response.budget \in {None, used}
         /\ response.budget = None => cached[active] = used
         /\ call.req.op = "budget_summary" /\ response.status = "ok"
              => response.summary = used

\* The session turns with the call that turns it.
LEMMA AgreementStep ==
  ASSUME TypeOK, ProtocolInv, AgreementInv, [Next]_vars
  PROVE  AgreementInv'
<1> SUFFICES ASSUME Undisturbed'
             PROVE  IF Turning' THEN session' <=> (call.req.op = "budget_open")'
                                ELSE session' <=> (active # None)'
  BY DEF AgreementInv
<1>1. session \in BOOLEAN
  BY DEF TypeOK, ServerTypeOK
<1>2. CASE OtherStep
  BY <1>1, <1>2 DEF OtherStep, AgreementInv, Turning
<1>3. CASE ReceiveResponse
  <2>1. /\ Undisturbed /\ phase = "waiting" /\ phase' = "idle" /\ response # None
        /\ session' = session /\ Receipt(response) /\ CallFits
    BY <1>3 DEF ReceiveResponse, Receive, CallEnds, Goto, Undisturbed, serverVars, ProtocolInv
  <2>2. ~ Turning'
    BY <2>1 DEF Turning, Delivered
  <2>3. CASE Turning
    <3>1. session <=> call.req.op = "budget_open"
      BY <2>1, <2>3 DEF AgreementInv
    <3>2. active' # None <=> call.req.op = "budget_open"
      BY <2>1, <2>3 DEF Receipt, Turning, CallFits, BudgetOps
    <3> QED BY <2>1, <2>2, <3>1, <3>2
  <2>4. CASE ~ Turning
    <3>1. session <=> active # None
      BY <2>1, <2>4 DEF AgreementInv
    <3>2. active' = active
      BY <2>1, <2>4 DEF Receipt, Turning, Delivered
    <3> QED BY <2>1, <2>2, <3>1, <3>2
  <2> QED BY <2>3, <2>4
<1>4. ASSUME NEW m \in inbox, Serve(m)
      PROVE  IF Turning' THEN session' <=> (call.req.op = "budget_open")'
                         ELSE session' <=> (active # None)'
  <2>1. /\ response = None /\ Handle(m.req) /\ Undisturbed
        /\ UNCHANGED <<phase, call, frees, active>>
    BY <1>4 DEF Serve, Undisturbed, callVars, budgetVars, socketVars
  <2>2. /\ ServerTypeOK /\ m.req \in Request
        /\ m.req = Outstanding /\ phase \in Awaiting
    BY <2>1, UndisturbedProtocol DEF TypeOK
  <2>3. session <=> active # None
    BY <2>1 DEF AgreementInv, Turning, Delivered
  <2>4. /\ phase = "waiting" => m.req = call.req
        /\ phase # "waiting" => m.req.op \in {"hello", "free"}
    BY <2>2 DEF Outstanding, Awaiting
  <2>5. response' # None
    BY <2>1, <2>2, HandleKeepsStore DEF ProtocolInv
  <2>6. \/ session' = session /\ ~ Turning'
        \/ session' = TRUE /\ Turning' /\ call'.req.op = "budget_open"
        \/ session' = FALSE /\ Turning' /\ call'.req.op = "budget_close"
    <3> USE DEF Turning, Delivered
    <3>1. CASE UNCHANGED serverVars
               /\ (m.req.op \in {"budget_open", "budget_close"} => response'.status # "ok")
      BY <2>1, <2>4, <3>1 DEF serverVars
    <3>2. CASE m.req.op = "budget_open" /\ session' = TRUE /\ response' = Ok(None, None, {})
      BY <2>1, <2>4, <2>5, <3>2 DEF Ok
    <3>3. CASE m.req.op = "budget_close" /\ session' = FALSE /\ response' = Ok(None, used, {})
      BY <2>1, <2>4, <2>5, <3>3 DEF Ok
    <3>4. CASE m.req.op \in {"free", "compute"} /\ session' = session
      BY <2>1, <2>4, <3>4
    <3>5. Run(m.req.kernel) => session' = session
      BY DEF Run
    <3> QED BY <2>1, <2>2, <3>1, <3>2, <3>3, <3>4, <3>5, HandleOutcomes
  <2> QED BY <2>1, <2>3, <2>6
<1>5. CASE ReapIdle
  BY <1>5 DEF ReapIdle, Undisturbed
<1>6. CASE UNCHANGED vars
  BY <1>6 DEF vars, AgreementInv, Turning, Delivered, Undisturbed, budgetVars, callVars,
     socketVars, serverAll, serverVars
<1> QED BY <1>2, <1>3, <1>4, <1>5, <1>6, OtherSteps

\* What a request served does to the client's view of an undisturbed session.
LEMMA ServeKeepsCurrent ==
  ASSUME TypeOK, ProtocolInv, AgreementInv, CurrentInv, NEW m \in inbox, Serve(m),
         Undisturbed', session'
  PROVE  /\ Turning' => used' = 0
         /\ (active # None)' /\ ~ Delivered' => cached'[active'] = used'
         /\ (active # None)' /\ Delivered' =>
              /\ cached'[active'] <= used'
              /\ response'.budget \in {None, used'}
              /\ response'.budget = None => cached'[active'] = used'
              /\ call'.req.op = "budget_summary" /\ response'.status = "ok"
                   => response'.summary = used'
<1>1. /\ response = None /\ Handle(m.req) /\ Undisturbed
      /\ UNCHANGED <<phase, call, frees, active, cached>>
  BY DEF Serve, Undisturbed, callVars, budgetVars, socketVars
<1>2. /\ ServerTypeOK /\ m.req \in Request /\ session \in BOOLEAN /\ used \in Nat
      /\ m.req = Outstanding /\ phase \in Awaiting
  BY <1>1, UndisturbedProtocol DEF TypeOK, ServerTypeOK
<1>3. /\ phase = "waiting" => m.req = call.req
      /\ phase # "waiting" => m.req.op \in {"hello", "free"}
  BY <1>2 DEF Outstanding, Awaiting
<1>4. session <=> active # None
  BY <1>1 DEF AgreementInv, Turning, Delivered
<1>5. active # None => /\ cached[active] = used /\ cached[active] \in Nat
                       /\ active \in Contexts
  BY <1>1, <1>4 DEF CurrentInv, Delivered, TypeOK
<1> USE DEF Turning, Delivered
<1>6. CASE /\ UNCHANGED serverVars /\ response'.budget \in {None, used}
           /\ m.req.op \in {"budget_open", "budget_close"} => response'.status # "ok"
           /\ m.req.op = "budget_summary" /\ response'.status = "ok" => response'.summary = used
  <2>1. session /\ used' = used
    BY <1>6 DEF serverVars
  <2>2. Turning' => FALSE
    BY <1>1, <1>3, <1>6
  <2>3. active # None => cached'[active'] = used' /\ cached'[active'] <= used'
    BY <1>1, <1>2, <1>5, <2>1
  <2> QED BY <1>1, <1>3, <1>6, <2>1, <2>2, <2>3
<1>7. CASE m.req.op = "budget_open" /\ ~ session /\ used' = 0 /\ response' = Ok(None, None, {})
  BY <1>1, <1>3, <1>4, <1>7 DEF Ok
<1>8. CASE m.req.op = "free" /\ used' = used /\ response' = Ok(None, None, {})
  BY <1>1, <1>2, <1>3, <1>5, <1>8 DEF Ok
<1>9. CASE /\ m.req.op = "compute" /\ used' \in Nat /\ used <= used' /\ response'.budget = used'
  <2>1. Delivered' /\ ~ Turning' /\ call'.req.op = "compute"
    BY <1>1, <1>2, <1>3, <1>9, HandleKeepsStore DEF ProtocolInv
  <2>2. active # None => cached'[active'] <= used'
    BY <1>1, <1>2, <1>5, <1>9
  <2>3. used' # None
    BY <1>9
  <2> HIDE DEF Turning, Delivered
  <2> QED BY <1>1, <1>9, <2>1, <2>2, <2>3
<1>10. ASSUME m.req.op = "compute", Run(m.req.kernel)
       PROVE  used' \in Nat /\ used <= used' /\ response'.budget = used'
  <2>1. m.req.kernel \in Kernels /\ m.req.kernel.cost \in Nat
    <3>1. m.req.kernel \in Kernels
      BY <1>2, <1>10 DEF Request
    <3> QED BY <3>1
  <2>2. used' = used + m.req.kernel.cost /\ response'.budget = used'
    BY <1>2, <1>10, <2>1, RunOutcomes DEF ProtocolInv
  <2> QED BY <1>2, <2>1, <2>2
<1> QED BY <1>1, <1>2, <1>6, <1>7, <1>8, <1>9, <1>10, HandleOutcomes

\* The answers bring the client's count to the server's.
LEMMA CurrentStep ==
  ASSUME TypeOK, ProtocolInv, AgreementInv, CurrentInv, [Next]_vars
  PROVE  CurrentInv'
<1>1. CASE OtherStep
  BY <1>1 DEF OtherStep, CurrentInv, Turning
<1>2. CASE ReceiveResponse
  <2> SUFFICES ASSUME Undisturbed', session'
               PROVE  (active # None)' => cached'[active'] = used'
    BY <1>2 DEF CurrentInv, Turning, Delivered, ReceiveResponse, CallEnds, Goto
  <2>1. /\ Undisturbed /\ Delivered /\ Receipt(response) /\ CallFits
        /\ UNCHANGED <<session, used>>
    BY <1>2 DEF ReceiveResponse, Receive, Undisturbed, Delivered, serverVars, ProtocolInv
  <2>2. /\ cached \in [Contexts -> Nat] /\ used \in Nat /\ active \in Contexts \cup {None}
        /\ response \in Response
    BY <2>1 DEF TypeOK, ServerTypeOK, Delivered
  <2>3. Turning => call.req.op = "budget_open" /\ used = 0
    BY <2>1 DEF AgreementInv, CurrentInv
  <2>4. active # None => Synced(response) = [cached EXCEPT ![active] = used]
    <3>1. CASE response.budget = None
      <4>1. active # None => cached[active] = used
        BY <2>1, <3>1 DEF CurrentInv
      <4> QED BY <2>2, <3>1, <4>1 DEF Synced
    <3>2. CASE response.budget = used /\ used # None
      <4>1. active # None => cached[active] <= used /\ cached[active] \in Nat
        BY <2>1, <2>2 DEF CurrentInv
      <4>2. active # None => (IF used > cached[active] THEN used ELSE cached[active]) = used
        BY <2>2, <4>1
      <4> QED BY <2>2, <3>2, <4>2 DEF Synced
    <3> QED BY <2>1, <2>2, <3>1, <3>2 DEF CurrentInv
  <2>5. CASE ~ (response.status = "ok") \/ call.req.op \in {"fetch", "compute"}
    BY <2>1, <2>2, <2>4, <2>5 DEF Receipt
  <2>6. CASE response.status = "ok" /\ call.req.op = "budget_summary"
    <3>1. /\ cached' = [Synced(response) EXCEPT ![active] = response.summary]
          /\ active' = active /\ active \in Contexts
      BY <2>1, <2>2, <2>6 DEF Receipt, CallFits, BudgetOps
    <3>2. response.summary = used /\ active # None
      BY <2>1, <2>6, <3>1 DEF CurrentInv
    <3> QED BY <2>1, <2>2, <2>4, <3>1, <3>2
  <2>7. CASE response.status = "ok" /\ call.req.op = "budget_open"
    <3>1. used = 0
      BY <2>1, <2>7 DEF CurrentInv, Turning
    <3>2. cached' = [cached EXCEPT ![call.ctx] = 0] /\ active' = call.ctx /\ call.ctx \in Contexts
      BY <2>1, <2>7 DEF Receipt, CallFits, BudgetOps
    <3> QED BY <2>1, <2>2, <3>1, <3>2
  <2>8. CASE response.status = "ok" /\ call.req.op = "budget_close"
    BY <2>1, <2>3, <2>8 DEF Turning
  <2>9. call.req.op \in {"budget_open", "budget_close", "budget_summary", "fetch", "compute"}
    BY <2>1 DEF CallFits, Call, Request
  <2> QED BY <2>5, <2>6, <2>7, <2>8, <2>9
<1>3. ASSUME NEW m \in inbox, Serve(m)
      PROVE  CurrentInv'
  BY <1>3, ServeKeepsCurrent DEF CurrentInv
<1>4. CASE ReapIdle
  BY <1>4 DEF ReapIdle, CurrentInv, Undisturbed
<1>5. CASE UNCHANGED vars
  BY <1>5 DEF vars, CurrentInv, Turning, Delivered, Undisturbed, budgetVars, callVars,
     socketVars, serverAll, serverVars
<1> QED BY <1>1, <1>2, <1>3, <1>4, <1>5, OtherSteps

\* Together, from the first state on.
LEMMA RemoteAgreement == Spec => [](AgreementInv /\ CurrentInv)
<1>1. Init => AgreementInv /\ CurrentInv
  BY DEF Init, ServerInit, AgreementInv, CurrentInv, Turning, Delivered
<1>2. TypeOK /\ ProtocolInv /\ (AgreementInv /\ CurrentInv) /\ [Next]_vars
        => (AgreementInv /\ CurrentInv)'
  BY AgreementStep, CurrentStep
<1> QED BY <1>1, <1>2, RemoteProtocol, PTL DEF Spec

\* While no call has timed out and no session was reaped, client and server agree
\* between two calls whether a session is open.
THEOREM RemoteSessionAgreed == Spec => []SessionAgreed
<1>1. AgreementInv => SessionAgreed
  BY DEF AgreementInv, SessionAgreed, Turning, Delivered, Idle
<1> QED BY <1>1, RemoteAgreement, PTL

\* And the count the client has cached is the server's, also after operations that
\* were charged and failed.
THEOREM RemoteCountCurrent == Spec => []CountCurrent
<1>1. AgreementInv /\ CurrentInv => CountCurrent
  BY DEF AgreementInv, CurrentInv, CountCurrent, Turning, Delivered, Idle
<1> QED BY <1>1, RemoteAgreement, PTL

-----------------------------------------------------------------------------
(***************************************************************************)
(* The count of a client that may have timed out: it is never ahead of the *)
(* session, provided that no request overtakes one of an older socket.     *)
(***************************************************************************)
\* A response of the session reports no more than was used; once the answer to the
\* current socket is there nothing older is on its way, and no request to open
\* another session is while one is active.
AheadInv ==
  /\ CountNeverAhead
  /\ response # None /\ session =>
       /\ response.budget # None => response.budget <= used
       /\ response.summary # None => response.summary <= used
  /\ Answered => inbox = {}
  /\ active # None => \A m \in inbox : m.req.op # "budget_open"

\* A response taken up leaves the count at most at what was used.
LEMMA ReceiptKeepsBehind ==
  ASSUME TypeOK, ProtocolInv, AheadInv, ReceiveResponse, (active # None)', session'
  PROVE  cached'[active'] <= used'
<1>1. /\ response # None /\ Receipt(response) /\ CallFits /\ session /\ used' = used
      /\ response \in Response /\ cached \in [Contexts -> Nat] /\ used \in Nat
      /\ active \in Contexts \cup {None}
  BY DEF ReceiveResponse, Receive, serverVars, ProtocolInv, TypeOK, ServerTypeOK
<1>2. active # None => /\ Synced(response) \in [Contexts -> Nat]
                       /\ Synced(response)[active] <= used
  <2>1. response.budget # None => response.budget \in Nat /\ response.budget <= used
    BY <1>1 DEF AheadInv, Response
  <2>2. active # None => cached[active] \in Nat /\ cached[active] <= used
    BY <1>1 DEF AheadInv, CountNeverAhead
  <2> QED BY <1>1, <2>1, <2>2 DEF Synced
<1>3. CASE ~ (response.status = "ok") \/ call.req.op \in {"fetch", "compute"}
  BY <1>1, <1>2, <1>3 DEF Receipt
<1>4. CASE response.status = "ok" /\ call.req.op = "budget_summary"
  <2>1. response.summary \in Nat /\ response.summary <= used
    <3>1. response.summary \in Nat
      BY <1>4 DEF ReceiveResponse, Receive, Answered, ProtocolInv, LockStep
    <3> QED BY <1>1, <3>1 DEF AheadInv
  <2>2. /\ cached' = [Synced(response) EXCEPT ![active] = response.summary]
        /\ active' = active /\ active \in Contexts
    BY <1>1, <1>4 DEF Receipt, CallFits, BudgetOps
  <2> QED BY <1>1, <1>2, <2>1, <2>2
<1>5. CASE response.status = "ok" /\ call.req.op = "budget_open"
  <2>1. cached' = [cached EXCEPT ![call.ctx] = 0] /\ active' = call.ctx /\ call.ctx \in Contexts
    BY <1>1, <1>5 DEF Receipt, CallFits, BudgetOps
  <2> QED BY <1>1, <2>1
<1>6. CASE response.status = "ok" /\ call.req.op = "budget_close"
  BY <1>1, <1>6 DEF Receipt
<1>7. call.req.op \in {"budget_open", "budget_close", "budget_summary", "fetch", "compute"}
  BY <1>1 DEF CallFits, Call, Request
<1> QED BY <1>3, <1>4, <1>5, <1>6, <1>7

\* The count stays behind, and nothing the network still holds can turn the session
\* unseen.
LEMMA AheadStep ==
  ASSUME TypeOK, ProtocolInv, AheadInv, Ordered, [Next]_vars
  PROVE  AheadInv'
<1>1. CASE OtherStep
  <2>1. UNCHANGED <<active, session, used, cached>> /\ response' \in {response, None}
    BY <1>1 DEF OtherStep
  <2>2. CountNeverAhead'
    BY <2>1 DEF AheadInv, CountNeverAhead
  <2>3. response' # None /\ session' =>
          /\ response'.budget # None => response'.budget <= used'
          /\ response'.summary # None => response'.summary <= used'
    BY <2>1 DEF AheadInv
  <2>4. Answered' => inbox' = {}
    BY <1>1 DEF OtherStep, AheadInv
  <2>5. (active # None)' => \A m \in inbox' : m.req.op # "budget_open"
    BY <1>1, <2>1 DEF OtherStep, AheadInv
  <2> QED BY <2>2, <2>3, <2>4, <2>5 DEF AheadInv
<1>2. CASE ReceiveResponse
  <2>1. inbox' = inbox /\ response' = None /\ Answered
    BY <1>2 DEF ReceiveResponse, Receive, networkVars, Answered
  <2>2. inbox' = {} /\ ~ Answered'
    BY <2>1 DEF AheadInv, Answered
  <2> QED BY <1>2, <2>1, <2>2, ReceiptKeepsBehind DEF AheadInv, CountNeverAhead
<1>3. ASSUME NEW m \in inbox, Serve(m)
      PROVE  AheadInv'
  <2>1. /\ response = None /\ Handle(m.req) /\ inbox' = inbox \ {m} /\ sender' = m.from
        /\ \A n \in inbox : m.from <= n.from
        /\ UNCHANGED <<phase, call, frees, active, cached, socket>>
    BY <1>3 DEF Serve, callVars, budgetVars, socketVars
  <2>2. /\ ServerTypeOK /\ m.req \in Request /\ session \in BOOLEAN /\ used \in Nat
        /\ active # None => active \in Contexts /\ cached[active] \in Nat
    BY DEF TypeOK, ServerTypeOK
  <2>3. Answered' => inbox' = {}
    <3>1. \A n \in inbox : /\ n.from \in Nat /\ n.from <= socket /\ socket \in Nat
                           /\ n \in [from : Sockets, req : Request]
                           /\ n.from = socket => n.req = Outstanding
      BY DEF TypeOK, Sockets, ProtocolInv, LockStep
    <3>2. ASSUME Answered', NEW n \in inbox
          PROVE  n = m
      <4>1. m.from = socket /\ n.from = socket
        <5>1. m.from = socket
          BY <2>1, <3>2 DEF Answered
        <5>2. n.from <= socket /\ socket <= n.from /\ n.from \in Nat /\ socket \in Nat
          BY <2>1, <3>1, <5>1
        <5> QED BY <5>1, <5>2
      <4>2. m.req = n.req
        BY <3>1, <4>1
      <4> QED BY <3>1, <4>1, <4>2
    <3> QED BY <2>1, <3>2
  <2>4. (active # None)' => \A n \in inbox' : n.req.op # "budget_open"
    BY <2>1 DEF AheadInv
  <2>5. active # None => m.req.op # "budget_open"
    BY DEF AheadInv
  <2>6. active # None /\ session => cached[active] <= used
    BY DEF AheadInv, CountNeverAhead
  <2>7. /\ (active # None)' /\ session' => cached'[active'] <= used'
        /\ session' => /\ response'.budget # None => response'.budget <= used'
                       /\ response'.summary # None => response'.summary <= used'
    <3>1. CASE /\ UNCHANGED serverVars
               /\ response'.budget \in {None, used} /\ response'.summary \in {None, used}
      <4>1. session' = session /\ used' = used
        BY <3>1 DEF serverVars
      <4> QED BY <2>1, <2>2, <2>6, <3>1, <4>1
    <3>2. CASE m.req.op = "budget_open" /\ response' = Ok(None, None, {})
      BY <2>1, <2>5, <3>2 DEF Ok
    <3>3. CASE session' = FALSE
      BY <3>3
    <3>4. CASE m.req.op = "free" /\ session' = session /\ used' = used /\ response' = Ok(None, None, {})
      BY <2>1, <2>6, <3>4 DEF Ok
    <3>5. CASE /\ m.req.op = "compute" /\ session /\ used' \in Nat /\ used <= used'
               /\ response'.budget = used' /\ response'.summary = None
      BY <2>1, <2>2, <2>6, <3>5
    <3>6. ASSUME m.req.op = "compute", Run(m.req.kernel)
          PROVE  /\ used' \in Nat /\ used <= used'
                 /\ response'.budget = used' /\ response'.summary = None
      <4>1. m.req.kernel \in Kernels
        BY <2>2, <3>6 DEF Request
      <4>2. m.req.kernel.cost \in Nat
        BY <4>1
      <4> QED BY <2>2, <3>6, <4>1, <4>2, RunOutcomes DEF ProtocolInv
    <3> QED BY <2>1, <2>2, <3>1, <3>2, <3>3, <3>4, <3>5, <3>6, HandleOutcomes
  <2> QED BY <2>3, <2>4, <2>7 DEF AheadInv, CountNeverAhead
<1>4. CASE ReapIdle
  BY <1>4 DEF ReapIdle, Reap, CloseSession, AheadInv, CountNeverAhead, Answered,
     budgetVars, socketVars, networkVars
<1>5. CASE UNCHANGED vars
  BY <1>5 DEF vars, AheadInv, CountNeverAhead, Answered, budgetVars, socketVars,
     networkVars, serverAll, serverVars
<1> QED BY <1>1, <1>2, <1>3, <1>4, <1>5, OtherSteps

\* Whatever times out, and whatever the server reaps, a client never takes less of its
\* budget to be left than there is: the count of the active context never runs ahead
\* of the session, when the network keeps the order of the sockets.
THEOREM RemoteCountNeverAhead == Ordered => (Spec => []CountNeverAhead)
<1> SUFFICES ASSUME Ordered PROVE Spec => []CountNeverAhead
  OBVIOUS
<1>1. Init => AheadInv
  BY DEF Init, ServerInit, AheadInv, CountNeverAhead, Answered
<1>2. TypeOK /\ ProtocolInv /\ AheadInv /\ [Next]_vars => AheadInv'
  BY AheadStep
<1>3. AheadInv => CountNeverAhead
  BY DEF AheadInv
<1> QED BY <1>1, <1>2, <1>3, RemoteProtocol, PTL DEF Spec
=============================================================================
