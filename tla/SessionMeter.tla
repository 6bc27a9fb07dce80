---------------------------- MODULE SessionMeter ----------------------------
(***************************************************************************)
(* What a user of budgets relies on, without threads, locks or closing: a  *)
(* FLOP charged to a context is added once to what the context has spent   *)
(* and once to the session total, no context spends more than its budget,  *)
(* and the session total goes down only while budget_reset() runs.  The    *)
(* one exception is a default context that another one replaced: it is     *)
(* disowned, and what is charged to it is in no total.                     *)
(***************************************************************************)
EXTENDS Naturals

CONSTANTS
  Ctx,
  Defaults,   \* the contexts that may be disowned
  Budget

VARIABLES
  spent,      \* FLOPs charged to each context since it was created
  total,      \* per context, its part of the session total
  disowned,   \* defaults that were replaced
  resetting   \* budget_reset() is running

meter == <<spent, total, disowned, resetting>>

Init ==
  /\ spent = [c \in Ctx |-> 0]
  /\ total = [c \in Ctx |-> 0]
  /\ disowned = {}
  /\ resetting = FALSE

Charge ==
  \E c \in Ctx :
    LET n == spent'[c] - spent[c] IN
    /\ spent'[c] \in spent[c] .. Budget[c]
    /\ spent' = [spent EXCEPT ![c] = @ + n]
    /\ total' = IF c \in disowned THEN total ELSE [total EXCEPT ![c] = @ + n]
    /\ UNCHANGED <<disowned, resetting>>

Disown ==
  \E d \in Defaults \ disowned :
    /\ disowned' = disowned \cup {d}
    /\ total' = [total EXCEPT ![d] = 0]
    /\ UNCHANGED <<spent, resetting>>

BeginReset ==
  /\ ~ resetting
  /\ resetting' = TRUE
  /\ UNCHANGED <<spent, total, disowned>>

Forget ==
  /\ resetting
  /\ total' \in [Ctx -> Nat]
  /\ \A c \in Ctx : total'[c] <= total[c]
  /\ UNCHANGED <<spent, disowned, resetting>>

EndReset ==
  /\ resetting
  /\ resetting' = FALSE
  /\ UNCHANGED <<spent, total, disowned>>

Next == Charge \/ Disown \/ BeginReset \/ Forget \/ EndReset

Spec == Init /\ [][Next]_meter
=============================================================================
