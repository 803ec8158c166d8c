------------------------------ MODULE MCProgress ------------------------------
(***************************************************************************)
(* What must eventually happen in the services that poll: the oracle's     *)
(* confirmation worker, the gateway's callback dispatcher and the outbox   *)
(* of operational alerts, each under the fairness its scheduler gives.     *)
(* They share no state, so each behaviour follows one of them, named by    *)
(* part.  In the first state of the other two nothing is due, so their     *)
(* fairness asks nothing of the behaviour.                                 *)
(***************************************************************************)
EXTENDS Naturals, Sequences

CONSTANTS NoHandler, None

VARIABLES
    part,
    oracle_triggers, lock, handler, worker, trade, paused, contained, tx, indexed,
    saidAbsent, crashes, reorgs,
    enabled, latest_event, callback_status, delivery, failure_state, job, received, faults,
    alert, delivering, rows, pass, deaths

oracleVars ==
    <<oracle_triggers, lock, handler, worker, trade, paused, contained, tx, indexed,
      saidAbsent, crashes, reorgs>>
callbackVars ==
    <<enabled, latest_event, callback_status, delivery, failure_state, job, received, faults>>
alertVars == <<alert, delivering, rows, pass, deaths>>
vars == <<part, oracleVars, callbackVars, alertVars>>

Confirmation == INSTANCE OracleDispatch WITH
    Handlers <- {"handler"}, Trades <- {1, 2}, Requests <- {"r1"}, maxAttempts <- 1,
    manualApprovalEnabled <- FALSE, BATCH_SIZE <- 2, Holdable <- {}, MaxRows <- 2,
    MaxCrashes <- 1, MaxReorgs <- 0
Callbacks == INSTANCE SettlementCallbacks WITH
    Workers <- {"worker"}, MaxEvents <- 2, MaxAttempts <- 2, MaxReplays <- 1, MaxFaults <- 1
Alerts == INSTANCE NotificationOutbox WITH
    Alerts <- {"alert", "another"}, Dispatchers <- {"dispatcher"}, MaxRows <- 3,
    maxAttempts <- 2, MaxCrashes <- 1, crashes <- deaths

Init ==
    /\ part \in {"confirmation", "callbacks", "alerts"}
    /\ Confirmation!Init
    /\ part # "confirmation" => \A t \in DOMAIN trade : trade[t] = "absent"
    /\ Callbacks!CallbackInit
    /\ Alerts!OutboxInit

Next ==
    /\ UNCHANGED part
    /\ \/ /\ part = "confirmation" /\ Confirmation!Next
          /\ UNCHANGED <<callbackVars, alertVars>>
       \/ /\ part = "callbacks" /\ Callbacks!CallbackNext
          /\ UNCHANGED <<oracleVars, alertVars>>
       \/ /\ part = "alerts" /\ Alerts!OutboxNext
          /\ UNCHANGED <<oracleVars, callbackVars>>

Spec ==
    /\ Init /\ [][Next]_vars
    /\ Confirmation!Fairness
    /\ Callbacks!CallbackFairness
    /\ Alerts!OutboxFairness

-----------------------------------------------------------------------------
(* A successful transaction whose hash was recorded ends CONFIRMED for good, although the
   handler's late SUBMITTED write may undo the worker's (resolveConfirmation). *)
SettledRowConfirmed == Confirmation!SettledRowConfirmed

(* While callbacks stay enabled every recorded event is delivered or dead-lettered, also
   when the dispatcher that leased it died (getDueCallbackDeliveries). *)
EveryCallbackSettles == Callbacks!EveryCallbackSettles

(* No critical alert is dropped on the way to its delivery or its escalation
   (dispatchPendingAlerts, deadLetterExhausted, claimEscalations). *)
EveryAlertSettles == Alerts!EveryAlertSettles

=============================================================================
