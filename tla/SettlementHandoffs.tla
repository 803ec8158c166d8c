------------------------- MODULE SettlementHandoffs -------------------------
(***************************************************************************)
(* The execution status of one settlement handoff: the transition table of *)
(* the gateway's state machine and the transaction that records an event   *)
(* (gateway/src/core/settlementStateMachine.ts and settlementStore.ts).    *)
(* An event is known by its dedupe key, here its type and the request id   *)
(* that produced it; a repeated event changes nothing and is not refused.  *)
(***************************************************************************)
EXTENDS Naturals, FiniteSets

VARIABLES
    execution_status,   \* settlement_handoffs.execution_status
    dedupe_keys         \* the <<event type, request id>> pairs of settlement_execution_events

handoffVars == <<execution_status, dedupe_keys>>

HandoffInit ==
    /\ execution_status = "pending"
    /\ dedupe_keys = {}

EXECUTION_TRANSITIONS(current) ==
    LET sent == {"broadcast_unknown", "confirmation_pending", "submitted", "failed", "rejected"}
        mined == {"confirmed", "reverted", "replaced"}
    IN  CASE current = "pending" -> sent \cup {"accepted", "queued"}
          [] current = "accepted" -> sent \cup {"queued"}
          [] current = "queued" -> sent
          [] current \in {"broadcast_unknown", "submitted"} -> mined \cup {"confirmation_pending"}
          [] current = "confirmation_pending" -> mined
          [] OTHER -> {current}

(* validateExecutionTransition: TRUE where the code returns, FALSE where it throws. *)
validateExecutionTransition(next, eventType) ==
    LET current == execution_status IN
    CASE eventType = "chain_evidence_orphaned" ->
            /\ current \in {"confirmed", "reverted", "confirmation_pending"}
            /\ next = "confirmation_pending"
      [] eventType \in {"reconciled", "drift_detected"} -> current = "confirmed" /\ next = current
      [] eventType = "simulation_completed" -> next = current
      [] OTHER -> next = current \/ next \in EXECUTION_TRANSITIONS(current)

Recorded(eventType, requestId) == <<eventType, requestId>> \in dedupe_keys

(* The transaction of recordExecutionEvent under the row lock of the handoff. *)
Accepts(eventType, next, requestId) ==
    Recorded(eventType, requestId) \/ validateExecutionTransition(next, eventType)

recordExecutionEvent(eventType, next, requestId) ==
    /\ Accepts(eventType, next, requestId)
    /\ IF Recorded(eventType, requestId)
       THEN UNCHANGED handoffVars
       ELSE /\ execution_status' = next
            /\ dedupe_keys' = dedupe_keys \cup {<<eventType, requestId>>}
=============================================================================
