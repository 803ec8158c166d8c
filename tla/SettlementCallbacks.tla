------------------------ MODULE SettlementCallbacks ------------------------
(***************************************************************************)
(* The callbacks the gateway owes the platform for the events of one       *)
(* settlement handoff: a delivery row per event, dispatchers that lease    *)
(* and post them, dead letters, their copy in the failed-operation ledger, *)
(* and the operator's replay.  Events are numbered in the order in which   *)
(* they are recorded.  A dispatcher runs its poll loop and, outside the    *)
(* loop's guard, the replays of the operators; both lease with its worker  *)
(* id.                                                                     *)
(***************************************************************************)
EXTENDS Naturals, FiniteSets

CONSTANTS
    Workers,        \* dispatcher processes
    MaxEvents,      \* bound on the events of the handoff
    MaxAttempts,    \* settlementCallbackMaxAttempts
    MaxReplays,     \* bound on the replays of one delivery
    MaxFaults,      \* bound on crashes, redeployments, stalls and failed writes
    None

VARIABLES
    enabled,            \* settlementCallbackEnabled
    latest_event,       \* settlement_handoffs.latest_event_id
    callback_status,    \* settlement_handoffs.callback_status
    delivery,           \* settlement_callback_deliveries by event: status, attempts, owner
    failure_state,      \* failed_operations.failure_state by event
    job,                \* what the poll loop and the replay of each worker are doing
    received,           \* events whose callback the platform has taken
    faults

vars == <<enabled, latest_event, callback_status, delivery, failure_state, job, received, faults>>

Events == 1 .. MaxEvents
Jobs == Workers \X {"poll", "replay"}
idle == [at |-> "idle", event |-> 0, attempt |-> 0]

CallbackInit ==
    /\ enabled = TRUE
    /\ latest_event = 0
    /\ callback_status = "pending"
    /\ delivery = [e \in Events |-> [status |-> "none", attempts |-> 0, owner |-> None]]
    /\ failure_state = [e \in Events |-> "none"]
    /\ job = [j \in Jobs |-> idle]
    /\ received = {}
    /\ faults = 0

step(j, label) == job' = [job EXCEPT ![j].at = label]
fault == faults < MaxFaults /\ faults' = faults + 1

-----------------------------------------------------------------------------
(* recordExecutionEvent: the event, the handoff's latest event and the delivery are
   written in one transaction. *)
recordExecutionEvent ==
    /\ latest_event < MaxEvents
    /\ latest_event' = latest_event + 1
    /\ delivery' = [delivery EXCEPT ![latest_event'].status =
                        IF enabled THEN "pending" ELSE "disabled"]
    /\ callback_status' = IF enabled /\ callback_status # "disabled" THEN "pending" ELSE "disabled"
    /\ UNCHANGED <<enabled, failure_state, job, received, faults>>

(* Mutant: only the rows that wait for a first or another attempt are due. *)
getDueCallbackDeliveries_NoExpired(e) ==
    delivery[e].status \in {"pending", "failed"} /\ UNCHANGED faults

(* A row is due when its attempt time has come or its lease has expired.  The lease of a
   worker still at work on it expires only when that worker is stalled. *)
getDueCallbackDeliveries(e) ==
    LET row == delivery[e]
        held == \E j \in Jobs : j[1] = row.owner /\ job[j].event = e
    IN  \/ row.status \in {"pending", "failed"} /\ UNCHANGED faults
        \/ row.status = "delivering" /\ IF held THEN fault ELSE UNCHANGED faults

(* markCallbackDelivering, then the post: the platform takes it or not, and the answer
   may be lost. *)
markCallbackDelivering(j, e) ==
    /\ delivery' = [delivery EXCEPT ![e] = [status |-> "delivering",
                                           attempts |-> @.attempts + 1, owner |-> j[1]]]
    /\ \E answer \in {"answered", "unanswered"} :
          /\ job' = [job EXCEPT ![j] = [at |-> answer, event |-> e,
                                        attempt |-> delivery[e].attempts + 1]]
          /\ received' \in {received, received \cup {e}}
          /\ answer = "answered" => e \in received'

(* The attempt is over. *)
over(j) == job' = [job EXCEPT ![j] = IF j[2] = "replay" THEN [@ EXCEPT !.at = "done"] ELSE idle]

(* processDueDeliveries takes up one due row *)
processDueDeliveries(w, e) ==
    LET j == <<w, "poll">> IN
    /\ enabled
    /\ job[j].at = "idle"
    /\ getDueCallbackDeliveries(e)
    /\ markCallbackDelivering(j, e)
    /\ UNCHANGED <<enabled, latest_event, callback_status, failure_state>>

(* The operator's replay of an open record: requeue, then the same attempt.  A row that
   is not a dead letter any more makes the replay fail. *)
replayDeadLetterDelivery(w, e) ==
    LET j == <<w, "replay">> IN
    /\ job[j].at = "idle"
    /\ failure_state[e] = "open"
    /\ delivery[e].attempts < MaxAttempts + MaxReplays
    /\ IF delivery[e].status = "dead_letter"
       THEN /\ delivery' = [delivery EXCEPT ![e].status = "pending", ![e].owner = None]
            /\ job' = [job EXCEPT ![j] = [at |-> "requeued", event |-> e, attempt |-> 0]]
            /\ UNCHANGED failure_state
       ELSE /\ failure_state' = [failure_state EXCEPT ![e] = "replay_failed"]
            /\ UNCHANGED <<delivery, job>>
    /\ UNCHANGED <<enabled, latest_event, callback_status, received, faults>>

replayClaims(j) ==
    /\ job[j].at = "requeued"
    /\ IF delivery[job[j].event].status \in {"pending", "failed"}
       THEN markCallbackDelivering(j, job[j].event)
       ELSE over(j) /\ UNCHANGED <<delivery, received>>
    /\ UNCHANGED <<enabled, latest_event, callback_status, failure_state, faults>>

leased(j) == delivery[job[j].event].status = "delivering" /\ delivery[job[j].event].owner = j[1]

(* Mutant: the handoff follows whichever delivery finished last. *)
concerns_AnyEvent(e) == TRUE

(* The handoff's callback status follows the delivery of its latest event only. *)
concerns(e) == latest_event = e

settle(e, status) ==
    /\ delivery' = [delivery EXCEPT ![e].status = status, ![e].owner = None]
    /\ callback_status' = IF concerns(e) THEN status ELSE callback_status

(* markCallbackDelivered, fenced by the lease; when the write itself fails the attempt
   is treated as a failed one. *)
markCallbackDelivered(j) ==
    /\ job[j].at = "answered"
    /\ \/ /\ IF leased(j) THEN settle(job[j].event, "delivered")
             ELSE UNCHANGED <<delivery, callback_status>>
          /\ over(j)
          /\ UNCHANGED faults
       \/ fault /\ step(j, "unanswered") /\ UNCHANGED <<delivery, callback_status>>
    /\ UNCHANGED <<enabled, latest_event, failure_state, received>>

failureAllowed(j) == leased(j)

(* scheduleFailure: another attempt later, or a dead letter after the last one *)
markCallbackFailed(j) ==
    LET dead == job[j].attempt >= MaxAttempts IN
    /\ job[j].at = "unanswered"
    /\ IF failureAllowed(j)
       THEN /\ settle(job[j].event, IF dead THEN "dead_letter" ELSE "failed")
            /\ IF dead THEN step(j, "capture") ELSE over(j)
       ELSE UNCHANGED <<delivery, callback_status>> /\ over(j)
    /\ UNCHANGED <<enabled, latest_event, failure_state, received, faults>>

captureSettlementCallbackDeadLetter(j) ==
    /\ job[j].at = "capture"
    /\ failure_state' = [failure_state EXCEPT ![job[j].event] = "open"]
    /\ over(j)
    /\ UNCHANGED <<enabled, latest_event, callback_status, delivery, received, faults>>

(* A replay that returns marks the record. *)
markReplayed(j) ==
    /\ job[j].at = "done"
    /\ failure_state' = [failure_state EXCEPT ![job[j].event] = "replayed"]
    /\ job' = [job EXCEPT ![j] = idle]
    /\ UNCHANGED <<enabled, latest_event, callback_status, delivery, received, faults>>

(* A process stops; after a redeployment callbacks may be switched off or on. *)
crash(w) ==
    /\ \E j \in Jobs : j[1] = w /\ job[j] # idle
    /\ fault
    /\ job' = [j \in Jobs |-> IF j[1] = w THEN idle ELSE job[j]]
    /\ UNCHANGED <<enabled, latest_event, callback_status, delivery, failure_state, received>>

redeploy ==
    /\ fault
    /\ enabled' = ~enabled
    /\ job' = [j \in Jobs |-> idle]
    /\ UNCHANGED <<latest_event, callback_status, delivery, failure_state, received>>

-----------------------------------------------------------------------------
JobStep(j) ==
    replayClaims(j) \/ markCallbackDelivered(j) \/ markCallbackFailed(j)
        \/ captureSettlementCallbackDeadLetter(j) \/ markReplayed(j)

CallbackNext ==
    \/ recordExecutionEvent
    \/ \E w \in Workers, e \in Events : processDueDeliveries(w, e) \/ replayDeadLetterDelivery(w, e)
    \/ \E j \in Jobs : JobStep(j)
    \/ redeploy
    \/ \E w \in Workers : crash(w)

CallbackSpec == CallbackInit /\ [][CallbackNext]_vars

(* The poll timer of an enabled gateway keeps firing, and a row that stays due is taken
   up: the query returns the longest waiting rows first. *)
CallbackFairness ==
    /\ \A j \in Jobs : WF_vars(JobStep(j))
    /\ \A e \in Events : SF_vars(\E w \in Workers : processDueDeliveries(w, e))

-----------------------------------------------------------------------------
(* Delivered is true and final.  markCallbackDelivered: a handoff whose callback status is
   delivered has had its latest event taken by the platform, even when answers, lease
   expiries and newer events overtake one another.  markCallbackFailed: a delivery once
   recorded as made is not taken back by the late failure of a dispatcher that lost its
   lease. *)
DeliveredForGood ==
    /\ [](callback_status = "delivered" =>
            latest_event \in received /\ delivery[latest_event].status = "delivered")
    /\ [][\A e \in Events :
            delivery[e].status = "delivered" => delivery'[e].status = "delivered"]_vars

(* While callbacks stay enabled every recorded event is delivered or dead-lettered. *)
EveryCallbackSettles ==
    \A e \in Events :
        delivery[e].status \in {"pending", "failed", "delivering"} ~>
            delivery[e].status \in {"delivered", "dead_letter"} \/ ~enabled
=============================================================================
