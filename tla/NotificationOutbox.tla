------------------------- MODULE NotificationOutbox -------------------------
(***************************************************************************)
(* From a committed reconciliation alert to an operator                    *)
(* (reconciliation/src/core/alertDispatch.ts, notifications/src).          *)
(*                                                                         *)
(* A published run leaves its alerts in reconcile_alert_outbox.  The next  *)
(* pass hands each to notification_outbox, where the dispatchers of        *)
(* several replicas lease it, send it to the primary webhook, back off,    *)
(* dead-letter it once its attempts are spent and escalate it to the duty  *)
(* owner.  All alerts here are critical and share one dedupKey, the case   *)
(* in which the rows interact; back-offs and deadlines are choices.        *)
(***************************************************************************)
EXTENDS Naturals, Sequences

CONSTANTS
    Alerts,        \* rows of reconcile_alert_outbox
    Dispatchers,   \* replicas that drain notification_outbox
    MaxRows,       \* bound: rows of notification_outbox (one per hand-over)
    maxAttempts,   \* delivery attempts per row
    MaxCrashes,    \* bound: processes that die
    None

VARIABLES
    alert,         \* alert[a]: "none", "pending" or "dispatched"
    delivering,    \* the alert the reconciler has enqueued and not yet marked
    rows,          \* notification_outbox, in id order
    pass,          \* pass[d]: the drain pass of dispatcher d
    crashes

vars == <<alert, delivering, rows, pass, crashes>>

idle == [at |-> "idle", row |-> 0, accepted |-> FALSE, attempted |-> {}]

OutboxInit ==
    /\ alert = [a \in Alerts |-> "none"]
    /\ delivering = None
    /\ rows = <<>>
    /\ pass = [d \in Dispatchers |-> idle]
    /\ crashes = 0

-----------------------------------------------------------------------------
(* The run outbox *)

\* The publishing transaction of a run raises the alert.
enqueueRunAlert(a) ==
    /\ alert[a] = "none"
    /\ alert' = [alert EXCEPT ![a] = "pending"]
    /\ UNCHANGED <<delivering, rows, pass, crashes>>

\* The row an insert adds.
queued == [state |-> "PENDING", attempts |-> 0, owner |-> None,
           expired |-> FALSE, escalated |-> FALSE]

\* enqueue: suppressed inside the cooldown of a delivered row, merged into
\* the pending row of the key, or queued as a row of its own.
enqueue ==
    \/ /\ \E i \in DOMAIN rows : rows[i].state = "DELIVERED"
       /\ UNCHANGED rows
    \/ /\ \E i \in DOMAIN rows : rows[i].state = "PENDING"
       /\ UNCHANGED rows
    \/ /\ \A i \in DOMAIN rows : rows[i].state # "PENDING"
       /\ Len(rows) < MaxRows
       /\ rows' = Append(rows, queued)

\* dispatchPendingAlerts, up to the commit of the notification.  One that
\* cannot be recorded leaves the alert pending.
dispatchPendingAlerts(a) ==
    /\ delivering = None
    /\ alert[a] = "pending"
    /\ enqueue
    /\ delivering' = a
    /\ UNCHANGED <<alert, pass, crashes>>

markRunAlertDispatched ==
    /\ delivering # None
    /\ alert' = [alert EXCEPT ![delivering] = "dispatched"]
    /\ delivering' = None
    /\ UNCHANGED <<rows, pass, crashes>>

-----------------------------------------------------------------------------
(* A drain pass *)

unleased(row) == row.owner = None \/ row.expired

\* Mutant: a row whose last attempt never reported back is left alone.
deadLetterExhausted_Never(row) == FALSE

\* The rows deadLetterExhausted takes.
deadLetterExhausted(row) ==
    /\ row.state = "PENDING"
    /\ row.attempts >= maxAttempts
    /\ unleased(row)

deadLettered(row) ==
    [row EXCEPT !.state = "DEAD_LETTER", !.owner = None, !.expired = FALSE]

\* drain begins.  A pass over an empty table changes nothing.
drain(d) ==
    /\ pass[d].at = "idle"
    /\ rows # <<>>
    /\ rows' = [i \in DOMAIN rows |-> IF deadLetterExhausted(rows[i])
                                      THEN deadLettered(rows[i]) ELSE rows[i]]
    /\ pass' = [pass EXCEPT ![d].at = "deliver"]
    /\ UNCHANGED <<alert, delivering, crashes>>

due(d, i) ==
    /\ rows[i].state = "PENDING"
    /\ rows[i].attempts < maxAttempts
    /\ unleased(rows[i])
    /\ i \notin pass[d].attempted

\* claimDue and the send: the attempt is spent at the claim, the webhook
\* accepts or does not.
claimDue(d, i) ==
    /\ pass[d].at = "deliver"
    /\ due(d, i)
    /\ rows' = [rows EXCEPT ![i].owner = d, ![i].expired = FALSE,
                            ![i].attempts = @ + 1]
    /\ \E accepted \in BOOLEAN :
         pass' = [pass EXCEPT ![d] = [at |-> "sent", row |-> i,
                                      accepted |-> accepted,
                                      attempted |-> @.attempted \cup {i}]]
    /\ UNCHANGED <<alert, delivering, crashes>>

\* The condition markDelivered and markFailed put on the row.
fenced(d, i) == rows[i].owner = d /\ rows[i].state = "PENDING"

\* markDelivered, or markFailed: back off, or dead-letter when the attempts
\* are spent.  A dispatcher that lost the row changes nothing.
settle(d) ==
    /\ pass[d].at = "sent"
    /\ LET i == pass[d].row
           released == [rows[i] EXCEPT !.owner = None, !.expired = FALSE]
       IN  rows' = IF ~fenced(d, i) THEN rows
                   ELSE [rows EXCEPT ![i] =
                     [released EXCEPT !.state =
                        IF pass[d].accepted THEN "DELIVERED"
                        ELSE IF rows[i].attempts >= maxAttempts
                             THEN "DEAD_LETTER" ELSE "PENDING"]]
    /\ pass' = [pass EXCEPT ![d].at = "deliver"]
    /\ UNCHANGED <<alert, delivering, crashes>>

\* No row is due, or the batch is spent: escalate begins.
escalate(d) ==
    /\ pass[d].at = "deliver"
    /\ \/ \A i \in DOMAIN rows : ~due(d, i)
       \/ pass[d].attempted # {}
    /\ pass' = [pass EXCEPT ![d] = [idle EXCEPT !.at = "escalate"]]
    /\ UNCHANGED <<alert, delivering, rows, crashes>>

\* The rows claimEscalations takes; a pending one is overdue or it is not.
escalable(d, i) ==
    /\ ~rows[i].escalated
    /\ rows[i].state \in {"DEAD_LETTER", "PENDING"}
    /\ i \notin pass[d].attempted

\* claimEscalations, the send and markEscalated or markEscalationFailed.
claimEscalations(d, i) ==
    /\ pass[d].at = "escalate"
    /\ escalable(d, i)
    /\ \E accepted \in BOOLEAN :
         rows' = [rows EXCEPT ![i].escalated = accepted]
    /\ pass' = [pass EXCEPT ![d].attempted = @ \cup {i}]
    /\ UNCHANGED <<alert, delivering, crashes>>

\* The pass ends: every dead letter was tried, or is in its retry delay.
endPass(d) ==
    /\ pass[d].at = "escalate"
    /\ pass' = [pass EXCEPT ![d] = idle]
    /\ UNCHANGED <<alert, delivering, rows, crashes>>

-----------------------------------------------------------------------------
(* Time and faults *)

LeaseExpires(i) ==
    /\ rows[i].owner # None /\ ~rows[i].expired
    /\ rows' = [rows EXCEPT ![i].expired = TRUE]
    /\ UNCHANGED <<alert, delivering, pass, crashes>>

\* A dispatcher dies in its pass; the rows it holds wait for their leases.
Crash(d) ==
    /\ crashes < MaxCrashes
    /\ crashes' = crashes + 1
    /\ pass[d].at # "idle"
    /\ pass' = [pass EXCEPT ![d] = idle]
    /\ UNCHANGED <<alert, delivering, rows>>

\* The reconciler dies between the two commits: the alert is handed over again.
ReconcilerCrash ==
    /\ crashes < MaxCrashes
    /\ crashes' = crashes + 1
    /\ delivering # None
    /\ delivering' = None
    /\ UNCHANGED <<alert, rows, pass>>

AlertStep == \/ \E a \in Alerts : enqueueRunAlert(a) \/ dispatchPendingAlerts(a)
             \/ markRunAlertDispatched
PassStep(d) == \/ drain(d)
               \/ \E i \in DOMAIN rows : claimDue(d, i)
               \/ settle(d)
               \/ escalate(d)
               \/ \E i \in DOMAIN rows : claimEscalations(d, i)
               \/ endPass(d)
FaultStep == \/ \E i \in DOMAIN rows : LeaseExpires(i)
             \/ \E d \in Dispatchers : Crash(d)
             \/ ReconcilerCrash

OutboxNext == AlertStep \/ (\E d \in Dispatchers : PassStep(d)) \/ FaultStep

OutboxSpec == OutboxInit /\ [][OutboxNext]_vars

\* A committed alert is handed over by the next pass of the daemon; passes
\* are driven by a timer; a lease nobody renews runs out; and the duty
\* owner's route, tried again in every pass, accepts some time.
OutboxFairness ==
    /\ \A a \in Alerts : WF_vars(dispatchPendingAlerts(a))
    /\ WF_vars(markRunAlertDispatched)
    /\ \A d \in Dispatchers : WF_vars(PassStep(d))
    /\ \A i \in 1..MaxRows :
         /\ WF_vars(i \in DOMAIN rows /\ LeaseExpires(i))
         /\ SF_vars(/\ i \in DOMAIN rows
                    /\ \E d \in Dispatchers : claimEscalations(d, i)
                    /\ rows'[i].escalated)

-----------------------------------------------------------------------------
(* Properties *)

\* No critical alert is dropped on the way: once a run has committed it, the
\* notifications it may have been merged into are delivered, or dead-lettered
\* and escalated, whatever process dies holding one, on its last attempt too
\* (dispatchPendingAlerts, deadLetterExhausted, claimEscalations).
EveryAlertSettles ==
    \A a \in Alerts :
        alert[a] = "pending" ~>
            /\ alert[a] = "dispatched"
            /\ rows # <<>>
            /\ \A i \in DOMAIN rows :
                 \/ rows[i].state = "DELIVERED"
                 \/ rows[i].state = "DEAD_LETTER" /\ rows[i].escalated
=============================================================================
