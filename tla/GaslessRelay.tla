---------------------------- MODULE GaslessRelay ----------------------------
(***************************************************************************)
(* The gateway's gasless create-trade execution with a managed signer:     *)
(* the idempotency lease of the request, the events on the settlement      *)
(* handoff, the reservation of the signer's nonce, the ledger of signed    *)
(* transactions and the worker that reconciles it with the chain.          *)
(*                                                                         *)
(* One settlement handoff and one idempotency key.  An attempt is one HTTP *)
(* request of the platform for that key; rid gives its request id, which a *)
(* retry may keep or change.  A transaction is known by the request id and *)
(* the nonce it was signed for.  Every await of the code that another      *)
(* process can interleave with ends a step; a transaction on the database  *)
(* is one step.  Crash stops an attempt between any two of its steps.      *)
(***************************************************************************)
EXTENDS SettlementHandoffs, Sequences

CONSTANTS
    Attempts,       \* HTTP requests
    RequestIds,     \* x-request-id values
    MaxNonce,       \* the signer's nonces are 0 .. MaxNonce
    MaxCrashes,     \* bound on crashes and restarts
    MaxLosses,      \* bound on lost database sessions
    MaxOrphans,     \* bound on Orphan
    renewed,        \* TRUE: the lease of a live request never lapses (its renewal timer keeps up)
    None

VARIABLES
    rid,            \* the request id of each attempt
    key,            \* the row of idempotency_keys: owner, completed
    pc,             \* where each attempt is
    nonce,          \* the nonce each attempt reserved
    lock,           \* the attempt that holds the broadcast lock
    reservation,    \* gasless_nonce_reservations by nonce: request id, lease holder, status
    signatures,     \* <<attempt, nonce>> for every signing request sent to the signer
    outcome,        \* gasless_transaction_outcomes.outcome_status by transaction
    projected,      \* projected_outcome_status
    orphaned,       \* transactions with failure_code FINALIZED_BLOCK_ORPHANED
    block,          \* the inclusion the outcome row records
    net,            \* what the network did with a transaction
    final,          \* transactions whose inclusion is finalized
    inclusion,      \* how many times an inclusion of the transaction was orphaned
    todo,           \* the writes the reconciliation worker has still to make
    crashes         \* crashes, restarts and lost sessions so far

idempotencyVars == <<rid, key>>
ledgerVars == <<outcome, projected, orphaned, block>>
chainVars == <<net, final, inclusion>>
attemptVars == <<pc, nonce, lock, reservation, signatures>>
vars == <<handoffVars, idempotencyVars, ledgerVars, chainVars, attemptVars, todo, crashes>>

Nonces == 0 .. MaxNonce
Txs == RequestIds \X Nonces
tx(a) == <<rid[a], nonce[a]>>

OpenOutcomes == {"broadcast_pending", "broadcast_unknown", "confirmation_pending"}
TerminalOutcomes == {"confirmed", "reverted"}
Finished == {"new", "ended", "dead"}

RelayInit ==
    /\ HandoffInit
    /\ rid \in [Attempts -> RequestIds]
    /\ key = [owner |-> None, completed |-> FALSE]
    /\ pc = [a \in Attempts |-> "new"]
    /\ nonce = [a \in Attempts |-> 0]
    /\ lock = None
    /\ reservation = [n \in Nonces |-> [request |-> None, holder |-> None, status |-> "none"]]
    /\ signatures = {}
    /\ outcome = [t \in Txs |-> "none"]
    /\ projected = [t \in Txs |-> "none"]
    /\ orphaned = {}
    /\ block = [t \in Txs |-> 0]
    /\ net = [t \in Txs |-> "unseen"]
    /\ final = {}
    /\ inclusion = [t \in Txs |-> 0]
    /\ todo = <<>>
    /\ crashes = 0

goto(a, label) == pc' = [pc EXCEPT ![a] = label]
live(r) == \E a \in Attempts : rid[a] = r /\ pc[a] \notin Finished
hasOutcome(r) == \E t \in Txs : t[1] = r /\ outcome[t] # "none"

-----------------------------------------------------------------------------
(* The idempotency middleware *)

(* The lease of a request that has stopped lapses sooner or later; that of a live one
   only when its renewals do not get through (renewLease). *)
lapsed == renewed => ~live(key.owner)

(* Mutant: an expired lease is reclaimed without looking for a transaction. *)
createPending_NoOutcomeCheck ==
    key.owner = None \/ (~key.completed /\ lapsed)

(* The key is free, or an expired lease is reclaimed. *)
createPending ==
    key.owner = None \/ (~key.completed /\ lapsed /\ ~hasOutcome(key.owner))

admit(a) ==
    /\ pc[a] = "new"
    /\ createPending
    /\ key' = [owner |-> rid[a], completed |-> FALSE]
    /\ goto(a, "open")
    /\ UNCHANGED <<handoffVars, rid, ledgerVars, chainVars, nonce, lock,
                   reservation, signatures, todo, crashes>>

(* The key is taken: the stored response or the outcome of the transaction is
   replayed, or the request is refused as still in progress.  A terminal outcome
   completes the key. *)
replay(a) ==
    /\ pc[a] = "new"
    /\ key.owner # None
    /\ key' = [key EXCEPT !.completed =
                  @ \/ \E t \in Txs : t[1] = key.owner /\ outcome[t] \in TerminalOutcomes]
    /\ goto(a, "ended")
    /\ UNCHANGED <<handoffVars, rid, ledgerVars, chainVars, nonce, lock,
                   reservation, signatures, todo, crashes>>

(* store.complete and store.releasePending, each fenced by the owning request id *)
finalize(a, how) ==
    key' = IF key.owner # rid[a] \/ key.completed THEN key
           ELSE CASE how = "complete" -> [key EXCEPT !.completed = TRUE]
                  [] how = "release" /\ ~hasOutcome(rid[a]) ->
                        [owner |-> None, completed |-> FALSE]
                  [] OTHER -> key

-----------------------------------------------------------------------------
(* executeCreateTradeWorkflow: the events before the send *)

(* One event of the workflow: onward when recorded, otherwise to the label that
   handles the refusal. *)
workflowEvent(a, eventType, next, onward, refused) ==
    IF Accepts(eventType, next, rid[a])
    THEN recordExecutionEvent(eventType, next, rid[a]) /\ goto(a, onward)
    ELSE UNCHANGED handoffVars /\ goto(a, refused)

accepted(a) ==
    /\ pc[a] = "open"
    /\ workflowEvent(a, "accepted", "accepted", "accepted", "conflict")
    /\ UNCHANGED <<idempotencyVars, ledgerVars, chainVars, nonce, lock, reservation,
                   signatures, todo, crashes>>

queued(a) ==
    /\ pc[a] = "accepted"
    /\ workflowEvent(a, "queued", "queued", "queued", "failed")
    /\ UNCHANGED <<idempotencyVars, ledgerVars, chainVars, nonce, lock, reservation,
                   signatures, todo, crashes>>

(* simulateCreateTrade, then the telemetry event *)
simulated(a) ==
    /\ pc[a] = "queued"
    /\ \/ workflowEvent(a, "simulation_completed", "queued", "simulated", "failed")
       \/ goto(a, "failed") /\ UNCHANGED handoffVars
    /\ UNCHANGED <<idempotencyVars, ledgerVars, chainVars, nonce, lock, reservation,
                   signatures, todo, crashes>>

-----------------------------------------------------------------------------
(* enqueueBroadcast and broadcastManagedTransaction *)

enqueueBroadcast(a) ==
    /\ pc[a] = "simulated"
    /\ lock = None
    /\ lock' = a
    /\ goto(a, "locked")
    /\ UNCHANGED <<handoffVars, idempotencyVars, ledgerVars, chainVars, nonce, reservation,
                   signatures, todo, crashes>>

unlock(a) == lock' = IF lock = a THEN None ELSE lock

(* The lock is a session lock of the database: it is gone when the session is, and the
   attempt that held it goes on. *)
sessionLost ==
    /\ lock # None
    /\ crashes < MaxLosses
    /\ crashes' = crashes + 1
    /\ lock' = None
    /\ UNCHANGED <<handoffVars, idempotencyVars, ledgerVars, chainVars, pc, nonce, reservation,
                   signatures, todo>>

pendingNonce ==
    Cardinality({t \in Txs : net[t] # "unseen"})

(* A free nonce, or the expired reservation of the same request *)
reserve(a, row) ==
    row.status = "none" \/ (row.request = rid[a] /\ row.status = "reserved")

(* The balance, the estimate and the spend cap are checked, the pending nonce is read
   and reserved; any of them failing fails the request before the broadcast. *)
reserveNonce(a) ==
    /\ pc[a] = "locked"
    /\ \/ /\ pendingNonce \in Nonces
          /\ reserve(a, reservation[pendingNonce])
          /\ reservation' = [reservation EXCEPT ![pendingNonce] =
                [request |-> rid[a], holder |-> a, status |-> "reserved"]]
          /\ nonce' = [nonce EXCEPT ![a] = pendingNonce]
          /\ goto(a, "reserved")
          /\ UNCHANGED lock
       \/ goto(a, "failed") /\ unlock(a) /\ UNCHANGED <<reservation, nonce>>
    /\ UNCHANGED <<handoffVars, idempotencyVars, ledgerVars, chainVars, signatures, todo, crashes>>

(* Mutant: the lease token is not compared. *)
beginSigning_AnyHolder(a) ==
    reservation[nonce[a]].status \in {"reserved", "signing"}

beginSigning(a) ==
    LET row == reservation[nonce[a]] IN
    row.holder = a /\ row.status = "reserved"

(* The lease may have expired, or the reservation changed hands, since it was made. *)
requestSignature(a) ==
    /\ pc[a] = "reserved"
    /\ \/ /\ beginSigning(a)
          /\ reservation' = [reservation EXCEPT ![nonce[a]].status = "signing"]
          /\ signatures' = signatures \cup {<<a, nonce[a]>>}
          /\ goto(a, "signing")
          /\ UNCHANGED lock
       \/ goto(a, "failed") /\ unlock(a) /\ UNCHANGED <<reservation, signatures>>
    /\ UNCHANGED <<handoffVars, idempotencyVars, ledgerVars, chainVars, nonce, todo, crashes>>

(* recordSigned, then recordPrepared: the identity is durable before the send.  A signer
   that does not answer, or an answer that is not the intent, fails the request. *)
recordPrepared(a) ==
    /\ pc[a] = "signing"
    /\ \/ /\ reservation[nonce[a]].holder = a
          /\ reservation' = [reservation EXCEPT ![nonce[a]].status = "signed"]
          /\ outcome[tx(a)] = "none"
          /\ outcome' = [outcome EXCEPT ![tx(a)] = "broadcast_pending"]
          /\ goto(a, "prepared")
          /\ UNCHANGED lock
       \/ /\ reservation' \in {reservation, [reservation EXCEPT ![nonce[a]].status = "signed"]}
          /\ reservation' # reservation => reservation[nonce[a]].holder = a
          /\ goto(a, "failed")
          /\ unlock(a)
          /\ UNCHANGED outcome
    /\ UNCHANGED <<handoffVars, idempotencyVars, projected, orphaned, block, chainVars, nonce,
                   signatures, todo, crashes>>

(* The send: its answer may be lost, and so may the transaction. *)
broadcast(a) ==
    /\ pc[a] = "prepared"
    /\ \/ net' = [net EXCEPT ![tx(a)] = "pool"] /\ goto(a, "sent")
       \/ net' = [net EXCEPT ![tx(a)] = "pool"] /\ goto(a, "ambiguous")
       \/ UNCHANGED net /\ goto(a, "ambiguous")
    /\ UNCHANGED <<handoffVars, idempotencyVars, ledgerVars, final, inclusion, nonce, lock,
                   reservation, signatures, todo, crashes>>

-----------------------------------------------------------------------------
(* The outcome ledger: gaslessTransactionOutcomeStore *)

(* transition: an open outcome goes anywhere, a terminal one only to itself with the
   same block. *)
transitions(t, status) ==
    \/ outcome[t] \in OpenOutcomes
    \/ outcome[t] = status /\ block[t] = inclusion[t]

mark(t, status) ==
    /\ outcome' = [outcome EXCEPT ![t] = status]
    /\ block' = IF status \in TerminalOutcomes THEN [block EXCEPT ![t] = inclusion[t]] ELSE block

(* The result of the send is recorded; a refusal or a failure of that write is only
   logged, and the request ends with the same error. *)
recordSend(a) ==
    /\ pc[a] \in {"sent", "ambiguous"}
    /\ LET status == IF pc[a] = "sent" THEN "confirmation_pending" ELSE "broadcast_unknown"
       IN  \/ /\ transitions(tx(a), status)
              /\ mark(tx(a), status)
              /\ goto(a, IF pc[a] = "sent" THEN "waiting" ELSE status)
              /\ IF pc[a] = "sent" THEN UNCHANGED lock ELSE unlock(a)
           \/ UNCHANGED <<outcome, block>> /\ goto(a, status) /\ unlock(a)
    /\ UNCHANGED <<handoffVars, idempotencyVars, projected, orphaned, chainVars, nonce,
                   reservation, signatures, todo, crashes>>

(* waitForConfirmedReceipt: no receipt, or none with finalized evidence, in time *)
receiptTimeout(a) ==
    /\ pc[a] = "waiting"
    /\ goto(a, "confirmation_pending")
    /\ unlock(a)
    /\ UNCHANGED <<handoffVars, idempotencyVars, ledgerVars, chainVars, nonce, reservation,
                   signatures, todo, crashes>>

(* A finalized receipt.  For a success the balance of the signer is read once more
   before the outcome is stored: a floor reached, or a provider that fails, leaves the
   function with an ordinary error. *)
receiptFinalized(a) ==
    /\ pc[a] = "waiting"
    /\ tx(a) \in final
    /\ LET status == net[tx(a)] IN
       \/ /\ transitions(tx(a), status)
          /\ mark(tx(a), status)
          /\ goto(a, IF status = "confirmed" THEN "executed" ELSE "reverted")
       \/ UNCHANGED <<outcome, block>> /\ goto(a, "confirmation_pending")
       \/ status = "confirmed" /\ UNCHANGED <<outcome, block>> /\ goto(a, "failed")
    /\ unlock(a)
    /\ UNCHANGED <<handoffVars, idempotencyVars, projected, orphaned, chainVars, nonce,
                   reservation, signatures, todo, crashes>>

-----------------------------------------------------------------------------
(* The events after the send, and recordGaslessExecutionFailure *)

submitted(a) ==
    /\ pc[a] = "executed"
    /\ workflowEvent(a, "submitted", "submitted", "submitted", "confirmation_pending")
    /\ UNCHANGED <<idempotencyVars, ledgerVars, chainVars, nonce, lock, reservation,
                   signatures, todo, crashes>>

confirmed(a) ==
    /\ pc[a] = "submitted"
    /\ workflowEvent(a, "confirmed", "confirmed", "complete", "confirmation_pending")
    /\ UNCHANGED <<idempotencyVars, ledgerVars, chainVars, nonce, lock, reservation,
                   signatures, todo, crashes>>

(* The error decides the event; a refused event is a 409 of its own. *)
recordGaslessExecutionFailure(a) ==
    /\ pc[a] \in {"broadcast_unknown", "confirmation_pending", "reverted", "failed"}
    /\ workflowEvent(a, pc[a], pc[a],
                     CASE pc[a] = "failed" -> "release"
                       [] pc[a] = "reverted" -> "complete"
                       [] OTHER -> "hold",
                     "complete")
    /\ UNCHANGED <<idempotencyVars, ledgerVars, chainVars, nonce, lock, reservation,
                   signatures, todo, crashes>>

(* persistIdempotentResponse and persistIdempotentError, then the answer *)
respond(a) ==
    /\ pc[a] \in {"complete", "conflict", "release", "hold"}
    /\ finalize(a, IF pc[a] = "conflict" THEN "complete" ELSE pc[a])
    /\ goto(a, "ended")
    /\ UNCHANGED <<handoffVars, rid, ledgerVars, chainVars, nonce, lock, reservation,
                   signatures, todo, crashes>>

Crash(a) ==
    /\ pc[a] \notin Finished
    /\ crashes < MaxCrashes
    /\ crashes' = crashes + 1
    /\ goto(a, "dead")
    /\ unlock(a)
    /\ UNCHANGED <<handoffVars, idempotencyVars, ledgerVars, chainVars, nonce, reservation,
                   signatures, todo>>

-----------------------------------------------------------------------------
(* The chain *)

mined(t) == net[t] \in TerminalOutcomes

(* Transactions of the signer are included in the order of their nonces; the buyer's
   authorization can be used once. *)
Mine(t) ==
    /\ net[t] = "pool"
    /\ \A n \in 0 .. t[2] - 1 : \E r \in RequestIds : mined(<<r, n>>)
    /\ \E result \in TerminalOutcomes :
          /\ result = "confirmed" => \A u \in Txs : net[u] # "confirmed"
          /\ net' = [net EXCEPT ![t] = result]
    /\ UNCHANGED <<handoffVars, idempotencyVars, ledgerVars, final, inclusion, attemptVars,
                   todo, crashes>>

Finalize(t) ==
    /\ mined(t) /\ t \notin final
    /\ final' = final \cup {t}
    /\ UNCHANGED <<handoffVars, idempotencyVars, ledgerVars, net, inclusion, attemptVars,
                   todo, crashes>>

(* A finalized block turns out not to be canonical: the transaction is back in the pool. *)
Orphan(t) ==
    /\ t \in final
    /\ inclusion[t] < MaxOrphans
    /\ \A u \in Txs : u[2] > t[2] => ~mined(u)
    /\ inclusion' = [inclusion EXCEPT ![t] = @ + 1]
    /\ final' = final \ {t}
    /\ net' = [net EXCEPT ![t] = "pool"]
    /\ UNCHANGED <<handoffVars, idempotencyVars, ledgerVars, attemptVars, todo, crashes>>

-----------------------------------------------------------------------------
(* GaslessTransactionOutcomeReconciler with GaslessSettlementOutcomeObserver: a record
   is read and compared with the chain, and the writes that follow are made one by
   one.  A write that is refused ends the pass for this record. *)

write(op, status, t) == <<[op |-> op, status |-> status, tx |-> t]>>
unless(done, writes) == IF done THEN <<>> ELSE writes


reconcileOrphaned(t) ==
    write("orphan", "confirmation_pending", t)
        \o write("event", "chain_evidence_orphaned", t)
        \o write("project", "confirmation_pending", t)

(* What the reconciler goes on to do for record t, given what the providers answer. *)
reconcile(t, seen) ==
    LET open == outcome[t] \in OpenOutcomes
        project(s) == unless(projected[t] = s, write("event", s, t))
    IN  CASE t \in orphaned ->
                unless(projected[t] = "confirmation_pending",
                       write("event", "chain_evidence_orphaned", t)
                           \o write("project", "confirmation_pending", t))
          [] t \notin orphaned /\ ~open /\ seen = "orphaned" -> reconcileOrphaned(t)
          [] t \notin orphaned /\ seen \in TerminalOutcomes ->
                unless(projected[t] = seen, write("prepare", "confirmation_pending", t)
                                                \o write("event", seen, t))
                    \o unless(outcome[t] = seen, write("mark", seen, t))
                    \o write("project", seen, t)
          [] t \notin orphaned /\ open /\ seen = "included" ->
                write("mark", "confirmation_pending", t)
                    \o unless(projected[t] = "confirmation_pending",
                              write("event", "confirmation_pending", t)
                                  \o write("project", "confirmation_pending", t))
          [] t \notin orphaned /\ open /\ seen = "pool" ->
                project("confirmation_pending")
                    \o unless(outcome[t] = "confirmation_pending",
                              write("mark", "confirmation_pending", t))
                    \o unless(projected[t] = "confirmation_pending",
                              write("project", "confirmation_pending", t))
          [] t \notin orphaned /\ open /\ seen = "absent" ->
                unless(outcome[t] = "broadcast_unknown", write("mark", "broadcast_unknown", t))
                    \o unless(projected[t] = "broadcast_unknown",
                              write("event", "broadcast_unknown", t)
                                  \o write("project", "broadcast_unknown", t))
          [] OTHER -> <<>>

(* Mutant: a receipt is taken for final as soon as it is there. *)
observations_NotFinal(t) ==
    IF outcome[t] \in TerminalOutcomes /\ block[t] # inclusion[t] THEN {"orphaned"}
    ELSE CASE net[t] = "unseen" -> {"absent"}
           [] net[t] = "pool" -> {"pool", "absent"}
           [] OTHER -> {net[t]}

(* What the providers may answer about t: a pooled transaction need not be visible. *)
observations(t) ==
    IF outcome[t] \in TerminalOutcomes /\ block[t] # inclusion[t] THEN {"orphaned"}
    ELSE CASE net[t] = "unseen" -> {"absent"}
           [] net[t] = "pool" -> {"pool", "absent"}
           [] OTHER -> IF t \in final THEN {net[t]} ELSE {"included"}

processUnresolved(t) ==
    /\ todo = <<>>
    /\ outcome[t] # "none"
    /\ \E seen \in observations(t) : todo' = reconcile(t, seen)
    /\ todo' # <<>>
    /\ UNCHANGED <<handoffVars, idempotencyVars, ledgerVars, chainVars, attemptVars, crashes>>

(* One write of the pass; prepareTerminalProjection writes only when the handoff has not
   seen the transaction yet. *)
reconcilerWrite ==
    /\ todo # <<>>
    /\ LET w == Head(todo)
           t == w.tx
           next == IF w.status = "chain_evidence_orphaned" THEN "confirmation_pending" ELSE w.status
           type == IF w.op = "prepare" THEN "confirmation_pending" ELSE w.status
           skipped == w.op = "prepare" /\ execution_status \notin {"pending", "accepted", "queued"}
           onHandoff == w.op \in {"event", "prepare"} /\ ~skipped
           allowed == CASE onHandoff -> Accepts(type, next, t[1])
                        [] w.op = "mark" -> transitions(t, w.status)
                        [] w.op = "orphan" -> outcome[t] \in TerminalOutcomes
                        [] w.op = "project" -> outcome[t] = w.status
                        [] OTHER -> TRUE
       IN  /\ todo' = IF allowed THEN Tail(todo) ELSE <<>>
           /\ IF allowed /\ onHandoff THEN recordExecutionEvent(type, next, t[1])
              ELSE UNCHANGED handoffVars
           /\ IF allowed /\ w.op \in {"mark", "orphan"} THEN mark(t, w.status)
              ELSE UNCHANGED <<outcome, block>>
           /\ orphaned' = IF allowed /\ w.op = "orphan" THEN orphaned \cup {t} ELSE orphaned
           /\ projected' = CASE allowed /\ w.op = "project" -> [projected EXCEPT ![t] = w.status]
                             [] allowed /\ w.op = "orphan" -> [projected EXCEPT ![t] = "none"]
                             [] OTHER -> projected
    /\ UNCHANGED <<idempotencyVars, chainVars, attemptVars, crashes>>

(* The worker stops between two writes and starts again. *)
workerRestarts ==
    /\ todo # <<>>
    /\ crashes < MaxCrashes
    /\ crashes' = crashes + 1
    /\ todo' = <<>>
    /\ UNCHANGED <<handoffVars, idempotencyVars, ledgerVars, chainVars, attemptVars>>

-----------------------------------------------------------------------------
KeyStep == \E a \in Attempts : admit(a) \/ replay(a)

WorkflowStep ==
    \E a \in Attempts :
        accepted(a) \/ queued(a) \/ simulated(a) \/ submitted(a) \/ confirmed(a)
            \/ recordGaslessExecutionFailure(a) \/ respond(a)

SendStep ==
    \E a \in Attempts :
        enqueueBroadcast(a) \/ reserveNonce(a) \/ requestSignature(a) \/ recordPrepared(a)
            \/ broadcast(a) \/ recordSend(a) \/ receiptTimeout(a) \/ receiptFinalized(a)

ChainStep == \E t \in Txs : Mine(t) \/ Finalize(t) \/ Orphan(t)

ReconcilerStep == reconcilerWrite \/ \E t \in Txs : processUnresolved(t)

FaultStep == sessionLost \/ workerRestarts \/ \E a \in Attempts : Crash(a)

RelayNext == KeyStep \/ WorkflowStep \/ SendStep \/ ChainStep \/ ReconcilerStep \/ FaultStep

RelaySpec == RelayInit /\ [][RelayNext]_vars

-----------------------------------------------------------------------------
(* The signer is asked for at most one transaction at each nonce, whatever leases
   lapse, locks are lost and requests are repeated (gasless_nonce_reservations). *)
OneSignaturePerNonce ==
    \A n \in Nonces : \A a, b \in Attempts :
        <<a, n>> \in signatures /\ <<b, n>> \in signatures => a = b

(* While renewals keep up, an idempotency key leads to at most one transaction: a
   retry of a request that died finds the recorded identity and replays it. *)
OneTransactionPerKey ==
    renewed => Cardinality({t \in Txs : outcome[t] # "none"}) <= 1

(* While renewals keep up, a handoff that is confirmed or reverted names what the
   finalized chain did with its transaction, unless that inclusion was orphaned since. *)
TerminalStatusIsChainTruth ==
    renewed /\ execution_status \in TerminalOutcomes =>
        \E t \in Txs : \/ net[t] = execution_status /\ t \in final
                       \/ inclusion[t] > 0


(* "A transaction that may have reached the network never becomes never broadcast." *)
FailedMeansNeverBroadcast ==
    execution_status = "failed" => \A t \in Txs : net[t] = "unseen"
=============================================================================
