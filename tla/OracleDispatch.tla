--------------------------- MODULE OracleDispatch ---------------------------
(***************************************************************************)
(* The oracle service: how a progression request becomes at most one       *)
(* on-chain transaction, and how that transaction is confirmed.            *)
(*                                                                         *)
(* The actors are request handlers (TriggerManager, executeTriggerWithRetry*)
(* and the approval routes), the confirmation worker, the chain and the    *)
(* operators who pause or contain a trade.  They share the oracle_triggers *)
(* table, a Postgres advisory lock per action and one signer.  A step of a *)
(* handler ends where the code awaits something another actor can change.  *)
(*                                                                         *)
(* One trigger type is in scope, so an action key is a trade id.  A row's  *)
(* identity is its position, which is also its created_at order.           *)
(***************************************************************************)
EXTENDS Integers, Sequences, FiniteSets, FiniteSetsExt

CONSTANTS
  Handlers,               \* concurrent request handlers
  Trades,                 \* the trade ids requests may name
  Requests,               \* the request ids callers may send
  NoHandler,              \* the holder of a free lock
  maxAttempts,            \* RETRY_ATTEMPTS
  manualApprovalEnabled,  \* MANUAL_APPROVAL_ENABLED
  BATCH_SIZE,             \* rows one poll of the worker reads
  Holdable,               \* bound: the trades operators pause or contain
  MaxRows,                \* bound: rows ever created
  MaxCrashes,             \* bound: processes that die
  MaxReorgs               \* bound: blocks that are reorganised away

ASSUME DispatchAssumption ==
  /\ NoHandler \notin Handlers
  /\ Trades \subseteq Nat
  /\ Holdable \subseteq Trades
  /\ maxAttempts \in Nat \ {0}
  /\ manualApprovalEnabled \in BOOLEAN
  /\ BATCH_SIZE \in Nat \ {0}
  /\ MaxRows \in Nat \ {0}
  /\ MaxCrashes \in Nat
  /\ MaxReorgs \in Nat

VARIABLES
  oracle_triggers,  \* the table, in created_at order
  lock,             \* the advisory lock of each action
  handler,          \* where each request handler is
  worker,           \* the rest of the poll's batch, and whether its head is resolved
  trade,            \* each trade on the chain, seen from this progression
  paused,           \* trades under the escrow's scoped pause
  contained,        \* trades under a reconciliation containment
  tx,               \* the transaction of each row
  indexed,          \* rows whose event the indexer serves
  saidAbsent,       \* trades a caller was told do not exist on-chain
  crashes, reorgs

table == <<oracle_triggers, tx>>
chain == <<trade, paused, contained, indexed, reorgs>>
vars == <<oracle_triggers, lock, handler, worker, trade, paused, contained, tx,
          indexed, saidAbsent, crashes, reorgs>>

-----------------------------------------------------------------------------
(* Rows, handlers and the chain.                                           *)

TriggerStatus == {"PENDING", "EXECUTING", "SUBMITTED", "CONFIRMED", "FAILED",
                  "EXHAUSTED_NEEDS_REDRIVE", "TERMINAL_FAILURE",
                  "PENDING_APPROVAL", "REJECTED"}

\* idx_active_action_key_unique admits one row per action in these.
ActiveStatus == {"PENDING", "EXECUTING", "SUBMITTED", "PENDING_APPROVAL"}

\* A re-drive generates its request id, which no caller's request can equal.
Redrive == "redrive"

Trigger == [tradeId: Trades, request_id: Requests \cup {Redrive},
            status: TriggerStatus, approved: BOOLEAN, rejected: BOOLEAN,
            dispatch_started: BOOLEAN, tx_hash: BOOLEAN, evidence: BOOLEAN]

TxState == {"unsent", "pending", "succeeded", "reverted",
            "finalSucceeded", "finalReverted"}

Rows == DOMAIN oracle_triggers
RowsOf(t) == {i \in Rows : oracle_triggers[i].tradeId = t}
getLatestTriggerByActionKey(t) == oracle_triggers[Max(RowsOf(t))]

Idle == [at |-> "idle", tradeId |-> 0, request_id |-> Redrive, row |-> 0, attempt |-> 0]

isActionAlreadyCompleted(r) == r.status \in {"CONFIRMED", "SUBMITTED"}

\* SDKClient.getTrade answers "does not exist" for these.
getTradeRefuses(t) == t = 0 \/ trade[t] = "absent"

validateTradeState(t) == ~getTradeRefuses(t) /\ trade[t] = "ready"

assertTradeMayProgress(t) == t \notin paused /\ t \notin contained

\* Mutant: a receipt in the latest block is enough.
verifyDispatchLatest(i) ==
  tx[i] \in {"succeeded", "reverted", "finalSucceeded", "finalReverted"}

\* verifyOracleDispatchFinality: a finalized receipt, whatever its status.
verifyDispatchFinality(i) == tx[i] \in {"finalSucceeded", "finalReverted"}

\* Mutant: the receipt's status is not looked at.
verifyReceiptOfAnyStatus(i) == verifyDispatchFinality(i)

\* verifyOracleProgressionReceipt: finalized, and successful.
verifyProgressionReceipt(i) == verifyDispatchFinality(i) /\ tx[i] = "finalSucceeded"

-----------------------------------------------------------------------------
Init ==
  /\ oracle_triggers = <<>>
  /\ lock = [t \in Trades |-> NoHandler]
  /\ handler = [p \in Handlers |-> Idle]
  /\ worker = [batch |-> <<>>, resolved |-> FALSE]
  /\ trade \in [Trades -> {"absent", "ready"}]
  /\ paused = {}
  /\ contained = {}
  /\ tx = <<>>
  /\ indexed = {}
  /\ saidAbsent = {}
  /\ crashes = 0
  /\ reorgs = 0

updateTrigger(i, status) ==
  oracle_triggers' = [oracle_triggers EXCEPT ![i].status = status]

Goto(p, at) == handler' = [handler EXCEPT ![p].at = at]

\* The handler answers its caller, or throws; withLock releases the lock.
Return(p) ==
  /\ handler' = [handler EXCEPT ![p] = Idle]
  /\ lock' = [t \in Trades |-> IF lock[t] = p THEN NoHandler ELSE lock[t]]

-----------------------------------------------------------------------------
(* Admission.  A request answered from an existing row takes the lock,     *)
(* reads and returns: it changes nothing and is a stuttering step.         *)

\* No row, or a latest row that neither was dispatched nor completed.
MayBeDriven(t) ==
  RowsOf(t) # {} =>
    LET latest == getLatestTriggerByActionKey(t)
    IN  ~latest.dispatch_started /\ ~isActionAlreadyCompleted(latest)

Acquire(p, t, h) ==
  /\ lock[t] = NoHandler
  /\ lock' = [lock EXCEPT ![t] = p]
  /\ handler' = [handler EXCEPT ![p] = h]

executeTrigger(p, t, r) ==
  /\ handler[p] = Idle
  /\ MayBeDriven(t)
  /\ \A i \in RowsOf(t) : oracle_triggers[i].request_id # r
  /\ Acquire(p, t, [Idle EXCEPT !.at = "check", !.tradeId = t, !.request_id = r])
  /\ UNCHANGED <<table, chain, worker, saidAbsent, crashes>>

\* Mutant: any latest row that was never dispatched may be re-driven.
handleRedriveOfAnyFailure(p, t) ==
  /\ handler[p] = Idle
  /\ MayBeDriven(t)
  /\ RowsOf(t) # {}
  /\ getLatestTriggerByActionKey(t).status \notin ActiveStatus
  /\ Acquire(p, t, [Idle EXCEPT !.at = "check", !.tradeId = t])
  /\ UNCHANGED <<table, chain, worker, saidAbsent, crashes>>

\* isRedrive: only a latest row that is exhausted and was never dispatched.
handleRedrive(p, t) ==
  /\ handler[p] = Idle
  /\ MayBeDriven(t)
  /\ RowsOf(t) # {}
  /\ LET latest == getLatestTriggerByActionKey(t)
     IN  latest.status = "EXHAUSTED_NEEDS_REDRIVE" /\ ~latest.tx_hash
  /\ Acquire(p, t, [Idle EXCEPT !.at = "check", !.tradeId = t])
  /\ UNCHANGED <<table, chain, worker, saidAbsent, crashes>>

\* The binding, the trade's state, the pause and the containment all hold.
admit(p) ==
  /\ handler[p].at = "check"
  /\ validateTradeState(handler[p].tradeId)
  /\ assertTradeMayProgress(handler[p].tradeId)
  /\ Goto(p, "create")
  /\ UNCHANGED <<table, chain, lock, worker, saidAbsent, crashes>>

\* One of them does not, or could not be read: the error leaves no row.
refuse(p) ==
  /\ handler[p].at = "check"
  /\ saidAbsent' = IF getTradeRefuses(handler[p].tradeId)
                   THEN saidAbsent \cup {handler[p].tradeId} ELSE saidAbsent
  /\ Return(p)
  /\ UNCHANGED <<table, chain, worker, crashes>>

\* createTrigger; on a unique violation the existing row answers the caller.
createTrigger(p) ==
  LET t == handler[p].tradeId
      r == handler[p].request_id
      i == Len(oracle_triggers) + 1
      new == [tradeId |-> t, request_id |-> r, status |-> "PENDING",
              approved |-> FALSE, rejected |-> FALSE, dispatch_started |-> FALSE,
              tx_hash |-> FALSE, evidence |-> FALSE]
  IN  /\ handler[p].at = "create"
      /\ IF \E j \in RowsOf(t) : oracle_triggers[j].status \in ActiveStatus
         THEN Return(p) /\ UNCHANGED table
         ELSE /\ Len(oracle_triggers) < MaxRows
              /\ oracle_triggers' = Append(oracle_triggers, new)
              /\ tx' = Append(tx, "unsent")
              /\ handler' = [handler EXCEPT
                   ![p].row = i, ![p].attempt = 1,
                   ![p].at = IF manualApprovalEnabled /\ r # Redrive
                             THEN "park" ELSE "attempt"]
              /\ UNCHANGED lock
      /\ UNCHANGED <<chain, worker, saidAbsent, crashes>>

parkForApproval(p) ==
  /\ handler[p].at = "park"
  /\ updateTrigger(handler[p].row, "PENDING_APPROVAL")
  /\ Return(p)
  /\ UNCHANGED <<tx, chain, worker, saidAbsent, crashes>>

-----------------------------------------------------------------------------
(* Manual approval.                                                        *)

\* approveTrigger runs before resumeAfterApproval asks for the lock.
approveTrigger(p, i) ==
  /\ handler[p] = Idle
  /\ oracle_triggers[i].status = "PENDING_APPROVAL"
  /\ oracle_triggers' = [oracle_triggers EXCEPT ![i].status = "PENDING",
                                                ![i].approved = TRUE]
  /\ handler' = [handler EXCEPT ![p] = [Idle EXCEPT !.at = "resume", !.row = i,
                                          !.tradeId = oracle_triggers[i].tradeId]]
  /\ UNCHANGED <<tx, chain, lock, worker, saidAbsent, crashes>>

\* An assertion that fails, or cannot be read, leaves the row PENDING.
resumeAfterApproval(p) ==
  LET t == handler[p].tradeId
  IN  /\ handler[p].at = "resume"
      /\ lock[t] = NoHandler
      /\ \/ /\ ~isActionAlreadyCompleted(oracle_triggers[handler[p].row])
            /\ assertTradeMayProgress(t)
            /\ Acquire(p, t, [handler[p] EXCEPT !.at = "attempt", !.attempt = 1])
         \/ Return(p)
      /\ UNCHANGED <<table, chain, worker, saidAbsent, crashes>>

rejectTrigger(i) ==
  /\ oracle_triggers[i].status = "PENDING_APPROVAL"
  /\ oracle_triggers' = [oracle_triggers EXCEPT ![i].status = "REJECTED",
                                                ![i].rejected = TRUE]
  /\ UNCHANGED <<tx, chain, lock, handler, worker, saidAbsent, crashes>>

-----------------------------------------------------------------------------
(* Execution.  Read-only retries end at the durable dispatch claim.        *)

beginAttempt(p) ==
  /\ handler[p].at = "attempt"
  /\ validateTradeState(handler[p].tradeId)
  /\ updateTrigger(handler[p].row, "EXECUTING")
  /\ Goto(p, "guard")
  /\ UNCHANGED <<tx, chain, lock, worker, saidAbsent, crashes>>

determineNextStatus(terminal, attempt) ==
  IF terminal THEN "TERMINAL_FAILURE"
  ELSE IF attempt >= maxAttempts THEN "EXHAUSTED_NEEDS_REDRIVE" ELSE "FAILED"

\* The catch block of an attempt that claimed nothing.
failAttempt(p, terminal) ==
  LET next == determineNextStatus(terminal, handler[p].attempt)
  IN  /\ updateTrigger(handler[p].row, next)
      /\ IF next = "FAILED"
         THEN /\ handler' = [handler EXCEPT ![p].at = "attempt", ![p].attempt = @ + 1]
              /\ UNCHANGED lock
         ELSE Return(p)
      /\ UNCHANGED <<tx, chain, worker, saidAbsent, crashes>>

Unresolved == {i \in Rows : oracle_triggers[i].dispatch_started
                            /\ ~oracle_triggers[i].evidence}

\* The containment, then the signer: an older original dispatch must be final,
\* and its evidence is recorded, before this one may ask for the signer.
passGuards(p) ==
  /\ handler[p].at = "guard"
  /\ handler[p].tradeId \notin contained
  /\ \A i \in Unresolved \ {handler[p].row} :
       oracle_triggers[i].tx_hash /\ verifyDispatchFinality(i)
  /\ oracle_triggers' = [i \in Rows |->
       IF i \in Unresolved \ {handler[p].row}
       THEN [oracle_triggers[i] EXCEPT !.evidence = TRUE] ELSE oracle_triggers[i]]
  /\ Goto(p, "claim")
  /\ UNCHANGED <<tx, chain, lock, worker, saidAbsent, crashes>>

\* A ValidationError: the state moved on, or the signer's exposure is unknown.
failTerminally(p) ==
  /\ \/ handler[p].at = "attempt" /\ ~validateTradeState(handler[p].tradeId)
     \/ /\ handler[p].at = "guard"
        /\ \E i \in Unresolved \ {handler[p].row} :
             ~(oracle_triggers[i].tx_hash /\ verifyDispatchFinality(i))
  /\ failAttempt(p, TRUE)

\* A containment, or a read of the chain or a database that failed.
failRetryably(p) ==
  /\ handler[p].at \in {"attempt", "guard", "claim"}
  /\ failAttempt(p, FALSE)

\* The UPDATE's WHERE clause in claimTriggerDispatch.
MayClaim(i) ==
  /\ ~oracle_triggers[i].dispatch_started
  /\ oracle_triggers[i].status \in {"PENDING", "EXECUTING", "FAILED", "PENDING_APPROVAL"}
  /\ Unresolved = {}

\* one_original_oracle_dispatch_per_action makes a second claim an error,
\* which failRetryably covers.
claimTriggerDispatch(p) ==
  LET i == handler[p].row
  IN  /\ handler[p].at = "claim"
      /\ \/ /\ MayClaim(i)
            /\ \A j \in RowsOf(handler[p].tradeId) : ~oracle_triggers[j].dispatch_started
            /\ oracle_triggers' = [oracle_triggers EXCEPT ![i].dispatch_started = TRUE,
                                                          ![i].status = "EXECUTING"]
            /\ Goto(p, "send")
            /\ UNCHANGED <<tx, chain, lock, worker, saidAbsent, crashes>>
         \/ /\ ~MayClaim(i)
            /\ ~oracle_triggers[i].dispatch_started
            /\ failAttempt(p, TRUE)

-----------------------------------------------------------------------------
(* The send.  Every outcome of it leaves the row claimed.                  *)

\* Mutant: a lost response is taken for an attempt that failed.
broadcastTakenForFailure(p) ==
  LET i == handler[p].row
  IN  /\ handler[p].at = "send"
      /\ tx' = [tx EXCEPT ![i] = "pending"]
      /\ \/ Goto(p, "record") /\ UNCHANGED <<oracle_triggers, lock>>
         \/ updateTrigger(i, "EXHAUSTED_NEEDS_REDRIVE") /\ Return(p)
      /\ UNCHANGED <<chain, worker, saidAbsent, crashes>>

\* Broadcast: the hash reaches onSubmitted, or is lost with the response.
broadcast(p) ==
  LET i == handler[p].row
  IN  /\ handler[p].at = "send"
      /\ tx' = [tx EXCEPT ![i] = "pending"]
      /\ \/ Goto(p, "record") /\ UNCHANGED <<oracle_triggers, lock>>
         \/ updateTrigger(i, "EXECUTING") /\ Return(p)
      /\ UNCHANGED <<chain, worker, saidAbsent, crashes>>

\* The signer, gas estimation or the node refused before anything was sent.
sendFails(p) ==
  /\ handler[p].at = "send"
  /\ updateTrigger(handler[p].row, "EXECUTING")
  /\ Return(p)
  /\ UNCHANGED <<tx, chain, worker, saidAbsent, crashes>>

\* onSubmitted; when its write fails the catch block records the status only.
onSubmitted(p) ==
  LET i == handler[p].row
  IN  /\ handler[p].at = "record"
      /\ \/ /\ oracle_triggers' = [oracle_triggers EXCEPT ![i].status = "SUBMITTED",
                                                          ![i].tx_hash = TRUE]
            /\ Goto(p, "wait")
            /\ UNCHANGED lock
         \/ updateTrigger(i, "SUBMITTED") /\ Return(p)
      /\ UNCHANGED <<tx, chain, worker, saidAbsent, crashes>>

\* The wait for a receipt ends, with one or with an error; both write SUBMITTED
\* whatever the row says by then.
waitEnds(p) ==
  /\ handler[p].at = "wait"
  /\ updateTrigger(handler[p].row, "SUBMITTED")
  /\ Return(p)
  /\ UNCHANGED <<tx, chain, worker, saidAbsent, crashes>>

-----------------------------------------------------------------------------
(* The confirmation worker.                                                *)

Submitted == {i \in Rows : oracle_triggers[i].status = "SUBMITTED"}

\* getTriggersByStatus: the oldest BATCH_SIZE submitted rows.
pollConfirmations ==
  /\ worker.batch = <<>>
  /\ Submitted # {}
  /\ worker' = [worker EXCEPT !.batch =
       LET oldest == SelectSeq([i \in 1..Len(oracle_triggers) |-> i],
                               LAMBDA i : i \in Submitted)
       IN  SubSeq(oldest, 1, Min({BATCH_SIZE, Len(oldest)}))]
  /\ UNCHANGED <<table, chain, lock, handler, saidAbsent, crashes>>

MayConfirm(i) ==
  /\ oracle_triggers[i].tx_hash
  /\ verifyProgressionReceipt(i)
  /\ i \in indexed

\* Mutant: evidence that is already there is an error, not an agreement.
resolveConfirmationOnce ==
  /\ worker.batch # <<>>
  /\ ~worker.resolved
  /\ MayConfirm(Head(worker.batch))
  /\ IF oracle_triggers[Head(worker.batch)].evidence
     THEN /\ worker' = [batch |-> Tail(worker.batch), resolved |-> FALSE]
          /\ UNCHANGED oracle_triggers
     ELSE /\ oracle_triggers' = [oracle_triggers EXCEPT ![Head(worker.batch)].evidence = TRUE]
          /\ worker' = [worker EXCEPT !.resolved = TRUE]
  /\ UNCHANGED <<tx, chain, lock, handler, saidAbsent, crashes>>

\* resolveSignerDispatch, an UPDATE of its own; evidence already recorded for
\* the same receipt is accepted.
resolveConfirmation ==
  /\ worker.batch # <<>>
  /\ ~worker.resolved
  /\ MayConfirm(Head(worker.batch))
  /\ oracle_triggers' = [oracle_triggers EXCEPT ![Head(worker.batch)].evidence = TRUE]
  /\ worker' = [worker EXCEPT !.resolved = TRUE]
  /\ UNCHANGED <<tx, chain, lock, handler, saidAbsent, crashes>>

NextInBatch == [batch |-> Tail(worker.batch), resolved |-> FALSE]

confirmTrigger ==
  /\ worker.batch # <<>>
  /\ worker.resolved
  /\ updateTrigger(Head(worker.batch), "CONFIRMED")
  /\ worker' = NextInBatch
  /\ UNCHANGED <<tx, chain, lock, handler, saidAbsent, crashes>>

\* No hash, no final success, no indexed event: on to the next row.  After
\* CONFIRMATION_TIMEOUT_MS the code also notifies, and changes no row.
skipConfirmation ==
  /\ worker.batch # <<>>
  /\ ~worker.resolved
  /\ ~MayConfirm(Head(worker.batch))
  /\ worker' = NextInBatch
  /\ UNCHANGED <<table, chain, lock, handler, saidAbsent, crashes>>

-----------------------------------------------------------------------------
(* The chain, the indexer and the operators.                               *)

\* Another party's call, a refund after a timeout say, moves the trade on.
movedOn(t) ==
  /\ trade[t] = "ready"
  /\ trade' = [trade EXCEPT ![t] = "past"]
  /\ UNCHANGED <<table, paused, contained, indexed, reorgs, lock, handler, worker,
                 saidAbsent, crashes>>

\* The escrow reverts a progression of a paused trade or of the wrong state.
mine(i) ==
  LET t == oracle_triggers[i].tradeId
      ok == trade[t] = "ready" /\ t \notin paused
  IN  /\ tx[i] = "pending"
      /\ tx' = [tx EXCEPT ![i] = IF ok THEN "succeeded" ELSE "reverted"]
      /\ trade' = IF ok THEN [trade EXCEPT ![t] = "past"] ELSE trade
      /\ UNCHANGED <<oracle_triggers, paused, contained, indexed, reorgs, lock, handler,
                     worker, saidAbsent, crashes>>

reorganise(i) ==
  /\ tx[i] \in {"succeeded", "reverted"}
  /\ reorgs < MaxReorgs
  /\ reorgs' = reorgs + 1
  /\ tx' = [tx EXCEPT ![i] = "pending"]
  /\ trade' = IF tx[i] = "succeeded"
              THEN [trade EXCEPT ![oracle_triggers[i].tradeId] = "ready"] ELSE trade
  /\ UNCHANGED <<oracle_triggers, paused, contained, indexed, lock, handler, worker,
                 saidAbsent, crashes>>

finalise(i) ==
  /\ tx[i] \in {"succeeded", "reverted"}
  /\ tx' = [tx EXCEPT ![i] = IF @ = "succeeded" THEN "finalSucceeded" ELSE "finalReverted"]
  /\ UNCHANGED <<oracle_triggers, chain, lock, handler, worker, saidAbsent, crashes>>

\* The indexer follows the chain, late: an event of a block that is gone is
\* served until the indexer notices.
followChain(i) ==
  /\ indexed' = IF tx[i] \in {"succeeded", "finalSucceeded"}
                THEN indexed \cup {i} ELSE indexed \ {i}
  /\ indexed' # indexed
  /\ UNCHANGED <<table, trade, paused, contained, reorgs, lock, handler, worker,
                 saidAbsent, crashes>>

togglePause(t) ==
  /\ trade[t] # "absent"
  /\ paused' = IF t \in paused THEN paused \ {t} ELSE paused \cup {t}
  /\ UNCHANGED <<table, trade, contained, indexed, reorgs, lock, handler, worker,
                 saidAbsent, crashes>>

toggleContainment(t) ==
  /\ trade[t] # "absent"
  /\ contained' = IF t \in contained THEN contained \ {t} ELSE contained \cup {t}
  /\ UNCHANGED <<table, trade, paused, indexed, reorgs, lock, handler, worker,
                 saidAbsent, crashes>>

\* Postgres frees a dead session's advisory lock.
crashHandler(p) ==
  /\ handler[p] # Idle
  /\ crashes < MaxCrashes
  /\ crashes' = crashes + 1
  /\ Return(p)
  /\ UNCHANGED <<table, chain, worker, saidAbsent>>

crashWorker ==
  /\ worker.batch # <<>>
  /\ crashes < MaxCrashes
  /\ crashes' = crashes + 1
  /\ worker' = [batch |-> <<>>, resolved |-> FALSE]
  /\ UNCHANGED <<table, chain, lock, handler, saidAbsent>>

-----------------------------------------------------------------------------
HandlerStep(p) ==
  \/ admit(p) \/ refuse(p) \/ createTrigger(p) \/ parkForApproval(p)
  \/ resumeAfterApproval(p)
  \/ beginAttempt(p) \/ passGuards(p) \/ failTerminally(p) \/ failRetryably(p)
  \/ claimTriggerDispatch(p) \/ broadcast(p) \/ sendFails(p) \/ onSubmitted(p)
  \/ waitEnds(p)

WorkerStep ==
  pollConfirmations \/ resolveConfirmation \/ confirmTrigger \/ skipConfirmation

ChainStep == \E i \in Rows : mine(i) \/ finalise(i) \/ followChain(i)

Next ==
  \/ \E p \in Handlers, t \in Trades :
       handleRedrive(p, t) \/ \E r \in Requests : executeTrigger(p, t, r)
  \/ \E p \in Handlers, i \in Rows : approveTrigger(p, i)
  \/ \E i \in Rows : rejectTrigger(i) \/ reorganise(i)
  \/ \E p \in Handlers : HandlerStep(p) \/ crashHandler(p)
  \/ WorkerStep \/ crashWorker
  \/ ChainStep
  \/ \E t \in Trades : movedOn(t)
  \/ \E t \in Holdable : togglePause(t) \/ toggleContainment(t)

\* A handler that holds a promise runs on; the worker polls every
\* POLL_INTERVAL_MS; the chain mines and finalises what was broadcast, and the
\* indexer follows it.  Requests, approvals and operators may never come.
Fairness ==
  /\ \A p \in Handlers : WF_vars(HandlerStep(p))
  /\ WF_vars(WorkerStep)
  /\ \A i \in 1..MaxRows : WF_vars(i \in Rows /\ (mine(i) \/ finalise(i)))
  /\ \A i \in 1..MaxRows : WF_vars(i \in Rows /\ followChain(i))

Spec == Init /\ [][Next]_vars /\ Fairness

-----------------------------------------------------------------------------
\* The signer never has two transactions whose outcome can still change: the
\* claim waits for finality of the one before, through crashes, lost hashes
\* and reorganisations (claimTriggerDispatch, verifyOracleDispatchFinality).
OneExposedSend ==
  \A i, j \in Rows :
    tx[i] \in {"pending", "succeeded", "reverted"}
    /\ tx[j] \in {"pending", "succeeded", "reverted"} => i = j

\* A row that lets its action be tried again (the statuses re-drive and a new
\* request start from) never put a transaction on the wire: the catch block
\* keeps a claimed row EXECUTING or SUBMITTED whatever the send did.
FailedIsUnsent ==
  \A i \in Rows :
    oracle_triggers[i].status \notin {"EXECUTING", "SUBMITTED", "CONFIRMED"}
      => tx[i] = "unsent"

\* CONFIRMED is only ever said of a transaction that succeeded in a finalized
\* block, even when the indexer still serves an event of a reorganised block.
ConfirmedIsFinal ==
  \A i \in Rows :
    oracle_triggers[i].status = "CONFIRMED"
      => tx[i] = "finalSucceeded" /\ oracle_triggers[i].evidence

\* With manual approval on, nothing is sent for a trade unless an operator
\* approved that row or the row a re-drive continues; a rejected row is never
\* sent.
ApprovedBeforeSend ==
  manualApprovalEnabled =>
    \A i \in Rows : tx[i] # "unsent" =>
      /\ ~oracle_triggers[i].rejected
      /\ \E j \in RowsOf(oracle_triggers[i].tradeId) :
           j <= i /\ oracle_triggers[j].approved

\* A successful transaction whose hash was recorded ends CONFIRMED for good,
\* although the handler's late SUBMITTED write may undo the worker's.
SettledRowConfirmed ==
  \A i \in 1..MaxRows :
    (i \in Rows /\ oracle_triggers[i].tx_hash /\ tx[i] = "finalSucceeded")
      ~> [](i \in Rows /\ oracle_triggers[i].status = "CONFIRMED")

\* The runbook: a submitted trigger is confirmed, or after the hard timeout
\* becomes EXHAUSTED_NEEDS_REDRIVE.
SubmittedIsResolved ==
  \A i \in 1..MaxRows :
    (i \in Rows /\ oracle_triggers[i].status = "SUBMITTED" /\ oracle_triggers[i].tx_hash)
      ~> (i \in Rows /\ oracle_triggers[i].status \in {"CONFIRMED", "EXHAUSTED_NEEDS_REDRIVE"})

\* What the refusal says: a caller told that a trade does not exist on-chain
\* named a trade the escrow has not created.
AbsentMeansAbsent ==
  [][\A t \in saidAbsent' \ saidAbsent : trade[t] = "absent"]_vars
=============================================================================
