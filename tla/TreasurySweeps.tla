---------------------------- MODULE TreasurySweeps ----------------------------
(***************************************************************************)
(* Accounting periods, sweep batches, their on-chain claims, the partner   *)
(* handoff of a batch and revenue realization: the handlers of             *)
(* treasury/src/api/controller.ts over treasury/src/database/queries/.     *)
(* TreasuryLedger models the life of one ledger entry; of it only what a   *)
(* sweep consults is kept here: the verdict on the chain and the bank's    *)
(* latest report, which change at any time.                                *)
(*                                                                         *)
(* The handlers check a batch or a period with unlocked reads and commit   *)
(* in a transaction that locks the row and repeats some of the checks: the *)
(* check and the commit are two steps here, and other operators act        *)
(* between them.                                                           *)
(***************************************************************************)
EXTENDS Naturals, FiniteSetsExt

CONSTANTS Entries, Periods, Batches,
          Actors,          \* the operators who move batches
          Controllers,     \* the operators who open and close periods
          Txs,             \* the transactions that emitted TreasuryClaimed
          Totals,          \* the totals a batch may expect and a claim may carry
          AmountRaw,       \* the amount of every ledger entry
          ProviderReports, \* the handoff statuses the partner reports in this instance
          MaxInFlight,     \* the requests between their check and their commit
          None

VARIABLES
    period,     \* accounting_periods, with their MAKERs of the transition chain
    batch,      \* sweep_batches, with their transition chain
    allocation, \* the active sweep_batch_entries row of each ledger entry
    claim,      \* treasury_claim_events: stored by whom, and the matched batch
    handoff,    \* partner_handoffs
    realized,   \* the entries with a revenue_realizations row
    verdict,    \* treasury_ledger_entries.canonicality_state
    bank,       \* the latest bank_payout_confirmations row of each entry
    inflight    \* the requests that have checked and not yet committed

entryVars == <<verdict, bank>>
sweepVars == <<period, batch, allocation, claim, handoff, realized>>
vars == <<entryVars, sweepVars, inflight>>

SweepInit ==
    /\ verdict = [e \in Entries |-> "UNVERIFIED"]
    /\ bank = [e \in Entries |-> "NONE"]
    /\ inflight = {}
    /\ period = [p \in Periods |-> None]
    /\ batch = [b \in Batches |-> None]
    /\ allocation = [e \in Entries |-> None]
    /\ claim \in [Txs -> {[amount |-> n, stored |-> FALSE, batch |-> None] : n \in Totals}]
    /\ handoff = [b \in Batches |-> [status |-> "NONE", frozen |-> FALSE]]
    /\ realized = {}

entriesOf(b) == {e \in Entries : allocation[e] # None /\ allocation[e].batch = b}
allocatedTotal(b) == SumFunction([e \in entriesOf(b) |-> allocation[e].amount])

Request(op, subject, state, actor) ==
    [op |-> op, subject |-> subject, state |-> state, actor |-> actor]

(* A request for a status the batch has already left behind is refused by  *)
(* its commit and changes nothing: such requests are not started.          *)
ahead(b, status) ==
    LET order == [s \in {"DRAFT", "PENDING_APPROVAL", "APPROVED", "EXECUTED",
                         "HANDED_OFF", "CLOSED"} |->
                    CASE s = "DRAFT" -> 0 [] s = "PENDING_APPROVAL" -> 1 [] s = "APPROVED" -> 2
                      [] s = "EXECUTED" -> 3 [] s = "HANDED_OFF" -> 4 [] s = "CLOSED" -> 5]
    IN  order[batch[b].status] < order[status]

Start(r) ==
    /\ Cardinality(inflight) < MaxInFlight
    /\ inflight' = inflight \cup {r}

Finish(r) == inflight' = inflight \ {r}

(***************************************************************************)
(* accountingPolicy.ts: the transition tables and who may take them.  No   *)
(* handler asks for VOID, for a return to DRAFT or for reopening a period. *)
(***************************************************************************)
batchTransitions ==
    {<<"DRAFT", "PENDING_APPROVAL">>, <<"PENDING_APPROVAL", "APPROVED">>,
     <<"APPROVED", "EXECUTED">>, <<"EXECUTED", "HANDED_OFF">>,
     <<"EXECUTED", "CLOSED">>, <<"HANDED_OFF", "CLOSED">>}

actorRole(status) ==
    CASE status = "PENDING_APPROVAL" -> "MAKER"
      [] status = "APPROVED" -> "CHECKER"
      [] status \in {"EXECUTED", "HANDED_OFF"} -> "EXECUTOR"
      [] status = "CLOSED" -> "CLOSER"

heldRoles(b, a) == {x[2] : x \in {y \in batch[b].chain : y[1] = a}}

batchRolesSeparated(b, status, a) ==
    /\ status = "APPROVED" => a # batch[b].createdBy /\ "MAKER" \notin heldRoles(b, a)
    /\ status = "EXECUTED" => "CHECKER" \notin heldRoles(b, a)
    /\ status = "CLOSED" => heldRoles(b, a) \cap {"CHECKER", "EXECUTOR"} = {}

(***************************************************************************)
(* applySweepBatchStatusUpdate, inside the transaction that locks the      *)
(* batch: transition, separation of duties, and the persisted canonicality *)
(* of every allocated entry where the transition commits value.            *)
(***************************************************************************)
applyStatusUpdate(b, status, a, tx) ==
    /\ batch[b] # None
    /\ <<batch[b].status, status>> \in batchTransitions
    /\ batchRolesSeparated(b, status, a)
    /\ status \in {"PENDING_APPROVAL", "APPROVED", "CLOSED"} =>
        \A e \in entriesOf(b) : verdict[e] = "CANONICAL"
    /\ batch' = [batch EXCEPT ![b] =
                    [@ EXCEPT !.status = status, !.tx = tx,
                              !.chain = @ \cup {<<a, actorRole(status)>>}]]

(***************************************************************************)
(* Accounting periods.                                                     *)
(***************************************************************************)
createAccountingPeriod(p, a) ==
    /\ period[p] = None
    /\ period' = [period EXCEPT ![p] = [status |-> "OPEN", createdBy |-> a, makers |-> {}]]
    /\ UNCHANGED <<entryVars, inflight, batch, allocation, claim, handoff, realized>>

requestAccountingPeriodClose(p, a) ==
    /\ period[p] # None /\ period[p].status = "OPEN"
    /\ period' = [period EXCEPT ![p].status = "PENDING_CLOSE", ![p].makers = @ \cup {a}]
    /\ UNCHANGED <<entryVars, inflight, batch, allocation, claim, handoff, realized>>

(* projectTreasuryAccountingState = EXCEPTION, as the close packet reads it. *)
inException(e) ==
    /\ e \notin realized
    /\ \/ bank[e] = "REJECTED"
       \/ allocation[e] # None /\ handoff[allocation[e].batch].status \in {"FAILED", "RETURNED"}

readyForClose(p) ==
    /\ \A b \in Batches :
        batch[b] # None /\ batch[b].period = p => batch[b].status = "CLOSED"
    /\ \A e \in Entries : ~inException(e)

closeAccountingPeriodRead(p, a) ==
    /\ period[p] # None /\ period[p].status # "CLOSED"
    /\ readyForClose(p)
    /\ Start(Request("closePeriod", p, None, a))
    /\ UNCHANGED <<entryVars, sweepVars>>

closeAccountingPeriod(r) ==
    /\ r.op = "closePeriod"
    /\ period[r.subject].status = "PENDING_CLOSE"
    /\ r.actor \notin period[r.subject].makers \cup {period[r.subject].createdBy}
    /\ period' = [period EXCEPT ![r.subject].status = "CLOSED"]
    /\ Finish(r)
    /\ UNCHANGED <<entryVars, batch, allocation, claim, handoff, realized>>

(***************************************************************************)
(* Sweep batches: creation and allocation.                                 *)
(***************************************************************************)
createSweepBatch(b, p, a, total, receiver) ==
    /\ batch[b] = None
    /\ period[p] # None /\ period[p].status = "OPEN"
    /\ batch' = [batch EXCEPT ![b] =
                    [status |-> "DRAFT", period |-> p, expected |-> total,
                     receiver |-> receiver, createdBy |-> a, chain |-> {}, tx |-> None]]
    /\ UNCHANGED <<entryVars, inflight, period, allocation, claim, handoff, realized>>

(* The payout gate over a set of entries: each verdict is persisted.       *)
PayoutGate(S) ==
    /\ \A e \in S : verdict[e] # "ORPHANED"
    /\ verdict' = [e \in Entries |-> IF e \in S THEN "CANONICAL" ELSE verdict[e]]
    /\ UNCHANGED bank

addSweepBatchEntryRead(b, e, n) ==
    /\ batch[b] # None /\ ahead(b, "PENDING_APPROVAL")
    /\ PayoutGate({e})
    /\ Start(Request("allocate", <<b, e, n>>, None, None))
    /\ UNCHANGED sweepVars


addSweepBatchEntry(r) ==
    /\ r.op = "allocate"
    /\ LET b == r.subject[1]  e == r.subject[2]  n == r.subject[3] IN
        /\ period[batch[b].period].status = "OPEN"
        /\ batch[b].status = "DRAFT"
        /\ verdict[e] = "CANONICAL"
        /\ allocation[e] = None
        /\ n <= AmountRaw
        /\ allocation' = [allocation EXCEPT ![e] = [batch |-> b, amount |-> n]]
    /\ Finish(r)
    /\ UNCHANGED <<entryVars, period, batch, claim, handoff, realized>>

(***************************************************************************)
(* Approval: unlocked totals and gate, then the locked transition.         *)
(***************************************************************************)
requestSweepBatchApprovalRead(b, a) ==
    /\ batch[b] # None /\ ahead(b, "PENDING_APPROVAL")
    /\ entriesOf(b) # {}
    /\ batch[b].receiver
    /\ allocatedTotal(b) = batch[b].expected
    /\ PayoutGate(entriesOf(b))
    /\ Start(Request("transition", b, "PENDING_APPROVAL", a))
    /\ UNCHANGED sweepVars

approveSweepBatchRead(b, a) ==
    /\ batch[b] # None /\ ahead(b, "APPROVED")
    /\ allocatedTotal(b) = batch[b].expected
    /\ PayoutGate(entriesOf(b))
    /\ Start(Request("transition", b, "APPROVED", a))
    /\ UNCHANGED sweepVars

(* The commit of a requested approval, an approval, a handoff or a close.  *)
updateSweepBatchStatus(r) ==
    /\ r.op = "transition"
    /\ applyStatusUpdate(r.subject, r.state, r.actor, batch[r.subject].tx)
    /\ Finish(r)
    /\ UNCHANGED <<entryVars, period, allocation, claim, handoff, realized>>

(***************************************************************************)
(* Execution: the claim is verified against the batch, read inside the     *)
(* transaction without a lock, and bound together with EXECUTED.           *)
(***************************************************************************)
ingestClaimEvent(tx) ==
    /\ ~claim[tx].stored
    /\ claim' = [claim EXCEPT ![tx].stored = TRUE]
    /\ UNCHANGED <<entryVars, inflight, period, batch, allocation, handoff, realized>>

(* assertBatchExecutionMatchable. *)
matchable(b, tx) ==
    /\ batch[b].status = "APPROVED"
    /\ batch[b].receiver
    /\ batch[b].expected = allocatedTotal(b)
    /\ claim[tx].amount = allocatedTotal(b)
    /\ entriesOf(b) # {}

markSweepBatchExecutedRead(b, tx, a) ==
    /\ batch[b] # None
    /\ \A t \in Txs : claim[t].batch = b => t = tx
    /\ matchable(b, tx)
    /\ claim[tx].batch \in {None, b}
    /\ Start(Request("execute", <<b, tx>>, IF claim[tx].stored THEN "UPDATE" ELSE "INSERT", a))
    /\ UNCHANGED <<entryVars, sweepVars>>

recordSweepBatchExecution(r) ==
    /\ r.op = "execute"
    /\ LET b == r.subject[1]  tx == r.subject[2] IN
        /\ r.state = "INSERT" => ~claim[tx].stored   \* UNIQUE (tx_hash)
        /\ claim' = [claim EXCEPT ![tx].stored = TRUE, ![tx].batch = b]
        /\ applyStatusUpdate(b, "EXECUTED", r.actor, tx)
    /\ Finish(r)
    /\ UNCHANGED <<entryVars, period, allocation, handoff, realized>>

(***************************************************************************)
(* The partner handoff of a batch: classification of a delivery against    *)
(* the authoritative status (core/providerHandoffAuthority.ts).            *)
(***************************************************************************)
terminalStatuses == {"COMPLETED", "FAILED", "RETURNED"}

rank(s) ==
    CASE s = "CREATED" -> 0
      [] s = "SUBMITTED" -> 1
      [] s \in {"ACKNOWLEDGED", "PROCESSING"} -> 2
      [] s \in terminalStatuses -> 3

isHandedOff(s) == s \in {"SUBMITTED", "ACKNOWLEDGED", "PROCESSING", "COMPLETED"}

(* Mutant: a later terminal answer of the same rank is taken. *)
classify_LastAnswerWins(from, to) ==
    CASE from = "NONE" -> "ADVANCE"
      [] from = to -> "REPLAY"
      [] from # "NONE" /\ from # to -> IF rank(to) < rank(from) THEN "STALE" ELSE "ADVANCE"

classify(from, to) ==
    CASE from = "NONE" -> "ADVANCE"
      [] from = to -> "REPLAY"
      [] from \in terminalStatuses /\ to \in terminalStatuses /\ from # to -> "CONTRADICTION"
      [] from \in terminalStatuses /\ to \notin terminalStatuses -> "STALE"
      [] from \notin terminalStatuses \cup {"NONE"} /\ from # to ->
            IF rank(to) < rank(from) THEN "STALE" ELSE "ADVANCE"

disposition(h, to, evidence) ==
    CASE h.frozen -> "FROZEN"
      [] ~h.frozen /\ to = "COMPLETED" /\ ~evidence -> "REJECTED"
      [] OTHER -> classify(h.status, to)

(* revalidateMatchedBatch: an executed batch moves on only while the claim *)
(* it names is still bound to it.                                          *)
revalidated(b) ==
    /\ batch[b].tx # None
    /\ claim[batch[b].tx].batch = b

(* upsertPartnerHandoff, and, for a delivery that was not refused, the     *)
(* batch transition the controller attempts next.  It consults the status  *)
(* the delivery carried.                                                   *)
recordPartnerHandoff(b, to, evidence, a) ==
    /\ batch[b] # None /\ batch[b].tx # None
    /\ LET d == disposition(handoff[b], to, evidence) IN
        /\ handoff' =
            CASE d = "ADVANCE" -> [handoff EXCEPT ![b].status = to]
              [] d = "CONTRADICTION" -> [handoff EXCEPT ![b].frozen = TRUE]
              [] OTHER -> handoff
        /\ IF d \in {"ADVANCE", "STALE", "REPLAY"} /\ isHandedOff(to)
                /\ batch[b].status = "EXECUTED" /\ revalidated(b)
           THEN Start(Request("transition", b, "HANDED_OFF", a))
           ELSE UNCHANGED inflight
    /\ UNCHANGED <<entryVars, period, batch, allocation, claim, realized>>

(***************************************************************************)
(* createRevenueRealization: batch and entry locked, facts re-read.        *)
(***************************************************************************)
createRevenueRealization(e) ==
    /\ allocation[e] # None
    /\ LET b == allocation[e].batch IN
        /\ revalidated(b)
        /\ batch[b].status \in {"HANDED_OFF", "CLOSED"}
        /\ handoff[b].status = "COMPLETED"
    /\ bank[e] = "CONFIRMED"
    /\ e \notin realized
    /\ realized' = realized \cup {e}
    /\ UNCHANGED <<entryVars, inflight, period, batch, allocation, claim, handoff>>

closeSweepBatchRead(b, a) ==
    /\ batch[b] # None /\ ahead(b, "CLOSED")
    /\ handoff[b].status = "COMPLETED"
    /\ entriesOf(b) \subseteq realized
    /\ PayoutGate(entriesOf(b))
    /\ revalidated(b)
    /\ Start(Request("transition", b, "CLOSED", a))
    /\ UNCHANGED sweepVars

(***************************************************************************)
(* What happens to an entry elsewhere, and a request that dies between its *)
(* check and its commit.                                                   *)
(***************************************************************************)
EntryAssessed(e, v) ==
    /\ verdict[e] # "ORPHANED" /\ verdict[e] # v
    /\ verdict' = [verdict EXCEPT ![e] = v]
    /\ UNCHANGED <<bank, sweepVars, inflight>>

BankReports(e, report) ==
    /\ bank[e] # report
    /\ bank' = [bank EXCEPT ![e] = report]
    /\ UNCHANGED <<verdict, sweepVars, inflight>>

Abandon(r) ==
    /\ Finish(r)
    /\ UNCHANGED <<entryVars, sweepVars>>

PeriodStep ==
    \E p \in Periods :
        \/ \E c \in Controllers :
            \/ createAccountingPeriod(p, c)
            \/ requestAccountingPeriodClose(p, c)
            \/ closeAccountingPeriodRead(p, c)
        \/ \E a \in Actors, b \in Batches, total \in Totals, receiver \in BOOLEAN :
            createSweepBatch(b, p, a, total, receiver)

BatchStep ==
    \E b \in Batches, a \in Actors :
        \/ \E e \in Entries, n \in 1 .. AmountRaw : addSweepBatchEntryRead(b, e, n)
        \/ requestSweepBatchApprovalRead(b, a)
        \/ approveSweepBatchRead(b, a)
        \/ \E tx \in Txs : markSweepBatchExecutedRead(b, tx, a)
        \/ \E s \in ProviderReports, evidence \in BOOLEAN : recordPartnerHandoff(b, s, evidence, a)
        \/ closeSweepBatchRead(b, a)

CommitStep ==
    \E r \in inflight :
        \/ closeAccountingPeriod(r)
        \/ addSweepBatchEntry(r)
        \/ updateSweepBatchStatus(r)
        \/ recordSweepBatchExecution(r)
        \/ Abandon(r)

EntryStep ==
    \E e \in Entries :
        \/ \E v \in {"CANONICAL", "ORPHANED"} : EntryAssessed(e, v)
        \/ \E report \in {"CONFIRMED", "REJECTED"} : BankReports(e, report)
        \/ createRevenueRealization(e)

SweepNext ==
    \/ PeriodStep
    \/ BatchStep
    \/ CommitStep
    \/ \E tx \in Txs : ingestClaimEvent(tx)
    \/ EntryStep

SweepSpec == SweepInit /\ [][SweepNext]_vars

(***************************************************************************)
(* Properties.                                                             *)
(***************************************************************************)


(* The partner's authoritative answer never moves back, a terminal answer  *)
(* is never replaced, and a frozen handoff stands still, in whatever order *)
(* deliveries arrive (upsertPartnerHandoff).                               *)
HandoffNeverRegresses ==
    [][\A b \in Batches :
        /\ handoff[b].status # "NONE" => rank(handoff'[b].status) >= rank(handoff[b].status)
        /\ handoff[b].status \in terminalStatuses => handoff'[b].status = handoff[b].status
        /\ handoff[b].frozen => handoff'[b] = handoff[b]]_vars

=============================================================================
