------------------------- MODULE IndexerProjection --------------------------
(***************************************************************************)
(* The indexer (indexer/src): the escrow contract's event logs projected   *)
(* into tables of trades, proposals and overview counters.                 *)
(*                                                                         *)
(* Every contract step of module AgroasysEscrow appends the logs it emits, *)
(* in the contract's order, as one block of `pending`; the indexer takes   *)
(* any number of blocks at a time.  processBatch works on copies and       *)
(* Subsquid commits the rows and the checkpoint in one transaction, so a   *)
(* batch is one step: it commits, or it throws and the process exits.      *)
(* The event tables, which only grow, are represented by what is computed  *)
(* from them: the amounts paid per trade and its terminal event.  Logs     *)
(* that touch no trade or proposal, of which the indexer only keeps a row, *)
(* are left out.                                                           *)
(***************************************************************************)
EXTENDS AgroasysEscrow

LOCAL INSTANCE SequencesExt

CONSTANTS
    PROPOSAL_TTL, \* PROPOSAL_TTL_MS, the one lifetime the indexer knows
    MaxLag,       \* bound on blocks the indexer is behind
    MaxFaults     \* bound on batches that fail for an outside reason

VARIABLES
    pending,      \* blocks after the checkpoint, each a sequence of logs
    store,        \* the projection
    running,      \* whether the processor has passed its startup gates
    quarantine    \* positions in pending of the blocks with unresolved rows

VARIABLE faults

indexerVars == <<store, running, quarantine, faults>>
projectionVars == <<vars, pending, indexerVars>>

-----------------------------------------------------------------------------
(* The overview counters, one per bucket.                                  *)

Buckets == {"total", "locked", "stage1", "stage2", "completed", "disputed", "cancelled"}

createEmptyOverviewCounters == [bucket \in Buckets |-> 0]

bucketOf(status) ==
    CASE status = "LOCKED" -> "locked"
      [] status = "IN_TRANSIT" -> "stage1"
      [] status = "ARRIVAL_CONFIRMED" -> "stage2"
      [] status = "CLOSED" -> "completed"
      [] status = "FROZEN" -> "disputed"

incrementStatusBucket(counters, bucket) == [counters EXCEPT ![bucket] = @ + 1]

(* A handler that throws poisons the batch: s.ok is false from there on.   *)
Throw(s) == [s EXCEPT !.ok = FALSE]

(* decrementStatusBucket throws rather than count below zero.              *)
moveBucket(s, from, to) ==
    IF s.overview[from] <= 0 THEN Throw(s)
    ELSE [s EXCEPT !.overview[from] = @ - 1, !.overview[to] = @ + 1]

applyTradeCreated(s) ==
    [s EXCEPT !.overview = incrementStatusBucket(incrementStatusBucket(@, "total"), "locked")]

applyTradeTransition(s, prev, next) ==
    IF prev = next THEN s ELSE moveBucket(s, bucketOf(prev), bucketOf(next))

applyTradeCancelled(s, prev) == moveBucket(s, bucketOf(prev), "cancelled")

CancellationEvents ==
    {"TradeCancelledAfterLockTimeout", "InTransitTimeoutRefunded", "DisputePayout:REFUND"}

(* The bucket a stored trade is counted in when the snapshot is rebuilt.   *)
rebuiltBucket(trade) ==
    IF trade.status = "CLOSED" /\ trade.terminal \in CancellationEvents
    THEN "cancelled" ELSE bucketOf(trade.status)

buildCountersFromExistingState(rows) ==
    [bucket \in Buckets |->
        IF bucket = "total" THEN Cardinality(DOMAIN rows)
        ELSE Cardinality({id \in DOMAIN rows : rebuiltBucket(rows[id]) = bucket})]

-----------------------------------------------------------------------------
(* Trade events                                                            *)

withRow(rows, id, row) == [i \in DOMAIN rows \cup {id} |-> IF i = id THEN row ELSE rows[i]]

handleTradeLocked(s, log) ==
    LET row == [status |-> "LOCKED", paused |-> FALSE, arrivalTimestamp |-> 0,
                totalAmountLocked |-> log.amount, terminal |-> "none",
                paid |-> [supplier |-> 0, buyer |-> 0, treasury |-> 0]]
    IN [applyTradeCreated(s) EXCEPT !.trades = withRow(@, log.id, row)]

(* getOrLoadTrade: an event of a trade that is not stored throws.          *)
onTrade(s, log, projected) == IF log.id \in DOMAIN s.trades THEN projected ELSE Throw(s)

moveTrade(s, log, status) ==
    onTrade(s, log, [applyTradeTransition(s, s.trades[log.id].status, status)
                        EXCEPT !.trades[log.id].status = status])

handleFundsReleasedStage1(s, log) == moveTrade(s, log, "IN_TRANSIT")

handleInspectionAvailable(s, log) ==
    onTrade(s, log, [moveTrade(s, log, "ARRIVAL_CONFIRMED")
                        EXCEPT !.trades[log.id].arrivalTimestamp = log.at])

handleDisputeOpenedByBuyer(s, log) == moveTrade(s, log, "FROZEN")

handleFinalTrancheReleased(s, log) ==
    onTrade(s, log, [moveTrade(s, log, "CLOSED")
                        EXCEPT !.trades[log.id].terminal = log.name])

handleTradePaused(s, log) ==
    onTrade(s, log, [s EXCEPT !.trades[log.id].paused = TRUE])

handleTradeUnpaused(s, log) ==
    onTrade(s, log, [s EXCEPT !.trades[log.id].paused = FALSE])

closeCancelled(s, log, terminal) ==
    onTrade(s, log, [applyTradeCancelled(s, s.trades[log.id].status)
                        EXCEPT !.trades[log.id].status = "CLOSED",
                               !.trades[log.id].terminal = terminal])

handleTradeCancelledAfterLockTimeout(s, log) == closeCancelled(s, log, log.name)

handleInTransitTimeoutRefunded(s, log) == closeCancelled(s, log, log.name)

(* Mutant: a refund is counted as a completed trade.                       *)
handleDisputePayout_Completed(s, log) ==
    [handleFinalTrancheReleased(s, log)
        EXCEPT !.trades[log.id].terminal = IF log.outcome = "REFUND" THEN "DisputePayout:REFUND" ELSE @]

handleDisputePayout(s, log) ==
    IF log.outcome = "REFUND" THEN closeCancelled(s, log, "DisputePayout:REFUND")
    ELSE handleFinalTrancheReleased(s, log)

(* Rows of the event table with an amount, added up by recipient.          *)
recordPaid(s, log, recipient) ==
    onTrade(s, log, [s EXCEPT !.trades[log.id].paid[recipient] = @ + log.amount])

handleSupplierPayoutTransferred(s, log) == recordPaid(s, log, "supplier")

handleBuyerRefundTransferred(s, log) == recordPaid(s, log, "buyer")

handleClaimableAccrued(s, log) == recordPaid(s, log, "treasury")

(* Rows that repeat what other events say: they only need their trade.     *)
handlePlatformFeesPaidStage1(s, log) == onTrade(s, log, s)
handleInspectionAcceptedForFinalRelease(s, log) == onTrade(s, log, s)
handleRelayedActionExecuted(s, log) == onTrade(s, log, s)
handleGaslessTradeFunded(s, log) == onTrade(s, log, s)

-----------------------------------------------------------------------------
(* Proposal events.  The three proposal tables have the same columns here; *)
(* proposal id i is element i+1 of its table.                              *)

newProposal(log) ==
    [approvalCount |-> 1, executed |-> FALSE, cancelled |-> FALSE,
     expiresAt |-> log.at + PROPOSAL_TTL]

insertProposal(s, table, log) ==
    [s EXCEPT ![table] = withRow(@, log.id, newProposal(log))]

(* An event whose parent proposal is not stored throws.                    *)
onProposal(s, table, log, projected) ==
    IF log.id \in DOMAIN s[table] THEN projected ELSE Throw(s)

setApprovals(s, table, log) ==
    onProposal(s, table, log, [s EXCEPT ![table][log.id].approvalCount = log.count])

setExecuted(s, table, log) ==
    onProposal(s, table, log, [s EXCEPT ![table][log.id].executed = TRUE])

setCancelled(s, table, log) ==
    onProposal(s, table, log, [s EXCEPT ![table][log.id].cancelled = TRUE])

handleDisputeSolutionProposed(s, log) ==
    IF log.trade \in DOMAIN s.trades THEN insertProposal(s, "disputes", log) ELSE Throw(s)
handleDisputeApproved(s, log) == setApprovals(s, "disputes", log)
handleDisputeFinalized(s, log) == setExecuted(s, "disputes", log)
handleDisputeProposalExpiredCancelled(s, log) == setCancelled(s, "disputes", log)

handleOracleUpdateProposed(s, log) == insertProposal(s, "oracles", log)
handleOracleUpdateApproved(s, log) == setApprovals(s, "oracles", log)
(* OracleUpdated names no proposal: the row's executed column stays false. *)
handleOracleUpdated(s, log) == s
handleOracleUpdateProposalExpiredCancelled(s, log) == setCancelled(s, "oracles", log)

handleAdminChangeProposed(s, log) == insertProposal(s, "admins", log)
handleAdminChangeApproved(s, log) == setApprovals(s, "admins", log)
handleAdminChangeExecuted(s, log) == setExecuted(s, "admins", log)
handleAdminChangeProposalCancelled(s, log) == setCancelled(s, "admins", log)

-----------------------------------------------------------------------------
(* The switch of processBatch.                                             *)
handle(s, log) ==
    CASE log.name = "TradeLocked" -> handleTradeLocked(s, log)
      [] log.name = "FundsReleasedStage1" -> handleFundsReleasedStage1(s, log)
      [] log.name = "PlatformFeesPaidStage1" -> handlePlatformFeesPaidStage1(s, log)
      [] log.name = "InspectionAvailable" -> handleInspectionAvailable(s, log)
      [] log.name = "InspectionAcceptedForFinalRelease" ->
            handleInspectionAcceptedForFinalRelease(s, log)
      [] log.name = "FinalTrancheReleased" -> handleFinalTrancheReleased(s, log)
      [] log.name = "DisputeOpenedByBuyer" -> handleDisputeOpenedByBuyer(s, log)
      [] log.name = "TradePaused" -> handleTradePaused(s, log)
      [] log.name = "TradeUnpaused" -> handleTradeUnpaused(s, log)
      [] log.name = "TradeCancelledAfterLockTimeout" ->
            handleTradeCancelledAfterLockTimeout(s, log)
      [] log.name = "InTransitTimeoutRefunded" -> handleInTransitTimeoutRefunded(s, log)
      [] log.name = "RelayedActionExecuted" -> handleRelayedActionExecuted(s, log)
      [] log.name = "GaslessTradeFunded" -> handleGaslessTradeFunded(s, log)
      [] log.name = "SupplierPayoutTransferred" -> handleSupplierPayoutTransferred(s, log)
      [] log.name = "BuyerRefundTransferred" -> handleBuyerRefundTransferred(s, log)
      [] log.name = "ClaimableAccrued" -> handleClaimableAccrued(s, log)
      [] log.name = "DisputeSolutionProposed" -> handleDisputeSolutionProposed(s, log)
      [] log.name = "DisputeApproved" -> handleDisputeApproved(s, log)
      [] log.name = "DisputeFinalized" -> handleDisputeFinalized(s, log)
      [] log.name = "DisputeProposalExpiredCancelled" ->
            handleDisputeProposalExpiredCancelled(s, log)
      [] log.name = "DisputePayout" -> handleDisputePayout(s, log)
      [] log.name = "OracleUpdateProposed" -> handleOracleUpdateProposed(s, log)
      [] log.name = "OracleUpdateApproved" -> handleOracleUpdateApproved(s, log)
      [] log.name = "OracleUpdated" -> handleOracleUpdated(s, log)
      [] log.name = "OracleUpdateProposalExpiredCancelled" ->
            handleOracleUpdateProposalExpiredCancelled(s, log)
      [] log.name = "AdminChangeProposed" -> handleAdminChangeProposed(s, log)
      [] log.name = "AdminChangeApproved" -> handleAdminChangeApproved(s, log)
      [] log.name = "AdminChangeExecuted" -> handleAdminChangeExecuted(s, log)
      [] log.name = "AdminChangeProposalCancelled" ->
            handleAdminChangeProposalCancelled(s, log)

(* The first log whose handler throws ends the batch.                      *)
project(s, blocks) ==
    LET step(after, log) == IF after.ok THEN handle(after, log) ELSE after
    IN FoldLeft(step, s, FlattenSeq(blocks))

-----------------------------------------------------------------------------
(* The logs of a transaction, in the order the contract emits them.        *)

Log(name, id) == [name |-> name, id |-> id]
AmountLog(name, id, amount) == [name |-> name, id |-> id, amount |-> amount]
TimedLog(name, id) == [name |-> name, id |-> id, at |-> now]
CountLog(name, id, count) == [name |-> name, id |-> id, count |-> count]

emits(logs) ==
    /\ Len(pending) < MaxLag
    /\ pending' = Append(pending, logs)
    /\ UNCHANGED indexerVars

(* The payout events of a transfer or accrual, none for a zero amount.     *)
paidLog(name, id, amount) ==
    IF amount = 0 THEN << >> ELSE <<AmountLog(name, id, amount)>>

supplierPaid(id, amount) == paidLog("SupplierPayoutTransferred", id, amount)
buyerPaid(id, amount) == paidLog("BuyerRefundTransferred", id, amount)
accrued(id, amount) == paidLog("ClaimableAccrued", id, amount)

finalTrancheLogs(id) ==
    supplierPaid(id, Amounts(id).supplierSecondTranche)
      \o <<Log("FinalTrancheReleased", id)>>

TradeLogStep ==
    \/ \E buyer \in Buyers, supplier \in Suppliers, q \in Quotes :
          /\ createTradeWithAuthorization(buyer, supplier, q)
          /\ emits(<<AmountLog("TradeLocked", tradeCounter, q.totalAmount),
                     Log("GaslessTradeFunded", tradeCounter),
                     Log("RelayedActionExecuted", tradeCounter)>>)
    \/ \E id \in DOMAIN trades :
          \/ /\ releaseFundsStage1(id)
             /\ emits(supplierPaid(id, Amounts(id).supplierFirstTranche)
                        \o accrued(id, Amounts(id).logisticsAmount)
                        \o accrued(id, Amounts(id).platformFeesAmount)
                        \o <<Log("FundsReleasedStage1", id),
                             Log("PlatformFeesPaidStage1", id)>>)
          \/ /\ \E w \in {STANDARD_INSPECTION_WINDOW, PACKAGED_LOCAL_INSPECTION_WINDOW} :
                   confirmInspectionAvailable(id, w)
             /\ emits(<<TimedLog("InspectionAvailable", id)>>)
          \/ /\ openDisputeWithAuthorization(id)
             /\ emits(<<Log("DisputeOpenedByBuyer", id), Log("RelayedActionExecuted", id)>>)
          \/ finalizeAfterDisputeWindow(id) /\ emits(finalTrancheLogs(id))
          \/ /\ finalizeAfterDisputeWindowWithAuthorization(id)
             /\ emits(Append(finalTrancheLogs(id), Log("RelayedActionExecuted", id)))
          \/ /\ finalizeAfterInspectionAcceptanceWithAuthorization(id)
             /\ emits(finalTrancheLogs(id) \o <<Log("InspectionAcceptedForFinalRelease", id),
                                                Log("RelayedActionExecuted", id)>>)
          \/ /\ cancelLockedTradeAfterTimeoutWithAuthorization(id)
             /\ emits(buyerPaid(id, Amounts(id).totalAmount)
                        \o <<Log("TradeCancelledAfterLockTimeout", id),
                             Log("RelayedActionExecuted", id)>>)
          \/ /\ refundInTransitAfterTimeoutWithAuthorization(id)
             /\ emits(buyerPaid(id, Amounts(id).supplierSecondTranche)
                        \o <<Log("InTransitTimeoutRefunded", id),
                             Log("RelayedActionExecuted", id)>>)

executedLogs(id) ==
    LET p == disputeProposals[id]
        amount == Amounts(p.tradeId).supplierSecondTranche
    IN (IF p.disputeStatus = "REFUND"
        THEN buyerPaid(p.tradeId, amount) ELSE supplierPaid(p.tradeId, amount))
       \o <<[name |-> "DisputePayout", id |-> p.tradeId, outcome |-> p.disputeStatus],
            Log("DisputeFinalized", id)>>

DisputeLogStep ==
    \/ \E who \in admins, tradeId \in DOMAIN trades, outcome \in DisputeStatus :
          /\ proposeDisputeSolution(who, tradeId, outcome)
          /\ emits((IF tradeId \in tradeHasActiveDisputeProposal
                     THEN <<Log("DisputeProposalExpiredCancelled",
                                tradeActiveDisputeProposalId[tradeId])>>
                     ELSE << >>)
                    \o <<[name |-> "DisputeSolutionProposed", trade |-> tradeId, at |-> now,
                          id |-> Len(disputeProposals) + 1]>>)
    \/ \E id \in DOMAIN disputeProposals :
          LET approval == <<CountLog("DisputeApproved", id,
                                     disputeProposals[id].approvalCount + 1)>>
          IN \/ /\ \E who \in admins : approveDisputeSolution(who, id)
                /\ emits(approval)
             \/ /\ \E who \in admins : approveAndExecuteDispute(who, id)
                /\ emits(approval \o executedLogs(id))
             \/ /\ cancelExpiredDisputeProposal(id)
                /\ emits(<<Log("DisputeProposalExpiredCancelled", id)>>)

OracleLogStep ==
    \/ /\ \E who \in admins, account \in Accounts : proposeOracleUpdate(who, account)
       /\ LET id == Len(oracleUpdateProposals) + 1
          IN emits(<<TimedLog("OracleUpdateProposed", id),
                     CountLog("OracleUpdateApproved", id, 1)>>)
    \/ \E id \in DOMAIN oracleUpdateProposals :
          \/ /\ \E who \in admins : approveOracleUpdate(who, id)
             /\ emits(<<CountLog("OracleUpdateApproved", id,
                                 oracleUpdateProposals[id].approvalCount + 1)>>)
          \/ executeOracleUpdate(id) /\ emits(<<Log("OracleUpdated", id)>>)
          \/ /\ cancelExpiredOracleUpdateProposal(id)
             /\ emits(<<Log("OracleUpdateProposalExpiredCancelled", id)>>)

AdminLogStep ==
    \/ /\ \E who \in admins, change \in AdminChange : proposeAdminChange(who, change)
       /\ LET id == Len(adminChangeProposals) + 1
          IN emits(<<TimedLog("AdminChangeProposed", id),
                     CountLog("AdminChangeApproved", id, 1)>>)
    \/ \E id \in DOMAIN adminChangeProposals :
          \/ /\ \E who \in admins : approveAdminChange(who, id)
             /\ emits(<<CountLog("AdminChangeApproved", id,
                                 adminChangeProposals[id].approvalCount + 1)>>)
          \/ executeAdminChange(id) /\ emits(<<Log("AdminChangeExecuted", id)>>)
          \/ /\ cancelAdminChangeProposal(id)
             /\ emits(<<Log("AdminChangeProposalCancelled", id)>>)

PauseLogStep ==
    \E who \in admins :
        \/ \E tradeId \in TradeIds :
              /\ "TRADE" \in Scopes
              /\ pauseTrade(who, tradeId)
              /\ emits(<<Log("TradePaused", tradeId)>>)
        \/ /\ unpauseProposal.scope = "TRADE"
           /\ approveAndExecuteUnpause(who)
           /\ emits(<<Log("TradeUnpaused", unpauseProposal.tradeId)>>)

(* Time, and the transactions of which the indexer only keeps a row.       *)
SilentStep ==
    \/ Tick
    \/ PayoutGovernance
    \/ \E who \in admins :
          \/ "GLOBAL" \in Scopes /\ pause(who)
          \/ "CLAIMS" \in Scopes /\ pauseClaims(who)
          \/ disableOracleEmergency(who)
          \/ \E target \in UnpauseTargets : proposeUnpause(who, target[1], target[2])
          \/ approveUnpause(who)
          \/ unpauseProposal.scope # "TRADE" /\ approveAndExecuteUnpause(who)
          \/ cancelUnpauseProposal(who)

ContractStep ==
    \/ TradeLogStep /\ UNCHANGED disputeVars
    \/ DisputeLogStep
    \/ (OracleLogStep \/ AdminLogStep \/ PauseLogStep)
         /\ UNCHANGED <<settlementVars, disputeVars>>
    \/ SilentStep /\ UNCHANGED <<settlementVars, disputeVars, pending, indexerVars>>
    \/ claimTreasury /\ UNCHANGED <<disputeVars, pending, indexerVars>>

-----------------------------------------------------------------------------
(* The processor                                                           *)

ProjectionInit ==
    /\ Init
    /\ pending = << >>
    /\ store = [ok |-> TRUE, trades |-> << >>, disputes |-> << >>, oracles |-> << >>,
                admins |-> << >>, overview |-> createEmptyOverviewCounters]
    /\ running = TRUE
    /\ quarantine = {}
    /\ faults = 0

(* The rows and the checkpoint commit together.                            *)
processBatch(n) ==
    LET projected == project(store, SubSeq(pending, 1, n)) IN
    /\ running
    /\ projected.ok
    /\ store' = projected
    /\ pending' = SubSeq(pending, n + 1, Len(pending))
    /\ UNCHANGED <<vars, running, quarantine, faults>>

(* Mutant: the checkpoint is not rolled back with the rows.                *)
batchFails_CheckpointKept(n) ==
    /\ running
    /\ faults < MaxFaults
    /\ faults' = faults + 1
    /\ running' = FALSE
    /\ pending' = SubSeq(pending, n + 1, Len(pending))
    /\ UNCHANGED <<vars, store, quarantine>>

(* The batch rolls back and the process exits.  haltOnPoisonLog quarantines*)
(* the log that did not decode, a data or constraint failure of the write  *)
(* every log of the batch, any other failure none; writing such a row may  *)
(* itself fail.                                                            *)
batchFails(n) ==
    /\ running
    /\ faults < MaxFaults
    /\ faults' = faults + 1
    /\ running' = FALSE
    /\ quarantine' \in SUBSET (1..n)
    /\ UNCHANGED <<vars, pending, store>>

resolve(i) ==
    /\ quarantine' = quarantine \ {i}
    /\ UNCHANGED <<vars, pending, store, running, faults>>

(* Mutant: the processor starts whatever is quarantined.                   *)
runStartupGates_Open ==
    /\ ~running
    /\ running' = TRUE
    /\ UNCHANGED <<vars, pending, store, quarantine, faults>>

runStartupGates ==
    /\ ~running
    /\ quarantine = {}
    /\ running' = TRUE
    /\ UNCHANGED <<vars, pending, store, quarantine, faults>>

IndexerStep ==
    \/ \E n \in 1..Len(pending) : processBatch(n) \/ batchFails(n)
    \/ \E i \in quarantine : resolve(i)
    \/ runStartupGates

ProjectionNext == ContractStep \/ IndexerStep

ProjectionSpec == ProjectionInit /\ [][ProjectionNext]_projectionVars

-----------------------------------------------------------------------------
(* Properties                                                              *)

sameProposals(rows, onChain) ==
    /\ DOMAIN rows = DOMAIN onChain
    /\ \A id \in DOMAIN rows :
          /\ rows[id].approvalCount = onChain[id].approvalCount
          /\ rows[id].cancelled = onChain[id].cancelled
          /\ rows[id].expiresAt = onChain[id].expiresAt

executedAlike(rows, onChain) ==
    \A id \in DOMAIN rows : rows[id].executed = onChain[id].executed

(* From wherever the checkpoint stands, after any crash, retry or batch    *)
(* boundary, the logs still to come bring the tables to exactly what the   *)
(* contract stores: the status, pause, arrival and payments of every       *)
(* trade, and the approvals, expiry, cancellation and execution of every   *)
(* proposal.  No handler throws on the way, so no sequence of events the   *)
(* contract can emit halts the indexer by a missing parent row or by a     *)
(* counter below zero.  (executed is not compared for oracle updates: see  *)
(* handleOracleUpdated.)                                                   *)
ProjectionReachesChain ==
    LET projected == project(store, pending) IN
    /\ projected.ok
    /\ DOMAIN projected.trades = DOMAIN trades
    /\ \A id \in DOMAIN trades :
          LET row == projected.trades[id] IN
          /\ row.status = Status(id)
          /\ row.paused = (id \in tradePaused)
          /\ row.arrivalTimestamp = trades[id].arrivalTimestamp
          /\ row.totalAmountLocked = Amounts(id).totalAmount
          /\ row.paid = payouts[id]
    /\ sameProposals(projected.disputes, disputeProposals)
    /\ executedAlike(projected.disputes, disputeProposals)
    /\ sameProposals(projected.oracles, oracleUpdateProposals)
    /\ sameProposals(projected.admins, adminChangeProposals)
    /\ executedAlike(projected.admins, adminChangeProposals)

(* The counters kept incrementally are at every checkpoint the ones that   *)
(* getOrLoadOverviewSnapshot would rebuild from the stored trades and      *)
(* their latest terminal events, were the snapshot row missing.            *)
OverviewRebuildable == store.overview = buildCountersFromExistingState(store.trades)

(* While a quarantined log is unresolved nothing is projected and the      *)
(* checkpoint does not move: a restarted indexer waits for the operator.   *)
QuarantineHoldsCheckpoint ==
    [][quarantine # {} => store' = store /\ Len(pending') >= Len(pending)]_projectionVars

=============================================================================
