--------------------------- MODULE AgroasysEscrow ---------------------------
(***************************************************************************)
(* The whole escrow contract (contracts/src/AgroasysEscrow.sol): disputes, *)
(* which the admins of module EscrowGovernance settle over the trades of   *)
(* module EscrowTrades, and the composition of all three.                  *)
(*                                                                         *)
(* Dispute proposal id i is element i+1 of disputeProposals; its expiry,   *)
(* cancelled flag and approval mapping are fields of its record.  The      *)
(* contract clears a trade's pointer by writing id 0, which is also the id *)
(* of the first proposal: the flag alone tells the two apart.              *)
(***************************************************************************)
EXTENDS EscrowTrades

CONSTANTS
    DISPUTE_PROPOSAL_TTL,    \* contract constant, in model time units
    MaxDisputeProposals      \* bound of the model

ASSUME DisputeAssumption ==
    {DISPUTE_PROPOSAL_TTL, MaxDisputeProposals} \subseteq Nat

VARIABLES
    disputeProposals,
    tradeHasActiveDisputeProposal,    \* the trade ids whose flag is set
    tradeActiveDisputeProposalId      \* tradeId -> index of the proposal

disputeVars == <<disputeProposals, tradeHasActiveDisputeProposal,
                 tradeActiveDisputeProposalId>>
vars == <<governanceVars, settlementVars, disputeVars>>

DisputeStatus == {"REFUND", "RESOLVE"}

ZeroProposalId == 1      \* the index of proposal id 0

DisputeProposal ==
    [tradeId : Nat, disputeStatus : DisputeStatus, approvalCount : Nat,
     hasApproved : SUBSET Accounts, executed : BOOLEAN, cancelled : BOOLEAN,
     expiresAt : Nat, epoch : Nat]

-----------------------------------------------------------------------------
(* Dispute resolution                                                      *)

(* Mutant: a proposal of an earlier epoch cannot be replaced.              *)
ReplaceableWhenExpired(p) == now > p.expiresAt /\ ~p.cancelled

(* The branch of proposeDisputeSolution that lets a proposal be replaced.  *)
Replaceable(p) ==
    /\ now > p.expiresAt \/ p.epoch # governanceEpoch
    /\ ~p.cancelled

CancelDispute(id) == [disputeProposals EXCEPT ![id].cancelled = TRUE]

CanProposeDispute(who, tradeId) ==
    /\ who \in admins
    /\ NotPaused(tradeId)
    /\ Status(tradeId) = "FROZEN"
    /\ tradeId \in tradeHasActiveDisputeProposal =>
         Replaceable(disputeProposals[tradeActiveDisputeProposalId[tradeId]])

proposeDisputeSolution(who, tradeId, disputeStatus) ==
    /\ CanProposeDispute(who, tradeId)
    /\ Len(disputeProposals) < MaxDisputeProposals
    /\ LET kept == IF tradeId \in tradeHasActiveDisputeProposal
                   THEN CancelDispute(tradeActiveDisputeProposalId[tradeId])
                   ELSE disputeProposals
       IN disputeProposals' =
            Append(kept, [tradeId |-> tradeId, disputeStatus |-> disputeStatus,
                          approvalCount |-> 1, hasApproved |-> {who},
                          executed |-> FALSE, cancelled |-> FALSE,
                          expiresAt |-> now + DISPUTE_PROPOSAL_TTL,
                          epoch |-> governanceEpoch])
    /\ tradeHasActiveDisputeProposal' = tradeHasActiveDisputeProposal \cup {tradeId}
    /\ tradeActiveDisputeProposalId' =
         [tradeActiveDisputeProposalId EXCEPT ![tradeId] = Len(disputeProposals) + 1]
    /\ UNCHANGED <<governanceVars, settlementVars>>

(* Mutant: the epoch is not checked.                                       *)
CanApproveDisputeOfAnyEpoch(who, id) ==
    LET p == disputeProposals[id] IN
    /\ who \in admins \ p.hasApproved
    /\ NotPaused(p.tradeId)
    /\ ~p.executed
    /\ ~p.cancelled
    /\ now <= p.expiresAt
    /\ Status(p.tradeId) = "FROZEN"

CanApproveDispute(who, id) ==
    LET p == disputeProposals[id] IN
    /\ who \in admins
    /\ NotPaused(p.tradeId)
    /\ ~p.executed
    /\ ~p.cancelled
    /\ now <= p.expiresAt
    /\ p.epoch = governanceEpoch
    /\ Status(p.tradeId) = "FROZEN"
    /\ who \notin p.hasApproved

(* approveDisputeSolution short of the threshold.                          *)
approveDisputeSolution(who, id) ==
    /\ CanApproveDispute(who, id)
    /\ disputeProposals[id].approvalCount + 1 < requiredApprovals
    /\ disputeProposals' = [disputeProposals EXCEPT ![id] = Approve(@, who)]
    /\ UNCHANGED <<governanceVars, settlementVars, tradeHasActiveDisputeProposal,
                   tradeActiveDisputeProposalId>>

(* approveDisputeSolution at the threshold, which calls _executeDispute.   *)
approveAndExecuteDispute(who, id) ==
    LET p == disputeProposals[id]
        tradeId == p.tradeId
        payoutAmount == Amounts(tradeId).supplierSecondTranche
    IN
    /\ CanApproveDispute(who, id)
    /\ p.approvalCount + 1 >= requiredApprovals
    /\ disputeProposals' =
         [disputeProposals EXCEPT ![id] = [Approve(@, who) EXCEPT !.executed = TRUE]]
    /\ trades' = [trades EXCEPT ![tradeId].status = "CLOSED",
                                ![tradeId].inTransitSince = 0]
    /\ tradeHasActiveDisputeProposal' = tradeHasActiveDisputeProposal \ {tradeId}
    /\ tradeActiveDisputeProposalId' =
         [tradeActiveDisputeProposalId EXCEPT ![tradeId] = ZeroProposalId]
    /\ \/ p.disputeStatus = "REFUND" /\ transferBuyerRefund(tradeId, payoutAmount)
       \/ p.disputeStatus = "RESOLVE" /\ transferSupplierPayout(tradeId, payoutAmount)
    /\ UNCHANGED <<governanceVars, authorizationNonces, claimableUsdc,
                   totalClaimableUsdc, treasuryPaid>>

cancelExpiredDisputeProposal(id) ==
    LET tradeId == disputeProposals[id].tradeId
        isActive == /\ tradeId \in tradeHasActiveDisputeProposal
                    /\ tradeActiveDisputeProposalId[tradeId] = id
    IN
    /\ NotPaused(tradeId)
    /\ ~disputeProposals[id].executed
    /\ ~disputeProposals[id].cancelled
    /\ now > disputeProposals[id].expiresAt
    /\ disputeProposals' = CancelDispute(id)
    /\ IF isActive
       THEN /\ tradeHasActiveDisputeProposal' = tradeHasActiveDisputeProposal \ {tradeId}
            /\ tradeActiveDisputeProposalId' =
                 [tradeActiveDisputeProposalId EXCEPT ![tradeId] = ZeroProposalId]
       ELSE UNCHANGED <<tradeHasActiveDisputeProposal, tradeActiveDisputeProposalId>>
    /\ UNCHANGED <<governanceVars, settlementVars>>

DisputeStep ==
    \/ \E who \in admins, tradeId \in DOMAIN trades, outcome \in DisputeStatus :
          proposeDisputeSolution(who, tradeId, outcome)
    \/ \E id \in DOMAIN disputeProposals :
          \/ \E who \in admins : approveDisputeSolution(who, id)
          \/ \E who \in admins : approveAndExecuteDispute(who, id)
          \/ cancelExpiredDisputeProposal(id)

-----------------------------------------------------------------------------
(* The contract                                                            *)

Init ==
    /\ GovernanceInit
    /\ SettlementInit
    /\ disputeProposals = << >>
    /\ tradeHasActiveDisputeProposal = {}
    /\ tradeActiveDisputeProposalId = [tradeId \in TradeIds |-> ZeroProposalId]

Next ==
    \/ GovernanceStep /\ UNCHANGED <<settlementVars, disputeVars>>
    \/ SettlementStep /\ UNCHANGED disputeVars
    \/ DisputeStep

Spec == Init /\ [][Next]_vars

-----------------------------------------------------------------------------
(* Properties                                                              *)

(* Whatever the order of releases, refunds, timeouts and dispute payouts,  *)
(* what a trade has paid to its supplier, its buyer and the treasury and   *)
(* what it can still pay out (buyerRefundableAmount) is exactly what was   *)
(* locked for it, and a closed trade ended in one of the three ways the    *)
(* contract offers: everything refunded, both tranches paid, or the first  *)
(* paid and the second refunded.                                           *)
TradeConservation ==
    \A id \in DOMAIN trades :
        LET paid == payouts[id]
            q == Amounts(id)
            fees == q.logisticsAmount + q.platformFeesAmount
            first == q.supplierFirstTranche
            second == q.supplierSecondTranche
        IN
        /\ paid.supplier + paid.buyer + paid.treasury + buyerRefundableAmount(id)
             = q.totalAmount
        /\ Status(id) = "CLOSED" =>
             <<paid.supplier, paid.buyer, paid.treasury>> \in
                {<<0, q.totalAmount, 0>>, <<first + second, 0, fees>>,
                 <<first, second, fees>>}

(* The phase of a trade in TradeSettlement: a closed one is told apart by  *)
(* what it has paid.                                                       *)
Phase(id) ==
    CASE Status(id) = "LOCKED" -> "funded"
      [] Status(id) \in {"IN_TRANSIT", "ARRIVAL_CONFIRMED", "FROZEN"} -> "advanced"
      [] OTHER -> IF payouts[id].supplier = 0 THEN "refunded"
                  ELSE IF payouts[id].buyer = 0 THEN "completed"
                  ELSE "partly refunded"

Settlement == INSTANCE TradeSettlement WITH
    Trades <- TradeIds,
    Terms <- Quotes,
    phase <- [id \in TradeIds |-> IF id \in DOMAIN trades THEN Phase(id) ELSE "none"],
    terms <- [id \in TradeIds |->
                IF id \in DOMAIN trades THEN Amounts(id)
                ELSE [totalAmount |-> 0, logisticsAmount |-> 0, platformFeesAmount |-> 0,
                      supplierFirstTranche |-> 0, supplierSecondTranche |-> 0]],
    paid <- [id \in TradeIds |->
               IF id \in DOMAIN trades THEN payouts[id]
               ELSE [supplier |-> 0, buyer |-> 0, treasury |-> 0]],
    credited <- claimableUsdc + treasuryPaid,
    collected <- treasuryPaid

(* The contract implements TradeSettlement: whatever the interleaving of   *)
(* oracle, relayer, admins and timeouts over several trades, a trade is    *)
(* paid out along one of the three promised paths, each payment in full    *)
(* and once, and claimTreasury pays exactly what stage one accrued.        *)
ImplementsTradeSettlement == Settlement!DealSpec

(* The second tranche is protected.  Before the inspection deadline only   *)
(* the buyer's authorization releases it; a refund in transit needs the    *)
(* buyer's authorization and a transit that outlasted the timeout; and no  *)
(* trade is cancelled before its lock timed out.                           *)
PrincipalProtected ==
    [][\A id \in DOMAIN trades :
          Status(id) # "CLOSED" /\ trades'[id].status = "CLOSED" =>
             LET t == trades[id]
                 signed == authorizationNonces'[t.buyerAddress]
                             = authorizationNonces[t.buyerAddress] + 1
             IN CASE t.status = "LOCKED" -> signed /\ now > t.createdAt + LOCK_TIMEOUT
                  [] t.status = "IN_TRANSIT" ->
                        /\ signed
                        /\ now > t.inTransitSince + IN_TRANSIT_TIMEOUT
                        /\ payouts'[id].supplier = payouts[id].supplier
                  [] t.status = "ARRIVAL_CONFIRMED" ->
                        /\ signed \/ now > t.arrivalTimestamp + t.inspectionWindowSeconds
                        /\ payouts'[id].buyer = payouts[id].buyer
                  [] OTHER -> TRUE
      ]_vars

(* Sum of what the first n trades can still pay out.                       *)
RefundableUpTo[n \in 0..tradeCounter] ==
    IF n = 0 THEN 0 ELSE RefundableUpTo[n - 1] + buyerRefundableAmount(n - 1)

(* The escrow holds exactly what its open trades can still pay out plus    *)
(* what the treasury can claim, so every payout the contract may still owe *)
(* is covered, and the treasury's own entry is all there is to claim.      *)
Solvency ==
    /\ usdcBalance = RefundableUpTo[tradeCounter] + totalClaimableUsdc
    /\ claimableUsdc = totalClaimableUsdc

Pending(p) == ~p.executed /\ ~p.cancelled

(* A frozen trade is never stuck: as long as it is not paused some admin   *)
(* can take a step towards its resolution, by approving the pending        *)
(* proposal or by replacing one that expired or that an authority change   *)
(* made stale.                                                             *)
FrozenTradeNeverWedged ==
    \A tradeId \in DOMAIN trades :
        Status(tradeId) = "FROZEN" /\ NotPaused(tradeId) =>
            \E who \in admins :
                \/ CanProposeDispute(who, tradeId)
                \/ /\ tradeId \in tradeHasActiveDisputeProposal
                   /\ CanApproveDispute(who, tradeActiveDisputeProposalId[tradeId])

(* A frozen trade leaves that state only through a dispute payout that the *)
(* required number of distinct current admins approved for that outcome,   *)
(* in the epoch in which it is carried out.                                *)
FrozenTradeClosedByQuorum ==
    [][\A tradeId \in DOMAIN trades :
          Status(tradeId) = "FROZEN" /\ trades'[tradeId] # trades[tradeId] =>
             \E id \in DOMAIN disputeProposals :
                LET p == disputeProposals'[id] IN
                /\ p.executed /\ Pending(disputeProposals[id])
                /\ p.tradeId = tradeId
                /\ p.hasApproved \subseteq admins
                /\ Cardinality(p.hasApproved) >= requiredApprovals
                /\ p.disputeStatus = "REFUND" =>
                     payouts'[tradeId].supplier = payouts[tradeId].supplier
                /\ p.disputeStatus = "RESOLVE" =>
                     payouts'[tradeId].buyer = payouts[tradeId].buyer
      ]_vars

(* While the protocol or a trade is paused, or claims are, the funds they  *)
(* cover do not move: no payout, refund or status change of a paused       *)
(* trade, no claim while claims are paused.                                *)
PausedFundsStandStill ==
    [][/\ \A id \in DOMAIN trades :
             paused \/ id \in tradePaused =>
                trades'[id] = trades[id] /\ payouts'[id] = payouts[id]
       /\ claimsPaused => treasuryPaid' = treasuryPaid
      ]_vars

=============================================================================
