------------------------------ MODULE MCIndexer ------------------------------
(***************************************************************************)
(* The escrow contract with and without the indexer on small instances,    *)
(* one per behaviour, named by part.  With the indexer: the disputes of a  *)
(* trade and the proposals of governance, each with a faulty batch and two *)
(* blocks behind; the pauses of a trade; and two trades at a time.  The    *)
(* contract alone, with more room: disputes while the administrators       *)
(* change, and disputes under the pauses.                                  *)
(***************************************************************************)
EXTENDS IndexerProjection, TLC

CONSTANTS a1, a2, a3, oracle, treasury, relayer, buyer, supplier, x

VARIABLE part

MCAdmins == {a1, a2, a3}
MCAccounts == MCAdmins \cup {oracle, treasury, relayer, x}

(* The quote of the schedule for goods of 123.45 with logistics of 0.07. *)
MCQuotes ==
    LET goods == 12345
        fees == buyerFee(goods) + supplierFee(goods) + SETTLEMENT_SUPPORT_FEE
        first == firstTrancheGross(goods) - supplierFee(goods)
        second == goods * USDC_BASE_UNITS_PER_CENT - firstTrancheGross(goods)
    IN  {[totalAmount |-> 70000 + fees + first + second, logisticsAmount |-> 70000,
          platformFeesAmount |-> fees, supplierFirstTranche |-> first,
          supplierSecondTranche |-> second]}

MCSymmetry == Permutations(MCAdmins)

bounds(maxTrades, maxTime, maxDisputes, maxLag) ==
    /\ tradeCounter <= maxTrades
    /\ now <= maxTime
    /\ Len(disputeProposals) <= maxDisputes
    /\ Len(pending) <= maxLag

(* The trades and their disputes, without governance and pauses. *)
Trading ==
    \/ TradeLogStep /\ UNCHANGED disputeVars
    \/ DisputeLogStep
    \/ Tick /\ UNCHANGED <<settlementVars, disputeVars, pending, indexerVars>>
    \/ claimTreasury /\ UNCHANGED <<disputeVars, pending, indexerVars>>

(* The contract alone: the disputes of a trade next to one kind of governance. *)
Disputed(governance) ==
    /\ \/ (Tick \/ governance) /\ UNCHANGED <<settlementVars, disputeVars>>
       \/ SettlementStep /\ UNCHANGED disputeVars
       \/ DisputeStep
    /\ UNCHANGED <<pending, indexerVars>>

(* Of the administrators' changes, those that may leave an approval behind. *)
Demotions ==
    \A i \in DOMAIN adminChangeProposals :
        adminChangeProposals[i].change.kind \in {"REMOVE", "REPLACE", "THRESHOLD"}

Projected == {"disputes", "governance", "pauses", "trades"}

MCInit == part \in Projected \cup {"contract disputes", "contract pauses"} /\ ProjectionInit

MCNext ==
    /\ UNCHANGED part
    /\ \/ part = "disputes" /\ (Trading \/ IndexerStep) /\ bounds(1, 3, 2, 2)'
       \/ part = "trades" /\ (Trading \/ IndexerStep) /\ faults' = 0 /\ bounds(2, 2, 1, 1)'
       \/ /\ part = "pauses"
          /\ \/ Trading \/ IndexerStep
             \/ PauseLogStep /\ UNCHANGED <<settlementVars, disputeVars>>
             \/ SilentStep /\ UNCHANGED <<settlementVars, disputeVars, pending, indexerVars>>
          /\ treasuryPayoutAddressUpdateProposals' = << >> /\ faults' = 0
          /\ bounds(1, 2, 0, 1)'
       \/ /\ part = "contract disputes"
          /\ Disputed(AdminGovernance /\ Demotions') /\ bounds(1, 3, 2, 0)'
       \/ part = "contract pauses" /\ Disputed(EmergencyControl) /\ bounds(1, 3, 2, 0)'
       \/ /\ part = "governance"
          /\ ProjectionNext
          /\ bounds(0, 3, 0, 2)' /\ ~claimsPaused' /\ (paused => ~oracleActive)'

MCSpec == MCInit /\ [][MCNext]_<<projectionVars, part>>

-----------------------------------------------------------------------------
(* The logs still to come bring the tables to exactly what the contract    *)
(* stores, wherever the checkpoint stands (processBatch, batchFails and    *)
(* every handler of the indexer).                                          *)
TablesReachChain == part \in Projected => ProjectionReachesChain

=============================================================================
