---------------------------- MODULE EscrowTrades ----------------------------
(***************************************************************************)
(* Trades and funds of the escrow contract                                 *)
(* (contracts/src/AgroasysEscrow.sol): creation, the two-stage release,    *)
(* the inspection window, timeouts and refunds, and the treasury's claims. *)
(* Disputes are in module AgroasysEscrow, which composes everything.       *)
(*                                                                         *)
(* The mappings inTransitSince and inspectionWindowSeconds are fields of   *)
(* the trade's record.  Signatures and the Ricardian hash are not told     *)
(* apart: an authorization is its signer and nonce.  A call whose checks   *)
(* fail reverts and is no step.  Nothing a trade action does depends on    *)
(* which relayer, admin, oracle or treasury account sends it, and an       *)
(* account of every role exists, so the caller is a parameter only where   *)
(* it is recorded.                                                         *)
(***************************************************************************)
EXTENDS EscrowGovernance, LaunchSettlementSchedule

CONSTANTS
    Buyers, Suppliers,
    Quotes,      \* breakdowns offered to createTradeWithAuthorization
    \* contract constants, in model time units
    STANDARD_INSPECTION_WINDOW, PACKAGED_LOCAL_INSPECTION_WINDOW,
    LOCK_TIMEOUT, IN_TRANSIT_TIMEOUT

Breakdown ==
    [totalAmount : Nat, logisticsAmount : Nat, platformFeesAmount : Nat,
     supplierFirstTranche : Nat, supplierSecondTranche : Nat]

ASSUME SettlementAssumption ==
    /\ Quotes \subseteq Breakdown
    /\ {STANDARD_INSPECTION_WINDOW, PACKAGED_LOCAL_INSPECTION_WINDOW,
        LOCK_TIMEOUT, IN_TRANSIT_TIMEOUT} \subseteq Nat \ {0}

VARIABLES
    trades,                 \* tradeId -> Trade, for the ids below tradeCounter
    authorizationNonces,    \* user -> next authorization nonce
    claimableUsdc,          \* claimableUsdc[treasuryAddress], the only one used
    totalClaimableUsdc,
    usdcBalance,            \* the token's balance of the escrow
    payouts,                \* tradeId -> what its transfers and accruals added up to
    treasuryPaid            \* what claimTreasury has transferred

Users == Buyers \cup Suppliers

settlementVars == <<trades, authorizationNonces, claimableUsdc,
                    totalClaimableUsdc, usdcBalance, payouts, treasuryPaid>>

TradeStatus == {"LOCKED", "IN_TRANSIT", "ARRIVAL_CONFIRMED", "FROZEN", "CLOSED"}

Trade ==
    [status : TradeStatus, buyerAddress : Buyers, supplierAddress : Suppliers,
     amounts : Breakdown, createdAt : Nat, arrivalTimestamp : Nat,
     inTransitSince : Nat, inspectionWindowSeconds : Nat]

(* Totals of a trade's SupplierPayoutTransferred, BuyerRefundTransferred   *)
(* and ClaimableAccrued events.                                            *)
Payout == [supplier : Nat, buyer : Nat, treasury : Nat]

Status(tradeId) == trades[tradeId].status
Amounts(tradeId) == trades[tradeId].amounts

-----------------------------------------------------------------------------
(* Views and helpers                                                       *)

buyerRefundableAmount(tradeId) ==
    CASE Status(tradeId) = "LOCKED" -> Amounts(tradeId).totalAmount
      [] Status(tradeId) \in {"IN_TRANSIT", "ARRIVAL_CONFIRMED", "FROZEN"} ->
            Amounts(tradeId).supplierSecondTranche
      [] OTHER -> 0

inspectionWindow(tradeId) ==
    IF trades[tradeId].inspectionWindowSeconds = 0
    THEN STANDARD_INSPECTION_WINDOW
    ELSE trades[tradeId].inspectionWindowSeconds

inspectionDeadline(tradeId) ==
    trades[tradeId].arrivalTimestamp + inspectionWindow(tradeId)

(* Mutant: the trade's own pause is not checked.                           *)
NotPausedGlobally(tradeId) == ~paused

(* whenNotPaused and whenTradeNotPaused.                                   *)
NotPaused(tradeId) == ~paused /\ tradeId \notin tradePaused

(* _verifyUserActionAuthorization: the user's signature carries the        *)
(* current nonce, which is used up.                                        *)
ConsumeAuthorization(user) ==
    authorizationNonces' = [authorizationNonces EXCEPT ![user] = @ + 1]

(* _transferSupplierPayout and _transferBuyerRefund, with the token's own  *)
(* bookkeeping of the escrow's balance.                                    *)
transferSupplierPayout(tradeId, amount) ==
    /\ payouts' = [payouts EXCEPT ![tradeId].supplier = @ + amount]
    /\ usdcBalance' = usdcBalance - amount

transferBuyerRefund(tradeId, amount) ==
    /\ payouts' = [payouts EXCEPT ![tradeId].buyer = @ + amount]
    /\ usdcBalance' = usdcBalance - amount

(* _accrueClaimable for the treasury, the only recipient it is called for. *)
accrueClaimable(amount) ==
    /\ claimableUsdc' = claimableUsdc + amount
    /\ totalClaimableUsdc' = totalClaimableUsdc + amount

-----------------------------------------------------------------------------
(* Creation                                                                *)

validateTradeAmounts(q) ==
    /\ q.totalAmount = q.logisticsAmount + q.platformFeesAmount
                         + q.supplierFirstTranche + q.supplierSecondTranche
    /\ WholeCents(q.logisticsAmount)
    /\ q.supplierFirstTranche > 0
    /\ q.supplierSecondTranche > 0

NewTrade(buyer, supplier, q) ==
    [status |-> "LOCKED", buyerAddress |-> buyer, supplierAddress |-> supplier,
     amounts |-> q, createdAt |-> now, arrivalTimestamp |-> 0,
     inTransitSince |-> 0, inspectionWindowSeconds |-> 0]

(* A mapping extended by the entry of the trade being stored.              *)
WithNewTrade(mapping, entry) ==
    [id \in 0..tradeCounter |-> IF id = tradeCounter THEN entry ELSE mapping[id]]

createTradeWithAuthorization(buyer, supplier, q) ==
    /\ ~paused
    /\ validateTradeAmounts(q)
    /\ isValid(q.platformFeesAmount, q.supplierFirstTranche, q.supplierSecondTranche)
    /\ tradeCounter < MaxTrades
    /\ tradeCounter' = tradeCounter + 1
    /\ trades' = WithNewTrade(trades, NewTrade(buyer, supplier, q))
    /\ payouts' = WithNewTrade(payouts, [supplier |-> 0, buyer |-> 0, treasury |-> 0])
    /\ ConsumeAuthorization(buyer)
    /\ usdcBalance' = usdcBalance + q.totalAmount
    /\ UNCHANGED <<now, authority, proposals, pauses, recovery,
                   claimableUsdc, totalClaimableUsdc, treasuryPaid>>

-----------------------------------------------------------------------------
(* Milestones                                                              *)

(* Transfers the first tranche and accrues both fees to the treasury.      *)
releaseFundsStage1(tradeId) ==
    LET amounts == Amounts(tradeId)
        fees == amounts.logisticsAmount + amounts.platformFeesAmount
    IN
    /\ oracleActive
    /\ NotPaused(tradeId)
    /\ Status(tradeId) = "LOCKED"
    /\ trades' = [trades EXCEPT ![tradeId].status = "IN_TRANSIT",
                                ![tradeId].inTransitSince = now]
    /\ payouts' = [payouts EXCEPT ![tradeId].supplier = @ + amounts.supplierFirstTranche,
                                  ![tradeId].treasury = @ + fees]
    /\ usdcBalance' = usdcBalance - amounts.supplierFirstTranche
    /\ accrueClaimable(fees)
    /\ UNCHANGED <<governanceVars, authorizationNonces, treasuryPaid>>

confirmInspectionAvailable(tradeId, windowSeconds) ==
    /\ oracleActive
    /\ NotPaused(tradeId)
    /\ Status(tradeId) = "IN_TRANSIT"
    /\ windowSeconds \in {STANDARD_INSPECTION_WINDOW, PACKAGED_LOCAL_INSPECTION_WINDOW}
    /\ trades' = [trades EXCEPT ![tradeId].status = "ARRIVAL_CONFIRMED",
                                ![tradeId].arrivalTimestamp = now,
                                ![tradeId].inspectionWindowSeconds = windowSeconds,
                                ![tradeId].inTransitSince = 0]
    /\ UNCHANGED <<governanceVars, authorizationNonces, claimableUsdc,
                   totalClaimableUsdc, usdcBalance, payouts, treasuryPaid>>

InInspection(tradeId) ==
    Status(tradeId) = "ARRIVAL_CONFIRMED" /\ trades[tradeId].arrivalTimestamp > 0

openDisputeWithAuthorization(tradeId) ==
    /\ NotPaused(tradeId)
    /\ InInspection(tradeId)
    /\ now <= inspectionDeadline(tradeId)
    /\ trades' = [trades EXCEPT ![tradeId].status = "FROZEN"]
    /\ ConsumeAuthorization(trades[tradeId].buyerAddress)
    /\ UNCHANGED <<governanceVars, claimableUsdc, totalClaimableUsdc,
                   usdcBalance, payouts, treasuryPaid>>

(* Mutant: the other tranche is paid again.                                *)
releaseFirstTrancheAgain(tradeId) ==
    /\ trades' = [trades EXCEPT ![tradeId].status = "CLOSED",
                                ![tradeId].inTransitSince = 0]
    /\ transferSupplierPayout(tradeId, Amounts(tradeId).supplierFirstTranche)
    /\ UNCHANGED <<governanceVars, claimableUsdc, totalClaimableUsdc, treasuryPaid>>

releaseFinalTranche(tradeId) ==
    /\ trades' = [trades EXCEPT ![tradeId].status = "CLOSED",
                                ![tradeId].inTransitSince = 0]
    /\ transferSupplierPayout(tradeId, Amounts(tradeId).supplierSecondTranche)
    /\ UNCHANGED <<governanceVars, claimableUsdc, totalClaimableUsdc, treasuryPaid>>

(* Mutant: the deadline itself is already late.                            *)
WindowReached(tradeId) ==
    InInspection(tradeId) /\ now >= inspectionDeadline(tradeId)

WindowElapsed(tradeId) ==
    InInspection(tradeId) /\ now > inspectionDeadline(tradeId)

(* Called by an admin, or by the oracle while it is active.                *)
finalizeAfterDisputeWindow(tradeId) ==
    /\ NotPaused(tradeId)
    /\ WindowElapsed(tradeId)
    /\ releaseFinalTranche(tradeId)
    /\ UNCHANGED authorizationNonces

finalizeAfterDisputeWindowWithAuthorization(tradeId) ==
    /\ NotPaused(tradeId)
    /\ WindowElapsed(tradeId)
    /\ releaseFinalTranche(tradeId)
    /\ ConsumeAuthorization(trades[tradeId].supplierAddress)

finalizeAfterInspectionAcceptanceWithAuthorization(tradeId) ==
    /\ NotPaused(tradeId)
    /\ Status(tradeId) = "ARRIVAL_CONFIRMED"
    /\ releaseFinalTranche(tradeId)
    /\ ConsumeAuthorization(trades[tradeId].buyerAddress)

-----------------------------------------------------------------------------
(* Timeouts                                                                *)

(* Mutant: the fees of a trade that never advanced are kept.               *)
cancelLockedTradeKeepingFees(tradeId) ==
    /\ NotPaused(tradeId)
    /\ Status(tradeId) = "LOCKED"
    /\ now > trades[tradeId].createdAt + LOCK_TIMEOUT
    /\ trades' = [trades EXCEPT ![tradeId].status = "CLOSED"]
    /\ transferBuyerRefund(tradeId, Amounts(tradeId).supplierFirstTranche
                                      + Amounts(tradeId).supplierSecondTranche)
    /\ ConsumeAuthorization(trades[tradeId].buyerAddress)
    /\ UNCHANGED <<governanceVars, claimableUsdc, totalClaimableUsdc, treasuryPaid>>

cancelLockedTradeAfterTimeoutWithAuthorization(tradeId) ==
    /\ NotPaused(tradeId)
    /\ Status(tradeId) = "LOCKED"
    /\ now > trades[tradeId].createdAt + LOCK_TIMEOUT
    /\ trades' = [trades EXCEPT ![tradeId].status = "CLOSED"]
    /\ transferBuyerRefund(tradeId, Amounts(tradeId).totalAmount)
    /\ ConsumeAuthorization(trades[tradeId].buyerAddress)
    /\ UNCHANGED <<governanceVars, claimableUsdc, totalClaimableUsdc, treasuryPaid>>

refundInTransitAfterTimeoutWithAuthorization(tradeId) ==
    /\ NotPaused(tradeId)
    /\ Status(tradeId) = "IN_TRANSIT"
    /\ trades[tradeId].inTransitSince > 0
    /\ now > trades[tradeId].inTransitSince + IN_TRANSIT_TIMEOUT
    /\ trades' = [trades EXCEPT ![tradeId].status = "CLOSED",
                                ![tradeId].inTransitSince = 0]
    /\ transferBuyerRefund(tradeId, Amounts(tradeId).supplierSecondTranche)
    /\ ConsumeAuthorization(trades[tradeId].buyerAddress)
    /\ UNCHANGED <<governanceVars, claimableUsdc, totalClaimableUsdc, treasuryPaid>>

-----------------------------------------------------------------------------
(* Treasury                                                                *)

(* Mutant: the total keeps what was claimed.                               *)
claimTreasuryKeepingTotal ==
    /\ ~claimsPaused
    /\ claimableUsdc > 0
    /\ claimableUsdc' = 0
    /\ usdcBalance' = usdcBalance - claimableUsdc
    /\ treasuryPaid' = treasuryPaid + claimableUsdc
    /\ UNCHANGED <<governanceVars, trades, authorizationNonces, payouts,
                   totalClaimableUsdc>>

(* Not blocked by the global pause: only by the pause of claims.           *)
claimTreasury ==
    /\ ~claimsPaused
    /\ claimableUsdc > 0
    /\ claimableUsdc' = 0
    /\ totalClaimableUsdc' = totalClaimableUsdc - claimableUsdc
    /\ usdcBalance' = usdcBalance - claimableUsdc
    /\ treasuryPaid' = treasuryPaid + claimableUsdc
    /\ UNCHANGED <<governanceVars, trades, authorizationNonces, payouts>>

-----------------------------------------------------------------------------
SettlementInit ==
    /\ trades = << >>
    /\ authorizationNonces = [user \in Users |-> 0]
    /\ claimableUsdc = 0
    /\ totalClaimableUsdc = 0
    /\ usdcBalance = 0
    /\ payouts = << >>
    /\ treasuryPaid = 0

(* Everything a user, the oracle, an admin or the treasury can do to       *)
(* trades and funds outside a dispute.                                     *)
SettlementStep ==
    \/ \E buyer \in Buyers, supplier \in Suppliers, q \in Quotes :
          createTradeWithAuthorization(buyer, supplier, q)
    \/ \E tradeId \in DOMAIN trades :
          \/ releaseFundsStage1(tradeId)
          \/ \E w \in {STANDARD_INSPECTION_WINDOW, PACKAGED_LOCAL_INSPECTION_WINDOW} :
                confirmInspectionAvailable(tradeId, w)
          \/ openDisputeWithAuthorization(tradeId)
          \/ finalizeAfterDisputeWindow(tradeId)
          \/ finalizeAfterDisputeWindowWithAuthorization(tradeId)
          \/ finalizeAfterInspectionAcceptanceWithAuthorization(tradeId)
          \/ cancelLockedTradeAfterTimeoutWithAuthorization(tradeId)
          \/ refundInTransitAfterTimeoutWithAuthorization(tradeId)
    \/ claimTreasury

=============================================================================
