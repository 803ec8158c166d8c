---------------------- MODULE LaunchSettlementSchedule ----------------------
(***************************************************************************)
(* The launch fee schedule (contracts/src/LaunchSettlementSchedule.sol):   *)
(* how the escrow decides, from the three amounts it is given and without  *)
(* being told the price of the goods, whether they are a quote of the      *)
(* schedule.  Amounts are USDC base units, goods are cents.                *)
(***************************************************************************)
EXTENDS Integers

USDC_BASE_UNITS_PER_CENT == 10000
BUYER_PLATFORM_FEE_BPS == 50
SUPPLIER_PLATFORM_FEE_BPS == 50
FIRST_SUPPLIER_TRANCHE_BPS == 6000
BPS_DENOMINATOR == 10000
SETTLEMENT_SUPPORT_FEE == 4000000

(* Mutant: rounded down.                                                   *)
TruncatedShare(goodsCents, bps) ==
    ((goodsCents * bps) \div BPS_DENOMINATOR) * USDC_BASE_UNITS_PER_CENT

(* A share of the goods price, rounded half up to a whole cent.            *)
HalfUpShare(goodsCents, bps) ==
    ((goodsCents * bps + 5000) \div BPS_DENOMINATOR) * USDC_BASE_UNITS_PER_CENT

buyerFee(goodsCents) == HalfUpShare(goodsCents, BUYER_PLATFORM_FEE_BPS)
supplierFee(goodsCents) == HalfUpShare(goodsCents, SUPPLIER_PLATFORM_FEE_BPS)
firstTrancheGross(goodsCents) == HalfUpShare(goodsCents, FIRST_SUPPLIER_TRANCHE_BPS)

matches(goodsCents, platformFeesAmount, supplierFirstTranche, supplierSecondTranche) ==
    /\ firstTrancheGross(goodsCents) >= supplierFee(goodsCents)
    /\ supplierFirstTranche = firstTrancheGross(goodsCents) - supplierFee(goodsCents)
    /\ supplierSecondTranche =
         goodsCents * USDC_BASE_UNITS_PER_CENT - firstTrancheGross(goodsCents)
    /\ platformFeesAmount =
         buyerFee(goodsCents) + supplierFee(goodsCents) + SETTLEMENT_SUPPORT_FEE

WholeCents(amount) == amount % USDC_BASE_UNITS_PER_CENT = 0

(* Math.mulDiv rounds down.                                                *)
goodsCandidate(supplierFirstTranche, supplierSecondTranche) ==
    LET netSupplierCents ==
          (supplierFirstTranche + supplierSecondTranche) \div USDC_BASE_UNITS_PER_CENT
    IN (netSupplierCents * BPS_DENOMINATOR)
         \div (BPS_DENOMINATOR - SUPPLIER_PLATFORM_FEE_BPS)

isValid(platformFeesAmount, supplierFirstTranche, supplierSecondTranche) ==
    /\ WholeCents(platformFeesAmount)
    /\ WholeCents(supplierFirstTranche)
    /\ WholeCents(supplierSecondTranche)
    /\ LET candidate == goodsCandidate(supplierFirstTranche, supplierSecondTranche)
       IN \/ matches(candidate, platformFeesAmount,
                     supplierFirstTranche, supplierSecondTranche)
          \/ matches(candidate + 1, platformFeesAmount,
                     supplierFirstTranche, supplierSecondTranche)

=============================================================================
