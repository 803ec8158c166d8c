---------------------------- MODULE LaunchQuotes ----------------------------
(***************************************************************************)
(* The launch schedule against its definition.  The escrow is not told the *)
(* price of the goods: LaunchSettlementSchedule reconstructs it from the   *)
(* tranches, and rejects the trade when neither candidate fits.  Here the  *)
(* price is known, every quote of the schedule is offered to the           *)
(* validator, and so are amounts that are a few cents off.                 *)
(***************************************************************************)
EXTENDS LaunchSettlementSchedule

CONSTANTS MaxGoods,     \* highest price offered, in cents
          Slips         \* errors, in cents, of a mistaken quote

VARIABLE goods          \* price of the goods being quoted, in cents

(* What "rounded half up to a cent" means: no cent is closer to the exact  *)
(* share of the price.                                                     *)
IsHalfUp(cents, goodsCents, bps) ==
    /\ cents * BPS_DENOMINATOR - 5000 <= goodsCents * bps
    /\ goodsCents * bps < cents * BPS_DENOMINATOR + 5000

(* The amounts are the schedule's for this price: half-up fees of 50 bps   *)
(* for buyer and supplier, a half-up first tranche of 60% less the         *)
(* supplier's fee, and the rest of the price.                              *)
Priced(goodsCents, platformFeesAmount, supplierFirstTranche, supplierSecondTranche) ==
    LET unit == USDC_BASE_UNITS_PER_CENT
        fee == (goodsCents * 10000 - supplierFirstTranche - supplierSecondTranche) \div unit
        gross == (goodsCents * 10000 - supplierSecondTranche) \div unit
        fees == (platformFeesAmount - SETTLEMENT_SUPPORT_FEE) \div unit
    IN /\ WholeCents(platformFeesAmount)
       /\ WholeCents(supplierFirstTranche)
       /\ WholeCents(supplierSecondTranche)
       /\ IsHalfUp(fee, goodsCents, 50)
       /\ IsHalfUp(gross, goodsCents, 6000)
       /\ IsHalfUp(fees - fee, goodsCents, 50)

QuotedFees(g) == buyerFee(g) + supplierFee(g) + SETTLEMENT_SUPPORT_FEE
QuotedFirst(g) == firstTrancheGross(g) - supplierFee(g)
QuotedSecond(g) == g * USDC_BASE_UNITS_PER_CENT - firstTrancheGross(g)

QuoteInit == goods = 0
QuoteNext == goods < MaxGoods /\ goods' = goods + 1
QuoteSpec == QuoteInit /\ [][QuoteNext]_goods

-----------------------------------------------------------------------------

(* isValid accepts amounts exactly when they are the schedule's amounts    *)
(* for one price, and for one price only: a slip of a cent in any of the   *)
(* three is found, unless it makes the quote of a neighbouring price.      *)
AcceptedIffPriced ==
    \A d, e, f \in Slips :
        LET fees == QuotedFees(goods) + d * USDC_BASE_UNITS_PER_CENT
            first == QuotedFirst(goods) + e * USDC_BASE_UNITS_PER_CENT
            second == QuotedSecond(goods) + f * USDC_BASE_UNITS_PER_CENT
            prices == {g \in (goods - 5)..(goods + 5) :
                          g >= 0 /\ Priced(g, fees, first, second)}
        IN first >= 0 /\ second >= 0 =>
             /\ isValid(fees, first, second) <=> prices # {}
             /\ \A g, h \in prices : g = h

=============================================================================
