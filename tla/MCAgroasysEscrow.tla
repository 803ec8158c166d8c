-------------------------- MODULE MCAgroasysEscrow --------------------------
(***************************************************************************)
(* AgroasysEscrow and LaunchQuotes on small instances.  Each behaviour     *)
(* follows one part: two trades of different quotes, or the prices of      *)
(* LaunchQuotes with the contract standing still.                          *)
(***************************************************************************)
EXTENDS AgroasysEscrow, TLC

CONSTANTS a1, a2, a3, oracle, treasury, relayer, buyer, supplier, x

VARIABLES part, goods

Pricing == INSTANCE LaunchQuotes WITH MaxGoods <- 5000, Slips <- {-1, 0, 1}

MCAdmins == {a1, a2, a3}
MCAccounts == MCAdmins \cup {oracle, treasury, relayer, x}

QuoteOf(goodsCents, logistics, extraFee) ==
    LET fees == buyerFee(goodsCents) + supplierFee(goodsCents)
                  + SETTLEMENT_SUPPORT_FEE + extraFee
        first == firstTrancheGross(goodsCents) - supplierFee(goodsCents)
        second == goodsCents * USDC_BASE_UNITS_PER_CENT - firstTrancheGross(goodsCents)
    IN [totalAmount |-> logistics + fees + first + second,
        logisticsAmount |-> logistics, platformFeesAmount |-> fees,
        supplierFirstTranche |-> first, supplierSecondTranche |-> second]

(* A quote of the schedule and one whose fee is a cent too high.           *)
MCQuotes == {QuoteOf(12345, 70000, 0), QuoteOf(100, 0, 10000)}

MCSymmetry == Permutations(MCAdmins)

(* Two trades interleave early; one is followed to the end of every window. *)
Early == tradeCounter <= 1 \/ now <= 3

MCInit == part \in {"trades", "prices"} /\ Init /\ Pricing!QuoteInit

MCNext ==
    /\ UNCHANGED part
    /\ \/ part = "trades" /\ Next /\ Early' /\ UNCHANGED goods
       \/ part = "prices" /\ Pricing!QuoteNext /\ UNCHANGED vars

MCSpec == MCInit /\ [][MCNext]_<<vars, part, goods>>

-----------------------------------------------------------------------------
(* isValid accepts amounts exactly when they are the schedule's for one    *)
(* price, for every price and every slip of a cent (LaunchQuotes).         *)
AcceptedIffPriced == part = "prices" => Pricing!AcceptedIffPriced

=============================================================================
