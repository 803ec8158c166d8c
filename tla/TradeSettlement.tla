-------------------------- MODULE TradeSettlement ---------------------------
(***************************************************************************)
(* What the escrow promises the parties of a trade, without pauses, roles, *)
(* deadlines or disputes: a trade is funded once, advances at most once    *)
(* (first tranche to the supplier, fees to the treasury) and ends in one   *)
(* of three ways.  Every payment is made in full, once, and the treasury   *)
(* collects what it was credited and nothing else.                         *)
(***************************************************************************)
EXTENDS Integers

CONSTANTS Trades,    \* trade ids
          Terms      \* possible breakdowns of a trade's amounts

VARIABLES phase,     \* trade -> where it stands
          terms,     \* trade -> the breakdown it was funded with
          paid,      \* trade -> totals paid to supplier and buyer, credited to treasury
          credited,  \* what the treasury has been credited in all
          collected  \* what it has been paid of it

dealVars == <<phase, terms, paid, credited, collected>>

NoTerms == [totalAmount |-> 0, logisticsAmount |-> 0, platformFeesAmount |-> 0,
            supplierFirstTranche |-> 0, supplierSecondTranche |-> 0]
Unpaid == [supplier |-> 0, buyer |-> 0, treasury |-> 0]

DealInit ==
    /\ phase = [t \in Trades |-> "none"]
    /\ terms = [t \in Trades |-> NoTerms]
    /\ paid = [t \in Trades |-> Unpaid]
    /\ credited = 0
    /\ collected = 0

Move(t, from, to) == phase[t] = from /\ phase' = [phase EXCEPT ![t] = to]

Fund(t) ==
    /\ Move(t, "none", "funded")
    /\ \E q \in Terms : terms' = [terms EXCEPT ![t] = q]
    /\ UNCHANGED <<paid, credited, collected>>

Advance(t) ==
    LET fees == terms[t].logisticsAmount + terms[t].platformFeesAmount IN
    /\ Move(t, "funded", "advanced")
    /\ paid' = [paid EXCEPT ![t] = [supplier |-> terms[t].supplierFirstTranche,
                                    buyer |-> 0, treasury |-> fees]]
    /\ credited' = credited + fees
    /\ UNCHANGED <<terms, collected>>

RefundAll(t) ==
    /\ Move(t, "funded", "refunded")
    /\ paid' = [paid EXCEPT ![t].buyer = terms[t].totalAmount]
    /\ UNCHANGED <<terms, credited, collected>>

Complete(t) ==
    /\ Move(t, "advanced", "completed")
    /\ paid' = [paid EXCEPT ![t].supplier = @ + terms[t].supplierSecondTranche]
    /\ UNCHANGED <<terms, credited, collected>>

RefundRest(t) ==
    /\ Move(t, "advanced", "partly refunded")
    /\ paid' = [paid EXCEPT ![t].buyer = terms[t].supplierSecondTranche]
    /\ UNCHANGED <<terms, credited, collected>>

Collect ==
    /\ collected < credited
    /\ collected' = credited
    /\ UNCHANGED <<phase, terms, paid, credited>>

DealNext ==
    \/ \E t \in Trades :
          Fund(t) \/ Advance(t) \/ RefundAll(t) \/ Complete(t) \/ RefundRest(t)
    \/ Collect

DealSpec == DealInit /\ [][DealNext]_dealVars

=============================================================================
