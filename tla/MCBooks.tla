------------------------------- MODULE MCBooks -------------------------------
(***************************************************************************)
(* The treasury's ledger, sweep batches and ingestion, and the leases,     *)
(* containments and coverage of reconciliation, on small instances.  They  *)
(* share no state, so each behaviour follows one of them, named by part,   *)
(* while the variables of the others stand still.                          *)
(*                                                                         *)
(* The batches come in two instances: one entry and the three operators a  *)
(* batch needs to be closed, and two entries that compete for a batch up   *)
(* to its execution.  The reconciler too: two workers that contend for     *)
(* runs, and one worker whose trade is paused and released.                *)
(***************************************************************************)
EXTENDS Naturals, Sequences, FiniteSets, TLC

CONSTANTS
    Pair,  \* two replicas, two controllers or two ledger entries, as a part needs them
    None

VARIABLES
    part,
    onChain, canonicality, payout, payoutBank, payoutInflight,
    period, batch, allocation, claim, handoff, realized, verdict, bank, inflight,
    count, version, head, processed, watermark, ledger, orphaned, lock, ingestion, proven,
    run, generation, view, containment, spent, diverging, flips, height, anchor, lapses,
    divergences, clearedOn,
    counter, projection, cycle, hasHistory, lastTradeId, complete, swept, examined

ledgerVars == <<onChain, canonicality, payout, payoutBank, payoutInflight>>
sweepVars ==
    <<period, batch, allocation, claim, handoff, realized, verdict, bank, inflight>>
ingestionVars ==
    <<count, version, head, processed, watermark, ledger, orphaned, lock, ingestion, proven>>
runVars ==
    <<run, generation, view, containment, spent, diverging, flips, height, anchor, lapses,
      divergences, clearedOn>>
coverageVars ==
    <<counter, projection, cycle, hasHistory, lastTradeId, complete, swept, examined>>
vars == <<part, ledgerVars, sweepVars, ingestionVars, runVars, coverageVars>>

Ledger == INSTANCE TreasuryLedger WITH
    Entries <- {"entry"}, BankReports <- {"PENDING", "CONFIRMED", "REJECTED"}, MaxInFlight <- 3,
    NoState <- None, bank <- payoutBank, inflight <- payoutInflight
Sweep == INSTANCE TreasurySweeps WITH
    Entries <- {"entry"}, Periods <- {"period"}, Batches <- {"batch"},
    Actors <- Pair \cup {"maker"}, Controllers <- Pair,
    Txs <- {"tx"}, Totals <- {1}, AmountRaw <- 1,
    ProviderReports <- {"SUBMITTED", "COMPLETED", "FAILED"}, MaxInFlight <- 1
Allocations == INSTANCE TreasurySweeps WITH
    Entries <- Pair, Periods <- {"period"}, Batches <- {"batch"},
    Actors <- {"maker", "checker"}, Controllers <- {"controller"},
    Txs <- {"tx"}, Totals <- {1}, AmountRaw <- 1, ProviderReports <- {}, MaxInFlight <- 2
Ingestion == INSTANCE TreasuryIngestion WITH
    Workers <- Pair, MaxBlock <- 2, MaxPerBlock <- 2, ingestBatchSize <- 1, ingestMaxEvents <- 1,
    MaxReorgs <- 1, run <- ingestion
Contended == INSTANCE ReconciliationRuns WITH
    Workers <- Pair, Keys <- 1 .. 2, MaxFlips <- 2, MaxHeight <- 0, MaxLapses <- 1, MaxClaims <- 2
Recovery == INSTANCE ReconciliationRuns WITH
    Workers <- {"worker"}, Keys <- 1 .. 3, MaxFlips <- 2, MaxHeight <- 2, MaxLapses <- 0, MaxClaims <- 1
(* Right, incomplete, out of order, repeating itself, and ahead of the chain. *)
IndexerContents ==
    {<< >>, <<0>>, <<1>>, <<0, 1>>, <<1, 0>>, <<0, 0>>, <<0, 2>>, <<0, 1, 1>>, <<0, 1, 2>>}
Coverage == INSTANCE ReconciliationCoverage WITH
    MaxCounter <- 2, Projections <- IndexerContents,
    maxTradesPerRun <- 1, enumerationLimit <- 2, readsFail <- TRUE

Init ==
    /\ part \in {"ledger", "sweep", "allocations", "ingestion", "contended", "recovery",
                 "coverage"}
    /\ Ledger!LedgerInit /\ payoutInflight = {}
    /\ IF part = "allocations" THEN Allocations!SweepInit ELSE Sweep!SweepInit
    /\ Ingestion!IngestionInit
    /\ count["trade_events"] \in IF part = "ingestion" THEN {<<1, 2>>, <<2, 1>>} ELSE {<<0, 0>>}
    /\ count["claim_events"] = <<0, 1>>
    /\ IF part = "recovery" THEN Recovery!RunsInit ELSE Contended!RunsInit
    /\ part \in {"contended", "recovery"} \/ ~diverging
    /\ Coverage!CoverageInit
    /\ part # "coverage" => counter = 0 /\ projection = << >> /\ lastTradeId = 0

(* Which of the people created the batch does not matter, nor do the names of run keys. *)
ByMaker == \A b \in DOMAIN batch : batch[b] # None => batch[b].createdBy = "maker"
KeysInOrder ==
    \A k, l \in DOMAIN run : k < l /\ run[l].status # "none" => run[k].status # "none"

(* A reorganised block or two overlapping runs of ingestion, not both. *)
OneRunOnceReorganized ==
    (\A b \in DOMAIN version : version[b] = 0) \/ (\E w \in Pair : ingestion[w] = None)

Next ==
    /\ UNCHANGED part
    /\ \/ /\ part = "ledger" /\ Ledger!LedgerNext
          /\ UNCHANGED <<sweepVars, ingestionVars, runVars, coverageVars>>
       \/ /\ part = "sweep" /\ Sweep!SweepNext /\ ByMaker'
          /\ UNCHANGED <<ledgerVars, ingestionVars, runVars, coverageVars>>
       \/ /\ part = "allocations" /\ Allocations!SweepNext /\ ByMaker'
          /\ UNCHANGED <<ledgerVars, ingestionVars, runVars, coverageVars>>
       \/ /\ part = "ingestion" /\ Ingestion!IngestionNext /\ OneRunOnceReorganized'
          /\ UNCHANGED <<ledgerVars, sweepVars, runVars, coverageVars>>
       \/ /\ part = "contended" /\ Contended!RunsNext /\ KeysInOrder'
          /\ UNCHANGED <<ledgerVars, sweepVars, ingestionVars, coverageVars>>
       \/ /\ part = "recovery" /\ Recovery!RunsNext /\ KeysInOrder'
          /\ UNCHANGED <<ledgerVars, sweepVars, ingestionVars, coverageVars>>
       \/ /\ part = "coverage" /\ Coverage!CoverageNext
          /\ UNCHANGED <<ledgerVars, sweepVars, ingestionVars, runVars>>

Spec == Init /\ [][Next]_vars

Symmetry == Permutations(Pair)

-----------------------------------------------------------------------------


(* The partner's answer never moves back (upsertPartnerHandoff). *)
HandoffNeverRegresses == Sweep!HandoffNeverRegresses


(* A clearance rests on a comparison younger than the last divergence
   (publishEnumerationPage). *)
ClearedByFresherRun ==
    IF part = "recovery" THEN Recovery!ClearedByFresherRun ELSE Contended!ClearedByFresherRun

(* A completed run stays completed (assertLeaseHeld, claimRun, failRun). *)
CompletedStands == Contended!CompletedStands

(* A run that reports complete coverage is right (isCoverageComplete). *)
CompleteMeansSwept == Coverage!CompleteMeansSwept

=============================================================================
