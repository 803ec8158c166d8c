----------------------- MODULE ReconciliationCoverage -----------------------
(***************************************************************************)
(* How reconciliation runs cover the whole id range                        *)
(* (reconciliation/src/core/coverage.ts, enumeration.ts, reconciler.ts,    *)
(* database/enumerationCycles.ts).                                         *)
(*                                                                         *)
(* Trade ids 0..counter-1 exist on chain.  A run compares a bounded window *)
(* of them with the indexer and walks a bounded page of the indexer's own  *)
(* records; an enumeration cycle accumulates both over several runs, and   *)
(* the run that ends a cycle may report complete coverage.  One run is one *)
(* step: two workers cannot both publish a page (ReconciliationRuns).      *)
(*                                                                         *)
(* The projection is a function of the block the indexer has processed;    *)
(* GraphQL serves the current one.                                         *)
(***************************************************************************)
EXTENDS Naturals, Sequences, FiniteSets, Functions

CONSTANTS
    MaxCounter,       \* bound: trades on chain
    Projections,      \* contents of the indexer: sequences of trade ids, in
                      \* the order of their physical keys
    maxTradesPerRun,  \* window budget
    enumerationLimit, \* page budget
    readsFail,        \* whether a chain read or a count read may fail
    None

VARIABLES
    counter,          \* tradeCounter at the indexer's block
    projection,       \* what the indexer holds
    cycle,            \* the unfinished enumeration cycle, or None
    hasHistory,       \* whether there was a cycle before
    lastTradeId,      \* reconcile_cursors
    complete,         \* whether the last run reported complete coverage
    swept,            \* history: ids compared by the runs of this cycle
    examined          \* history: ids any run compared

vars == <<counter, projection, cycle, hasHistory, lastTradeId, complete, swept,
          examined>>

\* Before the first cycle there may be a cursor of an earlier release.
CoverageInit ==
    /\ counter \in 0..MaxCounter
    /\ projection \in Projections
    /\ cycle = None
    /\ hasHistory = FALSE
    /\ lastTradeId \in 0..counter
    /\ complete = FALSE
    /\ swept = {}
    /\ examined = {}

-----------------------------------------------------------------------------
(* Planning *)

least(a, b) == IF a < b THEN a ELSE b

\* prepareEnumeration, when no cycle is active: a cursor without cumulative
\* evidence opens an incoherent cycle, any later cycle starts from zero.
newCycle ==
    LET chainCursor == IF hasHistory THEN 0 ELSE lastTradeId
    IN  [chain_cursor |-> chainCursor, coherent |-> chainCursor = 0,
         anchored |-> TRUE, expected |-> Len(projection),
         upper |-> Len(projection), after |-> 0, walked |-> 0,
         members |-> {}, exhausted |-> FALSE, holding |-> FALSE]

prepareEnumeration == IF cycle = None THEN newCycle ELSE cycle

\* sameCycleSource; anchored stands for the block, hash and counter still
\* being those of the cycle.
sameCycleSource(c) == c.coherent /\ c.anchored

\* planCoverageWindow.
planCoverageWindow(cursor) ==
    IF cursor >= counter
    THEN [ids |-> {}, next |-> counter, complete |-> TRUE]
    ELSE LET covered == least(counter - cursor, maxTradesPerRun)
         IN  [ids |-> cursor..(cursor + covered - 1), next |-> cursor + covered,
              complete |-> cursor + covered = counter]

-----------------------------------------------------------------------------
(* Findings that hold the cursor *)

\* enumerateIndexer: the records after the cycle's last key, up to its bound.
enumerateIndexer(c) ==
    LET end == least(c.upper, Len(projection))
        to  == IF c.exhausted THEN c.after ELSE least(c.after + enumerationLimit, end)
    IN  [positions |-> (c.after + 1)..to, next |-> to,
         exhausted |-> c.exhausted \/ to >= end]

idsAt(positions) == {projection[i] : i \in positions}

duplicates(c, page) ==
    \/ idsAt(page.positions) \cap c.members # {}
    \/ Cardinality(idsAt(page.positions)) < Cardinality(page.positions)

detectIndexerOnlyTradeIds(page) ==
    \E id \in idsAt(page.positions) : id >= counter

\* compareCoverage and classifyDrifts: an id not read, or not indexed.
missingFromIndexer(window, failed) ==
    \/ failed # {}
    \/ \E id \in window.ids : id \notin Range(projection)

checkIndexerSurplus(counted) == counted /\ Len(projection) > counter

\* Mutant: an inconclusive chain read does not hold the cursor.
holdingFindings_ReadErrorsPass(c, window, page, failed, counted) ==
    \/ \E id \in window.ids \ failed : id \notin Range(projection)
    \/ detectIndexerOnlyTradeIds(page)
    \/ duplicates(c, page)
    \/ checkIndexerSurplus(counted)

\* The findings of a run with a code of CURSOR_HOLDING_CODES.
holdingFindings(c, window, page, failed, counted) ==
    \/ missingFromIndexer(window, failed)
    \/ detectIndexerOnlyTradeIds(page)
    \/ duplicates(c, page)
    \/ checkIndexerSurplus(counted)

\* evaluateCursorHold.
evaluateCursorHold(holding, page) == holding \/ ~page.exhausted

-----------------------------------------------------------------------------
(* A run *)

\* The verdict of reconcileOnce on the cycle.
coverageComplete(c, coherent, window, page, held) ==
    /\ coherent
    /\ ~c.holding
    /\ c.walked + Cardinality(page.positions) = Len(projection)
    /\ window.complete /\ ~held
    /\ page.exhausted

\* reconcileOnce with finalizeRun: a run whose snapshot was stable.
reconcileOnce ==
    \E failed \in SUBSET (0..MaxCounter), counted \in BOOLEAN :
      LET c        == prepareEnumeration
          window   == planCoverageWindow(c.chain_cursor)
          page     == enumerateIndexer(c)
          holding  == holdingFindings(c, window, page, failed, counted)
          held     == evaluateCursorHold(holding, page)
          coherent == sameCycleSource(c) /\ counted /\ Len(projection) = c.expected
          finished == page.exhausted /\ ((window.complete /\ ~held) \/ ~coherent)
          compared == {id \in window.ids \ failed : id \in Range(projection)}
      IN  /\ failed \subseteq window.ids
          /\ readsFail \/ (failed = {} /\ counted)
          /\ complete' = coverageComplete(c, coherent, window, page, held)
          /\ cycle' = IF finished THEN None
                      ELSE [c EXCEPT
                        !.after = page.next, !.exhausted = page.exhausted,
                        !.walked = @ + Cardinality(page.positions),
                        !.members = @ \cup idsAt(page.positions),
                        !.coherent = @ /\ coherent,
                        !.chain_cursor = IF held THEN @ ELSE window.next,
                        !.holding = @ \/ holding]
          /\ hasHistory' = TRUE
          /\ lastTradeId' = IF held THEN lastTradeId
                            ELSE IF window.complete THEN 0 ELSE window.next
          /\ swept' = (IF cycle = None THEN {} ELSE swept) \cup compared
          /\ examined' = examined \cup compared
          /\ UNCHANGED <<counter, projection>>

\* finalizeInconclusiveRun, or the failure of verifyCycleBoundary: the
\* indexer or the chain moved under the run, whose only trace is the cycle it
\* may have opened.
inconclusiveRun ==
    /\ \E p \in Projections, n \in counter..MaxCounter :
         projection' = p /\ counter' = n
    /\ cycle' = [prepareEnumeration EXCEPT !.anchored = FALSE]
    /\ hasHistory' = TRUE
    /\ complete' = FALSE
    /\ swept' = IF cycle = None THEN {} ELSE swept
    /\ UNCHANGED <<lastTradeId, examined>>

\* Between two runs the indexer processes more blocks.
IndexerAdvances ==
    /\ \E p \in Projections, n \in counter..MaxCounter :
         projection' = p /\ counter' = n
    /\ cycle' = IF cycle = None THEN None ELSE [cycle EXCEPT !.anchored = FALSE]
    /\ complete' = FALSE
    /\ UNCHANGED <<hasHistory, lastTradeId, swept, examined>>

CoverageNext == reconcileOnce \/ inconclusiveRun \/ IndexerAdvances

CoverageSpec == CoverageInit /\ [][CoverageNext]_vars

\* runDaemon runs again after every pass.
CoverageLiveSpec == CoverageSpec /\ WF_vars(reconcileOnce)

-----------------------------------------------------------------------------
(* Properties *)

\* A run that reports complete coverage is right, although no single run saw
\* everything: the indexer holds every trade of the chain, each once and
\* nothing else, and the runs of the cycle compared all of them.
CompleteMeansSwept ==
    complete => /\ Len(projection) = counter
                /\ Range(projection) = 0..(counter - 1)
                /\ swept = 0..(counter - 1)

=============================================================================
