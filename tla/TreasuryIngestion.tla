--------------------------- MODULE TreasuryIngestion ---------------------------
(***************************************************************************)
(* The treasury's scheduled ingestion (treasury/src/core/ingestionWorker.ts*)
(* and treasury/src/core/ingestion.ts): replicas take turns reading the    *)
(* indexer's fee and claim events block range by block range, each of the  *)
(* two cursors resuming from the first height it has not consumed whole.   *)
(* A run is capped, may stop on a block whose hash the chain does not      *)
(* report, and may die or lose its advisory lock at any point.             *)
(*                                                                         *)
(* An event is <<cursor, block, index, version>>; a reorganization below   *)
(* the finalized head replaces the events of a block by a new version.     *)
(***************************************************************************)
EXTENDS Naturals, Sequences, FiniteSetsExt

CONSTANTS Workers,
          MaxBlock,        \* the last block the chain reaches
          MaxPerBlock,     \* the most events of one cursor in one block
          ingestBatchSize, \* the page size
          ingestMaxEvents, \* the cap on the events of one run and cursor
          MaxReorgs,       \* how many blocks are reorganized
          None

VARIABLES
    count,      \* external: how many events of each cursor a block carries
    version,    \* external: how often a block has been reorganized
    head,       \* external: the finalized head
    processed,  \* external: the height the indexer has processed
    watermark,  \* treasury_ingestion_state.next_block_number of each cursor
    ledger,     \* the events with a row in treasury's tables
    orphaned,   \* the ledger rows revoked by recordLedgerEntryOrphaned
    lock,       \* the owner of the ingestion advisory lock
    run,        \* each replica's run
    proven      \* the highest window end of a run recorded COMPLETED

chainVars == <<count, version, head, processed>>
vars == <<chainVars, watermark, ledger, orphaned, lock, run, proven>>

Cursors == {"trade_events", "claim_events"}
Blocks == 1 .. MaxBlock

IngestionInit ==
    /\ count \in [Cursors -> [Blocks -> 0 .. MaxPerBlock]]
    /\ version = [b \in Blocks |-> 0]
    /\ head = 0 /\ processed = 0
    /\ watermark = [c \in Cursors |-> 0]
    /\ ledger = {} /\ orphaned = {}
    /\ lock = None
    /\ run = [w \in Workers |-> None]
    /\ proven = 0

(***************************************************************************)
(* The chain and the indexer.                                              *)
(***************************************************************************)
Finalize ==
    /\ head < MaxBlock
    /\ head' = head + 1
    /\ UNCHANGED <<count, version, processed, watermark, ledger, orphaned, lock, run, proven>>

IndexerAdvances ==
    /\ processed < head
    /\ processed' = processed + 1
    /\ UNCHANGED <<count, version, head, watermark, ledger, orphaned, lock, run, proven>>

Reorganize(b) ==
    /\ b <= processed
    /\ MapThenSumSet(LAMBDA n : version[n], Blocks) < MaxReorgs
    /\ version' = [version EXCEPT ![b] = @ + 1]
    /\ UNCHANGED <<count, head, processed, watermark, ledger, orphaned, lock, run, proven>>

(***************************************************************************)
(* recordLedgerEntryOrphaned: the row is revoked and every cursor that has *)
(* passed its block is rewound to it, in one transaction.                  *)
(***************************************************************************)
recordLedgerEntryOrphaned(x) ==
    /\ x[1] = "trade_events"
    /\ x \notin orphaned
    /\ x[4] # version[x[2]]
    /\ orphaned' = orphaned \cup {x}
    /\ watermark' = [c \in Cursors |-> Min({watermark[c], x[2]})]
    /\ UNCHANGED <<chainVars, ledger, lock, run, proven>>

(***************************************************************************)
(* executeRun: the advisory lock is tried, never awaited; the watermarks,  *)
(* the finalized head and the indexer's height bound the window.  A run    *)
(* that finds no head or no height is BLOCKED and writes nothing here.     *)
(***************************************************************************)
executeRun(w) ==
    /\ run[w] = None
    /\ lock = None
    /\ lock' = w
    /\ run' = [run EXCEPT ![w] =
                [at |-> "trade_events", from |-> watermark, to |-> Min({head, processed}),
                 offset |-> 0, next |-> watermark]]
    /\ UNCHANGED <<chainVars, watermark, ledger, orphaned, proven>>

(* The window of a cursor in the indexer's order: by block, then by index. *)
windowEvents(c, from, to) ==
    LET upTo[n \in 0 .. MaxBlock] ==
            IF n = 0 \/ n < from THEN <<>>
            ELSE upTo[n - 1] \o [i \in 1 .. count[c][n] |-> <<c, n, i, version[n]>>]
    IN  upTo[to]


(* resolveNextBlock: a partly consumed block is read again as a whole.     *)
resolveNextBlock(from, to, last, exhausted, stoppedAt) ==
    IF stoppedAt # None THEN stoppedAt
    ELSE IF exhausted THEN Max({from, to + 1})
    ELSE IF last # None THEN last ELSE from

(***************************************************************************)
(* One page of ingestTradeEvents or ingestClaimEvents.  Only the trade     *)
(* cursor stops on a block without a hash: the events before it are kept.  *)
(***************************************************************************)
capReached(fetched, last, from) == fetched >= ingestMaxEvents /\ last # from

FetchPage(w) ==
    /\ run[w] # None /\ run[w].at \in Cursors
    /\ LET r == run[w]
           c == r.at
           from == r.from[c]
           window == windowEvents(c, from, r.to)
           page == SubSeq(window, r.offset + 1,
                          Min({Len(window), r.offset + ingestBatchSize}))
           fetched == r.offset + Len(page)
           last == IF page = <<>> THEN None ELSE page[Len(page)][2]
           finish(next) == [r EXCEPT !.at = IF c = "trade_events" THEN "claim_events" ELSE "done",
                                     !.next[c] = next, !.offset = 0]
       IN  \/ /\ from > r.to
              /\ run' = [run EXCEPT ![w] = finish(resolveNextBlock(from, r.to, None, FALSE, None))]
              /\ UNCHANGED ledger
           \/ /\ from <= r.to
              /\ ledger' = ledger \cup {page[i] : i \in 1 .. Len(page)}
              /\ run' = [run EXCEPT ![w] =
                    IF Len(page) < ingestBatchSize
                    THEN finish(resolveNextBlock(from, r.to, last, TRUE, None))
                    ELSE IF capReached(fetched, last, from)
                    THEN finish(resolveNextBlock(from, r.to, last, FALSE, None))
                    ELSE [r EXCEPT !.offset = fetched]]
           \/ /\ from <= r.to /\ c = "trade_events"
              /\ \E k \in 1 .. Len(page) :
                    /\ ledger' = ledger \cup {page[i] : i \in 1 .. k - 1}
                    /\ run' = [run EXCEPT ![w] =
                                finish(resolveNextBlock(from, r.to, last, FALSE, page[k][2]))]
    /\ UNCHANGED <<chainVars, watermark, orphaned, lock, proven>>

(***************************************************************************)
(* The end of a run: setIngestionWatermark for each cursor (GREATEST), and *)
(* COMPLETED only when both cursors exhausted the window.                  *)
(***************************************************************************)
setIngestionWatermark(current, next) == Max({current, next})

FinishRun(w) ==
    /\ run[w] # None /\ run[w].at = "done"
    /\ watermark' = [c \in Cursors |-> setIngestionWatermark(watermark[c], run[w].next[c])]
    /\ proven' = IF \A c \in Cursors : run[w].next[c] > run[w].to
                 THEN Max({proven, run[w].to}) ELSE proven
    /\ run' = [run EXCEPT ![w] = None]
    /\ lock' = IF lock = w THEN None ELSE lock
    /\ UNCHANGED <<chainVars, ledger, orphaned>>

(* A run fails or its process dies: nothing but the ledger rows remains.   *)
FailRun(w) ==
    /\ run[w] # None
    /\ run' = [run EXCEPT ![w] = None]
    /\ lock' = IF lock = w THEN None ELSE lock
    /\ UNCHANGED <<chainVars, watermark, ledger, orphaned, proven>>

(* The connection that holds the lock drops; the run goes on with the pool.*)
LoseLock(w) ==
    /\ lock = w
    /\ lock' = None
    /\ UNCHANGED <<chainVars, watermark, ledger, orphaned, run, proven>>

IngestionNext ==
    \/ Finalize
    \/ IndexerAdvances
    \/ \E b \in Blocks : Reorganize(b)
    \/ \E x \in ledger : recordLedgerEntryOrphaned(x)
    \/ \E w \in Workers :
        executeRun(w) \/ FetchPage(w) \/ FinishRun(w) \/ FailRun(w) \/ LoseLock(w)

IngestionSpec == IngestionInit /\ [][IngestionNext]_vars

(***************************************************************************)
(* Properties.                                                             *)
(***************************************************************************)


=============================================================================
