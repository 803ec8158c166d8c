------------------------- MODULE ReconciliationRuns -------------------------
(***************************************************************************)
(* Reconciliation runs and the containment of one trade                    *)
(* (reconciliation/src).                                                   *)
(*                                                                         *)
(* Several workers run reconcileOnce.  A worker claims a run key under an  *)
(* expiring lease, reads the chain, the indexer and the enumeration cycle, *)
(* and publishes everything it has to say in one transaction that checks   *)
(* the lease and the generation of the cycle it read.  The published       *)
(* findings contain a diverging trade; a later clean run and a governed    *)
(* on-chain unpause release it.                                            *)
(*                                                                         *)
(* A lease carries no clock here: a lease that is not heartbeated may have *)
(* run out at any moment, so the sweep and the takeover of a RUNNING key   *)
(* are always allowed, up to MaxLapses of them.                            *)
(***************************************************************************)
EXTENDS Naturals, FiniteSets

CONSTANTS
    Workers,      \* processes that call reconcileOnce
    Keys,         \* run keys
    MaxFlips,     \* bound: times the trade starts or stops diverging
    MaxHeight,    \* bound: pauses and unpauses of the trade on chain
    MaxLapses,    \* bound: leases that run out
    MaxClaims,    \* bound: claims of one key
    None

VARIABLES
    run,          \* run[k]: the reconcile_runs row of key k
    generation,   \* of the active enumeration cycle
    view,         \* view[w]: what worker w has read in its current run
    containment,  \* the reconcile_trade_containments row of the trade
    spent,        \* reconcile_spent_unpause_approvals
    diverging,    \* whether chain and indexer disagree about the trade
    flips,
    height,       \* pauses and unpauses executed so far; odd: paused
    anchor,       \* the part of them the indexer has processed
    lapses,
    divergences,  \* history: divergences published so far
    clearedOn     \* history: divergences published when the clearing run read

runVars  == <<run, generation, view>>
rowVars  == <<containment, spent>>
envVars  == <<diverging, flips, height, anchor>>
history  == <<divergences, clearedOn>>
vars     == <<runVars, rowVars, envVars, lapses, history>>

RunsInit ==
    /\ run = [k \in Keys |-> [status |-> "none", owner |-> None, epoch |-> 0]]
    /\ generation = 0
    /\ view = [w \in Workers |-> None]
    /\ containment = [state |-> "none", opened_run_key |-> None,
                      pause_observed |-> FALSE, opened_at |-> 0]
    /\ spent = {}
    /\ diverging \in BOOLEAN
    /\ flips = 0
    /\ height = 0
    /\ anchor = 0
    /\ lapses = 0
    /\ divergences = 0
    /\ clearedOn = 0

-----------------------------------------------------------------------------
(* Leases *)

\* claimRun: a new key, one that did not complete, or a RUNNING one whose
\* lease ran out.  Every claim raises the epoch.
claimRun(w, k) ==
    /\ view[w] = None
    /\ run[k].status # "COMPLETED"
    /\ run[k].epoch < MaxClaims
    /\ IF run[k].status = "RUNNING"
       THEN lapses < MaxLapses /\ lapses' = lapses + 1
       ELSE UNCHANGED lapses
    /\ run' = [run EXCEPT ![k] = [status |-> "RUNNING", owner |-> w,
                                  epoch |-> run[k].epoch + 1]]
    /\ view' = [view EXCEPT ![w] = [key |-> k, epoch |-> run[k].epoch + 1,
                                    at |-> "claimed"]]
    /\ UNCHANGED <<generation, rowVars, envVars, history>>

\* sweepAbandonedRuns, the first step of every pass: a RUNNING key whose
\* lease ran out is ABANDONED.
sweepAbandonedRuns(k) ==
    /\ run[k].status = "RUNNING"
    /\ lapses < MaxLapses
    /\ lapses' = lapses + 1
    /\ run' = [run EXCEPT ![k].status = "ABANDONED", ![k].owner = None]
    /\ UNCHANGED <<generation, view, rowVars, envVars, history>>

\* Mutant: the fence looks at the key and not at who holds its lease.
assertLeaseHeld_AnyOwner(w) ==
    run[view[w].key].status # "none"

\* assertLeaseHeld, the first statement of the publishing transaction.
assertLeaseHeld(w) ==
    LET r == run[view[w].key] IN r.owner = w /\ r.epoch = view[w].epoch

\* The end of a pass: the status it recorded, its lease given up.
recorded(w, status) ==
    LET k == view[w].key
    IN  [run EXCEPT ![k].status = status,
                    ![k].owner = IF @ = w THEN None ELSE @]

-----------------------------------------------------------------------------
(* Reading and publishing *)

pausedAt(h) == h % 2 = 1

blocking(c) == c.state \notin {"none", "RELEASED"}

\* The reads of a pass: the cycle, the comparison at the indexer's block,
\* then the scoped pause at that block.  A comparison that failed says
\* nothing about the trade.
readRun(w) ==
    /\ view[w] # None
    /\ view[w].at = "claimed"
    /\ \E compared \in BOOLEAN, pauseRead \in BOOLEAN :
         LET verdict == IF ~compared THEN "unknown"
                        ELSE IF diverging THEN "diverging" ELSE "clean"
         IN  view' = [view EXCEPT ![w] =
                 [key |-> @.key, epoch |-> @.epoch, at |-> "read",
                  generation |-> generation,
                  verdict |-> verdict,
                  paused |-> /\ verdict = "diverging" \/ blocking(containment)
                             /\ pauseRead
                             /\ pausedAt(anchor),
                  seen |-> divergences]]
    /\ UNCHANGED <<run, generation, rowVars, envVars, lapses, history>>

\* openContainment: a fresh divergence takes the row back to CONTAINED and
\* drops its clearance and pause evidence; opened_run_key, opened_at and the
\* incident reference stay those of the first divergence.
openContainment(k) ==
    [containment EXCEPT
        !.state = "CONTAINED",
        !.opened_run_key = IF @ = None THEN k ELSE @,
        !.opened_at = IF containment.state = "none" THEN height ELSE @,
        !.pause_observed = FALSE]

\* recordCleanReconciliation.
recordCleanReconciliation(c, k) ==
    IF c.state = "CONTAINED" /\ c.opened_run_key # k
    THEN [c EXCEPT !.state = "RECONCILED_PENDING_APPROVAL"]
    ELSE c

\* applyContainment: open, then clear and record the pause of a blocking row.
applyContainment(v) ==
    LET opened  == IF v.verdict = "diverging" THEN openContainment(v.key)
                   ELSE containment
        cleared == IF v.verdict = "clean" /\ blocking(opened)
                   THEN recordCleanReconciliation(opened, v.key)
                   ELSE opened
    IN  IF v.paused /\ blocking(cleared)
        THEN [cleared EXCEPT !.pause_observed = TRUE]
        ELSE cleared

\* Mutant: the page is published whatever generation the cycle has reached.
cycleUnmoved_Ignored(w) == TRUE

\* publishEnumerationPage's condition on the cycle row.
cycleUnmoved(w) == generation = view[w].generation

\* finalizeRun with publishRunOutcome: one transaction.
finalizeRun(w) ==
    /\ view[w] # None
    /\ view[w].at = "read"
    /\ assertLeaseHeld(w)
    /\ cycleUnmoved(w)
    /\ LET v == view[w]
       IN  /\ run' = recorded(w, "COMPLETED")
           /\ generation' = generation + 1
           /\ containment' = applyContainment(v)
           /\ divergences' = divergences + (IF v.verdict = "diverging" THEN 1 ELSE 0)
           /\ clearedOn' = IF /\ containment.state = "CONTAINED"
                              /\ containment'.state = "RECONCILED_PENDING_APPROVAL"
                           THEN v.seen ELSE clearedOn
    /\ view' = [view EXCEPT ![w] = None]
    /\ UNCHANGED <<spent, envVars, lapses>>

\* finalizeInconclusiveRun: no checkpoint, or an indexer that moved during
\* the pass.  The key is SKIPPED and nothing is published.
finalizeInconclusiveRun(w) ==
    /\ view[w] # None
    /\ assertLeaseHeld(w)
    /\ run' = recorded(w, "SKIPPED")
    /\ view' = [view EXCEPT ![w] = None]
    /\ UNCHANGED <<generation, rowVars, envVars, lapses, history>>

\* The catch block: a pass whose lease is gone writes nothing; any other
\* error, the moved cycle included, records FAILED under the same fence.
failRun(w) ==
    /\ view[w] # None
    /\ LET r == run[view[w].key]
       IN  run' = IF r.owner = w /\ r.epoch = view[w].epoch
                  THEN recorded(w, "FAILED") ELSE run
    /\ view' = [view EXCEPT ![w] = None]
    /\ UNCHANGED <<generation, rowVars, envVars, lapses, history>>

\* The process dies.
Crash(w) ==
    /\ view[w] # None
    /\ view' = [view EXCEPT ![w] = None]
    /\ UNCHANGED <<run, generation, rowVars, envVars, lapses, history>>

-----------------------------------------------------------------------------
(* The chain, the indexer and the operator *)

\* The indexer starts, or stops, misrepresenting the trade.
Flip ==
    /\ flips < MaxFlips
    /\ flips' = flips + 1
    /\ diverging' = ~diverging
    /\ UNCHANGED <<runVars, rowVars, height, anchor, lapses, history>>

\* pauseTrade, or a governed unpause carried to quorum for this trade's
\* incident: there is one only once the incident exists.
PauseOrUnpause ==
    /\ height < MaxHeight
    /\ pausedAt(height) => containment.state # "none"
    /\ height' = height + 1
    /\ UNCHANGED <<runVars, rowVars, diverging, flips, anchor, lapses, history>>

IndexerAdvances ==
    /\ anchor < height
    /\ anchor' = anchor + 1
    /\ UNCHANGED <<runVars, rowVars, diverging, flips, height, lapses, history>>

\* The insert into reconcile_spent_unpause_approvals.
unspent(u) == u \notin spent

\* evaluateGovernedUnpause's comparison of the block time with opened_at.
executedAfter(u, c) == u > c.opened_at

\* The operator's release: evaluateGovernedUnpause accepts an unpause of this
\* trade, for this incident, executed after opened_at; releaseContainment
\* spends it and releases the row in one statement.
release(u) ==
    /\ containment.state = "RECONCILED_PENDING_APPROVAL"
    /\ containment.pause_observed
    /\ ~pausedAt(u) /\ u <= height
    /\ executedAfter(u, containment)
    /\ unspent(u)
    /\ containment' = [containment EXCEPT !.state = "RELEASED"]
    /\ spent' = spent \cup {u}
    /\ UNCHANGED <<runVars, envVars, lapses, history>>

-----------------------------------------------------------------------------

LeaseStep   == \E k \in Keys : \/ sweepAbandonedRuns(k)
                               \/ \E w \in Workers : claimRun(w, k)
RunStep     == \E w \in Workers : \/ readRun(w)
                                  \/ finalizeRun(w)
                                  \/ finalizeInconclusiveRun(w)
                                  \/ failRun(w)
                                  \/ Crash(w)
WorldStep   == Flip \/ PauseOrUnpause \/ IndexerAdvances
ReleaseStep == \E u \in 1..MaxHeight : release(u)

RunsNext == LeaseStep \/ RunStep \/ WorldStep \/ ReleaseStep

RunsSpec == RunsInit /\ [][RunsNext]_vars

-----------------------------------------------------------------------------
(* Properties *)

\* A clearance rests on a comparison made after the latest published
\* divergence: a worker that compared the trade while it was still clean
\* cannot clear a containment another worker opened in the meantime
\* (publishEnumerationPage's generation, enumerationCycles.ts).
ClearedByFresherRun ==
    containment.state = "RECONCILED_PENDING_APPROVAL" => clearedOn = divergences

\* A completed run keeps its status: neither a worker that lost the key nor
\* the sweep or a successor can turn published evidence into a FAILED,
\* SKIPPED, ABANDONED or RUNNING row (assertLeaseHeld, claimRun, failRun).
CompletedStands ==
    [][\A k \in Keys : run[k].status = "COMPLETED"
                         => run'[k].status = "COMPLETED"]_vars

=============================================================================
