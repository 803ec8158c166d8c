-------------------------- MODULE GovernanceActions --------------------------
(***************************************************************************)
(* Governance operations of the gateway (gateway/src/core/governance*.ts): *)
(* an operator has an action prepared, signs and broadcasts it from their  *)
(* own wallet, and reports the transaction hash; the leased monitors of    *)
(* the gateway's replicas then follow the transaction to its finality.     *)
(*                                                                         *)
(* All actions here have one intent and one signer, hence one calldata:    *)
(* what tells their payloads apart is the nonce.  The verification state   *)
(* is not kept, since it is "pending" exactly in the status                *)
(* broadcast_pending_verification; of the error code only its being one of *)
(* LATE_BROADCAST_* is.  A lease has no clock: it may lapse at any moment. *)
(***************************************************************************)
EXTENDS Naturals

CONSTANTS
    Callers,     \* requests to prepare or to confirm
    Monitors,    \* gateway replicas that run the monitor
    Actions,     \* action ids
    Txs,         \* transaction hashes
    MaxNonce,    \* bound: nonces of the signer
    MaxOrphans,  \* bound: reorganisations
    MaxLapses,   \* bound: leases that run out under a live monitor
    MaxCrashes,  \* bound: replicas that die
    None

VARIABLES
    governance_actions, \* the row of each action, or None
    lease,              \* monitor_lease_*: None or the owner, and whether
                        \* transition_version is still the owner's
    op,                 \* what each caller or monitor is doing
    expired,            \* actions whose preparation ran out (expires_at)
    overdue,            \* stale windows passed since broadcast_at: 0, 1 or 2
    handed,             \* actions whose payload was handed to the wallet
    chain,              \* the transactions, as any node shows them
    orphans, lapses, crashes,
    onTime              \* history: hashes committed before the expiry

rowVars  == <<governance_actions, lease>>
timeVars == <<expired, overdue>>
envVars  == <<handed, chain, orphans>>
vars     == <<rowVars, op, timeVars, envVars, lapses, crashes, onTime>>

Idle == [at |-> "idle"]
Processes == Callers \cup Monitors

GovernanceInit ==
    /\ governance_actions = [a \in Actions |-> None]
    /\ lease = [a \in Actions |-> None]
    /\ op = [p \in Processes |-> Idle]
    /\ expired = {}
    /\ overdue = [a \in Actions |-> 0]
    /\ handed = {}
    /\ chain = [t \in Txs |-> [at |-> "unseen", nonce |-> None, ok |-> FALSE]]
    /\ orphans = 0 /\ lapses = 0 /\ crashes = 0
    /\ onTime = [a \in Actions |-> {}]

Stored == {a \in Actions : governance_actions[a] # None}
status(a) == governance_actions[a].status

Watched == {"broadcast_pending_verification", "broadcast"}
Terminal == {"executed", "failed", "stale"}

-----------------------------------------------------------------------------
(* Preparation *)

Mined == {"included", "final"}

\* getTransactionCount at the pending block: the first nonce no transaction
\* of the signer uses.
transactionCount ==
    LET used == {chain[t].nonce : t \in {u \in Txs : chain[u].at # "unseen"}}
    IN  CHOOSE n \in 0..MaxNonce + 1 : n \notin used /\ \A k \in 0..n - 1 : k \in used

\* prepareAction up to its first simulation, which may also refuse it.
prepareAction(p) ==
    /\ op[p] = Idle
    /\ Stored # Actions
    /\ transactionCount <= MaxNonce
    /\ op' = [op EXCEPT ![p] = [at |-> "prepare", nonce |-> transactionCount]]
    /\ UNCHANGED <<rowVars, timeVars, envVars, lapses, crashes, onTime>>

\* loadExistingOpenIntentAction.
openIntent ==
    {a \in Stored : \/ status(a) \in Watched
                    \/ status(a) = "prepared" /\ a \notin expired}

\* saveDirectSignActionWithIntentDedupe, under the advisory lock of the
\* intent: the open action of the intent, or a new one.
saveDirectSignActionWithIntentDedupe(p, a) ==
    /\ op[p].at = "prepare"
    /\ IF openIntent # {}
       THEN a \in openIntent /\ UNCHANGED governance_actions
       ELSE /\ a \notin Stored
            /\ governance_actions' = [governance_actions EXCEPT ![a] =
                 [status |-> "prepared", tx_hash |-> None, nonce |-> op[p].nonce,
                  monitoringState |-> "not_started", located |-> FALSE, late |-> FALSE]]
    /\ op' = [op EXCEPT ![p] = [at |-> "handoff", action |-> a]]
    /\ UNCHANGED <<lease, timeVars, envVars, lapses, crashes, onTime>>

\* The rest of prepareAction: the payload goes to the wallet unless the
\* action expired, its nonce is no longer the next one, or it does not pass
\* its second simulation.
walletHandoff(p) ==
    /\ op[p].at = "handoff"
    /\ LET a == op[p].action
       IN  handed' \in {handed} \cup
             (IF a \notin expired /\ governance_actions[a].nonce = transactionCount
              THEN {handed \cup {a}} ELSE {})
    /\ op' = [op EXCEPT ![p] = Idle]
    /\ UNCHANGED <<rowVars, timeVars, chain, orphans, lapses, crashes, onTime>>

-----------------------------------------------------------------------------
(* Confirmation of the broadcast *)

\* verifyObservedGovernanceTransaction.
matches(a, t) == chain[t].nonce = governance_actions[a].nonce

\* confirmBroadcast up to the transaction that commits it: the row it read,
\* the transaction it looked up (a lookup may fail) and the time it took.
\* A hash seen with another payload is refused; an action that is neither
\* prepared nor pending verification is answered without a write.
confirmBroadcast(p, a, t) ==
    /\ op[p] = Idle
    /\ a \in Stored
    /\ status(a) \in {"prepared", "broadcast_pending_verification"}
    /\ \E verified \in BOOLEAN :
         /\ verified => chain[t].at # "unseen" /\ matches(a, t)
         /\ op' = [op EXCEPT ![p] =
              [at |-> "commit", action |-> a, tx |-> t, verified |-> verified,
               existing |-> governance_actions[a],
               located |-> verified /\ chain[t].at \in Mined,
               lateBroadcast |-> a \in expired]]
    /\ UNCHANGED <<rowVars, timeVars, envVars, lapses, crashes, onTime>>

\* idx_governance_actions_transaction_hash.
unbound(a, t) == \A b \in Stored \ {a} : governance_actions[b].tx_hash # t

\* resolveGovernanceConfirmationCommit, with the trigger that keeps
\* broadcast_at: a request that read the row before its first hash was
\* reported cannot replace that hash.
committable(r) ==
    LET current == governance_actions[r.action]
    IN  /\ current.tx_hash # r.tx
        /\ current.status \in {"prepared", "broadcast_pending_verification"}
        /\ current.tx_hash # None => r.existing.tx_hash # None
        /\ unbound(r.action, r.tx)

\* commitConfirmation: one transaction on the locked row.  It moves
\* transition_version past every claim.
commitConfirmation(p) ==
    /\ op[p].at = "commit"
    /\ LET r == op[p]
           a == r.action
       IN  IF committable(r)
           THEN /\ governance_actions' = [governance_actions EXCEPT ![a] =
                     [r.existing EXCEPT
                        !.status = IF r.verified THEN "broadcast"
                                   ELSE "broadcast_pending_verification",
                        !.tx_hash = r.tx,
                        !.monitoringState = IF r.verified THEN "pending_confirmation"
                                            ELSE "pending_verification",
                        !.located = r.located,
                        !.late = @ \/ r.lateBroadcast]]
                /\ lease' = [lease EXCEPT ![a] =
                     IF @ = None THEN @ ELSE [@ EXCEPT !.current = FALSE]]
                /\ onTime' = [onTime EXCEPT ![a] =
                     IF r.lateBroadcast THEN @ \ {r.tx} ELSE @ \cup {r.tx}]
           ELSE UNCHANGED <<rowVars, onTime>>
    /\ op' = [op EXCEPT ![p] = Idle]
    /\ UNCHANGED <<timeVars, envVars, lapses, crashes>>

-----------------------------------------------------------------------------
(* Finality *)

\* classifyTransactionFinality of one observation: the state and whether it
\* is final.  The depth "safe" is projected like "confirmed".
classify(t) ==
    IF chain[t].at \notin Mined THEN [state |-> "submitted", final |-> FALSE]
    ELSE [state |-> IF ~chain[t].ok THEN "reverted"
                    ELSE IF chain[t].at = "final" THEN "finalized" ELSE "confirmed",
          final |-> chain[t].at = "final"]

unavailable  == [state |-> "unavailable", final |-> FALSE]
notCanonical == [state |-> "not_canonical", final |-> FALSE]

\* Mutant: an inclusion executes the action.
projectGovernanceFinality_Included(x) ==
    CASE x.state \in {"finalized", "confirmed"} -> <<"executed", "finalized">>
      [] x.state = "reverted" -> <<IF x.final THEN "failed" ELSE "broadcast", "reverted">>
      [] OTHER -> None

\* projectGovernanceFinality: the status and monitoring state, or None.
projectGovernanceFinality(x) ==
    CASE x.state = "finalized" -> <<"executed", "finalized">>
      [] x.state = "confirmed" -> <<"broadcast", "confirmed">>
      [] x.state = "reverted" -> <<IF x.final THEN "failed" ELSE "broadcast", "reverted">>
      [] OTHER -> None

\* governanceActionFinality and canTransitionTransactionFinality, of a row
\* the monitor claimed: it is in status broadcast, so its position is not
\* final and only a finalized success without finality could be refused.
canTransition(x) == x.state = "finalized" => x.final

\* The row with a projection applied; a late mark survives.
projected(row, x) ==
    LET projection == projectGovernanceFinality(x)
    IN  [row EXCEPT !.status = projection[1], !.monitoringState = projection[2],
                    !.located = TRUE]

\* persistStale and persistTerminalFailure: their error code replaces a late
\* mark.
persistStale(row) ==
    [row EXCEPT !.status = "stale", !.monitoringState = "stale", !.late = FALSE]
persistTerminalFailure(row) ==
    [row EXCEPT !.status = "failed", !.late = FALSE]

\* persistCanonicalityLost.
persistCanonicalityLost(row) ==
    [row EXCEPT !.monitoringState = "pending_confirmation", !.located = FALSE]

\* processPendingVerification of a claimed row, given whether the transaction
\* was observed and how its finality was assessed.  The unchanged row stands
\* for "nothing to write".
processPendingVerification(a, claim, observed, x) ==
    LET row == claim.row
        t   == row.tx_hash
    IN  IF ~observed
        THEN IF claim.overdue >= 1 THEN persistStale(row) ELSE row
        ELSE IF ~matches(a, t) THEN persistTerminalFailure(row)
        ELSE IF projectGovernanceFinality(x) # None THEN projected(row, x)
        ELSE [row EXCEPT !.status = "broadcast", !.monitoringState = "pending_confirmation",
                         !.located = chain[t].at \in Mined]

\* processPendingConfirmation.
processPendingConfirmation(claim, x) ==
    LET row == claim.row
    IN  IF x = notCanonical THEN persistCanonicalityLost(row)
        ELSE IF projectGovernanceFinality(x) = None
        THEN IF claim.overdue >= 2 THEN persistStale(row) ELSE row
        ELSE IF canTransition(x) THEN projected(row, x) ELSE row

-----------------------------------------------------------------------------
(* The monitors *)

\* Mutant: only actions whose transaction was verified are claimed.
claimable_Verified(a) ==
    /\ a \in Stored
    /\ status(a) = "broadcast"
    /\ lease[a] = None

\* The rows claimMonitorActions selects.
claimable(a) ==
    /\ a \in Stored
    /\ status(a) \in Watched
    /\ lease[a] = None

\* claimMonitorActions: all of them, in one transaction.
claimMonitorActions(m) ==
    LET claimed == {a \in Actions : claimable(a)}
    IN  /\ op[m] = Idle
        /\ claimed # {}
        /\ op' = [op EXCEPT ![m] =
             [at |-> "monitor", observed |-> None,
              claims |-> [a \in claimed |-> [row |-> governance_actions[a],
                                             overdue |-> overdue[a]]]]]
        /\ lease' = [a \in Actions |->
             IF a \in claimed THEN [owner |-> m, current |-> TRUE] ELSE lease[a]]
        /\ UNCHANGED <<governance_actions, timeVars, envVars, lapses, crashes, onTime>>

\* The reads for one claim: each may fail, and a reorganisation may come
\* between the receipt and the block of its height.
processClaim(m, a) ==
    /\ op[m].at = "monitor"
    /\ op[m].observed = None
    /\ a \in DOMAIN op[m].claims
    /\ LET claim == op[m].claims[a]
           t     == claim.row.tx_hash
       IN  \E observed \in {FALSE, chain[t].at # "unseen"},
              x \in {unavailable, classify(t), notCanonical} :
             /\ IF x = notCanonical
                THEN /\ chain[t].at = "included" /\ orphans < MaxOrphans
                     /\ chain' = [chain EXCEPT ![t].at = "pending"]
                     /\ orphans' = orphans + 1
                ELSE UNCHANGED <<chain, orphans>>
             /\ op' = [op EXCEPT ![m].observed =
                  [action |-> a,
                   row |-> IF claim.row.status = "broadcast"
                           THEN processPendingConfirmation(claim, x)
                           ELSE processPendingVerification(a, claim, observed, x)]]
    /\ UNCHANGED <<rowVars, timeVars, handed, lapses, crashes, onTime>>

\* The condition of completeMonitorClaim's update.
holdsClaim(m, a) ==
    LET row == op[m].claims[a].row
    IN  /\ lease[a] = [owner |-> m, current |-> TRUE]
        /\ status(a) = row.status
        /\ governance_actions[a].tx_hash = row.tx_hash

\* completeMonitorClaim, or releaseMonitorClaim when there is nothing to
\* write.  Without its claim the monitor writes nothing, and a lease whose
\* version moved stays until it runs out.
completeMonitorClaim(m) ==
    /\ op[m].at = "monitor"
    /\ op[m].observed # None
    /\ LET a    == op[m].observed.action
           rest == DOMAIN op[m].claims \ {a}
       IN  /\ IF holdsClaim(m, a)
              THEN /\ governance_actions' = [governance_actions EXCEPT ![a] = op[m].observed.row]
                   /\ lease' = [lease EXCEPT ![a] = None]
              ELSE UNCHANGED rowVars
           /\ op' = [op EXCEPT ![m] =
                IF rest = {} THEN Idle
                ELSE [at |-> "monitor", observed |-> None,
                      claims |-> [b \in rest |-> op[m].claims[b]]]]
    /\ UNCHANGED <<timeVars, envVars, lapses, crashes, onTime>>

\* Whether the owner of the lease is still on its claim.
attended(a) ==
    LET m == lease[a].owner
    IN  lease[a].current /\ op[m].at = "monitor" /\ a \in DOMAIN op[m].claims

\* A lease runs out.
leaseExpires(a) ==
    /\ lease[a] # None
    /\ IF attended(a) THEN lapses < MaxLapses /\ lapses' = lapses + 1 ELSE UNCHANGED lapses
    /\ lease' = [lease EXCEPT ![a] = None]
    /\ UNCHANGED <<governance_actions, op, timeVars, envVars, crashes, onTime>>

\* A replica dies with what it was doing.
Crash(p) ==
    /\ op[p] # Idle
    /\ crashes < MaxCrashes
    /\ crashes' = crashes + 1
    /\ op' = [op EXCEPT ![p] = Idle]
    /\ UNCHANGED <<rowVars, timeVars, envVars, lapses, onTime>>

-----------------------------------------------------------------------------
(* Time, the wallet and the chain *)

preparationExpires(a) ==
    /\ a \in Stored \ expired
    /\ expired' = expired \cup {a}
    /\ UNCHANGED <<rowVars, op, overdue, envVars, lapses, crashes, onTime>>

\* governanceActionAgeMs passes the verification window, then the
\* confirmation window.
windowPasses(a) ==
    /\ a \in Stored
    /\ status(a) \in Watched
    /\ overdue[a] < 2
    /\ overdue' = [overdue EXCEPT ![a] = @ + 1]
    /\ UNCHANGED <<rowVars, op, expired, envVars, lapses, crashes, onTime>>

\* In place of the nonce of a transaction with another payload.
Foreign == MaxNonce + 2

taken(n) == \E t \in Txs : chain[t].nonce = n /\ chain[t].at \in Mined

\* The wallet signs and broadcasts a payload it was handed, or something
\* that is no governance action.
Broadcast(t) ==
    /\ chain[t].nonce = None
    /\ \E n \in {governance_actions[a].nonce : a \in handed} \cup {Foreign}, ok \in BOOLEAN :
         /\ ~taken(n)
         /\ chain' = [chain EXCEPT ![t] = [at |-> "pending", nonce |-> n, ok |-> ok]]
    /\ UNCHANGED <<rowVars, op, timeVars, handed, orphans, lapses, crashes, onTime>>

\* Inclusion in a block drops the other transactions of the nonce.
Include(t) ==
    /\ chain[t].at = "pending"
    /\ ~taken(chain[t].nonce)
    /\ chain' = [u \in Txs |->
         IF u = t THEN [chain[u] EXCEPT !.at = "included"]
         ELSE IF chain[u].nonce = chain[t].nonce THEN [chain[u] EXCEPT !.at = "unseen"]
         ELSE chain[u]]
    /\ UNCHANGED <<rowVars, op, timeVars, handed, orphans, lapses, crashes, onTime>>

\* The nodes forget a transaction that no block took.
Drop(t) ==
    /\ chain[t].at = "pending"
    /\ chain' = [chain EXCEPT ![t].at = "unseen"]
    /\ UNCHANGED <<rowVars, op, timeVars, handed, orphans, lapses, crashes, onTime>>

Finalize(t) ==
    /\ chain[t].at = "included"
    /\ chain' = [chain EXCEPT ![t].at = "final"]
    /\ UNCHANGED <<rowVars, op, timeVars, handed, orphans, lapses, crashes, onTime>>

Reorganise(t) ==
    /\ chain[t].at = "included"
    /\ orphans < MaxOrphans
    /\ orphans' = orphans + 1
    /\ \E ok \in BOOLEAN : chain' = [chain EXCEPT ![t].at = "pending", ![t].ok = ok]
    /\ UNCHANGED <<rowVars, op, timeVars, handed, lapses, crashes, onTime>>

-----------------------------------------------------------------------------

CallerStep(p) ==
    \/ prepareAction(p) \/ walletHandoff(p) \/ commitConfirmation(p)
    \/ \E a \in Actions : saveDirectSignActionWithIntentDedupe(p, a)
    \/ \E a \in Actions, t \in Txs : confirmBroadcast(p, a, t)
MonitorStep(m) ==
    \/ claimMonitorActions(m) \/ completeMonitorClaim(m)
    \/ \E a \in Actions : processClaim(m, a)
TimeStep == \E a \in Actions : preparationExpires(a) \/ windowPasses(a) \/ leaseExpires(a)
ChainStep ==
    \E t \in Txs : Broadcast(t) \/ Include(t) \/ Drop(t) \/ Finalize(t) \/ Reorganise(t)

GovernanceNext ==
    \/ \E p \in Callers : CallerStep(p)
    \/ \E m \in Monitors : MonitorStep(m)
    \/ \E p \in Processes : Crash(p)
    \/ TimeStep
    \/ ChainStep

\* The monitor polls on a timer, time passes, and the chain includes and
\* finalizes what it does not drop.
GovernanceFairness ==
    /\ \A m \in Monitors : WF_vars(MonitorStep(m))
    /\ \A a \in Actions : /\ WF_vars(windowPasses(a))
                          /\ WF_vars(leaseExpires(a) /\ UNCHANGED lapses)
    /\ \A t \in Txs : WF_vars(Finalize(t))

-----------------------------------------------------------------------------
(* Properties *)

\* What the gateway shows as executed, the chain finalized as a success of
\* the prepared payload, and no other action claims the same transaction;
\* without a late mark its hash was committed before the preparation ran
\* out.  A revert fails an action only once it is final
\* (projectGovernanceFinality, commitConfirmation, completeMonitorClaim).
ExecutedOnEvidence ==
    \A a \in Stored :
        LET row == governance_actions[a]
        IN  /\ row.status = "executed" =>
                 /\ chain[row.tx_hash].at = "final" /\ chain[row.tx_hash].ok
                 /\ matches(a, row.tx_hash)
                 /\ \A b \in Stored \ {a} : governance_actions[b].tx_hash # row.tx_hash
                 /\ row.late \/ row.tx_hash \in onTime[a]
            /\ row.status = "failed" /\ row.monitoringState = "reverted" =>
                 chain[row.tx_hash].at = "final" /\ ~chain[row.tx_hash].ok

\* An action whose transaction was reported does not stay open: it ends
\* executed, failed or stale, also when the replica that leased it died or
\* its hash was corrected under the lease (claimMonitorActions).
EveryReportSettles ==
    \A a \in Actions :
        (a \in Stored /\ status(a) \in Watched) ~> (a \in Stored /\ status(a) \in Terminal)

=============================================================================
