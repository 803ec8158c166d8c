---------------------------- MODULE TreasuryLedger ----------------------------
(***************************************************************************)
(* The treasury's view of one ledger entry: whether the chain still holds  *)
(* the fee event behind it (treasury/src/database/queries/                 *)
(* chainCanonicality.ts, treasury/src/core/exportEligibility.ts), the      *)
(* payout lifecycle (treasury/src/core/payout.ts) and the bank evidence    *)
(* (treasury/src/database/queries/bankPayouts.ts), driven by the handlers  *)
(* appendState and upsertBankConfirmation of                               *)
(* treasury/src/api/controller.ts.                                         *)
(*                                                                         *)
(* A handler that reads before it writes is two steps: the read puts a     *)
(* request into inflight, and the write takes it out.  Everything between  *)
(* BEGIN and COMMIT that is serialised by a row lock is one step.          *)
(***************************************************************************)
EXTENDS Naturals, FiniteSets

CONSTANTS Entries,      \* the ledger entries
          BankReports,  \* the bank states the bank may report in this instance
          MaxInFlight,  \* the number of requests between their read and their write
          NoState       \* a request that carries no payout state

VARIABLES
    onChain,      \* external: does the chain still hold the entry's event?
    canonicality, \* treasury_ledger_entries.canonicality_state
    payout,       \* the latest row of payout_lifecycle_events
    bank,         \* the recorded bank_payout_confirmations, and the latest of them
    inflight      \* the requests that have read and not yet written

ledgerVars == <<onChain, canonicality, payout, bank>>

PayoutStates ==
    {"PENDING_REVIEW", "READY_FOR_EXTERNAL_HANDOFF",
     "AWAITING_EXTERNAL_CONFIRMATION", "EXTERNAL_EXECUTION_CONFIRMED", "CANCELLED"}

AllowedTransitions ==
    [s \in PayoutStates |->
        CASE s = "PENDING_REVIEW" -> {"READY_FOR_EXTERNAL_HANDOFF", "CANCELLED"}
          [] s = "READY_FOR_EXTERNAL_HANDOFF" -> {"AWAITING_EXTERNAL_CONFIRMATION", "CANCELLED"}
          [] s = "AWAITING_EXTERNAL_CONFIRMATION" ->
                {"EXTERNAL_EXECUTION_CONFIRMED", "CANCELLED"}
          [] OTHER -> {}]

canTransition(s, t) == t \in AllowedTransitions[s]

(***************************************************************************)
(* Requests between their read and their write.                            *)
(***************************************************************************)
Start(r) ==
    /\ Cardinality(inflight) < MaxInFlight
    /\ r \notin inflight
    /\ inflight' = inflight \cup {r}

Finish(r) == inflight' = inflight \ {r}

LedgerInit ==
    /\ onChain = [e \in Entries |-> TRUE]
    /\ canonicality = [e \in Entries |-> "UNVERIFIED"]
    /\ payout = [e \in Entries |-> "PENDING_REVIEW"]
    /\ bank = [e \in Entries |-> [latest |-> "NONE", recorded |-> {}]]

(***************************************************************************)
(* A reorganization removes the event.                                     *)
(***************************************************************************)
Reorganize(e) ==
    /\ onChain[e]
    /\ onChain' = [onChain EXCEPT ![e] = FALSE]
    /\ UNCHANGED <<canonicality, payout, bank, inflight>>


(***************************************************************************)
(* markLedgerEntryCanonical: the row lock makes the ORPHANED guard and the *)
(* promotion one decision.                                                 *)
(***************************************************************************)
markCanonical(e) ==
    canonicality' =
        [canonicality EXCEPT ![e] = IF @ = "ORPHANED" THEN @ ELSE "CANONICAL"]

(***************************************************************************)
(* recordLedgerEntryOrphaned: the entry is revoked, and the lifecycle is   *)
(* cancelled when the state the assessment read could still be cancelled.  *)
(***************************************************************************)
recordOrphaned(e, seen) ==
    /\ canonicality' = [canonicality EXCEPT ![e] = "ORPHANED"]
    /\ payout' = IF canTransition(seen, "CANCELLED")
                 THEN [payout EXCEPT ![e] = "CANCELLED"] ELSE payout

(***************************************************************************)
(* assessEntries, as every list, export and gate runs it: the row is read, *)
(* the chain is asked, and the verdict is written.  A row that reads       *)
(* ORPHANED is answered without asking the chain.                          *)
(***************************************************************************)
BeginAssessment(e) ==
    /\ canonicality[e] # "ORPHANED"
    /\ Start([op |-> "assess", subject |-> e, state |-> payout[e], answer |-> NoState])
    /\ UNCHANGED ledgerVars

AskChain(r) ==
    /\ r.op = "assess" /\ r.answer = NoState
    /\ inflight' = (inflight \ {r}) \cup
                   {[r EXCEPT !.answer = IF onChain[r.subject] THEN "present" ELSE "absent"]}
    /\ UNCHANGED ledgerVars

FinishAssessment(r) ==
    /\ r.op = "assess" /\ r.answer # NoState
    /\ Finish(r)
    /\ IF r.answer = "present"
       THEN markCanonical(r.subject) /\ UNCHANGED payout
       ELSE recordOrphaned(r.subject, r.state)
    /\ UNCHANGED <<onChain, bank>>

(***************************************************************************)
(* The payout gate for one entry, as a handler consults it: a canonical    *)
(* verdict whose promotion took effect.  The finalized stage, the          *)
(* freshness of ingestion and the reconciliation verdict live in other     *)
(* services; a handler whose gate they close is refused before it writes.  *)
(***************************************************************************)
eligibleForPayout(e) ==
    /\ canonicality[e] # "ORPHANED"
    /\ onChain[e]
    /\ payout[e] = "EXTERNAL_EXECUTION_CONFIRMED" => bank[e].latest = "CONFIRMED"

(***************************************************************************)
(* appendState: the latest state is read without a lock and the new row is *)
(* inserted afterwards.  Completion is refused here; READY needs the gate, *)
(* whose promotion is written on the way.                                  *)
(***************************************************************************)
appendStateRead(e, s) ==
    /\ s # "EXTERNAL_EXECUTION_CONFIRMED"
    /\ canTransition(payout[e], s)
    /\ IF s = "READY_FOR_EXTERNAL_HANDOFF"
       THEN eligibleForPayout(e) /\ markCanonical(e)
       ELSE UNCHANGED canonicality
    /\ Start([op |-> "appendState", subject |-> e, state |-> s, answer |-> NoState])
    /\ UNCHANGED <<onChain, payout, bank>>

appendPayoutState(r) ==
    /\ r.op = "appendState"
    /\ Finish(r)
    /\ payout' = [payout EXCEPT ![r.subject] = r.state]
    /\ UNCHANGED <<onChain, canonicality, bank>>

(***************************************************************************)
(* assertBankPayoutTransition: which payout states accept bank evidence.   *)
(***************************************************************************)
bankEvidenceAllowed(s, b) ==
    \/ s = "AWAITING_EXTERNAL_CONFIRMATION"
    \/ s = "EXTERNAL_EXECUTION_CONFIRMED" /\ b # "PENDING"

(***************************************************************************)
(* upsertBankConfirmation: one transaction records the evidence under the  *)
(* entry's lock.  "Latest" is by the bank's own confirmed_at, so evidence  *)
(* that arrives late may leave the latest row as it was; a delivery with a *)
(* known bank reference is a replay and records nothing.  Confirmed        *)
(* evidence, replayed or new, then reads the payout state without a lock.  *)
(***************************************************************************)
upsertBankConfirmation(e, b) ==
    /\ \/ b \in bank[e].recorded /\ UNCHANGED bank
       \/ /\ bankEvidenceAllowed(payout[e], b)
          /\ \E latest \in {b, bank[e].latest} \ {"NONE"} :
                bank' = [bank EXCEPT ![e] = [latest |-> latest, recorded |-> @.recorded \cup {b}]]
    /\ IF b = "CONFIRMED"
       THEN Start([op |-> "bankComplete", subject |-> e, state |-> NoState, answer |-> NoState])
       ELSE UNCHANGED inflight
    /\ UNCHANGED <<onChain, canonicality, payout>>

(***************************************************************************)
(* The completion of a confirmed payout: getLatestPayoutState, and the     *)
(* insert that follows it.                                                 *)
(***************************************************************************)
bankCompletionRead(r) ==
    /\ r.op = "bankComplete" /\ r.state = NoState
    /\ inflight' =
        IF payout[r.subject] = "AWAITING_EXTERNAL_CONFIRMATION"
        THEN (inflight \ {r}) \cup {[r EXCEPT !.op = "appendState",
                                              !.state = "EXTERNAL_EXECUTION_CONFIRMED"]}
        ELSE inflight \ {r}
    /\ UNCHANGED ledgerVars

(***************************************************************************)
(* A request that fails, times out or dies with its process after its read *)
(* has written nothing.                                                    *)
(***************************************************************************)
Abandon(r) ==
    /\ Finish(r)
    /\ UNCHANGED ledgerVars

LedgerNext ==
    \/ \E e \in Entries :
        \/ Reorganize(e)
        \/ BeginAssessment(e)
        \/ \E s \in PayoutStates : appendStateRead(e, s)
        \/ \E b \in BankReports : upsertBankConfirmation(e, b)
    \/ \E r \in inflight :
        \/ AskChain(r)
        \/ FinishAssessment(r)
        \/ appendPayoutState(r)
        \/ bankCompletionRead(r)
        \/ Abandon(r)

LedgerSpec == LedgerInit /\ inflight = {} /\ [][LedgerNext]_<<ledgerVars, inflight>>

(***************************************************************************)
(* Properties.                                                             *)
(***************************************************************************)


=============================================================================
