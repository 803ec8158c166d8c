----------------------- MODULE EscrowGovernanceProofs -----------------------
(***************************************************************************)
(* Proofs about module EscrowGovernance, for any number of accounts,       *)
(* admins and proposals and any timelock and time to live.                 *)
(***************************************************************************)
EXTENDS EscrowGovernance, SequenceTheorems, FiniteSetTheorems, TLAPS

-----------------------------------------------------------------------------
(* Type correctness                                                        *)

(* A proposal as the propose functions store it has the proposals' type.   *)
LEMMA DraftType ==
    ASSUME NEW Change, NEW change \in Change, NEW who \in Accounts, NEW eta \in Nat,
           GovernanceTypeOK
    PROVE  Draft(change, who, eta) \in ProposalOf(Change)
<1>1. now + GOVERNANCE_PROPOSAL_TTL \in Nat
    BY ParameterAssumption DEF GovernanceTypeOK
<1> QED
    BY <1>1 DEF Draft, ProposalOf, GovernanceTypeOK

(* An approval changes a proposal's approvers and their count only.        *)
LEMMA ApproveType ==
    ASSUME NEW Change, NEW p \in ProposalOf(Change), NEW who \in Accounts
    PROVE  Approve(p, who) \in ProposalOf(Change)
<1> DEFINE q == [p EXCEPT !.hasApproved = @ \cup {who}]
<1>1. q \in ProposalOf(Change) /\ q.approvalCount = p.approvalCount
    BY DEF ProposalOf
<1>2. Approve(p, who) = [q EXCEPT !.approvalCount = @ + 1]
    BY <1>1 DEF Approve
<1> HIDE DEF q
<1> QED
    BY <1>1, <1>2 DEF ProposalOf

(* The proposals of a list are proposals.                                  *)
LEMMA ProposalAt ==
    ASSUME NEW Change, NEW list \in Seq(ProposalOf(Change)), NEW id \in DOMAIN list
    PROVE  /\ id \in 1..Len(list)
           /\ list[id] \in ProposalOf(Change)
BY LenProperties, ElementOfSeq

(* Approving, executing and cancelling keep a list of proposals well       *)
(* formed.                                                                 *)
LEMMA ProposalsUpdated ==
    ASSUME NEW Change, NEW list \in Seq(ProposalOf(Change)), NEW id \in DOMAIN list
    PROVE  /\ \A who \in Accounts :
                 [list EXCEPT ![id] = Approve(@, who)] \in Seq(ProposalOf(Change))
           /\ [list EXCEPT ![id].executed = TRUE] \in Seq(ProposalOf(Change))
           /\ [list EXCEPT ![id].cancelled = TRUE] \in Seq(ProposalOf(Change))
<1> DEFINE p == list[id]
<1>1. id \in 1..Len(list) /\ p \in ProposalOf(Change)
    BY ProposalAt
<1>2. \A who \in Accounts : Approve(p, who) \in ProposalOf(Change)
    BY <1>1, ApproveType
<1>3. [p EXCEPT !.executed = TRUE] \in ProposalOf(Change)
    BY <1>1 DEF ProposalOf
<1>4. [p EXCEPT !.cancelled = TRUE] \in ProposalOf(Change)
    BY <1>1 DEF ProposalOf
<1> HIDE DEF p
<1>5. \A q \in ProposalOf(Change) : [list EXCEPT ![id] = q] \in Seq(ProposalOf(Change))
    BY <1>1, ExceptSeq
<1> QED
    BY <1>2, <1>3, <1>4, <1>5 DEF p

(* Every admin change makes the sets of accounts and the threshold well    *)
(* typed again.                                                            *)
LEMMA AdminChangeType ==
    ASSUME GovernanceTypeOK, NEW c \in AdminChange
    PROVE  /\ (admins \ AdminsRemoved(c)) \cup AdminsAdded(c) \subseteq Accounts
           /\ IsFiniteSet((admins \ AdminsRemoved(c)) \cup AdminsAdded(c))
           /\ (isRelayer \ RelayersRemoved(c)) \cup RelayersAdded(c) \subseteq Accounts
           /\ c.kind = "THRESHOLD" => c.newThreshold \in Nat
<1>1. c.kind \in {"ADD", "REPLACE", "RELAYER_ADD"} => c.newAdmin \in Accounts
    BY DEF AdminChange
<1>2. c.kind = "THRESHOLD" => c.newThreshold \in Nat
    BY ParameterAssumption DEF AdminChange
<1>3. IsFiniteSet(admins \ AdminsRemoved(c))
  <2>1. IsFiniteSet(admins) /\ IsFiniteSet(admins \ {c.currentAdmin})
    BY FS_RemoveElement DEF GovernanceTypeOK
  <2>2. admins \ {} = admins
    OBVIOUS
  <2> QED
    BY <2>1, <2>2 DEF AdminsRemoved
<1>4. IsFiniteSet((admins \ AdminsRemoved(c)) \cup AdminsAdded(c))
  <2> DEFINE kept == admins \ AdminsRemoved(c)
  <2>1. IsFiniteSet(kept) /\ IsFiniteSet(kept \cup {c.newAdmin})
    BY <1>3, FS_AddElement
  <2>2. kept \cup {} = kept
    OBVIOUS
  <2> HIDE DEF kept
  <2>3. IsFiniteSet(kept \cup AdminsAdded(c))
    BY <2>1, <2>2 DEF AdminsAdded
  <2> QED
    BY <2>3 DEF kept
<1>5. AdminsAdded(c) \subseteq Accounts /\ RelayersAdded(c) \subseteq Accounts
    BY <1>1 DEF AdminsAdded, RelayersAdded
<1> QED
    BY <1>2, <1>4, <1>5 DEF GovernanceTypeOK

(* Every step of the authority component keeps its variables well typed.   *)
LEMMA GovernanceTypeStep ==
    ASSUME GovernanceTypeOK, [GovernanceNext]_governanceVars
    PROVE  GovernanceTypeOK'
<1> USE DEF authority, proposals, pauses, recovery
<1>1. CASE Tick
    BY <1>1 DEF Tick, GovernanceTypeOK
<1>2. CASE OracleGovernance
  <2>1. ASSUME NEW who \in admins, NEW account \in Accounts, proposeOracleUpdate(who, account)
        PROVE  GovernanceTypeOK'
    <3> DEFINE change == [newOracle |-> account, emergencyFastTrack |-> ~oracleActive]
               eta == IF ~oracleActive THEN now ELSE now + governanceTimelock
    <3>1. change \in OracleChange
        BY DEF OracleChange, GovernanceTypeOK
    <3>2. eta \in Nat /\ who \in Accounts
        BY ParameterAssumption DEF GovernanceTypeOK
    <3>3. Draft(change, who, eta) \in ProposalOf(OracleChange)
        BY <3>1, <3>2, DraftType
    <3>4. oracleUpdateProposals' = Append(oracleUpdateProposals, Draft(change, who, eta))
        BY <2>1 DEF proposeOracleUpdate
    <3> HIDE DEF change, eta
    <3>5. oracleUpdateProposals' \in Seq(ProposalOf(OracleChange))
        BY <3>3, <3>4, AppendProperties DEF GovernanceTypeOK
    <3> QED
        BY <2>1, <3>5 DEF proposeOracleUpdate, GovernanceTypeOK
  <2>2. ASSUME NEW id \in DOMAIN oracleUpdateProposals, NEW who \in admins,
               approveOracleUpdate(who, id)
        PROVE  GovernanceTypeOK'
    <3>1. oracleUpdateProposals' \in Seq(ProposalOf(OracleChange))
        BY <2>2, ProposalsUpdated DEF approveOracleUpdate, GovernanceTypeOK
    <3> QED
        BY <2>2, <3>1 DEF approveOracleUpdate, GovernanceTypeOK
  <2>3. ASSUME NEW id \in DOMAIN oracleUpdateProposals, executeOracleUpdate(id)
        PROVE  GovernanceTypeOK'
    <3>1. oracleUpdateProposals' \in Seq(ProposalOf(OracleChange))
        BY <2>3, ProposalsUpdated DEF executeOracleUpdate, GovernanceTypeOK
    <3>2. oracleUpdateProposals[id].change.newOracle \in Accounts
      <4>1. oracleUpdateProposals[id] \in ProposalOf(OracleChange)
        BY ProposalAt DEF GovernanceTypeOK
      <4> QED
        BY <4>1 DEF ProposalOf, OracleChange
    <3> QED
        BY <2>3, <3>1, <3>2 DEF executeOracleUpdate, advanceGovernanceEpoch, GovernanceTypeOK
  <2>4. ASSUME NEW id \in DOMAIN oracleUpdateProposals, cancelExpiredOracleUpdateProposal(id)
        PROVE  GovernanceTypeOK'
    <3>1. oracleUpdateProposals' \in Seq(ProposalOf(OracleChange))
        BY <2>4, ProposalsUpdated DEF cancelExpiredOracleUpdateProposal, GovernanceTypeOK
    <3> QED
        BY <2>4, <3>1 DEF cancelExpiredOracleUpdateProposal, GovernanceTypeOK
  <2> QED
    BY <1>2, <2>1, <2>2, <2>3, <2>4 DEF OracleGovernance
<1>3. CASE AdminGovernance
  <2>1. ASSUME NEW who \in admins, NEW change \in AdminChange, proposeAdminChange(who, change)
        PROVE  GovernanceTypeOK'
    <3>1. now + governanceTimelock \in Nat /\ who \in Accounts
        BY ParameterAssumption DEF GovernanceTypeOK
    <3>2. adminChangeProposals' \in Seq(ProposalOf(AdminChange))
        BY <2>1, <3>1, DraftType, AppendProperties DEF proposeAdminChange, GovernanceTypeOK
    <3> QED
        BY <2>1, <3>2 DEF proposeAdminChange, GovernanceTypeOK
  <2>2. ASSUME NEW id \in DOMAIN adminChangeProposals, NEW who \in admins,
               approveAdminChange(who, id)
        PROVE  GovernanceTypeOK'
    <3>1. adminChangeProposals' \in Seq(ProposalOf(AdminChange))
        BY <2>2, ProposalsUpdated DEF approveAdminChange, GovernanceTypeOK
    <3> QED
        BY <2>2, <3>1 DEF approveAdminChange, GovernanceTypeOK
  <2>3. ASSUME NEW id \in DOMAIN adminChangeProposals, executeAdminChange(id)
        PROVE  GovernanceTypeOK'
    <3>1. adminChangeProposals' \in Seq(ProposalOf(AdminChange))
        BY <2>3, ProposalsUpdated DEF executeAdminChange, GovernanceTypeOK
    <3> DEFINE c == adminChangeProposals[id].change
    <3>2. c \in AdminChange
      <4>1. adminChangeProposals[id] \in ProposalOf(AdminChange)
        BY ProposalAt DEF GovernanceTypeOK
      <4> QED
        BY <4>1 DEF ProposalOf
    <3>3. /\ admins' = (admins \ AdminsRemoved(c)) \cup AdminsAdded(c)
          /\ requiredApprovals' =
               IF c.kind = "THRESHOLD" THEN c.newThreshold ELSE requiredApprovals
          /\ isRelayer' = (isRelayer \ RelayersRemoved(c)) \cup RelayersAdded(c)
        BY <2>3 DEF executeAdminChange
    <3> HIDE DEF c
    <3>4. /\ admins' \subseteq Accounts /\ IsFiniteSet(admins')
          /\ requiredApprovals' \in Nat
          /\ isRelayer' \subseteq Accounts
        BY <3>2, <3>3, AdminChangeType DEF GovernanceTypeOK
    <3> QED
        BY <2>3, <3>1, <3>4 DEF executeAdminChange, advanceGovernanceEpoch, GovernanceTypeOK
  <2>4. ASSUME NEW id \in DOMAIN adminChangeProposals, cancelAdminChangeProposal(id)
        PROVE  GovernanceTypeOK'
    <3>1. adminChangeProposals' \in Seq(ProposalOf(AdminChange))
        BY <2>4, ProposalsUpdated DEF cancelAdminChangeProposal, GovernanceTypeOK
    <3> QED
        BY <2>4, <3>1 DEF cancelAdminChangeProposal, GovernanceTypeOK
  <2> QED
    BY <1>3, <2>1, <2>2, <2>3, <2>4 DEF AdminGovernance
<1>4. CASE PayoutGovernance
  <2>1. ASSUME NEW who \in admins, NEW account \in Accounts,
               proposeTreasuryPayoutAddressUpdate(who, account)
        PROVE  GovernanceTypeOK'
    <3>1. now + governanceTimelock \in Nat /\ who \in Accounts
        BY ParameterAssumption DEF GovernanceTypeOK
    <3>2. [newPayoutReceiver |-> account] \in PayoutChange
        BY DEF PayoutChange
    <3>3. Draft([newPayoutReceiver |-> account], who, now + governanceTimelock)
            \in ProposalOf(PayoutChange)
        BY <3>1, <3>2, DraftType
    <3>4. treasuryPayoutAddressUpdateProposals' \in Seq(ProposalOf(PayoutChange))
        BY <2>1, <3>3, AppendProperties
        DEF proposeTreasuryPayoutAddressUpdate, GovernanceTypeOK
    <3> QED
        BY <2>1, <3>4 DEF proposeTreasuryPayoutAddressUpdate, GovernanceTypeOK
  <2>2. ASSUME NEW id \in DOMAIN treasuryPayoutAddressUpdateProposals, NEW who \in admins,
               approveTreasuryPayoutAddressUpdate(who, id)
        PROVE  GovernanceTypeOK'
    <3>1. treasuryPayoutAddressUpdateProposals' \in Seq(ProposalOf(PayoutChange))
        BY <2>2, ProposalsUpdated DEF approveTreasuryPayoutAddressUpdate, GovernanceTypeOK
    <3> QED
        BY <2>2, <3>1 DEF approveTreasuryPayoutAddressUpdate, GovernanceTypeOK
  <2>3. ASSUME NEW id \in DOMAIN treasuryPayoutAddressUpdateProposals,
               executeTreasuryPayoutAddressUpdate(id)
        PROVE  GovernanceTypeOK'
    <3>1. treasuryPayoutAddressUpdateProposals' \in Seq(ProposalOf(PayoutChange))
        BY <2>3, ProposalsUpdated DEF executeTreasuryPayoutAddressUpdate, GovernanceTypeOK
    <3>2. treasuryPayoutAddressUpdateProposals[id].change.newPayoutReceiver \in Accounts
      <4>1. treasuryPayoutAddressUpdateProposals[id] \in ProposalOf(PayoutChange)
        BY ProposalAt DEF GovernanceTypeOK
      <4> QED
        BY <4>1 DEF ProposalOf, PayoutChange
    <3> QED
        BY <2>3, <3>1, <3>2
        DEF executeTreasuryPayoutAddressUpdate, advanceGovernanceEpoch, GovernanceTypeOK
  <2>4. ASSUME NEW id \in DOMAIN treasuryPayoutAddressUpdateProposals,
               cancelExpiredTreasuryPayoutAddressUpdateProposal(id)
        PROVE  GovernanceTypeOK'
    <3>1. treasuryPayoutAddressUpdateProposals' \in Seq(ProposalOf(PayoutChange))
        BY <2>4, ProposalsUpdated
        DEF cancelExpiredTreasuryPayoutAddressUpdateProposal, GovernanceTypeOK
    <3> QED
        BY <2>4, <3>1 DEF cancelExpiredTreasuryPayoutAddressUpdateProposal, GovernanceTypeOK
  <2> QED
    BY <1>4, <2>1, <2>2, <2>3, <2>4 DEF PayoutGovernance
<1>5. CASE EmergencyControl
  <2> PICK who \in admins :
        \/ pause(who) \/ pauseClaims(who) \/ disableOracleEmergency(who)
        \/ \E tradeId \in TradeIds : pauseTrade(who, tradeId)
        \/ \E target \in UnpauseTargets : proposeUnpause(who, target[1], target[2])
        \/ approveUnpause(who) \/ approveAndExecuteUnpause(who)
        \/ cancelUnpauseProposal(who)
    BY <1>5 DEF EmergencyControl
  <2>1. CASE pause(who) \/ pauseClaims(who) \/ disableOracleEmergency(who)
    BY <2>1 DEF pause, pauseClaims, disableOracleEmergency, GovernanceTypeOK
  <2>2. ASSUME NEW tradeId \in TradeIds, pauseTrade(who, tradeId) PROVE GovernanceTypeOK'
    <3>1. tradeId \in Nat
        BY ParameterAssumption DEF TradeIds
    <3> QED
        BY <2>2, <3>1 DEF pauseTrade, GovernanceTypeOK
  <2>3. ASSUME NEW target \in UnpauseTargets, proposeUnpause(who, target[1], target[2])
        PROVE  GovernanceTypeOK'
    <3>1. target[1] \in PauseScope /\ target[2] \in Nat
        BY ParameterAssumption DEF UnpauseTargets, TradeIds, PauseScope
    <3>2. unpauseProposal' \in UnpauseProposal
        BY <2>3, <3>1 DEF proposeUnpause, UnpauseProposal, GovernanceTypeOK
    <3> QED
        BY <2>3, <3>2 DEF proposeUnpause, ClearedUnpauseApprovals, GovernanceTypeOK
  <2>4. CASE approveUnpause(who)
    <3>1. unpauseProposal' \in UnpauseProposal
      <4>1. unpauseProposal \in UnpauseProposal
        BY DEF GovernanceTypeOK
      <4>2. [unpauseProposal EXCEPT !.approvalCount = @ + 1] \in UnpauseProposal
        BY <4>1 DEF UnpauseProposal
      <4> QED
        BY <2>4, <4>2 DEF approveUnpause
    <3> QED
        BY <2>4, <3>1 DEF approveUnpause, GovernanceTypeOK
  <2>5. CASE approveAndExecuteUnpause(who)
    <3> DEFINE q == [unpauseProposal EXCEPT !.approvalCount = @ + 1]
    <3>1. q \in UnpauseProposal
      <4>1. unpauseProposal \in UnpauseProposal
        BY DEF GovernanceTypeOK
      <4> QED
        BY <4>1 DEF UnpauseProposal
    <3>2. unpauseProposal' = [q EXCEPT !.executed = TRUE]
        BY <2>5 DEF approveAndExecuteUnpause
    <3> HIDE DEF q
    <3>3. unpauseProposal' \in UnpauseProposal
        BY <3>1, <3>2 DEF UnpauseProposal
    <3> QED
        BY <2>5, <3>3 DEF approveAndExecuteUnpause, ClearedUnpauseApprovals, GovernanceTypeOK
  <2>6. CASE cancelUnpauseProposal(who)
    BY <2>6 DEF cancelUnpauseProposal, ClearedUnpauseApprovals, NoUnpauseProposal,
                UnpauseProposal, PauseScope, GovernanceTypeOK
  <2> QED
    BY <2>1, <2>2, <2>3, <2>4, <2>5, <2>6
<1>6. CASE TradeStored
    BY <1>6 DEF TradeStored, GovernanceTypeOK
<1>7. CASE UNCHANGED governanceVars
    BY <1>7 DEF governanceVars, GovernanceTypeOK
<1> QED
    BY <1>1, <1>2, <1>3, <1>4, <1>5, <1>6, <1>7 DEF GovernanceNext, GovernanceStep

(* The constructor leaves every variable well typed.                       *)
LEMMA GovernanceTypeInit ==
    ASSUME GovernanceInit
    PROVE  GovernanceTypeOK
<1>1. unpauseProposal \in UnpauseProposal
    BY DEF GovernanceInit, NoUnpauseProposal, UnpauseProposal, PauseScope
<1>2. /\ oracleUpdateProposals \in Seq(ProposalOf(OracleChange))
        /\ adminChangeProposals \in Seq(ProposalOf(AdminChange))
        /\ treasuryPayoutAddressUpdateProposals \in Seq(ProposalOf(PayoutChange))
    BY EmptySeq DEF GovernanceInit
<1>3. /\ admins \subseteq Accounts /\ IsFiniteSet(admins)
        /\ isRelayer \subseteq Accounts
        /\ oracleAddress \in Accounts /\ treasuryPayoutAddress \in Accounts
        /\ requiredApprovals \in Nat
    BY ConstructorAssumption DEF GovernanceInit
<1>4. /\ now \in Nat /\ now > 0 /\ tradeCounter \in Nat /\ governanceEpoch \in Nat
        /\ tradePaused \subseteq Nat /\ unpauseHasApproved \subseteq Accounts
    BY DEF GovernanceInit
<1>5. /\ oracleActive \in BOOLEAN /\ paused \in BOOLEAN /\ claimsPaused \in BOOLEAN
        /\ hasActiveUnpauseProposal \in BOOLEAN
    BY DEF GovernanceInit
<1> QED
    BY <1>1, <1>2, <1>3, <1>4, <1>5 DEF GovernanceTypeOK

(* Every variable of the authority component always has the type of the    *)
(* contract's storage.                                                     *)
THEOREM GovernanceTypeCorrect == GovernanceSpec => []GovernanceTypeOK
<1> QED
    BY GovernanceTypeInit, GovernanceTypeStep, PTL DEF GovernanceSpec

-----------------------------------------------------------------------------
(* How the lists of proposals evolve                                       *)

(* A list of proposals only grows, by proposals of the current epoch, and  *)
(* what a proposal would do, and since when, never changes.                *)
EvolvesTo(before, after) ==
    /\ DOMAIN before \subseteq DOMAIN after
    /\ \A id \in DOMAIN before :
          /\ after[id].change = before[id].change
          /\ after[id].epoch = before[id].epoch
          /\ after[id].eta = before[id].eta
          /\ after[id].createdAt = before[id].createdAt
    /\ \A id \in DOMAIN after \ DOMAIN before : after[id].epoch = governanceEpoch

(* Appending a proposal of this epoch, which is what proposing does, makes *)
(* a list evolve.                                                          *)
LEMMA AppendEvolves ==
    ASSUME NEW Change, NEW list \in Seq(ProposalOf(Change)), NEW p \in ProposalOf(Change),
           p.epoch = governanceEpoch
    PROVE  /\ EvolvesTo(list, Append(list, p))
           /\ \A id \in DOMAIN list : Append(list, p)[id] = list[id]
           /\ \A id \in DOMAIN Append(list, p) \ DOMAIN list : Append(list, p)[id] = p
<1> DEFINE longer == Append(list, p)
<1>1. /\ longer \in Seq(ProposalOf(Change))
      /\ Len(longer) = Len(list) + 1
      /\ \A i \in 1..Len(list) : longer[i] = list[i]
      /\ longer[Len(list) + 1] = p
    BY AppendProperties
<1>2. DOMAIN list = 1..Len(list) /\ Len(list) \in Nat
    BY LenProperties
<1>3. DOMAIN longer = 1..Len(longer)
    BY <1>1, LenProperties
<1> HIDE DEF longer
<1>4. \A id \in DOMAIN longer \ DOMAIN list : id = Len(list) + 1
    BY <1>1, <1>2, <1>3
<1>5. DOMAIN list \subseteq DOMAIN longer
    BY <1>1, <1>2, <1>3
<1>6. EvolvesTo(list, longer)
    BY <1>1, <1>2, <1>4, <1>5 DEF EvolvesTo
<1> QED
    BY <1>1, <1>2, <1>4, <1>6 DEF longer

(* Approving, executing and cancelling make a list evolve without growing. *)
LEMMA UpdateEvolves ==
    ASSUME NEW Change, NEW list \in Seq(ProposalOf(Change)), NEW id \in DOMAIN list,
           NEW after,
           \/ \E who \in Accounts : after = [list EXCEPT ![id] = Approve(@, who)]
           \/ after = [list EXCEPT ![id].executed = TRUE]
           \/ after = [list EXCEPT ![id].cancelled = TRUE]
    PROVE  EvolvesTo(list, after) /\ DOMAIN after = DOMAIN list
<1>1. list[id] \in ProposalOf(Change)
    BY ProposalAt
<1>2. PICK q : /\ after = [list EXCEPT ![id] = q]
               /\ q.change = list[id].change /\ q.epoch = list[id].epoch
               /\ q.eta = list[id].eta /\ q.createdAt = list[id].createdAt
  <2>1. ASSUME NEW who \in Accounts, after = [list EXCEPT ![id] = Approve(@, who)]
        PROVE  \E q : /\ after = [list EXCEPT ![id] = q]
                      /\ q.change = list[id].change /\ q.epoch = list[id].epoch
                      /\ q.eta = list[id].eta /\ q.createdAt = list[id].createdAt
    <3> WITNESS Approve(list[id], who)
    <3> QED
        BY <1>1, <2>1 DEF Approve, ProposalOf
  <2>2. CASE after = [list EXCEPT ![id].executed = TRUE]
    <3> WITNESS [list[id] EXCEPT !.executed = TRUE]
    <3> QED
        BY <1>1, <2>2 DEF ProposalOf
  <2>3. CASE after = [list EXCEPT ![id].cancelled = TRUE]
    <3> WITNESS [list[id] EXCEPT !.cancelled = TRUE]
    <3> QED
        BY <1>1, <2>3 DEF ProposalOf
  <2> QED
    BY <2>1, <2>2, <2>3
<1>3. DOMAIN after = DOMAIN list
    BY <1>2
<1>4. \A j \in DOMAIN list : after[j] = IF j = id THEN q ELSE list[j]
    BY <1>2
<1> QED
    BY <1>2, <1>3, <1>4 DEF EvolvesTo

(* The steps of the component by what they do to roles and proposals.      *)
roles == <<admins, oracleAddress, treasuryPayoutAddress, isRelayer, governanceEpoch>>

(* Neither roles nor proposals change when time passes, when a trade is    *)
(* stored, or when a pause is set or lifted.                               *)
LEMMA QuietStep ==
    ASSUME Tick \/ EmergencyControl \/ TradeStored \/ UNCHANGED governanceVars
    PROVE  UNCHANGED <<roles, requiredApprovals, proposals>>
BY DEF Tick, EmergencyControl, TradeStored, governanceVars, authority, proposals, pauses,
       recovery, roles, pause, pauseClaims, pauseTrade, disableOracleEmergency,
       proposeUnpause, approveUnpause, approveAndExecuteUnpause, cancelUnpauseProposal

(* The proposals an oracle step works on: a new one for a free account, an *)
(* old one approved or cancelled, or an old one carried out.               *)
LEMMA OracleStep ==
    ASSUME GovernanceTypeOK, OracleGovernance
    PROVE  /\ EvolvesTo(oracleUpdateProposals, oracleUpdateProposals')
           /\ UNCHANGED <<adminChangeProposals, treasuryPayoutAddressUpdateProposals,
                          requiredApprovals, pauses, recovery>>
           /\ \/ /\ UNCHANGED <<roles, oracleActive>>
                 /\ \A id \in DOMAIN oracleUpdateProposals' \ DOMAIN oracleUpdateProposals :
                       LET c == oracleUpdateProposals'[id].change IN
                       /\ requireServiceRoleAvailable(c.newOracle)
                       /\ c.emergencyFastTrack => ~oracleActive
              \/ \E id \in DOMAIN oracleUpdateProposals :
                    /\ Executable(oracleUpdateProposals[id])
                    /\ oracleUpdateProposals' =
                         [oracleUpdateProposals EXCEPT ![id].executed = TRUE]
                    /\ oracleAddress' = oracleUpdateProposals[id].change.newOracle
                    /\ oracleActive' = TRUE
                    /\ governanceEpoch' = governanceEpoch + 1
                    /\ UNCHANGED <<admins, treasuryPayoutAddress, isRelayer>>
                    /\ DOMAIN oracleUpdateProposals' = DOMAIN oracleUpdateProposals
<1> USE DEF authority, pauses, recovery
<1>1. ASSUME NEW who \in admins, NEW account \in Accounts, proposeOracleUpdate(who, account)
      PROVE  /\ EvolvesTo(oracleUpdateProposals, oracleUpdateProposals')
             /\ UNCHANGED <<roles, oracleActive>>
             /\ \A id \in DOMAIN oracleUpdateProposals' \ DOMAIN oracleUpdateProposals :
                   LET c == oracleUpdateProposals'[id].change IN
                   /\ requireServiceRoleAvailable(c.newOracle)
                   /\ c.emergencyFastTrack => ~oracleActive
  <2> DEFINE change == [newOracle |-> account, emergencyFastTrack |-> ~oracleActive]
             eta == IF ~oracleActive THEN now ELSE now + governanceTimelock
             p == Draft(change, who, eta)
  <2>1. change \in OracleChange /\ eta \in Nat /\ who \in Accounts
    BY ParameterAssumption DEF OracleChange, GovernanceTypeOK
  <2>2. p \in ProposalOf(OracleChange)
    BY <2>1, DraftType
  <2>3. p.epoch = governanceEpoch /\ p.change = change
    BY DEF Draft
  <2>4. oracleUpdateProposals' = Append(oracleUpdateProposals, p)
    BY <1>1 DEF proposeOracleUpdate
  <2> HIDE DEF p
  <2>5. /\ EvolvesTo(oracleUpdateProposals, oracleUpdateProposals')
        /\ \A id \in DOMAIN oracleUpdateProposals' \ DOMAIN oracleUpdateProposals :
              oracleUpdateProposals'[id] = p
    BY <2>2, <2>3, <2>4, AppendEvolves DEF GovernanceTypeOK
  <2>6. requireServiceRoleAvailable(account) /\ UNCHANGED <<roles, oracleActive>>
    BY <1>1 DEF proposeOracleUpdate, roles
  <2>7. /\ p.change.newOracle = account
        /\ p.change.emergencyFastTrack => ~oracleActive
    <3>1. change.newOracle = account
        OBVIOUS
    <3>2. change.emergencyFastTrack = ~oracleActive
        OBVIOUS
    <3>3. p.change = change
        BY <2>3
    <3> HIDE DEF change
    <3> QED
        BY <3>1, <3>2, <3>3
  <2> QED
    BY <2>5, <2>6, <2>7
<1>2. ASSUME NEW id \in DOMAIN oracleUpdateProposals,
             \/ \E who \in admins : approveOracleUpdate(who, id)
             \/ cancelExpiredOracleUpdateProposal(id)
      PROVE  /\ EvolvesTo(oracleUpdateProposals, oracleUpdateProposals')
             /\ DOMAIN oracleUpdateProposals' = DOMAIN oracleUpdateProposals
             /\ UNCHANGED <<roles, oracleActive>>
  <2>1. \/ \E who \in Accounts :
              oracleUpdateProposals' = [oracleUpdateProposals EXCEPT ![id] = Approve(@, who)]
        \/ oracleUpdateProposals' = [oracleUpdateProposals EXCEPT ![id].cancelled = TRUE]
    BY <1>2 DEF approveOracleUpdate, cancelExpiredOracleUpdateProposal, GovernanceTypeOK
  <2>2. /\ EvolvesTo(oracleUpdateProposals, oracleUpdateProposals')
        /\ DOMAIN oracleUpdateProposals' = DOMAIN oracleUpdateProposals
    BY <2>1, UpdateEvolves DEF GovernanceTypeOK
  <2> QED
    BY <1>2, <2>2 DEF approveOracleUpdate, cancelExpiredOracleUpdateProposal, roles
<1>3. ASSUME NEW id \in DOMAIN oracleUpdateProposals, executeOracleUpdate(id)
      PROVE  /\ EvolvesTo(oracleUpdateProposals, oracleUpdateProposals')
             /\ DOMAIN oracleUpdateProposals' = DOMAIN oracleUpdateProposals
  <2>1. oracleUpdateProposals' = [oracleUpdateProposals EXCEPT ![id].executed = TRUE]
    BY <1>3 DEF executeOracleUpdate
  <2> QED
    BY <2>1, UpdateEvolves DEF GovernanceTypeOK
<1>4. UNCHANGED <<adminChangeProposals, treasuryPayoutAddressUpdateProposals,
                  requiredApprovals, pauses, recovery>>
    BY DEF OracleGovernance, proposeOracleUpdate, approveOracleUpdate, executeOracleUpdate,
           cancelExpiredOracleUpdateProposal
<1>5. CASE \E who \in admins, account \in Accounts : proposeOracleUpdate(who, account)
    BY <1>1, <1>4, <1>5
<1>6. CASE \E id \in DOMAIN oracleUpdateProposals :
              \/ \E who \in admins : approveOracleUpdate(who, id)
              \/ cancelExpiredOracleUpdateProposal(id)
    BY <1>2, <1>4, <1>6
<1>7. CASE \E id \in DOMAIN oracleUpdateProposals : executeOracleUpdate(id)
    BY <1>3, <1>4, <1>7 DEF executeOracleUpdate, advanceGovernanceEpoch
<1> QED
    BY <1>5, <1>6, <1>7 DEF OracleGovernance

(* An admin-change step adds, approves or cancels a proposal, or carries   *)
(* one out.                                                                *)
LEMMA AdminStep ==
    ASSUME GovernanceTypeOK, AdminGovernance
    PROVE  /\ EvolvesTo(adminChangeProposals, adminChangeProposals')
           /\ UNCHANGED <<oracleUpdateProposals, treasuryPayoutAddressUpdateProposals,
                          oracleAddress, oracleActive, treasuryPayoutAddress, pauses>>
           /\ \/ UNCHANGED <<roles, requiredApprovals, recovery>>
              \/ \E id \in DOMAIN adminChangeProposals : executeAdminChange(id)
<1> USE DEF authority, pauses, recovery
<1>1. ASSUME NEW who \in admins, NEW change \in AdminChange, proposeAdminChange(who, change)
      PROVE  EvolvesTo(adminChangeProposals, adminChangeProposals')
  <2> DEFINE p == Draft(change, who, now + governanceTimelock)
  <2>1. now + governanceTimelock \in Nat /\ who \in Accounts
    BY ParameterAssumption DEF GovernanceTypeOK
  <2>2. p \in ProposalOf(AdminChange)
    BY <2>1, DraftType
  <2>3. p.epoch = governanceEpoch
    BY DEF Draft
  <2>4. adminChangeProposals' = Append(adminChangeProposals, p)
    BY <1>1 DEF proposeAdminChange
  <2> HIDE DEF p
  <2> QED
    BY <2>2, <2>3, <2>4, AppendEvolves DEF GovernanceTypeOK
<1>2. ASSUME NEW id \in DOMAIN adminChangeProposals,
             \/ \E who \in admins : approveAdminChange(who, id)
             \/ executeAdminChange(id)
             \/ cancelAdminChangeProposal(id)
      PROVE  EvolvesTo(adminChangeProposals, adminChangeProposals')
  <2>1. \/ \E who \in Accounts :
              adminChangeProposals' = [adminChangeProposals EXCEPT ![id] = Approve(@, who)]
        \/ adminChangeProposals' = [adminChangeProposals EXCEPT ![id].executed = TRUE]
        \/ adminChangeProposals' = [adminChangeProposals EXCEPT ![id].cancelled = TRUE]
    BY <1>2 DEF approveAdminChange, executeAdminChange, cancelAdminChangeProposal,
                GovernanceTypeOK
  <2> QED
    BY <2>1, UpdateEvolves DEF GovernanceTypeOK
<1>3. EvolvesTo(adminChangeProposals, adminChangeProposals')
    BY <1>1, <1>2 DEF AdminGovernance
<1>4. CASE \E id \in DOMAIN adminChangeProposals : executeAdminChange(id)
    BY <1>3, <1>4 DEF executeAdminChange
<1>5. CASE ~ \E id \in DOMAIN adminChangeProposals : executeAdminChange(id)
    BY <1>3, <1>5 DEF AdminGovernance, proposeAdminChange, approveAdminChange,
                      cancelAdminChangeProposal, roles
<1> QED
    BY <1>4, <1>5

(* A payout-receiver step adds a proposal for a free account, approves or  *)
(* cancels one, or carries one out.                                        *)
LEMMA PayoutStep ==
    ASSUME GovernanceTypeOK, PayoutGovernance
    PROVE  /\ EvolvesTo(treasuryPayoutAddressUpdateProposals,
                        treasuryPayoutAddressUpdateProposals')
           /\ UNCHANGED <<oracleUpdateProposals, adminChangeProposals, admins,
                          requiredApprovals, oracleAddress, oracleActive, isRelayer,
                          pauses, recovery>>
           /\ \/ /\ UNCHANGED roles
                 /\ \A id \in DOMAIN treasuryPayoutAddressUpdateProposals'
                                \ DOMAIN treasuryPayoutAddressUpdateProposals :
                       requireServiceRoleAvailable(
                          treasuryPayoutAddressUpdateProposals'[id].change.newPayoutReceiver)
              \/ \E id \in DOMAIN treasuryPayoutAddressUpdateProposals :
                    /\ executeTreasuryPayoutAddressUpdate(id)
                    /\ DOMAIN treasuryPayoutAddressUpdateProposals'
                         = DOMAIN treasuryPayoutAddressUpdateProposals
<1> USE DEF authority, pauses, recovery
<1> DEFINE list == treasuryPayoutAddressUpdateProposals
<1>1. ASSUME NEW who \in admins, NEW account \in Accounts,
             proposeTreasuryPayoutAddressUpdate(who, account)
      PROVE  /\ EvolvesTo(list, list')
             /\ UNCHANGED roles
             /\ \A id \in DOMAIN list' \ DOMAIN list :
                   requireServiceRoleAvailable(list'[id].change.newPayoutReceiver)
  <2> DEFINE change == [newPayoutReceiver |-> account]
             p == Draft(change, who, now + governanceTimelock)
  <2>1. change \in PayoutChange /\ now + governanceTimelock \in Nat /\ who \in Accounts
    BY ParameterAssumption DEF PayoutChange, GovernanceTypeOK
  <2>2. p \in ProposalOf(PayoutChange)
    BY <2>1, DraftType
  <2>3. p.epoch = governanceEpoch /\ p.change.newPayoutReceiver = account
    BY DEF Draft
  <2>4. list' = Append(list, p)
    BY <1>1 DEF proposeTreasuryPayoutAddressUpdate
  <2>5. requireServiceRoleAvailable(account) /\ UNCHANGED roles
    BY <1>1 DEF proposeTreasuryPayoutAddressUpdate, roles
  <2> HIDE DEF p
  <2>6. /\ EvolvesTo(list, list')
        /\ \A id \in DOMAIN list' \ DOMAIN list : list'[id] = p
    BY <2>2, <2>3, <2>4, AppendEvolves DEF GovernanceTypeOK
  <2> QED
    BY <2>3, <2>5, <2>6
<1>2. ASSUME NEW id \in DOMAIN list,
             \/ \E who \in admins : approveTreasuryPayoutAddressUpdate(who, id)
             \/ executeTreasuryPayoutAddressUpdate(id)
             \/ cancelExpiredTreasuryPayoutAddressUpdateProposal(id)
      PROVE  EvolvesTo(list, list') /\ DOMAIN list' = DOMAIN list
  <2>1. \/ \E who \in Accounts : list' = [list EXCEPT ![id] = Approve(@, who)]
        \/ list' = [list EXCEPT ![id].executed = TRUE]
        \/ list' = [list EXCEPT ![id].cancelled = TRUE]
    BY <1>2 DEF approveTreasuryPayoutAddressUpdate, executeTreasuryPayoutAddressUpdate,
                cancelExpiredTreasuryPayoutAddressUpdateProposal, GovernanceTypeOK
  <2> QED
    BY <2>1, UpdateEvolves DEF GovernanceTypeOK
<1>3. UNCHANGED <<oracleUpdateProposals, adminChangeProposals, admins, requiredApprovals,
                  oracleAddress, oracleActive, isRelayer, pauses, recovery>>
    BY DEF PayoutGovernance, proposeTreasuryPayoutAddressUpdate,
           approveTreasuryPayoutAddressUpdate, executeTreasuryPayoutAddressUpdate,
           cancelExpiredTreasuryPayoutAddressUpdateProposal
<1>4. CASE \E who \in admins, account \in Accounts :
              proposeTreasuryPayoutAddressUpdate(who, account)
    BY <1>1, <1>3, <1>4
<1>5. CASE \E id \in DOMAIN list :
              \/ \E who \in admins : approveTreasuryPayoutAddressUpdate(who, id)
              \/ cancelExpiredTreasuryPayoutAddressUpdateProposal(id)
    BY <1>2, <1>3, <1>5 DEF approveTreasuryPayoutAddressUpdate,
                            cancelExpiredTreasuryPayoutAddressUpdateProposal, roles
<1>6. CASE \E id \in DOMAIN list : executeTreasuryPayoutAddressUpdate(id)
    BY <1>2, <1>3, <1>6
<1> QED
    BY <1>4, <1>5, <1>6 DEF PayoutGovernance

-----------------------------------------------------------------------------
(* Role separation                                                         *)

(* No proposal is from a future epoch.                                     *)
EpochsSeen ==
    /\ \A id \in DOMAIN oracleUpdateProposals :
          oracleUpdateProposals[id].epoch <= governanceEpoch
    /\ \A id \in DOMAIN adminChangeProposals :
          adminChangeProposals[id].epoch <= governanceEpoch
    /\ \A id \in DOMAIN treasuryPayoutAddressUpdateProposals :
          treasuryPayoutAddressUpdateProposals[id].epoch <= governanceEpoch

(* The account a proposal of the current epoch offers a role to has none.  *)
(* executeOracleUpdate and executeTreasuryPayoutAddressUpdate do not check *)
(* this again; it holds because every change of roles starts a new epoch.  *)
OfferedRolesFree ==
    /\ \A id \in DOMAIN oracleUpdateProposals :
          oracleUpdateProposals[id].epoch = governanceEpoch =>
             requireServiceRoleAvailable(oracleUpdateProposals[id].change.newOracle)
    /\ \A id \in DOMAIN treasuryPayoutAddressUpdateProposals :
          treasuryPayoutAddressUpdateProposals[id].epoch = governanceEpoch =>
             requireServiceRoleAvailable(
                treasuryPayoutAddressUpdateProposals[id].change.newPayoutReceiver)

(* The inductive invariant behind role separation.                         *)
RoleInv ==
    /\ GovernanceTypeOK
    /\ EpochsSeen
    /\ OfferedRolesFree
    /\ RoleSeparation
    /\ FastTrackOnlyWhileDisabled

(* However a list evolves, no proposal of it is from a future epoch.       *)
LEMMA EpochsBounded ==
    ASSUME NEW Change, NEW before \in Seq(ProposalOf(Change)), NEW after,
           EvolvesTo(before, after), governanceEpoch \in Nat,
           \A id \in DOMAIN before : before[id].epoch <= governanceEpoch
    PROVE  \A id \in DOMAIN after :
              after[id].epoch \in Nat /\ after[id].epoch <= governanceEpoch
<1>1. \A id \in DOMAIN before : before[id].epoch \in Nat
  <2>1. \A id \in DOMAIN before : before[id] \in ProposalOf(Change)
    BY ProposalAt
  <2> QED
    BY <2>1 DEF ProposalOf
<1> QED
    BY <1>1 DEF EvolvesTo

(* The lists evolve with every step.                                       *)
LEMMA Evolution ==
    ASSUME GovernanceTypeOK, [GovernanceNext]_governanceVars
    PROVE  /\ EvolvesTo(oracleUpdateProposals, oracleUpdateProposals')
           /\ EvolvesTo(adminChangeProposals, adminChangeProposals')
           /\ EvolvesTo(treasuryPayoutAddressUpdateProposals,
                        treasuryPayoutAddressUpdateProposals')
           /\ \/ governanceEpoch' = governanceEpoch + 1
              \/ UNCHANGED roles
<1>1. \A list : EvolvesTo(list, list)
    BY DEF EvolvesTo
<1>2. CASE OracleGovernance
    BY <1>1, <1>2, OracleStep
<1>3. CASE AdminGovernance
    BY <1>1, <1>3, AdminStep DEF executeAdminChange, advanceGovernanceEpoch
<1>4. CASE PayoutGovernance
    BY <1>1, <1>4, PayoutStep DEF executeTreasuryPayoutAddressUpdate, advanceGovernanceEpoch
<1>5. CASE Tick \/ EmergencyControl \/ TradeStored \/ UNCHANGED governanceVars
    BY <1>1, <1>5, QuietStep DEF proposals
<1> QED
    BY <1>2, <1>3, <1>4, <1>5 DEF GovernanceNext, GovernanceStep

(* A step never leaves a proposal of a future epoch, and a step that       *)
(* starts a new epoch leaves every proposal behind.                        *)
LEMMA EpochStep ==
    ASSUME GovernanceTypeOK, EpochsSeen, [GovernanceNext]_governanceVars
    PROVE  /\ EpochsSeen'
           /\ governanceEpoch' # governanceEpoch =>
                /\ \A id \in DOMAIN oracleUpdateProposals' :
                      oracleUpdateProposals'[id].epoch # governanceEpoch'
                /\ \A id \in DOMAIN adminChangeProposals' :
                      adminChangeProposals'[id].epoch # governanceEpoch'
                /\ \A id \in DOMAIN treasuryPayoutAddressUpdateProposals' :
                      treasuryPayoutAddressUpdateProposals'[id].epoch # governanceEpoch'
<1>1. governanceEpoch \in Nat
      /\ (governanceEpoch' = governanceEpoch \/ governanceEpoch' = governanceEpoch + 1)
    BY Evolution DEF roles, GovernanceTypeOK
<1>2. \A id \in DOMAIN oracleUpdateProposals' :
        /\ oracleUpdateProposals'[id].epoch \in Nat
        /\ oracleUpdateProposals'[id].epoch <= governanceEpoch
    BY <1>1, Evolution, EpochsBounded DEF EpochsSeen, GovernanceTypeOK
<1>3. \A id \in DOMAIN adminChangeProposals' :
        /\ adminChangeProposals'[id].epoch \in Nat
        /\ adminChangeProposals'[id].epoch <= governanceEpoch
    BY <1>1, Evolution, EpochsBounded DEF EpochsSeen, GovernanceTypeOK
<1>4. \A id \in DOMAIN treasuryPayoutAddressUpdateProposals' :
        /\ treasuryPayoutAddressUpdateProposals'[id].epoch \in Nat
        /\ treasuryPayoutAddressUpdateProposals'[id].epoch <= governanceEpoch
    BY <1>1, Evolution, EpochsBounded DEF EpochsSeen, GovernanceTypeOK
<1> QED
    BY <1>1, <1>2, <1>3, <1>4 DEF EpochsSeen

(* An admin change that passes validateAdminChange when it is carried out  *)
(* keeps the roles apart.                                                  *)
LEMMA AdminChangeKeepsRolesApart ==
    ASSUME RoleSeparation, NEW id \in DOMAIN adminChangeProposals, executeAdminChange(id)
    PROVE  RoleSeparation'
<1> DEFINE c == adminChangeProposals[id].change
<1>1. /\ validateAdminChange(c)
      /\ admins' = (admins \ AdminsRemoved(c)) \cup AdminsAdded(c)
      /\ isRelayer' = (isRelayer \ RelayersRemoved(c)) \cup RelayersAdded(c)
      /\ UNCHANGED <<oracleAddress, treasuryPayoutAddress>>
    BY DEF executeAdminChange
<1> HIDE DEF c
<1>2. \A a \in AdminsAdded(c) \cup RelayersAdded(c) : requireServiceRoleAvailable(a)
    BY <1>1 DEF validateAdminChange, AdminsAdded, RelayersAdded
<1>3. AdminsAdded(c) = {} \/ RelayersAdded(c) = {}
    BY DEF AdminsAdded, RelayersAdded
<1> QED
    BY <1>1, <1>2, <1>3 DEF RoleSeparation, requireServiceRoleAvailable

(* The oracle becomes active only by carrying out an oracle update, which  *)
(* starts a new epoch.                                                     *)
LEMMA OracleActiveStep ==
    ASSUME GovernanceTypeOK, [GovernanceNext]_governanceVars, ~oracleActive, oracleActive'
    PROVE  OracleGovernance /\ governanceEpoch' = governanceEpoch + 1
<1>1. CASE OracleGovernance
    BY <1>1, OracleStep
<1>2. CASE AdminGovernance
    BY <1>2, AdminStep
<1>3. CASE PayoutGovernance
    BY <1>3, PayoutStep
<1>4. CASE Tick \/ EmergencyControl \/ TradeStored \/ UNCHANGED governanceVars
    BY <1>4 DEF Tick, EmergencyControl, TradeStored, governanceVars, authority,
       pause, pauseClaims, pauseTrade, disableOracleEmergency, proposeUnpause,
       approveUnpause, approveAndExecuteUnpause, cancelUnpauseProposal
<1> QED
    BY <1>1, <1>2, <1>3, <1>4 DEF GovernanceNext, GovernanceStep

(* Every step preserves the inductive invariant.                           *)
LEMMA RoleStep ==
    ASSUME RoleInv, [GovernanceNext]_governanceVars
    PROVE  RoleInv'
<1> USE DEF RoleInv
<1>1. GovernanceTypeOK'
    BY GovernanceTypeStep
<1>2. EpochsSeen'
    BY EpochStep
<1>3. OfferedRolesFree'
  <2>1. CASE governanceEpoch' # governanceEpoch
    BY <2>1, EpochStep DEF OfferedRolesFree
  <2>2. CASE governanceEpoch' = governanceEpoch
    <3>1. UNCHANGED roles
        BY <2>2, Evolution DEF GovernanceTypeOK
    <3>2. \A a : requireServiceRoleAvailable(a)' <=> requireServiceRoleAvailable(a)
        BY <3>1 DEF roles, requireServiceRoleAvailable
    <3>3. \A id \in DOMAIN oracleUpdateProposals' \ DOMAIN oracleUpdateProposals :
            requireServiceRoleAvailable(oracleUpdateProposals'[id].change.newOracle)
      <4>1. CASE OracleGovernance
        BY <2>2, <4>1, OracleStep DEF GovernanceTypeOK
      <4>2. CASE ~OracleGovernance
        BY <4>2, QuietStep, AdminStep, PayoutStep
        DEF GovernanceNext, GovernanceStep, proposals
      <4> QED
        BY <4>1, <4>2
    <3>4. \A id \in DOMAIN treasuryPayoutAddressUpdateProposals'
                     \ DOMAIN treasuryPayoutAddressUpdateProposals :
            requireServiceRoleAvailable(
                treasuryPayoutAddressUpdateProposals'[id].change.newPayoutReceiver)
      <4>1. CASE PayoutGovernance
        BY <2>2, <4>1, PayoutStep DEF GovernanceTypeOK
      <4>2. CASE ~PayoutGovernance
        BY <4>2, QuietStep, AdminStep, OracleStep
        DEF GovernanceNext, GovernanceStep, proposals
      <4> QED
        BY <4>1, <4>2
    <3> QED
        BY <2>2, <3>2, <3>3, <3>4, Evolution DEF OfferedRolesFree, EvolvesTo
  <2> QED
    BY <2>1, <2>2
<1>4. RoleSeparation'
  <2>1. CASE UNCHANGED roles
    BY <2>1 DEF roles, RoleSeparation
  <2>2. CASE OracleGovernance /\ ~UNCHANGED roles
    <3>1. PICK id \in DOMAIN oracleUpdateProposals :
             /\ Executable(oracleUpdateProposals[id])
             /\ oracleAddress' = oracleUpdateProposals[id].change.newOracle
             /\ UNCHANGED <<admins, treasuryPayoutAddress, isRelayer>>
        BY <2>2, OracleStep
    <3>2. requireServiceRoleAvailable(oracleAddress')
        BY <3>1 DEF OfferedRolesFree, Executable, ActiveProposal
    <3> QED
        BY <3>1, <3>2 DEF RoleSeparation, requireServiceRoleAvailable
  <2>3. CASE AdminGovernance /\ ~UNCHANGED roles
    BY <2>3, AdminStep, AdminChangeKeepsRolesApart
  <2>4. CASE PayoutGovernance /\ ~UNCHANGED roles
    <3>1. PICK id \in DOMAIN treasuryPayoutAddressUpdateProposals :
             executeTreasuryPayoutAddressUpdate(id)
        BY <2>4, PayoutStep
    <3>2. /\ Executable(treasuryPayoutAddressUpdateProposals[id])
          /\ treasuryPayoutAddress'
               = treasuryPayoutAddressUpdateProposals[id].change.newPayoutReceiver
          /\ UNCHANGED <<admins, oracleAddress, isRelayer>>
        BY <3>1 DEF executeTreasuryPayoutAddressUpdate
    <3>3. requireServiceRoleAvailable(treasuryPayoutAddress')
        BY <3>2 DEF OfferedRolesFree, Executable, ActiveProposal
    <3> QED
        BY <3>2, <3>3 DEF RoleSeparation, requireServiceRoleAvailable
  <2> QED
    BY <2>1, <2>2, <2>3, <2>4, QuietStep DEF GovernanceNext, GovernanceStep
<1>5. FastTrackOnlyWhileDisabled'
  <2>1. CASE governanceEpoch' # governanceEpoch
    BY <2>1, EpochStep DEF FastTrackOnlyWhileDisabled
  <2>2. CASE governanceEpoch' = governanceEpoch
    <3>1. oracleActive' => oracleActive
        BY <2>2, OracleActiveStep DEF GovernanceTypeOK
    <3>2. \A id \in DOMAIN oracleUpdateProposals' \ DOMAIN oracleUpdateProposals :
             oracleUpdateProposals'[id].change.emergencyFastTrack => ~oracleActive
      <4>1. CASE OracleGovernance
        BY <2>2, <4>1, OracleStep DEF GovernanceTypeOK
      <4>2. CASE ~OracleGovernance
        BY <4>2, QuietStep, AdminStep, PayoutStep
        DEF GovernanceNext, GovernanceStep, proposals
      <4> QED
        BY <4>1, <4>2
    <3> QED
        BY <2>2, <3>1, <3>2, Evolution DEF FastTrackOnlyWhileDisabled, EvolvesTo
  <2> QED
    BY <2>1, <2>2
<1> QED
    BY <1>1, <1>2, <1>3, <1>4, <1>5

(* The roles of every account stay apart, and fast-tracked updates are     *)
(* live only while the oracle is disabled: the invariant, for any number   *)
(* of accounts, admins and proposals.                                      *)
LEMMA RoleInvariant == GovernanceSpec => []RoleInv
<1>1. GovernanceInit => RoleInv
  <2> SUFFICES ASSUME GovernanceInit PROVE RoleInv
    OBVIOUS
  <2>1. GovernanceTypeOK
    BY GovernanceTypeInit
  <2>2. /\ DOMAIN oracleUpdateProposals = {}
        /\ DOMAIN adminChangeProposals = {}
        /\ DOMAIN treasuryPayoutAddressUpdateProposals = {}
    BY DEF GovernanceInit
  <2>3. EpochsSeen /\ OfferedRolesFree /\ FastTrackOnlyWhileDisabled
    BY <2>2 DEF EpochsSeen, OfferedRolesFree, FastTrackOnlyWhileDisabled
  <2>4. RoleSeparation
    BY ConstructorAssumption DEF GovernanceInit, RoleSeparation
  <2> QED
    BY <2>1, <2>3, <2>4 DEF RoleInv
<1>2. RoleInv /\ [GovernanceNext]_governanceVars => RoleInv'
    BY RoleStep
<1> QED
    BY <1>1, <1>2, PTL DEF GovernanceSpec

(* The oracle, treasury, payout receiver, admins and relayers of the       *)
(* contract are always different accounts, although the functions that     *)
(* carry out an oracle or payout update do not look at the roles again.    *)
THEOREM RolesStaySeparate == GovernanceSpec => []RoleSeparation
<1>1. RoleInv => RoleSeparation
    BY DEF RoleInv
<1> QED
    BY <1>1, RoleInvariant, PTL

(* An oracle update that skips the timelock can only be carried out while  *)
(* the oracle is disabled.                                                 *)
THEOREM FastTrackIsForOutages == GovernanceSpec => []FastTrackOnlyWhileDisabled
<1>1. RoleInv => FastTrackOnlyWhileDisabled
    BY DEF RoleInv
<1> QED
    BY <1>1, RoleInvariant, PTL

(* disableOracleEmergency is not undone: the account that reactivates the  *)
(* oracle role is another one.                                             *)
THEOREM OracleIsReplaced == GovernanceSpec => DisabledOracleIsReplaced
<1>1. RoleInv /\ [GovernanceNext]_governanceVars =>
        [~oracleActive /\ oracleActive' => oracleAddress' # oracleAddress]_governanceVars
  <2> SUFFICES ASSUME RoleInv, [GovernanceNext]_governanceVars,
                      ~oracleActive, oracleActive'
               PROVE  oracleAddress' # oracleAddress
    OBVIOUS
  <2>1. OracleGovernance /\ ~UNCHANGED oracleActive
    BY OracleActiveStep DEF RoleInv
  <2>2. PICK id \in DOMAIN oracleUpdateProposals :
           /\ Executable(oracleUpdateProposals[id])
           /\ oracleAddress' = oracleUpdateProposals[id].change.newOracle
    BY <2>1, OracleStep DEF RoleInv
  <2>3. requireServiceRoleAvailable(oracleAddress')
    BY <2>2 DEF RoleInv, OfferedRolesFree, Executable, ActiveProposal
  <2> QED
    BY <2>3 DEF requireServiceRoleAvailable
<1> QED
    BY <1>1, RoleInvariant, PTL DEF GovernanceSpec, DisabledOracleIsReplaced
-----------------------------------------------------------------------------
(* Quorum and pause                                                        *)

(* How an admin change changes the number of admins.                       *)
LEMMA AdminCount ==
    ASSUME GovernanceTypeOK, NEW id \in DOMAIN adminChangeProposals, executeAdminChange(id)
    PROVE  LET kind == adminChangeProposals[id].change.kind IN
           Cardinality(admins') =
             CASE kind = "ADD" -> Cardinality(admins) + 1
               [] kind = "REMOVE" -> Cardinality(admins) - 1
               [] OTHER -> Cardinality(admins)
<1> DEFINE c == adminChangeProposals[id].change
<1>1. /\ validateAdminChange(c)
      /\ admins' = (admins \ AdminsRemoved(c)) \cup AdminsAdded(c)
    BY DEF executeAdminChange
<1> HIDE DEF c
<1>2. IsFiniteSet(admins) /\ Cardinality(admins) \in Nat
    BY FS_CardinalityType DEF GovernanceTypeOK
<1>3. CASE c.kind = "ADD"
  <2>1. admins' = admins \cup {c.newAdmin} /\ c.newAdmin \notin admins
    BY <1>1, <1>3 DEF validateAdminChange, AdminsRemoved, AdminsAdded
  <2> QED
    BY <1>2, <1>3, <2>1, FS_AddElement DEF c
<1>4. CASE c.kind = "REMOVE"
  <2>1. admins' = admins \ {c.currentAdmin} /\ c.currentAdmin \in admins
    BY <1>1, <1>4 DEF validateAdminChange, AdminsRemoved, AdminsAdded
  <2> QED
    BY <1>2, <1>4, <2>1, FS_RemoveElement DEF c
<1>5. CASE c.kind = "REPLACE"
  <2> DEFINE rest == admins \ {c.currentAdmin}
  <2>1. /\ admins' = rest \cup {c.newAdmin}
        /\ c.currentAdmin \in admins /\ c.newAdmin \notin rest
    BY <1>1, <1>5 DEF validateAdminChange, AdminsRemoved, AdminsAdded
  <2>2. IsFiniteSet(rest) /\ Cardinality(rest) = Cardinality(admins) - 1
    BY <1>2, <2>1, FS_RemoveElement
  <2> HIDE DEF rest
  <2>3. Cardinality(admins') = Cardinality(admins)
    <3>1. Cardinality(rest \cup {c.newAdmin}) = Cardinality(rest) + 1
        BY <2>1, <2>2, FS_AddElement
    <3>2. Cardinality(admins') = Cardinality(rest) + 1
        BY <2>1, <3>1
    <3> QED
        BY <1>2, <2>2, <3>2
  <2> QED
    BY <1>5, <2>3 DEF c
<1>6. CASE c.kind \notin {"ADD", "REMOVE", "REPLACE"}
  <2>1. admins' = admins
    BY <1>1, <1>6 DEF AdminsRemoved, AdminsAdded
  <2> QED
    BY <1>6, <2>1 DEF c
<1> QED
    BY <1>3, <1>4, <1>5, <1>6

(* Only an admin change touches the admins or the threshold.               *)
LEMMA QuorumStep ==
    ASSUME GovernanceTypeOK, [GovernanceNext]_governanceVars,
           ~UNCHANGED <<admins, requiredApprovals>>
    PROVE  \E id \in DOMAIN adminChangeProposals : executeAdminChange(id)
<1>1. CASE OracleGovernance
    BY <1>1, OracleStep DEF roles
<1>2. CASE PayoutGovernance
    BY <1>2, PayoutStep DEF roles
<1>3. CASE AdminGovernance
    BY <1>3, AdminStep DEF roles
<1>4. CASE Tick \/ EmergencyControl \/ TradeStored \/ UNCHANGED governanceVars
    BY <1>4, QuietStep DEF roles
<1> QED
    BY <1>1, <1>2, <1>3, <1>4 DEF GovernanceNext, GovernanceStep

(* The threshold is never below two and always leaves an admin to spare,   *)
(* and there are never more than MAX_ADMINS admins, in whatever order      *)
(* admin changes that were valid when proposed are carried out.            *)
THEOREM QuorumMarginKept == GovernanceSpec => []QuorumMargin
<1>1. GovernanceInit => QuorumMargin
    BY ConstructorAssumption DEF GovernanceInit, QuorumMargin
<1>2. GovernanceTypeOK /\ QuorumMargin /\ [GovernanceNext]_governanceVars => QuorumMargin'
  <2> SUFFICES ASSUME GovernanceTypeOK, QuorumMargin, [GovernanceNext]_governanceVars
               PROVE  QuorumMargin'
    OBVIOUS
  <2>1. CASE UNCHANGED <<admins, requiredApprovals>>
    BY <2>1 DEF QuorumMargin
  <2>2. CASE ~UNCHANGED <<admins, requiredApprovals>>
    <3>1. PICK id \in DOMAIN adminChangeProposals : executeAdminChange(id)
        BY <2>2, QuorumStep
    <3> DEFINE c == adminChangeProposals[id].change
               n == Cardinality(admins)
    <3>2. n \in Nat /\ requiredApprovals \in Nat /\ MAX_ADMINS \in Nat
        BY FS_CardinalityType, ParameterAssumption DEF GovernanceTypeOK
    <3>3. /\ validateAdminChange(c)
          /\ requiredApprovals' =
               IF c.kind = "THRESHOLD" THEN c.newThreshold ELSE requiredApprovals
        BY <3>1 DEF executeAdminChange
    <3>4. Cardinality(admins') =
             CASE c.kind = "ADD" -> n + 1
               [] c.kind = "REMOVE" -> n - 1
               [] OTHER -> n
        BY <3>1, AdminCount
    <3>5. c.newThreshold \in Nat
      <4>1. adminChangeProposals[id] \in ProposalOf(AdminChange)
        BY ProposalAt DEF GovernanceTypeOK
      <4>2. c \in AdminChange
        BY <4>1 DEF ProposalOf
      <4> HIDE DEF c
      <4> QED
        BY <4>2, ParameterAssumption DEF AdminChange
    <3> HIDE DEF c
    <3> QED
        BY <3>2, <3>3, <3>4, <3>5
        DEF QuorumMargin, validateAdminChange, SpareAdminAfterRemoval
  <2> QED
    BY <2>1, <2>2
<1> QED
    BY <1>1, <1>2, GovernanceTypeCorrect, PTL DEF GovernanceSpec

(* While the oracle is disabled the protocol stays paused, whatever        *)
(* unpause proposals were under way when it was disabled.                  *)
THEOREM OutageKeepsPause == GovernanceSpec => []DisabledOracleKeepsPause
<1>1. GovernanceInit => DisabledOracleKeepsPause
    BY DEF GovernanceInit, DisabledOracleKeepsPause
<1>2. GovernanceTypeOK /\ DisabledOracleKeepsPause /\ [GovernanceNext]_governanceVars
        => DisabledOracleKeepsPause'
  <2> SUFFICES ASSUME GovernanceTypeOK, DisabledOracleKeepsPause,
                      [GovernanceNext]_governanceVars
               PROVE  DisabledOracleKeepsPause'
    OBVIOUS
  <2>1. CASE OracleGovernance \/ AdminGovernance \/ PayoutGovernance
    BY <2>1, OracleStep, AdminStep, PayoutStep DEF DisabledOracleKeepsPause, pauses
  <2>2. ASSUME NEW who \in admins, approveAndExecuteUnpause(who)
        PROVE  DisabledOracleKeepsPause'
    BY <2>2 DEF approveAndExecuteUnpause, CanApproveUnpause, validatePausedScope,
                DisabledOracleKeepsPause, authority
  <2>3. CASE Tick \/ TradeStored \/ UNCHANGED governanceVars
    BY <2>3 DEF Tick, TradeStored, governanceVars, authority, pauses,
                DisabledOracleKeepsPause
  <2>4. CASE EmergencyControl /\ ~ \E who \in admins : approveAndExecuteUnpause(who)
    BY <2>4 DEF EmergencyControl, DisabledOracleKeepsPause, authority, pauses,
       pause, pauseClaims, pauseTrade, disableOracleEmergency, proposeUnpause,
       approveUnpause, cancelUnpauseProposal
  <2> QED
    BY <2>1, <2>2, <2>3, <2>4 DEF GovernanceNext, GovernanceStep
<1> QED
    BY <1>1, <1>2, GovernanceTypeCorrect, PTL DEF GovernanceSpec
=============================================================================
