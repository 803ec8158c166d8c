-------------------------- MODULE EscrowGovernance --------------------------
(***************************************************************************)
(* Authority and emergency controls of the escrow contract                 *)
(* (contracts/src/AgroasysEscrow.sol): who the admins, oracle, relayers    *)
(* and payout receiver are, the three kinds of timelocked governance       *)
(* proposals that change them, the pauses, and the quorum that lifts them. *)
(*                                                                         *)
(* A transaction is one step.  The `admins` array and the `isAdmin`        *)
(* mapping are one set: every writer changes both, and nothing reads the   *)
(* order.  A proposal's expiry, cancelled flag and approval mapping, which *)
(* the contract keeps in separate mappings under the proposal id, are      *)
(* fields of its record; proposal id i is element i+1 of the sequence, and *)
(* the counter is the sequence's length.  block.timestamp is `now`.        *)
(***************************************************************************)
EXTENDS Integers, Sequences, FiniteSets

CONSTANTS
    Accounts,                \* addresses other than address(0)
    NoAddress,               \* address(0)
    \* constructor arguments
    InitialOracle, treasuryAddress, InitialRelayer, InitialAdmins,
    InitialRequiredApprovals,
    \* contract constants, in model time units
    governanceTimelock, GOVERNANCE_PROPOSAL_TTL, MAX_ADMINS,
    \* bounds of the model
    MaxTime, MaxTrades,
    MaxGovernanceProposals,  \* governance proposals of all kinds
    Scopes                   \* pause scopes the instance exercises

(* What the constructor requires of its arguments before it deploys.       *)
ASSUME ConstructorAssumption ==
    /\ NoAddress \notin Accounts
    /\ {InitialOracle, treasuryAddress, InitialRelayer} \subseteq Accounts
    /\ InitialOracle # treasuryAddress
    /\ InitialOracle # InitialRelayer
    /\ treasuryAddress # InitialRelayer
    /\ InitialRequiredApprovals \in Nat
    /\ InitialRequiredApprovals >= 2
    /\ InitialAdmins \subseteq Accounts
    /\ IsFiniteSet(InitialAdmins)
    /\ Cardinality(InitialAdmins) > InitialRequiredApprovals
    /\ Cardinality(InitialAdmins) <= MAX_ADMINS
    /\ {InitialOracle, treasuryAddress, InitialRelayer} \cap InitialAdmins = {}

ASSUME ParameterAssumption ==
    /\ governanceTimelock \in Nat \ {0}
    /\ GOVERNANCE_PROPOSAL_TTL \in Nat
    /\ governanceTimelock <= GOVERNANCE_PROPOSAL_TTL
    /\ MAX_ADMINS \in Nat
    /\ {MaxTime, MaxTrades, MaxGovernanceProposals} \subseteq Nat
    /\ Scopes \subseteq {"GLOBAL", "CLAIMS", "TRADE"}

VARIABLES
    now, tradeCounter,
    \* authority
    admins, requiredApprovals, oracleAddress, oracleActive,
    treasuryPayoutAddress, isRelayer, governanceEpoch,
    \* governance proposals
    oracleUpdateProposals, adminChangeProposals,
    treasuryPayoutAddressUpdateProposals,
    \* emergency controls
    paused, claimsPaused, tradePaused,
    unpauseProposal, hasActiveUnpauseProposal, unpauseHasApproved

authority == <<admins, requiredApprovals, oracleAddress, oracleActive,
               treasuryPayoutAddress, isRelayer, governanceEpoch>>
proposals == <<oracleUpdateProposals, adminChangeProposals,
               treasuryPayoutAddressUpdateProposals>>
pauses == <<paused, claimsPaused, tradePaused>>
recovery == <<unpauseProposal, hasActiveUnpauseProposal, unpauseHasApproved>>
governanceVars == <<now, tradeCounter, authority, proposals, pauses, recovery>>

-----------------------------------------------------------------------------
(* Proposals                                                               *)

OracleChange == [newOracle : Accounts, emergencyFastTrack : BOOLEAN]
PayoutChange == [newPayoutReceiver : Accounts]

(* The arguments proposeAdminChange reads: the others are ignored by the   *)
(* contract, and are address(0) here.                                      *)
AdminChange ==
    [kind : {"ADD", "RELAYER_ADD"}, currentAdmin : {NoAddress},
     newAdmin : Accounts, newThreshold : {0}]
    \cup [kind : {"REMOVE", "RELAYER_REMOVE"}, currentAdmin : Accounts,
          newAdmin : {NoAddress}, newThreshold : {0}]
    \cup [kind : {"REPLACE"}, currentAdmin : Accounts,
          newAdmin : Accounts, newThreshold : {0}]
    \cup [kind : {"THRESHOLD"}, currentAdmin : {NoAddress},
          newAdmin : {NoAddress}, newThreshold : 0..MAX_ADMINS]

ProposalOf(Change) ==
    [change : Change, approvalCount : Nat, hasApproved : SUBSET Accounts,
     executed : BOOLEAN, cancelled : BOOLEAN, createdAt : Nat, eta : Nat,
     expiresAt : Nat, epoch : Nat]

Draft(change, who, eta) ==
    [change |-> change, approvalCount |-> 1, hasApproved |-> {who},
     executed |-> FALSE, cancelled |-> FALSE, createdAt |-> now, eta |-> eta,
     expiresAt |-> now + GOVERNANCE_PROPOSAL_TTL, epoch |-> governanceEpoch]

WithinProposalBound ==
    Len(oracleUpdateProposals) + Len(adminChangeProposals)
        + Len(treasuryPayoutAddressUpdateProposals) < MaxGovernanceProposals

(* Mutant: the epoch is not checked.                                       *)
ActiveProposalOfAnyEpoch(p) == ~p.executed /\ ~p.cancelled /\ now <= p.expiresAt

(* The checks every approve and execute function makes first.              *)
ActiveProposal(p) ==
    /\ ~p.executed
    /\ ~p.cancelled
    /\ now <= p.expiresAt
    /\ p.epoch = governanceEpoch

Approve(p, who) == [p EXCEPT !.hasApproved = @ \cup {who},
                             !.approvalCount = @ + 1]

(* Mutant: the timelock is not checked.                                    *)
ExecutableAtOnce(p) == ActiveProposal(p) /\ p.approvalCount >= requiredApprovals

Executable(p) ==
    /\ ActiveProposal(p)
    /\ p.approvalCount >= requiredApprovals
    /\ now >= p.eta

ExpiredProposal(p) == ~p.executed /\ ~p.cancelled /\ now > p.expiresAt

(* Mutant: the epoch stays.                                                *)
keepGovernanceEpoch == governanceEpoch' = governanceEpoch

advanceGovernanceEpoch == governanceEpoch' = governanceEpoch + 1

requireServiceRoleAvailable(account) ==
    /\ account # oracleAddress
    /\ account # treasuryAddress
    /\ account # treasuryPayoutAddress
    /\ account \notin admins
    /\ account \notin isRelayer

-----------------------------------------------------------------------------
(* Oracle rotation                                                         *)

proposeOracleUpdate(who, newOracle) ==
    /\ who \in admins
    /\ newOracle # oracleAddress
    /\ requireServiceRoleAvailable(newOracle)
    /\ Cardinality(admins) >= requiredApprovals
    /\ WithinProposalBound
    /\ LET emergencyFastTrack == ~oracleActive
           eta == IF emergencyFastTrack THEN now ELSE now + governanceTimelock
       IN oracleUpdateProposals' =
            Append(oracleUpdateProposals,
                   Draft([newOracle |-> newOracle,
                          emergencyFastTrack |-> emergencyFastTrack], who, eta))
    /\ UNCHANGED <<now, tradeCounter, authority, adminChangeProposals,
                   treasuryPayoutAddressUpdateProposals, pauses, recovery>>

approveOracleUpdate(who, id) ==
    LET p == oracleUpdateProposals[id] IN
    /\ who \in admins \ p.hasApproved
    /\ ActiveProposal(p)
    /\ oracleUpdateProposals' = [oracleUpdateProposals EXCEPT ![id] = Approve(@, who)]
    /\ UNCHANGED <<now, tradeCounter, authority, adminChangeProposals,
                   treasuryPayoutAddressUpdateProposals, pauses, recovery>>

executeOracleUpdate(id) ==
    LET p == oracleUpdateProposals[id] IN
    /\ Executable(p)
    /\ oracleUpdateProposals' = [oracleUpdateProposals EXCEPT ![id].executed = TRUE]
    /\ oracleAddress' = p.change.newOracle
    /\ oracleActive' = TRUE
    /\ advanceGovernanceEpoch
    /\ UNCHANGED <<now, tradeCounter, admins, requiredApprovals,
                   treasuryPayoutAddress, isRelayer, adminChangeProposals,
                   treasuryPayoutAddressUpdateProposals, pauses, recovery>>

cancelExpiredOracleUpdateProposal(id) ==
    /\ ExpiredProposal(oracleUpdateProposals[id])
    /\ oracleUpdateProposals' = [oracleUpdateProposals EXCEPT ![id].cancelled = TRUE]
    /\ UNCHANGED <<now, tradeCounter, authority, adminChangeProposals,
                   treasuryPayoutAddressUpdateProposals, pauses, recovery>>

-----------------------------------------------------------------------------
(* Admin set, approval threshold and relayers                              *)

(* Mutant: parity with the threshold is enough.                            *)
QuorumAfterRemoval == Cardinality(admins) - 1 >= requiredApprovals

SpareAdminAfterRemoval == Cardinality(admins) - 1 > requiredApprovals

validateAdminChange(c) ==
    /\ c.kind \in {"ADD", "REPLACE"} =>
          c.newAdmin \notin admins /\ requireServiceRoleAvailable(c.newAdmin)
    /\ c.kind = "ADD" => Cardinality(admins) < MAX_ADMINS
    /\ c.kind \in {"REMOVE", "REPLACE"} => c.currentAdmin \in admins
    /\ c.kind = "REMOVE" => SpareAdminAfterRemoval
    /\ IF c.kind = "THRESHOLD"
       THEN /\ c.newThreshold >= 2
            /\ c.newThreshold < Cardinality(admins)
            /\ c.newThreshold # requiredApprovals
       ELSE c.newThreshold = 0
    /\ c.kind = "RELAYER_ADD" =>
          c.newAdmin \notin isRelayer /\ requireServiceRoleAvailable(c.newAdmin)
    /\ c.kind = "RELAYER_REMOVE" => c.currentAdmin \in isRelayer

proposeAdminChange(who, change) ==
    /\ who \in admins
    /\ validateAdminChange(change)
    /\ WithinProposalBound
    /\ adminChangeProposals' =
         Append(adminChangeProposals, Draft(change, who, now + governanceTimelock))
    /\ UNCHANGED <<now, tradeCounter, authority, oracleUpdateProposals,
                   treasuryPayoutAddressUpdateProposals, pauses, recovery>>

approveAdminChange(who, id) ==
    LET p == adminChangeProposals[id] IN
    /\ who \in admins \ p.hasApproved
    /\ ActiveProposal(p)
    /\ adminChangeProposals' = [adminChangeProposals EXCEPT ![id] = Approve(@, who)]
    /\ UNCHANGED <<now, tradeCounter, authority, oracleUpdateProposals,
                   treasuryPayoutAddressUpdateProposals, pauses, recovery>>

AdminsRemoved(c) == IF c.kind \in {"REMOVE", "REPLACE"} THEN {c.currentAdmin} ELSE {}

AdminsAdded(c) == IF c.kind \in {"ADD", "REPLACE"} THEN {c.newAdmin} ELSE {}
RelayersRemoved(c) == IF c.kind = "RELAYER_REMOVE" THEN {c.currentAdmin} ELSE {}
RelayersAdded(c) == IF c.kind = "RELAYER_ADD" THEN {c.newAdmin} ELSE {}

(* Mutant: the unpause approvals are left alone.                           *)
NoUnpauseApprovalCleared(c) == {}

(* _removeAdmin clears the leaver's unpause approval, _replaceAdmin both.  *)
UnpauseApprovalsCleared(c) ==
    AdminsRemoved(c) \cup (IF c.kind = "REPLACE" THEN AdminsAdded(c) ELSE {})

executeAdminChange(id) ==
    LET p == adminChangeProposals[id]
        c == p.change
    IN
    /\ Executable(p)
    /\ validateAdminChange(c)
    /\ adminChangeProposals' = [adminChangeProposals EXCEPT ![id].executed = TRUE]
    /\ admins' = (admins \ AdminsRemoved(c)) \cup AdminsAdded(c)
    /\ requiredApprovals' =
         IF c.kind = "THRESHOLD" THEN c.newThreshold ELSE requiredApprovals
    /\ isRelayer' = (isRelayer \ RelayersRemoved(c)) \cup RelayersAdded(c)
    /\ unpauseHasApproved' = unpauseHasApproved \ UnpauseApprovalsCleared(c)
    /\ advanceGovernanceEpoch
    /\ UNCHANGED <<now, tradeCounter, oracleAddress, oracleActive,
                   treasuryPayoutAddress, oracleUpdateProposals,
                   treasuryPayoutAddressUpdateProposals, pauses,
                   unpauseProposal, hasActiveUnpauseProposal>>

cancelAdminChangeProposal(id) ==
    /\ ExpiredProposal(adminChangeProposals[id])
    /\ adminChangeProposals' = [adminChangeProposals EXCEPT ![id].cancelled = TRUE]
    /\ UNCHANGED <<now, tradeCounter, authority, oracleUpdateProposals,
                   treasuryPayoutAddressUpdateProposals, pauses, recovery>>

-----------------------------------------------------------------------------
(* Treasury payout receiver                                                *)

proposeTreasuryPayoutAddressUpdate(who, newPayoutReceiver) ==
    /\ who \in admins
    /\ newPayoutReceiver # treasuryPayoutAddress
    /\ requireServiceRoleAvailable(newPayoutReceiver)
    /\ Cardinality(admins) >= requiredApprovals
    /\ WithinProposalBound
    /\ treasuryPayoutAddressUpdateProposals' =
         Append(treasuryPayoutAddressUpdateProposals,
                Draft([newPayoutReceiver |-> newPayoutReceiver], who,
                      now + governanceTimelock))
    /\ UNCHANGED <<now, tradeCounter, authority, oracleUpdateProposals,
                   adminChangeProposals, pauses, recovery>>

approveTreasuryPayoutAddressUpdate(who, id) ==
    LET p == treasuryPayoutAddressUpdateProposals[id] IN
    /\ who \in admins \ p.hasApproved
    /\ ActiveProposal(p)
    /\ treasuryPayoutAddressUpdateProposals' =
         [treasuryPayoutAddressUpdateProposals EXCEPT ![id] = Approve(@, who)]
    /\ UNCHANGED <<now, tradeCounter, authority, oracleUpdateProposals,
                   adminChangeProposals, pauses, recovery>>

executeTreasuryPayoutAddressUpdate(id) ==
    LET p == treasuryPayoutAddressUpdateProposals[id] IN
    /\ Executable(p)
    /\ treasuryPayoutAddressUpdateProposals' =
         [treasuryPayoutAddressUpdateProposals EXCEPT ![id].executed = TRUE]
    /\ treasuryPayoutAddress' = p.change.newPayoutReceiver
    /\ advanceGovernanceEpoch
    /\ UNCHANGED <<now, tradeCounter, admins, requiredApprovals, oracleAddress,
                   oracleActive, isRelayer, oracleUpdateProposals,
                   adminChangeProposals, pauses, recovery>>

cancelExpiredTreasuryPayoutAddressUpdateProposal(id) ==
    /\ ExpiredProposal(treasuryPayoutAddressUpdateProposals[id])
    /\ treasuryPayoutAddressUpdateProposals' =
         [treasuryPayoutAddressUpdateProposals EXCEPT ![id].cancelled = TRUE]
    /\ UNCHANGED <<now, tradeCounter, authority, oracleUpdateProposals,
                   adminChangeProposals, pauses, recovery>>

-----------------------------------------------------------------------------
(* Pauses and their recovery by quorum                                     *)

TradeIds == 0..(MaxTrades - 1)
ExistingTrades == 0..(tradeCounter - 1)
PauseScope == {"GLOBAL", "CLAIMS", "TRADE"}

(* The tradeId argument of proposeUnpause is read for scope TRADE only.    *)
UnpauseTargets == ({"GLOBAL", "CLAIMS"} \cap Scopes) \X {0}
                  \cup ({"TRADE"} \cap Scopes) \X TradeIds

NoUnpauseProposal ==
    [scope |-> "GLOBAL", tradeId |-> 0, approvalCount |-> 0, executed |-> FALSE,
     createdAt |-> 0, proposer |-> NoAddress, epoch |-> 0]

UnpauseProposal ==
    [scope : PauseScope, tradeId : Nat, approvalCount : Nat,
     executed : BOOLEAN, createdAt : Nat, proposer : Accounts \cup {NoAddress},
     epoch : Nat]

pause(who) ==
    /\ who \in admins
    /\ ~paused
    /\ paused' = TRUE
    /\ UNCHANGED <<now, tradeCounter, authority, proposals, claimsPaused,
                   tradePaused, recovery>>

pauseClaims(who) ==
    /\ who \in admins
    /\ ~claimsPaused
    /\ claimsPaused' = TRUE
    /\ UNCHANGED <<now, tradeCounter, authority, proposals, paused,
                   tradePaused, recovery>>

pauseTrade(who, tradeId) ==
    /\ who \in admins
    /\ tradeId \in ExistingTrades \ tradePaused
    /\ tradePaused' = tradePaused \cup {tradeId}
    /\ UNCHANGED <<now, tradeCounter, authority, proposals, paused,
                   claimsPaused, recovery>>

disableOracleEmergency(who) ==
    /\ who \in admins
    /\ oracleActive
    /\ oracleActive' = FALSE
    /\ paused' = TRUE
    /\ UNCHANGED <<now, tradeCounter, admins, requiredApprovals, oracleAddress,
                   treasuryPayoutAddress, isRelayer, governanceEpoch,
                   proposals, claimsPaused, tradePaused, recovery>>

(* Mutant: the global pause is lifted with the oracle still disabled.      *)
validatePausedScopeOnly(scope, tradeId) ==
    \/ scope = "GLOBAL" /\ paused
    \/ scope = "CLAIMS" /\ claimsPaused
    \/ scope = "TRADE" /\ tradeId \in ExistingTrades /\ tradeId \in tradePaused

validatePausedScope(scope, tradeId) ==
    \/ scope = "GLOBAL" /\ paused /\ oracleActive
    \/ scope = "CLAIMS" /\ claimsPaused
    \/ scope = "TRADE" /\ tradeId \in ExistingTrades /\ tradeId \in tradePaused

(* Mutant: a proposal of an earlier epoch is not stale.                    *)
UnpauseExpired == now > unpauseProposal.createdAt + GOVERNANCE_PROPOSAL_TTL

(* staleOrExpired of proposeUnpause and cancelUnpauseProposal.             *)
UnpauseStaleOrExpired ==
    \/ unpauseProposal.epoch # governanceEpoch
    \/ now > unpauseProposal.createdAt + GOVERNANCE_PROPOSAL_TTL

(* The loop of _cancelUnpauseProposal and _executeUnpause that clears the  *)
(* approval of every current admin.                                        *)
ClearedUnpauseApprovals == unpauseHasApproved \ admins

proposeUnpause(who, scope, tradeId) ==
    /\ who \in admins
    /\ validatePausedScope(scope, tradeId)
    /\ hasActiveUnpauseProposal => UnpauseStaleOrExpired
    /\ unpauseProposal' =
         [scope |-> scope, tradeId |-> tradeId, approvalCount |-> 1,
          executed |-> FALSE, createdAt |-> now, proposer |-> who,
          epoch |-> governanceEpoch]
    /\ unpauseHasApproved' =
         {who} \cup (IF hasActiveUnpauseProposal
                     THEN ClearedUnpauseApprovals ELSE unpauseHasApproved)
    /\ hasActiveUnpauseProposal' = TRUE
    /\ UNCHANGED <<now, tradeCounter, authority, proposals, pauses>>

(* Mutant: the epoch is not checked.                                       *)
CanApproveUnpauseOfAnyEpoch(who) ==
    /\ who \in admins \ unpauseHasApproved
    /\ hasActiveUnpauseProposal
    /\ ~unpauseProposal.executed
    /\ validatePausedScope(unpauseProposal.scope, unpauseProposal.tradeId)

CanApproveUnpause(who) ==
    /\ who \in admins
    /\ hasActiveUnpauseProposal
    /\ ~unpauseProposal.executed
    /\ unpauseProposal.epoch = governanceEpoch
    /\ validatePausedScope(unpauseProposal.scope, unpauseProposal.tradeId)
    /\ who \notin unpauseHasApproved

(* approveUnpause short of the threshold.                                  *)
approveUnpause(who) ==
    /\ CanApproveUnpause(who)
    /\ unpauseProposal.approvalCount + 1 < requiredApprovals
    /\ unpauseProposal' = [unpauseProposal EXCEPT !.approvalCount = @ + 1]
    /\ unpauseHasApproved' = unpauseHasApproved \cup {who}
    /\ UNCHANGED <<now, tradeCounter, authority, proposals, pauses,
                   hasActiveUnpauseProposal>>

(* approveUnpause at the threshold, which calls _executeUnpause.           *)
approveAndExecuteUnpause(who) ==
    LET scope == unpauseProposal.scope IN
    /\ CanApproveUnpause(who)
    /\ unpauseProposal.approvalCount + 1 >= requiredApprovals
    /\ unpauseProposal' = [unpauseProposal EXCEPT !.approvalCount = @ + 1,
                                                  !.executed = TRUE]
    /\ hasActiveUnpauseProposal' = FALSE
    /\ unpauseHasApproved' = ClearedUnpauseApprovals
    /\ paused' = (paused /\ scope # "GLOBAL")
    /\ claimsPaused' = (claimsPaused /\ scope # "CLAIMS")
    /\ tradePaused' = tradePaused \ (IF scope = "TRADE"
                                     THEN {unpauseProposal.tradeId} ELSE {})
    /\ UNCHANGED <<now, tradeCounter, authority, proposals>>

CanCancelUnpause(who) ==
    /\ who \in admins
    /\ hasActiveUnpauseProposal
    /\ ~unpauseProposal.executed
    /\ who = unpauseProposal.proposer \/ UnpauseStaleOrExpired

cancelUnpauseProposal(who) ==
    /\ CanCancelUnpause(who)
    /\ unpauseHasApproved' = ClearedUnpauseApprovals
    /\ hasActiveUnpauseProposal' = FALSE
    /\ unpauseProposal' = NoUnpauseProposal
    /\ UNCHANGED <<now, tradeCounter, authority, proposals, pauses>>

-----------------------------------------------------------------------------
(* The specification of the authority component.                           *)

GovernanceInit ==
    /\ now = 1
    /\ tradeCounter = 0
    /\ admins = InitialAdmins
    /\ requiredApprovals = InitialRequiredApprovals
    /\ oracleAddress = InitialOracle
    /\ oracleActive = TRUE
    /\ treasuryPayoutAddress = treasuryAddress
    /\ isRelayer = {InitialRelayer}
    /\ governanceEpoch = 1
    /\ oracleUpdateProposals = << >>
    /\ adminChangeProposals = << >>
    /\ treasuryPayoutAddressUpdateProposals = << >>
    /\ paused = FALSE
    /\ claimsPaused = FALSE
    /\ tradePaused = {}
    /\ unpauseProposal = NoUnpauseProposal
    /\ hasActiveUnpauseProposal = FALSE
    /\ unpauseHasApproved = {}

(* Time passes between blocks; MaxTime bounds the instance.                *)
Tick ==
    /\ now < MaxTime
    /\ now' = now + 1
    /\ UNCHANGED <<tradeCounter, authority, proposals, pauses, recovery>>

OracleGovernance ==
    \/ \E who \in admins, account \in Accounts : proposeOracleUpdate(who, account)
    \/ \E id \in DOMAIN oracleUpdateProposals :
          \/ \E who \in admins : approveOracleUpdate(who, id)
          \/ executeOracleUpdate(id)
          \/ cancelExpiredOracleUpdateProposal(id)

AdminGovernance ==
    \/ \E who \in admins, change \in AdminChange : proposeAdminChange(who, change)
    \/ \E id \in DOMAIN adminChangeProposals :
          \/ \E who \in admins : approveAdminChange(who, id)
          \/ executeAdminChange(id)
          \/ cancelAdminChangeProposal(id)

PayoutGovernance ==
    \/ \E who \in admins, account \in Accounts :
          proposeTreasuryPayoutAddressUpdate(who, account)
    \/ \E id \in DOMAIN treasuryPayoutAddressUpdateProposals :
          \/ \E who \in admins : approveTreasuryPayoutAddressUpdate(who, id)
          \/ executeTreasuryPayoutAddressUpdate(id)
          \/ cancelExpiredTreasuryPayoutAddressUpdateProposal(id)

EmergencyControl ==
    \E who \in admins :
        \/ "GLOBAL" \in Scopes /\ pause(who)
        \/ "CLAIMS" \in Scopes /\ pauseClaims(who)
        \/ "TRADE" \in Scopes /\ \E tradeId \in TradeIds : pauseTrade(who, tradeId)
        \/ disableOracleEmergency(who)
        \/ \E target \in UnpauseTargets : proposeUnpause(who, target[1], target[2])
        \/ approveUnpause(who)
        \/ approveAndExecuteUnpause(who)
        \/ cancelUnpauseProposal(who)

GovernanceStep ==
    Tick \/ OracleGovernance \/ AdminGovernance \/ PayoutGovernance \/ EmergencyControl

(* Trades are stored by the settlement component; on its own this one only *)
(* sees the counter of trades grow.                                        *)
TradeStored ==
    /\ tradeCounter < MaxTrades
    /\ tradeCounter' = tradeCounter + 1
    /\ UNCHANGED <<now, authority, proposals, pauses, recovery>>

GovernanceNext == GovernanceStep \/ TradeStored

GovernanceSpec == GovernanceInit /\ [][GovernanceNext]_governanceVars

-----------------------------------------------------------------------------
(* Properties                                                              *)

(* Every variable has the type of the contract's storage slot.             *)
GovernanceTypeOK ==
    /\ now \in Nat /\ now > 0
    /\ tradeCounter \in Nat
    /\ admins \subseteq Accounts /\ IsFiniteSet(admins)
    /\ requiredApprovals \in Nat
    /\ oracleAddress \in Accounts
    /\ oracleActive \in BOOLEAN
    /\ treasuryPayoutAddress \in Accounts
    /\ isRelayer \subseteq Accounts
    /\ governanceEpoch \in Nat
    /\ oracleUpdateProposals \in Seq(ProposalOf(OracleChange))
    /\ adminChangeProposals \in Seq(ProposalOf(AdminChange))
    /\ treasuryPayoutAddressUpdateProposals \in Seq(ProposalOf(PayoutChange))
    /\ paused \in BOOLEAN
    /\ claimsPaused \in BOOLEAN
    /\ tradePaused \subseteq Nat
    /\ unpauseProposal \in UnpauseProposal
    /\ hasActiveUnpauseProposal \in BOOLEAN
    /\ unpauseHasApproved \subseteq Accounts

(* The oracle, the treasury and its payout receiver, the admins and the    *)
(* relayers stay separate identities.  executeOracleUpdate and             *)
(* executeTreasuryPayoutAddressUpdate do not look at the roles again: the  *)
(* epoch check alone keeps a proposal made before another role change from *)
(* giving one account two roles.                                           *)
RoleSeparation ==
    /\ oracleAddress \notin
          {treasuryAddress, treasuryPayoutAddress} \cup admins \cup isRelayer
    /\ {treasuryAddress, treasuryPayoutAddress} \cap (admins \cup isRelayer) = {}
    /\ admins \cap isRelayer = {}

(* There is always an admin to spare above the approval threshold, which   *)
(* is never below two: additions, removals, replacements and threshold     *)
(* changes that were valid when proposed may meet another admin set when   *)
(* they are executed.                                                      *)
QuorumMargin ==
    /\ 2 <= requiredApprovals
    /\ requiredApprovals < Cardinality(admins)
    /\ Cardinality(admins) <= MAX_ADMINS

(* A fast-tracked oracle update (no timelock) can only be carried out      *)
(* while the oracle is disabled: once any update has reactivated the       *)
(* oracle, the proposals made during the outage are dead.                  *)
FastTrackOnlyWhileDisabled ==
    \A id \in DOMAIN oracleUpdateProposals :
        LET p == oracleUpdateProposals[id] IN
        p.epoch = governanceEpoch /\ p.change.emergencyFastTrack => ~oracleActive

(* disableOracleEmergency pauses the protocol, and no unpause proposal,    *)
(* not even one made before the oracle was disabled, lifts the global      *)
(* pause until a new oracle is active.                                     *)
DisabledOracleKeepsPause == ~oracleActive => paused

(* unpauseHasApproved is one mapping for all unpause proposals.  It holds  *)
(* approvals of current admins only, none between proposals, and agrees    *)
(* with approvalCount, across cancellations, replacements and admin        *)
(* changes, so an approval is never carried over to another incident.      *)
UnpauseApprovalsCounted ==
    /\ unpauseHasApproved \subseteq admins
    /\ ~hasActiveUnpauseProposal => unpauseHasApproved = {}
    /\ hasActiveUnpauseProposal /\ unpauseProposal.epoch = governanceEpoch =>
          /\ unpauseProposal.approvalCount = Cardinality(unpauseHasApproved)
          /\ unpauseProposal.approvalCount < requiredApprovals
          /\ unpauseProposal.proposer \in admins

(* The single unpause slot never wedges: whatever happened to the admins,  *)
(* some admin can clear it, and while its scope is still paused some admin *)
(* who has not approved yet can.                                           *)
UnpauseNeverWedged ==
    hasActiveUnpauseProposal =>
        /\ \E who \in admins : CanCancelUnpause(who)
        /\ unpauseProposal.epoch = governanceEpoch
             /\ validatePausedScope(unpauseProposal.scope, unpauseProposal.tradeId)
           => \E who \in admins : CanApproveUnpause(who)

ExecutedByQuorum(before, after, mayFastTrack) ==
    \E id \in DOMAIN before :
        /\ after[id] = [before[id] EXCEPT !.executed = TRUE]
        /\ ~before[id].executed
        /\ before[id].hasApproved \subseteq admins
        /\ Cardinality(before[id].hasApproved) >= requiredApprovals
        /\ \/ now >= before[id].createdAt + governanceTimelock
           \/ mayFastTrack /\ ~oracleActive

(* Roles and threshold change only by carrying out one proposal that the   *)
(* required number of distinct current admins approved and that waited out *)
(* the timelock (or replaces a disabled oracle), and every such change     *)
(* advances the governance epoch.                                          *)
AuthorityChangedByQuorum ==
    [][<<admins, requiredApprovals, oracleAddress, treasuryPayoutAddress, isRelayer>>'
         # <<admins, requiredApprovals, oracleAddress, treasuryPayoutAddress, isRelayer>>
       => /\ governanceEpoch' = governanceEpoch + 1
          /\ \/ ExecutedByQuorum(oracleUpdateProposals, oracleUpdateProposals', TRUE)
             \/ ExecutedByQuorum(adminChangeProposals, adminChangeProposals', FALSE)
             \/ ExecutedByQuorum(treasuryPayoutAddressUpdateProposals,
                                 treasuryPayoutAddressUpdateProposals', FALSE)
      ]_governanceVars

(* A pause is lifted only with the approval of the required number of      *)
(* distinct current admins, the caller included.                           *)
PauseLiftedByQuorum ==
    [][\/ paused /\ ~paused'
       \/ claimsPaused /\ ~claimsPaused'
       \/ tradePaused \ tradePaused' # {}
       => Cardinality(unpauseHasApproved \cap admins) + 1 >= requiredApprovals
      ]_governanceVars

(* An oracle disabled in an emergency never comes back: the one that       *)
(* reactivates the role is a different account.                            *)
DisabledOracleIsReplaced ==
    [][~oracleActive /\ oracleActive' => oracleAddress' # oracleAddress]_governanceVars

=============================================================================
