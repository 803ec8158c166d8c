------------------------------ MODULE MCGateway ------------------------------
(***************************************************************************)
(* The gateway's gasless relay, its settlement callbacks and the sessions  *)
(* of the auth service on small instances.  They share no state, so each   *)
(* behaviour follows one of them, named by part, while the variables of    *)
(* the others stand still.  The relay comes in two instances: with crashes *)
(* or a reorganisation, one of them in a behaviour; and, without faults    *)
(* and without the reconciliation worker, with two requests of one key     *)
(* alive at a time because the renewal of the lease does not keep up.      *)
(***************************************************************************)
EXTENDS Naturals, TLC

CONSTANTS
    Processes,  \* the requests, dispatchers and clients that run concurrently
    Names,      \* the request ids of the relay, the human principals of auth
    None

VARIABLES
    part,
    execution_status, dedupe_keys, rid, key, pc, nonce, lock, reservation, signatures,
    outcome, projected, orphaned, block, net, final, inclusion, todo, crashes,
    enabled, latest_event, callback_status, delivery, failure_state, job, received, faults,
    profile, grant, change, sessions, op, stale

relayVars ==
    <<execution_status, dedupe_keys, rid, key, pc, nonce, lock, reservation, signatures,
      outcome, projected, orphaned, block, net, final, inclusion, todo, crashes>>
callbackVars ==
    <<enabled, latest_event, callback_status, delivery, failure_state, job, received, faults>>
authVars == <<profile, grant, change, sessions, op, stale>>
vars == <<part, relayVars, callbackVars, authVars>>

Relay == INSTANCE GaslessRelay WITH
    Attempts <- Processes, RequestIds <- Names, MaxNonce <- 1,
    MaxCrashes <- 1, MaxLosses <- 0, MaxOrphans <- 1, renewed <- TRUE
Contended == INSTANCE GaslessRelay WITH
    Attempts <- Processes, RequestIds <- Names, MaxNonce <- 1,
    MaxCrashes <- 0, MaxLosses <- 1, MaxOrphans <- 0, renewed <- FALSE
Callbacks == INSTANCE SettlementCallbacks WITH
    Workers <- Processes, MaxEvents <- 2, MaxAttempts <- 2, MaxReplays <- 1, MaxFaults <- 1
Auth == INSTANCE AuthSessions WITH
    Clients <- Processes, Principals <- Names, BaseRoles <- {"buyer"}, MaxSessions <- 2

Init ==
    /\ part \in {"relay", "contended", "callbacks", "auth"}
    /\ IF part = "contended" THEN Contended!RelayInit ELSE Relay!RelayInit
    /\ part \in {"callbacks", "auth"} => \A a, b \in Processes : rid[a] = rid[b]
    /\ Callbacks!CallbackInit
    /\ Auth!AuthInit

(* A crash or a reorganisation, not both. *)
OneFault == crashes = 0 \/ \A t \in DOMAIN inclusion : inclusion[t] = 0

(* One way to become an administrator, and one client while a change is pending. *)
OneElevation ==
    /\ grant = "none" \/ profile.glass = "none"
    /\ change = None \/ \E c \in Processes : op[c].at = "idle"

Next ==
    /\ UNCHANGED part
    /\ \/ /\ part = "relay" /\ Relay!RelayNext /\ OneFault'
          /\ UNCHANGED <<callbackVars, authVars>>
       \/ /\ part = "contended" /\ Contended!RelayNext /\ todo' = << >>
          /\ UNCHANGED <<callbackVars, authVars>>
       \/ /\ part = "callbacks" /\ Callbacks!CallbackNext
          /\ UNCHANGED <<relayVars, authVars>>
       \/ /\ part = "auth" /\ Auth!AuthNext /\ OneElevation'
          /\ UNCHANGED <<relayVars, callbackVars>>

Spec == Init /\ [][Next]_vars

Symmetry == Permutations(Processes) \cup Permutations(Names)

-----------------------------------------------------------------------------
(* The signer is asked for at most one transaction at each nonce (reserve, beginSigning),
   in both instances. *)
OneSignaturePerNonce ==
    IF part = "contended" THEN Contended!OneSignaturePerNonce ELSE Relay!OneSignaturePerNonce

(* An idempotency key leads to at most one transaction while its lease is renewed
   (createPending). *)
OneTransactionPerKey == part = "relay" => Relay!OneTransactionPerKey

(* A confirmed or reverted handoff names what the finalized chain did (reconcile). *)
TerminalStatusIsChainTruth == part = "relay" => Relay!TerminalStatusIsChainTruth


(* A callback recorded as delivered was taken, and stays delivered (markCallbackDelivered,
   markCallbackFailed). *)
DeliveredForGood == Callbacks!DeliveredForGood

(* An ended session or lineage does not come back (rotateSession, resolveActive,
   deactivateProfileWithAudit). *)
SessionsEndForGood == Auth!SessionsEndForGood

=============================================================================
