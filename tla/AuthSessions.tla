---------------------------- MODULE AuthSessions ----------------------------
(***************************************************************************)
(* Sessions of one account of the auth service against the control plane   *)
(* that changes the account's authority: trusted exchange, refresh with    *)
(* rotation, logout, provisioning, deactivation, break-glass elevation and *)
(* the two-person administrator changes.  The profile exists already and   *)
(* its exchange keys may ask for every role; time is the expiry of a       *)
(* session, of the elevation and of the grant.  Refreshing reads the       *)
(* session, then the profile, then rotates: three steps.                   *)
(***************************************************************************)
EXTENDS Naturals

CONSTANTS
    Clients,        \* requests in progress at one time
    Principals,     \* humans behind the admin control keys
    BaseRoles,      \* the roles an account may have without an administrator change
    MaxSessions,    \* bound on the session rows
    None

VARIABLES
    profile,    \* user_profiles: active, base role, break-glass elevation
    grant,      \* the latest applied administrator change: none, live, expired or revoked
    change,     \* the pending administrator change, or None
    sessions,   \* user_sessions: status, role issued, parent, first of the lineage
    op,         \* the request each client has in progress
    stale       \* history: sessions inserted before the last deactivation

vars == <<profile, grant, change, sessions, op, stale>>

Ids == 1 .. MaxSessions
idle == [at |-> "idle", session |-> 0, role |-> "none"]
Free == [status |-> "free", role |-> "none", parent |-> 0, lineage |-> 0]

AuthInit ==
    /\ profile \in [active : {TRUE}, role : BaseRoles, glass : {"none"}]
    /\ grant = "none"
    /\ change = None
    /\ sessions = [s \in Ids |-> Free]
    /\ op = [c \in Clients |-> idle]
    /\ stale = {}

live(s) == sessions[s].status = "live"

(* USER_PROFILE_FIELDS: an elevation in force shows as the role. *)
effectiveRole == IF profile.glass = "live" THEN "admin" ELSE profile.role

(* hasAdminAuthority: a durable administrator needs the grant behind the role. *)
hasAdminAuthority == effectiveRole = "admin" /\ (profile.role = "admin" => grant = "live")

(* Mutant: a deactivated profile is not looked at. *)
resolves_InactiveToo(s) ==
    live(s) /\ (profile.role = "admin" => grant = "live") /\ sessions[s].role = effectiveRole

(* resolveActive: the session, its profile and the grant are read in one query. *)
resolves(s) ==
    /\ live(s)
    /\ profile.role = "admin" => grant = "live"
    /\ profile.active
    /\ sessions[s].role = effectiveRole

revoked(S) == [s \in Ids |-> IF s \in S /\ live(s) THEN [sessions[s] EXCEPT !.status = "revoked"]
                             ELSE sessions[s]]

inserted(rows, parent, role) ==
    LET new == CHOOSE s \in Ids : rows[s] = Free /\ \A t \in 1 .. s - 1 : rows[t] # Free
    IN  [rows EXCEPT ![new] = [status |-> "live", role |-> role, parent |-> parent,
                               lineage |-> IF parent = 0 THEN new ELSE rows[parent].lineage]]

Room == \E s \in Ids : sessions[s] = Free
newId(rows) == CHOOSE s \in Ids : rows[s] # Free /\ sessions[s] = Free

-----------------------------------------------------------------------------
(* issueTrustedSession: the profile is written under its lock (a refused exchange writes
   nothing, a deactivated profile is refused after the write), then the session is inserted. *)
issueTrustedSession(c, requestedRole) ==
    /\ op[c].at = "idle"
    /\ IF requestedRole = "admin" THEN hasAdminAuthority ELSE profile.role # "admin"
    /\ profile' = IF requestedRole = "admin" THEN profile ELSE [profile EXCEPT !.role = requestedRole]
    /\ op' = [op EXCEPT ![c] = IF profile.active
                               THEN [at |-> "issue", session |-> 0, role |-> effectiveRole']
                               ELSE idle]
    /\ UNCHANGED <<grant, change, sessions, stale>>

issue(c) ==
    /\ op[c].at = "issue" /\ Room
    /\ sessions' = inserted(sessions, 0, op[c].role)
    /\ op' = [op EXCEPT ![c] = [idle EXCEPT !.at = "answer", !.session = newId(sessions')]]
    /\ UNCHANGED <<profile, grant, change, stale>>

(* refresh, or the resolve of any other request: a session whose authority is gone is on
   its way to being revoked, one that resolves may go on to be rotated. *)
resolveActive(c, s) ==
    /\ op[c].at = "idle" /\ live(s)
    /\ op' = [op EXCEPT ![c] =
                [at |-> IF resolves(s) THEN "resolved" ELSE "ending", session |-> s,
                 role |-> IF sessions[s].role = "admin" /\ effectiveRole # "admin"
                             /\ profile.active /\ (profile.role = "admin" => grant = "live")
                          THEN "expired" ELSE "none"]]
    /\ UNCHANGED <<profile, grant, change, sessions, stale>>

findById(c) ==
    /\ op[c].at = "resolved"
    /\ op' = [op EXCEPT ![c] = IF profile.active
                               THEN [@ EXCEPT !.at = "rotate", !.role = effectiveRole] ELSE idle]
    /\ UNCHANGED <<profile, grant, change, sessions, stale>>

(* The parent must still be unrevoked under its row lock; the unique index on the parent
   stands behind it. *)
rotatable(s) == live(s) /\ \A t \in Ids : sessions[t].parent # s

(* rotateSession: revoke the parent and insert the successor in one transaction. *)
rotateSession(c) ==
    /\ op[c].at = "rotate"
    /\ LET s == op[c].session
           rows == inserted(revoked({s}), s, op[c].role)
       IN  \/ /\ rotatable(s) /\ Room
              /\ sessions' = rows
              /\ op' = [op EXCEPT ![c] = [idle EXCEPT !.at = "answer", !.session = newId(rows)]]
           \/ /\ ~ rotatable(s)
              /\ op' = [op EXCEPT ![c] = idle]
              /\ UNCHANGED sessions
    /\ UNCHANGED <<profile, grant, change, stale>>

answer(c) ==
    /\ op[c].at \in {"answer", "resolved"}
    /\ op' = [op EXCEPT ![c] = idle]
    /\ UNCHANGED <<profile, grant, change, sessions, stale>>

(* Logging out.  An expired row neither resolves nor rotates either: to the other handlers
   the expiry of a session is this step too. *)
revoke(s) ==
    /\ live(s)
    /\ sessions' = revoked({s})
    /\ UNCHANGED <<profile, grant, change, op, stale>>

-----------------------------------------------------------------------------
(* revokeActiveSessionsForUser: the update may have begun before an insertion that has
   committed meanwhile and not see it. *)
fresh == {s \in Ids : live(s) /\ \E c \in Clients : op[c].at = "answer" /\ op[c].session = s}

revokeActiveSessionsForUser ==
    /\ \E missed \in SUBSET fresh : sessions' = revoked(Ids \ missed)
    /\ op' = [c \in Clients |-> IF op[c].at = "answer" THEN idle ELSE op[c]]

closed(glass) == IF glass \in {"live", "expired"} THEN "revoked" ELSE glass

provisionProfileWithAudit(role) ==
    /\ ~ (profile.role = "admin" /\ profile.active)
    /\ profile' = [active |-> TRUE, role |-> role, glass |-> closed(profile.glass)]
    /\ revokeActiveSessionsForUser
    /\ UNCHANGED <<grant, change, stale>>

deactivateProfileWithAudit ==
    /\ profile' = [profile EXCEPT !.active = FALSE, !.glass = closed(@)]
    /\ stale' = {s \in Ids : sessions[s] # Free}
    /\ revokeActiveSessionsForUser
    /\ UNCHANGED <<grant, change>>

grantBreakGlassAdmin ==
    /\ profile.role # "admin"
    /\ profile' = [profile EXCEPT !.glass = "live", !.active = TRUE]
    /\ revokeActiveSessionsForUser
    /\ UNCHANGED <<grant, change, stale>>

revokeBreakGlassAdmin ==
    /\ profile.glass \in {"live", "expired"}
    /\ profile' = [profile EXCEPT !.glass = "revoked"]
    /\ revokeActiveSessionsForUser
    /\ UNCHANGED <<grant, change, stale>>

(* The end of a resolve that found the authority gone: expireBreakGlass closes whatever
   elevation is on record by now, then the session is revoked. *)
expireBreakGlass(c) ==
    /\ op[c].at = "ending" /\ op[c].role = "expired" /\ profile.glass \in {"live", "expired"}
    /\ profile' = [profile EXCEPT !.glass = "revoked"]
    /\ sessions' = revoked(Ids)
    /\ op' = [op EXCEPT ![c].role = "none"]
    /\ UNCHANGED <<grant, change, stale>>

endSession(c) ==
    /\ op[c].at = "ending"
    /\ op[c].role = "expired" => profile.glass \notin {"live", "expired"}
    /\ sessions' = revoked({op[c].session})
    /\ op' = [op EXCEPT ![c] = idle]
    /\ UNCHANGED <<profile, grant, change, stale>>

-----------------------------------------------------------------------------
(* Two-person administrator changes: one pending at a time, approved by another human. *)
propose(p, kind) ==
    /\ change = None
    /\ IF kind = "grant" THEN profile.active ELSE profile.role = "admin"
    /\ change' = [kind |-> kind, by |-> p]
    /\ UNCHANGED <<profile, grant, sessions, op, stale>>

approveGrant(p) ==
    /\ change # None /\ change.kind = "grant" /\ change.by # p
    /\ profile.active
    /\ profile' = [profile EXCEPT !.role = "admin", !.glass = closed(@)]
    /\ grant' = "live" /\ change' = None
    /\ UNCHANGED <<sessions, op, stale>>

approveRevoke(p, resultingRole) ==
    /\ change # None /\ change.kind = "revoke" /\ change.by # p
    /\ profile.role = "admin"
    /\ profile' = [profile EXCEPT !.role = resultingRole]
    /\ revokeActiveSessionsForUser
    /\ grant' = "revoked" /\ change' = None
    /\ UNCHANGED stale

cancel ==
    /\ change # None /\ change' = None
    /\ UNCHANGED <<profile, grant, sessions, op, stale>>

-----------------------------------------------------------------------------

elevationExpires ==
    /\ profile.glass = "live"
    /\ profile' = [profile EXCEPT !.glass = "expired"]
    /\ UNCHANGED <<grant, change, sessions, op, stale>>

grantExpires ==
    /\ grant = "live" /\ grant' = "expired"
    /\ UNCHANGED <<profile, change, sessions, op, stale>>

SessionStep == \E c \in Clients :
    \/ \E r \in BaseRoles \cup {"admin"} : issueTrustedSession(c, r)
    \/ \E s \in Ids : resolveActive(c, s)
    \/ issue(c) \/ findById(c) \/ rotateSession(c) \/ answer(c)
    \/ expireBreakGlass(c) \/ endSession(c)

ControlStep ==
    \/ \E r \in BaseRoles : provisionProfileWithAudit(r)
    \/ deactivateProfileWithAudit \/ grantBreakGlassAdmin \/ revokeBreakGlassAdmin
    \/ \E p \in Principals, kind \in {"grant", "revoke"} : propose(p, kind)
    \/ \E p \in Principals : approveGrant(p)
    \/ \E p \in Principals, r \in BaseRoles : approveRevoke(p, r)
    \/ cancel

AuthNext ==
    \/ SessionStep \/ ControlStep
    \/ \E s \in Ids : revoke(s)
    \/ elevationExpires \/ grantExpires

AuthSpec == AuthInit /\ [][AuthNext]_vars

-----------------------------------------------------------------------------
(* An ended session stays ended.  deactivateProfileWithAudit: no session from before a
   deactivation resolves after it, although the bulk revocation may miss one that a
   refresh is just inserting and the profile may become active again.  rotateSession and
   revoke: once no session of a lineage is live, no refresh already under way brings the
   lineage back. *)
SessionsEndForGood ==
    /\ [](\A s \in stale : ~ resolves(s))
    /\ [][\A root \in Ids :
              (/\ sessions[root] # Free
               /\ \A s \in Ids : sessions[s].lineage = root => ~ live(s))
              => \A s \in Ids : sessions'[s].lineage = root => sessions'[s].status # "live"]_vars
=============================================================================
