----------------------------- MODULE AdminAudit -----------------------------
(***************************************************************************)
(* Administrators' capabilities and their audit trail, src/sql/schema.sql: *)
(* concurrent calls of canonical_admin_append_audit, each statement of     *)
(* which sees its own read-committed snapshot, while the migration owner   *)
(* grants and revokes roles and users are deleted.  Replies get lost and   *)
(* callers repeat calls.                                                   *)
(***************************************************************************)
EXTENDS Naturals, FiniteSets

CONSTANTS
  Sessions, \* database sessions of the admin runtime
  Users,    \* rows auth.users begins with
  Calls,    \* what sessions call the function with, see CallType
  EventIds, \* event ids, chosen by the caller
  Grants,   \* assignments the migration owner makes
  NoCall    \* a session that never called

RoleCapabilities == [
  support |-> {"user.read", "engagement.read", "audit.write"},
  user_admin |-> {"user.read", "user.invite", "user.disable", "audit.write"},
  compliance_admin |-> {"engagement.read", "engagement.write", "audit.write"},
  security_admin |-> {"user.read", "user.invite", "user.disable", "engagement.read",
                      "engagement.write", "role.manage", "audit.read", "audit.write"}]
Roles == {"support", "user_admin", "compliance_admin", "security_admin"}
AuditCapabilities ==
  {"user.read", "user.invite", "user.disable", "engagement.read",
   "engagement.write", "role.manage", "audit.read", "audit.write"}
Outcomes == {"succeeded", "denied", "failed"}

\* actor: auth.uid() of the verified claims.  aal2: their assurance level is.
CallType == [actor : Users, aal2 : BOOLEAN, event : EventIds,
             capability : STRING, outcome : STRING]

Assignments == [user : Users, role : Roles, granted_by : Users]

ASSUME AuditAssumption ==
  /\ Calls \subseteq CallType /\ NoCall \notin CallType
  /\ Grants \subseteq Assignments

VARIABLES
  users,      \* auth.users
  assignment, \* admin_role_assignment: rows [user, role, granted_by]
  revoked,    \* keys <<user, role>> of rows whose revoked_at is set
  events,     \* admin_audit_event, by id
  session,    \* session[s]: pc, call
  \* history, read by the properties only
  authorized  \* authorized[s]: since its call began there was a moment at which
              \* its actor could write audits and do what the call records

vars == <<users, assignment, revoked, events, session, authorized>>

Pcs == {"idle", "admin", "capability", "insert", "returned", "raised"}
TypeOK ==
  /\ users \subseteq Users
  /\ assignment \subseteq [user : users, role : Roles, granted_by : users]
  /\ revoked \subseteq {<<a.user, a.role>> : a \in assignment}
  /\ \A e \in events : e \in Calls /\ e.actor \in users /\ e.outcome \in Outcomes
                       /\ e.capability \in AuditCapabilities
  /\ \A s \in Sessions : session[s].pc \in Pcs
       /\ session[s].call \in Calls \cup {NoCall}
  /\ authorized \in [Sessions -> BOOLEAN]

Init ==
  /\ users = Users
  /\ assignment = {} /\ revoked = {}
  /\ events = {}
  /\ session = [s \in Sessions |-> [pc |-> "idle", call |-> NoCall]]
  /\ authorized = [s \in Sessions |-> FALSE]

-----------------------------------------------------------------------------
(* canonical_admin_has_capability *)

Active(rows, gone) == {a \in rows : <<a.user, a.role>> \notin gone}

Holds(rows, gone, call, capability) ==
  /\ call.aal2
  /\ \E a \in Active(rows, gone) :
       a.user = call.actor /\ capability \in RoleCapabilities[a.role]

HasCapability(s, capability) ==
  Holds(assignment, revoked, session[s].call, capability)

\* Both at one moment, for the properties; the rows are those after a step.
Entitled(rows, gone, call) ==
  Holds(rows, gone, call, "audit.write") /\ Holds(rows, gone, call, call.capability)
Witness(rows, gone) ==
  authorized' = [s \in Sessions |-> authorized[s] \/
    (session[s].call # NoCall /\ Entitled(rows, gone, session[s].call))]

-----------------------------------------------------------------------------
(* canonical_admin_append_audit *)

Goto(s, pc) == session' = [session EXCEPT ![s].pc = pc]
Tables == UNCHANGED <<users, assignment, revoked>>
ReadOnly == Tables /\ UNCHANGED <<events, authorized>>

\* A new call, or the repetition of one whose reply was lost.
Begin(s) ==
  /\ session[s].pc \in {"idle", "returned", "raised"}
  /\ \E call \in Calls :
       /\ session' = [session EXCEPT ![s] = [pc |-> "admin", call |-> call]]
       /\ authorized' = [authorized EXCEPT ![s] = Entitled(assignment, revoked, call)]
  /\ Tables /\ UNCHANGED events

CheckAdministrator(s) ==
  /\ session[s].pc = "admin"
  /\ Goto(s, IF HasCapability(s, "audit.write") THEN "capability" ELSE "raised")
  /\ ReadOnly

\* Mutant: an active administrator may record any success.
CheckNothing(s) ==
  /\ session[s].pc = "capability" /\ Goto(s, "insert")
  /\ ReadOnly

CheckCapability(s) ==
  /\ session[s].pc = "capability"
  /\ Goto(s, IF session[s].call.outcome = "succeeded"
                /\ ~HasCapability(s, session[s].call.capability)
             THEN "raised" ELSE "insert")
  /\ ReadOnly

\* Mutant: insert ... on conflict (id) do nothing.
InsertOrIgnore(s) ==
  /\ session[s].pc = "insert"
  /\ LET call == session[s].call IN
     IF /\ call.actor \in users
        /\ call.capability \in AuditCapabilities
        /\ call.outcome \in Outcomes
     THEN /\ Goto(s, "returned")
          /\ events' = IF \E e \in events : e.event = call.event THEN events
                       ELSE events \cup {call}
     ELSE Goto(s, "raised") /\ UNCHANGED events
  /\ Tables /\ UNCHANGED authorized

\* The constraints of admin_audit_event decide, and the caller commits.
InsertEvent(s) ==
  /\ session[s].pc = "insert"
  /\ LET call == session[s].call IN
     IF /\ \A e \in events : e.event # call.event
        /\ call.actor \in users
        /\ call.capability \in AuditCapabilities
        /\ call.outcome \in Outcomes
     THEN Goto(s, "returned") /\ events' = events \cup {call}
     ELSE Goto(s, "raised") /\ UNCHANGED events
  /\ Tables /\ UNCHANGED authorized

\* The connection breaks and the transaction is rolled back.
Abort(s) ==
  /\ session[s].pc \in {"admin", "capability", "insert"}
  /\ Goto(s, "raised") /\ ReadOnly

-----------------------------------------------------------------------------
(* The migration owner, and auth.users *)

\* Insert a row, or clear revoked_at of the one row a key may have.
Grant(row) ==
  /\ {row.user, row.granted_by} \subseteq users
  /\ \/ /\ \A a \in assignment : <<a.user, a.role>> # <<row.user, row.role>>
        /\ assignment' = assignment \cup {row}
        /\ UNCHANGED revoked
     \/ /\ row \in assignment
        /\ revoked' = revoked \ {<<row.user, row.role>>}
        /\ UNCHANGED assignment
  /\ Witness(assignment', revoked')
  /\ UNCHANGED <<users, events, session>>

Revoke(key) ==
  /\ key \notin revoked
  /\ \E a \in assignment : <<a.user, a.role>> = key
  /\ revoked' = revoked \cup {key}
  /\ UNCHANGED <<users, assignment, events, session, authorized>>

\* on delete restrict of actor_id and granted_by; the cascade of user_id was
\* declared before and takes the roles first that users granted to themselves.
DeleteUser(user) ==
  /\ user \in users
  /\ \A e \in events : e.actor # user
  /\ \A a \in assignment : a.granted_by = user => a.user = user
  /\ users' = users \ {user}
  /\ assignment' = {a \in assignment : a.user # user}
  /\ revoked' = {key \in revoked : key[1] # user}
  /\ UNCHANGED <<events, session, authorized>>

Next ==
  \/ \E s \in Sessions : \/ Begin(s) \/ CheckAdministrator(s) \/ CheckCapability(s)
                         \/ InsertEvent(s) \/ Abort(s)
  \/ \E row \in Grants : Grant(row)
  \/ \E key \in Users \X Roles : Revoke(key)
  \/ \E user \in Users : DeleteUser(user)

Spec == Init /\ [][Next]_vars

-----------------------------------------------------------------------------
(* Properties *)

\* Whoever is recorded, or about to be, as having succeeded, could do it and
\* could write audits at one and the same moment of the call, although the two
\* checks see different snapshots and roles come and go between them.
SuccessWasAuthorized ==
  \A s \in Sessions :
    session[s].pc \in {"insert", "returned"} /\ session[s].call.outcome = "succeeded"
      => authorized[s]

\* Nothing is recorded twice under one id, and a call that returned its id is
\* in the table as it was made: not in the words of another call that used the
\* id, before or after it, however often replies are lost and calls repeated.
ReturnedIsRecorded ==
  /\ \A d, e \in events : d.event = e.event => d = e
  /\ \A s \in Sessions : session[s].pc = "returned" => session[s].call \in events

\* No step removes or changes evidence, not even the deletion of a user.
EvidenceStands == [][events \subseteq events']_vars
=============================================================================
