------------------------- MODULE AdminAuditTheorems -------------------------
(***************************************************************************)
(* Recorded successes were authorized, and evidence stands, for any users, *)
(* sessions, calls and grants.                                             *)
(***************************************************************************)
EXTENDS AdminAudit, TLAPS

Calling(s) == session[s].pc \in {"admin", "capability", "insert", "returned", "raised"}

\* Rows are assignments; a session is idle or carries one of the calls.
Shape ==
  /\ assignment \subseteq Assignments
  /\ events \subseteq Calls
  /\ session \in [Sessions -> [pc : Pcs, call : Calls \cup {NoCall}]]
  /\ authorized \in [Sessions -> BOOLEAN]
  /\ \A s \in Sessions : session[s].pc = "idle" \/ session[s].call \in Calls

\* The history has noticed whatever is true now.
Noticed ==
  \A s \in Sessions : session[s].pc # "idle"
    /\ Entitled(assignment, revoked, session[s].call) => authorized[s]

\* A returned call is one of the events, each of which has its own id.
Recorded ==
  /\ \A d, e \in events : d.event = e.event => d = e
  /\ \A s \in Sessions : session[s].pc = "returned" => session[s].call \in events

IInv == Shape /\ Noticed /\ SuccessWasAuthorized /\ Recorded

\* Every role may write audits, so an active one that grants a capability
\* grants both at once (the case of canonical_admin_has_capability).
LEMMA EveryRoleRecords ==
  \A role \in Roles : "audit.write" \in RoleCapabilities[role]
BY DEF Roles, RoleCapabilities

LEMMA HolderIsEntitled ==
  ASSUME assignment \subseteq Assignments, NEW call,
         Holds(assignment, revoked, call, call.capability)
  PROVE  Entitled(assignment, revoked, call)
<1>1. PICK a \in Active(assignment, revoked) :
        a.user = call.actor /\ call.capability \in RoleCapabilities[a.role]
  BY DEF Holds
<1>2. a.role \in Roles
  BY DEF Active, Assignments
<1> QED
  BY <1>1, <1>2, EveryRoleRecords DEF Holds, Entitled

\* Taking rows away, or revoking them, entitles nobody.
LEMMA EntitledShrinks ==
  ASSUME NEW rows, NEW gone, NEW rows2, NEW gone2, NEW call,
         Active(rows2, gone2) \subseteq Active(rows, gone),
         Entitled(rows2, gone2, call)
  PROVE  Entitled(rows, gone, call)
BY DEF Entitled, Holds

LEMMA InitHolds == Init => IInv
BY DEF Init, IInv, Shape, Noticed, SuccessWasAuthorized, Recorded, Pcs

-----------------------------------------------------------------------------
(* The steps of a session *)

LEMMA BeginHolds ==
  ASSUME IInv, NEW s \in Sessions, Begin(s)
  PROVE  IInv'
<1>1. PICK call \in Calls :
        /\ session' = [session EXCEPT ![s] = [pc |-> "admin", call |-> call]]
        /\ authorized' = [authorized EXCEPT ![s] = Entitled(assignment, revoked, call)]
  BY DEF Begin
<1>2. UNCHANGED <<assignment, revoked, events>>
  BY DEF Begin, Tables
<1>3. Entitled(assignment, revoked, call) \in BOOLEAN
  BY DEF Entitled, Holds
<1>4. \A t \in Sessions : t # s =>
        session'[t] = session[t] /\ authorized'[t] = authorized[t]
  BY <1>1 DEF IInv, Shape
<1>5. session'[s] = [pc |-> "admin", call |-> call]
      /\ authorized'[s] = Entitled(assignment, revoked, call)
  BY <1>1 DEF IInv, Shape
<1>6. Shape'
  BY <1>1, <1>2, <1>3, <1>4, <1>5 DEF IInv, Shape, Pcs
<1>7. Noticed'
  BY <1>2, <1>4, <1>5 DEF IInv, Noticed
<1>8. SuccessWasAuthorized' /\ Recorded'
  BY <1>2, <1>4, <1>5 DEF IInv, SuccessWasAuthorized, Recorded
<1> QED
  BY <1>6, <1>7, <1>8 DEF IInv

\* A step to pc that changes no table and no history.
LEMMA GotoHolds ==
  ASSUME IInv, NEW s \in Sessions, NEW pc \in Pcs \ {"idle"},
         session[s].pc # "idle", Goto(s, pc),
         UNCHANGED <<assignment, revoked, authorized>>,
         events \subseteq events', events' \subseteq Calls,
         \A d, e \in events' : d.event = e.event => d = e,
         pc = "returned" => session[s].call \in events',
         pc \in {"insert", "returned"} /\ session[s].call.outcome = "succeeded"
           => authorized[s]
  PROVE  IInv'
<1>1. session' = [session EXCEPT ![s].pc = pc]
  BY DEF Goto
<1>2. \A t \in Sessions : t # s => session'[t] = session[t]
  BY <1>1 DEF IInv, Shape
<1>3. session'[s].pc = pc /\ session'[s].call = session[s].call
  BY <1>1 DEF IInv, Shape
<1>4. Shape'
  BY <1>1, <1>2, <1>3 DEF IInv, Shape
<1>5. Noticed'
  BY <1>2, <1>3 DEF IInv, Noticed
<1>6. SuccessWasAuthorized'
  BY <1>2, <1>3 DEF IInv, SuccessWasAuthorized
<1>7. Recorded'
  BY <1>2, <1>3 DEF IInv, Recorded
<1> QED
  BY <1>4, <1>5, <1>6, <1>7 DEF IInv

LEMMA CheckHolds ==
  ASSUME IInv, NEW s \in Sessions,
         CheckAdministrator(s) \/ CheckCapability(s) \/ Abort(s)
  PROVE  IInv'
<1>1. UNCHANGED <<assignment, revoked, authorized, events>> /\ session[s].pc # "idle"
  BY DEF CheckAdministrator, CheckCapability, Abort, ReadOnly, Tables
<1>2. \A d, e \in events' : d.event = e.event => d = e
  BY <1>1 DEF IInv, Recorded
<1>3. events' \subseteq Calls
  BY <1>1 DEF IInv, Shape
<1>4. CASE CheckCapability(s) /\ Goto(s, "insert")
  <2>1. session[s].call.outcome = "succeeded" =>
          HasCapability(s, session[s].call.capability)
    <3>1. session[s].pc = "capability" /\ session \in [Sessions -> [pc : Pcs, call : Calls \cup {NoCall}]]
      BY <1>4 DEF CheckCapability, IInv, Shape
    <3>2. session'[s].pc = "insert"
      BY <1>4, <3>1 DEF Goto
    <3>3. ~Goto(s, "raised")
      BY <3>1, <3>2 DEF Goto
    <3> QED
      BY <1>4, <3>3 DEF CheckCapability
  <2>2. session[s].call.outcome = "succeeded" => authorized[s]
    BY <2>1, <1>1, HolderIsEntitled DEF IInv, Shape, Noticed, HasCapability
  <2> QED
    BY <1>1, <1>2, <1>3, <1>4, <2>2, GotoHolds DEF Pcs
<1>5. CASE \E pc \in {"capability", "raised"} : Goto(s, pc)
  BY <1>1, <1>2, <1>3, <1>5, GotoHolds DEF Pcs
<1> QED
  BY <1>4, <1>5 DEF CheckAdministrator, CheckCapability, Abort

LEMMA InsertHolds ==
  ASSUME IInv, NEW s \in Sessions, InsertEvent(s)
  PROVE  IInv'
<1> DEFINE call == session[s].call
<1>1. UNCHANGED <<assignment, revoked, authorized>> /\ session[s].pc = "insert"
  BY DEF InsertEvent, Tables
<1>2. call \in Calls /\ events \subseteq Calls
  BY <1>1 DEF IInv, Shape
<1>3. call.outcome = "succeeded" => authorized[s]
  BY <1>1 DEF IInv, SuccessWasAuthorized
<1>4. \A d, e \in events : d.event = e.event => d = e
  BY DEF IInv, Recorded
<1>5. CASE Goto(s, "returned") /\ events' = events \cup {call}
           /\ \A e \in events : e.event # call.event
  <2>1. \A d, e \in events' : d.event = e.event => d = e
    BY <1>4, <1>5
  <2> QED
    BY <1>1, <1>2, <1>3, <1>5, <2>1, GotoHolds DEF Pcs
<1>6. CASE Goto(s, "raised") /\ UNCHANGED events
  BY <1>1, <1>2, <1>4, <1>6, GotoHolds DEF Pcs
<1> QED
  BY <1>5, <1>6 DEF InsertEvent

-----------------------------------------------------------------------------
(* The steps of the migration owner and of auth.users *)

LEMMA GrantHolds ==
  ASSUME IInv, NEW row \in Grants, Grant(row)
  PROVE  IInv'
<1>1. UNCHANGED <<events, session>> /\ Witness(assignment', revoked')
      /\ assignment' \subseteq assignment \cup {row}
  BY DEF Grant
<1>2. \A s \in Sessions : authorized'[s] <=> authorized[s] \/
        (session[s].call # NoCall /\ Entitled(assignment', revoked', session[s].call))
  BY <1>1 DEF Witness
<1>3. \A s \in Sessions : session[s].pc # "idle" => session[s].call # NoCall
  BY AuditAssumption DEF IInv, Shape
<1>4. authorized' \in [Sessions -> BOOLEAN]
  BY <1>1 DEF Witness
<1>5. Shape'
  BY <1>1, <1>4, AuditAssumption DEF IInv, Shape
<1>6. Noticed'
  BY <1>1, <1>2, <1>3 DEF Noticed
<1>7. SuccessWasAuthorized' /\ Recorded'
  BY <1>1, <1>2 DEF IInv, SuccessWasAuthorized, Recorded
<1> QED
  BY <1>5, <1>6, <1>7 DEF IInv

\* Nobody becomes entitled, and nothing else the invariant reads changes.
LEMMA RemovalHolds ==
  ASSUME IInv, UNCHANGED <<events, session, authorized>>,
         assignment' \subseteq assignment,
         Active(assignment, revoked)' \subseteq Active(assignment, revoked)
  PROVE  IInv'
<1>1. Shape'
  BY DEF IInv, Shape
<1>2. Noticed'
  <2> SUFFICES ASSUME NEW s \in Sessions, session[s].pc # "idle",
                      Entitled(assignment', revoked', session[s].call)
               PROVE  authorized[s]
    BY DEF Noticed
  <2>1. Active(assignment', revoked') \subseteq Active(assignment, revoked)
    BY DEF Active
  <2>2. Entitled(assignment, revoked, session[s].call)
    BY <2>1, EntitledShrinks
  <2> QED
    BY <2>2 DEF IInv, Noticed
<1>3. SuccessWasAuthorized' /\ Recorded'
  BY DEF IInv, SuccessWasAuthorized, Recorded
<1> QED
  BY <1>1, <1>2, <1>3 DEF IInv

LEMMA RevokeHolds ==
  ASSUME IInv, NEW key \in Users \X Roles, Revoke(key)
  PROVE  IInv'
<1>1. Active(assignment, revoked)' \subseteq Active(assignment, revoked)
  BY DEF Revoke, Active
<1> QED
  BY <1>1, RemovalHolds DEF Revoke

LEMMA DeleteHolds ==
  ASSUME IInv, NEW user \in Users, DeleteUser(user)
  PROVE  IInv'
<1>1. assignment' = {a \in assignment : a.user # user}
      /\ revoked' = {key \in revoked : key[1] # user}
      /\ UNCHANGED <<events, session, authorized>>
  BY DEF DeleteUser
<1>2. \A a : <<a.user, a.role>>[1] = a.user
  OBVIOUS
<1>3. Active(assignment, revoked)' \subseteq Active(assignment, revoked)
  BY <1>1, <1>2 DEF Active
<1> QED
  BY <1>1, <1>3, RemovalHolds

LEMMA StutterHolds ==
  ASSUME IInv, UNCHANGED vars
  PROVE  IInv'
BY DEF vars, IInv, Shape, Noticed, SuccessWasAuthorized, Recorded, Entitled, Holds,
       Active

\* The inductive invariant holds throughout.
THEOREM Inductive == Spec => []IInv
<1>1. IInv /\ [Next]_vars => IInv'
  BY BeginHolds, CheckHolds, InsertHolds, GrantHolds, RevokeHolds, DeleteHolds,
     StutterHolds DEF Next
<1> QED
  BY InitHolds, <1>1, PTL DEF Spec

\* A recorded success was one its actor was entitled to at one moment of the
\* call, for every interleaving of its two checks with grants and revocations.
THEOREM SuccessesAreAuthorized == Spec => []SuccessWasAuthorized
<1>1. IInv => SuccessWasAuthorized
  BY DEF IInv
<1> QED
  BY Inductive, <1>1, PTL

\* A call that returned is recorded as it was made, and no id twice.
THEOREM ReturnedCallsAreRecorded == Spec => []ReturnedIsRecorded
<1>1. IInv => ReturnedIsRecorded
  BY DEF IInv, Recorded, ReturnedIsRecorded
<1> QED
  BY Inductive, <1>1, PTL

\* Evidence is append-only.
THEOREM EvidenceIsAppendOnly == Spec => EvidenceStands
<1>1. [Next]_vars => [events \subseteq events']_vars
  BY DEF Next, vars, Begin, CheckAdministrator, CheckCapability, InsertEvent, Abort,
         Grant, Revoke, DeleteUser, ReadOnly
<1> QED
  BY <1>1, PTL DEF Spec, EvidenceStands
-----------------------------------------------------------------------------
(* Referential integrity, which needs no session's history *)

References ==
  /\ users \subseteq Users
  /\ assignment \subseteq [user : users, role : Roles, granted_by : users]
  /\ revoked \subseteq {<<a.user, a.role>> : a \in assignment}
  /\ \A e \in events : e \in Calls /\ e.actor \in users /\ e.outcome \in Outcomes
                       /\ e.capability \in AuditCapabilities

\* No step leaves a reference behind, or records what a check forbids.
LEMMA ReferencesKept ==
  ASSUME References, Shape, [Next]_vars
  PROVE  References'
<1>1. ASSUME NEW s \in Sessions,
             Begin(s) \/ CheckAdministrator(s) \/ CheckCapability(s) \/ Abort(s)
      PROVE  References'
  BY <1>1 DEF References, Begin, CheckAdministrator, CheckCapability, Abort,
              ReadOnly, Tables
<1>2. ASSUME NEW s \in Sessions, InsertEvent(s) PROVE References'
  <2>1. UNCHANGED <<users, assignment, revoked>>
    BY <1>2 DEF InsertEvent, Tables
  <2>2. \/ UNCHANGED events
        \/ /\ events' = events \cup {session[s].call}
           /\ session[s].call.actor \in users
           /\ session[s].call.outcome \in Outcomes
           /\ session[s].call.capability \in AuditCapabilities
    BY <1>2 DEF InsertEvent
  <2>3. session[s].call \in Calls
    BY <1>2 DEF InsertEvent, Shape
  <2> QED
    BY <2>1, <2>2, <2>3 DEF References
<1>3. ASSUME NEW row \in Grants, Grant(row) PROVE References'
  <2>1. row \in [user : users, role : Roles, granted_by : users]
    BY <1>3, AuditAssumption DEF Grant, Assignments
  <2>2. UNCHANGED <<users, events>>
    BY <1>3 DEF Grant
  <2>3. assignment' \subseteq assignment \cup {row} /\ assignment \subseteq assignment'
        /\ revoked' \subseteq revoked
    BY <1>3 DEF Grant
  <2> QED
    BY <2>1, <2>2, <2>3 DEF References
<1>4. ASSUME NEW key \in Users \X Roles, Revoke(key) PROVE References'
  BY <1>4 DEF References, Revoke
<1>5. ASSUME NEW user \in Users, DeleteUser(user) PROVE References'
  <2>1. assignment' \subseteq [user : users', role : Roles, granted_by : users']
    BY <1>5 DEF References, DeleteUser
  <2>2. revoked' \subseteq {<<a.user, a.role>> : a \in assignment'}
    <3>1. ASSUME NEW key \in revoked' PROVE \E a \in assignment' : key = <<a.user, a.role>>
      <4>1. key \in revoked /\ key[1] # user
        BY <1>5 DEF DeleteUser
      <4>2. PICK a \in assignment : key = <<a.user, a.role>>
        BY <4>1 DEF References
      <4>3. a \in assignment'
        BY <1>5, <4>1, <4>2 DEF DeleteUser
      <4> QED
        BY <4>2, <4>3
    <3> QED
      BY <3>1
  <2>3. users' \subseteq Users /\ events' = events /\ \A e \in events : e.actor \in users'
    BY <1>5 DEF References, DeleteUser
  <2> QED
    BY <2>1, <2>2, <2>3 DEF References
<1>6. ASSUME UNCHANGED vars PROVE References'
  BY <1>6 DEF References, vars
<1> QED
  BY <1>1, <1>2, <1>3, <1>4, <1>5, <1>6 DEF Next

\* Every role, grant and event refers to users that exist, every revocation to
\* an assignment, and every event satisfies the table's checks, whoever is
\* deleted in whatever order: the references restrict or cascade as they must.
THEOREM TypeCorrect == Spec => []TypeOK
<1>1. Init => References
  BY DEF Init, References
<1>2. References /\ IInv /\ [Next]_vars => References'
  BY ReferencesKept DEF IInv
<1>3. References /\ IInv => TypeOK
  BY DEF References, IInv, Shape, TypeOK
<1> QED
  BY <1>1, <1>2, <1>3, Inductive, PTL DEF Spec
=============================================================================
