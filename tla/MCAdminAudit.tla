---------------------------- MODULE MCAdminAudit ----------------------------
(* Two sessions whose calls share an event id, and roles that differ in what *)
(* the calls need.                                                           *)
EXTENDS AdminAudit

CONSTANTS ann, bob, e1, e2

Call(actor, event, capability, outcome) ==
  [actor |-> actor, aal2 |-> TRUE, event |-> event,
   capability |-> capability, outcome |-> outcome]
MCCalls == {
  Call(ann, e1, "engagement.write", "succeeded"),
  Call(ann, e1, "user.read", "succeeded"),
  Call(bob, e1, "engagement.write", "denied"),
  Call(ann, e2, "unlisted", "denied"),
  [Call(ann, e2, "user.read", "succeeded") EXCEPT !.aal2 = FALSE]}

\* Roles that differ in what the calls need, granted by bob, also to himself.
MCGrants == {[user |-> user, role |-> role, granted_by |-> bob] :
               user \in {ann, bob}, role \in {"support", "compliance_admin"}}
=============================================================================
