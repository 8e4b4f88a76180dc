------------------------------ MODULE Publisher ------------------------------
(***************************************************************************)
(* scripts/ops-create-meta-agent-repo-selfhosted.py, run by the workflow   *)
(* ops-create-meta-agent-repo-selfhosted.yml: obtain an owner token by     *)
(* device authorization, check the owner, create one repository on GitHub, *)
(* push two pinned refs, configure and verify it, and report the verdict   *)
(* as a comment.  Every network call can fail, with or without effect; the *)
(* job can be killed between any two calls; other people can change the    *)
(* repository at any time; and the workflow can be run again.              *)
(***************************************************************************)
EXTENDS Naturals, FiniteSets

CONSTANTS
  Runs,           \* the runs of the workflow
  MaxFaults,      \* bound: calls that fail or lose their reply
  MaxForeign,     \* bound: changes by somebody else
  MaxPolls,       \* bound: polls that fit in the life of a device code
  BundleKinds,    \* what the recovered bundle may turn out to be
  CloneOutcomes   \* sets of local branches `git clone` of it may create

ASSUME PublisherAssumption ==
  /\ MaxFaults \in Nat /\ MaxForeign \in Nat /\ MaxPolls \in Nat \ {0}
  /\ BundleKinds \subseteq {"exact", "corrupt", "otherHeads"}
  /\ CloneOutcomes \subseteq SUBSET {"main", "feature"}

VARIABLES
  phase,     \* phase[r]: the call run r makes next, or how it ended
  holder,    \* holder[r]: whose access token run r holds
  answer,    \* answer[r]: what was answered to the device code of run r
  left,      \* left[r]: polls that still reach GitHub in the code's life
  comments,  \* comments[r]: comments of run r that exist on the issue
  remote,    \* the target repository on GitHub
  admin,     \* the expected owner is an active admin of the organization
  bundle,    \* what the recovered bundle is
  local,     \* the local branches a clone of the bundle gets
  faults,    \* failed calls so far
  foreign,   \* changes by others so far
  \* history, read by the properties only
  seen,      \* seen[r]: facts that held when run r looked
  wrote,     \* wrote[r]: run r changed the repository
  faulted,   \* faulted[r]: a call of run r failed or lost its reply
  moved      \* moved[r]: somebody changed the repository since r's ls-remote

codeVars == <<phase, holder, left, comments>>
history  == <<seen, wrote, faulted, moved>>
world    == <<answer, admin, bundle, local, foreign>>
vars == <<phase, holder, answer, left, comments, remote, admin, bundle, local,
          faults, foreign, seen, wrote, faulted, moved>>

Facts == {"owner", "admin", "bundle", "refs", "metadata", "main", "feature"}

Calls == {"device", "invite", "polling", "user", "membership", "bundle",
          "lookup", "create", "clone", "pushMain", "pushFeature", "configure",
          "lsRemote", "verifyRepo", "verifyMain", "verifyFeature", "announce"}
Ended  == {"done", "failed", "killed"}
Phases == {"waiting", "report"} \cup Calls \cup Ended

\* The pinned commit, one it descends from, and one it does not.
Commits == {"absent", "ancestor", "expected", "other"}

Repository == [exists : BOOLEAN, public : BOOLEAN, defaultMain : BOOLEAN,
               main : Commits, feature : Commits]
NoRepository == [exists |-> FALSE, public |-> FALSE, defaultMain |-> FALSE,
                 main |-> "absent", feature |-> "absent"]

Active(r) == phase[r] \in Calls \cup {"report"}

RefsExact(rem)     == rem.main = "expected" /\ rem.feature = "expected"
MetadataExact(rem) == rem.exists /\ rem.public /\ rem.defaultMain

TypeOK ==
  /\ phase \in [Runs -> Phases]
  /\ holder \in [Runs -> {"none", "owner", "other"}]
  /\ answer \in [Runs -> {"none", "owner", "other", "denied"}]
  /\ left \in [Runs -> 0..MaxPolls]
  /\ comments \in [Runs -> SUBSET {"authorize", "success", "failure"}]
  /\ remote \in Repository
  /\ admin \in BOOLEAN
  /\ bundle \in BundleKinds
  /\ local \in CloneOutcomes
  /\ faults \in 0..MaxFaults
  /\ foreign \in 0..MaxForeign
  /\ seen \in [Runs -> SUBSET Facts]
  /\ wrote \in [Runs -> BOOLEAN]
  /\ faulted \in [Runs -> BOOLEAN]
  /\ moved \in [Runs -> BOOLEAN]

Init ==
  /\ phase = [r \in Runs |-> "waiting"]
  /\ holder = [r \in Runs |-> "none"]
  /\ answer = [r \in Runs |-> "none"]
  /\ left = [r \in Runs |-> 0]
  /\ comments = [r \in Runs |-> {}]
  /\ remote = NoRepository
  /\ admin \in BOOLEAN
  /\ bundle \in BundleKinds
  /\ local \in CloneOutcomes
  /\ faults = 0
  /\ foreign = 0
  /\ seen = [r \in Runs |-> {}]
  /\ wrote = [r \in Runs |-> FALSE]
  /\ faulted = [r \in Runs |-> FALSE]
  /\ moved = [r \in Runs |-> FALSE]

-----------------------------------------------------------------------------
(* How a step of main() ends: the next statement, or its except clause.    *)

Goto(r, p) == phase' = [phase EXCEPT ![r] = p]
Raise(r)   == Goto(r, "report")

\* The call of run r fails, or its reply is lost: request_json raises.
Fault(r) ==
  /\ faults < MaxFaults
  /\ faults' = faults + 1
  /\ faulted' = [faulted EXCEPT ![r] = TRUE]
NoFault == UNCHANGED <<faults, faulted>>

\* A read of the code that passes when `holds`, remembering that it held.
Check(r, from, fact, holds, to) ==
  /\ phase[r] = from
  /\ IF holds THEN Goto(r, to) /\ seen' = [seen EXCEPT ![r] = @ \cup {fact}]
              ELSE Raise(r) /\ UNCHANGED seen
  /\ UNCHANGED <<holder, left, comments, remote, wrote, moved>>
  /\ NoFault /\ UNCHANGED world

\* A call that fails before it has any effect.
CallFails(r) ==
  /\ phase[r] \in Calls \ {"bundle"}
  /\ Fault(r)
  /\ Raise(r)
  /\ UNCHANGED <<holder, left, comments, remote, seen, wrote, moved>>
  /\ UNCHANGED world

-----------------------------------------------------------------------------
(* authorize *)

\* The workflow's concurrency group: one run at a time, none cancelled.
Start(r) ==
  /\ phase[r] = "waiting"
  /\ \A q \in Runs : ~Active(q)
  /\ Goto(r, "device")
  /\ UNCHANGED <<holder, left, comments, remote>> /\ UNCHANGED history
  /\ UNCHANGED faults /\ UNCHANGED world

RequestDeviceCode(r) ==
  /\ phase[r] = "device"
  /\ Goto(r, "invite")
  /\ UNCHANGED <<holder, left, comments, remote>> /\ UNCHANGED history
  /\ UNCHANGED faults /\ UNCHANGED world

\* add_comment: the comment exists, and its reply arrives or is lost.
Comment(r, body, next) ==
  /\ comments' = [comments EXCEPT ![r] = @ \cup {body}]
  /\ \/ Goto(r, next) /\ NoFault
     \/ Raise(r) /\ Fault(r)

\* The invitation is posted; only then does the deadline start to run.  How
\* much of the code's life the posting takes is not known.
Invite(r) ==
  /\ phase[r] = "invite"
  /\ Comment(r, "authorize", "polling")
  /\ \E n \in 0..MaxPolls : left' = [left EXCEPT ![r] = n]
  /\ UNCHANGED <<holder, remote, seen, wrote, moved>> /\ UNCHANGED world

\* Mutant: the loop condition `time.monotonic() < deadline` is dropped.
PollWithoutDeadline(r) ==
  /\ phase[r] = "polling"
  /\ CASE answer[r] \in {"owner", "other"} ->
            /\ holder' = [holder EXCEPT ![r] = answer[r]]
            /\ Goto(r, "user")
            /\ UNCHANGED left
       [] answer[r] = "denied" -> Raise(r) /\ UNCHANGED <<holder, left>>
       [] answer[r] = "none" ->
            /\ left' = [left EXCEPT ![r] = @ - 1]
            /\ UNCHANGED <<phase, holder>>
  /\ UNCHANGED <<comments, remote>> /\ UNCHANGED history
  /\ UNCHANGED faults /\ UNCHANGED world

\* Mutant: every authorization_pending starts a new window, so the loop
\* goes on for as long as nobody answers, and no expiry is noticed.
PollRenewed(r) ==
  /\ phase[r] = "polling"
  /\ left[r] > 0
  /\ left' = [left EXCEPT ![r] = IF @ = 1 THEN MaxPolls ELSE @ - 1]
  /\ UNCHANGED <<phase, holder>>
  /\ UNCHANGED <<comments, remote>> /\ UNCHANGED history
  /\ UNCHANGED faults /\ UNCHANGED world

\* One turn of the polling loop: a token, a refusal, authorization_pending, or
\* slow_down, whatever was answered, with a longer interval from now on.
Poll(r) ==
  /\ phase[r] = "polling"
  /\ left[r] > 0
  /\ \/ /\ answer[r] \in {"owner", "other"}
        /\ holder' = [holder EXCEPT ![r] = answer[r]]
        /\ Goto(r, "user")
        /\ UNCHANGED left
     \/ answer[r] = "denied" /\ Raise(r) /\ UNCHANGED <<holder, left>>
     \/ /\ answer[r] = "none"
        /\ left' = [left EXCEPT ![r] = @ - 1]
        /\ UNCHANGED <<phase, holder>>
     \/ /\ \E n \in 0..(left[r] - 1) : left' = [left EXCEPT ![r] = n]
        /\ UNCHANGED <<phase, holder>>
  /\ UNCHANGED <<comments, remote>> /\ UNCHANGED history
  /\ UNCHANGED faults /\ UNCHANGED world

\* No further poll reaches GitHub in the code's life: the next one, if there
\* is one, is told expired_token, or the loop ends.  An approval during the
\* sleep before it comes too late.
Expire(r) ==
  /\ phase[r] = "polling"
  /\ left[r] = 0
  /\ Raise(r)
  /\ UNCHANGED <<holder, left, comments, remote>> /\ UNCHANGED history
  /\ UNCHANGED faults /\ UNCHANGED world

-----------------------------------------------------------------------------
(* verify_owner *)

VerifyLogin(r) ==
  Check(r, "user", "owner", holder[r] = "owner", "membership")
\* Mutant: membership is read but role and state are not compared.
VerifyAnyMembership(r) ==
  /\ phase[r] = "membership"
  /\ Goto(r, "bundle")
  /\ seen' = [seen EXCEPT ![r] = IF admin THEN @ \cup {"admin"} ELSE @]
  /\ UNCHANGED <<holder, left, comments, remote, wrote, moved>>
  /\ NoFault /\ UNCHANGED world
VerifyMembership(r) == Check(r, "membership", "admin", admin, "bundle")

-----------------------------------------------------------------------------
(* publish_exact_repository *)

\* _read_bundle_parts and list-heads, before anything is changed on GitHub.
ReadBundle(r) == Check(r, "bundle", "bundle", bundle = "exact", "lookup")

\* Mutant: always POST, as if no earlier run could have created it.
LookupAlwaysCreates(r) ==
  /\ phase[r] = "lookup"
  /\ Goto(r, "create")
  /\ UNCHANGED <<holder, left, comments, remote>> /\ UNCHANGED history
  /\ UNCHANGED faults /\ UNCHANGED world

\* repository_metadata: 404 means create, a private repository is refused.
Lookup(r) ==
  /\ phase[r] = "lookup"
  /\ CASE ~remote.exists -> Goto(r, "create")
       [] remote.exists /\ remote.public -> Goto(r, "clone")
       [] remote.exists /\ ~remote.public -> Raise(r)
  /\ UNCHANGED <<holder, left, comments, remote>> /\ UNCHANGED history
  /\ UNCHANGED faults /\ UNCHANGED world

\* The repositories a changing call may leave; none when GitHub refuses it.
Created(rem) ==
  IF rem.exists THEN {}
  ELSE {[NoRepository EXCEPT !.exists = TRUE, !.public = TRUE,
                             !.defaultMain = d] : d \in BOOLEAN}
\* Mutant: push --force.
ForcePushed(rem, branch) ==
  IF rem.exists THEN {[rem EXCEPT ![branch] = "expected"]} ELSE {}
\* A push without --force is accepted only as a fast-forward.
Pushed(rem, branch) ==
  IF rem.exists /\ rem[branch] # "other"
  THEN {[rem EXCEPT ![branch] = "expected"]} ELSE {}
\* The default branch must exist.
Configured(rem) ==
  IF rem.exists /\ rem.main # "absent"
  THEN {[rem EXCEPT !.defaultMain = TRUE]} ELSE {}

\* A changing call: done, done but with its reply lost, or refused.
Change(r, from, results, to) ==
  /\ phase[r] = from
  /\ \/ /\ remote' \in results
        /\ wrote' = [wrote EXCEPT ![r] = TRUE]
        /\ \/ Goto(r, to) /\ NoFault
           \/ Raise(r) /\ Fault(r)
     \/ /\ results = {}
        /\ Raise(r)
        /\ NoFault
        /\ UNCHANGED <<remote, wrote>>
  /\ UNCHANGED <<holder, left, comments, seen, moved>> /\ UNCHANGED world

Create(r) == Change(r, "create", Created(remote), "clone")

\* rev-parse needs the feature branch as a LOCAL branch of the fresh clone.
Clone(r) ==
  /\ phase[r] = "clone"
  /\ IF "feature" \in local THEN Goto(r, "pushMain") ELSE Raise(r)
  /\ UNCHANGED <<holder, left, comments, remote>> /\ UNCHANGED history
  /\ UNCHANGED faults /\ UNCHANGED world

PushMain(r) ==
  Change(r, "pushMain", Pushed(remote, "main"), "pushFeature")
PushFeature(r) ==
  Change(r, "pushFeature", Pushed(remote, "feature"), "configure")
Configure(r) == Change(r, "configure", Configured(remote), "lsRemote")

\* ls-remote lists both refs at one moment.
LsRemote(r) ==
  /\ phase[r] = "lsRemote"
  /\ IF RefsExact(remote)
     THEN Goto(r, "verifyRepo") /\ seen' = [seen EXCEPT ![r] = @ \cup {"refs"}]
     ELSE Raise(r) /\ UNCHANGED seen
  /\ moved' = [moved EXCEPT ![r] = FALSE]
  /\ UNCHANGED <<holder, left, comments, remote, wrote>>
  /\ NoFault /\ UNCHANGED world

-----------------------------------------------------------------------------
(* verify_target, and the end of main *)

\* Mutant: visibility and default branch are not compared again.
VerifyRepoIdentity(r) ==
  /\ phase[r] = "verifyRepo"
  /\ IF remote.exists THEN Goto(r, "verifyMain") ELSE Raise(r)
  /\ seen' = [seen EXCEPT ![r] =
                IF MetadataExact(remote) THEN @ \cup {"metadata"} ELSE @]
  /\ UNCHANGED <<holder, left, comments, remote, wrote, moved>>
  /\ NoFault /\ UNCHANGED world
VerifyRepo(r) ==
  Check(r, "verifyRepo", "metadata", MetadataExact(remote), "verifyMain")
VerifyMain(r) ==
  Check(r, "verifyMain", "main", remote.main = "expected", "verifyFeature")
VerifyFeature(r) ==
  Check(r, "verifyFeature", "feature", remote.feature = "expected", "announce")

\* Mutant: main() falls through to the failure comment.
AnnounceAndReport(r) ==
  /\ phase[r] = "announce"
  /\ Comment(r, "success", "report")
  /\ UNCHANGED <<holder, left, remote, seen, wrote, moved>> /\ UNCHANGED world

\* "Created and verified ...": if its reply is lost, the except clause runs.
Announce(r) ==
  /\ phase[r] = "announce"
  /\ Comment(r, "success", "done")
  /\ UNCHANGED <<holder, left, remote, seen, wrote, moved>> /\ UNCHANGED world

\* The except clause: "... creation failed before live ref verification",
\* whether or not the comment gets through; then a non-zero exit.
Report(r) ==
  /\ phase[r] = "report"
  /\ Goto(r, "failed")
  /\ \/ /\ comments' = [comments EXCEPT ![r] = @ \cup {"failure"}]
        /\ NoFault
     \/ UNCHANGED comments /\ Fault(r)
  /\ UNCHANGED <<holder, left, remote, seen, wrote, moved>> /\ UNCHANGED world

-----------------------------------------------------------------------------
(* The environment *)

\* timeout-minutes, a cancelled job or a lost runner: no handler runs.
Kill(r) ==
  /\ Active(r)
  /\ Goto(r, "killed")
  /\ UNCHANGED <<holder, left, comments, remote>> /\ UNCHANGED history
  /\ UNCHANGED faults /\ UNCHANGED world

\* Somebody who reads the invitation answers the device code while it lives,
\* also when no poll is left that could notice.
Answer(r) ==
  /\ phase[r] = "polling"
  /\ answer[r] = "none"
  /\ \E a \in {"owner", "other", "denied"} : answer' = [answer EXCEPT ![r] = a]
  /\ UNCHANGED <<remote, admin, bundle, local, faults, foreign>>
  /\ UNCHANGED codeVars /\ UNCHANGED history

\* Repositories somebody else's single change may leave.
ForeignResults(rem) ==
  IF ~rem.exists
  THEN {[NoRepository EXCEPT !.exists = TRUE, !.public = p] : p \in BOOLEAN}
  ELSE {NoRepository} \cup {[rem EXCEPT !.main = c] : c \in Commits}
       \cup {[rem EXCEPT !.feature = c] : c \in Commits}
       \cup {[rem EXCEPT !.public = p] : p \in BOOLEAN}
       \cup {[rem EXCEPT !.defaultMain = d] : d \in BOOLEAN}

ForeignChange ==
  /\ foreign < MaxForeign
  /\ foreign' = foreign + 1
  /\ \/ /\ remote' \in ForeignResults(remote) \ {remote}
        /\ moved' = [r \in Runs |-> TRUE]
        /\ UNCHANGED admin
     \/ admin' = ~admin /\ UNCHANGED <<remote, moved>>
  /\ UNCHANGED <<answer, bundle, local, faults, seen, wrote, faulted>>
  /\ UNCHANGED codeVars

RunStep(r) ==
  \/ RequestDeviceCode(r) \/ Invite(r) \/ Poll(r) \/ Expire(r)
  \/ VerifyLogin(r) \/ VerifyMembership(r)
  \/ ReadBundle(r) \/ Lookup(r) \/ Create(r) \/ Clone(r)
  \/ PushMain(r) \/ PushFeature(r) \/ Configure(r) \/ LsRemote(r)
  \/ VerifyRepo(r) \/ VerifyMain(r) \/ VerifyFeature(r)
  \/ Announce(r) \/ Report(r) \/ CallFails(r)

Next ==
  \/ \E r \in Runs : Start(r) \/ RunStep(r) \/ Kill(r) \/ Answer(r)
  \/ ForeignChange

Spec == Init /\ [][Next]_vars

\* timeout-minutes: a call that does not return is killed with its job.
FairSpec == Spec /\ \A r \in Runs : WF_vars(RunStep(r) \/ Kill(r))

-----------------------------------------------------------------------------
(* Properties *)

\* A run changes the repository only after it has seen, in this order or
\* any other, that its token is the expected owner's, that the owner is an
\* active admin, and that the bundle is the pinned one.
WritesAreVetted ==
  \A r \in Runs : wrote[r] => {"owner", "admin", "bundle"} \subseteq seen[r]

\* Each claim of a success comment was observed by the run that posted it.
SuccessIsObserved ==
  \A r \in Runs : "success" \in comments[r] =>
    {"refs", "metadata", "main", "feature"} \subseteq seen[r]

\* When a success comment exists and nobody has touched the repository since
\* that run's ls-remote, the repository is public, on main, and both refs are
\* the pinned commits: verification is done after the last change.
SuccessIsTrue ==
  \A r \in Runs : "success" \in comments[r] /\ ~moved[r] =>
    MetadataExact(remote) /\ RefsExact(remote)

\* A run that got the owner's token, with the owner an active admin, the bundle
\* the pinned one, no failed call of its own and no change by others so far.
Clean(r) == /\ holder[r] = "owner" /\ admin /\ bundle = "exact"
            /\ ~faulted[r] /\ foreign = 0

\* A clean run does not fail, whatever earlier runs left behind: what the script
\* is run for.
CleanRunSucceeds ==
  \A r \in Runs : Clean(r) => phase[r] \notin {"report", "failed"}

\* Whatever half-done state earlier killed or failed runs left in the
\* repository, a clean run raises at one call only: at the clone, where git
\* gives it no local feature branch.  Lookup, creation, pushes, configuration
\* and verification all take up what they find.
OnlyTheCloneFails ==
  [][\A r \in Runs :
       Clean(r)' /\ phase'[r] = "report" /\ phase[r] # "report" =>
         phase[r] = "clone" /\ "feature" \notin local]_vars

\* The publisher never removes or replaces a commit it did not expect: only
\* somebody else's change may take a branch away from "other".
ForeignWorkSurvives ==
  [][foreign' = foreign =>
       /\ remote.main = "other" => remote'.main = "other"
       /\ remote.feature = "other" => remote'.feature = "other"]_vars

\* What a run's authorize() is to main().
Verdict(r) == IF answer[r] \in {"owner", "other"} THEN "approved"
              ELSE IF answer[r] = "denied" THEN "denied" ELSE "none"
Outcome(r) == IF holder[r] # "none" THEN "token"
              ELSE IF phase[r] \in {"waiting", "device", "invite", "polling"}
                   THEN "none" ELSE "raised"

Grant(r) == INSTANCE DeviceGrant WITH verdict <- Verdict(r), outcome <- Outcome(r)

\* The loop without its clock implements the same promise as DeviceAuth: for
\* every run, each step is a step of its DeviceGrant or none.
GrantsBegin == \A r \in Runs : Grant(r)!Init
GrantsStep  == \A r \in Runs : [Grant(r)!Next]_(Grant(r)!vars)
AuthorizationsAreGrants == GrantsBegin /\ [][GrantsStep]_vars

\* Every run that starts ends, so the workflow's concurrency group is freed.
RunsEnd == \A r \in Runs : Active(r) ~> ~Active(r)

\* A run that got through live ref verification and still comments that it
\* failed has lost a call, which is its success comment's: nothing else of
\* main() after the verification reaches the except clause.
LateFailureLostACall ==
  \A r \in Runs :
    "failure" \in comments[r] /\ {"refs", "metadata", "main", "feature"} \subseteq seen[r]
      => faulted[r]
=============================================================================
