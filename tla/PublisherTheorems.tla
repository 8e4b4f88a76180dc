-------------------------- MODULE PublisherTheorems --------------------------
(***************************************************************************)
(* Proofs about Publisher for every set of runs and every bound on faults, *)
(* changes by others and polls.                                            *)
(***************************************************************************)
EXTENDS Publisher, TLAPS

\* Moving a run to another call of the program keeps the type of phase.
LEMMA GotoType ==
  ASSUME phase \in [Runs -> Phases], NEW r \in Runs, NEW p \in Phases,
         Goto(r, p)
  PROVE  phase' \in [Runs -> Phases]
BY DEF Goto

LEMMA PhasesAre ==
  /\ Calls \subseteq Phases /\ Ended \subseteq Phases
  /\ {"waiting", "report"} \subseteq Phases
  /\ {"device", "invite", "polling", "user", "membership", "bundle", "lookup",
      "create", "clone", "pushMain", "pushFeature", "configure", "lsRemote",
      "verifyRepo", "verifyMain", "verifyFeature", "announce", "done",
      "failed", "killed"} \subseteq Phases
BY DEF Phases, Calls, Ended

\* Counting a failed call keeps the types of the two variables that count it.
LEMMA FaultType ==
  ASSUME faults \in 0..MaxFaults, faulted \in [Runs -> BOOLEAN],
         NEW r \in Runs, Fault(r)
  PROVE  faults' \in 0..MaxFaults /\ faulted' \in [Runs -> BOOLEAN]
<1>1. faults' \in 0..MaxFaults
  BY PublisherAssumption, SMT DEF Fault
<1>2. faulted' \in [Runs -> BOOLEAN]
  BY Zenon DEF Fault
<1>3. QED
  BY <1>1, <1>2

\* What the changing calls and other people leave is again a repository.
LEMMA CreatedType ==
  ASSUME NEW rem \in Repository PROVE Created(rem) \subseteq Repository
<1>1. SUFFICES ASSUME NEW d \in BOOLEAN
               PROVE  [NoRepository EXCEPT !.exists = TRUE, !.public = TRUE,
                                           !.defaultMain = d] \in Repository
  BY DEF Created
<1>2. NoRepository \in Repository
  BY DEF Repository, NoRepository, Commits
<1>3. QED
  BY <1>2 DEF Repository

LEMMA PushedType ==
  ASSUME NEW rem \in Repository, NEW branch \in {"main", "feature"}
  PROVE  Pushed(rem, branch) \subseteq Repository
<1>1. CASE branch = "main"
  BY <1>1 DEF Pushed, Repository, Commits
<1>2. CASE branch = "feature"
  BY <1>2 DEF Pushed, Repository, Commits
<1>3. QED
  BY <1>1, <1>2

LEMMA ConfiguredType ==
  ASSUME NEW rem \in Repository PROVE Configured(rem) \subseteq Repository
BY DEF Configured, Repository

LEMMA ForeignType ==
  ASSUME NEW rem \in Repository
  PROVE  ForeignResults(rem) \subseteq Repository
<1>1. CASE ~rem.exists
  <2>1. NoRepository \in Repository
    BY DEF Repository, NoRepository, Commits
  <2>2. ASSUME NEW p \in BOOLEAN
        PROVE  [NoRepository EXCEPT !.exists = TRUE, !.public = p]
                 \in Repository
    BY <2>1 DEF Repository
  <2>3. QED
    BY <1>1, <2>2 DEF ForeignResults
<1>2. CASE rem.exists
  <2>1. {[rem EXCEPT !.main = c] : c \in Commits} \subseteq Repository
    BY DEF Repository
  <2>2. {[rem EXCEPT !.feature = c] : c \in Commits} \subseteq Repository
    BY DEF Repository
  <2>3. {[rem EXCEPT !.public = p] : p \in BOOLEAN} \subseteq Repository
    BY DEF Repository
  <2>4. {[rem EXCEPT !.defaultMain = d] : d \in BOOLEAN} \subseteq Repository
    BY DEF Repository
  <2>5. NoRepository \in Repository
    BY DEF Repository, NoRepository, Commits
  <2>6. QED
    BY <1>2, <2>1, <2>2, <2>3, <2>4, <2>5 DEF ForeignResults
<1>3. QED
  BY <1>1, <1>2 DEF Repository

\* Every step keeps the type invariant.
LEMMA TypeStep == TypeOK /\ [Next]_vars => TypeOK'
<1> SUFFICES ASSUME TypeOK, [Next]_vars PROVE TypeOK'
  OBVIOUS
<1> USE DEF TypeOK, codeVars, history, world
<1>1. ASSUME NEW r \in Runs, Start(r) \/ RequestDeviceCode(r) \/ Lookup(r)
             \/ Clone(r) \/ Expire(r) \/ Kill(r)
      PROVE TypeOK'
  <2>1. phase' \in [Runs -> Phases]
    BY <1>1, GotoType, PhasesAre DEF Start, RequestDeviceCode, Lookup, Clone, Expire, Kill, Raise
  <2>2. faults' \in 0..MaxFaults /\ faulted' \in [Runs -> BOOLEAN]
    BY <1>1, FaultType DEF Start, RequestDeviceCode, Lookup, Clone, Expire, Kill, NoFault
  <2>3. /\ holder' \in [Runs -> {"none", "owner", "other"}]
        /\ left' \in [Runs -> 0..MaxPolls]
        /\ comments' \in [Runs -> SUBSET {"authorize", "success", "failure"}]
    BY <1>1, PublisherAssumption DEF Start, RequestDeviceCode, Lookup, Clone, Expire, Kill
  <2>4. remote' \in Repository
    BY <1>1 DEF Start, RequestDeviceCode, Lookup, Clone, Expire, Kill, Repository, NoRepository, Commits
  <2>5. /\ seen' \in [Runs -> SUBSET Facts]
        /\ wrote' \in [Runs -> BOOLEAN]
        /\ moved' \in [Runs -> BOOLEAN]
    BY <1>1 DEF Start, RequestDeviceCode, Lookup, Clone, Expire, Kill, Facts
  <2>6. QED
    BY <1>1, <2>1, <2>2, <2>3, <2>4, <2>5 DEF Start, RequestDeviceCode, Lookup, Clone, Expire, Kill
<1>2. ASSUME NEW r \in Runs, Invite(r)
      PROVE TypeOK'
  <2>1. phase' \in [Runs -> Phases]
    BY <1>2, GotoType, PhasesAre DEF Invite, Comment, Raise
  <2>2. faults' \in 0..MaxFaults /\ faulted' \in [Runs -> BOOLEAN]
    BY <1>2, FaultType DEF Invite, Comment, NoFault
  <2>3. /\ holder' \in [Runs -> {"none", "owner", "other"}]
        /\ left' \in [Runs -> 0..MaxPolls]
        /\ comments' \in [Runs -> SUBSET {"authorize", "success", "failure"}]
    BY <1>2, PublisherAssumption DEF Invite, Comment
  <2>4. remote' \in Repository
    BY <1>2 DEF Invite, Comment, Repository, NoRepository, Commits
  <2>5. /\ seen' \in [Runs -> SUBSET Facts]
        /\ wrote' \in [Runs -> BOOLEAN]
        /\ moved' \in [Runs -> BOOLEAN]
    BY <1>2 DEF Invite, Comment, Facts
  <2>6. QED
    BY <1>2, <2>1, <2>2, <2>3, <2>4, <2>5 DEF Invite, Comment
<1>3. ASSUME NEW r \in Runs, Announce(r)
      PROVE TypeOK'
  <2>1. phase' \in [Runs -> Phases]
    BY <1>3, GotoType, PhasesAre DEF Announce, Comment, Raise
  <2>2. faults' \in 0..MaxFaults /\ faulted' \in [Runs -> BOOLEAN]
    BY <1>3, FaultType DEF Announce, Comment, NoFault
  <2>3. /\ holder' \in [Runs -> {"none", "owner", "other"}]
        /\ left' \in [Runs -> 0..MaxPolls]
        /\ comments' \in [Runs -> SUBSET {"authorize", "success", "failure"}]
    BY <1>3, PublisherAssumption DEF Announce, Comment
  <2>4. remote' \in Repository
    BY <1>3 DEF Announce, Comment, Repository, NoRepository, Commits
  <2>5. /\ seen' \in [Runs -> SUBSET Facts]
        /\ wrote' \in [Runs -> BOOLEAN]
        /\ moved' \in [Runs -> BOOLEAN]
    BY <1>3 DEF Announce, Comment, Facts
  <2>6. QED
    BY <1>3, <2>1, <2>2, <2>3, <2>4, <2>5 DEF Announce, Comment
<1>4. ASSUME NEW r \in Runs, Poll(r)
      PROVE TypeOK'
  <2>1. phase' \in [Runs -> Phases]
    BY <1>4, GotoType, PhasesAre DEF Poll, Raise
  <2>2. faults' \in 0..MaxFaults /\ faulted' \in [Runs -> BOOLEAN]
    BY <1>4, FaultType DEF Poll, NoFault
  <2>3. /\ holder' \in [Runs -> {"none", "owner", "other"}]
        /\ left' \in [Runs -> 0..MaxPolls]
        /\ comments' \in [Runs -> SUBSET {"authorize", "success", "failure"}]
    <3>1. \A n \in 0..(left[r] - 1) : n \in 0..MaxPolls
      BY PublisherAssumption
    <3>2. left[r] > 0 => left[r] - 1 \in 0..(left[r] - 1)
      OBVIOUS
    <3>3. \/ UNCHANGED left
          \/ \E n \in 0..MaxPolls : left' = [left EXCEPT ![r] = n]
      BY <1>4, <3>1, <3>2 DEF Poll
    <3>4. left' \in [Runs -> 0..MaxPolls]
      BY <3>3
    <3>5. holder' \in [Runs -> {"none", "owner", "other"}]
      BY <1>4 DEF Poll
    <3> QED
      BY <1>4, <3>4, <3>5 DEF Poll
  <2>4. remote' \in Repository
    BY <1>4 DEF Poll, Repository, NoRepository, Commits
  <2>5. /\ seen' \in [Runs -> SUBSET Facts]
        /\ wrote' \in [Runs -> BOOLEAN]
        /\ moved' \in [Runs -> BOOLEAN]
    BY <1>4 DEF Poll, Facts
  <2>6. QED
    BY <1>4, <2>1, <2>2, <2>3, <2>4, <2>5 DEF Poll
<1>5. ASSUME NEW r \in Runs, VerifyLogin(r) \/ VerifyMembership(r)
             \/ ReadBundle(r) \/ VerifyRepo(r) \/ VerifyMain(r)
             \/ VerifyFeature(r)
      PROVE TypeOK'
  <2>1. phase' \in [Runs -> Phases]
    BY <1>5, GotoType, PhasesAre DEF VerifyLogin, VerifyMembership, ReadBundle, VerifyRepo,
        VerifyMain, VerifyFeature, Check, Raise
  <2>2. faults' \in 0..MaxFaults /\ faulted' \in [Runs -> BOOLEAN]
    BY <1>5, FaultType DEF VerifyLogin, VerifyMembership, ReadBundle, VerifyRepo,
        VerifyMain, VerifyFeature, Check, NoFault
  <2>3. /\ holder' \in [Runs -> {"none", "owner", "other"}]
        /\ left' \in [Runs -> 0..MaxPolls]
        /\ comments' \in [Runs -> SUBSET {"authorize", "success", "failure"}]
    BY <1>5, PublisherAssumption DEF VerifyLogin, VerifyMembership, ReadBundle, VerifyRepo,
        VerifyMain, VerifyFeature, Check
  <2>4. remote' \in Repository
    BY <1>5 DEF VerifyLogin, VerifyMembership, ReadBundle, VerifyRepo,
        VerifyMain, VerifyFeature, Check, Repository, NoRepository, Commits
  <2>5. /\ seen' \in [Runs -> SUBSET Facts]
        /\ wrote' \in [Runs -> BOOLEAN]
        /\ moved' \in [Runs -> BOOLEAN]
    BY <1>5 DEF VerifyLogin, VerifyMembership, ReadBundle, VerifyRepo,
        VerifyMain, VerifyFeature, Check, Facts
  <2>6. QED
    BY <1>5, <2>1, <2>2, <2>3, <2>4, <2>5 DEF VerifyLogin, VerifyMembership, ReadBundle, VerifyRepo,
        VerifyMain, VerifyFeature, Check
<1>6. ASSUME NEW r \in Runs, Create(r) \/ PushMain(r) \/ PushFeature(r)
             \/ Configure(r)
      PROVE TypeOK'
  <2>1. phase' \in [Runs -> Phases]
    BY <1>6, GotoType, PhasesAre DEF Create, PushMain, PushFeature, Configure, Change, Raise
  <2>2. faults' \in 0..MaxFaults /\ faulted' \in [Runs -> BOOLEAN]
    BY <1>6, FaultType DEF Create, PushMain, PushFeature, Configure, Change, NoFault
  <2>3. /\ holder' \in [Runs -> {"none", "owner", "other"}]
        /\ left' \in [Runs -> 0..MaxPolls]
        /\ comments' \in [Runs -> SUBSET {"authorize", "success", "failure"}]
    BY <1>6, PublisherAssumption DEF Create, PushMain, PushFeature, Configure, Change
  <2>4. remote' \in Repository
    BY <1>6, CreatedType, PushedType, ConfiguredType
       DEF Create, PushMain, PushFeature, Configure, Change
  <2>5. /\ seen' \in [Runs -> SUBSET Facts]
        /\ wrote' \in [Runs -> BOOLEAN]
        /\ moved' \in [Runs -> BOOLEAN]
    BY <1>6 DEF Create, PushMain, PushFeature, Configure, Change, Facts
  <2>6. QED
    BY <1>6, <2>1, <2>2, <2>3, <2>4, <2>5 DEF Create, PushMain, PushFeature, Configure, Change
<1>7. ASSUME NEW r \in Runs, LsRemote(r)
      PROVE TypeOK'
  <2>1. phase' \in [Runs -> Phases]
    BY <1>7, GotoType, PhasesAre DEF LsRemote, Raise
  <2>2. faults' \in 0..MaxFaults /\ faulted' \in [Runs -> BOOLEAN]
    BY <1>7, FaultType DEF LsRemote, NoFault
  <2>3. /\ holder' \in [Runs -> {"none", "owner", "other"}]
        /\ left' \in [Runs -> 0..MaxPolls]
        /\ comments' \in [Runs -> SUBSET {"authorize", "success", "failure"}]
    BY <1>7, PublisherAssumption DEF LsRemote
  <2>4. remote' \in Repository
    BY <1>7 DEF LsRemote, Repository, NoRepository, Commits
  <2>5. /\ seen' \in [Runs -> SUBSET Facts]
        /\ wrote' \in [Runs -> BOOLEAN]
        /\ moved' \in [Runs -> BOOLEAN]
    BY <1>7 DEF LsRemote, Facts
  <2>6. QED
    BY <1>7, <2>1, <2>2, <2>3, <2>4, <2>5 DEF LsRemote
<1>8. ASSUME NEW r \in Runs, Report(r)
      PROVE TypeOK'
  <2>1. phase' \in [Runs -> Phases]
    BY <1>8, GotoType, PhasesAre DEF Report, Raise
  <2>2. faults' \in 0..MaxFaults /\ faulted' \in [Runs -> BOOLEAN]
    BY <1>8, FaultType DEF Report, NoFault
  <2>3. /\ holder' \in [Runs -> {"none", "owner", "other"}]
        /\ left' \in [Runs -> 0..MaxPolls]
        /\ comments' \in [Runs -> SUBSET {"authorize", "success", "failure"}]
    BY <1>8, PublisherAssumption DEF Report
  <2>4. remote' \in Repository
    BY <1>8 DEF Report, Repository, NoRepository, Commits
  <2>5. /\ seen' \in [Runs -> SUBSET Facts]
        /\ wrote' \in [Runs -> BOOLEAN]
        /\ moved' \in [Runs -> BOOLEAN]
    BY <1>8 DEF Report, Facts
  <2>6. QED
    BY <1>8, <2>1, <2>2, <2>3, <2>4, <2>5 DEF Report
<1>9. ASSUME NEW r \in Runs, CallFails(r)
      PROVE TypeOK'
  <2>1. phase' \in [Runs -> Phases]
    BY <1>9, GotoType, PhasesAre DEF CallFails, Raise
  <2>2. faults' \in 0..MaxFaults /\ faulted' \in [Runs -> BOOLEAN]
    BY <1>9, FaultType DEF CallFails, NoFault
  <2>3. /\ holder' \in [Runs -> {"none", "owner", "other"}]
        /\ left' \in [Runs -> 0..MaxPolls]
        /\ comments' \in [Runs -> SUBSET {"authorize", "success", "failure"}]
    BY <1>9, PublisherAssumption DEF CallFails
  <2>4. remote' \in Repository
    BY <1>9 DEF CallFails, Repository, NoRepository, Commits
  <2>5. /\ seen' \in [Runs -> SUBSET Facts]
        /\ wrote' \in [Runs -> BOOLEAN]
        /\ moved' \in [Runs -> BOOLEAN]
    BY <1>9 DEF CallFails, Facts
  <2>6. QED
    BY <1>9, <2>1, <2>2, <2>3, <2>4, <2>5 DEF CallFails
<1>10. ASSUME NEW r \in Runs, Answer(r) PROVE TypeOK'
  BY <1>10 DEF Answer
<1>11. ASSUME ForeignChange PROVE TypeOK'
  <2>1. remote' \in Repository
    BY <1>11, ForeignType DEF ForeignChange
  <2>2. foreign' \in 0..MaxForeign
    BY <1>11, PublisherAssumption DEF ForeignChange
  <2>3. QED
    BY <1>11, <2>1, <2>2 DEF ForeignChange
<1>12. CASE UNCHANGED vars
  BY <1>12 DEF vars
<1>13. QED
  BY <1>1, <1>2, <1>3, <1>4, <1>5, <1>6, <1>7, <1>8, <1>9, <1>10, <1>11,
     <1>12 DEF Next, RunStep

\* Every variable of the publisher keeps its type: phases, comments, the
\* repository on GitHub and the counters stay within their declared sets.
THEOREM TypeCorrect == Spec => []TypeOK
<1>1. Init => TypeOK
  BY PublisherAssumption DEF Init, TypeOK, Phases, Repository, NoRepository,
     Commits
<1>2. QED
  BY <1>1, TypeStep, PTL DEF Spec

-----------------------------------------------------------------------------
(* What a run has observed when it is about to make a call.                *)

AfterFeature == {"announce"}
AfterMain    == AfterFeature \cup {"verifyFeature"}
AfterRepo    == AfterMain \cup {"verifyMain"}
AfterRefs    == AfterRepo \cup {"verifyRepo"}
AfterBundle  == AfterRefs \cup {"lookup", "create", "clone", "pushMain",
                                "pushFeature", "configure", "lsRemote"}
AfterAdmin   == AfterBundle \cup {"bundle"}
AfterOwner   == AfterAdmin \cup {"membership"}

Progress(r) ==
  /\ phase[r] \in AfterOwner => "owner" \in seen[r]
  /\ phase[r] \in AfterAdmin => "admin" \in seen[r]
  /\ phase[r] \in AfterBundle => "bundle" \in seen[r]
  /\ phase[r] \in AfterRefs => "refs" \in seen[r]
  /\ phase[r] \in AfterRepo => "metadata" \in seen[r]
  /\ phase[r] \in AfterMain => "main" \in seen[r]
  /\ phase[r] \in AfterFeature => "feature" \in seen[r]

\* A run that posted its success comment is at its end.
Announced(r) ==
  "success" \in comments[r] => phase[r] \in {"report"} \cup Ended

Observed ==
  /\ \A r \in Runs : Progress(r) /\ Announced(r)
  /\ WritesAreVetted
  /\ SuccessIsObserved

LEMMA ObservedStep == TypeOK /\ Observed /\ [Next]_vars => Observed'
<1> SUFFICES ASSUME TypeOK, Observed, [Next]_vars PROVE Observed'
  OBVIOUS
<1> USE DEF TypeOK, Observed, codeVars, history, world, Goto, Raise,
        Progress, Announced, WritesAreVetted, SuccessIsObserved, Ended,
        AfterFeature, AfterMain, AfterRepo, AfterRefs, AfterBundle,
        AfterAdmin, AfterOwner
<1>1. ASSUME NEW r \in Runs, Start(r) \/ RequestDeviceCode(r) \/ Lookup(r)
             \/ Clone(r) \/ Expire(r) \/ Kill(r)
      PROVE Observed'
  <2>1. CASE Start(r)
    BY <2>1 DEF Start
  <2>2. CASE RequestDeviceCode(r)
    BY <2>2 DEF RequestDeviceCode
  <2>3. CASE Lookup(r)
    <3>1. \E p \in {"create", "clone", "report"} : Goto(r, p)
      BY <2>3 DEF Lookup, Repository
    <3>2. QED
      BY <2>3, <3>1 DEF Lookup
  <2>4. CASE Clone(r)
    BY <2>4 DEF Clone
  <2>5. CASE Expire(r)
    BY <2>5 DEF Expire
  <2>6. CASE Kill(r)
    BY <2>6 DEF Kill
  <2>7. QED
    BY <1>1, <2>1, <2>2, <2>3, <2>4, <2>5, <2>6
<1>2. ASSUME NEW r \in Runs, Invite(r) PROVE Observed'
  BY <1>2 DEF Invite, Comment
<1>3. ASSUME NEW r \in Runs, Announce(r) PROVE Observed'
  BY <1>3 DEF Announce, Comment
<1>4. ASSUME NEW r \in Runs, Poll(r) PROVE Observed'
  <2>1. Goto(r, "user") \/ Goto(r, "report") \/ UNCHANGED phase
    BY <1>4 DEF Poll
  <2>2. phase[r] = "polling" /\ UNCHANGED <<comments, seen, wrote>>
    BY <1>4 DEF Poll
  <2>3. QED
    BY <2>1, <2>2
<1>5. ASSUME NEW r \in Runs, VerifyLogin(r) \/ VerifyMembership(r)
             \/ ReadBundle(r) \/ VerifyRepo(r) \/ VerifyMain(r)
             \/ VerifyFeature(r)
      PROVE Observed'
  <2>1. CASE VerifyLogin(r)
    BY <2>1 DEF VerifyLogin, Check
  <2>2. CASE VerifyMembership(r)
    BY <2>2 DEF VerifyMembership, Check
  <2>3. CASE ReadBundle(r)
    BY <2>3 DEF ReadBundle, Check
  <2>4. CASE VerifyRepo(r)
    BY <2>4 DEF VerifyRepo, Check
  <2>5. CASE VerifyMain(r)
    BY <2>5 DEF VerifyMain, Check
  <2>6. CASE VerifyFeature(r)
    BY <2>6 DEF VerifyFeature, Check
  <2>7. QED
    BY <1>5, <2>1, <2>2, <2>3, <2>4, <2>5, <2>6
<1>6. ASSUME NEW r \in Runs, Create(r) \/ PushMain(r) \/ PushFeature(r)
             \/ Configure(r)
      PROVE Observed'
  <2>1. CASE Create(r)
    BY <2>1 DEF Create, Change
  <2>2. CASE PushMain(r)
    BY <2>2 DEF PushMain, Change
  <2>3. CASE PushFeature(r)
    BY <2>3 DEF PushFeature, Change
  <2>4. CASE Configure(r)
    BY <2>4 DEF Configure, Change
  <2>5. QED
    BY <1>6, <2>1, <2>2, <2>3, <2>4
<1>7. ASSUME NEW r \in Runs, LsRemote(r) PROVE Observed'
  BY <1>7 DEF LsRemote
<1>8. ASSUME NEW r \in Runs, Report(r) PROVE Observed'
  BY <1>8 DEF Report
<1>9. ASSUME NEW r \in Runs, CallFails(r) PROVE Observed'
  BY <1>9 DEF CallFails, Calls
<1>10. CASE (\E r \in Runs : Answer(r)) \/ ForeignChange \/ UNCHANGED vars
  BY <1>10 DEF Answer, ForeignChange, vars
<1>11. QED
  BY <1>1, <1>2, <1>3, <1>4, <1>5, <1>6, <1>7, <1>8, <1>9, <1>10
     DEF Next, RunStep

LEMMA ObservedInit == Init => Observed
BY DEF Init, Observed, Progress, Announced, WritesAreVetted,
   SuccessIsObserved, AfterOwner, AfterAdmin, AfterBundle, AfterRefs,
   AfterRepo, AfterMain, AfterFeature

\* Nothing is created, pushed or configured by a run whose token is not the
\* expected owner's, who is not an active admin, or whose bundle is not the
\* pinned one.
THEOREM VettedWrites == Spec => []WritesAreVetted
<1>1. Observed => WritesAreVetted
  BY DEF Observed
<1>2. QED
  BY <1>1, TypeCorrect, ObservedInit, ObservedStep, PTL DEF Spec

\* A success comment exists only for a run that itself observed every fact
\* the comment states.
THEOREM ObservedSuccess == Spec => []SuccessIsObserved
<1>1. Observed => SuccessIsObserved
  BY DEF Observed
<1>2. QED
  BY <1>1, TypeCorrect, ObservedInit, ObservedStep, PTL DEF Spec

-----------------------------------------------------------------------------
(* The repository between ls-remote and the success comment, and after.    *)

\* A push or a PATCH of a later run finds its work done, so what an earlier
\* run verified stays true of everything the publisher does.
Verified(r) ==
  ~moved[r] =>
    /\ phase[r] \in AfterRefs \/ "success" \in comments[r]
         => RefsExact(remote)
    /\ phase[r] \in AfterRepo \/ "success" \in comments[r]
         => MetadataExact(remote)

\* A repository that does not exist has no branches.
NoStrayRefs ==
  ~remote.exists => remote.main = "absent" /\ remote.feature = "absent"

Undisturbed == NoStrayRefs /\ \A r \in Runs : Verified(r)

\* What each changing call does when GitHub does not refuse it.
LEMMA CreateEffect ==
  ASSUME NEW r \in Runs, Create(r)
  PROVE  \/ UNCHANGED remote
         \/ /\ ~remote.exists
            /\ remote'.exists
            /\ remote'.main = "absent"
            /\ remote'.feature = "absent"
<1>1. CASE remote' \in Created(remote)
  <2>1. ~remote.exists
    BY <1>1 DEF Created
  <2>2. PICK d \in BOOLEAN :
          remote' = [NoRepository EXCEPT !.exists = TRUE, !.public = TRUE,
                                         !.defaultMain = d]
    BY <1>1, <2>1 DEF Created
  <2>3. QED
    BY <2>1, <2>2 DEF NoRepository
<1>2. CASE UNCHANGED remote
  BY <1>2
<1>3. QED
  BY <1>1, <1>2 DEF Create, Change

LEMMA PushMainEffect ==
  ASSUME NEW r \in Runs, PushMain(r)
  PROVE  \/ UNCHANGED remote
         \/ /\ remote.exists
            /\ remote.main # "other"
            /\ remote' = [remote EXCEPT !.main = "expected"]
BY DEF PushMain, Change, Pushed

LEMMA PushFeatureEffect ==
  ASSUME NEW r \in Runs, PushFeature(r)
  PROVE  \/ UNCHANGED remote
         \/ /\ remote.exists
            /\ remote.feature # "other"
            /\ remote' = [remote EXCEPT !.feature = "expected"]
BY DEF PushFeature, Change, Pushed

LEMMA ConfigureEffect ==
  ASSUME NEW r \in Runs, Configure(r)
  PROVE  \/ UNCHANGED remote
         \/ /\ remote.exists
            /\ remote' = [remote EXCEPT !.defaultMain = TRUE]
BY DEF Configure, Change, Configured

\* Changing calls keep exact refs, exact metadata and unexpected commits.
LEMMA ChangesKeep ==
  ASSUME TypeOK, NoStrayRefs, NEW r \in Runs,
         Create(r) \/ PushMain(r) \/ PushFeature(r) \/ Configure(r)
  PROVE  /\ RefsExact(remote) => RefsExact(remote')
         /\ MetadataExact(remote) => MetadataExact(remote')
         /\ NoStrayRefs'
         /\ remote.main = "other" => remote'.main = "other"
         /\ remote.feature = "other" => remote'.feature = "other"
<1> USE DEF TypeOK, Repository, RefsExact, MetadataExact, NoStrayRefs
<1>1. CASE UNCHANGED remote
  BY <1>1
<1>2. CASE Create(r)
  BY <1>1, <1>2, CreateEffect
<1>3. CASE PushMain(r)
  BY <1>1, <1>3, PushMainEffect
<1>4. CASE PushFeature(r)
  BY <1>1, <1>4, PushFeatureEffect
<1>5. CASE Configure(r)
  BY <1>1, <1>5, ConfigureEffect
<1>6. QED
  BY <1>2, <1>3, <1>4, <1>5

\* A step that leaves the repository and `moved` alone, and moves run r only
\* to a call for which nothing more must have been verified.
LEMMA MoveKeeps ==
  ASSUME TypeOK, Undisturbed, NEW r \in Runs, NEW p \in Phases, Goto(r, p),
         UNCHANGED <<remote, moved>>,
         \A q \in Runs : "success" \in comments'[q] =>
           "success" \in comments[q] \/ phase[q] \in AfterRepo,
         p \in AfterRefs => phase[r] \in AfterRefs,
         p \in AfterRepo => phase[r] \in AfterRepo
  PROVE  Undisturbed'
<1>1. NoStrayRefs'
  BY DEF Undisturbed, NoStrayRefs
<1>2. ASSUME NEW q \in Runs PROVE Verified(q)'
  <2>1. phase'[q] \in AfterRefs => phase[q] \in AfterRefs
    BY DEF Goto, TypeOK
  <2>2. phase'[q] \in AfterRepo => phase[q] \in AfterRepo
    BY DEF Goto, TypeOK
  <2>3. phase[q] \in AfterRepo => phase[q] \in AfterRefs
    BY DEF AfterRefs
  <2>4. QED
    BY <2>1, <2>2, <2>3 DEF Undisturbed, Verified
<1>3. QED
  BY <1>1, <1>2 DEF Undisturbed

LEMMA UndisturbedStep ==
  TypeOK /\ Observed /\ Undisturbed /\ [Next]_vars => Undisturbed'
<1> SUFFICES ASSUME TypeOK, Observed, Undisturbed, [Next]_vars
             PROVE  Undisturbed'
  OBVIOUS
<1> USE DEF AfterRefs, AfterRepo, AfterMain, AfterFeature, history, world,
        Raise
<1>1. ASSUME NEW r \in Runs, Start(r) \/ RequestDeviceCode(r) \/ Expire(r)
      PROVE Undisturbed'
  BY <1>1, MoveKeeps, PhasesAre DEF Start, RequestDeviceCode, Expire
<1>2. ASSUME NEW r \in Runs, Lookup(r) PROVE Undisturbed'
  <2>1. \E p \in {"create", "clone", "report"} : Goto(r, p)
    BY <1>2 DEF Lookup, TypeOK, Repository
  <2>2. QED
    BY <1>2, <2>1, MoveKeeps, PhasesAre DEF Lookup
<1>3. ASSUME NEW r \in Runs, Clone(r) \/ Kill(r) PROVE Undisturbed'
  BY <1>3, MoveKeeps, PhasesAre DEF Clone, Kill
<1>4. ASSUME NEW r \in Runs, Invite(r) PROVE Undisturbed'
  <2>1. \E p \in {"polling", "report"} : Goto(r, p)
    BY <1>4 DEF Invite, Comment
  <2>2. \A q \in Runs : "success" \in comments'[q] =>
          "success" \in comments[q]
    BY <1>4 DEF Invite, Comment, TypeOK
  <2>3. QED
    BY <1>4, <2>1, <2>2, MoveKeeps, PhasesAre DEF Invite
<1>5. ASSUME NEW r \in Runs, Announce(r) PROVE Undisturbed'
  <2>1. \E p \in {"done", "report"} : Goto(r, p)
    BY <1>5 DEF Announce, Comment
  <2>2. \A q \in Runs : "success" \in comments'[q] =>
          "success" \in comments[q] \/ phase[q] \in AfterRepo
    BY <1>5 DEF Announce, Comment, TypeOK
  <2>3. QED
    BY <1>5, <2>1, <2>2, MoveKeeps, PhasesAre DEF Announce
<1>6. ASSUME NEW r \in Runs, Poll(r) PROVE Undisturbed'
  <2>1. Goto(r, "user") \/ Goto(r, "report") \/ Goto(r, "polling")
    <3>1. Goto(r, "user") \/ Goto(r, "report") \/ UNCHANGED phase
      BY <1>6 DEF Poll, TypeOK
    <3>2. UNCHANGED phase => Goto(r, "polling")
      <4>1. phase = [phase EXCEPT ![r] = "polling"]
        BY <1>6 DEF Poll, TypeOK
      <4>2. QED
        BY <4>1 DEF Goto
    <3>3. QED
      BY <3>1, <3>2
  <2>2. UNCHANGED <<remote, moved, comments>>
    BY <1>6 DEF Poll
  <2>3. QED
    BY <2>1, <2>2, MoveKeeps, PhasesAre
<1>7. ASSUME NEW r \in Runs,
             VerifyLogin(r) \/ VerifyMembership(r) \/ ReadBundle(r)
      PROVE Undisturbed'
  BY <1>7, MoveKeeps, PhasesAre
     DEF VerifyLogin, VerifyMembership, ReadBundle, Check
<1>8. ASSUME NEW r \in Runs, VerifyMain(r) \/ VerifyFeature(r)
      PROVE Undisturbed'
  BY <1>8, MoveKeeps, PhasesAre DEF VerifyMain, VerifyFeature, Check
<1>9. ASSUME NEW r \in Runs, Report(r) PROVE Undisturbed'
  <2>1. \A q \in Runs : "success" \in comments'[q] =>
          "success" \in comments[q]
    BY <1>9 DEF Report, TypeOK
  <2>2. QED
    BY <1>9, <2>1, MoveKeeps, PhasesAre DEF Report
<1>10. ASSUME NEW r \in Runs, CallFails(r) PROVE Undisturbed'
  BY <1>10, MoveKeeps, PhasesAre DEF CallFails
<1>11. ASSUME NEW r \in Runs, Create(r) \/ PushMain(r) \/ PushFeature(r)
              \/ Configure(r)
       PROVE Undisturbed'
  <2>1. \E p \in {"clone", "pushFeature", "configure", "lsRemote", "report"} :
          Goto(r, p)
    BY <1>11 DEF Create, PushMain, PushFeature, Configure, Change
  <2>2. UNCHANGED <<moved, comments>>
    BY <1>11 DEF Create, PushMain, PushFeature, Configure, Change
  <2>3. NoStrayRefs'
    BY <1>11, ChangesKeep DEF Undisturbed
  <2>4. ASSUME NEW q \in Runs PROVE Verified(q)'
    <3>1. phase'[q] \in AfterRefs => phase[q] \in AfterRefs
      BY <2>1 DEF Goto, TypeOK
    <3>2. phase'[q] \in AfterRepo => phase[q] \in AfterRepo
      BY <2>1 DEF Goto, TypeOK
    <3>3. RefsExact(remote) => RefsExact(remote')
      BY <1>11, ChangesKeep DEF Undisturbed
    <3>4. MetadataExact(remote) => MetadataExact(remote')
      BY <1>11, ChangesKeep DEF Undisturbed
    <3>5. QED
      BY <2>2, <3>1, <3>2, <3>3, <3>4 DEF Undisturbed, Verified
  <2>5. QED
    BY <2>3, <2>4 DEF Undisturbed
<1>12. ASSUME NEW r \in Runs, LsRemote(r) PROVE Undisturbed'
  <2>1. NoStrayRefs'
    BY <1>12 DEF LsRemote, Undisturbed, NoStrayRefs
  <2>2. ASSUME NEW q \in Runs PROVE Verified(q)'
    <3>1. CASE q # r
      BY <1>12, <2>2, <3>1 DEF LsRemote, Undisturbed, Verified, Goto, TypeOK
    <3>2. CASE q = r
      <4>1. "success" \notin comments'[r]
        BY <1>12 DEF LsRemote, Observed, Announced, Ended
      <4>2. phase'[r] \in AfterRefs => RefsExact(remote')
        BY <1>12 DEF LsRemote, Goto, TypeOK
      <4>3. phase'[r] \notin AfterRepo
        BY <1>12 DEF LsRemote, Goto, TypeOK
      <4>4. QED
        BY <3>2, <4>1, <4>2, <4>3 DEF Verified
    <3>3. QED
      BY <3>1, <3>2
  <2>3. QED
    BY <2>1, <2>2 DEF Undisturbed
<1>13. ASSUME NEW r \in Runs, VerifyRepo(r) PROVE Undisturbed'
  <2>1. NoStrayRefs'
    BY <1>13 DEF VerifyRepo, Check, Undisturbed, NoStrayRefs
  <2>2. ASSUME NEW q \in Runs PROVE Verified(q)'
    <3>1. CASE q # r
      BY <1>13, <2>2, <3>1
         DEF VerifyRepo, Check, Undisturbed, Verified, Goto, TypeOK
    <3>2. CASE q = r
      <4>1. "success" \notin comments'[r]
        BY <1>13 DEF VerifyRepo, Check, Observed, Announced, Ended
      <4>2. phase'[r] \in AfterRepo => MetadataExact(remote')
        BY <1>13 DEF VerifyRepo, Check, Goto, TypeOK
      <4>3. ~moved'[r] => RefsExact(remote')
        BY <1>13 DEF VerifyRepo, Check, Undisturbed, Verified
      <4>4. QED
        BY <3>2, <4>1, <4>2, <4>3 DEF Verified
    <3>3. QED
      BY <3>1, <3>2
  <2>3. QED
    BY <2>1, <2>2 DEF Undisturbed
<1>14. CASE ForeignChange
  <2>1. NoStrayRefs'
    <3>1. CASE UNCHANGED remote
      BY <3>1 DEF Undisturbed, NoStrayRefs
    <3>2. CASE remote' \in ForeignResults(remote) /\ remote.exists
      BY <3>2 DEF ForeignResults, NoStrayRefs, NoRepository, TypeOK,
                  Repository
    <3>3. CASE remote' \in ForeignResults(remote) /\ ~remote.exists
      BY <3>3 DEF ForeignResults, NoStrayRefs, NoRepository
    <3>4. QED
      BY <1>14, <3>1, <3>2, <3>3 DEF ForeignChange
  <2>2. QED
    BY <1>14, <2>1 DEF ForeignChange, codeVars, Undisturbed, Verified
<1>15. CASE (\E r \in Runs : Answer(r)) \/ UNCHANGED vars
  BY <1>15 DEF Answer, codeVars, vars, Undisturbed, Verified, NoStrayRefs
<1>16. QED
  BY <1>1, <1>2, <1>3, <1>4, <1>5, <1>6, <1>7, <1>8, <1>9, <1>10, <1>11,
     <1>12, <1>13, <1>14, <1>15 DEF Next, RunStep

\* A success comment is true of GitHub, not only of what the run saw: until
\* somebody else touches the repository it is public, on main, and both refs
\* are the pinned commits, through every later run of the publisher.
THEOREM TrueSuccess == Spec => []SuccessIsTrue
<1>1. Init => Undisturbed
  BY DEF Init, Undisturbed, NoStrayRefs, Verified, NoRepository, AfterRefs,
     AfterRepo, AfterMain, AfterFeature
<1>2. Undisturbed => SuccessIsTrue
  BY DEF Undisturbed, Verified, SuccessIsTrue
<1>3. QED
  BY <1>1, <1>2, TypeCorrect, ObservedInit, ObservedStep, UndisturbedStep, PTL
     DEF Spec

\* No step of any run removes or replaces a commit the publisher did not
\* expect on either branch.
THEOREM ForeignWork == Spec => ForeignWorkSurvives
<1>1. ASSUME TypeOK, Undisturbed, [Next]_vars, foreign' = foreign
      PROVE  /\ remote.main = "other" => remote'.main = "other"
             /\ remote.feature = "other" => remote'.feature = "other"
  <2>1. CASE UNCHANGED remote
    BY <2>1
  <2>2. ASSUME NEW r \in Runs,
               Create(r) \/ PushMain(r) \/ PushFeature(r) \/ Configure(r)
        PROVE  /\ remote.main = "other" => remote'.main = "other"
               /\ remote.feature = "other" => remote'.feature = "other"
    BY <1>1, <2>2, ChangesKeep DEF Undisturbed
  <2>3. ~ForeignChange
    BY <1>1 DEF ForeignChange, TypeOK
  <2>4. QED
    BY <1>1, <2>1, <2>2, <2>3
       DEF Next, RunStep, vars, history, world, codeVars, Start,
           RequestDeviceCode, Invite, Poll, Expire, VerifyLogin,
           VerifyMembership, ReadBundle, Check, Lookup, Clone, LsRemote,
           VerifyRepo, VerifyMain, VerifyFeature, Announce, Report,
           CallFails, Kill, Answer
<1>2. Init => Undisturbed
  BY DEF Init, Undisturbed, NoStrayRefs, Verified, NoRepository, AfterRefs,
     AfterRepo, AfterMain, AfterFeature
<1>3. QED
  BY <1>1, <1>2, TypeCorrect, ObservedInit, ObservedStep, UndisturbedStep, PTL
     DEF Spec, ForeignWorkSurvives

-----------------------------------------------------------------------------
(* Each authorization implements DeviceGrant.                              *)

Authorizing == {"waiting", "device", "invite", "polling"}

\* A run that is still authorizing holds no token.
Empty(q) == phase[q] \in Authorizing => holder[q] = "none"
AllEmpty == \A q \in Runs : Empty(q)

\* All that a step can do to one run's authorization.
Untouched(q) == phase'[q] = phase[q] /\ holder'[q] = holder[q]
                /\ answer'[q] = answer[q]
GoesOn(q)    == phase[q] \in Authorizing /\ phase'[q] \in Authorizing
                /\ holder'[q] = holder[q] /\ answer'[q] = answer[q]
Leaves(q)    == phase'[q] \notin Authorizing
                /\ holder'[q] = holder[q] /\ answer'[q] = answer[q]
GetsToken(q) == phase[q] = "polling" /\ phase'[q] = "user"
                /\ answer[q] \in {"owner", "other"}
                /\ holder'[q] = answer[q] /\ answer'[q] = answer[q]
IsAnswered(q) == phase'[q] = phase[q] /\ holder'[q] = holder[q]
                 /\ answer[q] = "none"
                 /\ answer'[q] \in {"owner", "other", "denied"}
Authorization(q) == Untouched(q) \/ GoesOn(q) \/ Leaves(q) \/ GetsToken(q)
                    \/ IsAnswered(q)

LEMMA AuthorizationStep ==
  TypeOK /\ [Next]_vars => \A q \in Runs : Authorization(q)
<1> SUFFICES ASSUME TypeOK, [Next]_vars, NEW q \in Runs
             PROVE  Authorization(q)
  OBVIOUS
<1> USE DEF TypeOK, world, codeVars, Goto, Raise, Authorizing, Authorization,
            Untouched, GoesOn, Leaves, GetsToken, IsAnswered
<1>1. ASSUME NEW r \in Runs, Start(r) \/ RequestDeviceCode(r) \/ Invite(r)
             \/ Expire(r) \/ Clone(r) \/ Kill(r)
      PROVE Authorization(q)
  BY <1>1 DEF Start, RequestDeviceCode, Invite, Comment, Expire, Clone, Kill
<1>2. ASSUME NEW r \in Runs, Poll(r) PROVE Authorization(q)
  BY <1>2 DEF Poll
<1>3. ASSUME NEW r \in Runs, VerifyLogin(r) \/ VerifyMembership(r)
             \/ ReadBundle(r) \/ VerifyRepo(r) \/ VerifyMain(r)
             \/ VerifyFeature(r)
      PROVE Authorization(q)
  BY <1>3 DEF VerifyLogin, VerifyMembership, ReadBundle, VerifyRepo,
              VerifyMain, VerifyFeature, Check
<1>4. ASSUME NEW r \in Runs, Create(r) \/ PushMain(r) \/ PushFeature(r)
             \/ Configure(r)
      PROVE Authorization(q)
  BY <1>4 DEF Create, PushMain, PushFeature, Configure, Change
<1>5. ASSUME NEW r \in Runs, Lookup(r) PROVE Authorization(q)
  <2>1. \E p \in {"create", "clone", "report"} : Goto(r, p)
    BY <1>5 DEF Lookup, Repository
  <2> QED
    BY <1>5, <2>1 DEF Lookup
<1>6. ASSUME NEW r \in Runs, LsRemote(r) \/ Announce(r) \/ Report(r)
             \/ CallFails(r)
      PROVE Authorization(q)
  BY <1>6 DEF LsRemote, Announce, Comment, Report, CallFails
<1>7. ASSUME NEW r \in Runs, Answer(r) PROVE Authorization(q)
  BY <1>7 DEF Answer
<1>8. CASE ForeignChange \/ UNCHANGED vars
  BY <1>8 DEF ForeignChange, vars
<1> QED
  BY <1>1, <1>2, <1>3, <1>4, <1>5, <1>6, <1>7, <1>8 DEF Next, RunStep

LEMMA EmptyStep ==
  TypeOK /\ AllEmpty /\ [Next]_vars => AllEmpty'
  BY AuthorizationStep
  DEF AllEmpty, Empty, Authorization, Untouched, GoesOn, Leaves, GetsToken, IsAnswered,
      Authorizing

LEMMA AuthorizationImplements ==
  ASSUME TypeOK, NEW q \in Runs, Empty(q), Authorization(q)
  PROVE  [Grant(q)!Next]_(Grant(q)!vars)
<1> USE DEF Grant!Next, Grant!vars, Grant!Decide, Grant!Return, Grant!Raise,
            Verdict, Outcome, Empty, Authorizing
<1>1. CASE Untouched(q) \/ GoesOn(q)
  BY <1>1 DEF Untouched, GoesOn
<1>2. CASE Leaves(q)
  BY <1>2 DEF Leaves
<1>3. CASE GetsToken(q)
  BY <1>3 DEF GetsToken
<1>4. CASE IsAnswered(q)
  BY <1>4 DEF IsAnswered
<1> QED
  BY <1>1, <1>2, <1>3, <1>4 DEF Authorization

\* authorize(), as every run of the publisher uses it, returns a token only
\* after somebody approved the code, and ends once: the loop without a clock
\* keeps the promise the loop with a clock keeps.
THEOREM Authorizations == Spec => AuthorizationsAreGrants
<1>1. Init => GrantsBegin /\ AllEmpty
  BY DEF Init, GrantsBegin, Grant!Init, Verdict, Outcome, AllEmpty, Empty
<1>2. TypeOK /\ AllEmpty /\ [Next]_vars => GrantsStep
  BY AuthorizationStep, AuthorizationImplements DEF GrantsStep, AllEmpty
<1> QED
  BY <1>1, <1>2, TypeCorrect, EmptyStep, PTL
  DEF Spec, AuthorizationsAreGrants

-----------------------------------------------------------------------------
(* A clean run                                                              *)

\* The concurrency group: one run at a time.
Exclusive == \A q, r \in Runs : Active(q) /\ Active(r) => q = r

Configuring == {"configure"}
Verifying   == {"lsRemote"} \cup AfterRefs
Publishing  == {"clone", "pushMain", "pushFeature"} \cup Configuring \cup Verifying

\* Without foreign changes the repository is what publishers make of it, and
\* further than the call its one active run is about to make.
Built(r) ==
  /\ phase[r] = "create" => ~remote.exists
  /\ phase[r] \in Publishing => remote.exists
  /\ phase[r] \in {"pushFeature"} \cup Configuring \cup Verifying =>
       remote.main = "expected"
  /\ phase[r] \in Configuring \cup Verifying => remote.feature = "expected"
  /\ phase[r] \in Verifying => remote.defaultMain

\* What publishers alone can have done to the repository.
OnlyOurs ==
  /\ remote.exists => remote.public
  /\ remote.main \in {"absent", "expected"} /\ remote.feature \in {"absent", "expected"}
OwnWork == foreign = 0 => OnlyOurs /\ \A r \in Runs : Built(r)

CleanInv == Exclusive /\ OwnWork

\* Once the last ref was verified only a lost call leads to the except clause.
Verdicts(r) ==
  /\ "failure" \in comments[r] => phase[r] = "failed"
  /\ "feature" \in seen[r] =>
       \/ phase[r] \in {"announce", "done", "killed"}
       \/ phase[r] \in {"report", "failed"} /\ faulted[r]
LateInv == \A r \in Runs : Verdicts(r)

\* A run that takes a step was active, and moves to some phase.
LEMMA Advances ==
  ASSUME TypeOK, NEW r \in Runs, RunStep(r) \/ Kill(r)
  PROVE  Active(r) /\ \E p \in Phases : Goto(r, p)
<1> USE PhasesAre DEF TypeOK, Active, Calls, Raise
<1>1. CASE Poll(r)
  <2>1. Goto(r, "user") \/ Goto(r, "report") \/ UNCHANGED phase
    BY <1>1 DEF Poll
  <2>2. phase = [phase EXCEPT ![r] = "polling"]
    BY <1>1 DEF Poll
  <2>3. Goto(r, "user") \/ Goto(r, "report") \/ Goto(r, "polling")
    BY <2>1, <2>2 DEF Goto
  <2> QED
    BY <1>1, <2>3 DEF Poll
<1>2. CASE Lookup(r)
  <2>1. Goto(r, "create") \/ Goto(r, "clone") \/ Goto(r, "report")
    BY <1>2 DEF Lookup, Repository
  <2> QED
    BY <1>2, <2>1 DEF Lookup
<1>3. CASE RequestDeviceCode(r) \/ Invite(r) \/ Expire(r) \/ Clone(r) \/ LsRemote(r)
           \/ Announce(r) \/ Report(r) \/ CallFails(r) \/ Kill(r)
  BY <1>3 DEF RequestDeviceCode, Invite, Comment, Expire, Clone, LsRemote, Announce,
     Report, CallFails, Kill
<1>4. CASE VerifyLogin(r) \/ VerifyMembership(r) \/ ReadBundle(r) \/ VerifyRepo(r)
           \/ VerifyMain(r) \/ VerifyFeature(r)
  BY <1>4 DEF VerifyLogin, VerifyMembership, ReadBundle, VerifyRepo, VerifyMain,
     VerifyFeature, Check
<1>5. CASE Create(r) \/ PushMain(r) \/ PushFeature(r) \/ Configure(r)
  BY <1>5 DEF Create, PushMain, PushFeature, Configure, Change
<1> QED
  BY <1>1, <1>2, <1>3, <1>4, <1>5 DEF RunStep

LEMMA ExclusiveStep == TypeOK /\ Exclusive /\ [Next]_vars => Exclusive'
<1> SUFFICES ASSUME TypeOK, Exclusive, [Next]_vars PROVE Exclusive'
  OBVIOUS
<1>1. ASSUME NEW r \in Runs, RunStep(r) \/ Kill(r) PROVE Exclusive'
  <2>1. PICK p \in Phases : Goto(r, p)
    BY <1>1, Advances
  <2>2. Active(r)
    BY <1>1, Advances
  <2>3. \A q \in Runs : q # r => phase'[q] = phase[q]
    BY <2>1 DEF TypeOK, Goto
  <2> QED
    BY <2>2, <2>3 DEF Exclusive, Active
<1>2. ASSUME NEW r \in Runs, Start(r) PROVE Exclusive'
  BY <1>2 DEF Start, Goto, TypeOK, Exclusive, Active
<1>3. CASE UNCHANGED phase
  BY <1>3 DEF Exclusive, Active
<1> QED
  BY <1>1, <1>2, <1>3 DEF Next, Answer, ForeignChange, codeVars, vars

\* Once the last ref was verified, and after the failure comment.
LEMMA LateStep == TypeOK /\ LateInv /\ [Next]_vars => LateInv'
<1> SUFFICES ASSUME TypeOK, LateInv, [Next]_vars PROVE LateInv'
  OBVIOUS
<1> USE DEF TypeOK, LateInv, Verdicts, codeVars, history, world, Goto, Raise
<1>1. ASSUME NEW r \in Runs, Start(r) \/ RequestDeviceCode(r) \/ Clone(r)
             \/ Expire(r) \/ Kill(r)
      PROVE LateInv'
  BY <1>1 DEF Start, RequestDeviceCode, Clone, Expire, Kill, Active, Calls
<1>2. ASSUME NEW r \in Runs, Lookup(r) PROVE LateInv'
  <2>1. \E p \in {"create", "clone", "report"} : Goto(r, p)
    BY <1>2 DEF Lookup, Repository
  <2> QED
    BY <1>2, <2>1 DEF Lookup
<1>3. ASSUME NEW r \in Runs, Invite(r) PROVE LateInv'
  BY <1>3 DEF Invite, Comment, NoFault, Fault
<1>4. ASSUME NEW r \in Runs, Poll(r) PROVE LateInv'
  <2>1. Goto(r, "user") \/ Goto(r, "report") \/ UNCHANGED phase
    BY <1>4 DEF Poll
  <2> QED
    BY <1>4, <2>1 DEF Poll
<1>5. ASSUME NEW r \in Runs, VerifyLogin(r) \/ VerifyMembership(r) \/ ReadBundle(r)
             \/ VerifyRepo(r) \/ VerifyMain(r)
      PROVE LateInv'
  BY <1>5 DEF VerifyLogin, VerifyMembership, ReadBundle, VerifyRepo, VerifyMain, Check, NoFault
<1>6. ASSUME NEW r \in Runs, VerifyFeature(r) PROVE LateInv'
  BY <1>6 DEF VerifyFeature, Check, NoFault
<1>7. ASSUME NEW r \in Runs, Create(r) \/ PushMain(r) \/ PushFeature(r) \/ Configure(r)
      PROVE LateInv'
  BY <1>7 DEF Create, PushMain, PushFeature, Configure, Change, NoFault, Fault
<1>8. ASSUME NEW r \in Runs, LsRemote(r) PROVE LateInv'
  BY <1>8 DEF LsRemote, NoFault
<1>9. ASSUME NEW r \in Runs, Announce(r) PROVE LateInv'
  BY <1>9 DEF Announce, Comment, NoFault, Fault
<1>10. ASSUME NEW r \in Runs, Report(r) PROVE LateInv'
  BY <1>10 DEF Report, NoFault, Fault
<1>11. ASSUME NEW r \in Runs, CallFails(r) PROVE LateInv'
  BY <1>11 DEF CallFails, Fault, Calls
<1>12. CASE (\E r \in Runs : Answer(r)) \/ ForeignChange \/ UNCHANGED vars
  BY <1>12 DEF Answer, ForeignChange, vars
<1> QED
  BY <1>1, <1>2, <1>3, <1>4, <1>5, <1>6, <1>7, <1>8, <1>9, <1>10, <1>11, <1>12
  DEF Next, RunStep

\* main() says that it failed, after live ref verification, only when a call of
\* the run was lost.
THEOREM LateFailure == Spec => []LateFailureLostACall
<1>1. Init => LateInv
  BY DEF Init, LateInv, Verdicts
<1>2. LateInv => LateFailureLostACall
  BY DEF LateInv, Verdicts, LateFailureLostACall
<1> QED
  BY <1>1, <1>2, TypeCorrect, LateStep, PTL DEF Spec

\* A run's own step leaves what the other runs hold, and the world, alone.
LEMMA OthersStay ==
  ASSUME TypeOK, NEW r \in Runs, Start(r) \/ RunStep(r) \/ Kill(r)
  PROVE  /\ \A q \in Runs : q # r =>
              /\ phase'[q] = phase[q] /\ left'[q] = left[q]
              /\ holder'[q] = holder[q] /\ faulted'[q] = faulted[q]
         /\ Fault(r) \/ UNCHANGED faulted
         /\ UNCHANGED <<world>>
<1> USE DEF TypeOK, codeVars, history, world, Goto, Raise, NoFault, Fault
<1>1. CASE Start(r) \/ Kill(r) \/ RequestDeviceCode(r) \/ Expire(r) \/ Clone(r)
  BY <1>1 DEF Start, Kill, RequestDeviceCode, Expire, Clone
<1>2. CASE Invite(r) \/ Announce(r) \/ Report(r) \/ CallFails(r)
  BY <1>2 DEF Invite, Announce, Report, CallFails, Comment
<1>3. CASE Poll(r)
  <2>1. Goto(r, "user") \/ Goto(r, "report") \/ UNCHANGED phase
    BY <1>3 DEF Poll
  <2>2. holder' = [holder EXCEPT ![r] = answer[r]] \/ UNCHANGED holder
    BY <1>3 DEF Poll
  <2>3. (\E n : left' = [left EXCEPT ![r] = n]) \/ UNCHANGED left
    BY <1>3 DEF Poll
  <2> QED
    BY <1>3, <2>1, <2>2, <2>3 DEF Poll
<1>4. CASE Lookup(r)
  <2>1. \E p \in {"create", "clone", "report"} : Goto(r, p)
    BY <1>4 DEF Lookup, Repository
  <2> QED
    BY <1>4, <2>1 DEF Lookup
<1>5. CASE VerifyLogin(r) \/ VerifyMembership(r) \/ ReadBundle(r) \/ VerifyRepo(r)
           \/ VerifyMain(r) \/ VerifyFeature(r) \/ LsRemote(r)
  BY <1>5 DEF VerifyLogin, VerifyMembership, ReadBundle, VerifyRepo, VerifyMain,
     VerifyFeature, Check, LsRemote
<1>6. CASE Create(r) \/ PushMain(r) \/ PushFeature(r) \/ Configure(r)
  BY <1>6 DEF Create, PushMain, PushFeature, Configure, Change
<1> QED
  BY <1>1, <1>2, <1>3, <1>4, <1>5, <1>6 DEF RunStep

\* It stays that, whatever a run does next.
LEMMA OursStays ==
  ASSUME TypeOK, OnlyOurs, NEW r \in Runs, Start(r) \/ RunStep(r) \/ Kill(r)
  PROVE  OnlyOurs'
<1> USE DEF TypeOK, OnlyOurs, Repository, codeVars, history
<1>1. CASE UNCHANGED remote
  BY <1>1
<1>2. CASE Create(r) /\ remote' \in Created(remote)
  <2>1. PICK d \in BOOLEAN :
          remote' = [NoRepository EXCEPT !.exists = TRUE, !.public = TRUE,
                                         !.defaultMain = d]
    BY <1>2 DEF Created
  <2> QED
    BY <2>1 DEF NoRepository
<1>3. CASE Create(r)
  BY <1>1, <1>2, <1>3 DEF Create, Change
<1>4. CASE PushMain(r)
  BY <1>1, <1>4, PushMainEffect
<1>5. CASE PushFeature(r)
  BY <1>1, <1>5, PushFeatureEffect
<1>6. CASE Configure(r)
  BY <1>1, <1>6, ConfigureEffect
<1>7. CASE Poll(r) \/ Lookup(r) \/ Start(r) \/ Kill(r) \/ RequestDeviceCode(r) \/ Invite(r)
           \/ Expire(r) \/ Clone(r) \/ Announce(r) \/ Report(r) \/ CallFails(r)
           \/ VerifyLogin(r) \/ VerifyMembership(r) \/ ReadBundle(r) \/ VerifyRepo(r)
           \/ VerifyMain(r) \/ VerifyFeature(r) \/ LsRemote(r)
  <2>1. UNCHANGED remote
    BY <1>7 DEF Poll, Lookup, Start, Kill, RequestDeviceCode, Invite, Expire, Clone,
       Announce, Report, CallFails, VerifyLogin, VerifyMembership, ReadBundle,
       VerifyRepo, VerifyMain, VerifyFeature, Check, LsRemote
  <2> QED
    BY <1>1, <2>1
<1> QED
  BY <1>3, <1>4, <1>5, <1>6, <1>7 DEF RunStep

\* A changing call that GitHub does not refuse is made; only a lost reply raises.
LEMMA ChangeDone ==
  ASSUME NEW r \in Runs, NEW from, NEW STATE results, NEW to,
         Change(r, from, results, to), results # {}
  PROVE  /\ remote' \in results
         /\ phase[r] = from
         /\ Goto(r, to) \/ (Goto(r, "report") /\ Fault(r))
BY DEF Change, Raise

\* A clean run is about to reach the except clause.
Raises(r) == Clean(r)' /\ phase'[r] = "report" /\ phase[r] # "report"

\* A run is where what it built lets it be, step after step, and no call of a
\* clean one raises but the clone.
LEMMA BuiltStep ==
  ASSUME TypeOK, NoStrayRefs, OnlyOurs, NEW r \in Runs, Built(r), Empty(r),
         foreign = 0, Start(r) \/ RunStep(r) \/ Kill(r)
  PROVE  Built(r)' /\ (Raises(r) => phase[r] = "clone" /\ "feature" \notin local)
<1> USE DEF TypeOK, Goto, Raise, Configuring, Verifying, AfterRefs, AfterRepo, AfterMain,
        AfterFeature, Publishing, Built, Raises
<1>1. Clean(r)' => holder'[r] = "owner" /\ admin /\ bundle = "exact" /\ ~Fault(r)
  <2>1. UNCHANGED <<admin, bundle>>
    BY OthersStay, Zenon DEF world
  <2>2. Fault(r) => faulted'[r]
    BY DEF Fault
  <2> QED
    BY <2>1, <2>2 DEF Clean
<1>2. CASE Start(r) \/ RequestDeviceCode(r) \/ Kill(r)
  BY <1>2 DEF Start, RequestDeviceCode, Kill
<1>3. CASE CallFails(r) \/ Invite(r) \/ Announce(r)
  <2>1. UNCHANGED remote
    BY <1>3 DEF CallFails, Invite, Announce
  <2>2. Goto(r, "report") => Fault(r)
    BY <1>3 DEF CallFails, Invite, Announce, Comment
  <2>3. Goto(r, "report") \/ Goto(r, "polling") \/ Goto(r, "done")
    BY <1>3 DEF CallFails, Invite, Announce, Comment
  <2> QED
    BY <1>1, <2>1, <2>2, <2>3
<1>4. CASE Report(r)
  BY <1>4 DEF Report
<1>5. CASE Poll(r)
  <2>1. Goto(r, "user") \/ Goto(r, "report") \/ UNCHANGED phase
    BY <1>5 DEF Poll
  <2>2. Goto(r, "report") => holder'[r] = "none"
    BY <1>5 DEF Poll, Empty, Authorizing
  <2>3. UNCHANGED remote /\ phase[r] = "polling"
    BY <1>5 DEF Poll
  <2> QED
    BY <1>1, <2>1, <2>2, <2>3
<1>6. CASE Expire(r)
  BY <1>1, <1>6 DEF Expire, Empty, Authorizing
<1>7. CASE VerifyLogin(r) \/ VerifyMembership(r) \/ ReadBundle(r)
  BY <1>1, <1>7 DEF VerifyLogin, VerifyMembership, ReadBundle, Check
<1>8. CASE Lookup(r)
  <2>1. \/ Goto(r, "create") /\ ~remote.exists
        \/ Goto(r, "clone") /\ remote.exists
    <3>1. remote.exists \in BOOLEAN /\ remote.public \in BOOLEAN
      BY DEF Repository
    <3>2. ~remote.exists => Goto(r, "create")
      BY <1>8, <3>1 DEF Lookup
    <3>3. remote.exists /\ remote.public => Goto(r, "clone")
      BY <1>8, <3>1 DEF Lookup
    <3> QED
      BY <3>1, <3>2, <3>3 DEF OnlyOurs
  <2>2. UNCHANGED remote
    BY <1>8 DEF Lookup
  <2> QED
    BY <2>1, <2>2
<1>9. CASE Create(r)
  <2>1. [NoRepository EXCEPT !.exists = TRUE, !.public = TRUE, !.defaultMain = FALSE]
          \in Created(remote)
    BY <1>9 DEF Create, Change, Created
  <2>2. /\ remote' \in Created(remote)
        /\ Goto(r, "clone") \/ (Goto(r, "report") /\ Fault(r))
    BY <1>9, <2>1, ChangeDone, Zenon DEF Create
  <2>3. remote'.exists
    <3>1. PICK d \in BOOLEAN :
            remote' = [NoRepository EXCEPT !.exists = TRUE, !.public = TRUE,
                                           !.defaultMain = d]
      BY <2>2 DEF Created
    <3> QED
      BY <3>1 DEF NoRepository
  <2> QED
    BY <1>1, <2>2, <2>3
<1>10. CASE Clone(r)
  BY <1>10 DEF Clone
<1>11. CASE PushMain(r)
  <2>1. [remote EXCEPT !.main = "expected"] \in Pushed(remote, "main")
    BY <1>11 DEF PushMain, Change, Pushed, OnlyOurs
  <2>2. /\ remote' \in Pushed(remote, "main")
        /\ phase[r] = "pushMain"
        /\ Goto(r, "pushFeature") \/ (Goto(r, "report") /\ Fault(r))
    BY <1>11, <2>1, ChangeDone, Zenon DEF PushMain
  <2>3. remote' = [remote EXCEPT !.main = "expected"]
    BY <2>2 DEF Pushed
  <2> QED
    BY <1>1, <2>2, <2>3 DEF Repository
<1>12. CASE PushFeature(r)
  <2>1. [remote EXCEPT !.feature = "expected"] \in Pushed(remote, "feature")
    BY <1>12 DEF PushFeature, Change, Pushed, OnlyOurs
  <2>2. /\ remote' \in Pushed(remote, "feature")
        /\ phase[r] = "pushFeature"
        /\ Goto(r, "configure") \/ (Goto(r, "report") /\ Fault(r))
    BY <1>12, <2>1, ChangeDone, Zenon DEF PushFeature
  <2>3. remote' = [remote EXCEPT !.feature = "expected"]
    BY <2>2 DEF Pushed
  <2> QED
    BY <1>1, <2>2, <2>3 DEF Repository
<1>13. CASE Configure(r)
  <2>1. [remote EXCEPT !.defaultMain = TRUE] \in Configured(remote)
    BY <1>13 DEF Configure, Change, Configured, OnlyOurs
  <2>2. /\ remote' \in Configured(remote)
        /\ phase[r] = "configure"
        /\ Goto(r, "lsRemote") \/ (Goto(r, "report") /\ Fault(r))
    BY <1>13, <2>1, ChangeDone, Zenon DEF Configure
  <2>3. remote' = [remote EXCEPT !.defaultMain = TRUE]
    BY <2>2 DEF Configured
  <2> QED
    BY <1>1, <2>2, <2>3 DEF Repository
<1>14. CASE LsRemote(r)
  BY <1>14 DEF LsRemote, RefsExact
<1>15. CASE VerifyRepo(r) \/ VerifyMain(r) \/ VerifyFeature(r)
  BY <1>15 DEF VerifyRepo, VerifyMain, VerifyFeature, Check, MetadataExact, OnlyOurs
<1> QED
  BY <1>2, <1>3, <1>4, <1>5, <1>6, <1>7, <1>8, <1>9, <1>10, <1>11, <1>12, <1>13, <1>14,
     <1>15 DEF RunStep

\* A run that is not making a call needs nothing built.
LEMMA IdleBuilt == ASSUME NEW r \in Runs, ~Active(r)' PROVE Built(r)'
BY DEF Active, Calls, Built, Publishing, Configuring, Verifying, AfterRefs, AfterRepo,
       AfterMain, AfterFeature

\* One run at a time, and what it builds.
LEMMA CleanStep ==
  TypeOK /\ NoStrayRefs /\ AllEmpty /\ CleanInv /\ [Next]_vars => CleanInv'
<1> SUFFICES ASSUME TypeOK, NoStrayRefs, AllEmpty, CleanInv, [Next]_vars PROVE CleanInv'
  OBVIOUS
<1>0. Exclusive'
  BY ExclusiveStep DEF CleanInv
<1>1. ASSUME NEW r \in Runs, Start(r) \/ RunStep(r) \/ Kill(r) PROVE OwnWork'
  <2>1. /\ \A q \in Runs : q # r => phase'[q] = phase[q]
        /\ UNCHANGED foreign
    BY <1>1, OthersStay DEF world
  <2>2. ASSUME NEW q \in Runs, q # r PROVE ~Active(q)'
    <3>1. ~Active(q)
      BY <1>1, <2>2, Advances DEF Start, CleanInv, Exclusive
    <3> QED
      BY <2>1, <2>2, <3>1 DEF Active
  <2>3. CASE foreign = 0
    <3>1. OnlyOurs'
      BY <1>1, <2>3, OursStays DEF CleanInv, OwnWork
    <3>2. Built(r)'
      BY <1>1, <2>3, BuiltStep DEF CleanInv, OwnWork, AllEmpty
    <3>3. \A q \in Runs : Built(q)'
      BY <2>2, <3>2, IdleBuilt
    <3> QED
      BY <3>1, <3>3 DEF OwnWork
  <2> QED
    BY <2>1, <2>3 DEF OwnWork
<1>2. ASSUME NEW r \in Runs, Answer(r) PROVE OwnWork'
  BY <1>2 DEF Answer, codeVars, history, CleanInv, OwnWork, OnlyOurs, Built
<1>3. CASE ForeignChange
  <2>1. foreign' # 0
    BY <1>3, SMT DEF ForeignChange, TypeOK
  <2> QED
    BY <1>0, <2>1 DEF CleanInv, OwnWork
<1>4. CASE UNCHANGED vars
  BY <1>0, <1>4 DEF vars, CleanInv, OwnWork, OnlyOurs, Built
<1> QED
  BY <1>0, <1>1, <1>2, <1>3, <1>4 DEF Next, CleanInv

LEMMA CleanRaise ==
  TypeOK /\ NoStrayRefs /\ AllEmpty /\ CleanInv /\ [Next]_vars =>
    \A r \in Runs : Raises(r) => phase[r] = "clone" /\ "feature" \notin local
<1> SUFFICES ASSUME TypeOK, NoStrayRefs, AllEmpty, CleanInv, [Next]_vars,
                    NEW r \in Runs, Raises(r)
             PROVE  phase[r] = "clone" /\ "feature" \notin local
  OBVIOUS
<1>1. ASSUME NEW q \in Runs, Start(q) \/ RunStep(q) \/ Kill(q)
      PROVE  phase[r] = "clone" /\ "feature" \notin local
  <2>1. q = r /\ UNCHANGED foreign
    BY <1>1, OthersStay DEF world, Raises
  <2>2. foreign = 0
    BY <2>1 DEF Raises, Clean
  <2> QED
    BY <1>1, <2>1, <2>2, BuiltStep DEF CleanInv, OwnWork, AllEmpty
<1>2. CASE (\E q \in Runs : Answer(q)) \/ ForeignChange \/ UNCHANGED vars
  BY <1>2 DEF Answer, ForeignChange, codeVars, vars, Raises
<1> QED
  BY <1>1, <1>2 DEF Next

\* Re-running the workflow is safe: a run with the owner's token that met no
\* failed call and no change by others raises nowhere but at the clone, whatever
\* half-done state earlier runs left and whatever branches git makes.
THEOREM CleanRuns == Spec => OnlyTheCloneFails
<1>1. Init => CleanInv /\ AllEmpty
  BY DEF Init, CleanInv, Exclusive, Active, Calls, OwnWork, OnlyOurs, Built,
     NoRepository, Publishing, Configuring, Verifying, AfterRefs, AfterRepo, AfterMain,
     AfterFeature, AllEmpty, Empty
<1>2. TypeOK /\ NoStrayRefs /\ AllEmpty /\ CleanInv /\ [Next]_vars =>
        [\A r \in Runs :
           Clean(r)' /\ phase'[r] = "report" /\ phase[r] # "report" =>
             phase[r] = "clone" /\ "feature" \notin local]_vars
  BY CleanRaise DEF Raises
<1>3. Init => Undisturbed
  BY DEF Init, Undisturbed, NoStrayRefs, Verified, NoRepository, AfterRefs,
     AfterRepo, AfterMain, AfterFeature
<1>4. Undisturbed => NoStrayRefs
  BY DEF Undisturbed
<1> QED
  BY <1>1, <1>2, <1>3, <1>4, TypeCorrect, ObservedInit, ObservedStep, UndisturbedStep,
     EmptyStep, CleanStep, PTL DEF Spec, OnlyTheCloneFails
=============================================================================
