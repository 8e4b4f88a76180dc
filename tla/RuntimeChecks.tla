---------------------------- MODULE RuntimeChecks ----------------------------
(***************************************************************************)
(* What scripts/check-*-runtime.mjs accept of a document that its schema   *)
(* has accepted already: a plan of reachability probes, the results of     *)
(* one, a readiness assessment and adversarial evidence.  A script ends at *)
(* the first thing it does not accept; an operator here is that it does    *)
(* not.  Texts are abstracted to the classes the regular expressions form. *)
(***************************************************************************)
EXTENDS Naturals, Sequences, FiniteSets

CONSTANTS
  Digests,   \* texts that match the lowercase SHA-256 pattern
  Texts,     \* validText: short, not empty, no control characters
  Hosts,     \* validHost: no range, pattern, user or path
  Instants,  \* validTimestamp: dates that end in Z
  Undefined  \* the value of a key that is absent

Column(rows, key) == {rows[i][key] : i \in DOMAIN rows}
DistinctIn(rows, key) ==
  \A i, j \in DOMAIN rows : rows[i][key] = rows[j][key] => i = j
HowMany(rows, value) == Cardinality({i \in DOMAIN rows : rows[i].status = value})

-----------------------------------------------------------------------------
(* check-reachability-probe-runtime.mjs *)

Scanning == {"command", "arguments", "cidr", "portRange", "payload", "credentials",
             "rate", "packetsPerSecond", "exploit", "scanRange"}

\* keys: the keys of the plan itself.
ValidPlan(plan) ==
  /\ plan.specVersion = "canonical.worker.reachability-probe.v1"
  /\ {plan.authorizationRefSha256, plan.planSha256} \subseteq Digests
  /\ {plan.perspectiveId, plan.trustZone} \subseteq Texts
  /\ plan.timeoutSeconds \in 1..15 /\ plan.concurrency \in 1..8
  /\ Len(plan.targets) \in 1..32
  /\ \A i \in DOMAIN plan.targets :
       /\ plan.targets[i].targetId \in Texts
       /\ plan.targets[i].host \in Hosts
       /\ plan.targets[i].port \in 1..65535
  /\ DistinctIn(plan.targets, "targetId")
  /\ plan.keys \cap Scanning = {}

Observations == {"connected", "refused", "timed_out", "unreachable", "unresolved"}

\* The plan is the one its caller admitted: it is not validated again, and its
\* target ids are not compared with each other here.
ValidResults(value, plan) ==
  LET admitted == Column(plan.targets, "targetId")
      seen == Column(value.results, "targetId") IN
  /\ value.specVersion = "canonical.worker.reachability-probe-result.v1"
  /\ value.planSha256 = plan.planSha256 /\ value.planSha256 \in Digests
  /\ value.perspectiveId = plan.perspectiveId
  /\ value.runnerIdentitySha256 \in Digests
  /\ value.observedAt \in Instants
  /\ Len(value.results) = Len(plan.targets)
  /\ seen \subseteq admitted
  /\ DistinctIn(value.results, "targetId")
  /\ \A i \in DOMAIN value.results :
       /\ value.results[i].observation \in Observations
       /\ value.results[i].elapsedMillis \in Nat
  /\ Cardinality(seen) = Cardinality(admitted)

-----------------------------------------------------------------------------
(* check-readiness-assessment-runtime.mjs *)

Statuses == {"pass", "fail", "unknown", "error"}
Secrets == {"bucket", "objectKey", "signedUrl", "accessToken", "refreshToken",
            "apiKey", "privateKey", "password", "databaseUrl"}

Counted(findings) ==
  [passed |-> HowMany(findings, "pass"), failed |-> HowMany(findings, "fail"),
   unknownCount |-> HowMany(findings, "unknown"), errors |-> HowMany(findings, "error"),
   highOrCriticalFailures |->
     Cardinality({i \in DOMAIN findings : findings[i].status = "fail"
                    /\ findings[i].severity \in {"high", "critical"}})]

\* keys: the keys anywhere in the report, which walk() visits.  claims and
\* disclaims: what the two patterns find in its boundary text.
ValidAssessment(report) ==
  /\ report.specVersion = "canonical.readiness.assessment.v1"
  /\ report.assessmentReportId \in Digests
  /\ DistinctIn(report.evidence, "evidenceId")
  /\ Column(report.evidence, "sha256") \subseteq Digests
  /\ DistinctIn(report.targets, "targetId")
  /\ DistinctIn(report.findings, "findingId")
  /\ Column(report.findings, "targetId") \subseteq Column(report.targets, "targetId")
  /\ \A i \in DOMAIN report.findings :
       report.findings[i].evidenceIds \subseteq Column(report.evidence, "evidenceId")
  /\ \A i \in DOMAIN report.recommendations :
       report.recommendations[i].sourceFindingIds
         \subseteq Column(report.findings, "findingId")
  /\ report.counts = Counted(report.findings)
  /\ report.scoreBasisPoints = Undefined \/ report.scoreBasisPoints \in 0..10000
  /\ report.keys \cap Secrets = {}
  /\ report.claims => report.disclaims

-----------------------------------------------------------------------------
(* check-adversarial-readiness-runtime.mjs *)

Locators == {"locator", "host", "path"}

\* disclaims: the boundary has the words "not an audit".  catalogued: the key of
\* a recommendation has a dot in it.
ValidEvidence(report) ==
  /\ report.specVersion = "canonical.adversarial-readiness.evidence.v1"
  /\ report.authorizationRefSha256 \in Digests
  /\ report.disclaims
  /\ DistinctIn(report.targets, "targetId")
  /\ \A i \in DOMAIN report.targets :
       /\ report.targets[i].locatorSha256 \in Digests
       /\ report.targets[i].keys \cap Locators = {}
  /\ DistinctIn(report.results, "checkId")
  /\ Column(report.results, "targetId") \subseteq Column(report.targets, "targetId")
  /\ \A i \in DOMAIN report.results :
       LET advice == report.results[i].recommendation IN
         advice # Undefined => advice.catalogued /\ advice.controlLayers > 0
  /\ report.summary = [passed |-> HowMany(report.results, "pass"),
                       findings |-> HowMany(report.results, "finding"),
                       unknownCount |-> HowMany(report.results, "unknown"),
                       errors |-> HowMany(report.results, "error")]
=============================================================================
