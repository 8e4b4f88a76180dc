--------------------------- MODULE MCRuntimeChecks ---------------------------
(* The runtime checks and the estimator against what they are for, on small   *)
(* documents and on the reviewed v1 schedule.  A run that extends this module *)
(* evaluates the assumptions.                                                 *)
EXTENDS RuntimeChecks, QuoteEstimator, SequencesExt

Rows(n, Values) == UNION {[1..k -> Values] : k \in 0..n}
Ids == {"first", "second"}

PlanOf(ids) ==
  [planSha256 |-> "digest", perspectiveId |-> "inside",
   targets |-> [i \in DOMAIN ids |-> [targetId |-> ids[i]]]]
ResultsOf(ids) ==
  [specVersion |-> "canonical.worker.reachability-probe-result.v1",
   planSha256 |-> "digest", perspectiveId |-> "inside",
   runnerIdentitySha256 |-> "digest", observedAt |-> "instant",
   results |-> [i \in DOMAIN ids |->
                  [targetId |-> ids[i], observation |-> "refused", elapsedMillis |-> 0]]]

\* The length, the two lookups and the two sizes validateResultSet compares
\* come to this: results and targets correspond one to one, and no two targets
\* share an id.
ASSUME ResultsCorrespond ==
  \A asked \in Rows(2, Ids), answered \in Rows(3, Ids) :
    ValidResults(ResultsOf(answered), PlanOf(asked))
      <=> /\ \E f \in Bijection(DOMAIN asked, DOMAIN answered) :
                \A i \in DOMAIN asked : answered[f[i]] = asked[i]
          /\ IsInjective(asked)

\* The five filters of assertAssessmentRuntime agree with one pass over the
\* findings that adds each to the counter of its status.
Tally(findings) ==
  FoldSeq(LAMBDA f, sums :
            [s \in Statuses |-> sums[s] + (IF f.status = s THEN 1 ELSE 0)],
          [s \in Statuses |-> 0], findings)
ASSUME CountsAgree ==
  \A findings \in Rows(3, [status : Statuses, severity : {"low", "high"}]) :
    LET counts == Counted(findings) IN
      Tally(findings) = "pass" :> counts.passed @@ "fail" :> counts.failed
                        @@ "unknown" :> counts.unknownCount @@ "error" :> counts.errors

-----------------------------------------------------------------------------
(* The reviewed v1 schedule: 6885 combinations of choices. *)

Current == [estimateFloor |-> 5000, estimateCeiling |-> 15000, midpointFloor |-> 5500,
            midpointCeiling |-> 13500, lowerPercent |-> 90, upperPercent |-> 112,
            roundTo |-> 500]
Speeds == <<5000, 7500, 10500>>
Amounts == [soc2 |-> 0, iso27001 |-> 750, nist |-> 500, gdpr |-> 750, hipaa |-> 1000,
            pci |-> 1000, fedramp |-> 1750, cis |-> 350]
Depths == <<0, 1500, 3000>>
Complexities == <<0, 1000, 2000>>
Quoted(i, standards, j, k) ==
  Quote(Current, Amounts, Speeds[i], standards, Depths[j], Complexities[k])

\* The default quote the test pins.
ASSUME DefaultQuote ==
  Quoted(2, {"soc2", "iso27001"}, 2, 2)
    = [midpoint |-> 10750, lower |-> 9500, upper |-> 12000]

\* Every combination is ordered and bounded, and neither a faster delivery, a
\* deeper service, more complexity nor one more standard lowers an end of it.
NotBelow(a, b) == a.midpoint <= b.midpoint /\ a.lower <= b.lower /\ a.upper <= b.upper
ASSUME ScheduleIsSound ==
  /\ ConfigOK(Current)
  /\ \A standards \in SUBSET DOMAIN Amounts \ {{}}, i, j, k \in 1..3 :
       LET quote == Quoted(i, standards, j, k) IN
         /\ 5000 <= quote.lower /\ quote.lower <= quote.upper /\ quote.upper <= 15000
         /\ i < 3 => NotBelow(quote, Quoted(i + 1, standards, j, k))
         /\ j < 3 => NotBelow(quote, Quoted(i, standards, j + 1, k))
         /\ k < 3 => NotBelow(quote, Quoted(i, standards, j, k + 1))
         /\ \A one \in DOMAIN Amounts \ standards :
              NotBelow(quote, Quoted(i, standards \cup {one}, j, k))
=============================================================================
