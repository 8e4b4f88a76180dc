-------------------------- MODULE DocumentTheorems --------------------------
(***************************************************************************)
(* What an accepted document is good for, for documents of every size;     *)
(* what the quote estimator's arithmetic guarantees for every              *)
(* configuration; and that documents survive the generated types, for every*)
(* schema of the assumed shape.                                            *)
(***************************************************************************)
EXTENDS RuntimeChecks, QuoteEstimator, WireAdapters, FiniteSetTheorems,
        WellFoundedInduction, TLAPS

\* The ids of n rows are n distinct ones or fewer, and n only if no two rows
\* share one.
LEMMA ColumnSize ==
  ASSUME NEW rows, NEW key, IsFiniteSet(DOMAIN rows)
  PROVE  /\ IsFiniteSet(Column(rows, key))
         /\ Cardinality(Column(rows, key)) <= Cardinality(DOMAIN rows)
         /\ Cardinality(Column(rows, key)) = Cardinality(DOMAIN rows)
              <=> DistinctIn(rows, key)
<1> DEFINE f == [i \in DOMAIN rows |-> rows[i][key]]
<1>1. f \in Surjection(DOMAIN rows, Column(rows, key))
  BY DEF Surjection, Column
<1>2. f \in Injection(DOMAIN rows, Column(rows, key)) <=> DistinctIn(rows, key)
  BY DEF Injection, IsInjective, DistinctIn, Column
<1> HIDE DEF f
<1> QED
  BY <1>1, <1>2, FS_Surjection

\* A sequence has finitely many positions, as many as its length.
LEMMA Positions ==
  ASSUME NEW S, NEW rows \in Seq(S)
  PROVE  IsFiniteSet(DOMAIN rows) /\ Cardinality(DOMAIN rows) = Len(rows)
<1>1. Len(rows) \in Nat /\ DOMAIN rows = 1..Len(rows)
  OBVIOUS
<1> QED
  BY <1>1, FS_Interval

\* validateResultSet: an accepted result set answers every target of the plan
\* it was checked against exactly once and nothing else, and such a plan has no
\* two targets of one id, although nobody compares them there.
THEOREM ResultsAreComplete ==
  ASSUME NEW Row, NEW value, NEW plan,
         plan.targets \in Seq(Row), value.results \in Seq(Row),
         ValidResults(value, plan)
  PROVE  /\ \A i \in DOMAIN plan.targets : \E j \in DOMAIN value.results :
              /\ value.results[j].targetId = plan.targets[i].targetId
              /\ \A k \in DOMAIN value.results :
                   value.results[k].targetId = plan.targets[i].targetId => k = j
         /\ \A j \in DOMAIN value.results : \E i \in DOMAIN plan.targets :
              value.results[j].targetId = plan.targets[i].targetId
         /\ DistinctIn(plan.targets, "targetId")
<1> DEFINE seen == Column(value.results, "targetId")
           admitted == Column(plan.targets, "targetId")
<1>1. /\ Len(value.results) = Len(plan.targets)
      /\ seen \subseteq admitted
      /\ DistinctIn(value.results, "targetId")
      /\ Cardinality(seen) = Cardinality(admitted)
  BY DEF ValidResults
<1>2. /\ IsFiniteSet(DOMAIN value.results) /\ IsFiniteSet(DOMAIN plan.targets)
      /\ Cardinality(DOMAIN value.results) = Cardinality(DOMAIN plan.targets)
  BY <1>1, Positions
<1>3. IsFiniteSet(admitted) /\ IsFiniteSet(seen)
  BY <1>2, ColumnSize
<1>4. seen = admitted
  BY <1>1, <1>3, FS_Subset
<1>5. Cardinality(admitted) = Cardinality(DOMAIN plan.targets)
  <2>1. Cardinality(seen) = Cardinality(DOMAIN value.results)
    BY <1>1, <1>2, ColumnSize
  <2> QED
    BY <2>1, <1>1, <1>2
<1>6. DistinctIn(plan.targets, "targetId")
  BY <1>2, <1>5, ColumnSize
<1>7. ASSUME NEW i \in DOMAIN plan.targets
      PROVE  \E j \in DOMAIN value.results :
               /\ value.results[j].targetId = plan.targets[i].targetId
               /\ \A k \in DOMAIN value.results :
                    value.results[k].targetId = plan.targets[i].targetId => k = j
  <2>1. plan.targets[i].targetId \in seen
    BY <1>4 DEF Column
  <2>2. PICK j \in DOMAIN value.results :
          value.results[j].targetId = plan.targets[i].targetId
    BY <2>1 DEF Column
  <2> QED
    BY <2>2, <1>1 DEF DistinctIn
<1>8. ASSUME NEW j \in DOMAIN value.results
      PROVE  \E i \in DOMAIN plan.targets :
               value.results[j].targetId = plan.targets[i].targetId
  <2>1. value.results[j].targetId \in admitted
    BY <1>4 DEF Column
  <2> QED
    BY <2>1 DEF Column
<1> QED
  BY <1>6, <1>7, <1>8

-----------------------------------------------------------------------------
(* Summaries *)

\* Rows of another status are other rows.
LEMMA CountBoth ==
  ASSUME NEW A, NEW B, IsFiniteSet(A), IsFiniteSet(B), A \cap B = {}
  PROVE  /\ IsFiniteSet(A \cup B)
         /\ Cardinality(A \cup B) = Cardinality(A) + Cardinality(B)
<1>1. Cardinality(A \cap B) = 0
  BY FS_EmptySet
<1>2. Cardinality(A) \in Nat /\ Cardinality(B) \in Nat
  BY FS_CardinalityType
<1>3. /\ IsFiniteSet(A \cup B)
      /\ Cardinality(A \cup B)
           = Cardinality(A) + Cardinality(B) - Cardinality(A \cap B)
  BY FS_Union
<1> QED
  BY <1>1, <1>2, <1>3

\* assertAssessmentRuntime: in an accepted assessment whose findings have the
\* schema's statuses, the summary counts every finding exactly once, and the
\* severe failures are among the failures.
THEOREM SummaryCountsEach ==
  ASSUME NEW Row, NEW report, report.findings \in Seq(Row),
         ValidAssessment(report),
         \A i \in DOMAIN report.findings : report.findings[i].status \in Statuses
  PROVE  /\ report.counts.passed + report.counts.failed
              + report.counts.unknownCount + report.counts.errors
              = Len(report.findings)
         /\ report.counts.highOrCriticalFailures <= report.counts.failed
<1> DEFINE rows == report.findings
           P == {i \in DOMAIN rows : rows[i].status = "pass"}
           F == {i \in DOMAIN rows : rows[i].status = "fail"}
           U == {i \in DOMAIN rows : rows[i].status = "unknown"}
           E == {i \in DOMAIN rows : rows[i].status = "error"}
           H == {i \in DOMAIN rows : rows[i].status = "fail"
                                     /\ rows[i].severity \in {"high", "critical"}}
<1>1. /\ report.counts.passed = Cardinality(P)
      /\ report.counts.failed = Cardinality(F)
      /\ report.counts.unknownCount = Cardinality(U)
      /\ report.counts.errors = Cardinality(E)
      /\ report.counts.highOrCriticalFailures = Cardinality(H)
  BY DEF ValidAssessment, Counted, HowMany
<1>2. IsFiniteSet(DOMAIN rows) /\ Cardinality(DOMAIN rows) = Len(rows)
  BY Positions
<1>3. H \in SUBSET F /\ P \cap F = {} /\ U \cap E = {} /\ (P \cup F) \cap (U \cup E) = {}
  OBVIOUS
<1>4. (P \cup F) \cup (U \cup E) = DOMAIN rows
  BY DEF Statuses
<1>5. IsFiniteSet(P) /\ IsFiniteSet(F) /\ IsFiniteSet(U) /\ IsFiniteSet(E)
  <2>1. /\ P \in SUBSET DOMAIN rows /\ F \in SUBSET DOMAIN rows
        /\ U \in SUBSET DOMAIN rows /\ E \in SUBSET DOMAIN rows
    OBVIOUS
  <2> HIDE DEF P, F, U, E, rows
  <2> QED
    BY <2>1, <1>2, FS_Subset
<1> HIDE DEF P, F, U, E, H, rows
<1>6. /\ IsFiniteSet(P \cup F)
      /\ Cardinality(P \cup F) = Cardinality(P) + Cardinality(F)
      /\ IsFiniteSet(U \cup E)
      /\ Cardinality(U \cup E) = Cardinality(U) + Cardinality(E)
  <2>1. P \cap F = {} /\ U \cap E = {}
    BY <1>3
  <2> QED
    BY <2>1, <1>5, CountBoth, Zenon
<1>7. Cardinality(DOMAIN rows) = Cardinality(P \cup F) + Cardinality(U \cup E)
  <2>1. (P \cup F) \cap (U \cup E) = {}
    BY <1>3
  <2>2. Cardinality((P \cup F) \cup (U \cup E))
          = Cardinality(P \cup F) + Cardinality(U \cup E)
    BY <2>1, <1>6, CountBoth, Zenon
  <2> QED
    BY <2>2, <1>4, Zenon
<1>8. Cardinality(H) <= Cardinality(F)
  BY <1>3, <1>5, FS_Subset
<1>9. /\ Cardinality(P) \in Nat /\ Cardinality(F) \in Nat
      /\ Cardinality(U) \in Nat /\ Cardinality(E) \in Nat
  BY <1>5, FS_CardinalityType
<1>10. rows = report.findings
  BY DEF rows
<1> QED
  BY <1>1, <1>2, <1>6, <1>7, <1>8, <1>9, <1>10

\* assertAssessmentRuntime: every source of a recommendation leads to one
\* finding, and that to one target and to evidence of the report itself.
THEOREM RecommendationsLeadToEvidence ==
  ASSUME NEW report, ValidAssessment(report),
         NEW r \in DOMAIN report.recommendations,
         NEW id \in report.recommendations[r].sourceFindingIds
  PROVE  \E i \in DOMAIN report.findings :
           /\ report.findings[i].findingId = id
           /\ \A k \in DOMAIN report.findings :
                report.findings[k].findingId = id => k = i
           /\ \E t \in DOMAIN report.targets :
                /\ report.targets[t].targetId = report.findings[i].targetId
                /\ \A k \in DOMAIN report.targets :
                     report.targets[k].targetId = report.findings[i].targetId => k = t
           /\ \A e \in report.findings[i].evidenceIds :
                \E k \in DOMAIN report.evidence :
                  /\ report.evidence[k].evidenceId = e
                  /\ report.evidence[k].sha256 \in Digests
<1>1. PICK i \in DOMAIN report.findings : report.findings[i].findingId = id
  BY DEF ValidAssessment, Column
<1>2. \A k \in DOMAIN report.findings : report.findings[k].findingId = id => k = i
  BY <1>1 DEF ValidAssessment, DistinctIn
<1>3. PICK t \in DOMAIN report.targets :
        report.targets[t].targetId = report.findings[i].targetId
  BY DEF ValidAssessment, Column
<1>4. \A k \in DOMAIN report.targets :
        report.targets[k].targetId = report.findings[i].targetId => k = t
  BY <1>3 DEF ValidAssessment, DistinctIn
<1>5. ASSUME NEW e \in report.findings[i].evidenceIds
      PROVE  \E k \in DOMAIN report.evidence :
               /\ report.evidence[k].evidenceId = e
               /\ report.evidence[k].sha256 \in Digests
  BY DEF ValidAssessment, Column
<1> QED
  BY <1>1, <1>2, <1>3, <1>4, <1>5

-----------------------------------------------------------------------------
(* The quote estimator *)

\* Clamping a greater number from a greater bound gives no smaller one.
LEMMA ClampRises ==
  ASSUME NEW a \in Int, NEW b \in Int, a <= b,
         NEW low \in Int, NEW low2 \in Int, low <= low2, NEW high \in Int
  PROVE  Clamp(a, low, high) <= Clamp(b, low2, high)
  BY DEF Clamp, Least, Greatest

\* A greater number has no smaller quotient.
LEMMA QuotientRises ==
  ASSUME NEW a \in Nat, NEW b \in Nat, a <= b, NEW k \in Nat \ {0}
  PROVE  a \div k \in Nat /\ b \div k \in Nat /\ a \div k <= b \div k
<1> DEFINE p == a \div k
           q == b \div k
<1>1. p \in Nat /\ q \in Nat
  OBVIOUS
<1>2. k * p <= a /\ b < k * (q + 1)
  OBVIOUS
<1> HIDE DEF p, q
<1>3. ASSUME q < p PROVE FALSE
  <2>1. q + 1 <= p
    BY <1>1, <1>3
  <2>2. k * (q + 1) <= k * p
    BY <2>1, <1>1
  <2> QED
    BY <2>2, <1>1, <1>2
<1>4. p <= q
  BY <1>1, <1>3
<1> QED
  BY <1>1, <1>4 DEF p, q
\* Amounts in hundredths that are not smaller are not rounded to less.
LEMMA RoundRises ==
  ASSUME NEW c, ConfigOK(c), NEW a \in Nat, NEW b \in Nat, a <= b
  PROVE  RoundTo(c, a) \in Nat /\ RoundTo(c, b) \in Nat
         /\ RoundTo(c, a) <= RoundTo(c, b)
<1> DEFINE r == c.roundTo
           k == 200 * r
           x == 2 * a + 100 * r
           y == 2 * b + 100 * r
           p == x \div k
           q == y \div k
<1>1. r \in Nat \ {0}
  BY DEF ConfigOK
<1>2. x \in Nat /\ y \in Nat /\ x <= y /\ k \in Nat \ {0}
  BY <1>1
<1>3. RoundTo(c, a) = r * p /\ RoundTo(c, b) = r * q
  BY DEF RoundTo
<1> HIDE DEF r, k, x, y
<1>4. p \in Nat /\ q \in Nat /\ p <= q
  BY <1>2, QuotientRises
<1> HIDE DEF p, q
<1>5. r * p \in Nat /\ r * q \in Nat /\ r * p <= r * q
  BY <1>1, <1>4
<1> QED
  BY <1>3, <1>5

\* A number of dollars in hundredths of a factor of the configuration.
LEMMA ProductRises ==
  ASSUME NEW a \in Nat, NEW b \in Nat, a <= b, NEW k \in Nat
  PROVE  a * k \in Nat /\ b * k \in Nat /\ a * k <= b * k
  OBVIOUS

\* quote(): the ends of every estimate are in order and within the bounds of
\* the configuration, whatever its numbers are and however they round.
THEOREM EstimateIsOrdered ==
  ASSUME NEW c, ConfigOK(c), NEW raw \in Nat
  PROVE  /\ c.midpointFloor <= Estimate(c, raw).midpoint
         /\ Estimate(c, raw).midpoint <= c.midpointCeiling
         /\ c.estimateFloor <= Estimate(c, raw).lower
         /\ Estimate(c, raw).lower <= Estimate(c, raw).upper
         /\ Estimate(c, raw).upper <= c.estimateCeiling
<1> DEFINE m == Clamp(raw, c.midpointFloor, c.midpointCeiling)
           x == RoundTo(c, m * c.lowerPercent)
           y == RoundTo(c, m * c.upperPercent)
           low == Clamp(x, c.estimateFloor, c.estimateCeiling)
           high == Clamp(y, low, c.estimateCeiling)
<1>1. /\ c.estimateFloor \in Nat /\ c.estimateCeiling \in Nat
      /\ c.midpointFloor \in Nat /\ c.midpointCeiling \in Nat
      /\ c.lowerPercent \in Nat /\ c.upperPercent \in Nat
      /\ c.estimateFloor <= c.estimateCeiling
      /\ c.midpointFloor <= c.midpointCeiling
  BY DEF ConfigOK
<1>2. Estimate(c, raw) = [midpoint |-> m, lower |-> low, upper |-> high]
  BY DEF Estimate
<1>3. m \in Int /\ c.midpointFloor <= m /\ m <= c.midpointCeiling
  BY <1>1 DEF Clamp, Least, Greatest
<1> HIDE DEF m
<1>4. m \in Nat
  BY <1>1, <1>3
<1>5. x \in Nat /\ y \in Nat
  <2>1. m * c.lowerPercent \in Nat /\ m * c.upperPercent \in Nat
    BY <1>1, <1>4, ProductRises
  <2> QED
    BY <2>1, RoundRises
<1> HIDE DEF x, y
<1>6. low \in Int /\ c.estimateFloor <= low /\ low <= c.estimateCeiling
  BY <1>1, <1>5 DEF Clamp, Least, Greatest
<1> HIDE DEF low
<1>7. low <= high /\ high <= c.estimateCeiling
  BY <1>1, <1>5, <1>6 DEF Clamp, Least, Greatest
<1> HIDE DEF high
<1> QED
  BY <1>2, <1>3, <1>6, <1>7

\* quote(): a choice that adds to the raw amount (faster delivery, deeper
\* service, more complexity, another standard) lowers no end of the estimate.
THEOREM EstimateIsMonotone ==
  ASSUME NEW c, ConfigOK(c), NEW a \in Nat, NEW b \in Nat, a <= b
  PROVE  /\ Estimate(c, a).midpoint <= Estimate(c, b).midpoint
         /\ Estimate(c, a).lower <= Estimate(c, b).lower
         /\ Estimate(c, a).upper <= Estimate(c, b).upper
<1> DEFINE m(raw) == Clamp(raw, c.midpointFloor, c.midpointCeiling)
           x(raw) == RoundTo(c, m(raw) * c.lowerPercent)
           y(raw) == RoundTo(c, m(raw) * c.upperPercent)
           low(raw) == Clamp(x(raw), c.estimateFloor, c.estimateCeiling)
           high(raw) == Clamp(y(raw), low(raw), c.estimateCeiling)
<1>1. /\ c.estimateFloor \in Nat /\ c.estimateCeiling \in Nat
      /\ c.midpointFloor \in Nat /\ c.midpointCeiling \in Nat
      /\ c.lowerPercent \in Nat /\ c.upperPercent \in Nat
      /\ c.estimateFloor <= c.estimateCeiling
      /\ c.midpointFloor <= c.midpointCeiling
  BY DEF ConfigOK
<1>2. /\ Estimate(c, a) = [midpoint |-> m(a), lower |-> low(a), upper |-> high(a)]
      /\ Estimate(c, b) = [midpoint |-> m(b), lower |-> low(b), upper |-> high(b)]
  BY DEF Estimate
<1>3. m(a) \in Nat /\ m(b) \in Nat /\ m(a) <= m(b)
  <2>1. /\ m(a) \in Int /\ c.midpointFloor <= m(a)
        /\ m(b) \in Int /\ c.midpointFloor <= m(b)
    BY <1>1 DEF Clamp, Least, Greatest
  <2>2. m(a) <= m(b)
    BY <1>1, ClampRises
  <2> HIDE DEF m
  <2> QED
    BY <2>1, <2>2, <1>1
<1> HIDE DEF m
<1>4. /\ x(a) \in Nat /\ x(b) \in Nat /\ x(a) <= x(b)
      /\ y(a) \in Nat /\ y(b) \in Nat /\ y(a) <= y(b)
  <2>1. /\ m(a) * c.lowerPercent \in Nat /\ m(b) * c.lowerPercent \in Nat
        /\ m(a) * c.lowerPercent <= m(b) * c.lowerPercent
        /\ m(a) * c.upperPercent \in Nat /\ m(b) * c.upperPercent \in Nat
        /\ m(a) * c.upperPercent <= m(b) * c.upperPercent
    BY <1>1, <1>3, ProductRises
  <2> QED
    BY <2>1, RoundRises
<1> HIDE DEF x, y
<1>5. low(a) \in Int /\ low(b) \in Int /\ low(a) <= low(b)
  <2>1. low(a) \in Int /\ low(b) \in Int
    BY <1>1, <1>4 DEF Clamp, Least, Greatest
  <2>2. low(a) <= low(b)
    BY <1>1, <1>4, ClampRises
  <2> QED
    BY <2>1, <2>2
<1> HIDE DEF low
<1>6. high(a) <= high(b)
  BY <1>1, <1>4, <1>5, ClampRises
<1> HIDE DEF high
<1> QED
  BY <1>2, <1>3, <1>5, <1>6

-----------------------------------------------------------------------------
(* Induction *)

\* The order of the natural numbers, as a relation.
Below == OpToRel(<, Nat)

LEMMA BelowIs == \A x, y \in Nat : <<x, y>> \in Below <=> x < y
<1> SUFFICES ASSUME NEW x \in Nat, NEW y \in Nat PROVE <<x, y>> \in Below <=> x < y
  OBVIOUS
<1>1. <<x, y>> \in Nat \X Nat
  OBVIOUS
<1> QED
  BY <1>1 DEF Below, OpToRel

\* A set of natural numbers that is not empty has a least one.
LEMMA LeastNumber ==
  ASSUME NEW T, T \subseteq Nat, T # {}
  PROVE  \E x \in T : \A y \in T : ~(y < x)
<1>1. IsWellFoundedOn(Below, Nat)
  BY NatLessThanWellFounded DEF Below
<1> HIDE DEF Below
<1>2. \E x \in T : \A y \in T : ~ (<<y, x>> \in Below)
  BY <1>1, WFMin
<1> QED
  BY <1>2, BelowIs

\* Induction over the natural numbers, for a set in place of a predicate.
LEMMA Induction ==
  ASSUME NEW S, 0 \in S, \A n \in Nat : n \in S => n + 1 \in S
  PROVE  Nat \subseteq S
<1> SUFFICES ASSUME ~(Nat \subseteq S) PROVE FALSE
  OBVIOUS
<1> DEFINE T == Nat \ S
<1>1. PICK x \in T : \A y \in T : ~(y < x)
  <2>1. T \subseteq Nat /\ T # {}
    OBVIOUS
  <2> HIDE DEF T
  <2> QED
    BY <2>1, LeastNumber
<1>2. x # 0 /\ x \in Nat
  OBVIOUS
<1>3. x - 1 \in Nat /\ x - 1 < x
  BY <1>2
<1>4. x - 1 \in S
  BY <1>1, <1>3
<1> QED
  BY <1>1, <1>2, <1>3, <1>4

-----------------------------------------------------------------------------
(* The members of a field *)

\* What all the emitters agree on, about members of a field.
LEMMA MembersAgree ==
  ASSUME NEW l \in Languages, NEW f \in FieldType
  PROVE  /\ Member(l, f).holdsNull <=> (~f.required \/ f.nullable)
         /\ Member(l, f).omitsNull <=> ~f.required
         /\ ~Member(l, f).omitsEmpty
         /\ ~f.required \/ f.nullable => Member(l, f).readsNull
<1>1. Member("rust", f) = RustMember(f) /\ Member("go", f) = GoMember(f)
      /\ Member("dart", f) = DartMember(f)
  BY DEF Member
<1>2. /\ RustMember(f).holdsNull <=> (~f.required \/ f.nullable)
      /\ RustMember(f).omitsNull <=> ~f.required
      /\ ~RustMember(f).omitsEmpty
      /\ ~f.required \/ f.nullable => RustMember(f).readsNull
  BY Zenon DEF RustMember
<1>3. /\ GoMember(f).holdsNull <=> (~f.required \/ f.nullable)
      /\ GoMember(f).omitsNull <=> ~f.required
      /\ ~GoMember(f).omitsEmpty
      /\ ~f.required \/ f.nullable => GoMember(f).readsNull
  BY Zenon DEF GoMember
<1>4. /\ DartMember(f).holdsNull <=> (~f.required \/ f.nullable)
      /\ DartMember(f).omitsNull <=> ~f.required
      /\ ~DartMember(f).omitsEmpty
      /\ ~f.required \/ f.nullable => DartMember(f).readsNull
  BY Zenon DEF DartMember
<1> QED
  BY <1>1, <1>2, <1>3, <1>4, Zenon DEF Languages

\* An object may leave a field out, or have null there.
Admits(f, object) ==
  ~Present(f, object) => IF f.name \in DOMAIN object THEN f.nullable ELSE ~f.required

ValueIn(f, object) == IF Present(f, object) THEN object[f.name] ELSE Null

\* Every member holds what the object has, or null, and writes that unless the
\* key is optional and there is nothing.
LEMMA HeldAndWritten ==
  ASSUME NEW l \in Languages, NEW f \in FieldType, NEW object, Admits(f, object)
  PROVE  /\ Held(l, f, object) = ValueIn(f, object)
         /\ Written(l, f, object) <=> Present(f, object) \/ f.required
<1>1. CASE Present(f, object)
  <2>1. Held(l, f, object) = object[f.name] /\ object[f.name] # Null
    BY <1>1 DEF Held, Present
  <2> QED
    BY <1>1, <2>1, MembersAgree DEF Written, ValueIn
<1>2. CASE ~Present(f, object)
  <2>1. ~f.required \/ f.nullable
    BY <1>2 DEF Admits
  <2>2. Held(l, f, object) = Null
    BY <1>2, <2>1, MembersAgree DEF Held
  <2> QED
    BY <1>2, <2>2, MembersAgree DEF Written, ValueIn
<1> QED
  BY <1>1, <1>2

\* A type's field is found by its name.
Fields(fields) ==
  /\ fields \in Seq(FieldType)
  /\ \A i, j \in DOMAIN fields : fields[i].name = fields[j].name => i = j

LEMMA FieldFound ==
  ASSUME NEW fields, Fields(fields), NEW f \in Members(fields)
  PROVE  Field(fields, f.name) = f /\ f \in FieldType
<1>1. \A g \in Members(fields) : g.name = f.name => g = f
  BY DEF Fields, Members
<1>2. Field(fields, f.name) \in Members(fields) /\ Field(fields, f.name).name = f.name
  BY DEF Field
<1>3. f \in FieldType
  BY DEF Fields, Members
<1> QED
  BY <1>1, <1>2, <1>3

\* The keys an encoded object has in every language.
KeptKeys(fields, object) ==
  {f.name : f \in {g \in Members(fields) : Present(g, object) \/ g.required}}

\* Every language writes those keys.
LEMMA KeysAgree ==
  ASSUME NEW l \in Languages, NEW fields, Fields(fields), NEW object,
         \A f \in Members(fields) : Admits(f, object)
  PROVE  Keys(l, fields, object) = KeptKeys(fields, object)
<1>1. \A f \in Members(fields) : Written(l, f, object) <=> Present(f, object) \/ f.required
  BY HeldAndWritten, FieldFound
<1> QED
  BY <1>1 DEF Keys, KeptKeys

\* Names are unique, so a key stands for its field.
LEMMA KeptKey ==
  ASSUME NEW fields, Fields(fields), NEW object, NEW f \in Members(fields)
  PROVE  f.name \in KeptKeys(fields, object) <=> Present(f, object) \/ f.required
<1>1. \A g \in Members(fields) : g.name = f.name => g = f
  BY DEF Fields, Members
<1> QED
  BY <1>1 DEF KeptKeys

LEMMA KeyOfField ==
  ASSUME NEW fields, NEW object, NEW n \in KeptKeys(fields, object)
  PROVE  \E f \in Members(fields) : f.name = n
BY DEF KeptKeys

-----------------------------------------------------------------------------
(* What a relay makes of a document *)

\* No value is null or a list by its kind; only objects are behind a reference.
LEMMA KindsDiffer ==
  ASSUME NEW f, f.base \in Bases
  PROVE  /\ JsonKinds[f.base] \subseteq {"text", "int", "fraction", "bool", "obj"}
         /\ f.base = "ref" => JsonKinds[f.base] = {"obj"}
         /\ f.base = "object" => JsonKinds[f.base] = {"obj"}
         /\ f.base = "number" => JsonKinds[f.base] = NumberKinds
BY DEF Bases, JsonKinds, NumberKinds

LEMMA BaseOfField == \A f \in FieldType : f.base \in Bases
  BY DEF FieldType

\* A double that is written again is a number, the same if a double can hold it.
LEMMA DoubleIs ==
  ASSUME NEW l \in Languages, NEW n \in Numbers
  PROVE  /\ DoubleOf(l, n) \in NumberTokens
         /\ Kind(DoubleOf(l, n)) \in NumberKinds /\ DoubleOf(l, n)[2] \in Numbers
         /\ n \in Exact => DoubleOf(l, n)[2] = n
<1> DEFINE d == AsDouble[l][n]
<1>1. d \in Numbers /\ (n \in Exact => d = n)
  BY NumberAssumption
<1> HIDE DEF d
<1>2. Notation[l][d] \in NumberKinds
  BY <1>1, NumberAssumption
<1>3. DoubleOf(l, n) = <<Notation[l][d], d>>
  BY DEF DoubleOf, d
<1> QED
  BY <1>1, <1>2, <1>3 DEF NumberTokens, Kind

\* The same for a number in an object without a schema.
LEMMA UntypedIs ==
  ASSUME NEW l \in Languages, NEW v \in NumberTokens
  PROVE  UntypedRelay(l, v) \in NumberTokens /\ SameNumber(v, UntypedRelay(l, v))
<1>1. Kind(v) \in NumberKinds /\ v[2] \in Numbers
  BY DEF NumberTokens, Kind
<1>2. CASE Kind(v) = "int" /\ l # "go"
  BY <1>1, <1>2 DEF UntypedRelay, SameNumber
<1>3. CASE ~(Kind(v) = "int" /\ l # "go")
  <2>1. UntypedRelay(l, v) = DoubleOf(l, v[2])
    BY <1>3 DEF UntypedRelay
  <2> QED
    BY <1>1, <2>1, DoubleIs DEF SameNumber
<1> QED
  BY <1>2, <1>3

\* Re-encoding keeps what the schema admits of a value without members, and
\* what it says.
LEMMA ScalarRelayIs ==
  ASSUME NEW l \in Languages, NEW f, f.base \in Bases, NEW v, ScalarOK(f, v)
  PROVE  /\ ScalarOK(f, ScalarRelay(l, f, v))
         /\ SameScalar(f, v, ScalarRelay(l, f, v))
<1>1. CASE f.base = "number"
  <2>1. Kind(v) \in NumberKinds /\ v[2] \in Numbers
    BY <1>1, KindsDiffer DEF ScalarOK
  <2>2. ScalarRelay(l, f, v) = DoubleOf(l, v[2])
    BY <1>1, <2>1 DEF ScalarRelay
  <2>3. SameNumber(v, DoubleOf(l, v[2]))
    BY <2>1, DoubleIs DEF SameNumber
  <2>4. SameScalar(f, v, DoubleOf(l, v[2]))
    BY <1>1, <2>3 DEF SameScalar
  <2>5. ScalarOK(f, DoubleOf(l, v[2]))
    BY <1>1, <2>1, DoubleIs, KindsDiffer DEF ScalarOK
  <2> QED
    BY <2>2, <2>4, <2>5
<1>2. CASE f.base = "object"
  <2>1. Kind(v) = "obj" /\ \A i \in DOMAIN v[2] : v[2][i] \in NumberTokens
    BY <1>2, KindsDiffer DEF ScalarOK
  <2> DEFINE s == [i \in DOMAIN v[2] |-> UntypedRelay(l, v[2][i])]
             w == ScalarRelay(l, f, v)
  <2>2. w = <<"obj", s>>
    BY <1>2, <2>1 DEF ScalarRelay
  <2>3. DOMAIN s = DOMAIN v[2] /\ \A i \in DOMAIN v[2] : s[i] = UntypedRelay(l, v[2][i])
    OBVIOUS
  <2> HIDE DEF s, w
  <2>4. Kind(w) = "obj" /\ w[2] = s
    BY <2>2 DEF Kind
  <2>5. \A i \in DOMAIN v[2] : s[i] \in NumberTokens /\ SameNumber(v[2][i], s[i])
    BY <2>1, <2>3, UntypedIs
  <2>6. ScalarOK(f, w)
    BY <1>2, <2>3, <2>4, <2>5, KindsDiffer DEF ScalarOK
  <2>7. SameScalar(f, v, w)
    BY <1>2, <2>3, <2>4, <2>5 DEF SameScalar
  <2> QED
    BY <2>6, <2>7 DEF w
<1>3. CASE f.base \notin {"number", "object"}
  <2>1. ScalarRelay(l, f, v) = v
    BY <1>3 DEF ScalarRelay
  <2> QED
    BY <1>3, <2>1 DEF SameScalar
<1> QED
  BY <1>1, <1>2, <1>3

\* What a language makes of the value of a field of an inner object, of the
\* object, of an item and of a value.
KeptPart(l, f, v) ==
  IF f.list /\ Kind(v) = "list"
  THEN <<"list", [i \in DOMAIN v[2] |-> ScalarRelay(l, f, v[2][i])]>>
  ELSE ScalarRelay(l, f, v)
KeptInner(l, object) ==
  [n \in KeptKeys(Inner, object) |->
     LET f == Field(Inner, n) IN
     IF Present(f, object) THEN KeptPart(l, f, object[f.name]) ELSE Null]
KeptItem(l, f, v) ==
  IF f.base = "ref" /\ Kind(v) = "obj" THEN <<"obj", KeptInner(l, v[2])>>
  ELSE ScalarRelay(l, f, v)
KeptValue(l, f, v) ==
  IF f.list /\ Kind(v) = "list"
  THEN <<"list", [i \in DOMAIN v[2] |-> KeptItem(l, f, v[2][i])]>>
  ELSE KeptItem(l, f, v)

\* Nothing is made of null.
LEMMA NullStays ==
  ASSUME NEW l, NEW f
  PROVE  /\ Kind(Null) = "null" /\ ScalarRelay(l, f, Null) = Null
         /\ ItemRelay(l, f, Null) = Null
<1>1. Kind(Null) = "null"
  BY DEF Kind, Null
<1>2. ScalarRelay(l, f, Null) = Null
  BY <1>1 DEF ScalarRelay, NumberKinds
<1> QED
  BY <1>1, <1>2 DEF ItemRelay

\* The type that a reference names has fields with names of their own.
LEMMA InnerFields == Fields(Inner)
  BY AdapterAssumption DEF Fields

\* The values of an inner object's fields, and when two say the same.
PartOK(f, v) ==
  IF ~f.list THEN ScalarOK(f, v)
  ELSE Kind(v) = "list" /\ \A i \in DOMAIN v[2] : ScalarOK(f, v[2][i])
SamePart(f, v, w) ==
  IF ~f.list THEN SameScalar(f, v, w)
  ELSE /\ DOMAIN v[2] = DOMAIN w[2]
       /\ \A i \in DOMAIN v[2] : SameScalar(f, v[2][i], w[2][i])

\* No such value is null.
LEMMA NotNull ==
  ASSUME NEW f, f.base \in Bases, NEW v
  PROVE  (ScalarOK(f, v) \/ Kind(v) = "list") => v # Null
BY KindsDiffer DEF ScalarOK, Kind, Null

\* Re-encoding keeps such a value, and what it says.
LEMMA KeptPartIs ==
  ASSUME NEW l \in Languages, NEW f, f.base \in Bases, NEW v, PartOK(f, v)
  PROVE  /\ PartOK(f, KeptPart(l, f, v)) /\ SamePart(f, v, KeptPart(l, f, v))
         /\ KeptPart(l, f, v) # Null
<1> DEFINE w == KeptPart(l, f, v)
<1>1. CASE ~f.list
  <2>1. w = ScalarRelay(l, f, v) /\ ScalarOK(f, v)
    BY <1>1 DEF KeptPart, PartOK
  <2> HIDE DEF w
  <2>2. ScalarOK(f, w) /\ SameScalar(f, v, w)
    BY <2>1, ScalarRelayIs
  <2>3. PartOK(f, w) /\ SamePart(f, v, w) /\ w # Null
    BY <1>1, <2>2, NotNull DEF PartOK, SamePart
  <2> QED
    BY <2>3 DEF w
<1>2. CASE f.list
  <2> DEFINE s == [i \in DOMAIN v[2] |-> ScalarRelay(l, f, v[2][i])]
  <2>1. Kind(v) = "list" /\ \A i \in DOMAIN v[2] : ScalarOK(f, v[2][i])
    BY <1>2 DEF PartOK
  <2>2. w = <<"list", s>>
    BY <1>2, <2>1 DEF KeptPart
  <2>3. DOMAIN s = DOMAIN v[2]
        /\ \A i \in DOMAIN v[2] : s[i] = ScalarRelay(l, f, v[2][i])
    OBVIOUS
  <2> HIDE DEF s, w
  <2>4. Kind(w) = "list" /\ w[2] = s
    BY <2>2 DEF Kind
  <2>5. \A i \in DOMAIN v[2] : ScalarOK(f, s[i]) /\ SameScalar(f, v[2][i], s[i])
    BY <2>1, <2>3, ScalarRelayIs
  <2>6. PartOK(f, w) /\ SamePart(f, v, w) /\ w # Null
    BY <1>2, <2>3, <2>4, <2>5, NotNull DEF PartOK, SamePart
  <2> QED
    BY <2>6 DEF w
<1> QED
  BY <1>1, <1>2

\* The schema of Inner in these words.
LEMMA InnerDocumentIs ==
  ASSUME NEW object
  PROVE  InnerDocument(object) <=>
           \A f \in Members(Inner) :
             Admits(f, object) /\ (Present(f, object) => PartOK(f, object[f.name]))
BY DEF InnerDocument, Admits, PartOK

\* What a schema admits is re-encoded so.
LEMMA InnerRelayIs ==
  ASSUME NEW l \in Languages, NEW object, InnerDocument(object)
  PROVE  InnerRelay(l, object) = KeptInner(l, object)
<1>1. \A f \in Members(Inner) : Admits(f, object)
  BY InnerDocumentIs
<1>2. Keys(l, Inner, object) = KeptKeys(Inner, object)
  BY <1>1, KeysAgree, InnerFields
<1> DEFINE relayed(n) ==
      LET f == Field(Inner, n)
          v == Held(l, f, object) IN
      IF f.list /\ Kind(v) = "list"
      THEN <<"list", [i \in DOMAIN v[2] |-> ScalarRelay(l, f, v[2][i])]>>
      ELSE ScalarRelay(l, f, v)
    kept(n) ==
      LET f == Field(Inner, n) IN
      IF Present(f, object) THEN KeptPart(l, f, object[f.name]) ELSE Null
<1>3. ASSUME NEW n \in KeptKeys(Inner, object) PROVE relayed(n) = kept(n)
  <2>1. PICK f \in Members(Inner) : f.name = n
    BY KeyOfField
  <2>2. Field(Inner, n) = f /\ f \in FieldType
    BY <2>1, FieldFound, InnerFields
  <2>3. Held(l, f, object) = ValueIn(f, object)
    BY <1>1, <2>2, HeldAndWritten
  <2>4. CASE Present(f, object)
    BY <2>2, <2>3, <2>4 DEF ValueIn, KeptPart
  <2>5. CASE ~Present(f, object)
    <3>1. Held(l, f, object) = Null /\ kept(n) = Null
      BY <2>2, <2>3, <2>5 DEF ValueIn
    <3> QED
      BY <2>2, <3>1, NullStays
  <2> QED
    BY <2>4, <2>5
<1>4. InnerRelay(l, object) = [n \in Keys(l, Inner, object) |-> relayed(n)]
  BY DEF InnerRelay
<1>5. KeptInner(l, object) = [n \in KeptKeys(Inner, object) |-> kept(n)]
  BY DEF KeptInner
<1> HIDE DEF relayed, kept
<1> QED
  BY <1>2, <1>3, <1>4, <1>5

\* The keys of a re-encoded inner object, and what is at them.
LEMMA KeptInnerAt ==
  ASSUME NEW l \in Languages, NEW object, InnerDocument(object), NEW f \in Members(Inner)
  PROVE  LET kept == KeptInner(l, object) IN
         /\ f.name \in DOMAIN kept <=> Present(f, object) \/ f.required
         /\ Present(f, kept) <=> Present(f, object)
         /\ Present(f, object) => kept[f.name] = KeptPart(l, f, object[f.name])
<1> DEFINE kept == KeptInner(l, object)
<1>1. f.name \in KeptKeys(Inner, object) <=> Present(f, object) \/ f.required
  BY KeptKey, InnerFields
<1>2. Field(Inner, f.name) = f /\ f.base \in Bases
  BY FieldFound, InnerFields, BaseOfField
<1>3. /\ f.name \in DOMAIN kept <=> Present(f, object) \/ f.required
      /\ Present(f, object) => kept[f.name] = KeptPart(l, f, object[f.name])
      /\ ~Present(f, object) /\ f.name \in DOMAIN kept => kept[f.name] = Null
  BY <1>1, <1>2 DEF KeptInner
<1>4. Present(f, object) => KeptPart(l, f, object[f.name]) # Null
  BY <1>2, KeptPartIs, InnerDocumentIs
<1> HIDE DEF kept
<1>5. Present(f, kept) <=> Present(f, object)
  BY <1>3, <1>4 DEF Present
<1> QED
  BY <1>3, <1>5 DEF kept

\* A re-encoded inner object is one that its schema admits, and says the same.
LEMMA KeptInnerIs ==
  ASSUME NEW l \in Languages, NEW object, InnerDocument(object)
  PROVE  InnerDocument(KeptInner(l, object)) /\ SameInner(object, KeptInner(l, object))
<1> DEFINE kept == KeptInner(l, object)
<1>1. ASSUME NEW f \in Members(Inner)
      PROVE  /\ f.name \in DOMAIN kept <=> Present(f, object) \/ f.required
             /\ Present(f, kept) <=> Present(f, object)
             /\ Present(f, object) => kept[f.name] = KeptPart(l, f, object[f.name])
  BY KeptInnerAt
<1> HIDE DEF kept
<1>2. ASSUME NEW f \in Members(Inner), Present(f, object)
      PROVE  PartOK(f, kept[f.name]) /\ SamePart(f, object[f.name], kept[f.name])
  <2>1. PartOK(f, object[f.name]) /\ f.base \in Bases
    BY <1>2, InnerDocumentIs, FieldFound, InnerFields, BaseOfField
  <2> QED
    BY <1>1, <1>2, <2>1, KeptPartIs
<1>3. \A f \in Members(Inner) : Admits(f, object)
  BY InnerDocumentIs
<1>4. \A f \in Members(Inner) : Admits(f, kept)
  BY <1>1, <1>3 DEF Admits, Present
<1>5. InnerDocument(kept)
  BY <1>1, <1>2, <1>4, InnerDocumentIs
<1>6. ASSUME NEW f \in Members(Inner), f.required
      PROVE  f.name \in DOMAIN object /\ f.name \in DOMAIN kept
  BY <1>1, <1>3, <1>6 DEF Admits, Present
<1>7. SameInner(object, kept)
  BY <1>1, <1>2, <1>6 DEF SameInner, SameField, SamePart
<1> QED
  BY <1>5, <1>7 DEF kept

\* What a schema admits as an item of a field, and as its value.
ItemOK(f, v) ==
  /\ ScalarOK(f, v)
  /\ f.base = "ref" => InnerDocument(v[2])
ValueOK(f, v) ==
  IF ~f.list THEN ItemOK(f, v)
  ELSE Kind(v) = "list" /\ \A i \in DOMAIN v[2] : ItemOK(f, v[2][i])

\* What the schema of the outer type admits.
Document(object) ==
  \A f \in Members(type) :
    /\ Admits(f, object)
    /\ Present(f, object) => ValueOK(f, object[f.name])

\* An item behind a reference, re-encoded.
LEMMA KeptRef ==
  ASSUME NEW l \in Languages, NEW f \in FieldType, NEW v, ItemOK(f, v), f.base = "ref"
  PROVE  /\ Kind(v) = "obj" /\ InnerDocument(v[2])
         /\ KeptItem(l, f, v) = <<"obj", KeptInner(l, v[2])>>
         /\ Kind(KeptItem(l, f, v)) = "obj"
         /\ KeptItem(l, f, v)[2] = KeptInner(l, v[2])
<1>1. Kind(v) = "obj" /\ InnerDocument(v[2])
  BY BaseOfField, KindsDiffer DEF ItemOK, ScalarOK
<1>2. KeptItem(l, f, v) = <<"obj", KeptInner(l, v[2])>>
  BY <1>1 DEF KeptItem
<1> QED
  BY <1>1, <1>2 DEF Kind

\* Re-encoding keeps an item, and what it says.
LEMMA KeptItemIs ==
  ASSUME NEW l \in Languages, NEW f \in FieldType, NEW v, ItemOK(f, v)
  PROVE  /\ ItemOK(f, KeptItem(l, f, v))
         /\ SameItem(f, v, KeptItem(l, f, v))
         /\ KeptItem(l, f, v) # Null
         /\ ItemRelay(l, f, v) = KeptItem(l, f, v)
<1>0. f.base \in Bases
  BY BaseOfField
<1>1. CASE f.base = "ref"
  <2> DEFINE w == KeptItem(l, f, v)
  <2>1. /\ Kind(v) = "obj" /\ InnerDocument(v[2])
        /\ w = <<"obj", KeptInner(l, v[2])>>
        /\ Kind(w) = "obj" /\ w[2] = KeptInner(l, v[2])
    BY <1>1, KeptRef
  <2> HIDE DEF w
  <2>2. InnerDocument(w[2]) /\ SameInner(v[2], w[2])
    BY <2>1, KeptInnerIs
  <2>3. ScalarOK(f, w)
    BY <1>0, <1>1, <2>1, KindsDiffer DEF ScalarOK
  <2>4. ItemRelay(l, f, v) = w
    BY <1>1, <2>1, InnerRelayIs DEF ItemRelay
  <2>5. ItemOK(f, w) /\ SameItem(f, v, w) /\ w # Null
    BY <1>0, <1>1, <2>2, <2>3, NotNull DEF ItemOK, SameItem
  <2> QED
    BY <2>4, <2>5 DEF w
<1>2. CASE f.base # "ref"
  <2>1. KeptItem(l, f, v) = ScalarRelay(l, f, v) /\ ItemRelay(l, f, v) = ScalarRelay(l, f, v)
    BY <1>2 DEF KeptItem, ItemRelay
  <2>2. /\ ScalarOK(f, ScalarRelay(l, f, v)) /\ SameScalar(f, v, ScalarRelay(l, f, v))
        /\ ScalarRelay(l, f, v) # Null
    BY <1>0, ScalarRelayIs, NotNull DEF ItemOK
  <2> QED
    BY <1>2, <2>1, <2>2 DEF ItemOK, SameItem
<1> QED
  BY <1>1, <1>2

\* The same for a field's value, be it a list or not.
SameValue(f, v, w) ==
  IF ~f.list THEN SameItem(f, v, w)
  ELSE /\ DOMAIN v[2] = DOMAIN w[2]
       /\ \A i \in DOMAIN v[2] : SameItem(f, v[2][i], w[2][i])

\* A list, re-encoded.
LEMMA KeptList ==
  ASSUME NEW l \in Languages, NEW f \in FieldType, NEW v, ValueOK(f, v), f.list
  PROVE  /\ Kind(v) = "list" /\ \A i \in DOMAIN v[2] : ItemOK(f, v[2][i])
         /\ KeptValue(l, f, v) = <<"list", [i \in DOMAIN v[2] |-> KeptItem(l, f, v[2][i])]>>
         /\ Kind(KeptValue(l, f, v)) = "list"
         /\ DOMAIN KeptValue(l, f, v)[2] = DOMAIN v[2]
         /\ \A i \in DOMAIN v[2] : KeptValue(l, f, v)[2][i] = KeptItem(l, f, v[2][i])
<1> DEFINE s == [i \in DOMAIN v[2] |-> KeptItem(l, f, v[2][i])]
<1>1. Kind(v) = "list" /\ \A i \in DOMAIN v[2] : ItemOK(f, v[2][i])
  BY DEF ValueOK
<1>2. KeptValue(l, f, v) = <<"list", s>>
  BY <1>1 DEF KeptValue
<1>3. DOMAIN s = DOMAIN v[2] /\ \A i \in DOMAIN v[2] : s[i] = KeptItem(l, f, v[2][i])
  OBVIOUS
<1> HIDE DEF s
<1>4. Kind(KeptValue(l, f, v)) = "list" /\ KeptValue(l, f, v)[2] = s
  BY <1>2 DEF Kind
<1> QED
  BY <1>1, <1>2, <1>3, <1>4 DEF s

LEMMA KeptValueIs ==
  ASSUME NEW l \in Languages, NEW f \in FieldType, NEW v, ValueOK(f, v)
  PROVE  /\ ValueOK(f, KeptValue(l, f, v))
         /\ SameValue(f, v, KeptValue(l, f, v))
         /\ KeptValue(l, f, v) # Null
<1>1. CASE ~f.list
  <2>1. ItemOK(f, v) /\ KeptValue(l, f, v) = KeptItem(l, f, v)
    BY <1>1 DEF ValueOK, KeptValue
  <2> QED
    BY <1>1, <2>1, KeptItemIs DEF ValueOK, SameValue
<1>2. CASE f.list
  <2> DEFINE w == KeptValue(l, f, v)
  <2>1. /\ Kind(w) = "list" /\ DOMAIN w[2] = DOMAIN v[2]
        /\ \A i \in DOMAIN v[2] : ItemOK(f, v[2][i]) /\ w[2][i] = KeptItem(l, f, v[2][i])
    BY <1>2, KeptList
  <2> HIDE DEF w
  <2>2. \A i \in DOMAIN v[2] : ItemOK(f, w[2][i]) /\ SameItem(f, v[2][i], w[2][i])
    BY <2>1, KeptItemIs
  <2>3. ValueOK(f, w) /\ SameValue(f, v, w) /\ w # Null
    BY <1>2, <2>1, <2>2, NotNull, BaseOfField DEF ValueOK, SameValue
  <2> QED
    BY <2>3 DEF w
<1> QED
  BY <1>1, <1>2

\* What a language makes of a document.
Kept(l, object) ==
  [n \in KeptKeys(type, object) |->
     LET f == Field(type, n) IN
     IF Present(f, object) THEN KeptValue(l, f, object[f.name]) ELSE Null]

\* When a language re-encodes a document, that is what it makes of it.
LEMMA RelayIs ==
  ASSUME NEW l \in Languages, NEW object, Fields(type), Document(object)
  PROVE  Relay(l, object) = Kept(l, object)
<1>1. \A f \in Members(type) : Admits(f, object)
  BY DEF Document
<1>2. Keys(l, type, object) = KeptKeys(type, object)
  BY <1>1, KeysAgree
<1> DEFINE relayed(n) ==
      LET f == Field(type, n)
          v == Held(l, f, object) IN
      IF f.list /\ Kind(v) = "list"
      THEN <<"list", [i \in DOMAIN v[2] |-> ItemRelay(l, f, v[2][i])]>>
      ELSE ItemRelay(l, f, v)
<1> DEFINE kept(n) ==
      LET f == Field(type, n) IN
      IF Present(f, object) THEN KeptValue(l, f, object[f.name]) ELSE Null
<1>3. ASSUME NEW n \in KeptKeys(type, object) PROVE relayed(n) = kept(n)
  <2>1. PICK f \in Members(type) : f.name = n
    BY KeyOfField
  <2>2. Field(type, n) = f /\ f \in FieldType
    BY <2>1, FieldFound
  <2>3. Held(l, f, object) = ValueIn(f, object)
    BY <1>1, <2>2, HeldAndWritten
  <2> DEFINE v == object[f.name]
  <2>4. CASE Present(f, object)
    <3>1. Held(l, f, object) = v /\ ValueOK(f, v)
      BY <2>3, <2>4 DEF ValueIn, Document
    <3>2. kept(n) = KeptValue(l, f, v)
      BY <2>2, <2>4
    <3> HIDE DEF v
    <3>3. CASE ~f.list
      <4>1. relayed(n) = ItemRelay(l, f, v) /\ KeptValue(l, f, v) = KeptItem(l, f, v)
        BY <2>2, <3>1, <3>3 DEF KeptValue
      <4>2. ItemOK(f, v)
        BY <3>1, <3>3 DEF ValueOK
      <4> QED
        BY <2>2, <3>2, <4>1, <4>2, KeptItemIs
    <3>4. CASE f.list
      <4>1. /\ Kind(v) = "list" /\ \A i \in DOMAIN v[2] : ItemOK(f, v[2][i])
            /\ KeptValue(l, f, v)
                 = <<"list", [i \in DOMAIN v[2] |-> KeptItem(l, f, v[2][i])]>>
        BY <2>2, <3>1, <3>4, KeptList
      <4>2. \A i \in DOMAIN v[2] : ItemRelay(l, f, v[2][i]) = KeptItem(l, f, v[2][i])
        BY <2>2, <4>1, KeptItemIs
      <4>3. relayed(n) = <<"list", [i \in DOMAIN v[2] |-> ItemRelay(l, f, v[2][i])]>>
        BY <2>2, <3>1, <3>4, <4>1
      <4> HIDE DEF relayed, kept
      <4>4. [i \in DOMAIN v[2] |-> ItemRelay(l, f, v[2][i])]
              = [i \in DOMAIN v[2] |-> KeptItem(l, f, v[2][i])]
        BY <4>2
      <4> QED
        BY <3>2, <4>1, <4>3, <4>4
    <3> QED
      BY <3>3, <3>4
  <2>5. CASE ~Present(f, object)
    <3>1. Held(l, f, object) = Null /\ kept(n) = Null
      BY <2>2, <2>3, <2>5 DEF ValueIn
    <3> QED
      BY <2>2, <3>1, NullStays
  <2> QED
    BY <2>4, <2>5
<1>4. Relay(l, object) = [n \in Keys(l, type, object) |-> relayed(n)]
  BY DEF Relay
<1>5. Kept(l, object) = [n \in KeptKeys(type, object) |-> kept(n)]
  BY DEF Kept
<1> HIDE DEF relayed, kept
<1> QED
  BY <1>2, <1>3, <1>4, <1>5

\* The keys of a re-encoded document, and what is at them.
LEMMA KeptAt ==
  ASSUME NEW l \in Languages, NEW object, Fields(type), Document(object),
         NEW f \in Members(type)
  PROVE  LET kept == Kept(l, object) IN
         /\ f.name \in DOMAIN kept <=> Present(f, object) \/ f.required
         /\ Present(f, kept) <=> Present(f, object)
         /\ Present(f, object) => kept[f.name] = KeptValue(l, f, object[f.name])
<1> DEFINE kept == Kept(l, object)
<1>1. f.name \in KeptKeys(type, object) <=> Present(f, object) \/ f.required
  BY KeptKey
<1>2. Field(type, f.name) = f /\ f \in FieldType
  BY FieldFound
<1>3. /\ f.name \in DOMAIN kept <=> Present(f, object) \/ f.required
      /\ Present(f, object) => kept[f.name] = KeptValue(l, f, object[f.name])
      /\ ~Present(f, object) /\ f.name \in DOMAIN kept => kept[f.name] = Null
  BY <1>1, <1>2 DEF Kept
<1>4. Present(f, object) => KeptValue(l, f, object[f.name]) # Null
  BY <1>2, KeptValueIs DEF Document
<1> HIDE DEF kept
<1>5. Present(f, kept) <=> Present(f, object)
  BY <1>3, <1>4 DEF Present
<1> QED
  BY <1>3, <1>5 DEF kept

\* The result is a document of the same type that says the same.
LEMMA KeptIs ==
  ASSUME NEW l \in Languages, NEW object, Fields(type), Document(object)
  PROVE  Document(Kept(l, object)) /\ SameDocument(object, Kept(l, object))
<1> DEFINE kept == Kept(l, object)
<1>1. ASSUME NEW f \in Members(type)
      PROVE  /\ f.name \in DOMAIN kept <=> Present(f, object) \/ f.required
             /\ Present(f, kept) <=> Present(f, object)
             /\ Present(f, object) => kept[f.name] = KeptValue(l, f, object[f.name])
  BY KeptAt
<1> HIDE DEF kept
<1>2. ASSUME NEW f \in Members(type), Present(f, object)
      PROVE  /\ ValueOK(f, kept[f.name])
             /\ SameValue(f, object[f.name], kept[f.name])
  <2>1. ValueOK(f, object[f.name])
    BY <1>2 DEF Document
  <2> QED
    BY <1>1, <1>2, <2>1, KeptValueIs, FieldFound
<1>3. \A f \in Members(type) : Admits(f, kept)
  BY <1>1 DEF Present, Admits, Document
<1>4. Document(kept)
  BY <1>1, <1>2, <1>3 DEF Document
<1>5. SameDocument(object, kept)
  <2>1. ASSUME NEW f \in Members(type), f.required
        PROVE  f.name \in DOMAIN object /\ f.name \in DOMAIN kept
    BY <1>1, <2>1 DEF Document, Admits, Present
  <2> QED
    BY <1>1, <1>2, <2>1 DEF SameDocument, SameField, SameValue
<1> QED
  BY <1>4, <1>5 DEF kept

\* A valid value says the same as itself: its required keys are there, and its
\* numbers are numbers.
LEMMA SaysTheSame ==
  /\ \A f : f.base \in Bases => \A v : ScalarOK(f, v) => SameScalar(f, v, v)
  /\ \A d : InnerDocument(d) => SameInner(d, d)
  /\ \A f \in FieldType : \A v : ItemOK(f, v) => SameItem(f, v, v)
  /\ \A f \in FieldType : \A v : ValueOK(f, v) => SameValue(f, v, v)
  /\ \A d : Fields(type) /\ Document(d) => SameDocument(d, d)
<1>1. ASSUME NEW f, f.base \in Bases, NEW v, ScalarOK(f, v)
      PROVE  SameScalar(f, v, v)
  <2>1. \A w \in NumberTokens : SameNumber(w, w)
    BY DEF NumberTokens, SameNumber, Kind
  <2>2. f.base = "number" => SameNumber(v, v)
    BY <1>1, KindsDiffer DEF ScalarOK, SameNumber
  <2> QED
    BY <1>1, <2>1, <2>2 DEF ScalarOK, SameScalar
<1>2. ASSUME NEW d, InnerDocument(d) PROVE SameInner(d, d)
  <2> SUFFICES ASSUME NEW f \in Members(Inner)
               PROVE  SameField(f, d, d) /\ (Present(f, d) => SamePart(f, d[f.name], d[f.name]))
    BY DEF SameInner, SamePart
  <2>1. Admits(f, d) /\ (Present(f, d) => PartOK(f, d[f.name])) /\ f.base \in Bases
    BY <1>2, InnerDocumentIs, FieldFound, InnerFields, BaseOfField
  <2>2. Present(f, d) => SamePart(f, d[f.name], d[f.name])
    BY <1>1, <2>1 DEF SamePart, PartOK
  <2> QED
    BY <2>1, <2>2 DEF SameField, Admits, Present
<1>3. \A f \in FieldType : \A v : ItemOK(f, v) => SameItem(f, v, v)
  BY <1>1, <1>2, BaseOfField DEF SameItem, ItemOK
<1>4. \A f \in FieldType : \A v : ValueOK(f, v) => SameValue(f, v, v)
  BY <1>3 DEF SameValue, ValueOK
<1>5. ASSUME NEW d, Fields(type), Document(d) PROVE SameDocument(d, d)
  <2> SUFFICES ASSUME NEW f \in Members(type)
               PROVE  SameField(f, d, d) /\ (Present(f, d) => SameValue(f, d[f.name], d[f.name]))
    BY DEF SameDocument, SameValue
  <2>1. Present(f, d) => SameValue(f, d[f.name], d[f.name])
    BY <1>4, <1>5, FieldFound DEF Document
  <2> QED
    BY <1>5, <2>1 DEF SameField, Document, Admits, Present
<1> QED
  BY <1>1, <1>2, <1>3, <1>4, <1>5

\* Saying the same carries over from one hop to the next.
LEMMA SaysTheSameStill ==
  ASSUME NEW a, NEW b, NEW c, SameDocument(a, b), SameDocument(b, c)
  PROVE  SameDocument(a, c)
<1>1. ASSUME NEW f, NEW u, NEW v, NEW w, SameScalar(f, u, v), SameScalar(f, v, w)
      PROVE  SameScalar(f, u, w)
  <2>1. \A x, y, z : SameNumber(x, y) /\ SameNumber(y, z) => SameNumber(x, z)
    BY DEF SameNumber
  <2> QED
    BY <1>1, <2>1 DEF SameScalar
<1>2. ASSUME NEW u, NEW v, NEW w, SameInner(u, v), SameInner(v, w)
      PROVE  SameInner(u, w)
  <2> SUFFICES ASSUME NEW f \in Members(Inner)
               PROVE  SameField(f, u, w) /\ (Present(f, u) => SamePart(f, u[f.name], w[f.name]))
    BY DEF SameInner, SamePart
  <2>1. /\ SameField(f, u, v) /\ SameField(f, v, w)
        /\ Present(f, u) => SamePart(f, u[f.name], v[f.name])
        /\ Present(f, v) => SamePart(f, v[f.name], w[f.name])
    BY <1>2 DEF SameInner, SamePart
  <2>2. Present(f, u) => SamePart(f, u[f.name], w[f.name])
    BY <1>1, <2>1 DEF SamePart, SameField
  <2> QED
    BY <2>1, <2>2 DEF SameField
<1>3. \A f, u, v, w : SameItem(f, u, v) /\ SameItem(f, v, w) => SameItem(f, u, w)
  BY <1>1, <1>2 DEF SameItem
<1>4. ASSUME NEW f \in Members(type), Present(f, a)
      PROVE  SameValue(f, a[f.name], c[f.name])
  <2>1. /\ Present(f, b) /\ Present(f, c)
        /\ SameValue(f, a[f.name], b[f.name]) /\ SameValue(f, b[f.name], c[f.name])
    BY <1>4 DEF SameDocument, SameField, SameValue
  <2> QED
    BY <1>3, <2>1 DEF SameValue
<1> QED
  BY <1>4 DEF SameDocument, SameField, SameValue

-----------------------------------------------------------------------------
(* Enum values from a newer peer *)

\* An object holds an enum value that is not in its vocabulary.
NewerIn(object) ==
  \/ HasNewer(type, object)
  \/ \E d \in InnerObjects(object) : HasNewer(Inner, d)

\* The objects a document holds are behind its references.
LEMMA InnerObjectsAre ==
  ASSUME NEW object, NEW d
  PROVE  d \in InnerObjects(object) <=>
           \E f \in Members(type) :
             /\ f.base = "ref" /\ Present(f, object)
             /\ IF f.list THEN \E i \in DOMAIN object[f.name][2] :
                                 d = object[f.name][2][i][2]
                ELSE d = object[f.name][2]
BY DEF InnerObjects

\* Documents that say the same have the same enum values.
LEMMA NewerToo ==
  ASSUME NEW a, NEW b, SameDocument(a, b), NewerIn(b)
  PROVE  NewerIn(a)
<1>1. CASE HasNewer(type, b)
  <2>1. PICK f \in Members(type) : /\ f.base = "enum" /\ ~f.list /\ Present(f, b)
                                    /\ b[f.name][2] \notin Vocabulary
    BY <1>1 DEF HasNewer
  <2>2. Present(f, a) /\ SameItem(f, a[f.name], b[f.name])
    BY <2>1 DEF SameDocument, SameField
  <2>3. a[f.name] = b[f.name]
    BY <2>1, <2>2 DEF SameItem, SameScalar
  <2> QED
    BY <2>1, <2>2, <2>3 DEF NewerIn, HasNewer
<1>2. ASSUME NEW d \in InnerObjects(b), HasNewer(Inner, d)
      PROVE  \E e \in InnerObjects(a) : HasNewer(Inner, e)
  <2>1. PICK f \in Members(type) :
          /\ f.base = "ref" /\ Present(f, b)
          /\ IF f.list THEN \E i \in DOMAIN b[f.name][2] : d = b[f.name][2][i][2]
             ELSE d = b[f.name][2]
    BY <1>2, InnerObjectsAre
  <2>2. Present(f, a) /\ SameValue(f, a[f.name], b[f.name])
    BY <2>1 DEF SameDocument, SameField, SameValue
  <2>3. ASSUME NEW e, SameInner(e, d) PROVE HasNewer(Inner, e)
    <3>1. PICK g \in Members(Inner) : /\ g.base = "enum" /\ ~g.list /\ Present(g, d)
                                      /\ d[g.name][2] \notin Vocabulary
      BY <1>2 DEF HasNewer
    <3>2. Present(g, e) /\ SameScalar(g, e[g.name], d[g.name])
      BY <2>3, <3>1 DEF SameInner, SameField
    <3>3. e[g.name] = d[g.name]
      BY <3>1, <3>2 DEF SameScalar
    <3> QED
      BY <3>1, <3>2, <3>3 DEF HasNewer
  <2>4. CASE ~f.list
    <3>1. SameInner(a[f.name][2], d)
      BY <2>1, <2>2, <2>4 DEF SameValue, SameItem
    <3>2. a[f.name][2] \in InnerObjects(a)
      BY <2>1, <2>2, <2>4, InnerObjectsAre
    <3> QED
      BY <2>3, <3>1, <3>2
  <2>5. CASE f.list
    <3>1. PICK i \in DOMAIN b[f.name][2] : d = b[f.name][2][i][2]
      BY <2>1, <2>5
    <3>2. DOMAIN a[f.name][2] = DOMAIN b[f.name][2]
      BY <2>1, <2>2, <2>5 DEF SameValue
    <3>3. SameInner(a[f.name][2][i][2], d)
      BY <2>1, <2>2, <2>5, <3>1, <3>2 DEF SameValue, SameItem
    <3>4. a[f.name][2][i][2] \in InnerObjects(a)
      BY <2>1, <2>2, <2>5, <3>1, <3>2, InnerObjectsAre
    <3> QED
      BY <2>3, <3>3, <3>4
  <2> QED
    BY <2>4, <2>5
<1> QED
  BY <1>1, <1>2 DEF NewerIn

-----------------------------------------------------------------------------
(* What every generated type decodes *)

\* What the constants are assumed to be, of one type.
LEMMA TypeFields ==
  ASSUME type \in Types
  PROVE  Fields(type) /\ \A f \in Members(type) : f.list => f.base # "number"
BY AdapterAssumption, ListAssumption DEF Fields

\* A value of the schema's kind is decoded, unless it is an enum value that is
\* new to Rust.
LEMMA ScalarIsRead ==
  ASSUME NEW l \in Languages, NEW f \in FieldType, NEW v, ScalarOK(f, v),
         f.list => f.base # "number",
         l = "rust" /\ f.base = "enum" /\ ~f.list => v[2] \in Vocabulary
  PROVE  ScalarReads(l, f, v)
<1>1. Kind(v) \in Kinds(l, f.base)
  BY KindsDiffer, BaseOfField DEF Kinds, ScalarOK
<1> QED
  BY <1>1 DEF ScalarReads

\* The same for an object that a reference leads to.
LEMMA InnerIsRead ==
  ASSUME NEW l \in Languages, NEW d, InnerDocument(d),
         l = "rust" => ~HasNewer(Inner, d)
  PROVE  InnerReads(l, d)
<1> SUFFICES ASSUME NEW f \in Members(Inner)
             PROVE  IF ~Present(f, d) THEN Member(l, f).readsNull
                    ELSE IF ~f.list THEN ScalarReads(l, f, d[f.name])
                    ELSE /\ Kind(d[f.name]) = "list"
                         /\ \A i \in DOMAIN d[f.name][2] :
                              ScalarReads(l, f, d[f.name][2][i])
  BY DEF InnerReads
<1>1. f \in FieldType /\ (f.list => f.base # "number")
  BY FieldFound, InnerFields, ListAssumption
<1>2. CASE ~Present(f, d)
  <2>1. ~f.required \/ f.nullable
    BY <1>2 DEF InnerDocument
  <2> QED
    BY <1>1, <1>2, <2>1, MembersAgree
<1>3. CASE Present(f, d) /\ ~f.list
  <2>1. ScalarOK(f, d[f.name])
    BY <1>3 DEF InnerDocument
  <2>2. l = "rust" /\ f.base = "enum" => d[f.name][2] \in Vocabulary
    BY <1>3 DEF HasNewer
  <2> QED
    BY <1>1, <1>3, <2>1, <2>2, ScalarIsRead
<1>4. CASE Present(f, d) /\ f.list
  <2>1. /\ Kind(d[f.name]) = "list"
        /\ \A i \in DOMAIN d[f.name][2] : ScalarOK(f, d[f.name][2][i])
    BY <1>4 DEF InnerDocument
  <2> QED
    BY <1>1, <1>4, <2>1, ScalarIsRead
<1> QED
  BY <1>2, <1>3, <1>4

\* Every type decodes what the schema admits; Rust's, if all enum values are
\* known to it.
LEMMA DocumentIsRead ==
  ASSUME type \in Types, NEW l \in Languages, NEW d, Document(d),
         l = "rust" => ~NewerIn(d)
  PROVE  Reads(l, d)
<1> SUFFICES ASSUME NEW f \in Members(type)
             PROVE  IF ~Present(f, d) THEN Member(l, f).readsNull
                    ELSE IF ~f.list THEN ItemReads(l, f, d[f.name])
                    ELSE /\ Kind(d[f.name]) = "list"
                         /\ \A i \in DOMAIN d[f.name][2] :
                              ItemReads(l, f, d[f.name][2][i])
  BY DEF Reads
<1>1. f \in FieldType /\ (f.list => f.base # "number")
  BY FieldFound, TypeFields
<1>2. CASE ~Present(f, d)
  <2>1. ~f.required \/ f.nullable
    BY <1>2 DEF Document, Admits
  <2> QED
    BY <1>1, <1>2, <2>1, MembersAgree
<1>3. CASE Present(f, d) /\ ~f.list
  <2>1. ItemOK(f, d[f.name])
    BY <1>3 DEF Document, ValueOK
  <2>2. CASE f.base = "ref"
    <3>1. d[f.name][2] \in InnerObjects(d)
      BY <1>3, <2>2, InnerObjectsAre
    <3>2. l = "rust" => ~HasNewer(Inner, d[f.name][2])
      BY <3>1 DEF NewerIn
    <3>3. Kind(d[f.name]) = "obj" /\ InnerDocument(d[f.name][2])
      BY <1>1, <2>1, <2>2, KindsDiffer, BaseOfField DEF ItemOK, ScalarOK
    <3> QED
      BY <1>3, <2>2, <3>2, <3>3, InnerIsRead DEF ItemReads
  <2>3. CASE f.base # "ref"
    <3>1. l = "rust" /\ f.base = "enum" => d[f.name][2] \in Vocabulary
      BY <1>3 DEF NewerIn, HasNewer
    <3> QED
      BY <1>1, <1>3, <2>1, <2>3, <3>1, ScalarIsRead DEF ItemReads, ItemOK
  <2> QED
    BY <2>2, <2>3
<1>4. CASE Present(f, d) /\ f.list
  <2>1. /\ Kind(d[f.name]) = "list"
        /\ \A i \in DOMAIN d[f.name][2] : ItemOK(f, d[f.name][2][i])
    BY <1>4 DEF Document, ValueOK
  <2>2. ASSUME NEW i \in DOMAIN d[f.name][2] PROVE ItemReads(l, f, d[f.name][2][i])
    <3> DEFINE v == d[f.name][2][i]
    <3>1. ItemOK(f, v)
      BY <2>1
    <3>2. CASE f.base = "ref"
      <4>1. v[2] \in InnerObjects(d)
        BY <1>4, <2>2, <3>2, InnerObjectsAre
      <4> HIDE DEF v
      <4>2. l = "rust" => ~HasNewer(Inner, v[2])
        BY <4>1 DEF NewerIn
      <4>3. Kind(v) = "obj" /\ InnerDocument(v[2])
        BY <1>1, <3>1, <3>2, KindsDiffer, BaseOfField DEF ItemOK, ScalarOK
      <4>4. ItemReads(l, f, v)
        BY <3>2, <4>2, <4>3, InnerIsRead DEF ItemReads
      <4> QED
        BY <4>4 DEF v
    <3>3. CASE f.base # "ref"
      <4> HIDE DEF v
      <4>1. ItemReads(l, f, v)
        BY <1>1, <1>4, <3>1, <3>3, ScalarIsRead DEF ItemReads, ItemOK
      <4> QED
        BY <4>1 DEF v
    <3> QED
      BY <3>2, <3>3
  <2> QED
    BY <1>4, <2>1, <2>2
<1> QED
  BY <1>2, <1>3, <1>4

-----------------------------------------------------------------------------
(* Python's order of members *)

\* k holds what Having has kept of fields after each of its steps, up to the
\* n-th.
Keeps(k, n, fields, required) ==
  k = [i \in 0..n |-> IF i = 0 THEN <<>>
                      ELSE IF fields[i].required = required
                      THEN Append(k[i - 1], fields[i])
                      ELSE k[i - 1]]

\* There is such a k: the recursion of Having is well founded.
LEMMA KeepsExists ==
  \A fields, required : \A n \in Nat : \E k : Keeps(k, n, fields, required)
<1> SUFFICES ASSUME NEW fields, NEW required
             PROVE  \A n \in Nat : \E k : Keeps(k, n, fields, required)
  OBVIOUS
<1> DEFINE S == {n \in Nat : \E k : Keeps(k, n, fields, required)}
<1>1. 0 \in S
  <2> DEFINE k == [i \in 0..0 |-> <<>>]
  <2>1. Keeps(k, 0, fields, required)
    BY DEF Keeps
  <2> QED
    BY <2>1
<1>2. ASSUME NEW n \in Nat, n \in S PROVE n + 1 \in S
  <2>1. PICK k : Keeps(k, n, fields, required)
    BY <1>2
  <2> DEFINE next(h, i) == IF fields[i].required = required
                           THEN Append(h[i - 1], fields[i]) ELSE h[i - 1]
             h == [i \in 0..n + 1 |-> IF i <= n THEN k[i] ELSE next(k, i)]
  <2>2. \A i \in 0..n : h[i] = k[i]
    OBVIOUS
  <2>3. ASSUME NEW i \in 0..n + 1
        PROVE  h[i] = IF i = 0 THEN <<>> ELSE next(h, i)
    <3>1. CASE i = n + 1
      <4>1. h[i] = next(k, i) /\ h[i - 1] = k[i - 1]
        BY <2>2, <3>1
      <4> QED
        BY <3>1, <4>1
    <3>2. CASE i \in 0..n
      <4>1. k[i] = IF i = 0 THEN <<>> ELSE next(k, i)
        BY <2>1, <3>2 DEF Keeps
      <4>2. i # 0 => h[i - 1] = k[i - 1]
        BY <2>2, <3>2
      <4>3. h[i] = k[i]
        BY <2>2, <3>2
      <4> HIDE DEF h
      <4> QED
        BY <4>1, <4>2, <4>3
    <3> QED
      BY <3>1, <3>2
  <2>4. h = [i \in 0..n + 1 |-> h[i]]
    OBVIOUS
  <2> HIDE DEF h
  <2>5. Keeps(h, n + 1, fields, required)
    BY <2>3, <2>4 DEF Keeps
  <2> QED
    BY <2>5
<1> HIDE DEF S
<1>3. Nat \subseteq S
  BY <1>1, <1>2, Induction
<1> QED
  BY <1>3 DEF S

\* Having is what such a k holds in the end.
LEMMA HavingKeeps ==
  ASSUME NEW fields, Len(fields) \in Nat, NEW required
  PROVE  \E k : Keeps(k, Len(fields), fields, required)
                /\ Having(fields, required) = k[Len(fields)]
<1>1. \E k : Keeps(k, Len(fields), fields, required)
  BY KeepsExists
<1> DEFINE k == CHOOSE k : Keeps(k, Len(fields), fields, required)
<1>2. Keeps(k, Len(fields), fields, required)
  BY <1>1
<1>3. Having(fields, required) = k[Len(fields)]
  BY DEF Having, Keeps
<1> QED
  BY <1>2, <1>3

\* A step of Having.
Extends(k, n, fields, required) ==
  k[n + 1] = IF fields[n + 1].required = required
             THEN Append(k[n], fields[n + 1]) ELSE k[n]

\* Having starts with nothing and takes such steps.
LEMMA KeepsStep ==
  ASSUME NEW fields, NEW required, NEW m \in Nat, NEW k, Keeps(k, m, fields, required)
  PROVE  k[0] = <<>> /\ \A n \in Nat : n < m => Extends(k, n, fields, required)
<1>1. k[0] = <<>>
  BY DEF Keeps
<1>2. ASSUME NEW n \in Nat, n < m PROVE Extends(k, n, fields, required)
  <2>1. n + 1 \in 0..m /\ n + 1 # 0 /\ (n + 1) - 1 = n
    BY <1>2
  <2> DEFINE i == n + 1
  <2>2. i \in 0..m /\ i # 0 /\ i - 1 = n
    BY <2>1
  <2> HIDE DEF i
  <2>3. k[i] = IF fields[i].required = required THEN Append(k[n], fields[i]) ELSE k[n]
    BY <2>2 DEF Keeps
  <2> QED
    BY <2>3 DEF i, Extends
<1> QED
  BY <1>1, <1>2

\* It keeps the fields of the one sort, all of them and no other.
LEMMA KeepsWhat ==
  ASSUME NEW fields \in Seq(FieldType), NEW required, NEW k,
         Keeps(k, Len(fields), fields, required)
  PROVE  LET n == Len(fields) IN
         /\ k[n] \in Seq(FieldType)
         /\ \A j \in DOMAIN k[n] : k[n][j] \in Members(fields) /\ k[n][j].required = required
         /\ \A j \in DOMAIN fields :
              fields[j].required = required => fields[j] \in Members(k[n])
<1> DEFINE good(n) ==
      /\ k[n] \in Seq(FieldType)
      /\ \A j \in DOMAIN k[n] : k[n][j] \in Members(fields) /\ k[n][j].required = required
      /\ \A j \in 1..n :
           fields[j].required = required => fields[j] \in Members(k[n])
    S == {n \in Nat : n <= Len(fields) => good(n)}
<1>0. Len(fields) \in Nat /\ DOMAIN fields = 1..Len(fields)
  OBVIOUS
<1> DEFINE N == Len(fields)
<1>a. N \in Nat /\ Keeps(k, N, fields, required)
  BY <1>0
<1> HIDE DEF N
<1>b. /\ k[0] = <<>>
      /\ \A n \in Nat : n < N => Extends(k, n, fields, required)
  BY <1>a, KeepsStep, Zenon
<1> USE DEF N
<1>1. 0 \in S
  <2>1. <<>> \in Seq(FieldType) /\ DOMAIN <<>> = {} /\ 1..0 = {}
    OBVIOUS
  <2>2. good(0)
    BY <1>b, <2>1
  <2> HIDE DEF good
  <2> QED
    BY <2>2
<1>2. ASSUME NEW n \in Nat, n \in S PROVE n + 1 \in S
  <2> SUFFICES ASSUME n + 1 <= Len(fields) PROVE good(n + 1)
    OBVIOUS
  <2>1. n < Len(fields) /\ n <= Len(fields)
    BY <1>0
  <2>2. good(n)
    BY <1>2, <2>1
  <2>3. k[n + 1] = IF fields[n + 1].required = required
                   THEN Append(k[n], fields[n + 1]) ELSE k[n]
    BY <1>b, <2>1 DEF Extends
  <2> DEFINE f == fields[n + 1]
             new == k[n + 1]
             old == k[n]
  <2>4. f \in FieldType /\ f \in Members(fields)
    BY <1>0, <2>1 DEF Members
  <2>5. /\ old \in Seq(FieldType)
        /\ \A j \in DOMAIN old : old[j] \in Members(fields) /\ old[j].required = required
        /\ \A j \in 1..n : fields[j].required = required => fields[j] \in Members(old)
    BY <2>2
  <2>6. new = IF f.required = required THEN Append(old, f) ELSE old
    BY <2>3
  <2>7. \A j \in 1..n + 1 : j \in 1..n \/ fields[j] = f
    OBVIOUS
  <2> HIDE DEF f, new, old
  <2>8. CASE f.required = required
    <3>1. new = Append(old, f)
      BY <2>6, <2>8
    <3>2. new \in Seq(FieldType) /\ DOMAIN new = 1..Len(old) + 1 /\ DOMAIN old = 1..Len(old)
          /\ Len(old) \in Nat
      BY <2>4, <2>5, <3>1
    <3>3. new[Len(old) + 1] = f /\ \A j \in 1..Len(old) : new[j] = old[j]
      BY <2>4, <2>5, <3>1
    <3>4. \A j \in DOMAIN new : new[j] \in Members(fields) /\ new[j].required = required
      <4>1. \A j \in DOMAIN new : j \in DOMAIN old \/ j = Len(old) + 1
        BY <3>2
      <4> QED
        BY <2>4, <2>5, <2>8, <3>2, <3>3, <4>1
    <3>5. Members(old) \subseteq Members(new) /\ f \in Members(new)
      BY <3>2, <3>3 DEF Members
    <3>6. \A j \in 1..n + 1 : fields[j].required = required => fields[j] \in Members(new)
      BY <2>5, <2>7, <3>5
    <3> QED
      BY <3>2, <3>4, <3>6 DEF new
  <2>9. CASE f.required # required
    <3>1. new = old
      BY <2>6, <2>9
    <3>2. \A j \in 1..n + 1 : fields[j].required = required => fields[j] \in Members(new)
      BY <2>5, <2>7, <2>9, <3>1
    <3> QED
      BY <2>5, <3>1, <3>2 DEF new
  <2> QED
    BY <2>8, <2>9
<1> HIDE DEF S
<1>3. Nat \subseteq S
  BY <1>1, <1>2, Induction
<1>4. good(Len(fields))
  BY <1>0, <1>3 DEF S
<1> QED
  BY <1>0, <1>4

\* Both sorts together are as many as there are fields.
LEMMA KeepsHowMany ==
  ASSUME NEW fields \in Seq(FieldType), NEW k, NEW h,
         Keeps(k, Len(fields), fields, TRUE), Keeps(h, Len(fields), fields, FALSE)
  PROVE  Len(k[Len(fields)]) + Len(h[Len(fields)]) = Len(fields)
<1> DEFINE good(n) ==
      k[n] \in Seq(FieldType) /\ h[n] \in Seq(FieldType) /\ Len(k[n]) + Len(h[n]) = n
    S == {n \in Nat : n <= Len(fields) => good(n)}
<1>0. Len(fields) \in Nat /\ DOMAIN fields = 1..Len(fields)
  OBVIOUS
<1> DEFINE N == Len(fields)
<1>a. N \in Nat /\ Keeps(k, N, fields, TRUE) /\ Keeps(h, N, fields, FALSE)
  BY <1>0
<1> HIDE DEF N
<1>b. /\ k[0] = <<>>
      /\ \A n \in Nat : n < N => Extends(k, n, fields, TRUE)
  BY <1>a, KeepsStep, Zenon
<1>c. /\ h[0] = <<>>
      /\ \A n \in Nat : n < N => Extends(h, n, fields, FALSE)
  BY <1>a, KeepsStep, Zenon
<1> USE DEF N
<1>1. 0 \in S
  <2>1. <<>> \in Seq(FieldType) /\ Len(<<>>) = 0
    OBVIOUS
  <2>2. good(0)
    BY <1>b, <1>c, <2>1
  <2> HIDE DEF good
  <2> QED
    BY <2>2
<1>2. ASSUME NEW n \in Nat, n \in S PROVE n + 1 \in S
  <2> HIDE DEF good
  <2> SUFFICES ASSUME n + 1 <= Len(fields) PROVE good(n + 1)
    OBVIOUS
  <2>1. n < Len(fields) /\ n <= Len(fields)
    BY <1>0
  <2>2. good(n)
    BY <1>2, <2>1
  <2> DEFINE f == fields[n + 1]
             kOld == k[n]
             kNew == k[n + 1]
             hOld == h[n]
             hNew == h[n + 1]
  <2>3. kNew = IF f.required = TRUE THEN Append(kOld, f) ELSE kOld
    BY <1>b, <2>1 DEF Extends
  <2>4. hNew = IF f.required = FALSE THEN Append(hOld, f) ELSE hOld
    BY <1>c, <2>1 DEF Extends
  <2>5. f \in FieldType
    BY <1>0, <2>1
  <2>6. f.required \in BOOLEAN
    BY <2>5 DEF FieldType
  <2>7. kOld \in Seq(FieldType) /\ hOld \in Seq(FieldType) /\ Len(kOld) + Len(hOld) = n
    BY <2>2 DEF good
  <2> SUFFICES kNew \in Seq(FieldType) /\ hNew \in Seq(FieldType)
               /\ Len(kNew) + Len(hNew) = n + 1
    BY DEF good
  <2> HIDE DEF f, kOld, kNew, hOld, hNew
  <2>8. CASE f.required = TRUE
    <3>1. kNew = Append(kOld, f) /\ hNew = hOld
      BY <2>3, <2>4, <2>8
    <3>2. kNew \in Seq(FieldType) /\ Len(kNew) = Len(kOld) + 1
      BY <2>5, <2>7, <3>1
    <3>3. Len(hOld) \in Nat /\ Len(kOld) \in Nat
      BY <2>7
    <3>4. Len(kNew) + Len(hNew) = (Len(kOld) + Len(hOld)) + 1
      BY <3>1, <3>2, <3>3
    <3> QED
      BY <2>7, <3>1, <3>2, <3>4
  <2>9. CASE f.required = FALSE
    <3>1. hNew = Append(hOld, f) /\ kNew = kOld
      BY <2>3, <2>4, <2>9
    <3>2. hNew \in Seq(FieldType) /\ Len(hNew) = Len(hOld) + 1
      BY <2>5, <2>7, <3>1
    <3>3. Len(hOld) \in Nat /\ Len(kOld) \in Nat
      BY <2>7
    <3>4. Len(kNew) + Len(hNew) = (Len(kOld) + Len(hOld)) + 1
      BY <3>1, <3>2, <3>3
    <3> QED
      BY <2>7, <3>1, <3>2, <3>4
  <2> QED
    BY <2>6, <2>8, <2>9
<1> HIDE DEF S
<1>3. Nat \subseteq S
  BY <1>1, <1>2, Induction
<1> HIDE DEF good
<1>4. good(Len(fields))
  BY <1>0, <1>3 DEF S
<1> QED
  BY <1>4 DEF good

\* Python can define the dataclass of every type.
LEMMA ClassLoads ==
  ASSUME Fields(type)
  PROVE  PythonClassLoads
<1>0. type \in Seq(FieldType) /\ Len(type) \in Nat /\ DOMAIN type = 1..Len(type)
  BY DEF Fields
<1> DEFINE a == Having(type, TRUE)
           b == Having(type, FALSE)
           both == PyMembers(type)
<1>1. PICK k : Keeps(k, Len(type), type, TRUE) /\ a = k[Len(type)]
  BY <1>0, HavingKeeps
<1>2. PICK h : Keeps(h, Len(type), type, FALSE) /\ b = h[Len(type)]
  BY <1>0, HavingKeeps
<1>3. both = a \o b
  BY DEF PyMembers
<1> HIDE DEF a, b, both
<1>4. /\ a \in Seq(FieldType)
      /\ \A j \in DOMAIN a : a[j] \in Members(type) /\ a[j].required = TRUE
      /\ \A j \in DOMAIN type : type[j].required = TRUE => type[j] \in Members(a)
  BY <1>0, <1>1, KeepsWhat
<1>5. /\ b \in Seq(FieldType)
      /\ \A j \in DOMAIN b : b[j] \in Members(type) /\ b[j].required = FALSE
      /\ \A j \in DOMAIN type : type[j].required = FALSE => type[j] \in Members(b)
  BY <1>0, <1>2, KeepsWhat
<1>6. Len(a) + Len(b) = Len(type)
  BY <1>0, <1>1, <1>2, KeepsHowMany
<1>7. /\ both \in Seq(FieldType) /\ Len(both) = Len(a) + Len(b)
      /\ \A i \in 1..Len(a) : both[i] = a[i]
      /\ \A i \in 1..Len(b) : both[Len(a) + i] = b[i]
  BY <1>3, <1>4, <1>5
<1>8. /\ Len(a) \in Nat /\ Len(b) \in Nat /\ DOMAIN both = 1..(Len(a) + Len(b))
      /\ DOMAIN a = 1..Len(a) /\ DOMAIN b = 1..Len(b)
  BY <1>4, <1>5, <1>7
<1>9. ASSUME NEW i \in DOMAIN both
      PROVE  \/ i <= Len(a) /\ both[i] = a[i] /\ i \in DOMAIN a
             \/ i > Len(a) /\ both[i] = b[i - Len(a)] /\ i - Len(a) \in DOMAIN b
  <2>1. i \in 1..(Len(a) + Len(b))
    BY <1>8
  <2>2. CASE i <= Len(a)
    BY <1>7, <1>8, <2>1, <2>2
  <2>3. CASE i > Len(a)
    <3> DEFINE j == i - Len(a)
    <3>1. j \in 1..Len(b) /\ i = Len(a) + j
      BY <1>8, <2>1, <2>3
    <3> HIDE DEF j
    <3>2. both[i] = b[j]
      BY <1>7, <3>1
    <3> QED
      BY <1>8, <2>3, <3>1, <3>2 DEF j
  <2> QED
    BY <1>8, <2>1, <2>2, <2>3
<1>10. Members(both) \subseteq Members(type)
  BY <1>4, <1>5, <1>9 DEF Members
<1>11. Members(a) \subseteq Members(both)
  BY <1>7, <1>8 DEF Members
<1>12. Members(b) \subseteq Members(both)
  <2> SUFFICES ASSUME NEW i \in DOMAIN b PROVE b[i] \in Members(both)
    BY DEF Members
  <2> DEFINE j == Len(a) + i
  <2>1. j \in DOMAIN both /\ both[j] = b[i]
    BY <1>7, <1>8
  <2> HIDE DEF j
  <2> QED
    BY <2>1 DEF Members
<1>13. Members(type) \subseteq Members(both)
  <2> SUFFICES ASSUME NEW i \in DOMAIN type PROVE type[i] \in Members(both)
    BY DEF Members
  <2>0. type[i] \in FieldType
    BY <1>0
  <2>1. type[i].required \in BOOLEAN
    BY <2>0 DEF FieldType
  <2> QED
    BY <1>4, <1>5, <1>11, <1>12, <2>1
<1>14. ASSUME NEW i \in DOMAIN both, NEW j \in DOMAIN both,
              i < j, both[j].required, ~both[i].required
       PROVE  FALSE
  <2>1. both[j].required # FALSE
    BY <1>14
  <2>2. j <= Len(a)
    BY <1>5, <1>9, <2>1
  <2>3. i <= Len(a)
    BY <1>8, <1>14, <2>2
  <2>4. both[i].required = TRUE
    BY <1>4, <1>8, <1>9, <2>3
  <2> QED
    BY <1>14, <2>4
<1> QED
  BY <1>0, <1>6, <1>7, <1>10, <1>13, <1>14 DEF PythonClassLoads, both

\* A chosen value that is a field's: it is not null unless the schema admits
\* null, and is there unless the key is optional.
LEMMA ChoiceIs ==
  ASSUME type \in Types, NEW f \in Members(type), NEW v \in FieldChoices(f)
  PROVE  /\ v = Absent => ~f.required
         /\ v = Null => f.nullable
         /\ v # Absent /\ v # Null => ValueOK(f, v)
         /\ Null # Absent
<1>0. f \in FieldType /\ f.base \in Bases
  <2>1. f \in FieldType
    BY FieldFound, TypeFields
  <2> QED
    BY <2>1 DEF FieldType
<1>1. \A w \in Values[f.base] : ItemOK(f, w)
  BY <1>0, ValueAssumption DEF ItemOK, ScalarOK
<1>2. \A w \in Values[f.base] : w # Null /\ w # Absent
  <2> SUFFICES ASSUME NEW w \in Values[f.base] PROVE w # Null /\ w # Absent
    OBVIOUS
  <2>1. Kind(w) \in {"text", "int", "fraction", "bool", "obj"}
    BY <1>0, <1>1, KindsDiffer DEF ItemOK, ScalarOK
  <2> QED
    BY <2>1 DEF Kind, Null, Absent
<1>3. Null # Absent
  BY DEF Null, Absent
<1>4. CASE v \in Values[f.base] /\ ~f.list
  BY <1>1, <1>2, <1>3, <1>4 DEF ValueOK
<1>5. CASE f.list /\ v \in {<<"list", s>> : s \in UNION {[1..n -> Values[f.base]] : n \in 0..MaxItems}}
  <2>0. PICK s \in UNION {[1..n -> Values[f.base]] : n \in 0..MaxItems} : v = <<"list", s>>
    BY <1>5
  <2>1. PICK n \in 0..MaxItems : s \in [1..n -> Values[f.base]]
    OBVIOUS
  <2>3. Kind(v) = "list" /\ v[2] = s
    BY <2>0 DEF Kind
  <2>6. ValueOK(f, v)
    BY <1>1, <1>5, <2>1, <2>3 DEF ValueOK
  <2>7. v # Null /\ v # Absent
    BY <2>3 DEF Kind, Null, Absent
  <2> QED
    BY <1>3, <2>6, <2>7
<1>6. CASE v = Null /\ f.nullable
  BY <1>3, <1>6
<1>7. CASE v = Absent /\ ~f.required
  BY <1>3, <1>7
<1> QED
  BY <1>4, <1>5, <1>6, <1>7 DEF FieldChoices

-----------------------------------------------------------------------------
(* The invariant and the theorems *)

\* The document is one of its type, says what its author wrote, and was refused
\* for nothing but an enum value that Rust did not know.
WireInv ==
  /\ type \in Types
  /\ Document(original) /\ Document(wire) /\ SameDocument(original, wire)
  /\ refusedBy # "none" => refusedBy = "rust" /\ FromNewerPeer

\* An author writes such a document.
LEMMA WireInit == Init => WireInv
<1> SUFFICES ASSUME Init PROVE WireInv
  OBVIOUS
<1>1. type \in Types /\ wire = original /\ refusedBy = "none"
  BY DEF Init
<1>2. PICK choice \in [DOMAIN type -> UNION {FieldChoices(f) : f \in Members(type)}] :
        /\ \A i \in DOMAIN type : choice[i] \in FieldChoices(type[i])
        /\ original = [n \in {type[i].name : i \in {j \in DOMAIN type : choice[j] # Absent}}
                        |-> choice[CHOOSE i \in DOMAIN type : type[i].name = n]]
  BY DEF Init
<1>3. Fields(type)
  BY <1>1, TypeFields
<1>4. ASSUME NEW i \in DOMAIN type
      PROVE  /\ type[i].name \in DOMAIN original <=> choice[i] # Absent
             /\ choice[i] # Absent => original[type[i].name] = choice[i]
  <2>1. \A j \in DOMAIN type : type[j].name = type[i].name => j = i
    BY <1>3 DEF Fields
  <2>2. (CHOOSE j \in DOMAIN type : type[j].name = type[i].name) = i
    BY <2>1
  <2>3. type[i].name \in {type[k].name : k \in {j \in DOMAIN type : choice[j] # Absent}}
          <=> choice[i] # Absent
    BY <2>1
  <2> QED
    BY <1>2, <2>2, <2>3
<1>5. ASSUME NEW f \in Members(type)
      PROVE  /\ Admits(f, original)
             /\ Present(f, original) => ValueOK(f, original[f.name])
  <2>1. PICK i \in DOMAIN type : f = type[i]
    BY DEF Members
  <2> DEFINE v == choice[i]
  <2>2. v \in FieldChoices(f)
    BY <1>2, <2>1
  <2>3. /\ f.name \in DOMAIN original <=> v # Absent
        /\ v # Absent => original[f.name] = v
    BY <1>4, <2>1
  <2> HIDE DEF v
  <2>4. /\ v = Absent => ~f.required
        /\ v = Null => f.nullable
        /\ v # Absent /\ v # Null => ValueOK(f, v)
        /\ Null # Absent
    BY <1>1, <2>2, ChoiceIs
  <2> QED
    BY <2>3, <2>4 DEF Admits, Present
<1>6. Document(original)
  BY <1>5 DEF Document
<1> QED
  BY <1>1, <1>3, <1>6, SaysTheSame DEF WireInv

\* Every hop leaves one.
LEMMA WireStep == WireInv /\ [Next]_vars => WireInv'
<1> SUFFICES ASSUME WireInv, [Next]_vars PROVE WireInv'
  OBVIOUS
<1>1. Fields(type)
  BY TypeFields DEF WireInv
<1>2. CASE UNCHANGED vars
  BY <1>2 DEF vars, WireInv, Document, SameDocument, FromNewerPeer, InnerObjects
<1>3. ASSUME NEW l \in Languages, Hop(l) PROVE WireInv'
  <2>1. refusedBy = "none" /\ type' = type /\ original' = original
    BY <1>3 DEF Hop
  <2>2. \A a : Document(a)' <=> Document(a)
    BY <2>1 DEF Document
  <2>3. CASE Reads(l, wire)
    <3>1. wire' = Kept(l, wire) /\ refusedBy' = refusedBy
      BY <1>1, <1>3, <2>3, RelayIs DEF Hop, WireInv
    <3>2. Document(Kept(l, wire)) /\ SameDocument(wire, Kept(l, wire))
      BY <1>1, KeptIs DEF WireInv
    <3>3. SameDocument(original, Kept(l, wire))
      BY <3>2, SaysTheSameStill DEF WireInv
    <3> QED
      BY <2>1, <3>1, <3>2, <3>3 DEF WireInv, Document, SameDocument
  <2>4. CASE ~Reads(l, wire)
    <3>1. wire' = wire /\ refusedBy' = l
      BY <1>3, <2>4 DEF Hop
    <3>2. l = "rust" /\ NewerIn(wire)
      BY <2>4, DocumentIsRead DEF WireInv
    <3>3. NewerIn(original)
      BY <3>2, NewerToo DEF WireInv
    <3>4. FromNewerPeer'
      BY <2>1, <3>3 DEF NewerIn, FromNewerPeer, InnerObjects
    <3> QED
      BY <2>1, <3>1, <3>2, <3>4 DEF WireInv, Document, SameDocument
  <2> QED
    BY <2>3, <2>4
<1> QED
  BY <1>2, <1>3 DEF Next

\* So it is one at all times.
LEMMA WireInvariant == Spec => []WireInv
BY WireInit, WireStep, PTL DEF Spec

\* An object's keys are as the TypeScript type has them.
LEMMA KeysInhabit ==
  ASSUME NEW f, NEW object, Admits(f, object)
  PROVE  TsKeys(f, object)
<1>1. /\ TsMember(f).mayBeAbsent <=> ~f.required
      /\ TsMember(f).mayBeNull <=> f.nullable
  BY Zenon DEF TsMember
<1> QED
  BY <1>1 DEF TsKeys, Admits, Present

\* A value inhabits its TypeScript type, if its enum values are known or the
\* author's document has one that is not.
LEMMA ScalarInhabits ==
  ASSUME NEW f, f.base \in Bases, NEW v, ScalarOK(f, v),
         f.base = "enum" /\ ~f.list => v[2] \in Vocabulary \/ FromNewerPeer
  PROVE  TsScalar(f, v)
<1>1. Kind(v) \in TsKinds(f.base)
  BY DEF ScalarOK, TsKinds, JsonKinds, NumberKinds
<1>2. TsMember(f).closed <=> f.base = "enum" /\ ~f.list
  BY Zenon DEF TsMember
<1> QED
  BY <1>1, <1>2 DEF TsScalar

\* The same for an object behind a reference.
LEMMA InnerInhabits ==
  ASSUME NEW d, InnerDocument(d), HasNewer(Inner, d) => FromNewerPeer
  PROVE  TsInner(d)
<1> SUFFICES ASSUME NEW f \in Members(Inner)
             PROVE  /\ TsKeys(f, d)
                    /\ Present(f, d) =>
                         IF ~f.list THEN TsScalar(f, d[f.name])
                         ELSE /\ Kind(d[f.name]) = "list"
                              /\ \A i \in DOMAIN d[f.name][2] : TsScalar(f, d[f.name][2][i])
  BY DEF TsInner
<1>1. Admits(f, d) /\ (Present(f, d) => PartOK(f, d[f.name])) /\ f.base \in Bases
  BY InnerDocumentIs, FieldFound, InnerFields, BaseOfField
<1>2. CASE Present(f, d) /\ ~f.list
  <2>1. f.base = "enum" => d[f.name][2] \in Vocabulary \/ FromNewerPeer
    BY <1>2 DEF HasNewer
  <2>2. ScalarOK(f, d[f.name])
    BY <1>1, <1>2 DEF PartOK
  <2> QED
    BY <1>1, <1>2, <2>1, <2>2, ScalarInhabits, KeysInhabit
<1>3. CASE Present(f, d) /\ f.list
  BY <1>1, <1>3, ScalarInhabits, KeysInhabit DEF PartOK
<1>4. CASE ~Present(f, d)
  BY <1>1, <1>4, KeysInhabit
<1> QED
  BY <1>2, <1>3, <1>4

\* What is on the wire inhabits its TypeScript type.
LEMMA Inhabits ==
  ASSUME WireInv
  PROVE  TypescriptIsTrue
<1>0. Fields(type) /\ Document(wire) /\ (NewerIn(wire) => FromNewerPeer)
  <2>1. NewerIn(wire) => NewerIn(original)
    BY NewerToo DEF WireInv
  <2> QED
    BY <2>1, TypeFields DEF WireInv, NewerIn, FromNewerPeer
<1> SUFFICES ASSUME NEW f \in Members(type)
             PROVE  /\ TsKeys(f, wire)
                    /\ Present(f, wire) =>
                         IF ~f.list THEN TsItem(f, wire[f.name])
                         ELSE /\ Kind(wire[f.name]) = "list"
                              /\ \A i \in DOMAIN wire[f.name][2] : TsItem(f, wire[f.name][2][i])
  BY DEF TypescriptIsTrue
<1>1. Admits(f, wire) /\ (Present(f, wire) => ValueOK(f, wire[f.name])) /\ f.base \in Bases
  BY <1>0, FieldFound, BaseOfField DEF Document
<1>2. TsKeys(f, wire)
  BY <1>1, KeysInhabit
<1>3. ASSUME NEW v, ItemOK(f, v),
             f.base = "enum" /\ ~f.list => v[2] \in Vocabulary \/ FromNewerPeer,
             f.base = "ref" => v[2] \in InnerObjects(wire)
      PROVE  TsItem(f, v)
  <2>1. TsScalar(f, v)
    BY <1>1, <1>3, ScalarInhabits DEF ItemOK
  <2>2. ASSUME f.base = "ref" PROVE TsInner(v[2])
    <3>1. HasNewer(Inner, v[2]) => FromNewerPeer
      BY <1>0, <1>3, <2>2 DEF NewerIn
    <3> QED
      BY <1>3, <2>2, <3>1, InnerInhabits DEF ItemOK
  <2> QED
    BY <2>1, <2>2 DEF TsItem
<1>4. CASE Present(f, wire) /\ ~f.list
  <2>1. ItemOK(f, wire[f.name])
    BY <1>1, <1>4 DEF ValueOK
  <2>2. f.base = "enum" => wire[f.name][2] \in Vocabulary \/ FromNewerPeer
    BY <1>0, <1>4 DEF NewerIn, HasNewer
  <2>3. f.base = "ref" => wire[f.name][2] \in InnerObjects(wire)
    BY <1>4, InnerObjectsAre
  <2> QED
    BY <1>2, <1>3, <1>4, <2>1, <2>2, <2>3
<1>5. CASE Present(f, wire) /\ f.list
  <2>1. Kind(wire[f.name]) = "list" /\ \A i \in DOMAIN wire[f.name][2] : ItemOK(f, wire[f.name][2][i])
    BY <1>1, <1>5 DEF ValueOK
  <2>2. f.base = "ref" => \A i \in DOMAIN wire[f.name][2] :
                            wire[f.name][2][i][2] \in InnerObjects(wire)
    BY <1>5, InnerObjectsAre
  <2> QED
    BY <1>2, <1>3, <1>5, <2>1, <2>2
<1>6. CASE ~Present(f, wire)
  BY <1>2, <1>6
<1> QED
  BY <1>4, <1>5, <1>6

\* However many programs re-encoded a document before, every generated type
\* decodes it, but Rust's one with an enum value from a newer peer; it inhabits
\* the TypeScript type, and Python can define the dataclass: for every schema
\* of the assumed shape and documents of every size.
THEOREM Decoded == Spec => []EveryAdapterReads
<1>1. WireInv => EveryAdapterReads
  <2> SUFFICES ASSUME WireInv PROVE EveryAdapterReads
    OBVIOUS
  <2>1. Fields(type)
    BY TypeFields DEF WireInv
  <2>2. PythonClassLoads
    BY <2>1, ClassLoads
  <2>3. TypescriptIsTrue
    BY Inhabits
  <2> QED
    BY <2>2, <2>3 DEF EveryAdapterReads, WireInv
<1> QED
  BY <1>1, WireInvariant, PTL

\* However many programs re-encode a document and in whatever order, it says
\* what its author wrote: all of it, but for numbers that a double cannot hold
\* and that some program held in one.
THEOREM Lossless == Spec => []NothingIsLost
<1>1. WireInv => NothingIsLost
  BY DEF WireInv, NothingIsLost
<1> QED
  BY <1>1, WireInvariant, PTL

-----------------------------------------------------------------------------
(* A document settles *)

\* An object has every key a re-encoded one has, and no other.
Full(fields, object) == DOMAIN object = KeptKeys(fields, object)

\* So do a document and the objects behind its references.
FullDocument(object) ==
  /\ Full(type, object)
  /\ \A f \in Members(type) : f.base = "ref" /\ Present(f, object) =>
       IF ~f.list THEN Full(Inner, object[f.name][2])
       ELSE \A i \in DOMAIN object[f.name][2] : Full(Inner, object[f.name][2][i][2])

\* Two objects that have values at the same keys have the same keys, with null
\* at the same ones, if both have just the keys of a re-encoded one.
LEMMA FullSameNulls ==
  ASSUME NEW fields, Fields(fields), NEW a, NEW b, Full(fields, a), Full(fields, b),
         \A f \in Members(fields) : Present(f, a) <=> Present(f, b)
  PROVE  SameNulls(a, b)
<1>1. DOMAIN a = DOMAIN b
  BY DEF Full, KeptKeys
<1>2. ASSUME NEW n \in DOMAIN a PROVE a[n] = Null <=> b[n] = Null
  <2>1. PICK f \in Members(fields) : f.name = n
    BY <1>2, KeyOfField DEF Full
  <2> QED
    BY <1>1, <1>2, <2>1 DEF Present
<1> QED
  BY <1>1, <1>2 DEF SameNulls

\* A re-encoded inner object is full, and has values where the object had them.
LEMMA KeptInnerIsFull ==
  ASSUME NEW l \in Languages, NEW d, InnerDocument(d)
  PROVE  /\ Full(Inner, KeptInner(l, d))
         /\ \A f \in Members(Inner) : Present(f, KeptInner(l, d)) <=> Present(f, d)
<1>1. \A f \in Members(Inner) : Present(f, KeptInner(l, d)) <=> Present(f, d)
  BY KeptInnerAt
<1>2. DOMAIN KeptInner(l, d) = KeptKeys(Inner, d)
  BY DEF KeptInner
<1>3. KeptKeys(Inner, KeptInner(l, d)) = KeptKeys(Inner, d)
  BY <1>1 DEF KeptKeys
<1> QED
  BY <1>1, <1>2, <1>3 DEF Full

\* The same for a document.
LEMMA KeptIsFull ==
  ASSUME NEW l \in Languages, NEW d, Fields(type), Document(d)
  PROVE  FullDocument(Kept(l, d))
<1> DEFINE kept == Kept(l, d)
<1>1. ASSUME NEW f \in Members(type)
      PROVE  /\ f \in FieldType
             /\ Present(f, kept) <=> Present(f, d)
             /\ Present(f, d) => kept[f.name] = KeptValue(l, f, d[f.name])
             /\ Present(f, d) => ValueOK(f, d[f.name])
  BY KeptAt, FieldFound DEF Document
<1>2. DOMAIN kept = KeptKeys(type, d)
  BY DEF Kept
<1> HIDE DEF kept
<1>3. KeptKeys(type, kept) = KeptKeys(type, d)
  BY <1>1 DEF KeptKeys
<1>4. ASSUME NEW f \in Members(type), f.base = "ref", Present(f, kept)
      PROVE  IF ~f.list THEN Full(Inner, kept[f.name][2])
             ELSE \A i \in DOMAIN kept[f.name][2] : Full(Inner, kept[f.name][2][i][2])
  <2> DEFINE v == d[f.name]
             w == kept[f.name]
  <2>1. f \in FieldType /\ w = KeptValue(l, f, v) /\ ValueOK(f, v)
    BY <1>1, <1>4
  <2> HIDE DEF v, w
  <2>2. \A x : ItemOK(f, x) => Full(Inner, KeptItem(l, f, x)[2])
    BY <1>4, <2>1, KeptRef, KeptInnerIsFull
  <2>3. CASE ~f.list
    <3>1. ItemOK(f, v) /\ w = KeptItem(l, f, v)
      BY <2>1, <2>3 DEF ValueOK, KeptValue
    <3> QED
      BY <2>2, <2>3, <3>1 DEF w
  <2>4. CASE f.list
    <3>1. DOMAIN w[2] = DOMAIN v[2]
          /\ \A i \in DOMAIN v[2] : ItemOK(f, v[2][i]) /\ w[2][i] = KeptItem(l, f, v[2][i])
      BY <2>1, <2>4, KeptList
    <3>2. \A i \in DOMAIN w[2] : Full(Inner, w[2][i][2])
      BY <2>2, <3>1
    <3> QED
      BY <2>4, <3>2 DEF w
  <2> QED
    BY <2>3, <2>4
<1>5. FullDocument(kept)
  BY <1>2, <1>3, <1>4 DEF FullDocument, Full
<1> QED
  BY <1>5 DEF kept

\* A full document and what a language makes of it have the same keys and nulls.
LEMMA FullStays ==
  ASSUME NEW l \in Languages, NEW d, Fields(type), Document(d), FullDocument(d)
  PROVE  SameKeys(d, Kept(l, d))
<1> DEFINE kept == Kept(l, d)
<1>1. ASSUME NEW f \in Members(type)
      PROVE  /\ f \in FieldType
             /\ Present(f, kept) <=> Present(f, d)
             /\ Present(f, d) => kept[f.name] = KeptValue(l, f, d[f.name])
             /\ Present(f, d) => ValueOK(f, d[f.name])
  BY KeptAt, FieldFound DEF Document
<1>2. FullDocument(kept)
  BY KeptIsFull
<1> HIDE DEF kept
<1>3. SameNulls(d, kept)
  BY <1>1, <1>2, FullSameNulls DEF FullDocument
<1>4. ASSUME NEW f \in Members(type), f.base = "ref", Present(f, d)
      PROVE  IF ~f.list THEN SameNulls(d[f.name][2], kept[f.name][2])
             ELSE \A i \in DOMAIN d[f.name][2] :
                    SameNulls(d[f.name][2][i][2], kept[f.name][2][i][2])
  <2> DEFINE v == d[f.name]
             w == kept[f.name]
  <2>1. f \in FieldType /\ w = KeptValue(l, f, v) /\ ValueOK(f, v)
    BY <1>1, <1>4
  <2>2. IF ~f.list THEN Full(Inner, v[2]) ELSE \A i \in DOMAIN v[2] : Full(Inner, v[2][i][2])
    BY <1>4 DEF FullDocument
  <2> HIDE DEF v, w
  <2>3. ASSUME NEW x, ItemOK(f, x), Full(Inner, x[2])
        PROVE  SameNulls(x[2], KeptItem(l, f, x)[2])
    <3>1. InnerDocument(x[2]) /\ KeptItem(l, f, x)[2] = KeptInner(l, x[2])
      BY <1>4, <2>1, <2>3, KeptRef
    <3> QED
      BY <2>3, <3>1, KeptInnerIsFull, InnerFields, FullSameNulls
  <2>4. CASE ~f.list
    <3>1. ItemOK(f, v) /\ w = KeptItem(l, f, v)
      BY <2>1, <2>4 DEF ValueOK, KeptValue
    <3> QED
      BY <2>2, <2>3, <2>4, <3>1 DEF v, w
  <2>5. CASE f.list
    <3>1. \A i \in DOMAIN v[2] : ItemOK(f, v[2][i]) /\ w[2][i] = KeptItem(l, f, v[2][i])
      BY <2>1, <2>5, KeptList
    <3>2. \A i \in DOMAIN v[2] : SameNulls(v[2][i][2], w[2][i][2])
      BY <2>2, <2>3, <2>5, <3>1
    <3> QED
      BY <2>5, <3>2 DEF v, w
  <2> QED
    BY <2>4, <2>5
<1>5. SameKeys(d, kept)
  BY <1>3, <1>4 DEF SameKeys
<1> QED
  BY <1>5 DEF kept

\* Any two languages write the same keys and nulls.
LEMMA KeptAgree ==
  ASSUME NEW l \in Languages, NEW m \in Languages, NEW d, Fields(type), Document(d)
  PROVE  SameKeys(Kept(l, d), Kept(m, d))
<1> DEFINE a == Kept(l, d)
           b == Kept(m, d)
<1>1. ASSUME NEW f \in Members(type)
      PROVE  /\ f \in FieldType
             /\ Present(f, a) <=> Present(f, d)
             /\ Present(f, b) <=> Present(f, d)
             /\ Present(f, d) => a[f.name] = KeptValue(l, f, d[f.name])
             /\ Present(f, d) => b[f.name] = KeptValue(m, f, d[f.name])
             /\ Present(f, d) => ValueOK(f, d[f.name])
  BY KeptAt, FieldFound DEF Document
<1>2. FullDocument(a) /\ FullDocument(b)
  BY KeptIsFull
<1> HIDE DEF a, b
<1>3. SameNulls(a, b)
  BY <1>1, <1>2, FullSameNulls DEF FullDocument
<1>4. ASSUME NEW f \in Members(type), f.base = "ref", Present(f, a)
      PROVE  IF ~f.list THEN SameNulls(a[f.name][2], b[f.name][2])
             ELSE \A i \in DOMAIN a[f.name][2] :
                    SameNulls(a[f.name][2][i][2], b[f.name][2][i][2])
  <2> DEFINE v == d[f.name]
             u == a[f.name]
             w == b[f.name]
  <2>1. f \in FieldType /\ ValueOK(f, v) /\ u = KeptValue(l, f, v) /\ w = KeptValue(m, f, v)
    BY <1>1, <1>4
  <2> HIDE DEF u, v, w
  <2>2. ASSUME NEW x, ItemOK(f, x)
        PROVE  SameNulls(KeptItem(l, f, x)[2], KeptItem(m, f, x)[2])
    <3>1. /\ InnerDocument(x[2])
          /\ KeptItem(l, f, x)[2] = KeptInner(l, x[2])
          /\ KeptItem(m, f, x)[2] = KeptInner(m, x[2])
      BY <1>4, <2>1, <2>2, KeptRef
    <3>2. /\ Full(Inner, KeptInner(l, x[2])) /\ Full(Inner, KeptInner(m, x[2]))
          /\ \A g \in Members(Inner) :
               Present(g, KeptInner(l, x[2])) <=> Present(g, KeptInner(m, x[2]))
      BY <3>1, KeptInnerIsFull
    <3> QED
      BY <3>1, <3>2, InnerFields, FullSameNulls
  <2>3. CASE ~f.list
    <3>1. ItemOK(f, v) /\ u = KeptItem(l, f, v) /\ w = KeptItem(m, f, v)
      BY <2>1, <2>3 DEF ValueOK, KeptValue
    <3> QED
      BY <2>2, <2>3, <3>1 DEF u, w
  <2>4. CASE f.list
    <3>1. /\ DOMAIN u[2] = DOMAIN v[2]
          /\ \A i \in DOMAIN v[2] : /\ ItemOK(f, v[2][i])
                                    /\ u[2][i] = KeptItem(l, f, v[2][i])
                                    /\ w[2][i] = KeptItem(m, f, v[2][i])
      BY <2>1, <2>4, KeptList
    <3>2. \A i \in DOMAIN u[2] : SameNulls(u[2][i][2], w[2][i][2])
      BY <2>2, <3>1
    <3> QED
      BY <2>4, <3>2 DEF u, w
  <2> QED
    BY <2>3, <2>4
<1>5. SameKeys(a, b)
  BY <1>3, <1>4 DEF SameKeys
<1> QED
  BY <1>5 DEF a, b

\* Any two generated types that decode a document write the same keys and the
\* same nulls, and what the document says, however they round and write the
\* numbers that are doubles to them.
THEOREM Agreement == Spec => []AdaptersAgree
<1>1. WireInv => AdaptersAgree
  <2> SUFFICES ASSUME WireInv PROVE AdaptersAgree
    OBVIOUS
  <2>1. Fields(type) /\ Document(wire)
    BY TypeFields DEF WireInv
  <2>2. \A l \in Languages : Relay(l, wire) = Kept(l, wire)
    BY <2>1, RelayIs
  <2> QED
    BY <2>1, <2>2, KeptAgree, KeptIs DEF AdaptersAgree
<1> QED
  BY <1>1, WireInvariant, PTL

\* Once one program has re-encoded a document, no program changes its keys or
\* its nulls any more, whichever of the generated adapters decode and encode it
\* after that: absent and null optional members are settled at the first hop.
\* (Numbers are not: one language writes 7.0 where another writes 7.)
THEOREM Settled ==
  Spec => [](wire = original \/ \A l \in Languages : SameKeys(wire, Relay(l, wire)))
<1> DEFINE Still == wire = original \/ FullDocument(wire)
<1>1. WireInv /\ Still /\ [Next]_vars => Still'
  <2> SUFFICES ASSUME WireInv, Still, [Next]_vars PROVE Still'
    OBVIOUS
  <2>1. Fields(type) /\ Document(wire)
    BY TypeFields DEF WireInv
  <2>2. CASE wire' = wire /\ type' = type /\ original' = original
    BY <2>2 DEF FullDocument
  <2>3. ASSUME NEW l \in Languages, Hop(l), wire' # wire
        PROVE  FullDocument(wire)'
    <3>1. wire' = Relay(l, wire) /\ type' = type
      BY <2>3 DEF Hop
    <3>2. wire' = Kept(l, wire)
      BY <2>1, <3>1, RelayIs
    <3>3. FullDocument(Kept(l, wire))
      BY <2>1, KeptIsFull
    <3> QED
      BY <3>1, <3>2, <3>3 DEF FullDocument
  <2> QED
    BY <2>2, <2>3 DEF Next, vars, Hop
<1>2. Init => Still
  BY DEF Init
<1>3. WireInv /\ Still
        => (wire = original \/ \A l \in Languages : SameKeys(wire, Relay(l, wire)))
  <2> SUFFICES ASSUME WireInv, FullDocument(wire), NEW l \in Languages
               PROVE  SameKeys(wire, Relay(l, wire))
    OBVIOUS
  <2>1. Fields(type) /\ Document(wire)
    BY TypeFields DEF WireInv
  <2> QED
    BY <2>1, RelayIs, FullStays
<1> HIDE DEF Still
<1> QED
  BY <1>1, <1>2, <1>3, WireInvariant, PTL DEF Spec
=============================================================================
