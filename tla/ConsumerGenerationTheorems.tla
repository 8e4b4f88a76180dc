---------------------- MODULE ConsumerGenerationTheorems ----------------------
(***************************************************************************)
(* What any number of invocations, stopped anywhere and edited under, can  *)
(* leave in an output tree, and what --check says of it.                   *)
(***************************************************************************)
EXTENDS ConsumerGeneration, FiniteSetTheorems, FunctionTheorems, SequenceTheorems, TLAPS

\* Inputs as the generator gets them.
AllAdmitted(inputs) == \A i \in DOMAIN inputs : inputs[i].file.admitted
Apart(inputs) ==
  \A i, j \in DOMAIN inputs : i # j =>
    /\ inputs[i].family # inputs[j].family
    /\ inputs[i].file.names \cap inputs[j].file.names = {}
Sorted(inputs) == \A k \in DOMAIN inputs : Rank(inputs, inputs[k]) = k
Sound(inputs) == AllAdmitted(inputs) /\ Apart(inputs) /\ Sorted(inputs)

-----------------------------------------------------------------------------
(* The sort *)

\* As many different inputs as positions.
LEMMA RangeSize ==
  ASSUME NEW s \in Seq(Input), Apart(s)
  PROVE  IsFiniteSet(Range(s)) /\ Cardinality(Range(s)) = Len(s)
<1>1. IsFiniteSet(1..Len(s)) /\ Cardinality(1..Len(s)) = Len(s)
  <2>1. 1 \in Int /\ Len(s) \in Int /\ Len(s) \in Nat
    OBVIOUS
  <2>2. /\ IsFiniteSet(1..Len(s))
        /\ Cardinality(1..Len(s)) = IF 1 > Len(s) THEN 0 ELSE Len(s) - 1 + 1
    BY <2>1, FS_Interval, Zenon
  <2> QED
    BY <2>1, <2>2
<1>2. s \in Surjection(1..Len(s), Range(s))
  BY DEF Surjection, Range
<1>3. s \in Injection(1..Len(s), Range(s))
  BY <1>2 DEF Injection, IsInjective, Surjection, Apart
<1> QED
  BY <1>1, <1>2, <1>3, FS_Surjection

\* Inputs of a sequence are records whose family is a number.
LEMMA RangeType ==
  ASSUME NEW s \in Seq(Input)
  PROVE  \A x \in Range(s) : x \in Input /\ x.family \in Nat
<1> SUFFICES ASSUME NEW i \in DOMAIN s PROVE s[i] \in Input /\ s[i].family \in Nat
  BY DEF Range
<1>1. s[i] \in Input
  OBVIOUS
<1>2. s[i].family \in Families
  BY <1>1 DEF Input
<1> QED
  BY <1>1, <1>2, ConsumerAssumption

\* Ranks are positions, and no two inputs have the same.
LEMMA RankIsInjective ==
  ASSUME NEW s \in Seq(Input), Apart(s)
  PROVE  [x \in Range(s) |-> Rank(s, x)] \in Injection(Range(s), 1..Len(s))
<1> DEFINE R == Range(s)
           Upto(x) == {y \in R : y.family <= x.family}
<1>1. IsFiniteSet(R) /\ Cardinality(R) = Len(s)
  BY RangeSize
<1>2. \A x \in R : x.family \in Nat
  BY RangeType
<1>3. \A x \in R : IsFiniteSet(Upto(x)) /\ Cardinality(Upto(x)) \in 1..Len(s)
  <2> SUFFICES ASSUME NEW x \in R
               PROVE  IsFiniteSet(Upto(x)) /\ Cardinality(Upto(x)) \in 1..Len(s)
    OBVIOUS
  <2>1. IsFiniteSet(Upto(x)) /\ Cardinality(Upto(x)) <= Len(s)
    BY <1>1, FS_Subset
  <2>2. Cardinality(Upto(x)) \in Nat
    BY <2>1, FS_CardinalityType
  <2>3. x \in Upto(x)
    BY <1>2
  <2>4. Cardinality(Upto(x)) # 0
    BY <2>1, <2>3, FS_EmptySet
  <2> QED
    BY <2>1, <2>2, <2>4
<1>4. \A x, y \in R : x # y => x.family # y.family
  BY DEF Apart, Range
<1>5. ASSUME NEW x \in R, NEW y \in R, x.family < y.family
      PROVE  Cardinality(Upto(x)) # Cardinality(Upto(y))
  <2>1. Upto(x) \in SUBSET Upto(y)
    BY <1>2, <1>5
  <2>2. y \in Upto(y) /\ y \notin Upto(x)
    BY <1>2, <1>5
  <2> QED
    BY <1>3, <2>1, <2>2, FS_Subset
<1>6. \A x, y \in R : x # y => Cardinality(Upto(x)) # Cardinality(Upto(y))
  BY <1>2, <1>4, <1>5
<1>7. \A x \in R : Rank(s, x) = Cardinality(Upto(x))
  BY DEF Rank
<1> HIDE DEF R, Upto
<1>8. [x \in R |-> Rank(s, x)] \in Injection(R, 1..Len(s))
  BY <1>3, <1>6, <1>7 DEF Injection, IsInjective
<1> QED
  BY <1>8 DEF R

\* The sort permutes the inputs into the order of their families.
LEMMA SortSorts ==
  ASSUME NEW s \in Seq(Input), Apart(s)
  PROVE  /\ ByFamily(s) \in Seq(Input)
         /\ Len(ByFamily(s)) = Len(s)
         /\ Range(ByFamily(s)) = Range(s)
         /\ Sorted(ByFamily(s))
<1> DEFINE R == Range(s)
           t == ByFamily(s)
           r == [x \in R |-> Rank(s, x)]
<1>1. r \in Injection(R, 1..Len(s))
  BY RankIsInjective
<1>2. r \in Surjection(R, 1..Len(s))
  BY <1>1, RangeSize, FS_Interval, FS_Injection
<1>3. \A k \in 1..Len(s) : \E x \in R : Rank(s, x) = k
  BY <1>2 DEF Surjection
<1>4. \A k \in 1..Len(s) : t[k] \in R /\ Rank(s, t[k]) = k
  BY <1>3 DEF ByFamily
<1>5. DOMAIN t = 1..Len(s)
  BY DEF ByFamily
<1>6. t \in Seq(Input) /\ Len(t) = Len(s)
  <2>1. t = [k \in 1..Len(s) |-> t[k]]
    BY DEF ByFamily
  <2>2. \A k \in 1..Len(s) : t[k] \in Input
    BY <1>4, RangeType
  <2> HIDE DEF t
  <2>3. t \in [1..Len(s) -> Input] /\ Len(s) \in Nat
    BY <2>1, <2>2
  <2> QED
    BY <2>3
<1>7. \A x \in R : Rank(s, x) \in 1..Len(s)
  BY <1>1 DEF Injection
<1>8. \A x, y \in R : Rank(s, x) = Rank(s, y) => x = y
  BY <1>1 DEF Injection, IsInjective
<1> HIDE DEF t, R, r
<1>9. \A x \in R : t[Rank(s, x)] = x
  BY <1>4, <1>7, <1>8
<1>10. Range(t) = R
  BY <1>4, <1>5, <1>7, <1>9 DEF Range
<1>11. \A k \in DOMAIN t : Rank(t, t[k]) = k
  BY <1>4, <1>5, <1>10 DEF Rank, R
<1> QED
  BY <1>6, <1>10, <1>11 DEF t, R, Sorted

\* Sorting keeps admission and keeps the inputs apart.
LEMMA SortKeeps ==
  ASSUME NEW s \in Seq(Input), Apart(s), AllAdmitted(s)
  PROVE  Sound(ByFamily(s))
<1> DEFINE t == ByFamily(s)
<1>1. t \in Seq(Input) /\ Len(t) = Len(s) /\ Range(t) = Range(s) /\ Sorted(t)
  BY SortSorts
<1> HIDE DEF t
<1>2. \A k \in DOMAIN t : \E i \in DOMAIN s : t[k] = s[i]
  BY <1>1 DEF Range
<1>3. AllAdmitted(t)
  BY <1>2 DEF AllAdmitted
<1>4. \A k, l \in DOMAIN t : t[k] = t[l] => k = l
  BY <1>1 DEF Sorted
<1>5. Apart(t)
  <2> SUFFICES ASSUME NEW k \in DOMAIN t, NEW l \in DOMAIN t, k # l
               PROVE  /\ t[k].family # t[l].family
                      /\ t[k].file.names \cap t[l].file.names = {}
    BY DEF Apart
  <2>1. PICK i \in DOMAIN s : t[k] = s[i]
    BY <1>2
  <2>2. PICK j \in DOMAIN s : t[l] = s[j]
    BY <1>2
  <2>3. i # j
    BY <1>4, <2>1, <2>2
  <2> QED
    BY <2>1, <2>2, <2>3 DEF Apart
<1> QED
  BY <1>1, <1>3, <1>5 DEF Sound, t

\* Sorted sequences of the same inputs are equal, so the bundle cannot depend
\* on the order of the arguments.
LEMMA SortedIsUnique ==
  ASSUME NEW s \in Seq(Input), NEW t \in Seq(Input),
         Sorted(s), Sorted(t), Range(s) = Range(t)
  PROVE  s = t
<1>1. \A x : Rank(s, x) = Rank(t, x)
  BY DEF Rank
<1>2. \A k \in DOMAIN s : k \in DOMAIN t /\ t[k] = s[k]
  <2> SUFFICES ASSUME NEW k \in DOMAIN s PROVE k \in DOMAIN t /\ t[k] = s[k]
    OBVIOUS
  <2>1. PICK l \in DOMAIN t : t[l] = s[k]
    BY DEF Range
  <2>2. Rank(t, t[l]) = l /\ Rank(s, s[k]) = k
    BY DEF Sorted
  <2> QED
    BY <1>1, <2>1, <2>2
<1>3. \A k \in DOMAIN t : k \in DOMAIN s
  <2> SUFFICES ASSUME NEW k \in DOMAIN t PROVE k \in DOMAIN s
    OBVIOUS
  <2>1. PICK l \in DOMAIN s : s[l] = t[k]
    BY DEF Range
  <2>2. Rank(t, t[k]) = k /\ Rank(s, s[l]) = l
    BY DEF Sorted
  <2> QED
    BY <1>1, <2>1, <2>2
<1>4. DOMAIN s = DOMAIN t
  BY <1>2, <1>3
<1> QED
  BY <1>2, <1>4

\* No inputs, and one admitted input, are sorted and apart.
LEMMA FewAreSound ==
  /\ Missing \in Content /\ Sound(<<>>)
  /\ \A x \in Input : x.file.admitted => <<x>> \in Seq(Input) /\ Sound(<<x>>)
<1>1. Missing \in Content /\ Sound(<<>>)
  BY DEF Missing, Content, Sound, AllAdmitted, Apart, Sorted
<1>2. ASSUME NEW x \in Input, x.file.admitted
      PROVE  <<x>> \in Seq(Input) /\ Sound(<<x>>)
  <2>1. <<x>> \in Seq(Input) /\ DOMAIN <<x>> = {1} /\ <<x>>[1] = x
    OBVIOUS
  <2>2. Range(<<x>>) = {x}
    BY <2>1 DEF Range
  <2>3. x.family \in Nat
    BY <2>1, <2>2, RangeType
  <2>4. {y \in {x} : y.family <= x.family} = {x}
    BY <2>3
  <2>5. Rank(<<x>>, x) = 1
    BY <2>2, <2>4, FS_Singleton DEF Rank
  <2>6. Sorted(<<x>>)
    BY <2>1, <2>5 DEF Sorted
  <2> QED
    BY <1>2, <2>1, <2>6 DEF Sound, AllAdmitted, Apart
<1> QED
  BY <1>1, <1>2

-----------------------------------------------------------------------------
(* Types and the worker *)

AfterSort == {"spawn", "bind", "list", "compare", "current", "drift"} \cup Writing
AfterList == {"list", "compare", "current", "drift"}

\* What an invocation has made sure of when it gets to a place.
WorkerOK(me) ==
  /\ me.pc = "read" => me.todo # <<>>
  /\ AllAdmitted(me.inputs)
  /\ me.pc \in AfterSort => Sound(me.inputs)
  /\ me.pc \in AfterSort \ {"spawn"} =>
       me.made = [generator |-> me.staged, inputs |-> me.inputs]
  /\ me.pc \in AfterList => me.bound.inputs = me.inputs
  /\ me.pc \in Writing => me.mode = "output"

WorkersOK == \A w \in Invocations : WorkerOK(worker[w])

\* w has taken a step to x.
Turn(w, x) ==
  /\ worker' = [worker EXCEPT ![w] = x]
  /\ x \in WorkerType /\ WorkerOK(x)

\* A record of a worker is the record of its fields.
LEMMA WorkerFields ==
  ASSUME TypeOK, NEW w \in Invocations
  PROVE  /\ worker[w] \in WorkerType
         /\ worker[w].pc \in Pcs /\ worker[w].mode \in {"output", "check"}
         /\ worker[w].todo \in Seq(Families) /\ worker[w].inputs \in Seq(Input)
         /\ worker[w].staged \in Nat
         /\ worker[w].made \in Content /\ worker[w].bound \in Content
         /\ worker[w].uncopied \in SUBSET Languages
BY DEF TypeOK, WorkerType

\* An invocation is called in one of the two modes.
LEMMA ModesAreModes ==
  ASSUME NEW w \in Invocations
  PROVE  Modes[w] \subseteq {"output", "check"}
<1>1. Modes \in [Invocations -> SUBSET {"output", "check"}]
  BY ConsumerAssumption
<1> QED
  BY <1>1

\* Every step of an invocation leaves a record that is right for its place.
LEMMA InvocationTurns ==
  ASSUME TypeOK, WorkersOK, NEW w \in Invocations,
         Begin(w) \/ Invoke(w) \/ Stop(w)
  PROVE  worker' = worker \/ \E x : Turn(w, x)
<1> DEFINE me == worker[w]
<1> USE DEF Pcs, Ended, Writing, AfterSort, AfterList
<1>1. /\ me = [pc |-> me.pc, mode |-> me.mode, todo |-> me.todo, inputs |-> me.inputs,
               staged |-> me.staged, made |-> me.made, uncopied |-> me.uncopied,
               bound |-> me.bound]
      /\ me.pc \in Pcs /\ me.mode \in {"output", "check"}
      /\ me.todo \in Seq(Families) /\ me.inputs \in Seq(Input)
      /\ me.staged \in Nat /\ me.made \in Content /\ me.bound \in Content
      /\ me.uncopied \in SUBSET Languages
  BY WorkerFields DEF WorkerType
<1>2. WorkerOK(me) /\ worker \in [Invocations -> WorkerType] /\ generator \in Nat
  BY DEF WorkersOK, TypeOK
<1>3. ASSUME NEW pc \in Ended, Exit(w, pc), pc \notin {"current", "drift"}
      PROVE  \E x : Turn(w, x)
  <2> DEFINE x == [Idle EXCEPT !.pc = pc, !.mode = me.mode]
  <2>1. Idle \in WorkerType /\ Idle.inputs = <<>>
    BY FewAreSound DEF WorkerType, Idle
  <2>2. x \in WorkerType
    BY <1>1, <1>3, <2>1 DEF WorkerType
  <2>3. WorkerOK(x)
    <3>1. x.pc = pc /\ x.inputs = <<>>
      BY <1>3, <2>1 DEF WorkerType
    <3> HIDE DEF x
    <3> QED
      BY <1>3, <3>1, FewAreSound DEF WorkerOK, Sound
  <2>4. worker' = [worker EXCEPT ![w] = x]
    BY <1>3 DEF Exit
  <2> QED
    BY <2>2, <2>3, <2>4 DEF Turn
<1>4. CASE Begin(w)
  <2>1. PICK args \in ArgLists, mode \in {"output", "check"} :
          worker' = [worker EXCEPT ![w].pc = "read", ![w].mode = mode, ![w].todo = args]
    BY <1>4, ModesAreModes DEF Begin
  <2> DEFINE x == [me EXCEPT !.pc = "read", !.mode = mode, !.todo = args]
  <2>2. args \in Seq(Families) /\ args # <<>>
    BY ConsumerAssumption
  <2>3. x \in WorkerType
    BY <1>1, <2>2 DEF WorkerType
  <2>4. WorkerOK(x)
    BY <1>1, <1>2, <2>2 DEF WorkerOK
  <2>5. worker' = [worker EXCEPT ![w] = x]
    BY <1>2, <2>1
  <2> QED
    BY <2>3, <2>4, <2>5 DEF Turn
<1>5. CASE ReadProjection(w)
  <2> DEFINE f == Head(me.todo)
             last == IF Len(me.todo) = 1 THEN "stage" ELSE "read"
             input == [family |-> f, file |-> source[f]]
             x == [me EXCEPT !.pc = last, !.todo = Tail(me.todo),
                             !.inputs = Append(me.inputs, input)]
  <2>1. CASE ~source[f].admitted
    BY <1>3, <1>5, <2>1 DEF ReadProjection
  <2>2. CASE source[f].admitted
    <3>1. me.pc = "read" /\ me.todo # <<>>
      BY <1>2, <1>5 DEF ReadProjection, WorkerOK
    <3>2. f \in Families /\ Tail(me.todo) \in Seq(Families)
          /\ (Len(me.todo) # 1 => Tail(me.todo) # <<>>)
      <4> DEFINE todo == me.todo
      <4>1. todo \in Seq(Families) /\ todo # <<>>
        BY <1>1, <3>1
      <4> HIDE DEF todo
      <4>2. Head(todo) \in Families /\ Tail(todo) \in Seq(Families)
            /\ Len(Tail(todo)) = Len(todo) - 1
        BY <4>1, HeadTailProperties
      <4>3. Len(todo) \in Nat /\ (Len(todo) # 1 => Len(Tail(todo)) # 0)
        BY <4>1, <4>2
      <4>4. Len(todo) # 1 => Tail(todo) # <<>>
        BY <4>3
      <4> QED
        BY <4>2, <4>4 DEF todo
    <3>3. input \in Input
      BY <3>2 DEF Input, TypeOK
    <3>4. Append(me.inputs, input) \in Seq(Input)
      BY <1>1, <3>3, AppendProperties
    <3>5. AllAdmitted(Append(me.inputs, input))
      <4> HIDE DEF input
      <4>1. input.file.admitted
        BY <2>2 DEF input
      <4> QED
        BY <1>1, <1>2, <3>3, <4>1 DEF WorkerOK, AllAdmitted
    <3>6. worker' = [worker EXCEPT ![w] = x]
      BY <1>2, <1>5, <2>2 DEF ReadProjection
    <3>7. x \in WorkerType
      <4> HIDE DEF input, f
      <4> QED
        BY <1>1, <3>2, <3>4 DEF WorkerType
    <3>8. WorkerOK(x)
      <4> HIDE DEF input, f
      <4> QED
        BY <1>1, <3>2, <3>5 DEF WorkerOK
    <3> QED
      BY <3>6, <3>7, <3>8 DEF Turn
  <2> QED
    BY <2>1, <2>2
<1>6. CASE Stage(w)
  <2> DEFINE t == ByFamily(me.inputs)
             x == [me EXCEPT !.pc = "spawn", !.staged = generator, !.inputs = t]
  <2>1. CASE Collides(me.inputs)
    BY <1>3, <1>6, <2>1 DEF Stage
  <2>2. CASE ~Collides(me.inputs)
    <3>1. Apart(me.inputs)
      <4> SUFFICES ASSUME NEW i \in DOMAIN me.inputs, NEW j \in DOMAIN me.inputs, i # j
                   PROVE  /\ me.inputs[i].family # me.inputs[j].family
                          /\ me.inputs[i].file.names \cap me.inputs[j].file.names = {}
        BY DEF Apart
      <4>1. i < j \/ j < i
        BY <1>1
      <4> QED
        BY <2>2, <4>1 DEF Collides
    <3>2. AllAdmitted(me.inputs)
      BY <1>2 DEF WorkerOK
    <3>3. t \in Seq(Input) /\ Sound(t)
      BY <1>1, <3>1, <3>2, SortSorts, SortKeeps
    <3> HIDE DEF t
    <3>4. worker' = [worker EXCEPT ![w] = x]
      BY <1>2, <1>6, <2>2 DEF Stage, t
    <3>5. x \in WorkerType
      BY <1>1, <1>2, <3>3 DEF WorkerType
    <3>6. WorkerOK(x)
      BY <1>1, <3>3 DEF WorkerOK, Sound
    <3> QED
      BY <3>4, <3>5, <3>6 DEF Turn
  <2> QED
    BY <2>1, <2>2
<1>7. CASE Spawn(w)
  <2> DEFINE made == [generator |-> me.staged, inputs |-> me.inputs]
             x == [me EXCEPT !.pc = IF me.mode = "output" THEN "remove" ELSE "bind",
                             !.made = made]
  <2>1. CASE Exit(w, "refused")
    BY <1>3, <2>1
  <2>2. CASE worker' = [worker EXCEPT
                ![w].pc = IF me.mode = "output" THEN "remove" ELSE "bind",
                ![w].made = made]
    <3>1. me.pc = "spawn" /\ made \in Content
      BY <1>1, <1>7 DEF Spawn, Content
    <3>2. worker' = [worker EXCEPT ![w] = x]
      BY <1>2, <2>2
    <3>3. x \in WorkerType
      BY <1>1, <3>1 DEF WorkerType
    <3>4. WorkerOK(x)
      BY <1>1, <1>2, <3>1 DEF WorkerOK
    <3> QED
      BY <3>2, <3>3, <3>4 DEF Turn
  <2> QED
    BY <1>7, <2>1, <2>2 DEF Spawn
<1>8. ASSUME NEW from \in Pcs, NEW to \in Pcs, me.pc = from, Step(w, to),
             <<from, to>> \in {<<"remove", "copy">>,
               <<"list", "compare">>, <<"list", "drift">>,
               <<"compare", "current">>, <<"compare", "drift">>}
      PROVE  \E x : Turn(w, x)
  <2> DEFINE x == [me EXCEPT !.pc = to]
  <2>1. worker' = [worker EXCEPT ![w] = x]
    BY <1>2, <1>8 DEF Step
  <2>2. x \in WorkerType
    BY <1>1, <1>8 DEF WorkerType
  <2>3. WorkerOK(x)
    BY <1>1, <1>2, <1>8 DEF WorkerOK
  <2> QED
    BY <2>1, <2>2, <2>3 DEF Turn
<1>9. CASE RemoveOutput(w)
  BY <1>8, <1>9 DEF RemoveOutput
<1>10. CASE Copy(w)
  <2>1. PICK n \in me.uncopied :
          worker' = [worker EXCEPT
            ![w].pc = IF me.uncopied = {n} THEN "provenance" ELSE "copy",
            ![w].uncopied = @ \ {n}]
    BY <1>10 DEF Copy
  <2> DEFINE pc == IF me.uncopied = {n} THEN "provenance" ELSE "copy"
             x == [me EXCEPT !.pc = pc, !.uncopied = me.uncopied \ {n}]
  <2>2. me.pc = "copy" /\ pc \in {"copy", "provenance"}
    BY <1>10 DEF Copy
  <2>3. worker' = [worker EXCEPT ![w] = x]
    BY <1>2, <2>1
  <2> HIDE DEF pc
  <2>4. x \in WorkerType
    BY <1>1, <2>2 DEF WorkerType
  <2>5. WorkerOK(x)
    BY <1>1, <1>2, <2>2 DEF WorkerOK
  <2> QED
    BY <2>3, <2>4, <2>5 DEF Turn
<1>11. CASE WriteProvenance(w)
  BY <1>3, <1>11 DEF WriteProvenance
<1>12. CASE Bind(w)
  <2> DEFINE b == BuildProvenance(w)
             x == [me EXCEPT !.pc = "list", !.bound = b]
  <2>1. b = [generator |-> generator, inputs |-> me.inputs] /\ b \in Content
    BY <1>1, <1>2 DEF BuildProvenance, Content
  <2>2. me.pc = "bind"
    BY <1>12 DEF Bind
  <2>3. worker' = [worker EXCEPT ![w] = x]
    BY <1>2, <1>12 DEF Bind
  <2> HIDE DEF b
  <2>4. x \in WorkerType
    BY <1>1, <2>1 DEF WorkerType
  <2>5. WorkerOK(x)
    BY <1>1, <1>2, <2>1, <2>2 DEF WorkerOK
  <2> QED
    BY <2>3, <2>4, <2>5 DEF Turn
<1>13. CASE List(w)
  BY <1>8, <1>13 DEF List
<1>14. CASE Compare(w)
  BY <1>8, <1>14 DEF Compare
<1>15. CASE Stop(w)
  BY <1>3, <1>15 DEF Stop
<1> QED
  BY <1>4, <1>5, <1>6, <1>7, <1>9, <1>10, <1>11, <1>12, <1>13, <1>14, <1>15 DEF Invoke

\* Every file of the tree comes from sound inputs.
TreeOK == \A n \in Files : Sound(tree[n].inputs)

\* Whoever changed the tree was writing, and may have ended since.
TouchedByWriters ==
  \A w \in touched : /\ worker[w].mode = "output"
                     /\ worker[w].pc \in Writing \cup {"done", "stopped"}

Foundation == TypeOK /\ WorkersOK /\ TreeOK /\ TouchedByWriters

\* What a step of an invocation can do to the tree.
Deletes(w) ==
  /\ worker[w].pc = "remove" /\ worker' = worker
  /\ \E n \in Files : tree' = [tree EXCEPT ![n] = Missing]
Copies(w) ==
  /\ worker[w].pc = "copy" /\ worker'[w].inputs = worker[w].inputs
  /\ \E n \in Languages : tree' = [tree EXCEPT ![n] = worker[w].made]
Names(w) == WriteProvenance(w)

\* An invocation leaves the tree as it is, or deletes, copies or names.
LEMMA InvocationEffect ==
  ASSUME Foundation, NEW w \in Invocations, Begin(w) \/ Invoke(w) \/ Stop(w)
  PROVE  /\ World
         /\ \/ /\ UNCHANGED <<tree, touched, overlapped>>
               /\ moved' \in {moved, moved \ {w}}
            \/ TreeChanged(w) /\ (Deletes(w) \/ Copies(w) \/ Names(w))
<1> USE DEF TreeKept
<1>1. CASE Begin(w)
  BY <1>1 DEF Begin
<1>2. CASE ReadProjection(w)
  BY <1>2 DEF ReadProjection
<1>3. CASE Stage(w)
  BY <1>3 DEF Stage
<1>4. CASE Spawn(w)
  BY <1>4 DEF Spawn
<1>5. CASE RemoveOutput(w)
  BY <1>5 DEF RemoveOutput, Deletes
<1>6. CASE Copy(w)
  <2>1. PICK n \in worker[w].uncopied :
          /\ tree' = [tree EXCEPT ![n] = worker[w].made]
          /\ worker' = [worker EXCEPT
               ![w].pc = IF worker[w].uncopied = {n} THEN "provenance" ELSE "copy",
               ![w].uncopied = @ \ {n}]
    BY <1>6 DEF Copy
  <2>2. n \in Languages /\ worker \in [Invocations -> WorkerType]
    BY WorkerFields DEF Foundation, TypeOK
  <2>3. worker'[w].inputs = worker[w].inputs
    BY <2>1, <2>2 DEF WorkerType
  <2> QED
    BY <1>6, <2>1, <2>2, <2>3 DEF Copy, Copies
<1>7. CASE WriteProvenance(w)
  BY <1>7 DEF WriteProvenance, Names
<1>8. CASE Bind(w)
  BY <1>8 DEF Bind
<1>9. CASE List(w)
  BY <1>9 DEF List
<1>10. CASE Compare(w)
  BY <1>10 DEF Compare
<1>11. CASE Stop(w)
  BY <1>11 DEF Stop
<1> QED
  BY <1>1, <1>2, <1>3, <1>4, <1>5, <1>6, <1>7, <1>8, <1>9, <1>10, <1>11 DEF Invoke

\* What an invocation writes has the type of a file and sound inputs.
LEMMA WrittenContent ==
  ASSUME Foundation, NEW w \in Invocations
  PROVE  /\ worker[w].pc = "copy" => worker[w].made \in Content
                                     /\ Sound(worker[w].made.inputs)
         /\ worker[w].pc = "provenance" => BuildProvenance(w) \in Content
                                           /\ Sound(BuildProvenance(w).inputs)
<1> USE DEF Foundation
<1>1. worker[w].made \in Content /\ worker[w].inputs \in Seq(Input) /\ WorkerOK(worker[w])
  BY WorkerFields DEF WorkersOK
<1>2. BuildProvenance(w) \in Content /\ BuildProvenance(w).inputs = worker[w].inputs
  BY <1>1 DEF BuildProvenance, Content, TypeOK
<1>3. worker[w].pc \in Writing => Sound(worker[w].inputs)
                                  /\ worker[w].made.inputs = worker[w].inputs
  BY <1>1 DEF WorkerOK, AfterSort, Writing
<1> QED
  BY <1>1, <1>2, <1>3 DEF Writing

\* Files and their contents, whoever changes them.
LEMMA TreeStep ==
  ASSUME Foundation, [Next]_vars
  PROVE  tree' \in [Files -> Content] /\ TreeOK'
<1>1. tree \in [Files -> Content] /\ \A n \in Files : Sound(tree[n].inputs)
  BY DEF Foundation, TypeOK, TreeOK
<1>2. ASSUME NEW n \in Files, NEW c \in Content, Sound(c.inputs),
             tree' = [tree EXCEPT ![n] = c]
      PROVE  tree' \in [Files -> Content] /\ TreeOK'
  BY <1>1, <1>2 DEF TreeOK
<1>3. Missing \in Content /\ Sound(Missing.inputs)
  BY FewAreSound DEF Missing
<1>4. Languages \subseteq Files /\ Provenance \in Files
  BY DEF Files, Bundle
<1>5. CASE UNCHANGED tree
  BY <1>1, <1>5 DEF TreeOK
<1>6. ASSUME NEW w \in Invocations, Begin(w) \/ Invoke(w) \/ Stop(w)
      PROVE  tree' \in [Files -> Content] /\ TreeOK'
  <2>1. CASE Deletes(w)
    BY <1>2, <1>3, <2>1 DEF Deletes
  <2>2. CASE Copies(w)
    BY <1>2, <1>4, <2>2, WrittenContent DEF Copies
  <2>3. CASE Names(w)
    BY <1>2, <1>4, <2>3, WrittenContent DEF Names, WriteProvenance
  <2> QED
    BY <1>5, <1>6, <2>1, <2>2, <2>3, InvocationEffect
<1>7. ASSUME NEW n \in Files, EditTree(n)
      PROVE  tree' \in [Files -> Content] /\ TreeOK'
  <2>1. CASE tree' = [tree EXCEPT ![n] = Missing]
    BY <1>2, <1>3, <2>1
  <2>2. ASSUME NEW f \in Families, NEW p \in Leftovers, p.admitted,
               tree' = [tree EXCEPT ![n] =
                 [generator |-> 0, inputs |-> <<[family |-> f, file |-> p]>>]]
        PROVE  tree' \in [Files -> Content] /\ TreeOK'
    <3> DEFINE input == [family |-> f, file |-> p]
               c == [generator |-> 0, inputs |-> <<input>>]
    <3>1. input \in Input /\ input.file.admitted
      BY <2>2, ConsumerAssumption DEF Input
    <3> HIDE DEF input
    <3>2. <<input>> \in Seq(Input) /\ Sound(<<input>>)
      BY <3>1, FewAreSound
    <3>3. c \in Content /\ Sound(c.inputs)
      BY <3>2 DEF Content
    <3>4. tree' = [tree EXCEPT ![n] = c]
      BY <2>2 DEF input
    <3> HIDE DEF c
    <3> QED
      BY <1>2, <3>3, <3>4
  <2> QED
    BY <1>7, <2>1, <2>2 DEF EditTree
<1>8. ASSUME NEW f \in Families, EditProjection(f) PROVE UNCHANGED tree
  BY <1>8 DEF EditProjection, TreeKept
<1>9. CASE EditGenerator
  BY <1>5, <1>9 DEF EditGenerator, TreeKept
<1> QED
  BY <1>5, <1>6, <1>7, <1>8, <1>9 DEF Next, vars

\* What arguments give, if the files stand still.
LEMMA GivenIsSound ==
  ASSUME source \in [Families -> Projections], NEW args \in Seq(Families),
         \A i \in DOMAIN args : source[args[i]].admitted, ~Collides(Given(args))
  PROVE  ByFamily(Given(args)) \in Seq(Input) /\ Sound(ByFamily(Given(args)))
<1> DEFINE s == Given(args)
<1>1. DOMAIN s = 1..Len(args) /\ Len(args) \in Nat
  BY DEF Given
<1>2. \A i \in 1..Len(args) : s[i] = [family |-> args[i], file |-> source[args[i]]]
  BY DEF Given
<1>3. \A i \in 1..Len(args) : args[i] \in Families /\ source[args[i]] \in Projections
  OBVIOUS
<1>4. ASSUME NEW i \in 1..Len(args) PROVE s[i] \in Input /\ s[i].file.admitted
  <2> DEFINE x == [family |-> args[i], file |-> source[args[i]]]
  <2>1. x \in Input /\ x.file.admitted
    BY <1>3 DEF Input
  <2>2. s[i] = x
    BY <1>2
  <2> HIDE DEF s, x
  <2> QED
    BY <2>1, <2>2
<1>5. s = [i \in 1..Len(args) |-> s[i]]
  BY DEF Given
<1>6. \A i, j \in DOMAIN s : i < j =>
        s[i].family # s[j].family /\ s[i].file.names \cap s[j].file.names = {}
  BY DEF Collides
<1> HIDE DEF s
<1>7. s \in Seq(Input)
  BY <1>1, <1>4, <1>5
<1>8. AllAdmitted(s)
  BY <1>1, <1>4 DEF AllAdmitted
<1>9. Apart(s)
  <2> SUFFICES ASSUME NEW i \in DOMAIN s, NEW j \in DOMAIN s, i # j
               PROVE  /\ s[i].family # s[j].family
                      /\ s[i].file.names \cap s[j].file.names = {}
    BY DEF Apart
  <2>1. i < j \/ j < i
    BY <1>1
  <2> QED
    BY <1>6, <2>1
<1>10. ByFamily(s) \in Seq(Input) /\ Sound(ByFamily(s))
  BY <1>7, <1>8, <1>9, SortSorts, SortKeeps
<1> QED
  BY <1>10 DEF s

\* The initial tree is absent, or made from what an earlier invocation was given.
LEMMA InitialTree == Init => tree \in [Files -> Content] /\ TreeOK
<1> SUFFICES ASSUME Init PROVE tree \in [Files -> Content] /\ TreeOK
  OBVIOUS
<1>1. CASE tree = [n \in Files |-> Missing]
  BY <1>1, FewAreSound DEF TreeOK, Missing
<1>2. ASSUME NEW args \in ArgLists \cup {<<f>> : f \in Families}, NEW g \in {0, 1},
             \A i \in DOMAIN args : source[args[i]].admitted,
             ~Collides(Given(args)),
             tree = [n \in Files |->
                       IF g = 1 /\ n \in Retired THEN Missing
                       ELSE [generator |-> g, inputs |-> ByFamily(Given(args))]]
      PROVE  tree \in [Files -> Content] /\ TreeOK
  <2> DEFINE inputs == ByFamily(Given(args))
             c == [generator |-> g, inputs |-> inputs]
  <2>1. args \in Seq(Families)
    <3>1. CASE args \in ArgLists
      BY <3>1, ConsumerAssumption
    <3>2. CASE \E f \in Families : args = <<f>>
      BY <3>2
    <3> QED
      BY <1>2, <3>1, <3>2
  <2>2. source \in [Families -> Projections]
    BY DEF Init
  <2>3. inputs \in Seq(Input) /\ Sound(inputs)
    BY <1>2, <2>1, <2>2, GivenIsSound
  <2> HIDE DEF inputs
  <2>4. c \in Content /\ Sound(c.inputs)
    BY <2>3 DEF Content
  <2>5. tree = [n \in Files |-> IF g = 1 /\ n \in Retired THEN Missing ELSE c]
    BY <1>2 DEF inputs
  <2>6. Missing \in Content /\ Sound(Missing.inputs)
    BY FewAreSound DEF Missing
  <2> HIDE DEF c
  <2> QED
    BY <2>4, <2>5, <2>6 DEF TreeOK
<1> QED
  BY <1>1, <1>2 DEF Init

-----------------------------------------------------------------------------
(* The invariant all the others rest on *)

\* It holds when nobody has begun.
LEMMA InitFoundation == Init => Foundation
<1> SUFFICES ASSUME Init PROVE Foundation
  OBVIOUS
<1>1. Idle \in WorkerType
  BY FewAreSound DEF Idle, WorkerType, Pcs
<1>2. TypeOK
  <2>1. edits \in 0..MaxEdits /\ generator \in 1..(edits + 1)
    BY ConsumerAssumption DEF Init
  <2>2. tree \in [Files -> Content]
    BY InitialTree
  <2>3. worker \in [Invocations -> WorkerType]
    BY <1>1 DEF Init
  <2>4. source \in [Families -> Projections]
        /\ touched \subseteq Invocations /\ moved \subseteq Invocations
        /\ overlapped \in BOOLEAN
    BY DEF Init
  <2> QED
    BY <2>1, <2>2, <2>3, <2>4 DEF TypeOK
<1>3. WorkerOK(Idle)
  BY FewAreSound DEF WorkerOK, Idle, Sound, AfterSort, AfterList, Writing
<1>4. WorkersOK
  BY <1>3 DEF WorkersOK, Init
<1>5. TouchedByWriters
  BY DEF Init, TouchedByWriters
<1> QED
  BY <1>2, <1>4, <1>5, InitialTree DEF Foundation

\* Every step is that of an invocation, or leaves all invocations alone.
LEMMA Steps ==
  ASSUME [Next]_vars
  PROVE  \/ \E w \in Invocations : Begin(w) \/ Invoke(w) \/ Stop(w)
         \/ UNCHANGED <<worker, touched>>
BY DEF Next, vars, EditProjection, EditTree, EditGenerator, TreeKept

\* Every step keeps the types.
LEMMA TypeStep ==
  ASSUME Foundation, [Next]_vars
  PROVE  TypeOK'
<1> USE DEF Foundation
<1>1. tree' \in [Files -> Content]
  BY TreeStep
<1>2. worker' \in [Invocations -> WorkerType]
  <2>1. ASSUME NEW w \in Invocations, Begin(w) \/ Invoke(w) \/ Stop(w)
        PROVE  worker' \in [Invocations -> WorkerType]
    BY <2>1, InvocationTurns DEF Turn, TypeOK
  <2> QED
    BY <2>1, Steps DEF TypeOK
<1>3. touched' \subseteq Invocations /\ moved' \subseteq Invocations
      /\ overlapped' \in BOOLEAN
  <2>1. ASSUME NEW w \in Invocations, Begin(w) \/ Invoke(w) \/ Stop(w)
        PROVE  touched' \subseteq Invocations /\ moved' \subseteq Invocations
               /\ overlapped' \in BOOLEAN
    BY <2>1, InvocationEffect DEF TreeChanged, TypeOK
  <2>2. ASSUME NEW n \in Files, EditTree(n)
        PROVE  touched' \subseteq Invocations /\ moved' \subseteq Invocations
               /\ overlapped' \in BOOLEAN
    BY <2>2 DEF EditTree, TypeOK
  <2> QED
    BY <2>1, <2>2 DEF Next, vars, EditProjection, EditGenerator, TreeKept, TypeOK
<1>4. source' \in [Families -> Projections] /\ edits' \in 0..MaxEdits
      /\ generator' \in 1..(edits' + 1)
  <2> USE ConsumerAssumption DEF TypeOK
  <2>1. ASSUME NEW w \in Invocations, Begin(w) \/ Invoke(w) \/ Stop(w)
        PROVE  UNCHANGED <<source, generator, edits>>
    BY <2>1, InvocationEffect DEF World
  <2>2. ASSUME NEW f \in Families, EditProjection(f)
        PROVE  source' \in [Families -> Projections] /\ edits' \in 0..MaxEdits
               /\ generator' \in 1..(edits' + 1)
    BY <2>2 DEF EditProjection
  <2>3. ASSUME NEW n \in Files, EditTree(n)
        PROVE  source' \in [Families -> Projections] /\ edits' \in 0..MaxEdits
               /\ generator' \in 1..(edits' + 1)
    BY <2>3 DEF EditTree
  <2>4. CASE EditGenerator
    BY <2>4 DEF EditGenerator
  <2> QED
    BY <2>1, <2>2, <2>3, <2>4 DEF Next, vars
<1> QED
  BY <1>1, <1>2, <1>3, <1>4 DEF TypeOK

\* Every step keeps what the workers have made sure of.
LEMMA WorkersStep ==
  ASSUME Foundation, [Next]_vars
  PROVE  WorkersOK'
<1> USE DEF Foundation
<1>1. ASSUME NEW w \in Invocations, Begin(w) \/ Invoke(w) \/ Stop(w)
      PROVE  WorkersOK'
  <2>1. CASE worker' = worker
    BY <2>1 DEF WorkersOK
  <2>2. ASSUME NEW x, Turn(w, x) PROVE WorkersOK'
    BY <2>2 DEF Turn, WorkersOK, TypeOK
  <2> QED
    BY <1>1, <2>1, <2>2, InvocationTurns
<1>2. CASE UNCHANGED <<worker, touched>>
  BY <1>2 DEF WorkersOK
<1> QED
  BY <1>1, <1>2, Steps

\* A writer keeps its mode, goes from writing to writing, and ends done or
\* stopped; one that ended stays where it is.
LEMMA WritersGoOn ==
  ASSUME Foundation, NEW w \in Invocations, Begin(w) \/ Invoke(w) \/ Stop(w)
  PROVE  /\ \A v \in Invocations \ {w} : worker'[v] = worker[v]
         /\ worker[w].pc \notin Ended
         /\ worker[w].pc \in Writing =>
              /\ worker'[w].mode = worker[w].mode
              /\ worker'[w].pc \in Writing \cup {"done", "stopped"}
<1> USE DEF Foundation, Ended, Writing
<1>1. worker \in [Invocations -> WorkerType] /\ worker[w] \in WorkerType
      /\ Idle \in WorkerType
  BY FewAreSound DEF TypeOK, Idle, WorkerType, Pcs
<1>2. \A v \in Invocations \ {w} : worker'[v] = worker[v]
  BY <1>1, InvocationTurns DEF Turn
<1>3. ASSUME NEW pc \in Pcs, Exit(w, pc)
      PROVE  worker'[w].mode = worker[w].mode /\ worker'[w].pc = pc
  BY <1>1, <1>3 DEF Exit, WorkerType
<1>4. ASSUME NEW pc \in Pcs, Step(w, pc)
      PROVE  worker'[w].mode = worker[w].mode /\ worker'[w].pc = pc
  BY <1>1, <1>4 DEF Step, WorkerType
<1>5. CASE RemoveOutput(w)
  BY <1>2, <1>4, <1>5 DEF RemoveOutput, Pcs
<1>6. CASE Copy(w)
  <2>1. PICK n \in worker[w].uncopied :
          worker' = [worker EXCEPT
            ![w].pc = IF worker[w].uncopied = {n} THEN "provenance" ELSE "copy",
            ![w].uncopied = @ \ {n}]
    BY <1>6 DEF Copy
  <2>2. /\ worker'[w].mode = worker[w].mode
        /\ worker'[w].pc \in {"copy", "provenance"}
    BY <1>1, <2>1 DEF WorkerType
  <2> QED
    BY <1>2, <1>6, <2>2 DEF Copy
<1>7. CASE WriteProvenance(w)
  BY <1>2, <1>3, <1>7 DEF WriteProvenance, Pcs
<1>8. CASE Stop(w)
  BY <1>2, <1>3, <1>8 DEF Stop, Running, Pcs
<1>9. CASE worker[w].pc \in {"idle", "read", "stage", "spawn", "bind", "list", "compare"}
  BY <1>2, <1>9
<1> QED
  BY <1>5, <1>6, <1>7, <1>8, <1>9
  DEF Begin, Invoke, ReadProjection, Stage, Spawn, Bind, List, Compare

\* Every step keeps that only writers touched the tree.
LEMMA TouchedStep ==
  ASSUME Foundation, [Next]_vars
  PROVE  TouchedByWriters'
<1> USE DEF Foundation
<1>1. ASSUME NEW w \in Invocations, Begin(w) \/ Invoke(w) \/ Stop(w),
             NEW v \in touched'
      PROVE  /\ worker'[v].mode = "output"
             /\ worker'[v].pc \in Writing \cup {"done", "stopped"}
  <2>1. v \in touched \/ (v = w /\ worker[w].pc \in Writing)
    BY <1>1, InvocationEffect
    DEF TreeChanged, Deletes, Copies, Names, WriteProvenance, Writing
  <2>2. v \in Invocations
    BY <2>1 DEF TypeOK
  <2>3. CASE v # w
    BY <1>1, <2>1, <2>2, <2>3, WritersGoOn DEF TouchedByWriters
  <2>4. CASE v = w
    <3>1. worker[w].pc \in Writing
      BY <1>1, <2>1, <2>4, WritersGoOn DEF TouchedByWriters, Ended
    <3>2. worker[w].mode = "output"
      BY <3>1 DEF WorkersOK, WorkerOK
    <3> QED
      BY <1>1, <2>4, <3>1, <3>2, WritersGoOn
  <2> QED
    BY <2>3, <2>4
<1>2. CASE UNCHANGED <<worker, touched>>
  BY <1>2 DEF TouchedByWriters
<1> QED
  BY <1>1, <1>2, Steps DEF TouchedByWriters

\* The invariant is inductive.
LEMMA FoundationStep == Foundation /\ [Next]_vars => Foundation'
BY TypeStep, WorkersStep, TreeStep, TouchedStep DEF Foundation

\* The invariant holds of every reachable state.
LEMMA FoundationHolds == Spec => []Foundation
BY InitFoundation, FoundationStep, PTL DEF Spec

-----------------------------------------------------------------------------
(* Content and refusal *)

\* The state of the program has its types, in every reachable state.
THEOREM TypeCorrect == Spec => []TypeOK
<1>1. Foundation => TypeOK
  BY DEF Foundation
<1> QED
  BY <1>1, FoundationHolds, PTL

\* Only admitted projections of distinct families with distinct declarations
\* get into a file (validateProjection and the collision checks of
\* generateFromAdmittedProjections).
THEOREM AdmittedContent == Spec => []OnlyAdmittedContent
<1>1. Foundation => OnlyAdmittedContent
  BY DEF Foundation, TreeOK, Sound, AllAdmitted, Apart, OnlyAdmittedContent
<1> QED
  BY <1>1, FoundationHolds, PTL

\* Neither a refused invocation nor a check has changed the output tree.
THEOREM Refusal == Spec => []RefusalTouchesNothing
<1>1. Foundation => RefusalTouchesNothing
  BY DEF Foundation, TouchedByWriters, RefusalTouchesNothing, Writing
<1> QED
  BY <1>1, FoundationHolds, PTL

-----------------------------------------------------------------------------
(* One bundle at a time *)

\* Whoever writes alone has removed what was there: what is present is its own.
OwnBundle ==
  \A w \in Invocations : worker[w].pc \in {"copy", "provenance"} =>
    \A n \in Files : Present(n) => tree[n].inputs = worker[w].inputs

\* The files of the tree are of one bundle.
Uniform ==
  \A m, n \in Files : Present(m) /\ Present(n) => tree[m].inputs = tree[n].inputs

Alone == ~overlapped => Uniform /\ OwnBundle

Verdicts == {"compare", "current", "drift"}

\* An invocation copies into an empty directory, names what it has copied, and
\* gets to a verdict by listing and comparing only.
LEMMA Places ==
  ASSUME Foundation, NEW w \in Invocations, Begin(w) \/ Invoke(w) \/ Stop(w)
  PROVE  /\ worker'[w].pc \in {"copy", "provenance"} =>
              \/ \A n \in Files : ~Present(n)
              \/ worker[w].pc \in {"copy", "provenance"}
                 /\ worker'[w].inputs = worker[w].inputs
         /\ worker'[w].pc \in Verdicts => List(w) \/ Compare(w)
<1> USE DEF Foundation, Verdicts
<1>1. worker \in [Invocations -> WorkerType] /\ worker[w] \in WorkerType
      /\ Idle \in WorkerType
  BY FewAreSound DEF TypeOK, Idle, WorkerType, Pcs
<1>2. ASSUME NEW pc, Exit(w, pc) PROVE worker'[w].pc = pc
  BY <1>1, <1>2 DEF Exit, WorkerType
<1>3. ASSUME NEW pc, Step(w, pc)
      PROVE  worker'[w].pc = pc /\ worker'[w].inputs = worker[w].inputs
  BY <1>1, <1>3 DEF Step, WorkerType
<1>4. CASE Begin(w)
  <2>1. PICK args \in ArgLists, mode \in {"output", "check"} :
          worker' = [worker EXCEPT ![w].pc = "read", ![w].mode = mode, ![w].todo = args]
    BY <1>4, ModesAreModes DEF Begin
  <2>2. worker'[w].pc = "read"
    BY <1>1, <2>1 DEF WorkerType
  <2> QED
    BY <2>2
<1>5. CASE ReadProjection(w)
  <2> DEFINE f == Head(worker[w].todo)
             pc == IF Len(worker[w].todo) = 1 THEN "stage" ELSE "read"
             input == [family |-> f, file |-> source[f]]
  <2>1. CASE Exit(w, "refused")
    BY <1>2, <2>1
  <2>2. CASE worker' = [worker EXCEPT ![w].pc = pc, ![w].todo = Tail(@),
                                      ![w].inputs = Append(@, input)]
    <3>1. pc \in {"stage", "read"}
      OBVIOUS
    <3> HIDE DEF pc, input
    <3>2. worker'[w].pc = pc
      BY <1>1, <2>2 DEF WorkerType
    <3> QED
      BY <3>1, <3>2
  <2> QED
    BY <1>5, <2>1, <2>2 DEF ReadProjection
<1>6. CASE Stage(w)
  BY <1>1, <1>2, <1>6 DEF Stage, WorkerType
<1>7. CASE Spawn(w)
  <2> DEFINE pc == IF worker[w].mode = "output" THEN "remove" ELSE "bind"
             made == [generator |-> worker[w].staged, inputs |-> worker[w].inputs]
  <2>1. CASE Exit(w, "refused")
    BY <1>2, <2>1
  <2>2. CASE worker' = [worker EXCEPT ![w].pc = pc, ![w].made = made]
    <3>1. pc \in {"remove", "bind"}
      OBVIOUS
    <3> HIDE DEF pc, made
    <3>2. worker'[w].pc = pc
      BY <1>1, <2>2 DEF WorkerType
    <3> QED
      BY <3>1, <3>2
  <2> QED
    BY <1>7, <2>1, <2>2 DEF Spawn
<1>8. CASE RemoveOutput(w)
  BY <1>3, <1>8 DEF RemoveOutput
<1>9. CASE Copy(w)
  <2>1. PICK n \in worker[w].uncopied :
          worker' = [worker EXCEPT
            ![w].pc = IF worker[w].uncopied = {n} THEN "provenance" ELSE "copy",
            ![w].uncopied = @ \ {n}]
    BY <1>9 DEF Copy
  <2>2. /\ worker'[w].inputs = worker[w].inputs
        /\ worker'[w].pc \in {"copy", "provenance"}
    BY <1>1, <2>1 DEF WorkerType
  <2> QED
    BY <1>9, <2>2 DEF Copy
<1>10. CASE WriteProvenance(w)
  BY <1>2, <1>10 DEF WriteProvenance
<1>11. CASE Bind(w)
  BY <1>1, <1>11 DEF Bind, WorkerType
<1>12. CASE List(w)
  BY <1>3, <1>12 DEF List
<1>13. CASE Compare(w)
  BY <1>3, <1>13 DEF Compare
<1>14. CASE Stop(w)
  BY <1>2, <1>14 DEF Stop
<1> QED
  BY <1>4, <1>5, <1>6, <1>7, <1>8, <1>9, <1>10, <1>11, <1>12, <1>13, <1>14 DEF Invoke

\* A writer that nobody disturbs keeps the bundle in one piece.
LEMMA AloneStep ==
  ASSUME Foundation, Alone, [Next]_vars
  PROVE  Alone'
<1> SUFFICES ASSUME ~overlapped' PROVE Uniform' /\ OwnBundle'
  BY DEF Alone
<1> USE DEF Present
<1>1. tree \in [Files -> Content]
  BY DEF Foundation, TypeOK
<1>2. ASSUME NEW w \in Invocations, Begin(w) \/ Invoke(w) \/ Stop(w)
      PROVE  Uniform' /\ OwnBundle'
  <2>1. \A v \in Invocations \ {w} : worker'[v] = worker[v]
    BY <1>2, WritersGoOn
  <2>2. Uniform /\ OwnBundle
    BY <1>2, InvocationEffect DEF TreeChanged, Alone
  <2>3. CASE UNCHANGED <<tree, touched, overlapped>>
    <3>1. Uniform'
      BY <2>2, <2>3 DEF Uniform
    <3>2. ASSUME NEW v \in Invocations, worker'[v].pc \in {"copy", "provenance"},
                 NEW n \in Files, Present(n)
          PROVE  tree[n].inputs = worker'[v].inputs
      <4>1. CASE v # w
        BY <2>1, <2>2, <3>2, <4>1 DEF OwnBundle
      <4>2. CASE v = w
        BY <1>2, <2>2, <3>2, <4>2, Places DEF OwnBundle
      <4> QED
        BY <4>1, <4>2
    <3> QED
      BY <2>3, <3>1, <3>2 DEF OwnBundle
  <2>4. CASE TreeChanged(w) /\ (Deletes(w) \/ Copies(w) \/ Names(w))
    <3>1. \A v \in Invocations \ {w} : worker'[v].pc \notin Writing
      BY <2>1, <2>4 DEF TreeChanged
    <3>2. CASE Deletes(w)
      <4>1. \A n \in Files : tree'[n] \in {tree[n], Missing}
        BY <1>1, <3>2 DEF Deletes
      <4>2. Uniform'
        BY <2>2, <4>1 DEF Uniform
      <4>3. worker'[w].pc = "remove"
        BY <3>2 DEF Deletes
      <4> QED
        BY <3>1, <4>2, <4>3 DEF OwnBundle, Writing
    <3>3. CASE Copies(w)
      <4>1. worker[w].pc = "copy"
        BY <3>3 DEF Copies
      <4>2. worker[w].made.inputs = worker[w].inputs
        <5>1. WorkerOK(worker[w])
          BY DEF Foundation, WorkersOK
        <5> QED
          BY <4>1, <5>1 DEF WorkerOK, AfterSort, Writing
      <4>3. \A n \in Files : tree'[n] \in {tree[n], worker[w].made}
        BY <1>1, <3>3 DEF Copies
      <4>4. \A n \in Files : tree'[n] # Missing => tree'[n].inputs = worker[w].inputs
        BY <2>2, <4>1, <4>2, <4>3 DEF OwnBundle
      <4>5. worker'[w].inputs = worker[w].inputs
        BY <3>3 DEF Copies
      <4> QED
        BY <3>1, <4>4, <4>5 DEF OwnBundle, Uniform, Writing
    <3>4. CASE Names(w)
      <4>1. worker[w].pc = "provenance"
        BY <3>4 DEF Names, WriteProvenance
      <4>2. \A n \in Files : tree'[n] \in {tree[n], BuildProvenance(w)}
        BY <1>1, <3>4 DEF Names, WriteProvenance
      <4>3. \A n \in Files : tree'[n] # Missing => tree'[n].inputs = worker[w].inputs
        BY <2>2, <4>1, <4>2 DEF OwnBundle, BuildProvenance
      <4>4. worker'[w].pc = "done"
        BY <3>4 DEF Names, WriteProvenance, Exit, Idle, Foundation, TypeOK
      <4> QED
        BY <3>1, <4>3, <4>4 DEF OwnBundle, Uniform, Writing
    <3> QED
      BY <2>4, <3>2, <3>3, <3>4
  <2> QED
    BY <1>2, <2>3, <2>4, InvocationEffect
<1>3. CASE UNCHANGED <<tree, worker, overlapped>>
  BY <1>3 DEF Alone, Uniform, OwnBundle
<1> QED
  BY <1>2, <1>3 DEF Next, vars, EditProjection, EditTree, EditGenerator, TreeKept

\* Nobody writes at first, and the tree is absent or of one bundle.
LEMMA InitAlone == Init => Alone
<1> SUFFICES ASSUME Init PROVE Uniform /\ OwnBundle
  BY DEF Alone
<1>1. OwnBundle
  BY DEF Init, Idle, OwnBundle
<1>2. Uniform
  BY DEF Init, Uniform, Present
<1> QED
  BY <1>1, <1>2

\* The files of a tree belong together, whoever was stopped where, unless two
\* wrote at once or somebody put a file back (the order of rmSync, cpSync and
\* the provenance in generateFromAdmittedProjections).
THEOREM OneBundle == Spec => []NoMixedBundle
<1>1. Alone => NoMixedBundle
  BY DEF Alone, Uniform, NoMixedBundle
<1>2. Foundation /\ Alone /\ [Next]_vars => Alone'
  BY AloneStep
<1> QED
  BY <1>1, <1>2, InitAlone, FoundationHolds, PTL DEF Spec

-----------------------------------------------------------------------------
(* What a check says *)

FileSetsAgree == \A n \in Files : Present(n) <=> n \in Bundle

ContentsAgree(w) ==
  /\ \A n \in Languages : tree[n] = worker[w].made
  /\ tree[Provenance] = worker[w].bound

\* The tree is what this invocation would have written.
IsBundleOf(w) ==
  /\ Whole(worker[w].inputs, worker[w].staged)
  /\ tree[Provenance].generator = worker[w].bound.generator

\* As long as the tree stands still, what w found in it is so.
VerdictStands ==
  \A w \in Invocations \ moved :
    /\ worker[w].pc \in {"compare", "current"} => FileSetsAgree
    /\ worker[w].pc = "current" => ContentsAgree(w)
    /\ worker[w].pc = "drift" => ~IsBundleOf(w)

\* A whole bundle of the same inputs agrees to the last file: the inputs are
\* sorted on both sides.
LEMMA WholeAgrees ==
  ASSUME Foundation, NEW w \in Invocations, worker[w].pc = "compare", IsBundleOf(w)
  PROVE  ContentsAgree(w)
<1> USE DEF Foundation
<1> DEFINE me == worker[w]
<1>1. /\ me.inputs \in Seq(Input) /\ me.made \in Content /\ me.bound \in Content
      /\ WorkerOK(me)
  BY WorkerFields DEF WorkersOK
<1>2. /\ Sorted(me.inputs) /\ me.bound.inputs = me.inputs
      /\ me.made = [generator |-> me.staged, inputs |-> me.inputs]
  BY <1>1 DEF WorkerOK, AfterSort, AfterList, Sound
<1>3. Languages \subseteq Bundle /\ Provenance \in Bundle /\ Bundle \subseteq Files
  BY DEF Bundle, Files
<1>4. ASSUME NEW n \in Bundle
      PROVE  tree[n] = [generator |-> tree[n].generator, inputs |-> me.inputs]
  <2>1. tree[n] \in Content /\ Sorted(tree[n].inputs)
    BY <1>3 DEF TypeOK, TreeOK, Sound
  <2>2. tree[n].inputs \in Seq(Input)
    BY <2>1 DEF Content
  <2>3. Range(tree[n].inputs) = Range(me.inputs)
    BY DEF IsBundleOf, Whole
  <2>4. tree[n].inputs = me.inputs
    BY <1>1, <1>2, <2>1, <2>2, <2>3, SortedIsUnique
  <2> QED
    BY <2>1, <2>4 DEF Content
<1>5. \A n \in Languages : tree[n] = me.made
  BY <1>2, <1>3, <1>4 DEF IsBundleOf, Whole
<1>6. tree[Provenance] = me.bound
  <2>1. tree[Provenance] = [generator |-> tree[Provenance].generator, inputs |-> me.inputs]
    BY <1>3, <1>4
  <2>2. me.bound = [generator |-> me.bound.generator, inputs |-> me.inputs]
    BY <1>1, <1>2 DEF Content
  <2>3. tree[Provenance].generator = me.bound.generator
    BY DEF IsBundleOf
  <2> QED
    BY <2>1, <2>2, <2>3
<1> QED
  BY <1>5, <1>6 DEF ContentsAgree

\* A verdict is reached on the tree as it is, and every change ends it.
LEMMA VerdictStep ==
  ASSUME Foundation, VerdictStands, [Next]_vars
  PROVE  VerdictStands'
<1> USE DEF Foundation
<1>1. worker \in [Invocations -> WorkerType]
  BY DEF TypeOK
<1>2. ASSUME NEW w \in Invocations, Begin(w) \/ Invoke(w) \/ Stop(w)
      PROVE  VerdictStands'
  <2>1. CASE moved' = Invocations
    BY <2>1 DEF VerdictStands
  <2>2. CASE UNCHANGED tree /\ moved' \in {moved, moved \ {w}}
    <3>1. FileSetsAgree' = FileSetsAgree
      BY <2>2 DEF FileSetsAgree, Present
    <3>2. ASSUME NEW v \in Invocations, worker'[v] = worker[v], v \notin moved
          PROVE  /\ worker'[v].pc \in {"compare", "current"} => FileSetsAgree'
                 /\ worker'[v].pc = "current" => ContentsAgree(v)'
                 /\ worker'[v].pc = "drift" => ~IsBundleOf(v)'
      <4>1. (ContentsAgree(v)' <=> ContentsAgree(v)) /\ (IsBundleOf(v)' <=> IsBundleOf(v))
        BY <2>2, <3>2 DEF ContentsAgree, IsBundleOf, Whole, Present
      <4> QED
        BY <3>1, <3>2, <4>1 DEF VerdictStands
    <3>3. ASSUME worker'[w].pc \in Verdicts, w \notin moved'
          PROVE  /\ worker'[w].pc \in {"compare", "current"} => FileSetsAgree'
                 /\ worker'[w].pc = "current" => ContentsAgree(w)'
                 /\ worker'[w].pc = "drift" => ~IsBundleOf(w)'
      <4>1. CASE List(w)
        <5>1. worker'[w].pc = IF FileSetsAgree THEN "compare" ELSE "drift"
          BY <1>1, <4>1 DEF List, Step, FileSetsAgree, WorkerType
        <5>2. ~FileSetsAgree => ~IsBundleOf(w)'
          BY <2>2 DEF FileSetsAgree, IsBundleOf, Whole, Present
        <5> QED
          BY <3>1, <5>1, <5>2
      <4>2. CASE Compare(w)
        <5>1. worker[w].pc = "compare" /\ moved' = moved
          BY <4>2 DEF Compare, TreeKept
        <5>2. FileSetsAgree
          BY <3>3, <5>1 DEF VerdictStands
        <5>3. worker'[w] = [worker[w] EXCEPT
                             !.pc = IF ContentsAgree(w) THEN "current" ELSE "drift"]
          BY <1>1, <4>2 DEF Compare, Step, ContentsAgree
        <5>4. worker'[w].pc = IF ContentsAgree(w) THEN "current" ELSE "drift"
          BY <1>1, <5>3 DEF WorkerType
        <5>5. /\ worker'[w].inputs = worker[w].inputs
              /\ worker'[w].staged = worker[w].staged
              /\ worker'[w].made = worker[w].made
              /\ worker'[w].bound = worker[w].bound
          BY <1>1, <5>3 DEF WorkerType
        <5>6. (ContentsAgree(w)' <=> ContentsAgree(w)) /\ (IsBundleOf(w)' <=> IsBundleOf(w))
          BY <2>2, <5>5 DEF ContentsAgree, IsBundleOf, Whole, Present
        <5>7. ~ContentsAgree(w) => ~IsBundleOf(w)
          BY <5>1, WholeAgrees
        <5> QED
          BY <3>1, <5>2, <5>4, <5>6, <5>7
      <4> QED
        BY <1>2, <3>3, <4>1, <4>2, Places
    <3>4. ASSUME NEW v \in Invocations \ moved'
          PROVE  /\ worker'[v].pc \in {"compare", "current"} => FileSetsAgree'
                 /\ worker'[v].pc = "current" => ContentsAgree(v)'
                 /\ worker'[v].pc = "drift" => ~IsBundleOf(v)'
      <4>1. CASE v = w
        BY <3>3, <3>4, <4>1 DEF Verdicts
      <4>2. CASE v # w
        BY <1>2, <2>2, <3>2, <3>4, <4>2, WritersGoOn
      <4> QED
        BY <4>1, <4>2
    <3> QED
      BY <3>4 DEF VerdictStands
  <2> QED
    BY <1>2, <2>1, <2>2, InvocationEffect DEF TreeChanged
<1>3. CASE moved' = Invocations
  BY <1>3 DEF VerdictStands
<1>4. CASE UNCHANGED <<tree, worker, moved>>
  BY <1>4 DEF VerdictStands, FileSetsAgree, ContentsAgree, IsBundleOf, Whole, Present
<1> QED
  BY <1>2, <1>3, <1>4 DEF Next, vars, EditProjection, EditTree, EditGenerator, TreeKept

\* Nobody has a verdict at first.
LEMMA InitVerdict == Init => VerdictStands
BY DEF Init, Idle, VerdictStands

\* What was found in the tree is so while it stands still.
LEMMA VerdictHolds == Spec => []VerdictStands
BY FoundationHolds, InitVerdict, VerdictStep, PTL DEF Spec

\* A bundle that passes --check is whole, however many invocations wrote at
\* once and succeeded before, and if the generator stood still
\* during the check it is the one the provenance names (compareTrees, and
\* buildProvenance's second reading of the generator).
THEOREM PassedIsWhole == Spec => []CurrentIsWhole
<1>1. ASSUME Foundation, VerdictStands PROVE CurrentIsWhole
  <2> SUFFICES ASSUME NEW w \in Invocations, worker[w].pc = "current", w \notin moved
               PROVE  /\ Whole(worker[w].inputs, worker[w].staged)
                      /\ worker[w].bound.generator = worker[w].staged =>
                           tree[Provenance].generator = worker[w].staged
    BY DEF CurrentIsWhole
  <2> USE <1>1
  <2>1. FileSetsAgree /\ ContentsAgree(w)
    BY DEF VerdictStands
  <2>2. WorkerOK(worker[w])
    BY DEF Foundation, WorkersOK
  <2>3. /\ worker[w].made = [generator |-> worker[w].staged, inputs |-> worker[w].inputs]
        /\ worker[w].bound.inputs = worker[w].inputs
    BY <2>2 DEF WorkerOK, AfterSort, AfterList
  <2>4. \A n \in Bundle : tree[n].inputs = worker[w].inputs
    BY <2>1, <2>3 DEF ContentsAgree, Bundle
  <2>5. \A n \in Languages : tree[n].generator = worker[w].staged
    BY <2>1, <2>3 DEF ContentsAgree
  <2> QED
    BY <2>1, <2>4, <2>5 DEF Whole, FileSetsAgree, ContentsAgree
<1> QED
  BY <1>1, FoundationHolds, VerdictHolds, PTL

\* --check does not reject the bundle that this generator makes of these
\* projections, in whatever order they were given (inputs.sort).
THEOREM RejectedHasDrifted == Spec => []DriftIsReal
<1>1. VerdictStands => DriftIsReal
  BY DEF VerdictStands, DriftIsReal, IsBundleOf
<1> QED
  BY <1>1, VerdictHolds, PTL
===============================================================================
