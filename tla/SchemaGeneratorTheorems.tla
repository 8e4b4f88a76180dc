---------------------- MODULE SchemaGeneratorTheorems ----------------------
(***************************************************************************)
(* Proofs about SchemaGenerator, for all schemas, contracts, edits and     *)
(* stops.                                                                  *)
(***************************************************************************)
EXTENDS SchemaGenerator, SequenceTheorems, WellFoundedInduction, TLAPS

-----------------------------------------------------------------------------
(* Conversions *)

\* The pieces of a field name, one by one.
LEMMA FieldPiece ==
  ASSUME NEW n \in Names, FieldName(n), NEW i \in 1..Len(n)
  PROVE  /\ n[i] \in Pieces
         /\ n[i].sep \in {"none", "underscore"}
         /\ i = 1 => n[i].sep = "none" /\ n[i].cap = "lower" /\ n[i].stem \in Letters
         /\ n[i].sep = "underscore" => n[i].cap = "lower"
         /\ n[i].stem \notin Digits => n[i].stem \in Letters
         /\ n[i].cap \in {"lower", "first", "all"}
<1>1. n[i] \in Pieces
  BY DEF Names
<1>2. /\ n[i].stem \notin Digits => n[i].stem \in Letters
      /\ n[i].cap \in {"lower", "first", "all"}
  BY <1>1 DEF Pieces
<1>3. /\ n[i].sep \in {"none", "underscore"}
      /\ n[i].sep = "underscore" => n[i].cap = "lower"
  BY DEF FieldName
<1>4. i = 1 => n[i].sep = "none" /\ n[i].cap = "lower" /\ n[i].stem \in Letters
  BY DEF FieldName
<1> QED BY <1>1, <1>2, <1>3, <1>4

\* What camel and pascal make of a piece behind the first is the same.
LEMMA CamelPiece ==
  ASSUME NEW n \in Names, FieldName(n), NEW i \in 1..Len(n)
  PROVE  /\ i > 1 => Camel(n)[i] = Joined(n)[i]
         /\ i = 1 => Camel(n)[i] = [stem |-> Joined(n)[i].stem, cap |-> "lower", sep |-> "none"]
<1>0. n \in Seq(Pieces) /\ i \in Nat
  BY DEF Names
<1>1. /\ n[i] \in Pieces /\ n[i].sep \in {"none", "underscore"}
      /\ i = 1 => n[i].sep = "none" /\ n[i].cap = "lower"
      /\ n[i].sep = "underscore" => n[i].cap = "lower"
  BY FieldPiece
<1>2. n[i] = [stem |-> n[i].stem, cap |-> n[i].cap, sep |-> n[i].sep]
  BY <1>1 DEF Pieces
<1>3. Camel(n)[i] = IF n[i].sep \in {"underscore", "dash"} /\ n[i].cap = "lower"
                    THEN [stem |-> n[i].stem, cap |-> Raise(n[i]), sep |-> "none"]
                    ELSE n[i]
  BY DEF Camel, Word
<1>4. Joined(n)[i] = [n[i] EXCEPT !.sep = "none",
                                  !.cap = IF i = 1 \/ n[i].sep # "none"
                                          THEN Raise(n[i]) ELSE n[i].cap]
  BY DEF Joined
<1> DEFINE cap == IF i = 1 \/ n[i].sep # "none" THEN Raise(n[i]) ELSE n[i].cap
<1>5. Joined(n)[i] = [stem |-> n[i].stem, cap |-> cap, sep |-> "none"]
  BY <1>2, <1>4
<1>c. /\ i > 1 /\ n[i].sep = "none" => cap = n[i].cap
      /\ n[i].sep = "underscore" => cap = Raise(n[i])
  BY <1>0
<1> HIDE DEF cap
<1>6. CASE n[i].sep = "none"
  <2>1. Camel(n)[i] = [stem |-> n[i].stem, cap |-> n[i].cap, sep |-> "none"]
    BY <1>2, <1>3, <1>6
  <2>2. i > 1 => Joined(n)[i] = [stem |-> n[i].stem, cap |-> n[i].cap, sep |-> "none"]
    BY <1>5, <1>6, <1>c
  <2>3. Joined(n)[i].stem = n[i].stem
    BY <1>0, <1>5
  <2> QED BY <1>1, <2>1, <2>2, <2>3
<1>7. CASE n[i].sep = "underscore"
  BY <1>1, <1>2, <1>3, <1>5, <1>7, <1>c
<1> QED BY <1>1, <1>6, <1>7

\* Field names that pascal cannot tell apart, camel cannot either: the Dart
\* emitter refuses whatever the Go emitter would declare twice.
LEMMA PascalImpliesCamel ==
  ASSUME NEW m \in Names, FieldName(m), NEW n \in Names, FieldName(n),
         Pascal(m) = Pascal(n)
  PROVE  Camel(m) = Camel(n)
<1>1. /\ m \in Seq(Pieces) /\ n \in Seq(Pieces)
      /\ Len(m) \in Nat \ {0} /\ Len(n) \in Nat \ {0}
  BY EmptySeq DEF Names, FieldName
<1>2. Pascal(m) = Joined(m) /\ Pascal(n) = Joined(n)
  BY <1>1, SymbolsAssumption DEF Pascal, FieldName
<1>3. Len(m) = Len(n)
  <2>1. DOMAIN Joined(m) = 1..Len(m) /\ DOMAIN Joined(n) = 1..Len(n)
    BY DEF Joined
  <2>2. 1..Len(m) = 1..Len(n)
    BY <1>2, <2>1
  <2>3. Len(m) \in 1..Len(n) /\ Len(n) \in 1..Len(m)
    BY <1>1, <2>2
  <2> QED BY <1>1, <2>3
<1>4. ASSUME NEW i \in 1..Len(m)
      PROVE  Camel(m)[i] = Camel(n)[i]
  <2>1. Joined(m)[i] = Joined(n)[i]
    BY <1>2
  <2>2. CASE i = 1
    BY <1>3, <1>4, <2>1, <2>2, CamelPiece
  <2>3. CASE i > 1
    BY <1>3, <1>4, <2>1, <2>3, CamelPiece
  <2> QED BY <1>1, <1>4, <2>2, <2>3
<1> QED BY <1>1, <1>3, <1>4 DEF Camel

\* The same for a piece and the Rust conversion: a field name without acronyms
\* is read back from its snake form.
LEMMA SnakePiece ==
  ASSUME NEW n \in Names, FieldName(n), ~Acronym(n), NEW i \in 1..Len(n)
  PROVE  Camel(n)[i] = [stem |-> Snake(n)[i].stem,
                        cap |-> IF Snake(n)[i].sep = "underscore"
                                   /\ Snake(n)[i].stem \notin Digits
                                THEN "first" ELSE "lower",
                        sep |-> "none"]
<1>0. n \in Seq(Pieces) /\ i \in Nat
  BY DEF Names
<1>1. /\ n[i] \in Pieces /\ n[i].sep \in {"none", "underscore"}
      /\ i = 1 => n[i].sep = "none" /\ n[i].cap = "lower"
      /\ n[i].sep = "underscore" => n[i].cap = "lower"
      /\ n[i].cap \in {"lower", "first", "all"}
  BY FieldPiece
<1>2. n[i] = [stem |-> n[i].stem, cap |-> n[i].cap, sep |-> n[i].sep]
  BY <1>1 DEF Pieces
<1>3. Camel(n)[i] = IF n[i].sep \in {"underscore", "dash"} /\ n[i].cap = "lower"
                    THEN [stem |-> n[i].stem, cap |-> Raise(n[i]), sep |-> "none"]
                    ELSE n[i]
  BY DEF Camel, Word
<1>4. n[i].cap \in {"lower", "first"} /\ (i > 1 => n[i - 1].cap # "all")
  BY <1>0, <1>1 DEF Acronym
<1>5. /\ Snake(n)[i].stem = n[i].stem
      /\ Snake(n)[i].sep = IF i > 1 /\ n[i].sep = "none" /\ n[i].cap # "lower"
                           THEN "underscore" ELSE n[i].sep
  BY <1>0, <1>2, <1>4 DEF Snake
<1>6. n[i].stem \in Digits => n[i].cap = "lower"
  BY <1>1, SymbolsAssumption DEF Pieces
<1>7. Raise(n[i]) = IF n[i].stem \in Digits \/ n[i].cap # "lower" THEN n[i].cap ELSE "first"
  BY DEF Raise
<1>8. CASE n[i].sep = "underscore"
  <2>1. Camel(n)[i] = [stem |-> n[i].stem, cap |-> Raise(n[i]), sep |-> "none"]
    BY <1>1, <1>3, <1>8
  <2>2. Raise(n[i]) = IF n[i].stem \notin Digits THEN "first" ELSE "lower"
    BY <1>1, <1>7, <1>8
  <2>3. Snake(n)[i].sep = "underscore"
    BY <1>1, <1>5, <1>8
  <2> QED BY <1>5, <2>1, <2>2, <2>3
<1>9. CASE n[i].sep = "none"
  <2>1. Camel(n)[i] = [stem |-> n[i].stem, cap |-> n[i].cap, sep |-> "none"]
    BY <1>2, <1>3, <1>9
  <2>2. CASE n[i].cap = "lower"
    <3>1. Snake(n)[i].sep = "none"
      BY <1>5, <1>9, <2>2
    <3> QED BY <1>5, <2>1, <2>2, <3>1
  <2>3. CASE n[i].cap = "first"
    <3>1. Snake(n)[i].sep = "underscore" /\ n[i].stem \notin Digits
      BY <1>0, <1>1, <1>5, <1>6, <1>9, <2>3
    <3> QED BY <1>5, <2>1, <2>3, <3>1
  <2> QED BY <1>4, <2>2, <2>3
<1> QED BY <1>1, <1>8, <1>9

\* Without acronyms, the Dart emitter refuses whatever the Rust emitter would
\* declare twice.
LEMMA SnakeImpliesCamel ==
  ASSUME NEW m \in Names, FieldName(m), ~Acronym(m),
         NEW n \in Names, FieldName(n), ~Acronym(n),
         Snake(m) = Snake(n)
  PROVE  Camel(m) = Camel(n)
<1>1. Len(m) \in Nat \ {0} /\ Len(n) \in Nat \ {0}
  BY EmptySeq DEF Names, FieldName
<1>2. Len(m) = Len(n)
  <2>1. DOMAIN Snake(m) = 1..Len(m) /\ DOMAIN Snake(n) = 1..Len(n)
    BY DEF Snake
  <2>2. Len(m) \in 1..Len(n) /\ Len(n) \in 1..Len(m)
    BY <1>1, <2>1
  <2> QED BY <1>1, <2>2
<1>3. ASSUME NEW i \in 1..Len(m)
      PROVE  Camel(m)[i] = Camel(n)[i]
  BY <1>2, SnakePiece
<1> QED BY <1>2, <1>3 DEF Camel

-----------------------------------------------------------------------------
(* Types *)

\* TypeOK in three parts: the files, the process, the rest.
FilesOK ==
  /\ contract \in Contracts
  /\ \A f \in SchemaFiles : schema[f] = NoDocument \/ schema[f] \in Seq(Types)
  /\ DOMAIN schema = SchemaFiles /\ DOMAIN tree = Outputs
  /\ \A f \in Outputs :
       tree[f].kind = "adapter" => tree[f].types \in Seq(Types)

LocalOK ==
  /\ command \in [npm : BOOLEAN, check : BOOLEAN]
  /\ pc \in Ended \cup {"project", "projection", "load", "output"}
  /\ at \in 1..(IF pc = "output" THEN Len(Adapters) ELSE Len(Index))
  /\ loaded \in Seq(Types)
  /\ drift \in 0..(IF pc = "output" THEN at - 1 ELSE 0)

RestOK ==
  /\ commands \in 0..MaxCommands /\ edits \in 0..MaxEdits
  /\ DOMAIN before = Outputs /\ edited \in BOOLEAN

LEMMA TypeParts == TypeOK <=> FilesOK /\ LocalOK /\ RestOK
BY DEF TypeOK, FilesOK, LocalOK, RestOK

\* There is a first schema file and a first adapter.
LEMMA Sizes ==
  /\ Len(Index) \in Nat \ {0} /\ Len(Adapters) \in Nat \ {0}
  /\ \A i \in 1..Len(Index) : Index[i] \in SchemaFiles
  /\ \A i \in 1..Len(Adapters) : Adapters[i] \in Outputs
BY GeneratorAssumption, EmptySeq DEF SchemaFiles, Outputs

\* A projection is a document: inlining replaces references by vocabularies.
LEMMA ProjectionType ==
  ASSUME NEW c \in Contracts, ContractAccepted(c)
  PROVE  Projection(c) \in Seq(Types)
<1>1. c.types \in Seq(Types) /\ \A e \in DOMAIN c.enums : c.enums[e] \in Seq(Names)
  BY GeneratorAssumption
<1>2. ASSUME NEW t \in 1..Len(c.types)
      PROVE  Inlined(c, c.types[t]) \in Types
  <2> DEFINE type == c.types[t]
             InlinedProp(i) == IF type.props[i].ref = <<>> THEN type.props[i]
                               ELSE [type.props[i] EXCEPT
                                       !.values = c.enums[type.props[i].ref],
                                       !.ref = <<>>]
  <2>0. type \in Types
    BY <1>1
  <2> HIDE DEF type
  <2>1. type.props \in Seq(Props)
    BY <2>0 DEF Types
  <2>2. ASSUME NEW i \in 1..Len(type.props)
        PROVE  InlinedProp(i) \in Props
    <3>1. type.props[i] \in Props
      BY <2>1
    <3>2. type.props[i].ref = <<>> \/ c.enums[type.props[i].ref] \in Seq(Names)
      BY <1>1, <2>2 DEF type, ContractAccepted
    <3>3. <<>> \in Names
      BY DEF Names
    <3> QED BY <3>1, <3>2, <3>3 DEF Props
  <2>4. Inlined(c, type) = [type EXCEPT !.props =
                              [i \in 1..Len(type.props) |-> InlinedProp(i)]]
    BY DEF Inlined
  <2> HIDE DEF InlinedProp
  <2>3. [i \in 1..Len(type.props) |-> InlinedProp(i)] \in Seq(Props)
    BY <2>1, <2>2
  <2> QED BY <2>0, <2>3, <2>4 DEF type, Types
<1> QED BY <1>1, <1>2 DEF Projection

\* A process that ends forgets what it read.
LEMMA FinishType ==
  ASSUME LocalOK, NEW outcome \in Ended, Finish(outcome)
  PROVE  LocalOK'
BY Sizes DEF LocalOK, Finish, Ended

LEMMA GotoType ==
  ASSUME LocalOK, pc # "output",
         NEW label \in {"projection", "load", "output"},
         NEW types \in Seq(Types), Goto(label, types)
  PROVE  LocalOK'
BY Sizes DEF LocalOK, Goto

LEMMA InitType == Init => TypeOK
<1> SUFFICES ASSUME Init PROVE TypeOK
  OBVIOUS
<1>1. LocalOK
  BY Sizes DEF Init, LocalOK, Ended
<1>2. ASSUME NEW f \in SchemaFiles
      PROVE  schema[f] = NoDocument \/ schema[f] \in Seq(Types)
  <2>1. schema[f] \in Documents \cup Projections
    BY DEF Init
  <2> QED BY <2>1, ProjectionType, GeneratorAssumption DEF Projections
<1>3. FilesOK
  BY <1>2 DEF Init, FilesOK, Absent
<1>4. RestOK
  <2>1. DOMAIN before = Outputs /\ edited \in BOOLEAN
    BY DEF Init
  <2>2. commands \in 0..MaxCommands /\ edits \in 0..MaxEdits
    BY GeneratorAssumption DEF Init
  <2> QED BY <2>1, <2>2 DEF RestOK
<1> QED BY <1>1, <1>3, <1>4, TypeParts

\* What the actions do to the types: one step per action, one per part.
LEMMA StepType == TypeOK /\ [Next]_vars => TypeOK'
<1> SUFFICES ASSUME FilesOK, LocalOK, RestOK, [Next]_vars
             PROVE  FilesOK' /\ LocalOK' /\ RestOK'
  BY TypeParts DEF TypeOK, FilesOK, LocalOK, RestOK
<1>0. ASSUME Kept PROVE RestOK'
  BY <1>0 DEF Kept, RestOK
<1>f. ASSUME UNCHANGED files PROVE FilesOK'
  BY <1>f DEF files, FilesOK
<1>e. <<>> \in Seq(Types)
  OBVIOUS
<1>1. CASE Begin
  <2>1. command' \in [npm : BOOLEAN, check : BOOLEAN] /\ pc' \in {"project", "load"}
    BY <1>1 DEF Begin
  <2>2. at' = 1 /\ loaded' = <<>> /\ drift' = 0
    BY <1>1 DEF Begin
  <2>3. LocalOK'
    BY <2>1, <2>2, Sizes DEF LocalOK
  <2>4. FilesOK'
    BY <1>1 DEF Begin, FilesOK
  <2>5. commands' \in 0..MaxCommands /\ edits' \in 0..MaxEdits
    BY <1>1, GeneratorAssumption DEF Begin, RestOK
  <2>6. DOMAIN before' = Outputs /\ edited' \in BOOLEAN
    BY <1>1 DEF Begin, FilesOK
  <2> QED BY <2>3, <2>4, <2>5, <2>6 DEF RestOK
<1>2. CASE ReadContract
  <2>1. CASE ContractAccepted(contract)
    BY <1>2, <2>1, <1>0, <1>f, GotoType, ProjectionType DEF ReadContract, FilesOK
  <2>2. CASE ~ContractAccepted(contract)
    BY <1>2, <2>2, <1>0, <1>f, FinishType DEF ReadContract, Ended
  <2> QED BY <2>1, <2>2
<1>3. CASE WriteProjection
  <2>1. LocalOK'
    BY <1>3, <1>e, GotoType DEF WriteProjection
  <2>2. FilesOK'
    BY <1>3 DEF WriteProjection, FilesOK, LocalOK
  <2> QED BY <1>0, <1>3, <2>1, <2>2 DEF WriteProjection
<1>4. CASE CheckProjection
  <2>1. CASE Goto("load", <<>>)
    BY <1>4, <1>e, <2>1, <1>0, <1>f, GotoType DEF CheckProjection
  <2>2. CASE Finish("stale")
    BY <1>4, <2>2, <1>0, <1>f, FinishType DEF CheckProjection, Ended
  <2> QED BY <1>4, <2>1, <2>2 DEF CheckProjection
<1>5. CASE ReadSchema
  <2> DEFINE document == schema[Index[at]]
             types == loaded \o document
  <2>1. CASE ~DocumentAccepted(loaded, document)
    BY <1>5, <2>1, <1>0, <1>f, FinishType DEF ReadSchema, Ended
  <2>2. CASE DocumentAccepted(loaded, document)
    <3>0. pc = "load" /\ at \in 1..Len(Index)
      BY <1>5 DEF ReadSchema, LocalOK
    <3>1. document \in Seq(Types)
      BY <2>2, <3>0, Sizes DEF FilesOK, DocumentAccepted
    <3>2. types \in Seq(Types)
      BY <3>1, ConcatProperties DEF LocalOK
    <3>3. CASE at < Len(Index)
      <4>1. at' = at + 1 /\ loaded' = types /\ UNCHANGED <<command, pc, drift>>
        BY <1>5, <2>2, <3>3 DEF ReadSchema
      <4>2. LocalOK'
        BY <3>0, <3>2, <3>3, <4>1, Sizes DEF LocalOK
      <4> QED BY <1>0, <1>f, <1>5, <4>2 DEF ReadSchema
    <3>4. CASE ~(at < Len(Index))
      <4>1. Goto("output", types) \/ Finish("refused")
        BY <1>5, <2>2, <3>4 DEF ReadSchema
      <4>2. LocalOK'
        BY <3>0, <3>2, <4>1, GotoType, FinishType DEF Ended
      <4> QED BY <1>0, <1>f, <1>5, <4>2 DEF ReadSchema
    <3> QED BY <3>3, <3>4
  <2> QED BY <2>1, <2>2
<1>6. CASE WriteFile
  <2>0. pc = "output" /\ at \in 1..Len(Adapters) /\ Adapters[at] \in Outputs
    BY <1>6, Sizes DEF WriteFile, LocalOK
  <2>1. ASSUME at < Len(Adapters) PROVE LocalOK'
    <3>1. at' = at + 1 /\ UNCHANGED <<command, pc, loaded, drift>>
      BY <1>6, <2>1 DEF WriteFile
    <3> QED BY <2>0, <2>1, <3>1, Sizes DEF LocalOK
  <2>2. ASSUME ~(at < Len(Adapters)) PROVE LocalOK'
    BY <1>6, <2>2, FinishType DEF WriteFile, Ended
  <2>3. \A f \in Outputs : tree'[f].kind = "adapter" => tree'[f].types \in Seq(Types)
    BY <1>6, <2>0 DEF WriteFile, FilesOK, LocalOK, Emitted
  <2>4. FilesOK'
    BY <1>6, <2>3 DEF WriteFile, FilesOK
  <2> QED BY <1>0, <1>6, <2>1, <2>2, <2>4 DEF WriteFile
<1>7. CASE CheckFile
  <2>0. pc = "output" /\ at \in 1..Len(Adapters) /\ drift \in 0..(at - 1)
    BY <1>7 DEF CheckFile, LocalOK
  <2>1. CASE at < Len(Adapters)
    <3>1. /\ at' = at + 1 /\ drift' \in {drift, drift + 1}
          /\ UNCHANGED <<command, pc, loaded>>
      BY <1>7, <2>1 DEF CheckFile
    <3>2. LocalOK'
      BY <2>0, <2>1, <3>1, Sizes DEF LocalOK
    <3> QED BY <1>0, <1>f, <1>7, <3>2 DEF CheckFile
  <2>2. CASE ~(at < Len(Adapters))
    <3>1. Finish("drift") \/ Finish("succeeded")
      BY <1>7, <2>2 DEF CheckFile
    <3>2. LocalOK'
      BY <3>1, FinishType DEF Ended
    <3> QED BY <1>0, <1>f, <1>7, <3>2 DEF CheckFile
  <2> QED BY <2>1, <2>2
<1>8. CASE Stop
  <2>1. LocalOK'
    BY <1>8, FinishType DEF Stop, Ended
  <2>2. FilesOK'
    <3>1. UNCHANGED contract
      BY <1>8 DEF Stop
    <3>2. CASE UNCHANGED <<schema, tree>>
      BY <3>1, <3>2 DEF FilesOK
    <3>3. CASE /\ schema' = [schema EXCEPT ![Projected] = NoDocument]
               /\ UNCHANGED tree
      BY <3>1, <3>3 DEF FilesOK
    <3>4. CASE /\ pc = "output"
               /\ tree' = [tree EXCEPT ![Adapters[at]] = Torn]
               /\ UNCHANGED schema
      BY <3>1, <3>4 DEF FilesOK, Torn
    <3> QED BY <1>8, <3>2, <3>3, <3>4 DEF Stop
  <2> QED BY <1>0, <1>8, <2>1, <2>2 DEF Stop
<1>9. CASE Edit
  <2>1. LocalOK'
    BY <1>9 DEF Edit, local, LocalOK
  <2>2. FilesOK'
    <3>1. CASE contract' \in Contracts \ {contract} /\ UNCHANGED <<schema, tree>>
      BY <3>1 DEF FilesOK
    <3>2. CASE /\ \E f \in SchemaFiles, d \in Revisions :
                    schema' = [schema EXCEPT ![f] = d]
               /\ UNCHANGED <<contract, tree>>
      BY <3>2, GeneratorAssumption DEF FilesOK
    <3>3. CASE /\ \E f \in Outputs, content \in {Absent, Torn} :
                    tree' = [tree EXCEPT ![f] = content]
               /\ UNCHANGED <<contract, schema>>
      BY <3>3 DEF FilesOK, Absent, Torn
    <3> QED BY <1>9, <3>1, <3>2, <3>3 DEF Edit
  <2>3. DOMAIN before' = Outputs /\ edited' \in BOOLEAN
    BY <1>9 DEF Edit, RestOK
  <2>4. commands' \in 0..MaxCommands /\ edits' \in 0..MaxEdits
    BY <1>9, GeneratorAssumption DEF Edit, RestOK
  <2> QED BY <2>1, <2>2, <2>3, <2>4 DEF RestOK
<1>10. CASE UNCHANGED vars
  BY <1>10 DEF vars, FilesOK, LocalOK, RestOK
<1> QED BY <1>1, <1>2, <1>3, <1>4, <1>5, <1>6, <1>7, <1>8, <1>9, <1>10 DEF Next, CommandStep

\* Type correctness of the model.
THEOREM TypeCorrect == Spec => []TypeOK
BY InitType, StepType, PTL DEF Spec

-----------------------------------------------------------------------------
(* What reaches the tree has been vetted *)

Named(types) ==
  \A t \in 1..Len(types) : \A i \in 1..Len(types[t].props) :
     FieldName(types[t].props[i].name)

Vetted(types) ==
  Named(types) /\ \A t \in 1..Len(types) : DartFieldsAccepted(types[t])

\* The property alone is not inductive: what is written is what was loaded, so
\* the types in memory have to be vetted as far as the process has come.
VettedInv ==
  /\ \A f \in Outputs : tree[f].kind = "adapter" => Vetted(tree[f].types)
  /\ pc = "load" => Named(loaded)
  /\ pc = "output" => Vetted(loaded)

\* Vetted types have distinct Go fields: emitDart looked for emitGo.
LEMMA VettedGo ==
  ASSUME NEW types \in Seq(Types), Vetted(types), NEW t \in 1..Len(types),
         NEW i \in 1..Len(types[t].props), NEW j \in 1..Len(types[t].props),
         Pascal(types[t].props[i].name) = Pascal(types[t].props[j].name)
  PROVE  i = j
<1> DEFINE m == types[t].props[i].name
           n == types[t].props[j].name
<1>1. types[t] \in Types
  OBVIOUS
<1>2. types[t].props \in Seq(Props)
  BY <1>1 DEF Types
<1>p. types[t].props[i] \in Props /\ types[t].props[j] \in Props
  BY <1>2
<1>3. m \in Names /\ n \in Names
  BY <1>p DEF Props
<1>4. FieldName(m) /\ FieldName(n)
  BY DEF Vetted, Named
<1>5. Camel(m) = Camel(n)
  BY <1>3, <1>4, PascalImpliesCamel
<1>6. DartIdent(m) = DartIdent(n)
  BY <1>5 DEF DartIdent
<1> QED BY <1>6 DEF Vetted, DartFieldsAccepted, Distinct

\* And distinct Rust fields, as far as no acronym is in play.
LEMMA VettedRust ==
  ASSUME NEW types \in Seq(Types), Vetted(types), NEW t \in 1..Len(types),
         NEW i \in 1..Len(types[t].props), NEW j \in 1..Len(types[t].props),
         Snake(types[t].props[i].name) = Snake(types[t].props[j].name),
         ~Acronym(types[t].props[i].name), ~Acronym(types[t].props[j].name)
  PROVE  i = j
<1> DEFINE m == types[t].props[i].name
           n == types[t].props[j].name
<1>1. types[t] \in Types
  OBVIOUS
<1>2. types[t].props \in Seq(Props)
  BY <1>1 DEF Types
<1>p. types[t].props[i] \in Props /\ types[t].props[j] \in Props
  BY <1>2
<1>3. m \in Names /\ n \in Names
  BY <1>p DEF Props
<1>4. FieldName(m) /\ FieldName(n)
  BY DEF Vetted, Named
<1>5. Camel(m) = Camel(n)
  BY <1>3, <1>4, SnakeImpliesCamel
<1>6. DartIdent(m) = DartIdent(n)
  BY <1>5 DEF DartIdent
<1> QED BY <1>6 DEF Vetted, DartFieldsAccepted, Distinct

\* Another accepted document behind named types.
LEMMA NamedGrows ==
  ASSUME NEW types \in Seq(Types), Named(types),
         NEW document \in Seq(Types), DocumentAccepted(types, document)
  PROVE  Named(types \o document)
<1>1. ASSUME NEW t \in 1..Len(document), NEW i \in 1..Len(document[t].props)
      PROVE  FieldName(document[t].props[i].name)
  BY DEF DocumentAccepted, DefAccepted
<1>2. ASSUME NEW t \in 1..Len(types \o document)
      PROVE  \/ t \in 1..Len(types) /\ (types \o document)[t] = types[t]
             \/ /\ t - Len(types) \in 1..Len(document)
                /\ (types \o document)[t] = document[t - Len(types)]
  BY ConcatProperties
<1> QED BY <1>1, <1>2 DEF Named

LEMMA InitVetted == Init => VettedInv
BY DEF Init, VettedInv, Absent, Ended

LEMMA StepVetted == TypeOK /\ VettedInv /\ [Next]_vars => VettedInv'
<1> SUFFICES ASSUME FilesOK, LocalOK, VettedInv, [Next]_vars
             PROVE  VettedInv'
  BY TypeParts
<1> USE DEF VettedInv
<1>f. ASSUME NEW outcome \in Ended, Finish(outcome), UNCHANGED tree
      PROVE  VettedInv'
  BY <1>f DEF Finish, Ended
<1>l. ASSUME Goto("load", <<>>), UNCHANGED tree
      PROVE  VettedInv'
  BY <1>l DEF Goto, Named
<1>1. CASE Begin
  BY <1>1 DEF Begin, Named
<1>2. CASE ReadContract
  BY <1>2, <1>f DEF ReadContract, Goto, files, Ended
<1>3. CASE WriteProjection
  BY <1>3, <1>l DEF WriteProjection
<1>4. CASE CheckProjection
  BY <1>4, <1>l, <1>f DEF CheckProjection, files, Ended
<1>5. CASE ReadSchema
  <2> DEFINE document == schema[Index[at]]
             types == loaded \o document
  <2>0. UNCHANGED tree /\ pc = "load" /\ at \in 1..Len(Index)
    BY <1>5 DEF ReadSchema, files, LocalOK
  <2>1. CASE Finish("refused")
    BY <2>0, <2>1, <1>f DEF Ended
  <2>2. CASE DocumentAccepted(loaded, document)
    <3>1. document \in Seq(Types)
      BY <2>0, <2>2, Sizes DEF FilesOK, DocumentAccepted
    <3>2. Named(types)
      BY <2>0, <2>2, <3>1, NamedGrows DEF LocalOK
    <3>3. CASE loaded' = types /\ pc' = pc
      BY <2>0, <3>2, <3>3
    <3>4. CASE Goto("output", types) /\ Emittable(types)
      BY <2>0, <3>2, <3>4 DEF Goto, Emittable, DartAccepted, Vetted
    <3> QED BY <1>5, <2>1, <2>2, <3>3, <3>4 DEF ReadSchema
  <2> QED BY <1>5, <2>1, <2>2 DEF ReadSchema
<1>6. CASE WriteFile
  <2>1. \A f \in Outputs : tree'[f].kind = "adapter" => Vetted(tree'[f].types)
    BY <1>6 DEF WriteFile, FilesOK, Emitted
  <2>2. pc' = "output" => loaded' = loaded /\ pc = "output"
    BY <1>6 DEF WriteFile, Finish
  <2>3. pc' # "load"
    BY <1>6 DEF WriteFile, Finish
  <2> QED BY <2>1, <2>2, <2>3
<1>7. CASE CheckFile
  <2>1. UNCHANGED tree
    BY <1>7 DEF CheckFile, files
  <2>2. pc' = "output" => loaded' = loaded /\ pc = "output"
    BY <1>7 DEF CheckFile, Finish
  <2>3. pc' # "load"
    BY <1>7 DEF CheckFile, Finish
  <2> QED BY <2>1, <2>2, <2>3
<1>8. CASE Stop
  <2>1. pc' = "stopped"
    BY <1>8 DEF Stop, Finish
  <2>2. \A f \in Outputs : tree'[f].kind = "adapter" => Vetted(tree'[f].types)
    BY <1>8 DEF Stop, FilesOK, Torn
  <2> QED BY <2>1, <2>2
<1>9. CASE Edit
  <2>1. UNCHANGED <<pc, loaded>>
    BY <1>9 DEF Edit, local
  <2>2. \A f \in Outputs : tree'[f].kind = "adapter" => Vetted(tree'[f].types)
    BY <1>9 DEF Edit, FilesOK, Absent, Torn
  <2> QED BY <2>1, <2>2
<1>10. CASE UNCHANGED vars
  BY <1>10 DEF vars
<1> QED BY <1>1, <1>2, <1>3, <1>4, <1>5, <1>6, <1>7, <1>8, <1>9, <1>10 DEF Next, CommandStep

\* No Go struct that is ever written has two fields of one name, for every
\* schema, although only the Dart emitter looks.
THEOREM GoFields == Spec => []GoFieldsAreDistinct
<1>1. TypeOK /\ VettedInv => GoFieldsAreDistinct
  BY VettedGo DEF TypeOK, VettedInv, GoFieldsAreDistinct, Distinct
<1> QED BY <1>1, InitVetted, StepVetted, TypeCorrect, PTL DEF Spec

\* No Rust struct that is ever written has two fields of one name, unless one
\* of them holds an acronym in capitals.
THEOREM RustFields == Spec => []RustFieldsAreDistinct
<1>1. TypeOK /\ VettedInv => RustFieldsAreDistinct
  BY VettedRust DEF TypeOK, VettedInv, RustFieldsAreDistinct
<1> QED BY <1>1, InitVetted, StepVetted, TypeCorrect, PTL DEF Spec

-----------------------------------------------------------------------------
(* A refusal writes nothing *)

\* Until the last emitter has returned, the tree is what the command found.
UntouchedInv ==
  pc \in {"project", "projection", "load", "refused"} /\ ~edited => tree = before

LEMMA StepUntouched == TypeOK /\ UntouchedInv /\ [Next]_vars => UntouchedInv'
<1> SUFFICES ASSUME TypeOK, UntouchedInv, [Next]_vars PROVE UntouchedInv'
  OBVIOUS
<1>1. CASE Begin
  BY <1>1 DEF Begin, UntouchedInv
<1>2. CASE ReadContract
  BY <1>2 DEF ReadContract, Kept, files, UntouchedInv
<1>3. CASE WriteProjection
  BY <1>3 DEF WriteProjection, Kept, UntouchedInv
<1>4. CASE CheckProjection
  BY <1>4 DEF CheckProjection, Kept, files, UntouchedInv
<1>5. CASE ReadSchema
  BY <1>5 DEF ReadSchema, Kept, files, UntouchedInv
<1>6. CASE WriteFile
  BY <1>6 DEF WriteFile, Finish, UntouchedInv
<1>7. CASE CheckFile
  BY <1>7 DEF CheckFile, Finish, UntouchedInv
<1>8. CASE Stop
  BY <1>8 DEF Stop, Finish, UntouchedInv
<1>9. CASE Edit
  BY <1>9 DEF Edit, UntouchedInv
<1>10. CASE UNCHANGED vars
  BY <1>10 DEF vars, UntouchedInv
<1> QED BY <1>1, <1>2, <1>3, <1>4, <1>5, <1>6, <1>7, <1>8, <1>9, <1>10 DEF Next, CommandStep

\* A command that refuses what it reads leaves the adapters alone, also when
\* the refusal comes from the emitter that runs last.
THEOREM Refusal == Spec => []RefusalKeepsTree
<1>1. Init => UntouchedInv
  BY DEF Init, UntouchedInv
<1>2. UntouchedInv => RefusalKeepsTree
  BY DEF UntouchedInv, RefusalKeepsTree
<1> QED BY <1>1, <1>2, StepUntouched, TypeCorrect, PTL DEF Spec

-----------------------------------------------------------------------------
(* Induction, and what FlattenSeq computes                                  *)

\* The order of the natural numbers, as a relation.
Below == OpToRel(<, Nat)

LEMMA BelowIs == \A x, y \in Nat : <<x, y>> \in Below <=> x < y
<1> SUFFICES ASSUME NEW x \in Nat, NEW y \in Nat PROVE <<x, y>> \in Below <=> x < y
  OBVIOUS
<1>1. <<x,y>> \in Nat \X Nat
  OBVIOUS
<1> QED
BY <1>1 DEF Below, OpToRel

\* A set of natural numbers has a least element.
LEMMA Least ==
  ASSUME NEW T, T \subseteq Nat, T # {}
  PROVE \E x \in T : \A y \in T : ~(y < x)
<1>1. IsWellFoundedOn(Below, Nat)
  BY NatLessThanWellFounded DEF Below
<1> HIDE DEF Below
<1>2. \E x \in T : \A y \in T : ~ (<<y, x>> \in Below)
  BY <1>1, WFMin
<1> QED
  BY <1>2, BelowIs

\* Induction over the natural numbers, for a set in place of a predicate.
LEMMA Induction ==
  ASSUME NEW S, 0 \in S, \A n \in Nat : n \in S => n + 1 \in S
  PROVE  Nat \subseteq S
<1> SUFFICES ASSUME ~(Nat \subseteq S) PROVE FALSE
  OBVIOUS
<1> DEFINE T == Nat \ S
<1>1. PICK x \in T : \A y \in T : ~(y < x)
  <2>1. T \subseteq Nat /\ T # {}
    OBVIOUS
  <2> HIDE DEF T
  <2> QED BY <2>1, Least
<1>2. x # 0 /\ x \in Nat
  OBVIOUS
<1>3. x - 1 \in Nat /\ x - 1 < x
  BY <1>2
<1>4. x - 1 \in S
  BY <1>1, <1>3
<1> QED BY <1>1, <1>2, <1>3, <1>4

\* g holds the flattened prefixes of s, up to the n-th.
Flattens(g, n, s) ==
  g = [i \in 1..n |-> IF i = 1 THEN s[i] ELSE g[i - 1] \o s[i]]

LEMMA FlattensAt ==
  ASSUME NEW g, NEW n \in Nat, NEW s, Flattens(g, n, s), NEW i \in 1..n
  PROVE  g[i] = IF i = 1 THEN s[i] ELSE g[i - 1] \o s[i]
BY DEF Flattens

\* There is such a g: the recursion of FlattenSeq is well founded.
LEMMA FlattensExists == \A s : \A n \in Nat : \E g : Flattens(g, n, s)
<1> SUFFICES ASSUME NEW s PROVE \A n \in Nat : \E g : Flattens(g, n, s)
  OBVIOUS
<1> DEFINE S == {n \in Nat : \E g : Flattens(g, n, s)}
<1>1. 0 \in S
  <2> DEFINE g == [i \in {} |-> 0]
  <2>1. Flattens(g, 0, s)
    BY DEF Flattens
  <2> QED
    BY <2>1
<1>2. ASSUME NEW n \in Nat, n \in S PROVE n + 1 \in S
  <2>1. PICK g : Flattens(g, n, s)
    BY <1>2
  <2> DEFINE h == [i \in 1..n + 1 |->
                     IF i <= n THEN g[i]
                     ELSE IF i = 1 THEN s[i] ELSE g[n] \o s[i]]
  <2>2. \A i \in 1..n : h[i] = g[i]
    OBVIOUS
  <2>3. ASSUME NEW i \in 1..n + 1
        PROVE  h[i] = IF i = 1 THEN s[i] ELSE h[i - 1] \o s[i]
    <3>1. CASE i = n + 1
      BY <2>2, <3>1
    <3>2. CASE i \in 1..n
      <4>1. g[i] = IF i = 1 THEN s[i] ELSE g[i - 1] \o s[i]
        BY <2>1, <3>2 DEF Flattens
      <4> QED
        BY <2>2, <3>2, <4>1
    <3> QED
      BY <3>1, <3>2
  <2>4. h = [i \in 1..n + 1 |-> h[i]]
    OBVIOUS
  <2> HIDE DEF h
  <2>5. Flattens(h, n + 1, s)
    BY <2>3, <2>4 DEF Flattens
  <2> QED
    BY <2>5
<1> HIDE DEF S
<1>3. Nat \subseteq S
  BY <1>1, <1>2, Induction
<1> QED
  BY <1>3 DEF S

\* Two of them agree as far as what they flatten does.
LEMMA FlattensAgree ==
  ASSUME NEW s, NEW t, NEW m \in Nat, NEW n \in Nat, NEW k \in Nat, k <= m, k <= n,
         NEW g, Flattens(g, m, s), NEW h, Flattens(h, n, t),
         \A i \in 1..k : s[i] = t[i]
  PROVE  \A i \in 1..k : g[i] = h[i]
<1> DEFINE S == {i \in Nat : i \in 1..k => g[i] = h[i]}
<1>1. 0 \in S
  OBVIOUS
<1>2. ASSUME NEW i \in Nat, i \in S PROVE i + 1 \in S
  <2> SUFFICES ASSUME i + 1 \in 1..k PROVE g[i + 1] = h[i + 1]
    OBVIOUS
  <2>0. i + 1 \in 1..m /\ i + 1 \in 1..n /\ (i + 1) - 1 = i /\ (i + 1 = 1 <=> i = 0)
    OBVIOUS
  <2>1. g[i + 1] = IF i = 0 THEN s[i + 1] ELSE g[i] \o s[i + 1]
    BY <2>0, FlattensAt
  <2>2. h[i + 1] = IF i = 0 THEN t[i + 1] ELSE h[i] \o t[i + 1]
    BY <2>0, FlattensAt
  <2> QED
    BY <1>2, <2>1, <2>2
<1> HIDE DEF S
<1>3. Nat \subseteq S
  BY <1>1, <1>2, Induction
<1> QED
  BY <1>3 DEF S

LEMMA FlattenSolves ==
  ASSUME NEW s, Len(s) # 0, Len(s) \in Nat
  PROVE  \E g : Flattens(g, Len(s), s) /\ FlattenSeq(s) = g[Len(s)]
<1> DEFINE g == CHOOSE h : Flattens(h, Len(s), s)
<1>1. FlattenSeq(s) = g[Len(s)]
  BY DEF FlattenSeq, Flattens
<1>2. Flattens(g, Len(s), s)
  BY FlattensExists
<1> QED
  BY <1>1, <1>2

\* Flattening one sequence more appends it.
LEMMA FlattenGrows ==
  ASSUME NEW F, NEW k \in Nat \ {0}
  PROVE  FlattenSeq([i \in 1..k + 1 |-> F[i]])
           = FlattenSeq([i \in 1..k |-> F[i]]) \o F[k + 1]
<1> DEFINE s == [i \in 1..k |-> F[i]]
           t == [i \in 1..k + 1 |-> F[i]]
<1>1. Len(s) = k /\ Len(t) = k + 1
  OBVIOUS
<1>2. (\A i \in 1..k : s[i] = t[i]) /\ t[k + 1] = F[k + 1]
  OBVIOUS
<1> HIDE DEF s, t
<1>3. PICK g : Flattens(g, k, s) /\ FlattenSeq(s) = g[k]
  BY <1>1, FlattenSolves
<1>4. PICK h : Flattens(h, k + 1, t) /\ FlattenSeq(t) = h[k + 1]
  BY <1>1, FlattenSolves
<1>5. g[k] = h[k]
  BY <1>2, <1>3, <1>4, FlattensAgree
<1>6. h[k + 1] = h[k] \o t[k + 1]
  <2> DEFINE n == k + 1
  <2>1. n \in Nat /\ n \in 1..n /\ n # 1 /\ n - 1 = k
    OBVIOUS
  <2> HIDE DEF n
  <2>2. Flattens(h, n, t)
    BY <1>4 DEF n
  <2>3. h[n] = IF n = 1 THEN t[n] ELSE h[n - 1] \o t[n]
    BY <2>1, <2>2 DEF Flattens
  <2> QED
    BY <2>1, <2>3 DEF n
<1> QED
  BY <1>2, <1>3, <1>4, <1>5, <1>6 DEF s, t

LEMMA FlattenFirst ==
  ASSUME NEW F
  PROVE  /\ FlattenSeq([i \in 1..1 |-> F[i]]) = F[1]
         /\ FlattenSeq([i \in 1..0 |-> F[i]]) = <<>>
<1>1. FlattenSeq([i \in 1..1 |-> F[i]]) = F[1]
  <2> DEFINE s == [i \in 1..1 |-> F[i]]
  <2>1. Len(s) = 1 /\ s[1] = F[1]
    OBVIOUS
  <2> HIDE DEF s
  <2>0. Len(s) # 0 /\ Len(s) \in Nat
    BY <2>1
  <2>2. \E g : Flattens(g, Len(s), s) /\ FlattenSeq(s) = g[Len(s)]
    BY <2>0, FlattenSolves, Zenon
  <2>3. FlattenSeq(s) = s[1]
    BY <2>1, <2>2 DEF Flattens
  <2> QED
    BY <2>1, <2>3 DEF s
<1>2. FlattenSeq([i \in 1..0 |-> F[i]]) = <<>>
  <2>1. Len([i \in 1..0 |-> F[i]]) = 0 /\ [i \in 1..0 |-> F[i]] = <<>>
    OBVIOUS
  <2> QED
    BY <2>1 DEF FlattenSeq
<1> QED
  BY <1>1, <1>2

-----------------------------------------------------------------------------
(* What a command that succeeds or complains has found                      *)

\* The types of the first k files of the index.
Read(k) == FlattenSeq([i \in 1..k |-> schema[Index[i]]])

\* The i-th adapter is what the schemas say.
Agrees(i) == tree[Adapters[i]] = Emitted(command.npm, Authored, Adapters[i])

Projecting == ContractAccepted(contract) /\ schema[Projected] = Projection(contract)

\* As far as the command has come: what it holds is what the files it read say,
\* and what it wrote or compared is as it says.
FoundInv ==
  ~edited =>
    /\ pc = "projection" => ContractAccepted(contract) /\ loaded = Projection(contract)
    /\ pc = "stale" => schema[Projected] # Projection(contract)
    /\ pc \in {"load", "output", "succeeded"} /\ command.npm => Projecting
    /\ pc = "load" => loaded = Read(at - 1)
    /\ pc = "output" =>
         /\ loaded = Authored
         /\ ~command.check \/ drift = 0 => \A i \in 1..at - 1 : Agrees(i)
         /\ command.check /\ drift > 0 => \E i \in 1..at - 1 : ~Agrees(i)
    /\ pc = "succeeded" => \A i \in 1..Len(Adapters) : Agrees(i)
    /\ pc = "drift" => \E i \in 1..Len(Adapters) : ~Agrees(i)

LEMMA ReadBegins == Read(0) = <<>>
<1> DEFINE F == [i \in 1..Len(Index) |-> schema[Index[i]]]
<1>1. [i \in 1..0 |-> schema[Index[i]]] = [i \in 1..0 |-> F[i]]
  OBVIOUS
<1> HIDE DEF F
<1> QED
  BY <1>1, FlattenFirst DEF Read

\* A file that was accepted is appended to what was read.
LEMMA ReadGrows ==
  ASSUME NEW k \in Nat, k + 1 \in 1..Len(Index), schema[Index[k + 1]] \in Seq(Types)
  PROVE  Read(k + 1) = Read(k) \o schema[Index[k + 1]]
<1>0. Len(Index) \in Nat
  BY Sizes
<1> DEFINE F == [i \in 1..Len(Index) |-> schema[Index[i]]]
<1>1. /\ [i \in 1..k |-> schema[Index[i]]] = [i \in 1..k |-> F[i]]
      /\ [i \in 1..k + 1 |-> schema[Index[i]]] = [i \in 1..k + 1 |-> F[i]]
  BY <1>0
<1>2. F[k + 1] = schema[Index[k + 1]]
  OBVIOUS
<1> HIDE DEF F
<1>3. CASE k = 0
  <2>1. <<>> \o schema[Index[k + 1]] = schema[Index[k + 1]]
    OBVIOUS
  <2>2. Read(1) = F[1] /\ Read(0) = <<>>
    BY <1>1, <1>3, FlattenFirst DEF Read
  <2> QED
    BY <1>2, <1>3, <2>1, <2>2
<1>4. CASE k # 0
  <2>1. FlattenSeq([i \in 1..k + 1 |-> F[i]]) = FlattenSeq([i \in 1..k |-> F[i]]) \o F[k + 1]
    BY <1>4, FlattenGrows
  <2>2. Read(k) = FlattenSeq([i \in 1..k |-> F[i]])
        /\ Read(k + 1) = FlattenSeq([i \in 1..k + 1 |-> F[i]])
    BY <1>1 DEF Read
  <2> QED
    BY <1>2, <2>1, <2>2
<1> QED
  BY <1>3, <1>4

LEMMA ReadAll == Authored = Read(Len(Index))
BY DEF Authored, Read

\* While the schemas stay as they are, what they define does.
LEMMA SameRead == UNCHANGED schema => Authored' = Authored /\ \A k : Read(k)' = Read(k)
BY DEF Authored, Read

LEMMA InitFound == Init => FoundInv
BY DEF Init, FoundInv

LEMMA StepFound == TypeOK /\ FoundInv /\ [Next]_vars => FoundInv'
<1> SUFFICES ASSUME FilesOK, LocalOK, FoundInv, [Next]_vars, ~edited' PROVE FoundInv'
  BY TypeParts DEF FoundInv
<1>f. ASSUME pc' \in {"refused", "stopped"} PROVE FoundInv'
  BY <1>f DEF FoundInv
<1>1. CASE Begin
  <2>1. at' - 1 = 0 /\ loaded' = <<>> /\ pc' \in {"project", "load"}
    BY <1>1 DEF Begin
  <2>2. pc' = "load" => ~command'.npm
    BY <1>1 DEF Begin
  <2>3. Read(0)' = <<>>
    BY <1>1, ReadBegins, SameRead DEF Begin
  <2>4. Read(at - 1)' = <<>>
    BY <2>1, <2>3 DEF Read
  <2> QED
    BY <2>1, <2>2, <2>4 DEF FoundInv
<1>k. ASSUME Kept PROVE ~edited
  BY <1>k DEF Kept
<1>2. CASE ReadContract
  BY <1>2, <1>f DEF ReadContract, Goto, Finish, files, FoundInv
<1>l. ASSUME Goto("load", <<>>), Projecting' PROVE FoundInv'
  <2>1. (at' - 1 = 0) /\ loaded' = <<>> /\ pc' = "load"
    BY <1>l DEF Goto
  <2>2. Read(at - 1)' = <<>>
    BY <2>1, FlattenFirst DEF Read
  <2> QED
    BY <1>l, <2>1, <2>2 DEF FoundInv
<1>3. CASE WriteProjection
  <2>1. ContractAccepted(contract) /\ loaded = Projection(contract) /\ Projected \in SchemaFiles
    BY <1>3, <1>k, GeneratorAssumption DEF WriteProjection, FoundInv
  <2>2. Projecting'
    BY <1>3, <2>1 DEF WriteProjection, Projecting, FilesOK
  <2> QED
    BY <1>3, <1>l, <2>2 DEF WriteProjection
<1>4. CASE CheckProjection
  <2>1. ContractAccepted(contract) /\ loaded = Projection(contract) /\ UNCHANGED files
    BY <1>4, <1>k DEF CheckProjection, FoundInv
  <2>2. CASE schema[Projected] = loaded
    BY <1>4, <1>l, <2>1, <2>2 DEF CheckProjection, Projecting, files
  <2>3. CASE schema[Projected] # loaded
    BY <1>4, <2>1, <2>3 DEF CheckProjection, Finish, files, FoundInv
  <2> QED
    BY <2>2, <2>3
<1>5. CASE ReadSchema
  <2> DEFINE document == schema[Index[at]]
             types == loaded \o document
  <2>0. /\ pc = "load" /\ at \in 1..Len(Index) /\ ~edited /\ UNCHANGED <<contract, schema, tree>>
        /\ Len(Index) \in Nat
    BY <1>5, <1>k, Sizes DEF ReadSchema, LocalOK, files
  <2>1. CASE Finish("refused")
    BY <2>1, <1>f DEF Finish
  <2>2. CASE DocumentAccepted(loaded, document)
    <3>1. document \in Seq(Types)
      BY <2>0, <2>2, Sizes DEF FilesOK, DocumentAccepted
    <3>2. types = Read(at)
      <4>1. at - 1 \in Nat /\ (at - 1) + 1 = at
        BY <2>0
      <4>2. Read((at - 1) + 1) = Read(at - 1) \o schema[Index[(at - 1) + 1]]
        BY <2>0, <3>1, <4>1, ReadGrows
      <4> QED
        BY <2>0, <4>1, <4>2 DEF FoundInv
    <3>3. CASE at < Len(Index) /\ ~Finish("refused")
      <4>1. at' = at + 1 /\ loaded' = types /\ UNCHANGED <<command, pc>>
        BY <1>5, <2>2, <3>3 DEF ReadSchema
      <4>2. Read(at - 1)' = types
        BY <2>0, <3>2, <4>1, SameRead
      <4> QED
        BY <2>0, <4>1, <4>2 DEF FoundInv, Projecting
    <3>4. CASE ~(at < Len(Index)) /\ ~Finish("refused")
      <4>1. Goto("output", types)
        BY <1>5, <2>2, <3>4 DEF ReadSchema
      <4>2. types = Authored'
        BY <2>0, <3>2, <3>4, ReadAll, SameRead
      <4>3. at' = 1 /\ drift' = 0
        BY <2>0, <4>1 DEF Goto, LocalOK
      <4> QED
        BY <2>0, <4>1, <4>2, <4>3 DEF Goto, FoundInv, Projecting
    <3> QED
      BY <2>1, <3>3, <3>4
  <2> QED
    BY <1>5, <2>1, <2>2 DEF ReadSchema
<1>6. CASE WriteFile
  <2>0. /\ pc = "output" /\ ~edited /\ ~command.check /\ at \in 1..Len(Adapters)
        /\ loaded = Authored /\ (\A i \in 1..at - 1 : Agrees(i))
        /\ UNCHANGED <<contract, schema, command>> /\ Len(Adapters) \in Nat
    BY <1>6, <1>k, Sizes DEF WriteFile, FoundInv, LocalOK, Finish
  <2>1. tree' = [tree EXCEPT ![Adapters[at]] = Emitted(command.npm, Authored, Adapters[at])]
    BY <1>6, <2>0 DEF WriteFile
  <2>2. \A i \in 1..Len(Adapters) : Adapters[i] \in DOMAIN tree
    BY Sizes DEF FilesOK
  <2>3. ASSUME NEW i \in 1..at PROVE Agrees(i)'
    <3>1. i \in 1..Len(Adapters) /\ (i = at \/ i \in 1..at - 1)
      BY <2>0
    <3>2. Authored' = Authored /\ command' = command
      BY <2>0, SameRead
    <3> QED
      BY <2>0, <2>1, <2>2, <3>1, <3>2 DEF Agrees
  <2>4. CASE at < Len(Adapters)
    <3>1. at' = at + 1 /\ UNCHANGED <<pc, loaded>>
      BY <1>6, <2>4 DEF WriteFile
    <3> QED
      BY <2>0, <2>3, <3>1, SameRead DEF FoundInv, Projecting
  <2>5. CASE ~(at < Len(Adapters))
    <3>1. pc' = "succeeded" /\ at = Len(Adapters)
      BY <1>6, <2>0, <2>5 DEF WriteFile, Finish
    <3> QED
      BY <2>0, <2>3, <3>1 DEF FoundInv, Projecting
  <2> QED
    BY <2>4, <2>5
<1>7. CASE CheckFile
  <2> DEFINE differs == tree[Adapters[at]] # Emitted(command.npm, loaded, Adapters[at])
             count == IF differs THEN drift + 1 ELSE drift
  <2>0. /\ pc = "output" /\ ~edited /\ command.check /\ at \in 1..Len(Adapters)
        /\ loaded = Authored /\ drift \in 0..at - 1
        /\ (drift = 0 => \A i \in 1..at - 1 : Agrees(i))
        /\ (drift > 0 => \E i \in 1..at - 1 : ~Agrees(i))
        /\ UNCHANGED <<contract, schema, tree, command>> /\ Len(Adapters) \in Nat
    BY <1>7, <1>k, Sizes DEF CheckFile, FoundInv, LocalOK, Finish, files
  <2>1. differs <=> ~Agrees(at)
    BY <2>0 DEF Agrees
  <2>2. \A i \in 1..Len(Adapters) : Agrees(i)' <=> Agrees(i)
    BY <2>0, SameRead DEF Agrees
  <2>3. /\ count = 0 => \A i \in 1..at : Agrees(i)
        /\ count > 0 => \E i \in 1..at : ~Agrees(i)
    BY <2>0, <2>1
  <2>4. CASE at < Len(Adapters)
    <3>1. at' = at + 1 /\ drift' = count /\ UNCHANGED <<pc, loaded>>
      BY <1>7, <2>4 DEF CheckFile
    <3>2. at' - 1 = at
      BY <2>0, <3>1
    <3>3. /\ drift' = 0 => \A i \in 1..at' - 1 : Agrees(i)'
          /\ drift' > 0 => \E i \in 1..at' - 1 : ~Agrees(i)'
      BY <2>0, <2>2, <2>3, <3>1, <3>2
    <3> QED
      BY <2>0, <3>1, <3>3, SameRead DEF FoundInv, Projecting
  <2>5. CASE ~(at < Len(Adapters))
    <3>1. at = Len(Adapters) /\ count \in Nat
      BY <2>0, <2>5
    <3>2. CASE count > 0
      BY <1>7, <2>0, <2>2, <2>3, <2>5, <3>1, <3>2 DEF CheckFile, Finish, FoundInv
    <3>3. CASE ~(count > 0)
      BY <1>7, <2>0, <2>2, <2>3, <2>5, <3>1, <3>3 DEF CheckFile, Finish, FoundInv, Projecting
    <3> QED
      BY <3>2, <3>3
  <2> QED
    BY <2>4, <2>5
<1>8. CASE Stop
  BY <1>8, <1>f DEF Stop, Finish
<1>9. CASE Edit
  BY <1>9 DEF Edit
<1>10. CASE UNCHANGED vars
  <2>1. UNCHANGED <<contract, schema, tree, command, pc, at, loaded, drift, edited>>
    BY <1>10 DEF vars
  <2>2. Authored' = Authored /\ Read(at - 1)' = Read(at - 1)
    BY <2>1, SameRead
  <2>3. \A i : Agrees(i)' <=> Agrees(i)
    BY <2>1, <2>2 DEF Agrees
  <2> QED
    BY <2>1, <2>2, <2>3 DEF FoundInv, Projecting
<1> QED BY <1>1, <1>2, <1>3, <1>4, <1>5, <1>6, <1>7, <1>8, <1>9, <1>10 DEF Next, CommandStep

\* A command that reports success, with nobody editing meanwhile, leaves or has
\* found every adapter as the schema files say, for any index of files and any
\* adapters, and whatever was stopped, torn or edited before it began.
THEOREM Success == Spec => []SuccessMeansCurrent
<1>1. TypeOK /\ FoundInv => SuccessMeansCurrent
  <2> SUFFICES ASSUME TypeOK, FoundInv, pc = "succeeded", ~edited
               PROVE  /\ \A f \in Outputs : tree[f] = Emitted(command.npm, Authored, f)
                      /\ command.npm => Projecting
    BY DEF SuccessMeansCurrent, Projecting
  <2>1. \A i \in 1..Len(Adapters) : Agrees(i)
    BY DEF FoundInv
  <2>2. \A f \in Outputs : tree[f] = Emitted(command.npm, Authored, f)
    BY <2>1 DEF Agrees, Outputs
  <2> QED
    BY <2>2 DEF FoundInv
<1> QED BY <1>1, InitFound, StepFound, TypeCorrect, PTL DEF Spec

\* `npm run check` complains of a file only if that file differs from what its
\* sources say: nothing that `npm run generate` wrote is ever reported.
THEOREM Complaint == Spec => []ComplaintIsReal
<1>1. TypeOK /\ FoundInv => ComplaintIsReal
  <2> SUFFICES ASSUME TypeOK, FoundInv, ~edited, command.npm
               PROVE  /\ pc = "stale" => schema[Projected] # Projection(contract)
                      /\ pc = "drift" => \E f \in Outputs : tree[f] # Emitted(TRUE, Authored, f)
    BY DEF ComplaintIsReal
  <2>0. command.npm = TRUE
    BY DEF TypeOK
  <2>1. pc = "drift" => \E i \in 1..Len(Adapters) : ~Agrees(i)
    BY DEF FoundInv
  <2>2. pc = "drift" => \E f \in Outputs : tree[f] # Emitted(TRUE, Authored, f)
    BY <2>0, <2>1, Sizes DEF Agrees
  <2> QED
    BY <2>2 DEF FoundInv
<1> QED BY <1>1, InitFound, StepFound, TypeCorrect, PTL DEF Spec
=============================================================================
