---------------------------- MODULE WireAdapters ----------------------------
(***************************************************************************)
(* The types src/src/generate.mjs emits, as a JSON document meets them: it *)
(* travels through programs in any of the languages, each of which decodes *)
(* it with the generated type and encodes it again.  A field's member in a *)
(* language is abstracted to what the emitter decides about it: whether    *)
(* null and absence decode, what is held for them, what is written.  What  *)
(* the languages' libraries do with such a member is external.             *)
(***************************************************************************)
EXTENDS Naturals, Sequences, FiniteSets

CONSTANTS
  Types,      \* field sequences of the outer type, see FieldType
  Inner,      \* field sequence of the type a "ref" names; has no refs
  Vocabulary, \* values of the string enums
  Values,     \* Values[b]: the JSON values that documents have for base b
  MaxItems,   \* the length of the longest list in a document
  Numbers,    \* the numbers in documents: in a double's range, 64 bits if whole
  Exact,      \* those that a double holds and writes again as they were
  AsDouble,   \* AsDouble[l][n]: the double that l's decoder makes of n
  Notation    \* Notation[l][n]: how l's encoder writes the double n

\* What a property's schema says: base is its type, or that of its items.
Bases == {"string", "enum", "integer", "number", "boolean", "object", "ref"}
FieldType == [name : STRING, base : Bases, list : BOOLEAN,
              required : BOOLEAN, nullable : BOOLEAN]
Members(fields) == {fields[i] : i \in DOMAIN fields}

Languages == {"rust", "go", "dart"}

ASSUME AdapterAssumption ==
  \A fields \in Types \cup {Inner} :
    /\ fields \in Seq(FieldType)
    /\ \A i, j \in DOMAIN fields : fields[i].name = fields[j].name => i = j

ASSUME InnerAssumption == \A f \in Members(Inner) : f.base # "ref"

\* Schemas have lists of texts and of references only.  Dart's cast<double>(),
\* which takes no integer, is emitted for no field.
ASSUME ListAssumption ==
  /\ MaxItems \in Nat
  /\ \A fields \in Types \cup {Inner} : \A f \in Members(fields) :
       f.list => f.base # "number"

\* Decoders of numbers need not round alike (serde_json has a fast one), and
\* some encoders write 7 for the double 7, others 7.0.
NumberKinds == {"int", "fraction"}
ASSUME NumberAssumption ==
  /\ AsDouble \in [Languages -> [Numbers -> Numbers]]
  /\ Notation \in [Languages -> [Numbers -> NumberKinds]]
  /\ \A l \in Languages : \A n \in Exact \cap Numbers : AsDouble[l][n] = n

\* A JSON value is a pair of its kind and what it is: of an object without a
\* schema, the numbers in it by their keys.
Null == <<"null">>
Kind(v) == v[1]
NumberTokens == NumberKinds \X Numbers
JsonKinds ==
  [string |-> {"text"}, enum |-> {"text"}, integer |-> {"int"},
   number |-> NumberKinds, boolean |-> {"bool"},
   object |-> {"obj"}, ref |-> {"obj"}]

Present(f, object) == f.name \in DOMAIN object /\ object[f.name] # Null

\* What a schema admits as a value that has no members of its own.
ScalarOK(f, v) ==
  /\ Kind(v) \in JsonKinds[f.base]
  /\ f.base = "number" => v[2] \in Numbers
  /\ f.base = "object" => \A i \in DOMAIN v[2] : v[2][i] \in NumberTokens

\* What the schema of Inner admits: a required key is there, null only where
\* it may be, and any other value is of the field's base.
InnerDocument(object) ==
  \A f \in Members(Inner) :
    IF ~Present(f, object)
    THEN IF f.name \in DOMAIN object THEN f.nullable ELSE ~f.required
    ELSE IF ~f.list THEN ScalarOK(f, object[f.name])
    ELSE /\ Kind(object[f.name]) = "list"
         /\ \A i \in DOMAIN object[f.name][2] : ScalarOK(f, object[f.name][2][i])

\* Authors write what the schemas admit, except that their enums may be newer.
ASSUME ValueAssumption ==
  /\ \A b \in Bases : \A v \in Values[b] : ScalarOK([base |-> b], v)
  /\ \A v \in Values["ref"] : InnerDocument(v[2])

VARIABLES
  type,      \* the outer type's fields
  original,  \* the document as its author wrote it
  wire,      \* the document as it stands
  refusedBy  \* the language that could not decode it, or "none"

vars == <<type, original, wire, refusedBy>>

-----------------------------------------------------------------------------
(* The members generate.mjs emits for a field *)

\* Mutant: Option only for nullable fields.
RustNullableOnly(f) ==
  [readsNull |-> f.nullable, holdsNull |-> f.nullable,
   omitsNull |-> ~f.required, omitsEmpty |-> FALSE]

\* Mutant: skip_serializing_if is left out.
RustNoSkip(f) ==
  [readsNull |-> ~f.required \/ f.nullable, holdsNull |-> ~f.required \/ f.nullable,
   omitsNull |-> FALSE, omitsEmpty |-> FALSE]

\* T or Option<T>; an optional member is default and skip_serializing_if none.
RustMember(f) ==
  [readsNull |-> ~f.required \/ f.nullable, holdsNull |-> ~f.required \/ f.nullable,
   omitsNull |-> ~f.required, omitsEmpty |-> FALSE]

\* Mutant: omitempty without a pointer.
GoValue(f) ==
  [readsNull |-> TRUE, holdsNull |-> f.nullable,
   omitsNull |-> ~f.required, omitsEmpty |-> ~f.required]

\* T or *T; omitempty on an optional member, where a pointer is never empty.
GoMember(f) ==
  [readsNull |-> TRUE, holdsNull |-> ~f.required \/ f.nullable,
   omitsNull |-> ~f.required, omitsEmpty |-> FALSE]

\* T or T?, with a guard before the decoder and an if before the encoder.
DartMember(f) ==
  [readsNull |-> ~f.required \/ f.nullable, holdsNull |-> ~f.required \/ f.nullable,
   omitsNull |-> ~f.required, omitsEmpty |-> FALSE]

Member(language, f) ==
  CASE language = "rust" -> RustMember(f)
    [] language = "go" -> GoMember(f)
    [] language = "dart" -> DartMember(f)

\* name?: T | null, where T is a union of the literals of an enum.
TsMember(f) ==
  [mayBeAbsent |-> ~f.required, mayBeNull |-> f.nullable,
   closed |-> f.base = "enum" /\ ~f.list]

\* Dataclass members, the required ones first; the others have a default.
Having(fields, required) ==
  LET kept[i \in 0..Len(fields)] ==
        IF i = 0 THEN <<>>
        ELSE IF fields[i].required = required THEN Append(kept[i - 1], fields[i])
        ELSE kept[i - 1]
  IN  kept[Len(fields)]
PyMembers(fields) == Having(fields, TRUE) \o Having(fields, FALSE)

-----------------------------------------------------------------------------
(* The types they resolve to, and the values these take *)

\* rustType, goType, dartType, tsType: the kinds of values that decode.
\* Rust's serde_json::Value for an object takes anything.
Kinds(language, base) ==
  IF language = "rust" /\ base = "object"
  THEN {"text", "int", "fraction", "bool", "list", "obj"} ELSE JsonKinds[base]

\* TypeScript has one type for integers and other numbers.
TsKinds(base) == IF base \in {"integer", "number"} THEN NumberKinds ELSE JsonKinds[base]

\* Rust's enums are closed; elsewhere, and in lists, they are strings.
\* Dart's cast<double>() takes no integer.
ScalarReads(language, f, v) ==
  /\ Kind(v) \in Kinds(language, f.base)
  /\ language = "rust" /\ f.base = "enum" /\ ~f.list => v[2] \in Vocabulary
  /\ language = "dart" /\ f.base = "number" /\ f.list => Kind(v) = "fraction"

InnerReads(language, object) ==
  \A f \in Members(Inner) :
    IF ~Present(f, object) THEN Member(language, f).readsNull
    ELSE IF ~f.list THEN ScalarReads(language, f, object[f.name])
    ELSE /\ Kind(object[f.name]) = "list"
         /\ \A i \in DOMAIN object[f.name][2] :
              ScalarReads(language, f, object[f.name][2][i])

ItemReads(language, f, v) ==
  IF f.base = "ref" THEN Kind(v) = "obj" /\ InnerReads(language, v[2])
  ELSE ScalarReads(language, f, v)

Reads(language, object) ==
  \A f \in Members(type) :
    IF ~Present(f, object) THEN Member(language, f).readsNull
    ELSE IF ~f.list THEN ItemReads(language, f, object[f.name])
    ELSE /\ Kind(object[f.name]) = "list"
         /\ \A i \in DOMAIN object[f.name][2] :
              ItemReads(language, f, object[f.name][2][i])

\* What a member holds that cannot hold null: the zero value of a Go type,
\* whose slice or map is nil and is written as null.
Zero(f) ==
  CASE f.list \/ f.base = "object" -> Null
    [] f.base \in {"string", "enum"} -> <<"text", "">>
    [] f.base \in {"integer", "number"} -> <<"int", "0">>
    [] f.base = "boolean" -> <<"bool", "false">>
    [] OTHER -> <<"obj", <<>> >>
Empty == {Null, <<"text", "">>, <<"int", "0">>, <<"fraction", "0">>,
          <<"bool", "false">>, <<"list", <<>> >>}

Held(language, f, object) ==
  IF Present(f, object) THEN object[f.name]
  ELSE IF Member(language, f).holdsNull THEN Null ELSE Zero(f)

Written(language, f, object) ==
  LET held == Held(language, f, object) IN
  /\ held = Null => ~Member(language, f).omitsNull
  /\ held \in Empty => ~Member(language, f).omitsEmpty

Keys(language, fields, object) ==
  {f.name : f \in {g \in Members(fields) : Written(language, g, object)}}
Field(fields, name) == CHOOSE f \in Members(fields) : f.name = name

\* A number that f64, float64 or double held, as it is written again.
DoubleOf(language, n) ==
  LET double == AsDouble[language][n] IN <<Notation[language][double], double>>

\* A number in an object without a schema: in Go's map[string]any all are
\* doubles, serde_json::Value and Dart's Object? keep an integer.
UntypedRelay(language, v) ==
  IF Kind(v) = "int" /\ language # "go" THEN v ELSE DoubleOf(language, v[2])

ScalarRelay(language, f, v) ==
  CASE f.base = "number" /\ Kind(v) \in NumberKinds -> DoubleOf(language, v[2])
    [] f.base = "object" /\ Kind(v) = "obj" ->
         <<"obj", [i \in DOMAIN v[2] |-> UntypedRelay(language, v[2][i])]>>
    [] OTHER -> v

InnerRelay(language, object) ==
  [n \in Keys(language, Inner, object) |->
     LET f == Field(Inner, n)
         v == Held(language, f, object) IN
     IF f.list /\ Kind(v) = "list"
     THEN <<"list", [i \in DOMAIN v[2] |-> ScalarRelay(language, f, v[2][i])]>>
     ELSE ScalarRelay(language, f, v)]

ItemRelay(language, f, v) ==
  IF f.base = "ref" /\ Kind(v) = "obj" THEN <<"obj", InnerRelay(language, v[2])>>
  ELSE ScalarRelay(language, f, v)

\* The decoded document, encoded again; keys of no member are gone.
Relay(language, object) ==
  [n \in Keys(language, type, object) |->
     LET f == Field(type, n)
         v == Held(language, f, object) IN
     IF f.list /\ Kind(v) = "list"
     THEN <<"list", [i \in DOMAIN v[2] |-> ItemRelay(language, f, v[2][i])]>>
     ELSE ItemRelay(language, f, v)]

\* A document of the type: the required keys, any of the optional ones, and
\* null where the schema admits it.  Its enum values may be newer.
Absent == <<"absent">>
FieldChoices(f) ==
  (IF f.list
   THEN {<<"list", s>> : s \in UNION {[1..n -> Values[f.base]] : n \in 0..MaxItems}}
   ELSE Values[f.base])
  \cup {v \in {Null} : f.nullable} \cup {v \in {Absent} : ~f.required}
Init ==
  /\ type \in Types
  /\ \E choice \in [DOMAIN type -> UNION {FieldChoices(f) : f \in Members(type)}] :
       /\ \A i \in DOMAIN type : choice[i] \in FieldChoices(type[i])
       /\ original = [n \in {type[i].name : i \in {j \in DOMAIN type : choice[j] # Absent}}
                        |-> choice[CHOOSE i \in DOMAIN type : type[i].name = n]]
  /\ wire = original
  /\ refusedBy = "none"

Hop(language) ==
  /\ refusedBy = "none"
  /\ IF Reads(language, wire)
     THEN wire' = Relay(language, wire) /\ UNCHANGED refusedBy
     ELSE refusedBy' = language /\ UNCHANGED wire
  /\ UNCHANGED <<type, original>>

Next == \E language \in Languages : Hop(language)
Spec == Init /\ [][Next]_vars

-----------------------------------------------------------------------------
(* Properties *)

\* A value of an enum that is not in its vocabulary, from a newer peer: in the
\* document or in one that it holds.
HasNewer(fields, object) ==
  \E f \in Members(fields) : f.base = "enum" /\ ~f.list /\ Present(f, object)
                             /\ object[f.name][2] \notin Vocabulary
InnerObjects(object) ==
  UNION {IF f.list THEN {object[f.name][2][i][2] : i \in DOMAIN object[f.name][2]}
         ELSE {object[f.name][2]} :
           f \in {g \in Members(type) : g.base = "ref" /\ Present(g, object)}}
FromNewerPeer ==
  \/ HasNewer(type, original)
  \/ \E d \in InnerObjects(original) : HasNewer(Inner, d)

\* What a TypeScript program sees inhabits the type it was given, also after
\* other languages encoded it, but for the literals of a newer peer's enum.
TsScalar(f, v) ==
  /\ Kind(v) \in TsKinds(f.base)
  /\ TsMember(f).closed /\ v[2] \notin Vocabulary => FromNewerPeer
TsKeys(f, object) ==
  /\ f.name \notin DOMAIN object => TsMember(f).mayBeAbsent
  /\ f.name \in DOMAIN object /\ object[f.name] = Null => TsMember(f).mayBeNull
TsInner(object) == \A f \in Members(Inner) :
  /\ TsKeys(f, object)
  /\ Present(f, object) =>
       IF ~f.list THEN TsScalar(f, object[f.name])
       ELSE /\ Kind(object[f.name]) = "list"
            /\ \A i \in DOMAIN object[f.name][2] : TsScalar(f, object[f.name][2][i])
TsItem(f, v) == TsScalar(f, v) /\ (f.base = "ref" => TsInner(v[2]))
TypescriptIsTrue == \A f \in Members(type) :
  /\ TsKeys(f, wire)
  /\ Present(f, wire) =>
       IF ~f.list THEN TsItem(f, wire[f.name])
       ELSE /\ Kind(wire[f.name]) = "list"
            /\ \A i \in DOMAIN wire[f.name][2] : TsItem(f, wire[f.name][2][i])

\* Python can define the dataclass: no member without a default follows one
\* with a default, and none is missing.
PythonClassLoads ==
  LET members == PyMembers(type) IN
  /\ Members(members) = Members(type) /\ Len(members) = Len(type)
  /\ \A i, j \in DOMAIN members : i < j /\ members[j].required => members[i].required

\* A valid document is decoded by every generated type however often others
\* re-encoded it before, and one with an unknown enum value by all but Rust;
\* it inhabits the TypeScript type, and the Python class can be defined.
EveryAdapterReads ==
  /\ refusedBy # "none" => refusedBy = "rust" /\ FromNewerPeer
  /\ TypescriptIsTrue /\ PythonClassLoads

\* Two objects say the same: every required key is present in both, and where
\* a value is present it is the same.  Null and absence differ for a required
\* key, and mean the same for an optional one.  A number that becomes a double
\* may change its notation, and its value if a double does not hold it.
SameField(f, a, b) ==
  /\ Present(f, a) <=> Present(f, b)
  /\ f.required => f.name \in DOMAIN a /\ f.name \in DOMAIN b
SameNumber(v, w) ==
  /\ Kind(v) \in NumberKinds /\ Kind(w) \in NumberKinds
  /\ v[2] \in Exact => w[2] = v[2]
SameScalar(f, v, w) ==
  CASE f.base = "number" -> SameNumber(v, w)
    [] f.base = "object" -> /\ DOMAIN v[2] = DOMAIN w[2]
                            /\ \A i \in DOMAIN v[2] : SameNumber(v[2][i], w[2][i])
    [] OTHER -> v = w
SameInner(a, b) == \A f \in Members(Inner) :
  /\ SameField(f, a, b)
  /\ Present(f, a) =>
       IF ~f.list THEN SameScalar(f, a[f.name], b[f.name])
       ELSE /\ DOMAIN a[f.name][2] = DOMAIN b[f.name][2]
            /\ \A i \in DOMAIN a[f.name][2] :
                 SameScalar(f, a[f.name][2][i], b[f.name][2][i])
SameItem(f, v, w) ==
  IF f.base = "ref" THEN SameInner(v[2], w[2]) ELSE SameScalar(f, v, w)
SameDocument(a, b) == \A f \in Members(type) :
  /\ SameField(f, a, b)
  /\ Present(f, a) =>
       IF ~f.list THEN SameItem(f, a[f.name], b[f.name])
       ELSE /\ DOMAIN a[f.name][2] = DOMAIN b[f.name][2]
            /\ \A i \in DOMAIN a[f.name][2] :
                 SameItem(f, a[f.name][2][i], b[f.name][2][i])

\* However many programs it passed, in whatever order, a document says what
\* its author wrote: no key is lost or invented, no empty or null value becomes
\* another, no unknown enum value is replaced, integer fields keep every digit,
\* and other numbers what a double can hold of them.
NothingIsLost == SameDocument(original, wire)

\* Two objects have the same keys, with null at the same ones.
SameNulls(a, b) ==
  /\ DOMAIN a = DOMAIN b
  /\ \A n \in DOMAIN a : a[n] = Null <=> b[n] = Null
SameKeys(a, b) ==
  /\ SameNulls(a, b)
  /\ \A f \in Members(type) : f.base = "ref" /\ Present(f, a) =>
       IF ~f.list THEN SameNulls(a[f.name][2], b[f.name][2])
       ELSE \A i \in DOMAIN a[f.name][2] :
              SameNulls(a[f.name][2][i][2], b[f.name][2][i][2])

\* Any two types that decode a document write the same keys and the same nulls,
\* and either what the document says; they differ in how numbers look, and in
\* those that a double does not hold.
AdaptersAgree ==
  \A a, b \in Languages : Reads(a, wire) /\ Reads(b, wire) =>
    SameKeys(Relay(a, wire), Relay(b, wire)) /\ SameDocument(wire, Relay(a, wire))

=============================================================================
