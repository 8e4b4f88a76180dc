------------------------- MODULE MCSchemaGenerator -------------------------
(* Small instances of SchemaGenerator for TLC. *)
EXTENDS SchemaGenerator

Stem(text) == <<Word(text, "lower")>>
Cap(text) == <<Word(text, "first")>>
Caps(text) == <<Word(text, "all")>>
After(sep, text) == <<[Word(text, "lower") EXCEPT !.sep = sep]>>

\* Ways to write the same words, and names that differ.
FieldNames ==
  {Stem("quote") \o After("underscore", "id"), Stem("quote") \o Cap("id"),
   Stem("quote") \o Caps("id"),
   Stem("quote") \o After("underscore", "1"), Stem("quote") \o Stem("1"),
   Stem("is")}

Field(name) == [name |-> name, values |-> <<>>, ref |-> <<>>, sound |-> TRUE]
EnumField(name, values) == [Field(name) EXCEPT !.values = values]
Type(name, props) == [name |-> name, props |-> props]

\* Vocabularies: fine; two of one symbol in all languages; two of one Dart
\* constant; a value without letters and digits.
Vocabularies ==
  {<<Stem("id"), Stem("is")>>, <<Stem("id") \o After("dash", "1"), Stem("id") \o Stem("1")>>,
   <<Stem("1"), Stem("v") \o Stem("1")>>, <<<<>>>>}

Pairs == {SetToSeq(pair) : pair \in kSubset(2, FieldNames)}

SomeRevisions ==
  {NoDocument,
   \* A type another file defines.
   <<Type(Cap("iso"), <<>>)>>,
   \* Two fields Go and Dart cannot tell apart.
   <<Type(Cap("quote"), <<Field(Stem("quote") \o Stem("1")),
                          Field(Stem("quote") \o After("underscore", "1"))>>)>>}

SomeDocuments ==
  SomeRevisions
  \cup {<<Type(Cap("quote"), <<Field(pair[1]), Field(pair[2])>>)>> : pair \in Pairs}
  \cup {<<Type(Cap("quote"), <<EnumField(Stem("id"), v)>>)>> : v \in Vocabularies}
  \cup {\* Not a field name.
        <<Type(Cap("quote"), <<Field(Caps("quote"))>>)>>,
        \* A reference to a type of another file, and to none.
        <<Type(Cap("quote"), <<[Field(Stem("id")) EXCEPT !.ref = Cap("iso")]>>)>>,
        <<Type(Cap("quote"), <<[Field(Stem("id")) EXCEPT !.ref = Cap("is")]>>)>>,
        \* An enum named like a $def, and two enums of one name.
        <<Type(Cap("quote"), <<EnumField(Stem("id"), <<Stem("is")>>)>>),
          Type(Cap("quote") \o Cap("id"), <<>>)>>,
        <<Type(Cap("quote"), <<EnumField(Stem("id") \o Cap("is"), <<Stem("1")>>)>>),
          Type(Cap("quote") \o Cap("id"), <<EnumField(Stem("is"), <<Stem("v")>>)>>)>>}

ContractOf(values, ref) ==
  [valid |-> TRUE, enums |-> (Cap("id") :> values),
   types |-> <<Type(Cap("iso"), <<[Field(Stem("id")) EXCEPT !.ref = ref]>>)>>]

SomeContracts ==
  {ContractOf(<<Stem("id")>>, Cap("id")), ContractOf(<<Stem("is")>>, Cap("id")),
   \* A value twice, and a reference that is not to an enum type.
   ContractOf(<<Stem("id"), Stem("id")>>, Cap("quote"))}

Files == <<"api", "pre-interest">>
Emitted4 == <<"rust", "rust-wasm manifest", "go", "dart">>
=============================================================================
