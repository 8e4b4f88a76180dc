--------------------------- MODULE MCWireAdapters ---------------------------
(* Every pair of the shapes the schemas use, required or not, nullable or    *)
(* not, with the empty, zero and null values that encoders like to drop.     *)
EXTENDS WireAdapters

Shapes == {<<b, FALSE>> : b \in Bases} \cup {<<b, TRUE>> : b \in {"string", "enum", "ref"}}
Shaped(name, shape, required, nullable) ==
  [name |-> name, base |-> shape[1], list |-> shape[2],
   required |-> required, nullable |-> nullable]
FieldsNamed(name) ==
  {Shaped(name, shape, r, n) : shape \in Shapes, r \in BOOLEAN, n \in BOOLEAN}
MCTypes == {<<f, g>> : f \in FieldsNamed("f"), g \in FieldsNamed("g")}
MCInner == <<Shaped("p", <<"string", FALSE>>, FALSE, FALSE),
             Shaped("q", <<"string", FALSE>>, TRUE, TRUE),
             Shaped("e", <<"enum", FALSE>>, FALSE, TRUE),
             Shaped("x", <<"number", FALSE>>, FALSE, FALSE)>>
MCVocabulary == {"known"}

\* 2^53 + 1 is the first whole number that is no double.
MCNumbers == {"0", "0.5", "2^53", "2^53+1"}
MCExact == MCNumbers \ {"2^53+1"}
MCAsDouble == [l \in Languages |->
  [n \in MCNumbers |-> IF n \in MCExact THEN n ELSE "2^53"]]
\* Go writes a whole double without a point, Rust and the Dart VM with one.
MCNotation == [l \in Languages |->
  [n \in MCNumbers |-> IF l = "go" /\ n # "0.5" THEN "int" ELSE "fraction"]]

InnerDocuments == {
  [q |-> Null, x |-> <<"int", "0">>], [p |-> <<"text", "">>, q |-> Null],
  [p |-> <<"text", "a">>, q |-> <<"text", "">>, e |-> <<"text", "newer">>],
  [q |-> <<"text", "a">>, e |-> Null]}
MCValues == [base \in Bases |->
  CASE base = "string" -> {<<"text", "">>, <<"text", "a">>}
    [] base = "enum" -> {<<"text", "known">>, <<"text", "newer">>}
    [] base = "integer" -> {<<"int", "0">>, <<"int", "2^53+1">>}
    [] base = "number" -> {<<"int", "0">>, <<"int", "2^53+1">>, <<"fraction", "0.5">>}
    [] base = "boolean" -> {<<"bool", "false">>, <<"bool", "true">>}
    [] base = "object" ->
         {<<"obj", <<>> >>,
          <<"obj", [a |-> <<"int", "2^53+1">>, b |-> <<"fraction", "0">>]>>}
    [] base = "ref" -> {<<"obj", d>> : d \in InnerDocuments}]
=============================================================================
