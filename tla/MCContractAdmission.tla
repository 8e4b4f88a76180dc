------------------------- MODULE MCContractAdmission -------------------------
(* Heads that agree or disagree in one way, and IRs with one thing wrong. *)
EXTENDS ContractAdmission, MCRuntimeChecks

CONSTANTS A, B, low   \* two portable names and one that is not

MCNames == {A, B, low}
MCPortable == {A, B}

Agreeing == [authored |-> TRUE, typespec |-> TRUE, schemas |-> TRUE, wire |-> TRUE]
MCFacts == {Agreeing, [Agreeing EXCEPT !.wire = FALSE],
            [Agreeing EXCEPT !.typespec = FALSE]}

Declaration(name) == [name |-> name, assertion |-> TRUE, identified |-> TRUE]
Good == [admissible |-> TRUE, editable |-> FALSE, peers |-> TRUE, clean |-> TRUE,
         complete |-> TRUE, identified |-> TRUE, count |-> 2,
         declarations |-> <<Declaration(A), Declaration(B)>>]
MCForms == {
  Good,
  [Good EXCEPT !.count = NoCount, !.declarations = <<Declaration(A)>>],
  [Good EXCEPT !.count = 3],
  [Good EXCEPT !.admissible = FALSE],
  [Good EXCEPT !.complete = FALSE],
  [Good EXCEPT !.identified = FALSE],
  [Good EXCEPT !.declarations[2].identified = FALSE],
  [Good EXCEPT !.declarations[2].assertion = FALSE],
  [Good EXCEPT !.declarations[2].name = A],
  [Good EXCEPT !.declarations[2].name = low]}
=============================================================================
