------------------------ MODULE MCConsumerGeneration ------------------------
(* Small instances of ConsumerGeneration for TLC. *)
EXTENDS ConsumerGeneration, TLC

\* Admitted projections of one declaration each, one that the generator
\* rejects, one that collides with another family, and an authored schema.
SomeProjections ==
  {[admitted |-> TRUE, names |-> {"Report"}, version |-> 1],
   [admitted |-> TRUE, names |-> {"Plan"}, version |-> 2],
   [admitted |-> TRUE, names |-> {"Result"}, version |-> 3],
   [admitted |-> FALSE, names |-> {"Report"}, version |-> 1]}

SomeArgs == {<<1, 2>>, <<2, 1>>, <<1, 1>>}

\* A file of yesterday's bundle.
OneLeftover == {p \in SomeProjections : p.version = 2}

CONSTANTS w1, w2, w3

\* Two that write and one that checks what they leave.
WritersAndChecker == [w \in Invocations |-> IF w = w3 THEN {"check"} ELSE {"output"}]

\* Nothing tells the two writers apart.
Symmetric == Permutations({w1, w2})
=============================================================================
