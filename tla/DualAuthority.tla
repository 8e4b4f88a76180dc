---------------------------- MODULE DualAuthority ----------------------------
(***************************************************************************)
(* src/conformance/dual_authority_model.py: one admission of a contract    *)
(* whose TypeSpec and authored JSON Schema are peer authorities.  The five *)
(* variables are the fields of its State, the actions its next_states.     *)
(***************************************************************************)

VARIABLES
  authored_schema, typespec,                        \* the peers found so far
  generated_matches_authored, wire_semantics_match, \* what was compared
  admitted

dualVars == <<authored_schema, typespec, generated_matches_authored,
              wire_semantics_match, admitted>>

DualInit ==
  /\ authored_schema = FALSE /\ typespec = FALSE
  /\ generated_matches_authored = FALSE /\ wire_semantics_match = FALSE
  /\ admitted = FALSE

BothAuthored == authored_schema /\ typespec

AddAuthoredSchema ==
  /\ ~authored_schema
  /\ authored_schema' = TRUE /\ admitted' = FALSE
  /\ UNCHANGED <<typespec, generated_matches_authored, wire_semantics_match>>

AddTypespec ==
  /\ ~typespec
  /\ typespec' = TRUE /\ admitted' = FALSE
  /\ UNCHANGED <<authored_schema, generated_matches_authored, wire_semantics_match>>

MatchGenerated ==
  /\ BothAuthored /\ ~generated_matches_authored
  /\ generated_matches_authored' = TRUE /\ admitted' = FALSE
  /\ UNCHANGED <<authored_schema, typespec, wire_semantics_match>>

MatchWireSemantics ==
  /\ BothAuthored /\ ~wire_semantics_match
  /\ wire_semantics_match' = TRUE /\ admitted' = FALSE
  /\ UNCHANGED <<authored_schema, typespec, generated_matches_authored>>

\* Mutant: the wire semantics need not have been compared.
AdmitWithoutWire ==
  /\ BothAuthored /\ generated_matches_authored /\ ~admitted
  /\ admitted' = TRUE
  /\ UNCHANGED <<authored_schema, typespec, generated_matches_authored,
                 wire_semantics_match>>

Admit ==
  /\ BothAuthored /\ generated_matches_authored /\ wire_semantics_match
  /\ ~admitted
  /\ admitted' = TRUE
  /\ UNCHANGED <<authored_schema, typespec, generated_matches_authored,
                 wire_semantics_match>>

DualNext == AddAuthoredSchema \/ AddTypespec \/ MatchGenerated
            \/ MatchWireSemantics \/ Admit
==============================================================================
