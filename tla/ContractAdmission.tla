-------------------------- MODULE ContractAdmission --------------------------
(***************************************************************************)
(* From two peer authorities to a projection a consumer accepts:           *)
(* src/conformance/dual_authority_model.py decides what is admitted, an    *)
(* external validator publishes its verdict as a Contract IR,              *)
(* src/src/project-admitted-contract-ir.mjs projects the IR into a file or *)
(* checks the file against it, and the consumer generator validates the    *)
(* file.  The authorities are edited, the IR is published again and the    *)
(* projector is stopped between any two of these steps.                    *)
(***************************************************************************)
EXTENDS DualAuthority, Naturals, Sequences, FiniteSets

CONSTANTS
  Facts,     \* what may be true of the two authorities at one head
  Forms,     \* what an IR may say beside its verdict, see FormType
  Names,     \* names a declaration may have
  Portable,  \* those that match /^[A-Z][A-Za-z0-9]*$/
  NoIr,      \* no Contract IR has been published
  NoFile,    \* the projection file is absent
  Torn,      \* the file was opened for writing and not yet written
  NoCount,   \* admission.scope.admittedDeclarations is undefined
  MaxEdits   \* bound: edits of the authorities

FactType == [authored : BOOLEAN, typespec : BOOLEAN,
             schemas : BOOLEAN, wire : BOOLEAN]

\* assertion: has an assertionSchema.  identified: id and assertionDigest are
\* those of the admission, and not some other text.
DeclarationType == [name : Names, assertion : BOOLEAN, identified : BOOLEAN]

\* peers: precedence "none", and generated schemas are evidence only.
\* clean: the receipt passed without unexplained findings.  complete: the
\* scope is, and excludes nothing.  identified: has a run id and a digest.
FormType == [admissible : BOOLEAN, editable : BOOLEAN, peers : BOOLEAN,
             clean : BOOLEAN, complete : BOOLEAN, identified : BOOLEAN,
             count : Nat \cup {NoCount}, declarations : Seq(DeclarationType)]

ASSUME AdmissionAssumption ==
  /\ Facts \subseteq FactType
  /\ Forms \subseteq FormType
  /\ Portable \subseteq Names
  /\ MaxEdits \in Nat

VARIABLES
  heads,      \* heads[v]: what is true of the authorities at version v
  checkout,   \* the version the validator works on, 0 before it starts
  contractIr, \* the published Contract IR
  projection, \* the projection file
  tool,       \* the projector: pc, mode and the IR it read
  \* history, read by the properties only
  origin,     \* the IR the projection file was written from
  moved       \* the IR was published again since the projector read it

inputs == <<heads, checkout, contractIr>>
vars == <<dualVars, inputs, projection, tool, origin, moved>>

IrType == [head : 1..(MaxEdits + 1), passed : BOOLEAN, form : Forms]
ContentType == [head : 1..(MaxEdits + 1), identified : BOOLEAN,
                defs : SUBSET Names, declarations : Seq(DeclarationType)]
Whole(file) == file \notin {NoFile, Torn}
HasIr(ir) == ir # NoIr

Running == {"read", "open", "write", "compare"}
Ended == {"idle", "written", "current", "drift", "refused", "stopped"}

TypeOK ==
  /\ dualVars \in BOOLEAN \X BOOLEAN \X BOOLEAN \X BOOLEAN \X BOOLEAN
  /\ heads \in Seq(Facts) /\ Len(heads) \in 1..(MaxEdits + 1)
  /\ checkout \in 0..Len(heads)
  /\ \A ir \in {contractIr, tool.ir, origin} :
       ~HasIr(ir) \/ (ir \in IrType /\ ir.head <= Len(heads))
  /\ ~Whole(projection) \/ projection \in ContentType
  /\ tool.pc \in Running \cup Ended /\ tool.mode \in {"output", "check"}
  /\ moved \in BOOLEAN

\* The first checkout, with no evidence of an earlier one.
Init ==
  /\ DualInit
  /\ \E f \in Facts : heads = <<f>>
  /\ checkout = 0 /\ contractIr = NoIr
  /\ projection = NoFile /\ origin = NoIr
  /\ tool = [pc |-> "idle", mode |-> "output", ir |-> NoIr]
  /\ moved = FALSE

-----------------------------------------------------------------------------
(* The authorities and their validator *)

EditAuthority ==
  /\ Len(heads) <= MaxEdits
  /\ \E f \in Facts : heads' = Append(heads, f)
  /\ UNCHANGED <<dualVars, checkout, contractIr, projection, origin, tool,
                 moved>>

StartValidation ==
  /\ checkout' = Len(heads)
  /\ authored_schema' = FALSE /\ typespec' = FALSE
  /\ generated_matches_authored' = FALSE /\ wire_semantics_match' = FALSE
  /\ admitted' = FALSE
  /\ UNCHANGED <<heads, contractIr, projection, origin, tool, moved>>

\* A step of the admission model, which finds only what is there.
Validate ==
  /\ checkout > 0
  /\ \/ heads[checkout].authored /\ AddAuthoredSchema
     \/ heads[checkout].typespec /\ AddTypespec
     \/ heads[checkout].schemas /\ MatchGenerated
     \/ heads[checkout].wire /\ MatchWireSemantics
     \/ Admit
  /\ UNCHANGED <<inputs, projection, origin, tool, moved>>

\* Whatever else it says, an IR passed only if its contract was admitted.
PublishIr ==
  /\ checkout > 0
  /\ \E form \in Forms :
       contractIr' = [head |-> checkout, passed |-> admitted, form |-> form]
  /\ moved' = TRUE
  /\ UNCHANGED <<dualVars, heads, checkout, projection, origin, tool>>

-----------------------------------------------------------------------------
(* project-admitted-contract-ir.mjs *)

NamesOf(declarations) == {declarations[i].name : i \in DOMAIN declarations}

\* Mutant: a second declaration of a name replaces the first.
ProjectableWithDuplicates(ir) ==
  /\ ir.passed /\ ir.form.admissible /\ ~ir.form.editable /\ ir.form.peers
  /\ ir.form.clean /\ ir.form.complete
  /\ ir.form.declarations # <<>>
  /\ \A i \in DOMAIN ir.form.declarations :
       /\ ir.form.declarations[i].name \in Portable
       /\ ir.form.declarations[i].assertion
  /\ ir.form.count \in {NoCount, Len(ir.form.declarations)}

\* projectContractIr does not throw.
Projectable(ir) ==
  /\ ir.passed /\ ir.form.admissible /\ ~ir.form.editable /\ ir.form.peers
  /\ ir.form.clean /\ ir.form.complete
  /\ ir.form.declarations # <<>>
  /\ \A i, j \in DOMAIN ir.form.declarations :
       /\ ir.form.declarations[i].name \in Portable
       /\ ir.form.declarations[i].assertion
       /\ ir.form.declarations[i].name = ir.form.declarations[j].name => i = j
  /\ ir.form.count \in {NoCount, Len(ir.form.declarations)}

\* Mutant: the provenance is left out.
ProjectDefs(ir) == [head |-> ir.head, identified |-> ir.form.identified,
                    defs |-> NamesOf(ir.form.declarations)]

\* What it returns: $defs beside the provenance of each declaration.
Project(ir) == [head |-> ir.head, identified |-> ir.form.identified,
                defs |-> NamesOf(ir.form.declarations),
                declarations |-> ir.form.declarations]

ToolStep(pc) == tool' = [tool EXCEPT !.pc = pc]
Exit(pc) == tool' = [tool EXCEPT !.pc = pc, !.ir = NoIr]
OutsideTool == UNCHANGED <<dualVars, inputs>>

\* parseArgs: an input, and exactly one of --output and --check.
Begin ==
  /\ tool.pc \in Ended
  /\ \E mode \in {"output", "check"} :
       tool' = [pc |-> "read", mode |-> mode, ir |-> NoIr]
  /\ OutsideTool /\ UNCHANGED <<projection, origin, moved>>

ReadIr ==
  /\ tool.pc = "read"
  /\ IF HasIr(contractIr) /\ Projectable(contractIr)
     THEN tool' = [tool EXCEPT !.ir = contractIr, !.pc =
                     IF tool.mode = "output" THEN "open" ELSE "compare"]
     ELSE Exit("refused")
  /\ moved' = FALSE
  /\ OutsideTool /\ UNCHANGED <<projection, origin>>

\* writeFileSync empties the file before it writes.
OpenOutput ==
  /\ tool.pc = "open" /\ ToolStep("write")
  /\ projection' = Torn
  /\ OutsideTool /\ UNCHANGED <<origin, moved>>

WriteOutput ==
  /\ tool.pc = "write" /\ Exit("written")
  /\ projection' = Project(tool.ir) /\ origin' = tool.ir
  /\ OutsideTool /\ UNCHANGED moved

\* Mutant: the provenance is not compared.
CompareDefs(file, ir) == Whole(file) /\ file.defs = Project(ir).defs

SameText(file, ir) == file = Project(ir)

Compare ==
  /\ tool.pc = "compare"
  /\ Exit(IF projection = NoFile THEN "refused"
              ELSE IF SameText(projection, tool.ir) THEN "current" ELSE "drift")
  /\ OutsideTool /\ UNCHANGED <<projection, origin, moved>>

StopTool ==
  /\ tool.pc \in Running /\ Exit("stopped")
  /\ OutsideTool /\ UNCHANGED <<projection, origin, moved>>

-----------------------------------------------------------------------------
(* What a consumer makes of the file, at whatever moment it reads it *)

\* validateProjection: a torn file does not parse.  Its declarations are the names of $defs, each
\* one once, with an id and a digest.
Acceptable(file) ==
  /\ Whole(file)
  /\ file.identified
  /\ file.declarations # <<>>
  /\ Cardinality(file.defs) = Len(file.declarations)
  /\ NamesOf(file.declarations) = file.defs
  /\ \A i \in DOMAIN file.declarations : file.declarations[i].identified

Next ==
  \/ EditAuthority \/ StartValidation \/ Validate \/ PublishIr
  \/ Begin \/ ReadIr \/ OpenOutput \/ WriteOutput \/ Compare \/ StopTool

Spec == Init /\ [][Next]_vars

-----------------------------------------------------------------------------
(* Properties *)

\* A whole projection file describes a head at which both authorities existed
\* and agreed on schema and on wire semantics, however often they were edited
\* since, whatever else was published, and wherever the projector was stopped.
OnlyAgreedContent ==
  Whole(projection) => LET head == heads[projection.head] IN
    head.authored /\ head.typespec /\ head.schemas /\ head.wire

\* A consumer refuses a whole projection exactly when the admission left out a
\* run id, a digest or a declaration's id: the projector drops and repeats
\* nothing, and so writes nothing else that the generator's checks refuse.
RefusedForIdentity ==
  Whole(projection) =>
    (Acceptable(projection) <=>
       /\ origin.form.identified
       /\ \A i \in DOMAIN origin.form.declarations :
            origin.form.declarations[i].identified)

\* Unless the IR is published again between the two reads of a check, --check
\* tells the truth of the files: current means the file is the projection of
\* the published IR, drift that it is not.
CheckIsTrue ==
  [][tool.pc = "compare" /\ ~moved =>
       /\ tool'.pc = "current" => projection = Project(contractIr)
       /\ tool'.pc = "drift" => projection # Project(contractIr)]_vars

\* An IR that failed, or whose admission is unclean or incomplete, leaves a
\* whole projection as it is, even if it is published while another is being
\* projected.
RefusalKeepsFile ==
  [][Whole(projection) /\ projection' # projection =>
       tool.ir.passed /\ tool.ir.form.clean /\ tool.ir.form.complete]_vars
=============================================================================
