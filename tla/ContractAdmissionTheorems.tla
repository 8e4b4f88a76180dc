---------------------- MODULE ContractAdmissionTheorems ----------------------
(***************************************************************************)
(* What a projection file holds, for every set of heads, IRs and names.    *)
(***************************************************************************)
EXTENDS ContractAdmission, FiniteSetTheorems, FunctionTheorems, TLAPS

AgreedHead(head) == heads[head].authored /\ heads[head].typespec
                    /\ heads[head].schemas /\ heads[head].wire

\* What the validator has found is true of the head it works on.
FindingsAreFacts ==
  /\ authored_schema => checkout > 0 /\ heads[checkout].authored
  /\ typespec => checkout > 0 /\ heads[checkout].typespec
  /\ generated_matches_authored => checkout > 0 /\ heads[checkout].schemas
  /\ wire_semantics_match => checkout > 0 /\ heads[checkout].wire
  /\ admitted => authored_schema /\ typespec /\ generated_matches_authored
                 /\ wire_semantics_match

IrIsTrue(ir) == ir \in IrType /\ ir.head \in 1..Len(heads)
                /\ (ir.passed => AgreedHead(ir.head))

\* An IR that was read to be written or compared is one that projects.
ToolIsTrue ==
  tool.pc \in {"open", "write", "compare"} =>
    IrIsTrue(tool.ir) /\ Projectable(tool.ir)

\* A projection on disk is that of an IR that projects.
FileIsTrue ==
  projection \in {NoFile, Torn} \/
    (projection = Project(origin) /\ IrIsTrue(origin) /\ Projectable(origin))

HeadsShape ==
  /\ heads \in Seq(Facts) /\ Len(heads) \in 1..(MaxEdits + 1)
  /\ checkout \in 0..Len(heads)
FlagsShape ==
  /\ authored_schema \in BOOLEAN /\ typespec \in BOOLEAN
  /\ generated_matches_authored \in BOOLEAN /\ wire_semantics_match \in BOOLEAN
  /\ admitted \in BOOLEAN
ToolShape ==
  /\ tool = [pc |-> tool.pc, mode |-> tool.mode, ir |-> tool.ir]
  /\ tool.pc \in Running \cup Ended /\ tool.mode \in {"output", "check"}
Shape == HeadsShape /\ FlagsShape /\ ToolShape

Evidence == Shape /\ FindingsAreFacts /\ (contractIr = NoIr \/ IrIsTrue(contractIr))

ReadSince == tool.pc = "compare" /\ ~moved => tool.ir = contractIr

IInv == Evidence /\ ToolIsTrue /\ FileIsTrue /\ ReadSince

-----------------------------------------------------------------------------
USE DEF Running, Ended

\* The first checkout satisfies the inductive invariant.
LEMMA InitHolds == Init => IInv
<1> SUFFICES ASSUME Init PROVE IInv
  OBVIOUS
<1>1. PICK f \in Facts : heads = <<f>>
  BY DEF Init
<1>2. Shape
  <2>1. HeadsShape
    BY <1>1, AdmissionAssumption DEF Init, HeadsShape
  <2>2. FlagsShape
    BY DEF Init, DualInit, FlagsShape
  <2>3. ToolShape
    BY DEF Init, ToolShape
  <2> QED
    BY <2>1, <2>2, <2>3 DEF Shape
<1>3. FindingsAreFacts
  BY DEF Init, DualInit, FindingsAreFacts
<1>4. Evidence /\ ToolIsTrue /\ FileIsTrue /\ ReadSince
  BY <1>2, <1>3 DEF Init, Evidence, ToolIsTrue, FileIsTrue, ReadSince
<1> QED
  BY <1>4 DEF IInv

\* The flags, the heads and the record of the projector keep their shape.
LEMMA ShapeStep == Shape /\ [Next]_vars => Shape'
<1> SUFFICES ASSUME HeadsShape, FlagsShape, ToolShape, [Next]_vars PROVE Shape'
  BY DEF Shape
<1>1. HeadsShape'
  <2>1. CASE EditAuthority
    <3>1. PICK f \in Facts : heads' = Append(heads, f)
      BY <2>1 DEF EditAuthority
    <3>2. heads' \in Seq(Facts) /\ Len(heads') = Len(heads) + 1
      BY <3>1 DEF HeadsShape
    <3> QED
      BY <2>1, <3>2, AdmissionAssumption DEF EditAuthority, HeadsShape
  <2>2. CASE heads' = heads /\ checkout' \in {checkout, Len(heads)}
    BY <2>2 DEF HeadsShape
  <2>3. EditAuthority \/ (heads' = heads /\ checkout' \in {checkout, Len(heads)})
    BY DEF Next, vars, inputs, StartValidation, Validate, PublishIr, Begin, ReadIr,
           OpenOutput, WriteOutput, Compare, StopTool, OutsideTool
  <2> QED
    BY <2>1, <2>2, <2>3
<1>2. FlagsShape'
  <2>1. CASE StartValidation
    BY <2>1 DEF StartValidation, FlagsShape
  <2>2. CASE Validate
    BY <2>2 DEF Validate, FlagsShape, AddAuthoredSchema, AddTypespec,
                MatchGenerated, MatchWireSemantics, Admit
  <2>3. CASE UNCHANGED dualVars
    BY <2>3 DEF dualVars, FlagsShape
  <2>4. StartValidation \/ Validate \/ UNCHANGED dualVars
    BY DEF Next, vars, EditAuthority, PublishIr, Begin, ReadIr,
           OpenOutput, WriteOutput, Compare, StopTool, OutsideTool
  <2> QED
    BY <2>1, <2>2, <2>3, <2>4
<1>3. ToolShape'
  <2> USE DEF ToolShape
  <2>1. CASE Begin
    BY <2>1 DEF Begin
  <2>2. CASE ReadIr
    BY <2>2 DEF ReadIr, Exit
  <2>3. CASE OpenOutput
    BY <2>3 DEF OpenOutput, ToolStep
  <2>4. CASE WriteOutput
    BY <2>4 DEF WriteOutput, Exit
  <2>5. CASE Compare
    BY <2>5 DEF Compare, Exit
  <2>6. CASE StopTool
    BY <2>6 DEF StopTool, Exit
  <2>7. CASE UNCHANGED tool
    BY <2>7
  <2> QED
    BY <2>1, <2>2, <2>3, <2>4, <2>5, <2>6, <2>7
    DEF Next, vars, EditAuthority, StartValidation, Validate, PublishIr
<1> QED
  BY <1>1, <1>2, <1>3 DEF Shape

\* No step changes what is true of a head that exists.
LEMMA HeadsGrow ==
  Shape /\ [Next]_vars =>
    /\ Len(heads) <= Len(heads')
    /\ \A v \in 1..Len(heads) : heads'[v] = heads[v]
<1> SUFFICES ASSUME Shape, [Next]_vars
             PROVE  /\ Len(heads) <= Len(heads')
                    /\ \A v \in 1..Len(heads) : heads'[v] = heads[v]
  OBVIOUS
<1>1. CASE EditAuthority
  BY <1>1 DEF EditAuthority, Shape, HeadsShape
<1>2. CASE heads' = heads
  BY <1>2 DEF Shape, HeadsShape
<1>3. EditAuthority \/ heads' = heads
  BY DEF Next, vars, inputs, StartValidation, Validate, PublishIr, Begin, ReadIr,
         OpenOutput, WriteOutput, Compare, StopTool, OutsideTool
<1> QED
  BY <1>1, <1>2, <1>3

\* So what was true of an IR stays true.
LEMMA IrStaysTrue ==
  ASSUME Shape, [Next]_vars, NEW ir, IrIsTrue(ir)
  PROVE  IrIsTrue(ir)'
<1>1. Shape'
  BY ShapeStep
<1>2. ir.head \in 1..Len(heads') /\ heads'[ir.head] = heads[ir.head]
  BY HeadsGrow, <1>1 DEF IrIsTrue, Shape, HeadsShape
<1> QED
  BY <1>2 DEF IrIsTrue, AgreedHead

\* The validator's findings stay facts.
LEMMA FindingsStep == Shape /\ FindingsAreFacts /\ [Next]_vars => FindingsAreFacts'
<1> SUFFICES ASSUME Shape, FindingsAreFacts, [Next]_vars PROVE FindingsAreFacts'
  OBVIOUS
<1>1. CASE StartValidation
  BY <1>1 DEF StartValidation, FindingsAreFacts
<1>2. CASE Validate
  <2> USE DEF FindingsAreFacts, Validate, inputs
  <2>1. CASE heads[checkout].authored /\ AddAuthoredSchema
    BY <1>2, <2>1 DEF AddAuthoredSchema
  <2>2. CASE heads[checkout].typespec /\ AddTypespec
    BY <1>2, <2>2 DEF AddTypespec
  <2>3. CASE heads[checkout].schemas /\ MatchGenerated
    BY <1>2, <2>3 DEF MatchGenerated
  <2>4. CASE heads[checkout].wire /\ MatchWireSemantics
    BY <1>2, <2>4 DEF MatchWireSemantics
  <2>5. CASE Admit
    BY <1>2, <2>5 DEF Admit, BothAuthored
  <2> QED
    BY <1>2, <2>1, <2>2, <2>3, <2>4, <2>5
<1>3. CASE UNCHANGED <<dualVars, checkout>>
  <2>1. checkout > 0 => heads'[checkout] = heads[checkout]
    BY HeadsGrow DEF Shape, HeadsShape
  <2> QED
    BY <1>3, <2>1 DEF FindingsAreFacts, dualVars
<1>4. StartValidation \/ Validate \/ UNCHANGED <<dualVars, checkout>>
  BY DEF Next, vars, inputs, EditAuthority, PublishIr, Begin, ReadIr,
         OpenOutput, WriteOutput, Compare, StopTool, OutsideTool
<1> QED
  BY <1>1, <1>2, <1>3, <1>4

\* A published IR passed only over two authorities that agree.
LEMMA EvidenceStep == Evidence /\ [Next]_vars => Evidence'
<1> SUFFICES ASSUME Evidence, [Next]_vars PROVE Evidence'
  OBVIOUS
<1>1. Shape /\ Shape' /\ FindingsAreFacts /\ FindingsAreFacts'
  BY ShapeStep, FindingsStep DEF Evidence
<1>2. CASE PublishIr
  <2>1. PICK form \in Forms :
          contractIr' = [head |-> checkout, passed |-> admitted, form |-> form]
    BY <1>2 DEF PublishIr
  <2>2. admitted \in BOOLEAN
    BY <1>1 DEF Shape, FlagsShape
  <2>3. checkout \in 1..Len(heads) /\ checkout \in 1..(MaxEdits + 1)
    BY <1>1, <1>2, AdmissionAssumption DEF PublishIr, Shape, HeadsShape
  <2>4. admitted => AgreedHead(checkout)
    BY <1>1 DEF FindingsAreFacts, AgreedHead
  <2>5. IrIsTrue(contractIr')
    BY <2>1, <2>2, <2>3, <2>4 DEF IrIsTrue, IrType
  <2> QED
    BY <1>1, <1>2, <2>5 DEF Evidence, PublishIr, IrIsTrue, AgreedHead
<1>3. CASE contractIr' = contractIr
  BY <1>1, <1>3, IrStaysTrue DEF Evidence
<1>4. PublishIr \/ contractIr' = contractIr
  BY DEF Next, vars, inputs, EditAuthority, StartValidation, Validate, Begin,
         ReadIr, OpenOutput, WriteOutput, Compare, StopTool, OutsideTool
<1> QED
  BY <1>2, <1>3, <1>4

\* What the projector holds and what it wrote stay projections of true IRs.
LEMMA FilesStep == IInv /\ [Next]_vars => (ToolIsTrue /\ FileIsTrue /\ ReadSince)'
<1> SUFFICES ASSUME IInv, [Next]_vars
             PROVE  (ToolIsTrue /\ FileIsTrue /\ ReadSince)'
  OBVIOUS
<1> USE DEF ToolIsTrue, FileIsTrue, ReadSince
<1>1. Shape /\ Evidence /\ ToolIsTrue /\ FileIsTrue /\ ReadSince
  BY DEF IInv, Evidence
<1>2. tool = [pc |-> tool.pc, mode |-> tool.mode, ir |-> tool.ir]
  BY <1>1 DEF Shape, ToolShape
<1>3. ASSUME NEW ir, IrIsTrue(ir) PROVE IrIsTrue(ir)'
  BY <1>1, <1>3, IrStaysTrue
<1>4. CASE Begin
  <2>1. tool'.pc = "read" /\ UNCHANGED <<projection, origin>>
    BY <1>4 DEF Begin
  <2> QED
    BY <1>1, <1>3, <2>1
<1>5. CASE ReadIr
  <2>1. /\ UNCHANGED <<projection, origin, contractIr>>
        /\ \/ tool'.ir = contractIr /\ contractIr # NoIr /\ Projectable(contractIr)
           \/ tool'.pc = "refused"
    BY <1>2, <1>5 DEF ReadIr, Exit, HasIr, OutsideTool, inputs
  <2>2. contractIr # NoIr => IrIsTrue(contractIr)'
    BY <1>1, <1>3, <2>1 DEF Evidence
  <2> QED
    BY <1>1, <1>3, <2>1, <2>2
<1>6. CASE OpenOutput
  <2>1. projection' = Torn /\ tool'.pc = "write" /\ tool'.ir = tool.ir
        /\ tool.pc = "open"
    BY <1>2, <1>6 DEF OpenOutput, ToolStep
  <2> QED
    BY <1>1, <1>3, <2>1
<1>7. CASE WriteOutput
  <2>1. projection' = Project(tool.ir) /\ origin' = tool.ir
        /\ tool.pc = "write" /\ tool'.pc = "written"
    BY <1>2, <1>7 DEF WriteOutput, Exit
  <2> QED
    BY <1>1, <1>3, <2>1
<1>8. CASE Compare \/ StopTool
  <2>1. UNCHANGED <<projection, origin>>
        /\ tool'.pc \in {"refused", "current", "drift", "stopped"}
    BY <1>2, <1>8 DEF Compare, StopTool, Exit
  <2> QED
    BY <1>1, <1>3, <2>1
<1>9. CASE PublishIr
  <2>1. UNCHANGED <<projection, origin, tool>> /\ moved' = TRUE
    BY <1>9 DEF PublishIr
  <2> QED
    BY <1>1, <1>3, <2>1
<1>10. CASE UNCHANGED <<projection, origin, tool, contractIr, moved>>
  BY <1>1, <1>3, <1>10
<1> QED
  BY <1>4, <1>5, <1>6, <1>7, <1>8, <1>9, <1>10
  DEF Next, vars, inputs, EditAuthority, StartValidation, Validate

\* The inductive invariant holds throughout.
THEOREM Inductive == Spec => []IInv
<1>1. IInv /\ [Next]_vars => IInv'
  BY EvidenceStep, FilesStep DEF IInv
<1> QED
  BY InitHolds, <1>1, PTL DEF Spec

-----------------------------------------------------------------------------
\* Every whole projection describes a head whose two authorities exist and
\* agree, for any heads, IRs and stops (project-admitted-contract-ir.mjs).
THEOREM ProjectionIsAgreed == Spec => []OnlyAgreedContent
<1>1. IInv => OnlyAgreedContent
  <2> SUFFICES ASSUME IInv, Whole(projection) PROVE AgreedHead(projection.head)
    BY DEF OnlyAgreedContent, AgreedHead
  <2>1. projection = Project(origin) /\ IrIsTrue(origin) /\ Projectable(origin)
    BY DEF IInv, FileIsTrue, Whole
  <2> QED
    BY <2>1 DEF Project, IrIsTrue, Projectable
<1> QED
  BY Inductive, <1>1, PTL

\* A sequence without repetitions has as many elements as it has places.
LEMMA DistinctNames ==
  ASSUME NEW s \in Seq(DeclarationType),
         \A i, j \in DOMAIN s : s[i].name = s[j].name => i = j
  PROVE  Cardinality(NamesOf(s)) = Len(s)
<1> DEFINE name == [i \in 1..Len(s) |-> s[i].name]
<1>1. name \in Bijection(1..Len(s), NamesOf(s))
  <2>1. name \in [1..Len(s) -> NamesOf(s)]
    BY DEF NamesOf
  <2>2. \A i, j \in 1..Len(s) : name[i] = name[j] => i = j
    OBVIOUS
  <2>3. \A n \in NamesOf(s) : \E i \in 1..Len(s) : name[i] = n
    BY DEF NamesOf
  <2>4. name \in Injection(1..Len(s), NamesOf(s))
    BY <2>1, <2>2 DEF Injection, IsInjective
  <2>5. name \in Surjection(1..Len(s), NamesOf(s))
    BY <2>1, <2>3 DEF Surjection
  <2> QED
    BY <2>4, <2>5 DEF Bijection
<1>2. ExistsBijection(1..Len(s), NamesOf(s))
  BY <1>1 DEF ExistsBijection
<1> QED
  BY <1>2, FS_CountingElements

\* The projector drops and repeats no declaration, so that a consumer refuses
\* a whole projection only for want of an identity in its admission.
THEOREM ProjectionIsUsable == Spec => []RefusedForIdentity
<1>1. IInv => RefusedForIdentity
  <2> SUFFICES ASSUME IInv, Whole(projection)
               PROVE  Acceptable(projection) <=>
                        /\ origin.form.identified
                        /\ \A i \in DOMAIN origin.form.declarations :
                             origin.form.declarations[i].identified
    BY DEF RefusedForIdentity
  <2>1. projection = Project(origin) /\ IrIsTrue(origin) /\ Projectable(origin)
    BY DEF IInv, FileIsTrue, Whole
  <2> DEFINE declared == origin.form.declarations
  <2>2. declared \in Seq(DeclarationType)
    BY <2>1, AdmissionAssumption DEF IrIsTrue, IrType, FormType
  <2>3. Cardinality(NamesOf(declared)) = Len(declared) /\ declared # <<>>
    BY <2>1, <2>2, DistinctNames DEF Projectable
  <2> QED
    BY <2>1, <2>3 DEF Acceptable, Project
<1> QED
  BY Inductive, <1>1, PTL

\* A whole projection is replaced only by that of another clean admission.
THEOREM RefusalKeeps == Spec => RefusalKeepsFile
<1>1. IInv /\ [Next]_vars =>
        [Whole(projection) /\ projection' # projection =>
           tool.ir.passed /\ tool.ir.form.clean /\ tool.ir.form.complete]_vars
  <2> SUFFICES ASSUME IInv, [Next]_vars, projection' # projection
               PROVE  Projectable(tool.ir)
    BY DEF Projectable
  <2>1. tool.pc \in {"open", "write"}
    BY DEF Next, vars, inputs, EditAuthority, StartValidation, Validate, PublishIr,
           Begin, ReadIr, OpenOutput, WriteOutput, Compare, StopTool
  <2> QED
    BY <2>1 DEF IInv, ToolIsTrue
<1> QED
  BY Inductive, <1>1, PTL DEF Spec, RefusalKeepsFile

\* --check tells the truth of the IR and the file, unless the IR is published
\* again between the two reads.
THEOREM CheckTellsTheTruth == Spec => CheckIsTrue
<1>1. IInv /\ [Next]_vars =>
        [tool.pc = "compare" /\ ~moved =>
           /\ tool'.pc = "current" => projection = Project(contractIr)
           /\ tool'.pc = "drift" => projection # Project(contractIr)]_vars
  <2> SUFFICES ASSUME IInv, Next, tool.pc = "compare", ~moved
               PROVE  /\ tool'.pc = "current" => projection = Project(contractIr)
                      /\ tool'.pc = "drift" => projection # Project(contractIr)
    OBVIOUS
  <2>1. tool.ir = contractIr
    BY DEF IInv, ReadSince
  <2>2. tool = [pc |-> tool.pc, mode |-> tool.mode, ir |-> tool.ir]
    BY DEF IInv, Evidence, Shape, ToolShape
  <2>3. CASE Compare
    BY <2>1, <2>2, <2>3 DEF Compare, Exit, SameText
  <2>4. CASE tool'.pc \in {"compare", "stopped"}
    BY <2>4
  <2>5. Compare \/ tool'.pc \in {"compare", "stopped"}
    BY <2>2 DEF Next, EditAuthority, StartValidation, Validate, PublishIr, Begin,
                ReadIr, OpenOutput, WriteOutput, StopTool, Exit
  <2> QED
    BY <2>3, <2>4, <2>5
<1> QED
  BY Inductive, <1>1, PTL DEF Spec, CheckIsTrue

-----------------------------------------------------------------------------
(* The types                                                                *)

\* The IR the projector holds, and the one the file came from, are true IRs too.
Tidy == /\ tool.ir = NoIr \/ IrIsTrue(tool.ir)
        /\ origin = NoIr \/ IrIsTrue(origin)
        /\ moved \in BOOLEAN

LEMMA TidyStep == IInv /\ Tidy /\ [Next]_vars => Tidy'
<1> SUFFICES ASSUME IInv, Tidy, [Next]_vars PROVE Tidy'
  OBVIOUS
<1>1. Evidence /\ Evidence' /\ Shape
  BY EvidenceStep DEF IInv, Evidence
<1>2. tool = [pc |-> tool.pc, mode |-> tool.mode, ir |-> tool.ir]
  BY <1>1 DEF Shape, ToolShape
<1>3. ASSUME NEW ir, IrIsTrue(ir) PROVE IrIsTrue(ir)'
  BY <1>1, <1>3, IrStaysTrue
<1>4. CASE ReadIr
  <2>1. tool'.ir \in {contractIr', NoIr} /\ origin' = origin /\ moved' = FALSE
    BY <1>2, <1>4 DEF ReadIr, Exit, OutsideTool, inputs
  <2>2. contractIr' = NoIr \/ IrIsTrue(contractIr)'
    BY <1>1 DEF Evidence
  <2> QED
    BY <1>3, <2>1, <2>2 DEF Tidy
<1>5. CASE WriteOutput
  <2>1. tool'.ir = NoIr /\ origin' = tool.ir /\ moved' = moved
    BY <1>2, <1>5 DEF WriteOutput, Exit
  <2> QED
    BY <1>3, <2>1 DEF Tidy
<1>6. CASE Begin \/ OpenOutput \/ Compare \/ StopTool
  <2>1. tool'.ir \in {tool.ir, NoIr} /\ origin' = origin /\ moved' = moved
    <3>1. CASE Begin
      BY <3>1 DEF Begin
    <3>2. CASE OpenOutput
      BY <1>2, <3>2 DEF OpenOutput, ToolStep
    <3>3. CASE Compare
      BY <1>2, <3>3 DEF Compare, Exit
    <3>4. CASE StopTool
      BY <1>2, <3>4 DEF StopTool, Exit
    <3> QED
      BY <1>6, <3>1, <3>2, <3>3, <3>4
  <2> QED
    BY <1>3, <2>1 DEF Tidy
<1>7. CASE UNCHANGED <<tool, origin>> /\ moved' \in {moved, TRUE}
  BY <1>3, <1>7 DEF Tidy
<1> QED
  BY <1>4, <1>5, <1>6, <1>7
  DEF Next, vars, EditAuthority, StartValidation, Validate, PublishIr

\* What is projected from an IR has the form of a projection.
LEMMA ProjectType ==
  ASSUME NEW ir \in IrType PROVE Project(ir) \in ContentType
<1>1. ir.form \in FormType
  BY AdmissionAssumption DEF IrType
<1>2. ir.form.declarations \in Seq(DeclarationType) /\ ir.form.identified \in BOOLEAN
  BY <1>1 DEF FormType
<1>3. NamesOf(ir.form.declarations) \subseteq Names
  <2> DEFINE declared == ir.form.declarations
  <2>1. \A i \in DOMAIN declared : declared[i] \in DeclarationType
    BY <1>2
  <2>2. \A i \in DOMAIN declared : declared[i].name \in Names
    BY <2>1 DEF DeclarationType
  <2> QED
    BY <2>2 DEF NamesOf
<1> QED
  BY <1>2, <1>3 DEF Project, ContentType, IrType

\* Every variable of the admission, its evidence, its files and its projector
\* keeps its type, and no IR speaks of a head that does not exist.
THEOREM TypeCorrect == Spec => []TypeOK
<1>1. Init => Tidy
  <2> SUFFICES ASSUME Init PROVE Tidy
    OBVIOUS
  <2>1. tool.ir = NoIr /\ origin = NoIr /\ moved = FALSE
    BY DEF Init
  <2> QED
    BY <2>1 DEF Tidy
<1>2. IInv /\ Tidy => TypeOK
  <2> SUFFICES ASSUME IInv, Tidy PROVE TypeOK
    OBVIOUS
  <2>1. Shape /\ FileIsTrue /\ (contractIr = NoIr \/ IrIsTrue(contractIr))
    BY DEF IInv, Evidence
  <2>2. dualVars \in BOOLEAN \X BOOLEAN \X BOOLEAN \X BOOLEAN \X BOOLEAN
    BY <2>1 DEF Shape, FlagsShape, dualVars
  <2>3. ASSUME NEW ir \in {contractIr, tool.ir, origin}
        PROVE  ~HasIr(ir) \/ (ir \in IrType /\ ir.head <= Len(heads))
    <3>1. ir = NoIr \/ IrIsTrue(ir)
      BY <2>1, <2>3 DEF Tidy
    <3> QED
      BY <2>1, <3>1 DEF HasIr, IrIsTrue, Shape, HeadsShape
  <2>4. ~Whole(projection) \/ projection \in ContentType
    BY <2>1, ProjectType DEF FileIsTrue, Whole, IrIsTrue
  <2> QED
    BY <2>1, <2>2, <2>3, <2>4 DEF TypeOK, Shape, HeadsShape, ToolShape, Tidy
<1> QED
  BY <1>1, <1>2, Inductive, TidyStep, PTL DEF Spec

\* check() of dual_authority_model.py:31-36.
Checked ==
  admitted => /\ authored_schema /\ typespec
              /\ generated_matches_authored /\ wire_semantics_match

\* What the admission model asserts of every state of its own search holds as
\* well when validations are started over, authorities edited and IRs published
\* in between; and what was admitted is so at the head that was checked out.
THEOREM Asserted ==
  Spec => [](Checked /\ (admitted => checkout > 0 /\ AgreedHead(checkout)))
<1>1. IInv => Checked /\ (admitted => checkout > 0 /\ AgreedHead(checkout))
  BY DEF IInv, Evidence, FindingsAreFacts, Checked, AgreedHead
<1> QED
  BY <1>1, Inductive, PTL
=============================================================================
