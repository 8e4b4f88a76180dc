-------------------------- MODULE SchemaGenerator --------------------------
(***************************************************************************)
(* `npm run generate` and `npm run check`: the pre-interest contract is    *)
(* projected into a schema file (scripts/project-pre-interest-contract.mjs)*)
(* and the schema files are emitted as adapters (src/generate.mjs, composed*)
(* by src/generate-output.mjs).  One command runs at a time, reads and     *)
(* writes one file after the other, and can be stopped between or in the   *)
(* middle of two of them; contract, schemas and adapters can be edited     *)
(* meanwhile.  An adapter's text is abstracted to the types it was emitted *)
(* from.                                                                   *)
(***************************************************************************)
EXTENDS SchemaSymbols, SequencesExt

CONSTANTS
  Index,       \* schemas of schema/index.json, a sequence of files
  Projected,   \* the file the pre-interest projection writes
  Adapters,    \* files the emitters return, in their order
  Manifest,    \* rust-wasm/Cargo.toml, which generate-output.mjs patches
  Contracts,   \* what the contract source can hold
  Documents,   \* what an authored schema file can hold
  Revisions,   \* what an edit can make of one
  MaxCommands, \* bound: commands that are run
  MaxEdits     \* bound: edits by hand, of any of the files

SchemaFiles == {Index[i] : i \in 1..Len(Index)}
Outputs == {Adapters[i] : i \in 1..Len(Adapters)}

\* A contract: valid says that identity, names and shapes are those
\* validateContractSource expects, enums[e] is the vocabulary of enum type e,
\* types are the object types, whose refs name enum types.
ASSUME GeneratorAssumption ==
  /\ Index \in Seq(STRING) /\ Index # <<>>
  /\ Projected \in SchemaFiles
  /\ Adapters \in Seq(STRING) /\ Adapters # <<>>
  /\ Manifest \in Outputs
  /\ \A d \in Documents \cup Revisions : d = NoDocument \/ d \in Seq(Types)
  /\ \A c \in Contracts :
       /\ c.valid \in BOOLEAN /\ c.types \in Seq(Types)
       /\ \A e \in DOMAIN c.enums : c.enums[e] \in Seq(Names)
  /\ MaxCommands \in Nat /\ MaxEdits \in Nat

VARIABLES
  contract,   \* the contract source
  schema,     \* schema[f]: the types file f defines, or NoDocument
  tree,       \* tree[f]: what file f under generated/ holds
  command,    \* the last command: through npm or bare generate.mjs, check or write
  pc,         \* where it is
  at,         \* the file it reads, writes or compares next
  loaded,     \* the types it has read
  drift,      \* files that differ, so far
  commands, edits, \* counted for the bounds
  \* history, read by the properties only
  before,     \* the tree when the command began
  edited      \* somebody edited a file since

local == <<command, pc, at, loaded, drift>>
files == <<contract, schema, tree>>
vars == <<contract, schema, tree, command, pc, at, loaded, drift, commands,
          edits, before, edited>>

Absent == [kind |-> "absent"]
Torn == [kind |-> "torn"]      \* written in part, or by hand

Ended == {"idle", "succeeded", "stale", "drift", "refused", "stopped"}

-----------------------------------------------------------------------------
(* What is computed in memory *)

\* inlineReferences: a reference to an enum type becomes its values.
Inlined(c, type) ==
  [type EXCEPT !.props =
     [i \in 1..Len(type.props) |->
        IF type.props[i].ref = <<>> THEN type.props[i]
        ELSE [type.props[i] EXCEPT !.values = c.enums[type.props[i].ref],
                                   !.ref = <<>>]]]

\* validateContractSource and inlineReferences, where they throw.
ContractAccepted(c) ==
  /\ c.valid
  /\ \A e \in DOMAIN c.enums :
       c.enums[e] # <<>> /\ LET Text(v) == v IN Distinct(c.enums[e], Text)
  /\ \A t \in 1..Len(c.types) : \A i \in 1..Len(c.types[t].props) :
       c.types[t].props[i].ref \in DOMAIN c.enums \cup {<<>>}

Projection(c) == [t \in 1..Len(c.types) |-> Inlined(c, c.types[t])]

\* What the emitters return for file f; generate-output.mjs patches the manifest.
Emitted(npm, types, f) ==
  IF f = Manifest THEN [kind |-> IF npm THEN "packaged manifest" ELSE "manifest"]
  ELSE [kind |-> "adapter", types |-> types]

-----------------------------------------------------------------------------
\* What a projection, of this contract or of an earlier one, left.
Projections == {NoDocument} \cup {Projection(c) : c \in {k \in Contracts : ContractAccepted(k)}}

Init ==
  /\ contract \in Contracts
  /\ schema \in [SchemaFiles -> Documents \cup Projections]
  /\ schema[Projected] \in Projections
  /\ \A f \in SchemaFiles \ {Projected} : schema[f] \in Documents
  /\ tree = [f \in Outputs |-> Absent]
  /\ command = [npm |-> TRUE, check |-> FALSE]
  /\ pc = "idle" /\ at = 1 /\ loaded = <<>> /\ drift = 0
  /\ commands = 0 /\ edits = 0
  /\ before = tree /\ edited = FALSE

\* The process is gone, and what it read with it.
Finish(outcome) ==
  /\ pc' = outcome /\ at' = 1 /\ loaded' = <<>> /\ drift' = 0
  /\ UNCHANGED command

Goto(label, types) ==
  /\ pc' = label /\ at' = 1 /\ loaded' = types
  /\ UNCHANGED <<command, drift>>

Kept == UNCHANGED <<commands, edits, before, edited>>

\* npm run generate and check project first; `node src/generate.mjs` does not.
Begin ==
  /\ pc \in Ended
  /\ commands < MaxCommands
  /\ \E npm, check \in BOOLEAN :
       /\ command' = [npm |-> npm, check |-> check]
       /\ pc' = IF npm THEN "project" ELSE "load"
  /\ at' = 1 /\ loaded' = <<>> /\ drift' = 0
  /\ commands' = commands + 1
  /\ before' = tree /\ edited' = FALSE
  /\ UNCHANGED <<contract, schema, tree, edits>>

\* loadSource, and the projection rendered from it.
ReadContract ==
  /\ pc = "project"
  /\ IF ContractAccepted(contract) THEN Goto("projection", Projection(contract))
     ELSE Finish("refused")
  /\ Kept /\ UNCHANGED files

\* writeProjection.
WriteProjection ==
  /\ pc = "projection" /\ ~command.check
  /\ schema' = [schema EXCEPT ![Projected] = loaded]
  /\ Goto("load", <<>>)
  /\ Kept /\ UNCHANGED <<contract, tree>>

\* checkProjection; npm runs the second script only if the first succeeded.
CheckProjection ==
  /\ pc = "projection" /\ command.check
  /\ IF schema[Projected] = loaded THEN Goto("load", <<>>) ELSE Finish("stale")
  /\ Kept /\ UNCHANGED files

\* Mutant: an emitter writes its file before the next one runs.
ReadSchemaEmitting ==
  /\ pc = "load"
  /\ LET document == schema[Index[at]]
         types == loaded \o document
     IN IF ~DocumentAccepted(loaded, document)
        THEN Finish("refused") /\ UNCHANGED tree
        ELSE IF at < Len(Index)
        THEN /\ at' = at + 1 /\ loaded' = types
             /\ UNCHANGED <<command, pc, drift, tree>>
        ELSE IF Emittable(types) THEN Goto("output", types) /\ UNCHANGED tree
        ELSE /\ Finish("refused")
             /\ tree' = IF RefsKnown(types) /\ EnumsAccepted(types) /\ ~command.check
                        THEN [tree EXCEPT ![Adapters[1]] =
                                Emitted(command.npm, types, Adapters[1])]
                        ELSE tree
  /\ Kept /\ UNCHANGED <<contract, schema>>

\* loadTypes reads the next schema file; after the last one the references
\* are resolved and all emitters run.
ReadSchema ==
  /\ pc = "load"
  /\ LET document == schema[Index[at]]
         types == loaded \o document
     IN IF ~DocumentAccepted(loaded, document) THEN Finish("refused")
        ELSE IF at < Len(Index)
        THEN /\ at' = at + 1 /\ loaded' = types
             /\ UNCHANGED <<command, pc, drift>>
        ELSE IF Emittable(types) THEN Goto("output", types)
        ELSE Finish("refused")
  /\ Kept /\ UNCHANGED files

\* One file of main()'s loop, written.
WriteFile ==
  /\ pc = "output" /\ ~command.check
  /\ tree' = [tree EXCEPT ![Adapters[at]] = Emitted(command.npm, loaded, Adapters[at])]
  /\ IF at < Len(Adapters)
     THEN at' = at + 1 /\ UNCHANGED <<command, pc, loaded, drift>>
     ELSE Finish("succeeded")
  /\ Kept /\ UNCHANGED <<contract, schema>>

\* Mutant: the exit code is that of the last file.
CheckFileLast ==
  /\ pc = "output" /\ command.check
  /\ LET differs == tree[Adapters[at]] # Emitted(command.npm, loaded, Adapters[at])
     IN IF at < Len(Adapters)
        THEN at' = at + 1 /\ UNCHANGED <<command, pc, loaded, drift>>
        ELSE Finish(IF differs THEN "drift" ELSE "succeeded")
  /\ Kept /\ UNCHANGED files

\* Mutant: the check builds without the patch of generate-output.mjs.
CheckFileUnpatched ==
  /\ pc = "output" /\ command.check
  /\ LET differs == tree[Adapters[at]] # Emitted(FALSE, loaded, Adapters[at])
         count == IF differs THEN drift + 1 ELSE drift
     IN IF at < Len(Adapters)
        THEN at' = at + 1 /\ drift' = count /\ UNCHANGED <<command, pc, loaded>>
        ELSE Finish(IF count > 0 THEN "drift" ELSE "succeeded")
  /\ Kept /\ UNCHANGED files

\* One file of main()'s loop, compared.
CheckFile ==
  /\ pc = "output" /\ command.check
  /\ LET differs == tree[Adapters[at]] # Emitted(command.npm, loaded, Adapters[at])
         count == IF differs THEN drift + 1 ELSE drift
     IN IF at < Len(Adapters)
        THEN at' = at + 1 /\ drift' = count /\ UNCHANGED <<command, pc, loaded>>
        ELSE Finish(IF count > 0 THEN "drift" ELSE "succeeded")
  /\ Kept /\ UNCHANGED files

\* The process ends anywhere; a file it was writing can be left in part.
Stop ==
  /\ pc \notin Ended
  /\ Finish("stopped")
  /\ \/ UNCHANGED <<schema, tree>>
     \/ /\ pc = "projection" /\ ~command.check
        /\ schema' = [schema EXCEPT ![Projected] = NoDocument]
        /\ UNCHANGED tree
     \/ /\ pc = "output" /\ ~command.check
        /\ tree' = [tree EXCEPT ![Adapters[at]] = Torn]
        /\ UNCHANGED schema
  /\ Kept /\ UNCHANGED contract

\* Somebody changes a contract, a schema or a generated file.
Edit ==
  /\ edits < MaxEdits
  /\ edits' = edits + 1 /\ edited' = TRUE
  /\ \/ contract' \in Contracts \ {contract} /\ UNCHANGED <<schema, tree>>
     \/ /\ \E f \in SchemaFiles, d \in Revisions :
             d # schema[f] /\ schema' = [schema EXCEPT ![f] = d]
        /\ UNCHANGED <<contract, tree>>
     \/ /\ \E f \in Outputs, content \in {Absent, Torn} :
             content # tree[f] /\ tree' = [tree EXCEPT ![f] = content]
        /\ UNCHANGED <<contract, schema>>
  /\ UNCHANGED <<local, commands, before>>

CommandStep ==
  \/ ReadContract \/ WriteProjection \/ CheckProjection
  \/ ReadSchema \/ WriteFile \/ CheckFile

Next == Begin \/ CommandStep \/ Stop \/ Edit

Spec == Init /\ [][Next]_vars

-----------------------------------------------------------------------------
(* Properties *)

\* Every variable has its type.
TypeOK ==
  /\ contract \in Contracts
  /\ \A f \in SchemaFiles : schema[f] = NoDocument \/ schema[f] \in Seq(Types)
  /\ DOMAIN schema = SchemaFiles /\ DOMAIN tree = Outputs
  /\ \A f \in Outputs :
       tree[f].kind = "adapter" => tree[f].types \in Seq(Types)
  /\ command \in [npm : BOOLEAN, check : BOOLEAN]
  /\ pc \in Ended \cup {"project", "projection", "load", "output"}
  /\ at \in 1..(IF pc = "output" THEN Len(Adapters) ELSE Len(Index))
  /\ loaded \in Seq(Types)
  /\ drift \in 0..(IF pc = "output" THEN at - 1 ELSE 0)
  /\ commands \in 0..MaxCommands /\ edits \in 0..MaxEdits
  /\ DOMAIN before = Outputs /\ edited \in BOOLEAN

\* All types the schema files define, in the order of the index.
Authored == FlattenSeq([i \in 1..Len(Index) |-> schema[Index[i]]])

\* A command that succeeded while nobody edited anything, whatever was stopped,
\* torn or edited before it, leaves (or, for a check, has found) every adapter
\* as the schema files say, and through npm the projection as the contract says.
SuccessMeansCurrent ==
  pc = "succeeded" /\ ~edited =>
    /\ \A f \in Outputs : tree[f] = Emitted(command.npm, Authored, f)
    /\ command.npm => /\ ContractAccepted(contract)
                      /\ schema[Projected] = Projection(contract)

\* npm run check complains of a real difference only: what npm run generate
\* wrote is accepted for as long as nobody edits, in spite of all that is
\* stopped in between.
ComplaintIsReal ==
  ~edited /\ command.npm =>
    /\ pc = "stale" => schema[Projected] # Projection(contract)
    /\ pc = "drift" => \E f \in Outputs : tree[f] # Emitted(TRUE, Authored, f)

\* A command that refuses a contract or a schema, even in the emitter that is
\* last, leaves every adapter as it was.
RefusalKeepsTree ==
  pc = "refused" /\ ~edited => tree = before

\* No Go struct in the tree has two fields of one name.  emitGo does not look;
\* it relies on emitDart refusing the same types.
GoFieldsAreDistinct ==
  LET GoIdent(prop) == Pascal(prop.name)
  IN \A f \in Outputs : tree[f].kind = "adapter" =>
       \A t \in 1..Len(tree[f].types) : Distinct(tree[f].types[t].props, GoIdent)

Acronym(name) == \E i \in 1..Len(name) : name[i].cap = "all"

\* No Rust struct in the tree has two fields of one name, if no wire name
\* holds an acronym in capitals.  renderRustBody does not look either, and a
\* field quoteId beside quoteID becomes quote_id twice.
RustFieldsAreDistinct ==
  \A f \in Outputs : tree[f].kind = "adapter" =>
    \A t \in 1..Len(tree[f].types) :
      LET props == tree[f].types[t].props
      IN \A i, j \in 1..Len(props) :
           /\ Snake(props[i].name) = Snake(props[j].name)
           /\ ~Acronym(props[i].name) /\ ~Acronym(props[j].name)
           => i = j

\* "rejects duplicate type names" (src/generate.mjs:11): the type that Rust and
\* Dart declare for a field's enum does not have the name of a type of the schema.
TypeNamesAreDistinct ==
  \A f \in Outputs : tree[f].kind = "adapter" =>
    \A e \in EnumFields(tree[f].types) :
      EnumTypeName(e[1], e[2]) \notin TypeNames(tree[f].types)
=============================================================================
