------------------------- MODULE ConsumerGeneration -------------------------
(***************************************************************************)
(* src/generate-admitted-contract-consumers.mjs: invocations that generate *)
(* a consumer bundle from admitted projections, or --check one.  Several   *)
(* may run at once on one output tree, each can be stopped between any two *)
(* file operations, and projections and the generator can be edited while  *)
(* they run.  File contents are abstracted to what they were made from.    *)
(***************************************************************************)
EXTENDS Naturals, Sequences, FiniteSets, Functions

CONSTANTS
  Invocations,   \* runs of the script
  Modes,         \* bound: the modes each of them may be called in
  MaxRunning,    \* bound: how many of them run at once
  Families,      \* contract families, numbered in localeCompare order
  Projections,   \* what a projection file can hold, see ProjectionType
  Leftovers,     \* bound: those of an earlier bundle that an edit puts back
  ArgLists,      \* --projection arguments, as sequences of families
  Languages,     \* files the language generator emits
  Retired,       \* files that only an earlier generator emitted
  RejectedVersions, \* projection versions generate.mjs exits non-zero on
  MaxEdits       \* bound: edits by hand, of any of the files

\* admitted: marked generated, derived from admitted Contract IR, with a run
\* id, a receipt digest and per-declaration digests that match its $defs.
\* names: the declarations it defines.  version: the rest of its text.
ProjectionType == [admitted : BOOLEAN, names : SUBSET STRING, version : Nat]

ASSUME ConsumerAssumption ==
  /\ Families \subseteq Nat
  /\ Projections \subseteq ProjectionType /\ Leftovers \subseteq Projections
  /\ MaxEdits \in Nat
  /\ Modes \in [Invocations -> SUBSET {"output", "check"}]
  /\ \A args \in ArgLists : args \in Seq(Families) /\ args # <<>>
  /\ "contract-provenance.json" \notin Languages \cup Retired
  /\ Languages \cap Retired = {}

VARIABLES
  source,     \* source[f]: the projection file of family f
  generator,  \* the version of src/generate.mjs on disk
  tree,       \* tree[n]: what file n of the output directory was made from
  worker,     \* worker[w]: local state of invocation w
  edits,      \* edits so far
  \* history, read by the properties only
  touched,    \* invocations that changed the output tree
  moved,      \* moved[w]: the tree changed since w listed it
  overlapped  \* two wrote the tree at once, or somebody else did

vars == <<source, generator, tree, worker, edits, touched, moved, overlapped>>

Provenance == "contract-provenance.json"
Bundle == Languages \cup {Provenance}
Files == Bundle \cup Retired

\* One validated input, and what a file was made from.
Input == [family : Families, file : Projections]
Content == [generator : Nat, inputs : Seq(Input)]
Missing == [generator |-> 0, inputs |-> <<>>]
Present(n) == tree[n] # Missing

Idle == [pc |-> "idle", mode |-> "output", todo |-> <<>>, inputs |-> <<>>,
         staged |-> 0, made |-> Missing, uncopied |-> Languages, bound |-> Missing]

Ended == {"done", "current", "drift", "refused", "stopped"}
Writing == {"remove", "copy", "provenance"}
Pcs == {"idle", "read", "stage", "spawn", "bind", "list", "compare"}
       \cup Writing \cup Ended

WorkerType == [pc : Pcs, mode : {"output", "check"}, todo : Seq(Families),
               inputs : Seq(Input), staged : Nat, made : Content,
               uncopied : SUBSET Languages, bound : Content]

TypeOK ==
  /\ source \in [Families -> Projections]
  /\ edits \in 0..MaxEdits
  /\ generator \in 1..(edits + 1)
  /\ tree \in [Files -> Content]
  /\ worker \in [Invocations -> WorkerType]
  /\ touched \subseteq Invocations
  /\ moved \subseteq Invocations
  /\ overlapped \in BOOLEAN

\* A family given twice, or a declaration admitted by two families.
Collides(inputs) ==
  \E i, j \in DOMAIN inputs : i < j /\
    \/ inputs[i].family = inputs[j].family
    \/ inputs[i].file.names \cap inputs[j].file.names # {}

\* Mutant: the inputs keep the order of the arguments.
ArgumentOrder(inputs) == inputs

\* How many of the inputs come no later than x.
Rank(inputs, x) == Cardinality({y \in Range(inputs) : y.family <= x.family})

\* inputs.sort by family, of inputs whose families are distinct.
ByFamily(inputs) ==
  [k \in DOMAIN inputs |-> CHOOSE x \in Range(inputs) : Rank(inputs, x) = k]

\* What validateProjection makes of arguments whose files stand still.
Given(args) ==
  [i \in DOMAIN args |-> [family |-> args[i], file |-> source[args[i]]]]

\* The output directory is absent, or holds a complete bundle by this
\* generator or by an earlier one, which emitted more.
Init ==
  /\ source \in [Families -> Projections]
  /\ generator = 1
  /\ \/ tree = [n \in Files |-> Missing]
     \/ \E args \in ArgLists \cup {<<f>> : f \in Families}, g \in {0, 1} :
          /\ \A i \in DOMAIN args : /\ source[args[i]].admitted
                                   /\ source[args[i]].version \notin RejectedVersions
          /\ ~Collides(Given(args))
          /\ tree = [n \in Files |->
                       IF g = 1 /\ n \in Retired THEN Missing
                       ELSE [generator |-> g, inputs |-> ByFamily(Given(args))]]
  /\ worker = [w \in Invocations |-> Idle]
  /\ edits = 0
  /\ touched = {} /\ moved = {} /\ overlapped = FALSE

Running == {w \in Invocations : worker[w].pc \notin Ended \cup {"idle"}}

Step(w, pc) == worker' = [worker EXCEPT ![w].pc = pc]
\* The process is gone, and its scratch directories with it.
Exit(w, pc) ==
  worker' = [worker EXCEPT ![w] = [Idle EXCEPT !.pc = pc, !.mode = worker[w].mode]]
TreeKept == UNCHANGED <<tree, touched, moved, overlapped>>
TreeChanged(w) ==
  /\ touched' = touched \cup {w}
  /\ moved' = Invocations
  /\ overlapped' = (overlapped \/ \E v \in Invocations \ {w} :
                                    worker[v].pc \in Writing)
World == UNCHANGED <<source, generator, edits>>

-----------------------------------------------------------------------------
(* generateFromAdmittedProjections *)

\* parseArgs: exactly one of --output and --check, at least one projection.
Begin(w) ==
  /\ worker[w].pc = "idle"
  /\ Cardinality(Running) < MaxRunning
  /\ \E args \in ArgLists, mode \in Modes[w] :
       worker' = [worker EXCEPT ![w].pc = "read", ![w].mode = mode,
                                ![w].todo = args]
  /\ TreeKept /\ World

\* validateProjection of the next argument: the file is read once, here.
ReadProjection(w) ==
  /\ worker[w].pc = "read"
  /\ LET f == Head(worker[w].todo) IN
       IF source[f].admitted
       THEN worker' = [worker EXCEPT
              ![w].pc = IF Len(worker[w].todo) = 1 THEN "stage" ELSE "read",
              ![w].todo = Tail(@),
              ![w].inputs = Append(@, [family |-> f, file |-> source[f]])]
       ELSE Exit(w, "refused")
  /\ TreeKept /\ World

\* Mutant: what is staged is read from the projection files again.
StageFromFiles(w) ==
  /\ worker[w].pc = "stage"
  /\ IF Collides(worker[w].inputs)
     THEN Exit(w, "refused")
     ELSE worker' = [worker EXCEPT
            ![w].pc = "spawn", ![w].staged = generator,
            ![w].inputs = ByFamily(Given([i \in DOMAIN @ |-> @[i].family]))]
  /\ TreeKept /\ World

\* The collision checks; then the generator is copied beside the schemas.
Stage(w) ==
  /\ worker[w].pc = "stage"
  /\ IF Collides(worker[w].inputs)
     THEN Exit(w, "refused")
     ELSE worker' = [worker EXCEPT ![w].pc = "spawn", ![w].staged = generator,
                                   ![w].inputs = ByFamily(@)]
  /\ TreeKept /\ World

\* Mutant: the old output is removed before the generator has succeeded.
SpawnAfterRemoving(w) ==
  /\ worker[w].pc = "spawn"
  /\ LET me == worker[w] IN
       IF \E i \in DOMAIN me.inputs :
            me.inputs[i].file.version \in RejectedVersions
       THEN /\ Exit(w, "refused")
            /\ tree' = [n \in Files |-> Missing]
            /\ TreeChanged(w)
       ELSE /\ worker' = [worker EXCEPT
                 ![w].pc = IF me.mode = "output" THEN "remove" ELSE "bind",
                 ![w].made = [generator |-> me.staged, inputs |-> me.inputs]]
            /\ TreeKept
  /\ World

\* The staged generator runs in the temporary tree.
Spawn(w) ==
  /\ worker[w].pc = "spawn"
  /\ LET me == worker[w] IN
       IF \E i \in DOMAIN me.inputs :
            me.inputs[i].file.version \in RejectedVersions
       THEN Exit(w, "refused")
       ELSE worker' = [worker EXCEPT
              ![w].pc = IF me.mode = "output" THEN "remove" ELSE "bind",
              ![w].made = [generator |-> me.staged, inputs |-> me.inputs]]
  /\ TreeKept /\ World

\* Mutant: an existing output directory is kept and written over.
RemoveNothing(w) ==
  /\ worker[w].pc = "remove"
  /\ Step(w, "copy")
  /\ TreeKept /\ World

\* rmSync(outputDir), one file at a time in no particular order.
RemoveOutput(w) ==
  /\ worker[w].pc = "remove"
  /\ \/ /\ \E n \in Files : Present(n) /\ tree' = [tree EXCEPT ![n] = Missing]
        /\ TreeChanged(w)
        /\ UNCHANGED worker
     \/ /\ \A n \in Files : ~Present(n)
        /\ Step(w, "copy")
        /\ TreeKept
  /\ World

\* cpSync(tempGenerated, outputDir): every file once, in some order, whatever
\* another invocation has made of the ones copied before.
Copy(w) ==
  /\ worker[w].pc = "copy"
  /\ \E n \in worker[w].uncopied :
       /\ tree' = [tree EXCEPT ![n] = worker[w].made]
       /\ worker' = [worker EXCEPT
            ![w].pc = IF worker[w].uncopied = {n} THEN "provenance" ELSE "copy",
            ![w].uncopied = @ \ {n}]
  /\ TreeChanged(w) /\ World

\* buildProvenance reads the generator again, after it has been run.
BuildProvenance(w) == [generator |-> generator, inputs |-> worker[w].inputs]

WriteProvenance(w) ==
  /\ worker[w].pc = "provenance"
  /\ tree' = [tree EXCEPT ![Provenance] = BuildProvenance(w)]
  /\ TreeChanged(w)
  /\ Exit(w, "done")
  /\ World

-----------------------------------------------------------------------------
(* --check: the same into a scratch directory, then compareTrees *)

Bind(w) ==
  /\ worker[w].pc = "bind"
  /\ worker' = [worker EXCEPT ![w].pc = "list",
                              ![w].bound = BuildProvenance(w)]
  /\ TreeKept /\ World

\* The file sets must be equal.
List(w) ==
  /\ worker[w].pc = "list"
  /\ Step(w, IF \A n \in Files : Present(n) <=> n \in Bundle
             THEN "compare" ELSE "drift")
  /\ moved' = moved \ {w}
  /\ UNCHANGED <<tree, touched, overlapped>> /\ World

\* Mutant: the provenance is taken for the bundle it describes.
CompareProvenance(w) ==
  /\ worker[w].pc = "compare"
  /\ Step(w, IF tree[Provenance] = worker[w].bound THEN "current" ELSE "drift")
  /\ TreeKept /\ World

\* The contents must be equal; a file that has gone meanwhile is an error.
Compare(w) ==
  /\ worker[w].pc = "compare"
  /\ Step(w, IF /\ \A n \in Languages : tree[n] = worker[w].made
                /\ tree[Provenance] = worker[w].bound
             THEN "current" ELSE "drift")
  /\ TreeKept /\ World

-----------------------------------------------------------------------------
(* The environment *)

\* A failed file operation, a cancelled job, a killed process.
Stop(w) ==
  /\ w \in Running
  /\ Exit(w, "stopped")
  /\ TreeKept /\ World

\* The projector writes a projection again, or somebody puts a file there.
EditProjection(f) ==
  /\ edits < MaxEdits
  /\ edits' = edits + 1
  /\ \E p \in Projections \ {source[f]} : source' = [source EXCEPT ![f] = p]
  /\ UNCHANGED <<generator, worker>> /\ TreeKept

\* src/generate.mjs is edited or checked out anew.
EditGenerator ==
  /\ edits < MaxEdits
  /\ edits' = edits + 1
  /\ generator' = generator + 1
  /\ UNCHANGED <<source, worker>> /\ TreeKept

\* A merge or a checkout deletes a file of the output tree, or puts back the
\* one an earlier generator made.
EditTree(n) ==
  /\ edits < MaxEdits
  /\ edits' = edits + 1
  /\ \/ Present(n) /\ tree' = [tree EXCEPT ![n] = Missing]
     \/ \E f \in Families, p \in {q \in Leftovers : q.admitted} :
          tree' = [tree EXCEPT ![n] = [generator |-> 0,
                     inputs |-> <<[family |-> f, file |-> p]>>]]
  /\ moved' = Invocations
  /\ overlapped' = TRUE
  /\ UNCHANGED <<source, generator, worker, touched>>

Invoke(w) ==
  \/ ReadProjection(w) \/ Stage(w) \/ Spawn(w)
  \/ RemoveOutput(w) \/ Copy(w) \/ WriteProvenance(w)
  \/ Bind(w) \/ List(w) \/ Compare(w)

Next ==
  \/ \E w \in Invocations : Begin(w) \/ Invoke(w) \/ Stop(w)
  \/ \E f \in Families : EditProjection(f)
  \/ \E n \in Files : EditTree(n)
  \/ EditGenerator

Spec == Init /\ [][Next]_vars

-----------------------------------------------------------------------------
(* Properties *)

\* Every file of the output tree, even of a bundle half written, was made
\* from admitted projections of distinct families with distinct declarations,
\* whatever became of the projection files while the invocation ran.
OnlyAdmittedContent ==
  \A n \in Files :
    /\ \A i \in DOMAIN tree[n].inputs : tree[n].inputs[i].file.admitted
    /\ \A i, j \in DOMAIN tree[n].inputs : i # j =>
         /\ tree[n].inputs[i].family # tree[n].inputs[j].family
         /\ tree[n].inputs[i].file.names \cap tree[n].inputs[j].file.names = {}

\* An invocation that refuses its inputs, or only checks, leaves the output
\* tree of the last good bundle alone.
RefusalTouchesNothing ==
  \A w \in touched : worker[w].pc # "refused" /\ worker[w].mode = "output"

\* Unless two wrote at once or a file was put back, the files of the tree belong
\* together: none of them is left from another bundle than the provenance's.
NoMixedBundle ==
  ~overlapped =>
    \A m, n \in Files : Present(m) /\ Present(n) => tree[m].inputs = tree[n].inputs

\* The tree is the complete bundle of these inputs by this generator.
Whole(inputs, gen) ==
  /\ \A n \in Files : Present(n) <=> n \in Bundle
  /\ \A n \in Bundle : Range(tree[n].inputs) = Range(inputs)
  /\ \A n \in Languages : tree[n].generator = gen

\* A bundle that passes --check is what one undisturbed invocation would have
\* left: --check notices the mixture of two that wrote at once and both
\* succeeded, even if the last one's provenance is right, and the missing,
\* older or surplus file that a crash or a merge left.  If the generator stood
\* still during the check, it is also the one the provenance names, however it
\* was edited while the bundle was written.
CurrentIsWhole ==
  \A w \in Invocations : worker[w].pc = "current" /\ w \notin moved =>
    /\ Whole(worker[w].inputs, worker[w].staged)
    /\ worker[w].bound.generator = worker[w].staged =>
         tree[Provenance].generator = worker[w].staged

\* --check does not cry drift over a whole bundle: generation depends on the
\* projections and not on the order of the arguments.
DriftIsReal ==
  \A w \in Invocations : worker[w].pc = "drift" /\ w \notin moved =>
    ~ /\ Whole(worker[w].inputs, worker[w].staged)
      /\ tree[Provenance].generator = worker[w].bound.generator
=============================================================================
