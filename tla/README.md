# Verification of canonical-interfaces

TLA+ models of the programs of this repository, the TLC runs that check them on
small instances, and TLAPS proofs of their central properties for every value
of the constants. Paths in this document are relative to the repository;
`py` is `scripts/ops-create-meta-agent-repo-selfhosted.py`.

1. [The system](#1-the-system)
2. [Modules and how they correspond to the code](#2-modules-and-how-they-correspond-to-the-code)
3. [Runs](#3-runs)
4. [Fairness](#4-fairness)
5. [Proofs](#5-proofs)
6. [Disagreements between code and documentation](#6-disagreements-between-code-and-documentation)
7. [What is not modelled](#7-what-is-not-modelled)
8. [Plan](#8-plan)

## 1. The system

The repository holds the wire contracts of canonical.cloud and the programs
that turn them into code, check them, and publish them. There is no server
here: the concurrent parts are scripts that talk to GitHub, to a browser, or
share directories.

| Component | State | Operations | Talks to |
|---|---|---|---|
| Publisher (`py`, workflow `ops-create-meta-agent-repo-selfhosted.yml`) | a GitHub repository with two refs, comments on an issue, the token of the owner | device authorization, owner checks, create, push, configure, verify, report | GitHub over REST and git; a person who enters a code; earlier and later runs through the repository they share |
| Device authorization loop (`authorize` in `py`) | deadline, interval | poll, wait, slow down | GitHub's device flow |
| Contract IR projector (`src/project-admitted-contract-ir.mjs`) | one output file | `--output`, `--check` | the validator's Contract IR |
| Admitted consumer generation (`src/generate-admitted-contract-consumers.mjs`) | the output tree, the projections, the generator on disk | `--output`, `--check` | projector (through the files), `src/generate.mjs` (a child process) |
| Schema code generator (`src/generate.mjs`, `src/generate-output.mjs`) | `generated/` | write, `--check`, each by two entry points | schemas, pre-interest projection (`npm run generate` runs both) |
| Browser harness (`tests/interface-wasm-browser/run.sh`) | processes, two ports, a work directory | start server and browser, wait, run driver, judge, clean up | http.server, Chromium, driver |
| DevTools driver (`tests/interface-wasm-browser/driver.mjs`) | pending requests, event waiters, the socket | discover, connect, navigate, evaluate, capture, close | Chromium over a WebSocket |
| Route maps (`scripts/check-route-sync.py`, `generate-routes.py`) | maps in several repositories | compare, generate, `--check` | files |
| Pre-interest projection (`scripts/project-pre-interest-contract.mjs`) | `schema/pre-interest.schema.json` | `--write`, `--check` | the contract; the schema code generator, which reads what it writes |
| Generated adapters (`generated/`) | none | decode and encode a document | each other, over the wire |
| Runtime contract checks (`scripts/check-*-runtime.mjs`) | none | validate a plan, a result set, a report | fixtures |
| Admission model (`conformance/dual_authority_model.py`) | five booleans | its own search | none; a validator outside this repository decides the same and publishes a Contract IR |
| Sync storage (`sql/schema.sql`) | clock, records, changes, receipts per owner | tables, constraints and row policies; the transactions are another repository's | the server |
| Administrator functions (`sql/schema.sql`) | role assignments, audit events | capability check, append | the server |
| Web session leases (`sql/schema.sql`) | session rows | none in this repository | the server |
| Quote estimator (`src/public-quote-estimator-contract.test.mjs`) | none | estimate | fixtures |
| Contracts, message contracts, conformance drivers, workflows, lint plugin | data | none | the rest |

Where it is hard, and what makes each part correct:

- **Publisher.** Every call to GitHub can fail before or after it took effect;
  the job can be killed between two calls and run again; other people can
  change the repository at any time; the person may answer with the wrong
  account, refuse, or not answer. Correct means: nothing is written before
  owner, membership and bundle were checked; what a success comment says was
  seen by that run and is still true; no unexpected commit is replaced; a run
  that an earlier run left half done can be finished; every run ends.
- **Device authorization.** GitHub's expiry, the script's deadline, the sleep
  and `slow_down` race each other. Correct means: polls keep the distance
  GitHub demands, stop soon after the deadline, and an approval that is early
  enough is never reported as expired.
- **Consumer generation.** Removing and copying a tree is not atomic; an
  invocation can stop half way, two can interleave, and the inputs can be
  edited meanwhile. Correct means: no file is ever made of content that was not
  admitted; a refusal leaves the last bundle alone; `--check` accepts a whole
  bundle and nothing else.
- **Driver.** The load event, the reply to the navigation, the verdict of the
  page and the close of the connection come in any order. Correct means: no
  event is missed, and the snapshot and the exit code show the verdict.
- **Harness.** Processes die, hang and survive their parent; two attempts share
  their ports. Correct means: a pass is a pass of this attempt's page, nothing
  is left behind, and every attempt ends.
- **Admission, Contract IR, projection.** The authorities go on being edited
  after a verdict, the IR can be published again while it is projected, and the
  projector can be stopped after it has emptied its file. Correct means: what a
  consumer accepts was agreed by both authorities at one head; `--check` says
  what is so; a refusal leaves the last projection alone.
- **Generated adapters.** A document passes through programs in several
  languages, each of which decodes and encodes it again. Correct means: all of
  them read what one may write, and nothing is lost on the way.
- **Sync storage.** Clients repeat mutations and interleave. Correct means:
  cursors without gaps, each mutation once, tombstones for ever.
- **Administrator functions.** A role is revoked while it is used. Correct
  means: a recorded success could be done, and recorded, at one moment of the call.
- **Schema code generator and pre-interest projection.** Two scripts in a row,
  files that are written one by one, refusals by the last emitter, and names
  that differ on the wire and not in a language. Correct means: a command that
  succeeds leaves or has found every file current, whatever was stopped before
  it; a check complains of real differences only; a refusal leaves the adapters
  alone; no identifier is declared twice.
- **Runtime checks and estimator.** Pure functions whose conditions overlap and
  interact. Correct means: an accepted result set answers its plan, an accepted
  report adds up, an estimate is ordered.
- **Route maps and route generator.** Pure functions with a file at the end:
  stale files, rules that depend on what is installed.

`PROJECT.json` lists the hazards at their lines, with the properties that cover
them.

## 2. Modules and how they correspond to the code

| Module | Models | Builds on |
|---|---|---|
| `DeviceGrant` | what `authorize` promises its caller, without polls and clocks | |
| `DeviceAuth` | `authorize` on a clock | implements `DeviceGrant` |
| `Publisher` | `main` of `py`, several runs of it, GitHub and other people | implements `DeviceGrant`, once for each run |
| `ConsumerGeneration` | `generate-admitted-contract-consumers.mjs`, several invocations | |
| `DevToolsDriver` | `driver.mjs` and the browser it talks to | |
| `BrowserHarness` | `run.sh` with the processes it starts | extends `DevToolsDriver` |
| `SchemaSymbols` | the names of `generate.mjs`: conversions and what is refused, pure | |
| `SchemaGenerator` | `npm run generate`, `npm run check` and the bare `generate.mjs` on the files | extends `SchemaSymbols` |
| `WireAdapters` | the types `generate.mjs` emits, as a document meets them | |
| `DualAuthority` | the state machine of `dual_authority_model.py` | |
| `ContractAdmission` | from two authorities to a projection a consumer accepts | extends `DualAuthority` |
| `AdminAudit` | `canonical_admin_has_capability` and `canonical_admin_append_audit` of `schema.sql` with the tables they use | |
| `RuntimeChecks` | what `check-*-runtime.mjs` accept, pure | |
| `QuoteEstimator` | `quote()` in exact arithmetic, pure | |
| `BrowserHarnessTheorems` | proofs about the driver alone and under `run.sh` | `BrowserHarness` |
| `DocumentTheorems` | proofs about documents: what the runtime checks accept, what the estimator returns, what the adapters relay | `RuntimeChecks`, `QuoteEstimator`, `WireAdapters` |
| other `...Theorems` | proofs | the module they are named after |
| `MC...` | instances for TLC; `MCRuntimeChecks` is evaluated with `MCContractAdmission` | the module they are named after |

Definitions that a comment calls *Mutant* are plausible bugs. No specification
uses them; they are put in the place of the definition that follows them to see
that a property would notice.

### Publisher

`phase[r]` is the call run `r` makes next; there is one action for each call in
the order of `main`, from `RequestDeviceCode` to `Announce`, and `Report` is
the except clause. A call has three outcomes where the code has them: it
succeeds, it fails without effect (`CallFails`), or it takes effect and its reply is
lost (`Change`, `Comment`). A read of several fields is one `Check`. `Kill` is
the end of the job without any handler. `Start` has the workflow's concurrency
group: one active run. Other people act in `Answer` and `ForeignChange`.

Data is reduced to what the checks distinguish: a commit is absent, an ancestor
of the pinned one, the pinned one, or another; a token is the expected owner's,
another person's, or none. A push is accepted as a fast-forward only, because
the code does not use `--force`. `local` is the set of branches a clone of the
bundle creates, which is `git`'s choice and not the script's; the runs have
clones with the feature branch, on which the script relies, and without it,
which are the ones `git` makes (see `publisher_clone`). `seen`, `wrote`, `faulted` and `moved` are history that no
action reads.

The polling loop is a number of polls (`left`), because the rest of the script
depends on its outcome and not on its timing. `Poll` can lose any number of
them to sleeps, `slow_down` and slow replies, so an approval that is given
during the last sleep can come too late, and `Expire` ends such a run like one that
nobody answered. When that can happen is a matter of the clock of `DeviceAuth`.

### DeviceAuth and DeviceGrant

`DeviceAuth` has a discrete clock. `Tick` does not pass a step that is due, so a
sleep takes as long as `interval` says, and posting and each request take up to
`MaxPost` and `MaxLatency`. The code's life starts at 0, when GitHub issues it; the
script's deadline starts when the invitation was posted. `Decides` is GitHub's
answer, which is fixed when the poll arrives and not when the reply does.
`Loop` compares the deadline before the sleep, as the code does.

`DeviceGrant` is the abstract specification: one verdict by the person, and one
outcome, which is a token only after an approval. `DeviceAuth!Verdict` and
`Outcome` are the refinement mapping of the timed loop, `Publisher!Verdict(r)`
and `Outcome(r)` that of each run's untimed one. That both implement the same
promise is what justifies the untimed loop in `Publisher`, for safety: whatever
a run does with a token rests on an approval in both. It does not say when an
approval is in time, and `Publisher` claims nothing of it; `TimelyApprovalCounts`
of the timed loop does.

### ConsumerGeneration

A file is abstracted to what it was made from: the version of the generator and
the sequence of validated inputs. Each invocation goes through `parseArgs`,
`validateProjection` for each argument (each file is read once), the collision
checks and the staged copy of the generator, its run, and then either removal,
copying and provenance, or listing and comparing. `RemoveOutput` and `Copy` act
on one file at a time in any order, as `rmSync` and `cpSync` do. `Copy` writes
each staged file once and goes on whatever others did to the tree meanwhile
(`uncopied`), so two writers that overlap can both succeed and leave a mixture;
`Stop` can end an invocation between any two files. `Modes` and `MaxRunning`
bound what each invocation is called for and how many run at once, `Leftovers` the
content that somebody puts back. At first the output directory is absent or
holds a bundle of an earlier invocation, by this generator or by an older one. Projections, generator and output tree can
be edited by somebody else. `Retired` are files that an earlier generator
emitted and this one does not. The sort is by rank: position k gets the input
that k inputs come no later than, which is defined because the collision checks
come before it.

### DevToolsDriver

`driver.pc` is the `await` that `main` is at; the handlers (`OnReply`,
`OnError`, `OnLoad`, `OnClose`) take the first entry of `inbox`, the
events in the order Node has queued them. `waiter` is the
`Page.loadEventFired` waiter, registered before `Page.navigate` is sent.
`Throw` includes the finally clause, which sends `Target.closeTarget`.
`RunsDry` is Node leaving when nothing can settle the promise `main` awaits.
The browser can answer, refuse, fire the load event before or after the reply
of the navigation, and disconnect. The document that was loaded can lack
`#result` (`status` is "missing"): the expression then resolves at once with a
failure of the driver's own making (`driver.mjs:185`), and the snapshot
shows no verdict.

### BrowserHarness

Adds `run.sh`: `Begin` starts the server, `Await` is a readiness loop (any
listener on the port satisfies it, as `curl` does), `Judge` compares exit code
and snapshot, and `Terminate`, `Kill`, `StopServer` are `cleanup` on the EXIT
trap. Attempts follow each other and use the same ports, as the two attempts in
`ci.yml` do. `Timeout` is the `timeout` around the driver. Processes start late,
fail to bind, die (`Crash`), and stop answering (`Hang`); `KillScript` ends the
script without its trap. `killed` is history: the attempts that ended so.
`Held` is the script waiting for a listener that accepts `curl` and never
answers, which `run.sh:149` does not limit.

### SchemaSymbols and SchemaGenerator

A name is a sequence of pieces: a stem of letters or of digits, how it is
written (`id`, `Id`, `ID`) and the separator before it. `Pascal`, `Snake` and
`Camel` are the regular expressions of `generate.mjs:33-48` on pieces: where
they raise, lower, join or split. Stems are atoms, so equal texts are equal
sequences, and a word of one letter is not a stem. `DocumentAccepted`,
`RefsKnown`, `EnumsAccepted` and `DartAccepted` are where `loadTypes`,
`collectEnums` and `emitDart` throw, in the order `Emittable` has from `build`.

`SchemaGenerator` runs one command at a time: `Begin` chooses npm or bare,
write or check; `ReadContract`, `WriteProjection` and `CheckProjection` are the
first script; `ReadSchema` reads one file of the index, and after the last one
all emitters run in memory; `WriteFile` and `CheckFile` take one file of the
output. `Stop` ends the process anywhere and can leave the file it was writing
in part; `Edit` changes a contract, a schema or an adapter. What an adapter
holds is abstracted to the types it was emitted from; the manifest of the wasm
crate is separate, because `generate-output.mjs` patches it and `generate.mjs`
does not. `before` and `edited` are history.

### WireAdapters

A field of a schema is its name, base type, and whether it is a list, required
and nullable. `RustMember`, `GoMember` and `DartMember` are what the emitters
decide about it: whether null and absence decode, what is held for them, and
when the member is left out again; `Kinds` is what the type it resolves to takes.
`Relay` decodes a document and encodes it again. What serde, encoding/json and
Dart's operators do with such a member is external. TypeScript and Python have
a type and no codec, so `TsMember` and `PyMembers` say what inhabits the type
(with an enum field as a closed union of literals) and whether the class can be
defined.

A number is how it is written (an integer, or with a fraction) and its value. A
`number` field is an `f64`, `float64` or `double`, so a relay makes a double of it
(`DoubleOf`): `AsDouble` says of which value, per language, and `Notation` how
its encoder writes that, which makes 0 a 0.0 in Rust and in Dart and not in Go. All
that is assumed is that a decoder takes a number that a double can hold
(`Exact`) as it is. An object without a schema is a `map[string]any` in Go, where
every number becomes a double; Rust's `Value` and Dart's `Object?` keep integers
(`UntypedRelay`). Dart is the VM's, whose `int` has 64 bits. `Zero` is what Go
holds and writes for a member that was absent: null for a slice or a map.

Left out, because the schemas of this
repository do not use them: lists of lists, lists of nullable items, unions.
Nullable enums and references are more than the schemas use. Dart reads a list of
numbers with `cast<double>()`, which no integer passes; no schema has such a
list, which `ListAssumption` states. `ValueAssumption` is what an author may write:
values of the kinds the schema admits, and behind a reference an object with the
required keys (`InnerDocument`); enum values may be newer than the vocabulary, in
the document and in what it refers to.

### DualAuthority and ContractAdmission

`DualAuthority` has the five fields of `State` as variables and a disjunct for
each entry of `next_states`. `ContractAdmission` composes it with what happens
around it: `heads` are the versions of the two authorities and what is true of
them, `StartValidation` takes the last one, `Validate` is a step of the model that
agrees with what is true of it, and `PublishIr` writes the Contract IR with a
verdict and a form. The validator is not in this repository; that it works
like `dual_authority_model.py` is the assumption. `Begin` to `Compare` are
`project-admitted-contract-ir.mjs`: one read of the IR, `assertAdmitted`
(`Projectable`) and the projection in memory, then opening, which empties the file,
and writing it, or comparing. `Acceptable` is the consumer's
`validateProjection`. `FormType` has a field for each thing either side looks at.

### AdminAudit

Each statement of `canonical_admin_append_audit` is an action and sees the
tables as they are then, which is what `read committed` gives: the check of
`audit.write`, the check of the capability, the insert. Grants, revocations and
deletions of users, with the cascades and restrictions of the tables, come
between them. `InsertEvent` is the insert with what follows it up to the commit: the
function needs a transaction of its caller, because the claims it reads are local
to one, and only the caller can commit that. `DeleteUser` takes a user's own roles first,
also those he granted himself, and is refused by roles he granted to others and by
events he is the actor of. A reply can be lost, and a call is made again with the same
event id or another. `authorized` is history: at some moment since the call
began the actor had both capabilities. Row security and table
privileges are left out: who may not call the function at all is no state here.

### RuntimeChecks and QuoteEstimator

`ValidPlan`, `ValidResults`, `ValidAssessment` and `ValidEvidence` are the
conditions under which the scripts do not throw, on documents their schemas have
accepted; texts are reduced to the classes the regular expressions form.
`QuoteEstimator` computes in whole dollars and hundredths. The program computes
in doubles, where `midpoint * 0.9` or `midpoint * 1.12`, divided by 500, could fall
on the other side of a half. Enumerating all integer midpoints from 5500 to
13500, which is all that the clamp lets through, shows that it never does.
`MCRuntimeChecks` states four assumptions that TLC evaluates before the run
`admission`: accepted results correspond one to one to the targets
(`ResultsCorrespond`), the filters agree with a tally (`CountsAgree`), the quote the
test pins (`DefaultQuote`), and order, bounds and monotonicity of all 6,885
combinations of the published schedule (`ScheduleIsSound`).

## 3. Runs

The counts are distinct states.

| Run | Properties | Instance | What it shows |
|---|---|---|---|
| `publisher` | `TypeOK`, `WritesAreVetted`, `SuccessIsTrue`, `LateFailureLostACall`, `OnlyTheCloneFails`, `ForeignWorkSurvives`, `RunsEnd` | two runs, one fault, one change by others, two polls, every bundle, clones with the feature branch and without; 853,464 | safety of the script, also when a run continues what another left, and that every run ends; a failure reported after the live verification means that a call's outcome was lost; a vetted run that meets no fault and no foreign change fails at the clone only, and only without the branch |
| `publisher_clone` | `CleanRunSucceeds` | one run, no fault, the branches git really creates | violated, see section 6 |
| `device_auth` | `TypeOK`, `PollsKeepTheirDistance`, `NoPollLongAfterDeadline`, `TimelyApprovalCounts`, `ImplementsGrant` | life 7, interval 2, `slow_down` adds 2, at most twice, latency 1; 5,190 | the timing of the loop, and that it implements `DeviceGrant` |
| `consumers` | `OnlyAdmittedContent`, `RefusalTouchesNothing`, `NoMixedBundle`, `CurrentIsWhole`, `DriftIsReal` | two writers and a check, two of them at once, two families, two languages and a retired one, one edit; 1,762,049 (the writers are symmetric) | generation and check under stops, edits and other invocations; a check of what two overlapping writers left |
| `driver` | `SnapshotShowsVerdict`, `OkMeansPassOrClosed`, `VerdictIsReported` | two faults; 540 | no event is missed in any order, the snapshot shows the verdict, and exit 0 without it needs a closed connection |
| `harness` | `HarnessTypeOK`, `CertifiedMeansPass`, `CertifiesOwnOrOrphaned`, `NothingLeaks`, `AttemptEnds` | three attempts, two faults, hangs and kills; 314,656 | a pass is a pass of this attempt's processes, or of those a killed attempt left; an attempt cleans up, and it ends unless a listener holds it |
| `harness_stale` | `CertifiesOwnProcesses` | two attempts, one fault, with kills | violated, see section 6 |
| `generator` | `SuccessMeansCurrent`, `ComplaintIsReal`, `RefusalKeepsTree`, `GoFieldsAreDistinct`, `RustFieldsAreDistinct` | two commands, one edit, two schema files, four adapters, three contracts; 1,029,606 | writing and checking under stops and edits, and the names in what is written |
| `generator_types` | `TypeNamesAreDistinct` | one command, no edit | violated, see section 6 |
| `admission` | `TypeOK`, `OnlyAgreedContent`, `RefusedForIdentity`, `CheckIsTrue` | one edit of the authorities, IRs published at any moment, two names; 416,447 | what is projected was agreed, what consumers refuse of it, and that `--check` is right |
| `adapters` | `EveryAdapterReads`, `NothingIsLost`, `AdaptersAgree` | every pair of ten shapes, each required or not and nullable or not, with empty, zero, null and unknown values, numbers beyond 2^53, encoders that write 0 and that write 0.0, lists of up to two items, and four inner objects; 137,340 | a document survives any relay of programs, but for numbers that become doubles |
| `admin_audit` | `SuccessWasAuthorized`, `ReturnedIsRecorded` | two sessions, two users, two event ids; 142,044 | calls that interleave with grants, revocations and deletions and are repeated |

**Why the bounds are enough.** The actors of `Publisher` are runs that never
overlap, so two are one that leaves something and one that finds it; one
fault reaches every call with every outcome, and together with `Kill`, which is
not bounded, a run can be broken more than once. One change by others is
placed between any two calls. `DeviceAuth`'s life of 7 and interval of 2 give
several polls, a last poll on either side of the deadline, and room for two
`slow_down`s; nothing depends on the unit. In `ConsumerGeneration` the
interesting cases need two writers, or one writer and one edit; two families
are enough to collide, to be permuted, and to be repeated; one retired file is
enough for a surplus. The third invocation is the check that finds what two
overlapping writers left; with two at once it can still begin before either has ended.
`Stop` is not bounded. In the harness a third attempt is
the first that can find what two others left, and two faults break an attempt and
its successor. In `admission` one edit makes two heads, of which either can be
the better; validations, publications and stops are not bounded. `adapters` has all
pairs because a document is decoded field by field, and only Python's order of
members relates two; two items are enough for a list to lose, repeat or mix them. Its numbers are zero, a
fraction, 2^53, and 2^53 + 1, which no double holds. `admin_audit` needs two calls that use one id, and a role that
comes between the two checks of a call and goes after them. In the generator a first
command leaves something, also in part, and a second one finds it, with an edit
before, during or after; two schema files define a type twice or refer to each
other, and four adapters stand for the rest: Rust, the patched manifest, Go,
and Dart, which comes last and refuses. The fields come in pairs of six names,
which are ways to write the same words. The theorems of section 5 have
no bounds.

**Deadlock** is not checked: every model is of a program that ends. That
they end when they should is a property (`RunsEnd`, `VerdictIsReported`,
`AttemptEnds`) or, for `DeviceAuth`, part of the type invariant, which
bounds the clock. A command of `SchemaGenerator`, an invocation of
`ConsumerGeneration` and the projector wait for nobody, and each of their steps
takes them to the next file or stage; in `AdminAudit` no statement blocks.

**Symmetry** is used in `consumers` only, whose properties are invariants and
step properties; the runs that check liveness have none.

## 4. Fairness

- `Publisher!FairSpec`: each run has weak fairness of its own step or `Kill`.
  The workflow has `timeout-minutes`, so a job that hangs in a call is
  cancelled. Nobody is obliged to answer the device code.
- `DevToolsDriver!FairSpec`: weak fairness of the driver's steps (Node runs a
  handler that can run) and of the browser's (it answers requests, fires the
  load event, and the page reaches a verdict). Without the second,
  `VerdictIsReported` claims nothing; the harness does not assume it.
- `BrowserHarness!HarnessFairSpec`: the shell goes on, `timeout` fires, and a
  process that was forked starts or fails. `AttemptEnds` is claimed with hangs, and
  says itself what can keep an attempt from ending (`Held`). Neither driver nor browser nor
  page has to do anything: that is what `timeout` is there for.
- Faults, edits, answers and changes by others are never fair.

## 5. Proofs

The prover checks these for every set of runs, every bound and every value of
the constants that satisfies the modules' assumptions (`PublisherAssumption`,
`DeviceAuthAssumption`, `SymbolsAssumption`, `GeneratorAssumption`,
`ConsumerAssumption`, `DriverAssumption`, `HarnessAssumption`,
`AdmissionAssumption`, `AuditAssumption`, and `AdapterAssumption`,
`InnerAssumption`, `ListAssumption`, `NumberAssumption` and `ValueAssumption` of
`WireAdapters`), and
TLC evaluates these on every run of the instance. Every invariant and every
action property of a passing run is proved.

| Theorem | States | Inductive invariant |
|---|---|---|
| `PublisherTheorems!TypeCorrect` | `[]TypeOK` | `TypeOK` itself |
| `VettedWrites` | `[]WritesAreVetted` | `Observed` |
| `ObservedSuccess` | `[]SuccessIsObserved` | `Observed` |
| `TrueSuccess` | `[]SuccessIsTrue` | `Undisturbed`, with `TypeOK` and `Observed` |
| `ForeignWork` | `ForeignWorkSurvives` | `Undisturbed`, with `TypeOK` |
| `Authorizations` | `AuthorizationsAreGrants` | `AllEmpty`, with `TypeOK` |
| `LateFailure` | `[]LateFailureLostACall` | `LateInv`, with `TypeOK` |
| `CleanRuns` | `OnlyTheCloneFails` | `CleanInv`, with `TypeOK`, `AllEmpty` and `NoStrayRefs` |
| `DeviceAuthTheorems!TypeCorrect` | `[]TypeOK` | `Clock` and `Bounds` |
| `Distance` | `[]PollsKeepTheirDistance` | `Clock` |
| `LastPoll` | `[]NoPollLongAfterDeadline` | `Clock` |
| `TimelyApproval` | `[]TimelyApprovalCounts` | `Clock` |
| `Implements` | `ImplementsGrant` | `Clock` and `Granted` |
| `SchemaGeneratorTheorems!TypeCorrect` | `[]TypeOK` | `TypeOK` itself |
| `GoFields` | `[]GoFieldsAreDistinct` | `VettedInv` |
| `RustFields` | `[]RustFieldsAreDistinct` | `VettedInv` |
| `Refusal` | `[]RefusalKeepsTree` | `UntouchedInv` |
| `Success` | `[]SuccessMeansCurrent` | `FoundInv`, with `TypeOK` |
| `Complaint` | `[]ComplaintIsReal` | `FoundInv`, with `TypeOK` |
| `ConsumerGenerationTheorems!TypeCorrect` | `[]TypeOK` | `Foundation` |
| `AdmittedContent` | `[]OnlyAdmittedContent` | `Foundation` |
| `Refusal` | `[]RefusalTouchesNothing` | `Foundation` |
| `OneBundle` | `[]NoMixedBundle` | `Alone`, with `Foundation` |
| `PassedIsWhole` | `[]CurrentIsWhole` | `VerdictStands`, with `Foundation` |
| `RejectedHasDrifted` | `[]DriftIsReal` | `VerdictStands`, with `Foundation` |
| `BrowserHarnessTheorems!TypeCorrect` | `[]TypeOK` of the driver | `Inv` |
| `Snapshot` | `[]SnapshotShowsVerdict` | `Inv` |
| `SuccessfulExit` | `[]OkMeansPassOrClosed` | `Inv` |
| `HarnessTypeCorrect` | `[]HarnessTypeOK` | `HarnessInv` |
| `Certification` | `[]CertifiedMeansPass` | `HarnessInv` |
| `OwnOrOrphaned` | `[]CertifiesOwnOrOrphaned` | `HarnessInv` |
| `CleanEnd` | `[]NothingLeaks` | `HarnessInv` |
| `DriverInHarness` | `[](SnapshotShowsVerdict /\ OkMeansPassOrClosed)` under `run.sh` | `HarnessInv` |
| `ContractAdmissionTheorems!ProjectionIsAgreed` | `[]OnlyAgreedContent` | `IInv` |
| `ProjectionIsUsable` | `[]RefusedForIdentity` | `IInv` |
| `CheckTellsTheTruth` | `CheckIsTrue` | `IInv` |
| `RefusalKeeps` | `RefusalKeepsFile` | `IInv` |
| `TypeCorrect` | `[]TypeOK` | `Tidy`, with `IInv` |
| `Asserted` | what `check()` of the admission model asserts, as `Checked` | `IInv` |
| `AdminAuditTheorems!SuccessesAreAuthorized` | `[]SuccessWasAuthorized` | `IInv` |
| `ReturnedCallsAreRecorded` | `[]ReturnedIsRecorded` | `IInv` |
| `EvidenceIsAppendOnly` | `EvidenceStands` | none needed |
| `AdminAuditTheorems!TypeCorrect` | `[]TypeOK` | `References`, with `IInv` |
| `DocumentTheorems!ResultsAreComplete` | accepted results answer every target once | |
| `SummaryCountsEach` | an accepted summary counts every finding once | |
| `RecommendationsLeadToEvidence` | sources of a recommendation lead to digested evidence | |
| `EstimateIsOrdered`, `EstimateIsMonotone` | the two ends of an estimate, for every configuration | |
| `Decoded` | `[]EveryAdapterReads` | `WireInv` |
| `Lossless` | `[]NothingIsLost` | `WireInv` |
| `Agreement` | `[]AdaptersAgree` | `WireInv` |
| `Settled` | the keys and the nulls of a document that was re-encoded once are changed by no program | `WireInv` |

**Publisher.** That a write is vetted is not inductive: it says nothing of a run
that is about to write. `Progress` says for each phase what the run has seen by
then, and `Announced` that a run with a success comment is past its last call;
`Observed` is both, for all runs. `SuccessIsTrue` needs what the other run can
still do: `Undisturbed` says that a repository without foreign changes holds no
stray ref and that each fact a run verified still holds of the repository, and
the lemmas `CreateEffect` to `ConfigureEffect` say that the publisher's own changes
preserve it. The concurrency group is not needed for it: the changes are
monotone. `ForeignWork` is an action property from the same invariant.
`LateInv` says that a run which has verified the last ref is announcing that, is
over, or has lost a call (`Verdicts`). `CleanRuns` needs what a run that met
no fault and no foreign change finds at each of its calls, whatever was there
before: only it is active (`Exclusive`), and what is in the repository is absent or the
publisher's own and as far along as the call it makes next (`OwnWork`). It is an action
property: the step that turns such a run to the except clause is `Clone`, with a
clone that lacks the feature branch. An approval that comes too late is no exception
to it, because a run that expired holds no token and was never vetted. The
clones git really makes do lack the branch, which `publisher_clone` shows; the theorem
says that nothing else is in the way.

**DeviceAuth.** `Pace` says in each state of the loop how far the clock can be
from the last poll and from the deadline; `Approval` how far it can be from an
approval, as long as GitHub has not asked to slow down since. `TimelyApproval`
is then arithmetic at the moment a reply says expired or the loop ends. It assumes
`MaxPost <= MaxLatency`: posting the comment is one request. `Bounds` adds the
horizon. The product `SlowStep * slows` is the only nonlinear term, and
its two facts are steps of their own.

**Refinement.** The theorems `Implements` and `Authorizations` show that initial
states map to initial states and that every step maps to a step or a stutter.
`Granted` is the fact needed for the timed loop: a token on its way stays
granted, because the answer cannot change after GitHub decided. `AllEmpty` is the
one for the runs: no run holds a token before its loop has returned. The
lemma `AuthorizationStep` reduces the actions of `Publisher` to five effects on one run.

**SchemaGenerator.** That Go's and Rust's fields are distinct says nothing of
types that are loaded and not yet written; `VettedInv` says what has been
refused by then: while loading, every field name matches `FIELD_RE`, and before
writing, and in the tree, `emitDart` has found no two equal identifiers. The
rest is about names. `PascalImpliesCamel` and `SnakeImpliesCamel` say that field
names which Go's or Rust's conversion makes equal are equal for Dart's `camel`
too, so the one check of `emitDart` covers the emitters that have none. Both
are piecewise (`CamelPiece`, `SnakePiece`), and the second needs that no name has an
acronym in capitals, which is where Rust is not covered. `UntouchedInv` says that
the tree is untouched until the last emitter has returned. Edits of schemas by
hand, stops and torn files are steps of the proofs too.

`SuccessMeansCurrent` and `ComplaintIsReal` speak of all schema files as one
sequence, `FlattenSeq`, which is a recursion over the index. The library's
induction theorems cannot be instantiated, because they take an operator. The
lemma `Induction` takes a set instead and follows from well-foundedness
(`WFMin`); with it `FlattensExists` shows that the recursion has a solution and
`FlattensAgree` that it depends on a prefix only, so that `ReadSchema` extends
what was read by one file (`ReadGrows`). `FoundInv` then says that, unless somebody
edited, what a command has read is what the files hold, that the adapters it has
written or accepted so far are those of these types, and that one of them is not if
it has found drift.

**ConsumerGeneration.** `Foundation` says of each invocation what it has made sure of
by the place it is at (`WorkerOK`), that every file of the tree comes from sound
inputs, and that whoever touched the tree was writing. Sound inputs are admitted,
apart and sorted. `SortSorts` is why the sort by rank is one: ranks of inputs
with distinct families are an injection of a finite set into as many positions, so
every position is taken. `SortedIsUnique` is why a bundle cannot depend on the
order of the arguments: sorted sequences of the same inputs have the same ranks.
`NoMixedBundle` needs what a writer that is alone knows (`OwnBundle`: all that is
present is its own, because it has removed the rest), and `InvocationEffect`
reduces the steps of an invocation to deleting, copying and naming: while it copies, what
is not in `uncopied` has been written, and a writer that is alone finds it as it left it.
`VerdictStands` keeps what a check has found for as long as nobody changes the tree;
that a rejected tree really differs is `WholeAgrees`, by `SortedIsUnique`.

**DevToolsDriver and BrowserHarness.** `Protocol` says that an answer in the queue is the one that is
waited for, that nothing follows the close, and that the browser works on
nothing then; `Evidence` what main() holds at each `await`, from the first answer of
the evaluation on, which is a status of the page or, without `#result`, the
driver's own failure. That a final page never changes ties them to the snapshot.
`Inv` holds under the harness too: what `run.sh` does to the driver is a
disconnect, a fresh start (`Fresh`), a `timeout` that ends it, or a fault that leaves
it alone. On top of it `Accepted` says that from the judgement on a status of 0
stands for a pass in the snapshot; `Cleaned` what the EXIT trap has already ended
at each of its steps, for this attempt and for all earlier ones whose script was
not killed; `Unborn` that nothing belongs to an attempt to come; `Used` that
what the driver talked to is this attempt's or an orphan's, because a port is held by
a process that runs, and nothing else runs. `DriverInHarness` is the driver's two
promises again, with every restart and kill of `run.sh` among the steps.

**ContractAdmission.** A projection on disk is that of an IR that projects, an IR that
passed is one of a head at which the findings are facts (`FindingsAreFacts`), and
what the projector is about to write was read before (`ToolIsTrue`). Heads are
only added, so what was agreed at one stays so. Type correctness needs `Tidy`: also
the IR the projector holds and the one its file came from speak of a head that is
there, after any number of later publications (`IrStaysTrue`). `Asserted` says of
a history with restarted validations, edits and publications what `check()`
(`dual_authority_model.py:31`) asserts of its own search, and that the head
which was admitted is one that agrees.

**AdminAudit.** `SuccessWasAuthorized` is a statement about one moment, while the
two checks are made at two. What makes it true is the table of roles: every role
may write audits (`EveryRoleRecords`), so whoever passes the second check could
pass the first at that moment too (`HolderIsEntitled`), whatever was granted or revoked in
between. A role without `audit.write` would break it. `Noticed` says that the
history has recorded every such moment, and `EntitledShrinks` that revoking and
deleting make none. `References` is referential integrity under all cascades.

**WireAdapters.** `WireInv` says that the document is one its schema admits
(`Document`), that it says what the author's says, and that only Rust has refused
it. Each field is decided by three facts that all emitters agree on
(`MembersAgree`), so on such a document every language holds the same and writes the
same keys (`HeldAndWritten`), and `RelayIs` gives the result of language l as
`Kept(l, document)`: the keys are those any language keeps, and the values differ by what
each makes of numbers (`ScalarRelayIs`). `KeptAgree` says that two such results are
the same but for the notation of doubles and for numbers a double does not hold; that is
`Agreement`. `KeptIs` shows that `Kept` is a document again and says the same, and
`SaysTheSameStill` carries it over any number of hops. A result has all its keys
(`FullDocument`), and a relay changes neither these nor the nulls of such a
document (`FullStays`); that is `Settled`. More would not be so: each language can
write a double in its own way for ever. `Inhabits` is the TypeScript side, by the kinds of the
union types and the closed literals.
`DocumentIsRead` covers the decoders, with an enum value that is new as the only
exception, and `NewerToo` traces it back to the author. Python's order of
members is a recursion over the fields; by `Induction`, `KeepsWhat` and
`KeepsHowMany` say what it keeps and that it loses and repeats none. Lists of every
length and any number of fields are covered.

**Without a run.** `SuccessIsObserved`, `AuthorizationsAreGrants`, `RefusalKeepsFile`,
`EvidenceStands`, `Settled`, `Asserted`, `DriverInHarness` and some type invariants,
that of `SchemaGenerator` among them, are proved for all instances, and no run repeats them.

**Model-checked only.** Liveness (`RunsEnd`, `VerdictIsReported`, `AttemptEnds`)
is beyond the prover: it needs `ENABLED` and fairness. `DefaultQuote` of
`MCRuntimeChecks` is no theorem either and is evaluated on the published
schedule. That the estimator's exact arithmetic agrees with the program's doubles is
neither proved nor evaluated here; section 2 argues it.

## 6. Disagreements between code and documentation

Each of the first is a run whose expected result is a violation.

- `publisher_clone`: after the repository was created, `py:385` asks for the
  feature branch of a fresh clone of a bundle. The bundle must not contain
  `HEAD`, so `git clone` creates no such local branch and every authorized run
  fails there.
- `harness_stale`: the readiness loop accepts any listener on the port
  (`run.sh:149`), also the server of an attempt that was killed.
- `generator_types`: the name of a generated enum is compared with other
  enums and not with the `$def`s (`generate.mjs:178`), so a `$def` `QuoteId`
  beside the enum field `id` of `Quote` is written, and declared twice in Rust
  and Dart.

Met while modelling, without a run of their own:

- The except clause also covers the call that posts the success comment, so
  "creation failed before live ref verification" (`py:491`) can be said of a run
  that verified everything. `LateFailureLostACall` states what does hold: such
  a run lost the outcome of a call.
- After a disconnect the driver's finally clause awaits a reply that cannot come;
  Node's event loop is empty, and the driver exits 0 without a verdict
  (`driver.mjs:244`). `OkMeansPassOrClosed` states what does hold, and the harness
  is not fooled, because it also reads the snapshot (`CertifiedMeansPass`).
- `buildProvenance` reads the generator again
  (`generate-admitted-contract-consumers.mjs:200`), so a bundle can name the
  digest of a generator that did not produce it (`EditGenerator` between
  `Spawn` and `WriteProvenance`). `CurrentIsWhole` says when `--check` excludes it.
- The readiness loops call `curl` without a time limit (`run.sh:149`), so a
  listener that does not answer holds the script; this is `Held`.
- A projection is "explicitly non-editable"
  (`docs/admitted-contract-projections.md:12`), but an IR that says nothing of it is
  projected: only `editableAuthority === true` is refused
  (`project-admitted-contract-ir.mjs:15`). The same document (line 17) has the number of
  declarations match; an IR that gives no number is accepted (line 55).
- `node src/generate.mjs --check`, which its header recommends for CI
  (`generate.mjs:5`), reports drift of `rust-wasm/Cargo.toml` after every `npm
  run generate`, because only `generate-output.mjs:26` patches it;
  `ComplaintIsReal` is claimed for `npm run check`.
- Two wire fields `quoteId` and `quoteID` are one `quote_id` in Rust and no
  emitter refuses them; `RustFieldsAreDistinct` excludes acronyms in capitals.

## 7. What is not modelled

- Text: emitters of `generate.mjs` and `generate-routes.py`, messages, layout.
  With it goes what only a language's grammar says: that some Rust keywords
  cannot be raw identifiers (`generate.mjs:54`), or that a Dart constant can be
  called `values` as the list beside it is.
- `schema/index.json` is a constant of `SchemaGenerator`, and an enum's position
  in `$defs` is its position in the file.
- The schemas under `schema/` and `contracts/`, `generated/`, the
  vendored lint plugin: data without behaviour.
- `tests/interface-conformance`: compilers run one after the other, no state
  in between.
- Sync storage and web session leases: the tables and constraints are here, the
  transactions and the code that takes leases are in another repository. The comment at
  `sql/schema.sql:412` describes a transaction; a model of it would be one of the
  comment, and the properties would hold by the constraints alone.
- Route maps and route generator: one pass over files without state, with a
  comparison like the one `SchemaGenerator` models; which of the rules apply
  depends on the `jsonschema` library.
- Message contracts, workflows apart from the publisher's: data.
- Row security and privileges of `sql/schema.sql`.
- The checks of arguments and environment at the start of `run.sh` (lines
  11-62), which start nothing.
- A signal that reaches `run.sh` between the fork of the browser and its
  `setsid`: the model starts the browser in its group in one step.
- In `DeviceAuth`, a single failed poll is an error, as in the code; no property
  asks for a retry.

- Numbers outside a double's range, whole numbers of more than 64 bits, negative zero, and
  whole numbers written as 7.0 in an `integer` field: decoders differ in
  what they refuse, and no schema here has such documents. `NothingIsLost` and
  `AdaptersAgree` claim nothing of the value of a number that a double does not hold.

## 8. Plan

What would be next, in order of importance:

1. `SyncStore`, as soon as the transaction is in this repository: the clock row's lock,
   record, change, receipt, and clients that repeat mutations, against a log of
   mutations applied once.
2. `RouteSync`: the structural rules against the schema's rules over all small maps.
