# Verification of the Vigor3912S SDK

TLA+ modules, TLC configurations and TLAPS proofs for `@jooservices/vigor3912s-sdk`
(the sources are under `src/` here, so the package's own `src/` directory is
`src/src/`). The SDK turns typed calls into DrayOS CLI commands, sends them one
at a time over a session that the application injects, and turns the answers
back into data. What is hard about it comes in three kinds, and the modules follow
them: the small core that shares one interactive session between callers,
deadlines, aborts and a transport it does not control; two command-line tools that
write files which must agree with one another even when they are interrupted; and
640 operations whose class (read, write, destructive) is all that the gates look
at, while the router looks at the command line alone.

## 1. Inventory

| Component | State it keeps | Operations | Interacts with | What is hard | What makes it correct |
|---|---|---|---|---|---|
| Session queue (`internal/execution/session-queue.ts`) | `#closed`, `#tail` (a promise), abort listeners | `enqueue`, `close`; reactions of promises | the runner's task, callers' `AbortSignal`s | there is no lock or loop: order is decided by which promise each reaction hangs on | one at a time, in order, no lost wake-up, an aborted waiter never starts, no listener left behind |
| Command runner (`internal/execution/default-runner.ts`) | base limits, the queue; per exchange a controller, timers, byte counts | `run`, `runWithOverride`, `close`; `#executeFramed`, `#collectStream` | queue, transport, timers, aborts | races of answer, deadline, idle deadline, abort and limit; closes nobody awaits; late answers | no answer reaches another command, hard deadlines, true verdicts, nothing armed after the end |
| Limits (`internal/execution/limits.ts`, `client.ts`) | the runner's base limits | `fromTransport`, `resolveLimits`, `assertExecutionLimits` | runner, operations' overrides | three sources for each number; values that disable a timer | guards stay on, callers only lower |
| Transport (`internal/execution/transport.ts`; implemented outside) | session, peer, pending output | `send`, `stream`, `close`, `isOpen`, `remoteEndpoint` | runner, live client | may hang, answer late, drop, reconnect elsewhere, react to aborts in its own way | external: the assumptions are listed in section 3 |
| Typed calls (`client.ts`, `internal/execution/run-operation.ts`, `cli-outcome.ts`) | the exchanges of one call so far | `execute`, `invoke`, `runOperation`, `detectCliRejection` | registry, schemas, runner, parsers | several frames per call, interleaved with other callers; failures in the middle | parse only normal results of all own frames, stop at the first failure, nothing of a forged call is sent |
| Live read-only client (`live/*.ts`) | exposed operations, policies, expiry | `create`, `invoke`, `listOperationIds` | manifest, allowlist, registry, transport, clock | checks made when queueing, used when sending; expiry noticed only by calls | only gated reads, only to the LAN, only for a bounded time |
| Registry and self-assembly (`internal/registry/*.ts`) | a map built once | assemble, cross-check, overlay, render | domain modules, manifest, generator | duplicates, orphans, agreement of four generated files | 1:1 with the manifest's implemented entries |
| Input schemas (`schemas/*.ts`) | none (generated data) | `schemaProblem` | `runOperation` | untyped input; nested forms | accepts exactly the conforming values |
| Domain support and families (`internal/domain-support.ts`, the 42 modules of `domains/`) | none | validators and the command builders of 640 operations | framing, parsers, the gates on classes | values that could be read as options or as the words of another command | no input of a read builds a command of a write, none of a write a destructive one |
| Capability manifest and its tables (`manifest/*.ts`, `tools/manifest/*.ts`) | generated data; four hand-written tables laid over one another | `classify`, `splitFamilies`, the two overlays | generator, live client | a class is written twice, in the domain module and in the tables | the two classes of an operation agree |
| Parsers (`internal/parsers/**`) | none | text to records | `runOperation` | text | pure |
| Framing (`internal/execution/framing.ts`) | none | `frameSingleCommand` | runner, builders | character classes | accepts or rejects whole |
| Fixture importer and redaction (`internal/fixture-*.ts`) | two files | `importRedactedFixture`, `redactFixture` | file system | two writes; six passes over each other's output | nothing sensitive left, output and provenance agree, nothing outside the fixtures is written |
| Artifact generator (`tools/generate-capability-manifest.ts`, `tools/manifest/artifacts.ts`) | four generated files | `main`, `--check` | corpus, domains, registry | a crash between two writes; edits between the build, the listing and the schemas | the four files agree, a check that says OK can be believed |

How they interact: a call enters at the client (typed or raw) or at the live
client, is checked there synchronously, and is dispatched by the runner, which
frames it, resolves its limits and enqueues it. When its turn comes the queue
calls the runner's task, which owns the transport until the exchange is over.
Everything else is data the calls carry along.

Behaviours that are hard: the interleaving of promise jobs with timers, aborts
and transport callbacks; state checked before a queueing delay and used after
it; late answers of abandoned commands; closes that are scheduled and not
awaited; liveness that must not depend on the transport.

## 2. Plan

Modules in order of importance.

1. `SerialSession` (abstract line), `SessionQueue`, `CommandRunner`, with the
   refinements between them; `Limits`; `LiveReadOnlyClient` and `Invocation` on
   top of the line; `SessionQueueProofs`, `LimitsProofs`. **Done.**
2. `FixtureRedaction` and `FixtureImport`: the checks, the redaction passes over
   classes of values, the two writes with a failure between any two steps.
   `ArtifactGeneration`: build, discovery, assembly, overlay, four writes,
   interruption, check; with the registry invariants. **Done.**
3. `CommandForms`, the seven `Forms*` modules and `ManifestClasses`, composed by
   `OperationForms`: the domain families as sets of forms, with both classes of
   every operation. **Done.**
4. Proofs: `InvocationProofs`, `LiveReadOnlyClientProofs`, `FixtureImportProofs`,
   `ArtifactGenerationProofs`, and the refinement of the line by the queue at the
   end of `SessionQueueProofs`. **Done.**
5. `CommandRunnerProofs`: the safety of the runner, by an inductive invariant over
   its jobs, its refinement of the queue, and what follows from it. **Done.**
6. `CommandLines` and `OperationFormsProofs`: what a form stands for, and that the
   comparison of forms is exact. **Done.**
7. Left: `schemaProblem`, the character classes of framing and the octets of `isPrivateLanAddress` as operators
   checked against reference definitions.

## 3. The modules

### SerialSession
The contract all clients rely on, with no promises or jobs: a line of commands
with one server. `LetIn`/`TurnAway` are the two results of `enqueue`, `Serve` is
the call of the task, `GiveUp` a turn that is skipped or refused, `Answer` the
settlement. It is the abstract specification `SessionQueue` implements and the
component `LiveReadOnlyClient` and `Invocation` are composed with.

### SessionQueue
`jobs` is JavaScript's FIFO of promise jobs. Each job kind is one reaction the
code registers: `run` (`tail.then(run, run)`), `adopt` and `settle` (the two jobs
it takes a promise to follow the promise a handler returned), `tail` (the
fulfilment of the new `#tail`), `cleanup` (`.finally`). `accepted` is the chain
in the order it was linked, `released` how much of it is fulfilled; a pending
`#tail` is `released < Len(accepted)`. `listening` and `aborted` are the abort
listener and the controller of each call. The task is any promise: it may settle
at once, later, or never, and may close the queue on the way.

### CommandRunner
Extends the queue with the task it runs. Every `await` of `#executeFramed` and
`#collectStream` is a job in the same FIFO: `react` (the race is decided),
`step` (`#collectStream` goes on), `resume` (`#executeFramed` goes on), `close`
(the deferred `Transport.close` of `#invalidateSession`). `race` is what the
race of an exchange settled with, `reason` the reason of its controller,
`timers`/`idling` its armed deadlines, `got` whose output it has received.
`QueuePart` is the refinement mapping to `SessionQueue`: the job queue without the
runner's own jobs; `SeenStage` and `SeenOutcome` leave out the commands `#dispatch`
refuses before the queue is asked.

The transport is external. Assumed of it: `close()` and a dropped connection end
the session at once, with its pending output; the router answers the commands of
one session in order; after a reconnect nothing of the old session arrives; a
transport that gives up on a command with an error of its own does not deliver its
output later (nothing in the code guards against one that would: `Throws` leaves the
session open). A transport that gives up with an `execution_timeout` error may
deliver it: the runner takes the error for a timeout, `isTimeout(error)`, and closes
the session. Not assumed: that the transport settles, honours its signal, or stays
connected. How it treats an abort (`ignore`, `reject`, `time_out`, which is to reject
with such an error, or `resolve`) is a constant, and so is which callers abort with
one for a reason (`TimeoutSignals`): `toAbortError` passes it on and it too is
reported as a timeout. `IsTimeout` collects the three.

`NextChunk` is the next turn of the loop of `#collectStream`. After the caller's
abort the stream may still hold results it buffered: a chunk of any size, an empty
one included, its end, or an error then comes first, or the abort does.

Abstractions: sizes of output are small numbers against a ceiling of 1, one
byte count per exchange; error texts are left out, and errors and abort reasons are
classes.

### Limits
`Merge`, `ValidLimits`, `Resolve` are the spread, the assertion and
`resolveLimits`; `Dispatch` is everything `#dispatch` does up to the queue, and
records what the last call was sent with. `NotInteger` stands for NaN, fractions,
infinities and an explicit `undefined`.

### LiveReadOnlyClient
`Create` is the guard chain (a failing guard throws and changes nothing),
`Invoke*` the outcomes of `invoke()` in the order of its checks, `CloseSettles`
the awaited `Transport.close` of the expiry path, `Send`...`TimesOut` the runner
as seen from here. The clock ticks only when no promise job is left and never
past the hard deadline of the command on the wire (`AcceptedEnds` and
`TimeoutIsHard` of `CommandRunner` are what justifies that). All peers the policy
refuses behave alike, so one is enough.

### Invocation
`Refuse`/`Start` are `invoke()` and `buildFramesFor`; `SendsNext`,
`RejectsCommand`, `FailsWithRunner` and `Parses` are what `runOperation` does when
its `await` is over, each a single step because the code does not yield between
judging an exchange and enqueueing the next frame. An exchange is a flag for
`stderr` and the kinds of its stdout lines. Operations in this repository build
one frame each (`domain-support.ts:20`, and the few that frame a command
themselves); `runOperation` is written for any number and modelled for any number, so
what the run and the proofs say of a second frame holds of the loop, and of no
operation there is today.

### FixtureRedaction, FixtureImport
A text is a sequence of fields, each a value with the label in front of it; a value
is its kind, its spelling, and whether it has the shape of a replacement.
`Redacted` is the six passes in their order, each on what the ones before left:
`LabelPass` twice, `MacPass`, `Ipv4Pass`, `Ipv6Pass`, `DomainPass`. The seed of a
replacement is part of it, so that two passes that look one value up differently
give two replacements. `WellWritten` says what a text is: a
sequence of fields with known labels and kinds, of any length, in which a spelling
has the shape of a replacement exactly where its flag says so. `FixtureImport` is the process: `Import` (resolve and check
the paths), `ReadSource` (with redaction and validation), `MakeDirectories`,
`WriteOutput`, `WriteProvenance`, and `Break` at any point, which may leave a file
`Torn`. Imports follow one another over the files earlier ones left, and
`SourceChanges` puts another text where the source lies at any moment, also in the
middle of an import. `log` and `writer` are history: the arguments of every import
past the checks, and which of them wrote a file last; an import adds to them and
never resets them, so that `ProvenanceNeverAhead` speaks of every provenance on the
disk, whichever import it is from. It can be behind: an import that breaks off
between its two writes leaves the provenance of an earlier one beside a newer or torn
output, which is what the order of the writes is for. A path is the
sequence of its names; `Descends` is what `relative()` and the prefix test say.

### ArtifactGeneration
A domain module is the sequence of the operations it exports. `Start` compiles
(what `tsc` leaves of deleted sources stays in `dist`), `Discover` takes names from
the sources and modules from the build, `Relist` assembles the registry and lists
again, `Describe` infers the schemas from the sources as they are by then, `Visit`
writes or compares one artifact after another. `Interrupt` may come anywhere and
may cut a write short, and `Edit` changes the sources between any two steps.
`edited`, `before` and `seen` are history.

### CommandForms, Forms*, OperationForms, ManifestClasses
A form is a sequence of slots, one per argument; a slot says which tokens the
validators let through there: documented words, flags, a range of integers, or a
caller's value. `Opt`, `Many`, `AnyOf`, `Some`, `Listed` and the tails are the ways
in which `buildFrames` of the domain modules put arguments together. The seven
`Forms*` modules list the operations of the 42 domain modules, each definition
standing for the operations of one family; `ManifestClasses` lays the hand-written
tables over one another as `classify.ts` does. `OperationForms` sends a command
(`BuildFrames`: any operation, any of its forms) and asks of the one at hand which
other operations could have built it: `Overlap` walks the product of two patterns.
`CommandLines` says what that is about: `Lines` of a form are the sequences of tokens
(words, flags, integers, values, quoted texts) its slots let through. No run evaluates
it, its sets are infinite; section 6 relates it to `Overlap`. `WellFormed` is what every
form of the tables keeps to and TLC evaluates as part of `OperationsAssumption`: the
bounds of a slot lie within `AnyInt` (2147483647, the largest bound the code sets), an
optional part ends within its form, and none begins with a repetition unless it is one
slot long. Without the last, `Overlap` and `Lines` differ: having taken some tokens of a
repetition, the walk could still skip the part that begins with it. `Listed` stands for settings in any order and
number by one of them and whatever can be put together of the tokens of all.

Abstractions, all on the side of more overlap: values of different notations (an
address, a name, a list) are not told apart, a string that must hold digits is an
integer, a literal union is the set of its documented members, lengths are left
out. `RepeatedShows` names the one overlap there is (section 7).

## 4. The runs

| Run | Bounds | Shows |
|---|---|---|
| `queue` | 4 calls, two sharing a signal | all safety of the queue, its inductive invariant, that it implements the serial line, and that accepted calls settle |
| `runner_send` | 3 commands, two sharing a signal, one whose signal aborts with a timeout error, answers at and over the ceiling, a transport that may time out by itself | no stray answers, true verdicts, hard deadlines, no timers left, the queue driven as specified |
| `runner_stream` | 2 commands on a signal each, one aborting with a timeout error, chunks (empty ones included) instead of answers | the same for streams, and every accepted command ends though the transport may hang |
| `limits` | deadline and size ceiling given or not, values on both sides of every bound | guards stay on, callers only lower |
| `live_client` | 3 invocations, 6 ids (each missing one key), lifetime 2 ticks, deadline 2, clock to 9 | gating, strays, bounded overrun |
| `invocation` | 5 typed calls (two frames, one frame, forged, bad input, no form), one without runner, one raw command, exchanges of 1 to 3 lines | parse and stop rules; started calls end |
| `fixtures` | 2 imports, 6 paths a caller may name (files, a file below a file, names that begin with two dots), texts of two fields of one kind, with every label, and of two host names behind a secret; the source may change at any step | no provenance on the disk, of either import, is ever ahead of the output, the six passes agree, only fixtures change |
| `artifacts` | 2 runs, 2 edits, 2 domain modules with 8 contents each | OK means fresh, refusals are clean, a success leaves files that agree |
| `forms` | all 640 operations with their 1005 forms and both classes | no read builds a command of a write, no write a destructive one; the two tables of classes agree |

The bounds are enough for the cases at stake: a stray answer takes a victim and
an abandoned command, and a third command to see the session after the victim;
a shared signal takes two listeners with a stranger between them; an overrun of
three commands reaches tick 7, two below the end of the clock. `MAX_TIMER_MS` and
`MAX_SAFE_INTEGER` are scaled to 3 and 4. A second import or run starts from what an
interrupted first one left, and nothing else is carried over: two imports are enough for one to break off over the
pair of another, or to take its files for other roles, and the proofs cover any number; two edits are enough to change a module and to change it back. A pass
of the redaction can disturb at most the value it matches and, through the seed,
those after it, which two fields and a secret show. `forms` is no bounded instance:
it is the repository's own data. `Hidden = {}` in `artifacts`:
the code cross-checks an element only where `tryReadStaticManifestId` can read its
id, and says so (`input-schemas.ts:175-179`), so the run and the theorem are about
sources in which it reads all of them.

Three runs are expected to be violated; each is a disagreement between a document
and the code, found while modelling:

| Run | The document | The code |
|---|---|---|
| `runner_resolve` | `docs/transport.md:49-51`: on the deadline the command is rejected with `execution_timeout` | the signal is aborted before the deadline's promise is rejected, so a transport that resolves on abort wins the race and the command fulfils |
| `limits_doc` | `docs/usage.md:54-55`: `options.limits` cannot raise limits above SDK defaults | they replace the defaults in either direction |
| `live_peer` | `SECURITY.md:28-30`, `docs/transport.md:94-95`: the endpoint is re-checked before every command | it is checked before the command is queued; a reconnect before its turn goes unnoticed |

## 5. Fairness

`queue`: promise jobs are weakly fair because the engine drains them; tasks
are assumed to settle, which is the queue's only assumption about its user.
`runner_stream` discharges that assumption: promise jobs are weakly fair, and the
command deadline strongly fair, because an armed timer fires even if chunks keep
the loop busy at each moment one looks. `AbortOvertakes`, the step in which the
caller's abort decides the next race of `#collectStream`, is strongly fair too: what a
stream holds buffered comes to an end. A stream whose `next()` is settled each time it
is asked, for ever and with empty chunks, would keep the loop in promise jobs, and no
timer of the process would fire; the two strong fairness conditions exclude it.
Otherwise nothing is assumed of the transport, and nothing of the router, callers, or
the idle deadline. `invocation`: calls resume (jobs), and the
runner answers what it let in, which is `AcceptedEnds`. The tools
(`fixtures`, `artifacts`) and `forms` promise nothing about progress: a process that
is killed does not finish, and who runs it again is not part of the code.

## 6. Proofs

`SessionQueueProofs`, from `SignalAssumption` alone and for any set of calls and
signals: `QueueInv` is inductive, and with it `QueueTypeOK`, `OneAtATimeInOrder`,
`NeverStalls`, `AbortedBeforeTurnNeverStarts` and `NoListenerLeft` (with
`CleanupAwaits`: a settled call that listens has its cleanup job ahead). The order property is not
inductive by itself: it needs that exactly one job or one running task carries
the chain (`TokenOK`), that calls are settled up to `released` and untouched
beyond the next (`ChainOK`), and for aborts that a queued call is listening until
it has heard (`SignalsOK`). `QueueInv` is also an invariant of the run `queue`.

From the same, `ImplementsLine`. The line is the part of
the chain behind the settled calls (`Gone`); because of `QueueInv` the call whose
turn it is stands at its head, so each job is one step of the line (refuse, let in,
serve, answer, give up) or none.

`LimitsProofs`, from `LimitsAssumption` and for all values of the constants:
`TypeOK`, `GuardsStayOn` and `OnlyOverrideRaises`. The
strengthening is that the runner's own limits are valid integers, which is what its
constructor asserts; the lemmas say what `Merge` and `Resolve` return.

`InvocationProofs`, from `InvocationAssumption`: `InvocationTypeOK`,
`ParsesNormalResultsOnly`, `StopsAtFirstFailure` and `OnlyVouchedFramesSent`, by
`CallInv`: a call's frames are on the session exactly up to `next`, those before the
last have ended normally, and what is kept is what was judged. Two calls have no
frame in common, which is what lets the others' steps be ignored.

`LiveReadOnlyClientProofs`, from `LiveAssumption` (finitely many commands, `Nobody`
no id and no peer): `LiveTypeOK`, `OnlyGatedReadsSent`, `StrayOnlyByReconnect` and
`OverrunBounded`, by `LiveInv` (the line is as long as the commands in it, what is
exposed is gated, who waits under a foreign peer has seen a reconnect) and `TimeOK`:
with k commands in line the next is sent before `LatestStart(k)`, the expiry plus a
deadline for each command that is out of the way.

`FixtureImportProofs`, from `ImportAssumption` (the source is captured outside the
fixtures) and for all paths, sources and numbers of imports: `ProvenanceNeverAhead`
and `OnlyFixturesChange`, by `ImportInv`. `FilesInv` is about the disk: every
provenance was written by an import past the checks, and its output is there or has a
later writer. `PhaseInv` follows the import under way: the redacted text is clean
from the validation on, the output lies there whole before the provenance is begun,
and every other file is older than this import, which is what keeps the provenances
of earlier imports behind when it writes over, or tears, the outputs they name. And
`PassesAgree`, for texts of any length and for any mix of labels, kinds and replacements
(`WellWritten`): `RedactedIs` gives what the six passes together leave of a field,
`CleanIsKept` that nothing happens to what is already clean, and `OneReplacement`
that a value keeps one replacement wherever it stands.

`ArtifactGenerationProofs`: `RefusalTouchesNothing`, and `ArtifactsAgree` where
`Hidden = {}`, by `GenerationInv`: the artifacts visited so far are those rendered,
and what is rendered is of one piece. `OkMeansFresh` needs `FreshInv` on top: as long
as nobody has edited the sources, what was built, discovered and listed is theirs,
whatever `dist` and the artifacts held before. That a listing exists and holds what is
present (`Enumerable`, `ListedIsPresent`) uses that a directory has finitely many
files (`GenerationAssumption`).

`CommandRunnerProofs`, from `SignalAssumption` and `RunnerAssumption`, for any
number of commands and signals, any sizes and any order of events:
`RunnerTypeOK`, `CloseSparesOthers`, `VerdictIsTrue` (with a timeout of the
transport's or the caller's own among the causes) and `NoTimerLeft`, by
`RunnerInv`. Its core is what may wait in the job queue together (`JobsOK`): every
job but a `cleanup` belongs to the command whose turn it is; at most one of them
carries that command forward, except that a race may be decided before its promise
was adopted; and a `close` has a `resume` or `settle` of its command behind it. So
the deferred close, which nobody awaits, still runs within the turn of the command
it was scheduled for. `PendingOK` (no decided race is forgotten) shows that a timer
fires on an open race only, and `ExchangeOK` relates the race, the abort reason and
the outcome. `TimeoutIsHard`, `AnswerIsOwn` and `AnsweredIsOffTheWire` are proved
under `Polite`: the transport may ignore its signal or reject on it, with any error,
but does not resolve on it (`runner_send` and `runner_stream` assume the same, `runner_resolve`
shows the first of the three false without it). They rest on `SessionOK`: one command at most is on the wire, and
if its exchange has ended there a close is scheduled. `ChainOK` and its lemmas are
those of `SessionQueueProofs`.

In the same module, from the same assumptions: `ImplementsQueue`, step by step.
The mapping filters the job queue, so the proof begins with what `QueuePart` does to
a job appended, to the job at the head and to two queues put together (`PartOfAppend`,
`PartOfTail`, `PartOfConcat`). `RunnerInv` then says which job may be at the head: a
job of the queue is the same step below, the end of an exchange is `TaskSettles`, a
response over the limit is `TaskSettles` or `Close`, and everything else is unseen.
`InvalidOK` (only a refused command ends "invalid") is what makes the hidden commands
harmless. As the proofs of `SessionQueueProofs` hold for any task, they hold for this
one (`Chain`, their instance under the mapping), and give of the runner
`OneAtATimeInOrder`, `NeverStalls`, `AbortedBeforeTurnNeverStarts`, `NoListenerLeft`
and `ImplementsLine`: the line that `LiveReadOnlyClient` and `Invocation` are composed
with is the one the runner provides, with the commands `#dispatch` refuses, which the
queue never sees, turned away at the door (`StepOfBoth`).

`OperationFormsProofs`, from `OperationsAssumption` and for any table of operations:
the run `forms` compares patterns, and these proofs say that comparing patterns is
comparing commands. `MeetsIsSound` and `MeetsIsExact`: two slots meet exactly if some
token passes both. `OverlapIsExact`: two forms overlap exactly if they have a command
line in common. A shared line is found by the walk (`SharedLineIsFound`, by induction
on the slots left in both forms and the length of the line: each step drops a token or a
slot), and where the walk arrives a line can be put together backwards
(`FoundLineIsShared`, by induction on the slots left). With `CommandStaysBuilt`, the
invariant that the command at hand is one of the operation's own forms,
`ReadStaysReadIsExact` and `DestructiveStaysDestructiveIsExact` follow: in every state the
two invariants hold if and only if no line of the command at hand is a line of an
operation it must not be taken for.

The other results are about the operators the tables are written with. `LinesOfConcat`
and `LinesOfOpt` give the lines of what they build, `AnyOfCoversEveryChoice` and
`ListedCoversEveryOrder` say that no choice or order of settings is left out, and
`FamiliesApart` that families whose first words differ have no command in common
whatever callers pass, so that only operations under the same words can be taken for
each other. Their hypotheses (well-formed parts, an optional part not itself optional)
hold of every use in the `Forms*` modules.

Where a proof needs induction over data (`QueuePart` above, the listing of a
directory of any size, the walk of `Overlap`, the lines of a form), it is an induction
over a set of naturals (`SetInduction`, `NaturalSetInduction`, `BackToFront`, from the
well-foundedness of `<`), which takes no operator as a parameter. `QueuePart`, `Joined`,
`Overlap` and `Lines` are recursive functions and `Listing` a choice for that reason. That
a recursive function is what its definition says is proved of each
(`LinesExist`, `WalkExists`, `JoinExists`: some function satisfies the equation, so the
one `CHOOSE` picks does).

Only model-checked: that `ReadStaysRead` and `DestructiveStaysDestructive` hold. They
are facts about the repository's 640 operations, false of other tables, so there is
nothing to prove for every value of a constant; TLC goes through all of them, and what
its verdict means is proved. And all liveness (`AcceptedSettles`, `AcceptedEnds`,
`StartedCallsEnd`), since liveness and `ENABLED` are out of the prover's reach.

## 7. Not modelled

The parsers (text to records, with no state), the corpus parser and the conversion
of TypeScript types to schemas, `schemaProblem`, framing's character classes and the
octets of `isPrivateLanAddress`: pure functions, of which the models keep the
outcomes. Of the manifest: titles, citations, command texts and the HTTP entries.
The file layout of the repository, the regular expressions, error texts, logging,
symbolic links, and the transport's implementation are outside the models.
`PROJECT.json` gives the reason for each component.

Met while modelling, and stated by no run:

- `domains/dos.ts:14-18` keeps `cli.dos` apart from its displays, but
  `DOS_CONFIGURE_FLAGS` holds `-P` and `-B`, and what follows a flag is free: the
  write operation can say `dos -P show`. It repeats a display that changes nothing,
  which is why `RepeatedShows` excepts it.
- The path checks of the fixture importer take a name that begins with two dots for
  a path outside the root: such an output is refused, such a source allowed inside.
- A host name after a label in mixed case gets another replacement than the same
  name without one; `ShowOneValue` asks agreement of names in lower case only.
- The interface pattern at `domains/ip6.ts:981` admits VPN501 to VPN999, against its
  own message.
- A live session that is forgotten has no timer that closes it
  (`live/policy.ts:68-70` says it cannot run unbounded); only a further `invoke()`
  notices expiry. Whether one comes is not the code's to decide.
