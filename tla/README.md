# Civilization Lab: TLA+ models and proofs

Civilization Lab runs simulated worlds in which language-model agents govern
polities, and archives everything that happened so that a run can be replayed,
audited and, where privacy demands it, redacted. Its promises are about
evidence: nothing acknowledged is lost, nothing erased comes back, no model is
called twice for one decision, and a calibration campaign comes to the one
outcome its frozen search has. Those promises are kept by code that writes files
in a careful order, survives being killed between any two of them, and is
retried by clients that do not know what happened. The simulation itself has a
promise of the same kind: orders that were accepted one by one are carried out
together, whatever order the computer takes them in.

Line references below are to the repository (`src/` in `PROJECT.json` is its
root, so `src/src/archive.js` is the repository's `src/archive.js`).

## 1. The system

| Component | State it keeps | Operations | Talks to |
|---|---|---|---|
| signed run archive (`archive.js`) | `objects/`, `generations/`, `PRIVACY_PENDING`, a lock file, a trusted head per process | publish, redact, head, load, exportEvidence | the file system; called by the run service |
| run service (`run-service.js`) | the newest generation it knows, a command coordinator, a model coordinator; in the archive: request and invocation journals | create, recover, submit, validate, commit, resolve, checkpoint, invokeModel, reconcileInvocation, redact, and the phase commands | archive (compare-and-swap), models, participants |
| action ledger (`contracts.js`, `action-contract.js`) | per turn: submissions, validations, rejections | submit, validate, seal | called inside a run service command |
| turn phases (`turn-phases.js`) | phase of the turn, who is ready, diplomacy, deadlines, pending phase work | project, ready, submit, completeInterviews, updateMemory, advance | called inside a run service command |
| world (`world*.js`, `rng.js`) | the world of a turn | plan an order, resolve a set of accepted orders | called by the ledger, by resolve and by replay |
| agent memory (`memory.js`) | records per polity, rebuilt from the evidence | remember, edit, revise, forget, compress, clear, read, recover, transfer | evidence store, runtimes |
| agent runtime (`agent.js`, `confidant.js`, `model-adapter.js`) | a session, an invocation count, the phase's deadline | invoke with retries, reset, apply an answer to the memory, interview | memory, models, phases |
| evidence store, replay (`evidence.js`, `replay.js`) | the hash chain of events, content-addressed payloads | append, verify, reconstruct | archive, run service |
| forensics (`forensics.js`) | none | record a tombstone, redact a bundle | evidence store, archive |
| evidence authority (`calibration-evidence-authority-service.js`) | intents, claims, objects, pending, heads, finalizations, an anchor; an SQLite lock | initialize, get, observe, put, finalize; a revocation anchor | calibration runner over HTTPS |
| calibration archive (`CalibrationArchive` of `calibration-runner.js`) | journal, artifacts, numbered generations, a pointer; an SQLite lock | initialize, open, begin/advance/fail/complete an execution attempt, record a candidate, progress, an incident, a result | the file system |
| calibration runner and search (`PhaseACalibrationRunner`, `calibration.js`) | a position in the search | run: restore, evaluate, finalize, select | calibration archive, authority, adapters in subprocesses |
| legacy journal (`recovery.js`) | immutable bundles with a pointer | publish, load | file system |
| sessions and server (`auth.js`, `server.js`) | sessions, rate counters | issue, authenticate, revoke | run service |
| trust provisioning, adapters, policy, metrics, analysis, UI, CLIs | mostly none | verification, statistics, reports, rendering | the above |

`PROJECT.json` lists all of them with their status, also those that stay
unmodelled, and the hazards of the code at the line where each bites.

What makes the behaviour hard, and what each component has to get right:

* **Archive.** Several processes share a directory. A process may die between
  any two system calls, and the host may lose directory entries that were not
  synced. A redaction spans two directories and a journal, and must be finished
  by whoever comes next. Correct means: the newest head can be loaded, an
  acknowledged head is on disk, an erased payload is in no file once the
  redaction is over, the journal can always be completed.
* **Run service.** Each command is a read-modify-publish on a memory copy, under
  request ids that clients reuse. A model call cannot be undone or repeated, and
  its outcome may be unknown after a crash. Correct means: one effect and one
  reply for a request id, one call for an invocation, no lost update between two
  services, and every unknown outcome reconciled.
* **Turn phases.** A turn is a long protocol between actors, models and a clock;
  any of them may be silent, late or back too early. Correct means: what was
  confirmed to an actor counts, what a turn records is complete, and the turn
  ends whoever does not answer.
* **World.** An order is judged against the published world, a turn carries out
  all of them at once, and several polities may fall together. Correct means:
  what was accepted can be carried out, the order of IDs decides no result, and
  people and land go where the rules send them.
* **Agent memory and runtime.** Nothing is kept but the evidence: stores are
  rebuilt from it, two incarnations of a polity may hold one, and answers arrive
  when phases are over. Correct means: a store is what the evidence replays to,
  an answer is applied once, an invocation id is used once, and what was recorded
  can be reconstructed.
* **Redaction.** What derives from what is found from recorded provenance, over
  payloads that are addressed by content, so that polities share what is the
  same. Correct means: everything made of what is erased goes too, and of others
  only what is the same or was made of it.
* **Evidence authority.** A finalization writes seven records in six directories
  and can stop after any of them. Correct means: a staged transaction is
  completed, a released result is final, and a restart accepts what it finds.
* **Calibration.** A publication is a journal, artifacts, a generation and a
  pointer; executions run in processes that die and are finalized by an authority
  whose answers get lost. Correct means: whoever opens the archive completes what
  was interrupted, and the campaign's candidates and result are those of a search
  that nothing interrupted.

## 2. Modules

| Module | Models | Role |
|---|---|---|
| `RunHistory` | what the archive promises its callers | abstract specification |
| `Archive` | `SignedArchive` of `archive.js` | implements `RunHistory` |
| `ArchiveProofs` | | inductive invariants and theorems of `Archive`, the refinement among them |
| `RunService` | `RunService` of `run-service.js`, with the ledger's statuses | on the chain that `RunHistory` describes |
| `RunServiceProofs` | | inductive invariant and theorems of `RunService` |
| `TurnPhases` | the phases of a turn, the facade of participants, model calls within phases | above `RunService` |
| `TurnPhasesProofs` | | inductive invariant and theorems of `TurnPhases` |
| `WorldRules` | arithmetic, groups, units and their crews, transfers, the economy of `world-numeric.js`, `world-actions.js`, `world-resolution.js` | pure operators |
| `WorldResolution` | movement, battles, territories, takeover, succession of `world-resolution.js` | pure operators |
| `World` | giving orders and resolving them, stage by stage | state machine over the two |
| `AgentMemory` | `memory.js`, `agent.js`, `confidant.js` and what `replay.js` accepts of them | one polity's memory, runtimes and phases |
| `AgentMemoryProofs` | | inductive invariant and theorems of `AgentMemory`, the reconstruction of runs among them |
| `Redaction` | `redactionDependencies` and `redactBundle` of `forensics.js`, on the evidence that memories and calls leave | events of several polities, and a pure closure over them |
| `RedactionProofs` | | inductive invariant and theorems of `Redaction` |
| `EvidenceAuthority` | the authority's store and operations | |
| `EvidenceAuthorityProofs` | | inductive invariant and theorems of `EvidenceAuthority` |
| `CampaignLog` | what the calibration archive promises | abstract specification |
| `CalibrationArchive` | `CalibrationArchive` of `calibration-runner.js` | implements `CampaignLog` |
| `CalibrationArchiveProofs` | | inductive invariant, theorems and the refinement |
| `CalibrationSearch` | the frozen search of `calibration.js` and its reconstruction | pure operators and a reference definition |
| `CalibrationRunner` | `PhaseACalibrationRunner`, its adapter and the authority, on an archive whose publications are atomic | above `CalibrationArchive` |
| `CalibrationRunnerProofs` | | inductive invariant and theorems of `CalibrationRunner`, with the lemmas about `CalibrationSearch` |
| `MC*` | | inputs, symmetry and starting points for TLC |

### Archive and RunHistory

Every directory is a pair of variables: what processes see (`slots`, `entries`,
`journal`) and what is on disk (`slotsOnDisk`, ...). Linking or unlinking a file
changes the first; syncing the directory copies it to the second. A process death
keeps the first, a loss of the host leaves any mixture of the two. Writing and
syncing the *content* of a file happens under a temporary name before it is
linked (`immutable()`), and the temporary is itself an entry that may survive.
The digest of a manifest covers its parent, so a manifest's digest is modelled by
the chain that ends in it; `entries` holds objects by content, as the code names
them by hash. An object is the sequence of its events, the payloads erased from
it, and whether it carries service state or an analysis package, either of which
may repeat any payload's bytes.

Each process has a program counter (`pc`), one step per file system effect:
`privacy` (`#finishPrivacy`, run first by every operation, `privacySlot`,
`purge`, `clear`, `cleared`), `check`, `stage`, `linked`, `written`, `seal`,
`slot` or `journal`, `return`. The lock is taken by `Acquire` and released by
every way out, as the operating system does for a dead process. `Refuse` is the
assertions' failure, `Throw` an I/O error in a live process, `ProcessDies` and
`HostCrashes` the rest. `anchor[p]` is the trusted head a `SignedArchive` keeps
in memory; `Refuse` moves it too, since `#history` anchors before the caller's
own checks.

`RunHistory` has two variables: the history and what was acknowledged. `Archive`
implements it under `history <- slots, acknowledged <- acked`.

### RunService

The archive is taken as the chain of generations that `Archive` and `RunHistory`
establish, with `durable` of them known to be on disk; the generation number
stands for the digest, as a chain is not rewritten while a service lives. A
service is `down`, `creating`, `running`, `failed` (a publication threw) or
`blocked` (quarantined by a redaction). Its command coordinator goes from `free`
through `fresh` (heads compared), `candidate` (the command has been applied to a
copy and replayed), `linked` and `published`; its model coordinator through
`lookup`, `dispatch`, `call` and `complete`, where dispatch and completion are
commands like any other, so they interleave with client commands of the same and
of other services. A generation is the projection of a run that the properties
tell apart: the turn, each actor's submission status, rejections, the pending
commit, a security stop, the request journal and the invocation journal.

### TurnPhases

`RunService` shows that a command takes effect once, whole or not at all, that no
service overwrites another, and that nothing but a reconciliation happens while
the outcome of a model call is unknown. `TurnPhases` takes that as given: a
command is one step, and `call` holds the one call whose outcome is unknown.
`state` is `TurnPhases`' exported `#state`, with the ledger's batch beside each
submission's status; the world is its turn, who is alive and whether it has
ended; `inbox` counts the copies of each message a polity holds.

A participant acts through the facade, which admits a request only if it names
the current projection: `current` are those who have looked since the phase was
opened or what they see was changed by diplomacy. The others are driven by
trusted controllers and by results of model calls. The clock is kept relative to
the open phase: `behind` its opening (the wall clock was set back), `within` its
budget, or `past` it. Each mandatory phase does its work and moves on in one
command (`Validate`, `Commit`, `Resolve`, `ArchiveMemory`, `Snapshot`), so a
refused one leaves the phase as it was. `acked`, `offered` and `boundary` record
what was confirmed to actors and what the run noted about their absence.

### World

Orders are accepted one at a time against the published `world`, each with what
it reserves (`planAction`). The turn then goes through the stages of
`resolveApparatus` on a copy (`stage`): local effects, battles, demobilization,
territories, training and economy, takeovers, the succession of the polities that
fell, and publication; an exception in between drops the copy. A stage is one action over pure
operators of `WorldRules` and `WorldResolution`, which keep the code's
fixed-point arithmetic (`MulDiv` rounds half to even). `frozen` is the world that
the takeover decides on, `pending` and `layer` the worklist of succession.
A crew is a function from groups to how many there are of each and how far each
has starved: an order takes its people from as many groups as it needs
(`Workers`), each part starves by itself and may come to nobody while the unit
lives on (`Starve`), and each part lands by itself when the unit is given up.

The code sorts its work by identifiers, and the model keeps apart what is sorted
from what is not. Actions, territories and peers in a takeover may be taken in
any order; `OrderFree` says of the first two that the result is the same, as the
specification demands. Of peers it is false, and what remains true of them is
`PeersAgree`: whose people and land are whose, where they are and how many, but
not who stays in training. What the claim says of them is `PeersInAnyOrder`.

### AgentMemory

`log` is the evidence: memory operations and the dispatches and completions of
model calls, each with the phase and session it was made in. A store is what
`MemoryStore` holds in memory (records, sequence, head, owner); a runtime has a
session and an invocation count; a call is what it awaits. Phases end, runtimes
are reset or constructed a second time, the polity may fall, and the process may
die, while calls are open. `ReplayOperation` and `ValidInvocation` are the
checks of `memory.js` and `replay.js` when evidence is reconstructed.

### Redaction

A payload is its content, so that equal payloads are one, as in the store,
whosever they are: polities may write the same records, give the same answers
(a deterministic model gives everybody the same) and say the same in interviews,
at any time. Handles of records, diagnostics and views name whose they are, as
their ids do in the code. The
actions append the events that `#archive`, `invokeRecordedModel` and
`interviewAll` append, with the references they carry, and `flow` keeps, next to
the evidence, what was in truth made of what. `Dependencies` translates
`redactionDependencies` link by link, `Removed` the fixpoint of `redactBundle`
with references and, where a redacted field holds a text, equal texts.

`ErasureFollowsContent` compares the two: all that was made of what is redacted
goes too. `OnlyAliasesCross` is about the other polities. That a redaction erases
evidence of theirs is intended where it is byte for byte the same
(`test/redaction-adversarial.test.js:46-51`), and whatever was made of that goes
with it. So the property asks for the way: what is erased of others is reached
from payloads that both have. The empty output, which stands in the dispatch of
every attempt, does not count as one, and neither a link between events of two
polities nor a record known by another's handle may be the way.

### EvidenceAuthority

The store is one record of directories, seen (`store`) and on disk (`disk`). The
SQLite lock admits one operation at a time, and a process that finds it taken
answers BUSY without effect, so the model has one `operation` with its stage.
Every record is canonical and signed with a deterministic algorithm, so it is
determined by the finalization input. Initialization by a process that has not
verified the store yet is part of its first operation, as in `serialized()`.

### CalibrationArchive and CampaignLog

A publication goes through the steps of `_publish`: journal, each artifact (by a
temporary that is linked), generation, pointer. `Throw` and `Die`
may come between any two of them and in the middle of writing an artifact; the
next holder of the lock runs `_recoverTransaction`. `State` is the part of the
signed state that decides what may be published: the status, the intents and the
attempts of each key with their transitions, evidence, quarantine, records,
candidates and result. `CampaignLog` is one sequence of states and how much of it
each handle has seen; the archive implements it with the journal's bodies as the
log, since a publication counts from its journal on.

### CalibrationSearch and CalibrationRunner

The search walks rounds of operations from an incumbent, tries each new parameter
set, and stops at a bound, at the end of a round without improvement, or at the
last round. `Search` defines it recursively (operation by operation in `Evals`,
round by round in `Rounds`); the runner performs it step by step
over archive publications that are atomic here, with executions whose adapter
dies, times out or fails, finalizations that reach the authority late, and runs
that die anywhere and restore their position from what is archived
(`Reconstructed`, `Restored`).

## 3. Runs

| Run | Question | Properties |
|---|---|---|
| `archive` | two processes publish, redact and read, with two exceptions or deaths and a loss of the host anywhere | `JournalCompletable`, `AnchorsHonest`, `HeadReadable`, `AckedDurable`, `PrivacyPurged`, `ImplementsHistory`, `RedactionCompletes` |
| `run_service` | two services with model calls, reconciliations, shared request ids and failures; and a whole turn of two actors | `CalledOnce`, `CallsJournaled`, `EffectOnce`, `NothingLost`, `TurnsSealed`, `OutcomesReconciled` |
| `turn_phases` | two turns with silent, late and eliminated actors, batches that can never be committed, a model call, expired budgets, a clock set back, a stop | `EverySubmissionCounts`, `AbsencesTrue`, `CallPinsPhase`, `RecordsComplete`, `TurnCloses` |
| `authority` | one server with a death or a loss of its host, or two with an operation cut short; retries with the same and with other evidence | `HistoryAccepted`, `ResultsKept`, `StagedSettles` |
| `authority_wedged` | *violation*: see findings | `PendingsSettle` |
| `calibration_archive` | two processes, every operation of the archive, two failures anywhere in a publication | `RecoveryAccepted`, `HandlesHonest`, `ImplementsLog` |
| `calibration_runner` | 48 landscapes, runs that die, time out and fail, an authority that finalizes late | `ArchiveVerifies`, `HistoryIsSearch`, `ResultIsSearch`, `NothingUnsettled`, `Finishes` |
| `world` | two turns: every two orders, in one of them or in both, at peace and at sea; every order while capitals are held in each of 27 ways and an isle with people of another by each polity | `ResolvableOtherwise`, `OrderFree`, `PeersAgree`, `EstatesGoToHeirs`, `PeopleConserved` |
| `world_convoy` | *violation*: see findings | `Resolvable` |
| `agent_memory` | two incarnations of a polity, the confidant, durable phase commands and the host write to one memory | `Reconstructs`, `StoresHonest`, `AppliedOnce`, `InvokedOnce` |
| `redaction` | two polities keep and rewrite memories, decide, retry and are interviewed, in the same or in other words | `ErasureFollowsContent`, `OnlyAliasesCross` |
| `redaction_interface` | *violation*: see findings | `InterfacesErased` |

Every property of a passing run has a mutant in `PROJECT.json`: a plausible slip
in one definition (a forgotten sync, a dropped guard, a retry that is treated as
a fork, a share that is rounded up, ...) under which TLC finds the property
violated. Type invariants are proved rather than run, where there are proofs.

### Bounds

* *Archive.* Two processes, one event, three generations: the fewest in which a
  redaction follows a publication and another publication or redaction is then
  attempted; two processes suffice because the lock admits one, and the other
  represents any that comes afterwards. Two faults, so that the completion of an
  interrupted redaction is itself interrupted, and one loss of the host. The
  proofs remove all of these bounds.
* *RunService.* A behaviour has one of three `Workloads`: `Calls` (two services
  invoke a model and reconcile it, five generations, a failure and a loss of the
  host), `Reuse` (request ids that are used for several commands on both
  services) and `Turn` (each command of a turn of two actors once, one of them
  submitting twice, and a stop). A service that cannot publish because the
  workload's generations are used up is treated as refused by the archive.
* *TurnPhases.* Two actors, which is the least with a recipient, a straggler and
  a survivor: a participant without memory behind the facade and an agent with
  memory. Two turns, so that what one turn leaves behind meets the next; one
  message, one model call and one set-back of the clock in a behaviour. Every
  phase may run out of its budget. Batches of all three kinds.
* *EvidenceAuthority.* Two intents compete for the next head; two bundles, so
  that a retry can bring other evidence and two intents can share an object.
  `Settings` names the combinations of failures considered together.
* *CalibrationArchive.* Two handles, a key, a candidate, two attempts, five
  generations: an attempt that fails, is begun again and completed, a candidate
  and a result do not fit into fewer; two faults, so that a recovery is itself cut
  off. Proved without these bounds.
* *CalibrationRunner.* Four parameter sets, two operations beside the baseline,
  three rounds, two seeds, a bound of three candidates; the landscapes are chosen
  so that the search ends in each of its ways. Two faults, of any kind. The safety
  properties are proved without these bounds, of any landscapes.
* *World.* Three polities with a home each and a sea, which is enough for a
  chain and a circle of captors; two orders in a behaviour, given in one turn or
  in two (any two interact only through what both name), one when the capitals
  are held. Worlds start at turn 1 and `MaxTurns` is 3, so two turns are resolved:
  the first with the orders, the second on what it left. A crew is of two people,
  of one group or of two, one of which has starved before. While capitals are
  held, an isle with a facility and people of a third polity is on the ground of
  each polity in turn, so that peers that fall together do have something in each
  other's land. `ResolvableOtherwise` excepts what does not hold (see findings)
  and nothing else: turns in which a carrier is or embarks aboard another
  (`Towing`), and parts of nobody among what is landed (`EmptyLanded`).
* *AgentMemory.* Two runtimes, texts of length 0 and 1, a capacity of 2, two
  attempts, five events before nothing new begins. `OneTrouble` follows a
  behaviour while it has met at most one restart, retry, fall, interview or write
  of the host itself: each alone with everything else, not two of them.
* *Redaction.* `MaxSteps` = 3 steps of two polities, of which a memory phase has
  up to five events and a decision with a retry six: enough for a text that is
  written, rewritten and shown. Two texts, the fewest of which two polities can
  choose the same or others, and a rewritten record can be another. Polities are
  symmetric. Proved without these bounds.
* *Deadlock* is checked in the runs of the two archives and of the authority:
  whatever has failed, some process can do something. Elsewhere the
  system may really stop, and the runs say `CHECK_DEADLOCK FALSE`: clients of a
  run service stop asking when their ids are used up or the run is redacted, a
  run of phases ends with its last turn, a stop or an exhausted budget, a
  campaign with its answer, a world with its last turn, a polity by its fall.

### Fairness

Fairness is only assumed in `LiveSpec` and `FairSpec`.

* `Archive`: an operation that was started runs to its end (a Node process
  executes it without waiting for anything else, so weak fairness of its steps),
  and every process keeps reading the head (the run service does so at the start
  of each transaction). The lock may be busy whenever it tries, hence strong
  fairness for `Read`.
* `RunService`: services run on; a service that is stale, failed or quarantined
  is stopped and restarted by its operator; and the operator asks for the
  reconciliation again and again, under an id that was not used for something
  else. Strong fairness for stopping and reconciling because other commands may
  occupy the coordinator in between. No fairness is assumed of clients' other
  commands, of model calls or of failures.
* `TurnPhases`: the scheduler keeps asking for the next phase, an unknown outcome
  is reconciled (`OutcomesReconciled` of `RunService` is why that may be assumed),
  and time passes. Nothing is assumed of any actor, participant or model.
* `EvidenceAuthority`: an operation that has the lock goes on, and a server that
  is not up is started again, which calls `initialize()`.
* `CalibrationRunner`: a run goes on, and is started again by its operator after
  it died (`Step`); the authority works on what it has received (`Authority`).
  Executions may still fail, time out and lose their answers as often as
  `MaxFaults` allows.

Failures are bounded, so "eventually" means: if failures stop.

### Findings

1. **A staged finalization can become impossible** (`authority_wedged`). When a
   process dies after `finalize` staged its head, another process that is
   already initialized finalizes another intent at the same generation without
   completing the first. From then on the staged head does not fit,
   `completePending` throws for ever, and so does every start. With a single
   server the same death is harmless, since its next start recovers first:
   `StagedSettles` holds in `authority`.
2. **Two transports can be accepted aboard each other** (`world_convoy`).
   `planAction` asks whether a carrier is itself embarked in the published world,
   and the reservations of `embark A on B` and `embark B on A` do not overlap
   (`world-actions.js:230-235`). The sealed turn then fails the assertion at
   `world-resolution.js:511` every time it is resolved, and nothing can withdraw
   an order from a sealed turn.
3. **The interface of a memory phase survives a redaction**
   (`redaction_interface`). The phase shows the records in the projection as well
   as in the prompt (`agent.js:113-114`), but only the projection leads to the
   payload that holds it (`forensics.js:107`). Redacting a text that the polity
   has rewritten since erases the rewritten record, the prompt and the answer,
   and leaves the same rewritten record in that payload.

Other disagreements and limits met while modelling have no run of their own and
are listed as hazards with a note. The first three are of `World`; TLC shows each
in a moment, with the configuration of `world_convoy` and the `Starts` and the
invariant that are named:

* *People aboard an embarked transport are parted from it* (`FlotillaStart`,
  `Resolvable`). A carrier aboard another one is a legal world
  (`world-resolution.js:510`, and `test/world-second-review.test.js:158-161`
  builds one), but a capture takes the units of a territory and what is aboard
  them, and not what is aboard of that (`world-resolution.js:216-217`). The people
  aboard the inner transport keep their owner and the transport does not, which
  the assertion at line 508 refuses whenever the sealed turn is resolved. (The sea
  has to belong to a home: `TerritoryOf <- Coastal`, `Hex = {h1, h2, h3, sea}` and
  `Territory = {h1, h2, h3}`.)
* *A crew can keep a part of nobody, which cannot be landed* (`LevyStart`,
  `Resolvable`). A unit recruited from two groups lives as long as one of them has
  somebody (`world-resolution.js:341`). When its polity falls in a circle of
  captors, every part is landed as a group, that of nobody too (line 373), and the
  assertion at line 514 fails every time.
* *Whose ID sorts first decides who stays in training* (`PeersStart`,
  `PeersInAnyOrder`). Two polities fall to one captor, and people of one train in
  the land of the other. If the owner of the land is dealt with first, its capture
  ends their training (`world-resolution.js:213`); if their own polity is, they
  already belong to the captor (line 434) and are passed over (line 211).
  `WORLD.spec.md:160` says that an order that is needed is independent of the
  actor's identity, and the comment at lines 400-401 that IDs only serialize
  peers. The mark `captured_from` of units (line 218) depends on it in the same
  way and is not modelled. In everything else the order of peers does not matter:
  `PeersAgree`.
* A reply can outlive what it reports: `run-service.js:48` says that all mutations
  await durable publication before returning, but a generation that was linked
  and not synced (`archive.js:99-105`) answers a retry (`run-service.js:150`),
  and the loss of the host can still take it. The same request id can then be
  answered a second time and otherwise, which TLC finds when `EffectOnce` is
  stated without `hostCrashes = 0`.
* With the loss of the host, a pending redaction journal may continue a generation
  that did not survive; `JournalCompletable` is claimed without losses of the
  host, and `RedactionCompletes` exempts them. In the authority a death followed
  by a loss of the host can keep a record without the one it depends on, because
  `immutable()` does not sync a record that was already there.
* A validated batch may be impossible to commit (`contracts.js:90` against
  `WORLD.spec.md:69`): no command can withdraw it, so that everybody's turn waits
  until the budget has run out and the run is stopped.
* A process that dies while writing an artifact of an attempt leaves a temporary
  that the calibration archive takes for an orphan at every later opening.
* When the budget of an interview round runs out, `advance` records every living
  actor as missing (`turn-phases.js:381`), those included whose responses are in
  evidence; so `AbsencesTrue` speaks of the other interactive phases. And a clock
  that is set back admits an interview after a round was completed for lack of
  time, which the round does not hold (`setBacks = 0` in `RecordsComplete`).
* Reconstruction refuses runs in which an output came late, was completed after
  the memory was transferred, or an interview began again after a restart;
  `Undisturbed` and `Interviews` of `AgentMemory` say which.
* Equal payloads are one, and what was made of one goes with it: when two
  polities have answered the same, or both have had an empty memory, a redaction
  through that payload erases the memories, prompts and answers of the other that
  come after it (`forensics.js:123-124` and 274), too. The test quoted above wants
  the shared payload to go; that what is downstream of it goes is how far that
  leads, and `OnlyAliasesCross` says that it leads no further.
* A bundle that was redacted before has lost the
  provenance of the events erased (`forensics.js:99`), and a second redaction may
  leave derivatives; `Redaction` has first redactions only.

## 4. Proofs

`ArchiveProofs` proves, for any number of processes, events, service states and
analysis packages and for every value of the bounds, with only the assumptions
`ConstantsAreDistinct` and `BoundsAreNaturals` of `Archive`:

| Theorem | States |
|---|---|
| `Invariant` | `Spec => []IInv` |
| `TypeCorrect` | `Spec => []TypeOK` |
| `AcknowledgedIsDurable` | `Spec => []AckedDurable` |
| `ErasedIsGone` | `Spec => []PrivacyPurged` |
| `HeadIsReadable` | `Spec => []HeadReadable` |

None of the three safety properties is inductive: each speaks of the moment
after a failure and says nothing about the steps that lead there. `IInv` adds

* `Locked`: only the holder of the lock is inside an operation;
* `Drafts`: what a program counter says about the generation being written, in
  particular that its object is linked, and then on disk, before the slot is;
* `Journals`: how the journal, seen and on disk, relates to the chain and to the
  step of the process that completes it;
* `Chains`: a chain is well formed, and what one generation has erased every
  later one has erased too;
* `Purged`: unless the journal is both visible and on disk, no file in the
  visible or the surviving object directory discloses what the newest generation
  erased (that the purge leaves only the redacted object is part of `Journals`);
* `Present`: the object of every head that a crash can leave as the newest, and
  of the head the journal names, is among the files that every crash keeps;
* `Durable`: what was acknowledged is a prefix of the chain on disk, which is a
  prefix of the visible one.

The quantification over what a crash can leave is what makes the invariant
strong enough for `HostCrashes`, and keeping the two views of each directory
apart is what makes it fail when any one sync is removed from the code. The
proof has one lemma per group of actions with the same effect on the invariant,
each split by conjunct, and a few lemmas about prefixes and last elements of
chains that are stated once.

The second half of `ArchiveProofs` is about whole histories, under the same
assumptions:

| Theorem | States |
|---|---|
| `HistoryInvariant` | `Spec => []HInv` |
| `HonestAnchors` | `Spec => []AnchorsHonest` |
| `JournalIsCompletable` | `Spec => []JournalCompletable` |
| `ArchiveImplementsHistory` | `Spec => ImplementsHistory`, the refinement of `RunHistory` |

`HInv` says of every chain that a process has read, drafted or anchored that it is
a lawful past of the slots, and of a pending journal that it continues them, until
the host is lost. In the refinement every step but five stutters: linking a slot
appends, the redacted slot redacts, returning acknowledges, the loss of the host
loses a suffix beyond what was acknowledged, which is where `AckedDurable` is
needed.

`RunServiceProofs` proves the safety properties of `RunService` for any services,
requests, invocations, workloads and failures, from the assumptions of that
module:

| Theorem | States |
|---|---|
| `Invariant` | `Spec => []IInv` |
| `TypeCorrect` | `Spec => []TypeOK` |
| `NoCallTwice` | `Spec => []CalledOnce` |
| `NoCallForgotten` | `Spec => []CallsJournaled` |
| `NoEffectTwice` | `Spec => []EffectOnce` |
| `NoPublicationLost` | `Spec => []NothingLost` |
| `CommittedStays` | `Spec => []TurnsSealed` |

* `Chained`: every generation is sound (one effect per id, statuses that fit the
  turn) and keeps what the one before it had;
* `Locking`: the archive's lock is held by at most one service, while it links;
* `Services`: what a service knows is a prefix of the chain; what its command
  coordinator has computed is one lawful move from there; what its model
  coordinator is about to do is journaled at a generation it knows of;
* `Claimed`: a call that was made, or is about to be, belongs to the one service
  whose dispatch was published, and its dispatch is on disk;
* `Replied`: a reply is in the journal of a generation, while the host stays up.

`CalledOnce` is where everything comes together: two services may both have
computed the dispatch of one invocation, but only one can publish it on the
generation they both know, and the other, whose head is then stale, fails before
the call.

`TurnPhasesProofs` proves all safety properties of `TurnPhases`, for any
actors, participants, messages, turns, calls and set-backs of the clock, from the
assumptions `NoneIsNull`, `BatchesAreKinds`, `MessagesHaveSenders` and
`BoundsAreNaturals` of that module:

| Theorem | States |
|---|---|
| `Invariant` | `Spec => []IInv` |
| `TypeCorrect` | `Spec => []TypeOK` |
| `SubmissionsCount` | `Spec => []EverySubmissionCounts` |
| `AbsencesAreTrue` | `Spec => []AbsencesTrue` |
| `CallsPinPhases` | `Spec => []CallPinsPhase` |
| `MessagesArriveOnce` | `Spec => []MessagesOnce` |
| `RecordsAreComplete` | `Spec => []RecordsComplete` |

`CallPinsPhase` and `MessagesOnce` are inductive as they stand (with the types).
The others need to know how a turn got to where it is:

* `Counted`: in every phase, the status of each submission as a function of the
  batch that was confirmed (`StatusIn`), and the commitment once there is one.
  `EverySubmissionCounts` is what it says of the phases after the resolution;
* `ReadyAcked`: who is ready is whose readiness was confirmed *in this phase*,
  which fails if readiness is not cleared when a phase opens;
* `Sealed`: which phases a record can exist in. They are all later than the phase
  in which what it records may change;
* `Interviewed`: a call that is open concerns a living actor, and once a round of
  interviews is complete either everybody has responded or the time is over. This
  is where set-backs of the clock are excluded.

Steps are of four kinds (`Idling`, `Acting`, `Begin`, `Advance`), each with a
lemma on what it keeps (`IdleKeeps`, `ActKeeps`, `MoveKeeps`), so that the lemma
of a conjunct only looks at the actions that disturb it.

`CalibrationArchiveProofs` proves what `calibration_archive` checks, the
refinement included, for any handles, keys, candidates, generations, attempts and
failures, from the assumptions `BoundsAreNaturals`, `NoneIsNoHandle` and
`NoneIsNoState`:

| Theorem | States |
|---|---|
| `Invariant` | `Spec => []IInv` |
| `TypeCorrect` | `Spec => []TypeOK` |
| `HandlesAreHonest` | `Spec => []HandlesHonest` |
| `Recovers` | `Spec => []RecoveryAccepted` |
| `Implements` | `Spec => ImplementsLog`, the refinement of `CampaignLog` |

`RecoveryAccepted` speaks of the states in which somebody has just taken the lock,
and what it says there is the outcome of every step of a publication that may have
been cut off. `IInv` therefore says, of every state,

* `Locking`: a handle is inside a call exactly while it holds the lock;
* `Stored`: the generations are the bodies of the journal, or all but the last,
  and the pointer is at most one behind: a journal is written only when the one
  before has been carried out;
* `Memory`: what a handle knows was published, and it knows something once it is
  open;
* `Histories`: each body of the journal is a lawful lineage of attempts
  (`KeyLineage`, `Settled`) and retains the one before;
* `Files`: the files on disk are those that the last body refers to, up to those
  that its publication still has to write;
* `Calls`: what each program counter implies of the state being published, from
  the draft (which follows the newest state) to the pointer.

The steps are grouped as claims of the lock, recoveries, operations, writes and
ways out; one lemma shows for every operation that its draft follows the state it
started from. The refinement needs no more than `IInv`: linking a journal is
`Add`, returning is `See`, a death is `Forget`, everything else stutters.

`EvidenceAuthorityProofs` proves what `authority` checks, for any processes,
intents, bundles and requests, and for any settings of failures, from the
assumptions of `EvidenceAuthority`:

| Theorem | States |
|---|---|
| `Invariant` | `Spec => []IInv` |
| `TypeCorrect` | `Spec => []TypeOK` |
| `HistoryIsAccepted` | `Spec => [](Separate => HistoryAccepted)` |
| `ResultsAreKept` | `Spec => [](Separate => ResultsKept)` |

`Separate` says that operations have been cut short or the host has been lost, but
not both. It is the condition under which the settings of the run are chosen, and
it is needed: with a death and a loss of the host together both properties are
false (see findings), so that the theorems say exactly how far the code's
promise goes. The invariant relates what is seen to what is on disk record by
record (`Good` of each, `Kept` of the two together), in the order in which
`finalize` writes and syncs: the disk is a good store that is at most one
unsynced directory behind. `Asked` and `Prepared` say what an operation has
compared before its stage, while the lock keeps others from changing it.

`AgentMemoryProofs` proves, for any runtimes, texts, capacities and bounds, from
`MemorySentinels` and `MemoryBounds`:

| Theorem | States |
|---|---|
| `Invariant` | `Spec => []IInv` |
| `NoIdTwice` | `Spec => []InvokedOnce` |
| `NoAnswerTwice` | `Spec => []AppliedOnce` |
| `StoresAreHonest` | `Spec => []StoresHonest` |

`IInv` speaks of the evidence and of those who write it:

* `Incarnations`, `LiveReserved`: no two runtimes share a session, which
  `FreshIsFresh` derives from the search for a free ordinal by counting: among one
  number more than sessions are used, one is not;
* `CallsGood`, `CallsAwaited`: an ID in the evidence is a number that its session
  has used up, so the next one is new; what is awaited is dispatched and has not
  ended; and what counts as an answer was recorded in its own turn and phase;
* `Once`, `Applied`: the two properties, and that READ and RECOVER change nothing;
* `Reduces`: the operations reduce, to memory that fits, owned by a session, and
  nothing after the newest operation changes that;
* `StoresKnow`: a store is what the evidence reduces to up to the operation that
  the store knows last, and belongs to the owner if that is the newest.

The heart is `MemoryReduces`: an operation that passes the checks of `#archive`
(`OperationProper`) is one that `replayMemoryOperation` accepts, so what is
written can be read back whoever writes it. It needs to know what `Reduced` makes
of a log that grows by one event, for every log. `Reduced` is a recursive
function over the events; the module states induction over the natural numbers
for sets (`InductionOver`) by way of the least element that the library's theorem
about well-founded relations gives, and thereby without a parameter that is an
operator, which no installed prover could instantiate.

The second half of `AgentMemoryProofs` proves that runs are reconstructed from
their evidence, on top of that invariant and from the same assumptions:

| Theorem | States |
|---|---|
| `Reconstruction` | `Spec => []Reconstructs` |

`Reconstructs` looks at every event as of the log before it, and many runtimes
append to that log between the dispatch of a call and its end. `Told` therefore
keeps, beside `Accepted` (the property for a log, with every event judged by its
prefix),

* `EventsTold`: a retry is of a call of its own session, and an interview's session
  is that of its turn, which the log shows to have begun;
* `CallTold`, of a call that is awaited: it shows the memory as of the operation
  that it names as its head (`Remembers`); the newest event under its ID is its
  dispatch (`Sent`); nothing has retried it, and every other call of its session
  has ended (`Alone`). A confidant's call is alone only until an interview of the
  turn begins again, and its number is its attempt (`Numbered`);
* `Idle`: a session that awaits nothing has no call that has not ended;
* `AllWorded`: requests have a text, from which `MemoryTyped` derives by two
  inductions (over the log, and over the records of a FORGET or COMPRESS) that
  what is shown is a list of records, and so that a call is never `None`.

An event of another session disturbs nothing of this (`OtherTold`, `OtherIdle`)
since IDs belong to sessions. `Fit` is the core: while the head of the evidence is
the one that a call names, what it shows is what the reducer holds, and an answer
that was in time then and fitted what was shown still fits. That is why the
property asks for undisturbed events, and why those that came after a change are
the ones which reconstruction refuses.

`CalibrationRunnerProofs` proves every safety property of `CalibrationRunner`, for
any parameter sets, landscapes, numbers of operations, rounds and seeds, bound on
the candidates and number of faults:

| Theorem | States |
|---|---|
| `Invariant` | `Spec => []IInv` |
| `TypeCorrect` | `Spec => []TypeOK` |
| `SearchIsResumed` | `Spec => []HistoryIsSearch` |
| `ArchiveIsVerifiable` | `Spec => []ArchiveVerifies` |
| `OneOutcome` | `Spec => []ResultIsSearch` |
| `AllSettled` | `Spec => []NothingUnsettled` |

The assumptions are `SearchBounds`, `RunnerBounds` and `LandscapesTyped`:
operations make parameter sets of parameter sets, and scores tell parameter sets
apart, which the code ensures by taking the hash as the last criterion
(`calibration.js:281`).

Three computations have to agree wherever a run is stopped: what the run holds in
memory, what `Reconstructed` makes of the archived candidates (a walk of `Turns`
turns), and the uninterrupted `Search` (an evaluation per operation and round).
The notion that ties them is `OnPath`: a state of the search that the walk over
these candidates passes through (`Visits`), and to which the operations of the
search up to there have led as well (`Follows`). The lemmas about it need
inductions over both recursive functions (`Walks`, `EvalsTyped`, `RoundsTyped`),
and are then about single turns:

* the path begins at `Begin`; it leads over an operation whose parameter set was
  tried (`PathSkip`), to the next round (`PathRound`), and by one more candidate
  past the record that the search has next (`PathMatch`);
* with another record at the end the walk still passes through what it passed
  through before (`VisitsWithMore`), and from any state on the path where all
  records are matched it ends with the same progress and incumbent
  (`PathSettles`), whichever of these states a run resumes at;
* where the path has no next round, the walk is complete and the search at its
  end (`PathCompletes`, `FollowsLast`), and where the bound cuts one it cuts the
  other (`FollowsBound`).

`IInv` says where on the path a run is in each step:

* `Walked`: the place after the last progress is on the path, also when nobody
  runs; `Resuming`: where a run that has restored is, while it passes over the
  operations it resumes after again; `Trying`: the candidate being executed is the
  one the search has next; `Taken`, once it is archived and its progress is not;
* `Abreast`, `Kept`: the archive's incumbent and cursor, and those of the walk;
* `Concludes`: at the end the search has these candidates and no others, and was
  cut exactly if the run was;
* `Announced`, `Settled`, `Executing`: executions are announced for candidates and
  the next parameter set only, and what is archived of one is finalized, in the
  order of seeds; `Regenerated`: the candidates are backed by it;
* `Closed`: what is complete or was answered is the outcome.

`ResultIsSearch` then depends on all of them: an answer is the selection among the
candidates only if the panel is complete for each (`PanelComplete`), and the
outcome only if the candidates are the search's.

`RedactionProofs` proves what a redaction erases, for any number of polities, of
texts and of steps, with no assumption but `StepsBound` and `TextsAreNumbers`:

| Theorem | States |
|---|---|
| `Invariant` | `Spec => []IInv` |
| `ContentIsFollowed` | `Spec => []ErasureFollowsContent` |
| `AliasesOnly` | `Spec => []OnlyAliasesCross` |

`Reached` first says what the loop of a redaction computes: the least set with what
it began with that is closed under what follows. For that the recursive function
`Reach` has to exist and to be unique, which is an induction over finite sets by
the strict subset ordering. Both properties then ask for a closed set, and `IInv`
is what makes the right sets closed:

* `EventFits`: whatever an event refers to was recorded, its parents and its
  invocation are events of the same polity, and the memories in it have handles of
  operations of that polity (`Marked`). Nothing is said of texts: two polities may
  share any payload that does not name one of them. What was shown to a model is
  what the polity held then (`Shows`), which an operation has recorded
  (`Remembered`);
* `MentionFits`: what names another stands with it in events of one polity, whoever
  else has them (`Part`);
* `FlowFits`: what was made of another is a dependant of it by the recorded
  provenance, or the view of a memory phase (`Surfaces`).

`ErasedWithAll` shows that what is removed, together with the interfaces whose
prompt is removed, is closed under `flow`: an interface leads to its prompt and no
further. `OneParty` shows that every step of a redaction joins two payloads that one
polity has, and does not lead to the empty output. For the records that a model was
shown this needs the handles: `memoryOrigins` finds memories by handle and text, and
a handle is of one polity. Hence `AliasesLead`: a way that leaves the payloads of a
polity does so from one that another has, too, so what is removed lies in what the
polity has and what is reached from those it shares. The rest are lemmas of growth:
evidence is only added to (`Grows`), what fits still does then, and no dependency is
lost. This is where first redactions matter: an erased event would take its
dependencies with it.

Only model-checked: everything about `World`, and all liveness, which (like
`ENABLED`) this prover does not reach. `WorldRules` and `WorldResolution`
compute by folds over records and sequences: each fold would
need an induction of its own in the form of `InductionOver`. The proofs about the
archives, the services and the phases avoid
induction by stating chains element-wise (`Extends`, `Stored`).

## 5. What is abstracted

Hashing, canonical JSON and signatures (a record is what it commits to; forged
records are out of scope: the models are about honest processes that fail);
file modes and ownership; HTTP. The archive's slots are assumed to reach the disk
in the order in which they were linked: a later slot cannot survive without an
earlier one.

* *TurnPhases.* Batches of actions are fit, unfit or clashing; a resolution is a
  turn that ends, in which any polities may be eliminated. A participant's view
  changes when a phase is opened and with every diplomacy command it can see.
  `Message` lists the commands that may be sent in a turn, by sender and request
  id. Left out are `interviewAll`, which works on a world in memory and is not
  used by the run service, and the branches that recover a commitment or a
  resolution made outside its commands (`turn-phases.js:99`, 263-267, 273).
* *World.* Land is hexes of one territory each; units are infantry and
  transports, facilities of one type without building, repair or upgrade.
  Technologies, research, intelligence, names, channels, messages and knowledge
  are left out, as are the values of random draws (every attack may hit or miss)
  and those of the registry (small constants take their place). So are the mark
  `captured_from` and the largest quantity that an order may name.
* *AgentMemory.* Texts are their lengths. The synchronous path of
  `DeterministicModel`, sessions and memories that a caller passes in, the
  admission of empirical models and the projections themselves are left out.
* *Redaction.* Texts are numbers that are equal or not, so that a text inside
  another one is not found, and the JSON of an action or a request is never the
  text of a record or an interview; transitions of the world, battles, snapshots, tool
  results and runtime manifests are left out, with their links (lines 141-168).
* *CalibrationArchive.* The contents of artifacts are the generation that wrote
  them; the schema and attestation checks of opening always hold.
* *CalibrationRunner.* Metrics are what a landscape says of a parameter set: how
  far it violates each admission criterion and how it scores. Modes other than
  `EMPIRICAL_CALIBRATION` are left out.

### Not modelled

With the reasons in `PROJECT.json`: the legacy journal, which only its tests use;
sessions and HTTP routes; trust provisioning, which one operator runs once; the
authority's revocation anchor and the admission of its callers; metrics,
statistics and reports; the user interface and the command line; the model
adapters themselves, which are transports, and the packaging of calibration
adapters. These are pure functions of data or thin shells around the parts that
are modelled.

## 6. Plan

Done: the archive with its abstract specification and proofs; the run service; the
phases of a turn with proofs; the world's turn; memory, runtimes and their replay;
redaction; the evidence authority; the calibration archive with its abstract
specification, proofs and refinement; the search and the runner above it; and the
proofs of the archive's refinement, the run service, the authority, the memory,
the reconstruction, the calibration runner and redaction.

Left, in this order:

1. `World`: `EstatesGoToHeirs` and `PeopleConserved`, with an induction for each
   fold.
2. The steps of `TurnPhases` as commands of `RunService`, and the steps of
   `AgentMemory` within `TurnPhases`, so that what is assumed of atomic commands
   is composed rather than cited.
3. Second redactions, and the links of world transitions and snapshots.

Modules that theorems are proved about declare no `RECURSIVE` operator; pure
operators that need recursion are in modules of their own.

## 7. Running

    tlc -workers 2 -config MCArchive.cfg MCArchive
    tlapm ArchiveProofs.tla
    tlapm TurnPhasesProofs.tla
    tlapm RunServiceProofs.tla
    tlapm CalibrationArchiveProofs.tla
    tlapm EvidenceAuthorityProofs.tla
    tlapm AgentMemoryProofs.tla
    tlapm CalibrationRunnerProofs.tla
    tlapm RedactionProofs.tla

Each TLC run takes between a second and four minutes on two cores; the
proofs take about twenty-five minutes.
