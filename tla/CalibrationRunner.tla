-------------------------- MODULE CalibrationRunner --------------------------
(***************************************************************************)
(* PhaseACalibrationRunner of src/calibration-runner.js in its mode        *)
(* EMPIRICAL_CALIBRATION, with the adapter it calls (executeInternal and   *)
(* recover of src/calibration-production-adapter.js) and the evidence      *)
(* authority both depend on.  A run walks the frozen search; each new      *)
(* parameter set is executed once per seed of the panel, its evidence      *)
(* finalized by the authority and archived, then its manifests, then the   *)
(* candidate, then the progress of the search.                             *)
(*                                                                         *)
(* The operations of the archive are atomic here: CalibrationArchive shows *)
(* that a publication happens entirely or not at all.  A run may die       *)
(* between any two of them, and the lease lets one run go on at a time.    *)
(***************************************************************************)
EXTENDS CalibrationSearch, FiniteSets

CONSTANTS
    Seeds,            \* the size of protocol.seed_panel.seeds
    Landscapes,       \* what the executions may turn out to measure
    MaxFaults         \* bound on deaths, lost answers and failed executions

ASSUME RunnerBounds == Seeds \in Nat \ {0} /\ MaxFaults \in Nat

\* Operations make parameter sets of parameter sets, and the selection ranks no
\* two alike: the hash of the parameter set is the last criterion.
ASSUME LandscapesTyped == \A land \in Landscapes :
    /\ land.apply \in [Vector \X (2..Operations) -> Vector]
    /\ land.score \in [Vector -> Nat]
    /\ \A v, w \in Vector : land.score[v] = land.score[w] => v = w

VARIABLES
    landscape,        \* never changes
    archive,          \* the signed state of the campaign
    authority,        \* the authority's record of each execution intent
    sent,             \* finalizations on their way to the authority
    runner,           \* the run that holds the lease
    answer,           \* what run() has returned: a parameter set or EXHAUSTED
    faults

vars == <<landscape, archive, authority, sent, runner, answer, faults>>

Key == Vector \X (1..Seeds)
Vectors(records) == {records[i].vector : i \in 1..Len(records)}

Unborn == [status |-> "NONE", intents |-> {}, run |-> [k \in Key |-> "NONE"],
           evidence |-> {}, quarantined |-> {}, completed |-> {},
           candidates |-> <<>>, incidents |-> 0, progress |-> NoProgress,
           incumbent |-> None, result |-> None]

Idle == [pc |-> "down", round |-> 0, operation |-> 1, resume |-> NoProgress,
         index |-> 0, improved |-> FALSE, incumbent |-> None, tried |-> {},
         complete |-> TRUE, vector |-> None, seed |-> 1, prior |-> FALSE,
         failure |-> "NONE"]

Init ==
    /\ landscape \in Landscapes
    /\ archive = Unborn
    /\ authority = [k \in Key |-> "ABSENT"]
    /\ sent = {}
    /\ runner = Idle
    /\ answer = None
    /\ faults = 0

key == <<runner.vector, runner.seed>>
at(pc) == runner.pc = pc
Goto(pc) == runner' = [runner EXCEPT !.pc = pc]
Throw == runner' = Idle
Fault == faults < MaxFaults /\ faults' = faults + 1

-----------------------------------------------------------------------------
(* Opening the archive. *)

Open ==
    /\ at("down") /\ archive.status \in {"NONE", "READY", "RUNNING"}
    /\ archive.incidents = 0
    /\ archive' = IF archive.status = "NONE"
                  THEN [archive EXCEPT !.status = "READY"] ELSE archive
    /\ Goto("restore")
    /\ UNCHANGED <<landscape, authority, sent, answer, faults>>

\* buildCalibrationResult: the selection among the candidates, over the whole
\* panel of seeds and without incidents.
Result(a) ==
    LET selected == Selected(landscape, Vectors(a.candidates)) IN
    IF a.incidents = 0 /\ {k[2] : k \in a.completed} = 1..Seeds THEN selected ELSE None

\* verify: everything archived is derived again from the evidence, the search
\* from the candidates, and the result from both.  (The progress counts the
\* assessments that are saved with it.)
Regenerates(a, c) ==
    /\ c.parent \in Vectors(a.candidates) \cup {Start}
    /\ Transition(landscape, c.parent, c.vector, c.operation)
    /\ {c.vector} \X (1..Seeds) \subseteq a.completed
    /\ c.vector \notin landscape.discloses
ResultVerified(a, search) ==
    a.result # None => search.verdict = "complete" /\ a.result = Result(a)
Verified(a) ==
    LET search == Reconstructed(landscape, a.candidates) IN
    /\ a.completed \subseteq a.evidence
    /\ \A i \in 1..Len(a.candidates) : Regenerates(a, a.candidates[i])
    /\ a.progress.candidates = Len(a.candidates)
    /\ search.verdict # "refused" /\ search.incumbent = a.incumbent
    /\ ResultVerified(a, search)

OpenComplete ==
    /\ at("down") /\ archive.status = "COMPLETE" /\ Verified(archive)
    /\ answer' = archive.result
    /\ UNCHANGED <<landscape, archive, authority, sent, runner, faults>>

\* The search is reconstructed from the candidates; nothing saved is trusted.
\* Mutant of Restored: the saved progress is.
RestoredAsSaved == archive
Restored ==
    LET s == Reconstructed(landscape, archive.candidates) IN
    [archive EXCEPT !.progress = s.progress, !.incumbent = s.incumbent]

Restore ==
    /\ at("restore")
    /\ \A i \in 1..Len(archive.candidates) : Regenerates(archive, archive.candidates[i])
    /\ Reconstructed(landscape, archive.candidates).verdict # "refused"
    /\ archive' = Restored
    /\ Goto("bind")
    /\ UNCHANGED <<landscape, authority, sent, answer, faults>>

Bind ==
    /\ at("bind")
    /\ archive' = [archive EXCEPT !.status = "RUNNING"]
    /\ runner' = [runner EXCEPT !.pc = "round",
                     !.round = archive.progress.round,
                     !.resume = archive.progress,
                     !.index = archive.progress.candidates,
                     !.incumbent = archive.incumbent,
                     !.tried = Vectors(archive.candidates)]
    /\ UNCHANGED <<landscape, authority, sent, answer, faults>>

-----------------------------------------------------------------------------
(* The search. *)

EnterRound ==
    /\ at("round")
    /\ archive' = IF archive.progress.round = runner.round THEN archive
                  ELSE [archive EXCEPT !.progress =
                          [round |-> runner.round, operation |-> 0,
                           candidates |-> runner.index, improved |-> FALSE]]
    /\ runner' = [runner EXCEPT !.pc = "operation", !.operation = 1,
                     !.improved = /\ runner.round = runner.resume.round
                                  /\ archive.progress.improved]
    /\ UNCHANGED <<landscape, authority, sent, answer, faults>>

Assessed == Vectors(archive.candidates)
AnyAccepted == \E v \in Assessed : Accepted(landscape, v)

base == IF runner.incumbent = None THEN Start ELSE runner.incumbent
next == Apply(landscape, base, OperationAt(runner.round, runner.operation))
OperationLeft == runner.operation <= OperationsIn(runner.round)
Resumed ==
    /\ runner.round = runner.resume.round
    /\ runner.operation <= runner.resume.operation

EndRound ==
    /\ at("operation") /\ ~OperationLeft
    /\ IF AnyAccepted \/ ~runner.improved \/ runner.round + 1 = MaxRounds
       THEN Goto("conclude")
       ELSE runner' = [runner EXCEPT !.pc = "round", !.round = @ + 1]
    /\ UNCHANGED <<landscape, archive, authority, sent, answer, faults>>

\* Mutant of StopAtBound: a cut frontier counts as complete.
StopAsComplete ==
    /\ at("operation") /\ OperationLeft /\ ~Resumed /\ runner.index >= Bound
    /\ Goto("conclude")
    /\ UNCHANGED <<landscape, archive, authority, sent, answer, faults>>
StopAtBound ==
    /\ at("operation") /\ OperationLeft /\ ~Resumed /\ runner.index >= Bound
    /\ runner' = [runner EXCEPT !.pc = "conclude", !.complete = FALSE]
    /\ UNCHANGED <<landscape, archive, authority, sent, answer, faults>>

SkipOperation ==
    /\ at("operation") /\ OperationLeft
    /\ \/ Resumed
       \/ runner.index < Bound /\ next \in runner.tried
    /\ runner' = [runner EXCEPT !.operation = @ + 1]
    /\ UNCHANGED <<landscape, archive, authority, sent, answer, faults>>

TakeCandidate ==
    /\ at("operation") /\ OperationLeft /\ ~Resumed
    /\ runner.index < Bound /\ next \notin runner.tried
    /\ runner' = [runner EXCEPT !.pc = "intent", !.tried = @ \cup {next},
                     !.index = @ + 1, !.vector = next, !.seed = 1]
    /\ UNCHANGED <<landscape, archive, authority, sent, answer, faults>>

-----------------------------------------------------------------------------
(* One execution. *)

NextSeed ==
    runner' = IF runner.seed = Seeds
              THEN [runner EXCEPT !.pc = "assess"]
              ELSE [runner EXCEPT !.pc = "intent", !.seed = @ + 1]

RecordIntent ==
    /\ at("intent")
    /\ archive' = [archive EXCEPT !.intents = @ \cup {key}]
    /\ runner' = [runner EXCEPT !.pc = "begin", !.prior = key \in archive.intents]
    /\ UNCHANGED <<landscape, authority, sent, answer, faults>>

\* The checkpoint of an earlier run is used as it is.
UseCheckpoint ==
    /\ at("begin") /\ key \in archive.evidence
    /\ NextSeed
    /\ UNCHANGED <<landscape, archive, authority, sent, answer, faults>>

\* An attempt that is still active is taken over, a failed one succeeded.
\* Mutant of BeginAttempt: an active attempt must be settled first.
BeginAfresh ==
    /\ at("begin") /\ key \notin archive.evidence
    /\ archive.run[key] \notin {"FAILED_TERMINAL", "RUNNING"}
    /\ archive' = [archive EXCEPT !.run[key] = "RUNNING"]
    /\ Goto("dispatch")
    /\ UNCHANGED <<landscape, authority, sent, answer, faults>>
BeginAttempt ==
    /\ at("begin") /\ key \notin archive.evidence
    /\ archive.run[key] # "FAILED_TERMINAL"
    /\ archive' = [archive EXCEPT !.run[key] = "RUNNING"]
    /\ Goto("dispatch")
    /\ UNCHANGED <<landscape, authority, sent, answer, faults>>

Fail(state) == runner' = [runner EXCEPT !.pc = "failure", !.failure = state]

\* The observation of the intent decides, the first time and in recovery.
\* Mutant of Dispatch: what the authority is about to finalize is final.
DispatchEagerly ==
    /\ at("dispatch")
    /\ IF authority[key] = "ABSENT" THEN Goto("execute") ELSE Goto("evidence")
    /\ UNCHANGED <<landscape, archive, authority, sent, answer, faults>>
Dispatch ==
    /\ at("dispatch")
    /\ CASE authority[key] = "FINALIZED" -> Goto("evidence")
         [] authority[key] = "PENDING" -> Fail("QUARANTINED")
         [] authority[key] = "ABSENT" -> Goto("execute")
    /\ UNCHANGED <<landscape, archive, authority, sent, answer, faults>>

\* The world is run in a worker, which sends what is to be finalized; an
\* earlier request may have arrived since the observation.
Execute ==
    /\ at("execute")
    /\ sent' = sent \cup {key}
    /\ Goto("await")
    /\ UNCHANGED <<landscape, archive, authority, answer, faults>>

Unreachable ==
    /\ at("dispatch") /\ Fault
    /\ Fail(IF runner.prior THEN "QUARANTINED" ELSE "FAILED_RETRYABLE")
    /\ UNCHANGED <<landscape, archive, authority, sent, answer>>

\* Any other failure is for good: the authorization has been revoked, the
\* worker or the authority refuses, the execution discloses its treatment.
FailedExecution ==
    /\ \E pc \in {"dispatch", "execute", "await"} : at(pc)
    /\ Fault
    /\ \E state \in {"FAILED_TERMINAL", "BREACH"} : Fail(state)
    /\ UNCHANGED <<landscape, archive, authority, sent, answer>>

Acknowledged ==
    /\ at("await") /\ authority[key] = "FINALIZED" /\ key \notin sent
    /\ Goto("evidence")
    /\ UNCHANGED <<landscape, archive, authority, sent, answer, faults>>

\* The request's deadline, or the worker's, or the loss of the answer.
Unacknowledged ==
    /\ at("await") /\ Fault
    /\ Fail("QUARANTINED")
    /\ UNCHANGED <<landscape, archive, authority, sent, answer>>

\* Observations cannot be collected from what the adapter returned.
RejectResult ==
    /\ at("evidence") /\ Fault
    /\ \E state \in {"FAILED_TERMINAL", "BREACH"} :
          runner' = [runner EXCEPT !.pc = "quarantine", !.failure = state]
    /\ UNCHANGED <<landscape, archive, authority, sent, answer>>

QuarantineResult ==
    /\ at("quarantine")
    /\ archive' = [archive EXCEPT !.quarantined = @ \cup {key}]
    /\ Goto("failure")
    /\ UNCHANGED <<landscape, authority, sent, answer, faults>>

RecordFailure ==
    LET breach == runner.failure = "BREACH"
        state == IF breach THEN "FAILED_TERMINAL" ELSE runner.failure
    IN
    /\ at("failure")
    /\ archive' = [archive EXCEPT !.run[key] = state,
                     !.status = IF state = "FAILED_TERMINAL" THEN "FAILED" ELSE @]
    /\ IF breach THEN Goto("incident") ELSE Throw
    /\ UNCHANGED <<landscape, authority, sent, answer, faults>>

RecordIncident ==
    /\ at("incident")
    /\ archive' = [archive EXCEPT !.incidents = @ + 1, !.status = "FAILED"]
    /\ Throw
    /\ UNCHANGED <<landscape, authority, sent, answer, faults>>

RecordEvidence ==
    /\ at("evidence")
    /\ archive' = [archive EXCEPT !.run[key] = "SUCCEEDED",
                     !.evidence = @ \cup {key}]
    /\ NextSeed
    /\ UNCHANGED <<landscape, authority, sent, answer, faults>>

-----------------------------------------------------------------------------
(* One candidate. *)

Assess ==
    /\ at("assess")
    /\ IF runner.vector \in landscape.discloses THEN Goto("incident")
       ELSE runner' = [runner EXCEPT !.pc = "manifest", !.seed = 1]
    /\ UNCHANGED <<landscape, archive, authority, sent, answer, faults>>

\* recordAttempt, unless the key is completed already.
RecordManifest ==
    /\ at("manifest")
    /\ archive' = [archive EXCEPT !.completed = @ \cup {key}]
    /\ runner' = IF runner.seed = Seeds
                 THEN [runner EXCEPT !.pc = "candidate"]
                 ELSE [runner EXCEPT !.seed = @ + 1]
    /\ UNCHANGED <<landscape, authority, sent, answer, faults>>

Candidate ==
    Record(runner.vector, base, OperationAt(runner.round, runner.operation),
           runner.round)

RecordCandidate ==
    /\ at("candidate")
    /\ archive' = IF runner.vector \in Assessed THEN archive
                  ELSE [archive EXCEPT !.candidates = Append(@, Candidate)]
    /\ Goto("progress")
    /\ UNCHANGED <<landscape, authority, sent, answer, faults>>

\* Mutant of RecordProgress: the better candidate is not archived as such.
RecordCursor ==
    LET admitted == Admits(landscape, runner.incumbent, runner.vector) IN
    /\ at("progress")
    /\ archive' = [archive EXCEPT
                     !.progress = [round |-> runner.round,
                                   operation |-> runner.operation,
                                   candidates |-> runner.index,
                                   improved |-> runner.improved \/ admitted]]
    /\ runner' = [runner EXCEPT !.pc = "operation", !.operation = @ + 1,
                     !.incumbent = IF admitted THEN runner.vector ELSE @,
                     !.improved = @ \/ admitted, !.vector = None, !.seed = 1,
                     !.prior = FALSE]
    /\ UNCHANGED <<landscape, authority, sent, answer, faults>>
RecordProgress ==
    LET admitted == Admits(landscape, runner.incumbent, runner.vector) IN
    /\ at("progress")
    /\ archive' = [archive EXCEPT
                     !.progress = [round |-> runner.round,
                                   operation |-> runner.operation,
                                   candidates |-> runner.index,
                                   improved |-> runner.improved \/ admitted],
                     !.incumbent = IF admitted THEN runner.vector ELSE @]
    /\ runner' = [runner EXCEPT !.pc = "operation", !.operation = @ + 1,
                     !.incumbent = IF admitted THEN runner.vector ELSE @,
                     !.improved = @ \/ admitted, !.vector = None, !.seed = 1,
                     !.prior = FALSE]
    /\ UNCHANGED <<landscape, authority, sent, answer, faults>>

\* The frontier was cut, or has nothing accepted: the archive stays open.
Conclude ==
    /\ at("conclude")
    /\ IF ~AnyAccepted \/ ~runner.complete
       THEN answer' = "EXHAUSTED" /\ UNCHANGED archive
       ELSE /\ answer' = Result(archive)
            /\ archive' = [archive EXCEPT !.status = "COMPLETE",
                             !.result = Result(archive)]
    /\ Throw
    /\ UNCHANGED <<landscape, authority, sent, faults>>

\* The process dies, or an operation of the archive throws.
Die ==
    /\ ~at("down") /\ Fault /\ Throw
    /\ UNCHANGED <<landscape, archive, authority, sent, answer>>

-----------------------------------------------------------------------------
(* The authority handles a request when it gets to it, whoever waits.      *)
(* Its own deaths leave a finalization pending until it is started again.  *)

Stage(k) ==
    /\ k \in sent /\ authority[k] = "ABSENT"
    /\ authority' = [authority EXCEPT ![k] = "PENDING"]
    /\ UNCHANGED <<landscape, archive, sent, runner, answer, faults>>

\* What is finalized already is only acknowledged again.
Finalize(k) ==
    /\ \/ authority[k] = "PENDING"
       \/ authority[k] = "FINALIZED" /\ k \in sent
    /\ authority' = [authority EXCEPT ![k] = "FINALIZED"]
    /\ sent' = sent \ {k}
    /\ UNCHANGED <<landscape, archive, runner, answer, faults>>

\* A request is lost on the way; a run that waits for it will time out.
Lose(k) ==
    /\ k \in sent /\ ~(at("await") /\ key = k)
    /\ sent' = sent \ {k}
    /\ UNCHANGED <<landscape, archive, authority, runner, answer, faults>>

Step ==
    \/ Open \/ OpenComplete \/ Restore \/ Bind
    \/ EnterRound \/ EndRound \/ StopAtBound \/ SkipOperation \/ TakeCandidate
    \/ RecordIntent \/ UseCheckpoint \/ BeginAttempt \/ Dispatch \/ Execute
    \/ Acknowledged \/ QuarantineResult \/ RecordFailure \/ RecordIncident \/ RecordEvidence
    \/ Assess \/ RecordManifest \/ RecordCandidate \/ RecordProgress \/ Conclude

Authority == \E k \in Key : Stage(k) \/ Finalize(k)

Next ==
    \/ Step
    \/ Unreachable \/ FailedExecution \/ Unacknowledged \/ RejectResult \/ Die
    \/ Authority
    \/ \E k \in Key : Lose(k)

Spec == Init /\ [][Next]_vars

\* A run goes on, and is started again by the operator; the authority works.
FairSpec == Spec /\ WF_vars(Step) /\ WF_vars(Authority)

-----------------------------------------------------------------------------
(* Properties *)

\* Whatever interrupts the runs, the candidates they archive are those of the
\* uninterrupted search, in its order, and no later run refuses them or
\* takes their progress for another (reconstructCalibrationSearch).
HistoryIsSearch ==
    LET records == Search(landscape).records
        restored == Reconstructed(landscape, archive.candidates)
    IN
    /\ Len(archive.candidates) <= Len(records)
    /\ \A i \in 1..Len(archive.candidates) : archive.candidates[i] = records[i]
    /\ restored.verdict \in {"partial", "complete"}
    /\ at("operation") => runner.incumbent = restored.incumbent
                          /\ runner.index = Len(archive.candidates)

\* What a run has archived up to its last progress, and what a completed
\* campaign consists of, passes verification: the candidates, the incumbent and
\* the result are what CalibrationArchive.verify, which opening a completed
\* archive calls, derives again from the evidence.
ArchiveVerifies ==
    archive.status = "COMPLETE" \/ runner.pc \notin {"down", "restore", "progress"}
        => Verified(archive)

\* A campaign has one outcome: the selection of the uninterrupted search, or
\* that it was exhausted, however often run() is interrupted and called.
Outcome ==
    LET s == Search(landscape)
        selected == Selected(landscape, Vectors(s.records))
    IN  IF s.cut \/ selected = None THEN "EXHAUSTED" ELSE selected
ResultIsSearch ==
    /\ answer \in {None, Outcome}
    /\ archive.result \in {None, Outcome}

\* When run() returns, every execution it ever announced has its evidence
\* with the authority and in the archive, and every candidate its manifests.
NothingUnsettled ==
    answer # None =>
        /\ archive.intents = Vectors(archive.candidates) \X (1..Seeds)
        /\ \A k \in archive.intents :
              /\ authority[k] = "FINALIZED"
              /\ k \in archive.evidence \cap archive.completed
              /\ archive.run[k] = "SUCCEEDED"

\* Runs that are started again after every interruption come to an answer,
\* or the campaign has failed.
Finishes == <>(answer # None \/ archive.status = "FAILED")
=============================================================================
