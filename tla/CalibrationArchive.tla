-------------------------- MODULE CalibrationArchive -------------------------
(***************************************************************************)
(* The calibration archive of src/calibration-runner.js (class             *)
(* CalibrationArchive): the durable state of a calibration campaign.       *)
(*                                                                         *)
(* Every change is a publication: a transaction journal that holds the     *)
(* next signed state and the artifacts it refers to, then the artifacts,   *)
(* then the numbered generation, then the pointer state.json.  Everything  *)
(* happens under an SQLite lock that is never waited for and that the      *)
(* operating system frees when a process dies.  Whoever takes the lock     *)
(* next completes an interrupted publication from its journal.             *)
(*                                                                         *)
(* The digest of a generation covers its parent's, so a head is modelled   *)
(* by its number; generations count from 1, and 0 is JavaScript's null.    *)
(***************************************************************************)
EXTENDS Naturals, Sequences, FiniteSets

CONSTANTS
    Handle,           \* archive objects, each in a process of its own
    Key,              \* calibration keys: a parameter set and a seed
    Candidate,        \* parameter sets
    None,             \* JavaScript's null
    MaxGenerations,   \* bound on the generations of the archive
    MaxAttempts,      \* bound on the execution attempts of a key
    MaxFaults         \* bound on exceptions and process deaths

ASSUME BoundsAreNaturals ==
    MaxGenerations \in Nat /\ MaxAttempts \in Nat /\ MaxFaults \in Nat
ASSUME NoneIsNoHandle == None \notin Handle

VARIABLES
    journal,          \* transactions/: what each publication is to contain
    generations,      \* generations/: the states published
    artifact,         \* the other files: the generation that wrote each
    strays,           \* temporaries left behind inside attempts/<id>/
    pointer,          \* state.json
    directories,      \* whether the directories have been made
    lock,             \* holder of calibration-publication-lock.sqlite
    pc, call, work,   \* what each handle is executing
    mem,              \* this.state and this.head of each handle
    expected,         \* the head a call started from
    faults

disk == <<journal, generations, artifact, strays, pointer, directories>>
local == <<pc, call, work, mem, expected>>
vars == <<disk, lock, local, faults>>

-----------------------------------------------------------------------------
(* Data *)

Active == {"PENDING", "DISPATCHING", "RUNNING", "RECOVERING"}
Failed == {"FAILED_RETRYABLE", "FAILED_TERMINAL", "QUARANTINED"}
ExecutionState == Active \cup Failed \cup {"SUCCEEDED"}
ASSUME NoneIsNoState == None \notin ExecutionState

\* An execution attempt: its transitions, and whether it has a failure record.
Attempt == [transitions: Seq(ExecutionState), failure: BOOLEAN]

State == [status: {"READY", "RUNNING", "FAILED", "COMPLETE"},
          intents: [Key -> ExecutionState \cup {None}],
          runs: [Key -> Seq(Attempt)],          \* execution_attempts
          executions: SUBSET Key,
          quarantined: SUBSET [key: Key, run: Nat],
          completed: SUBSET Key,                \* attempts, completed_keys
          candidates: SUBSET Candidate,
          incidents: Nat,
          result: BOOLEAN]

Fresh == [status |-> "READY", intents |-> [k \in Key |-> None],
          runs |-> [k \in Key |-> <<>>], executions |-> {}, quarantined |-> {},
          completed |-> {}, candidates |-> {}, incidents |-> 0,
          result |-> FALSE]

File(d, of, n) == [dir |-> d, of |-> of, run |-> n]
InAttempts == {"canonical-evidence", "metrics", "manifest"}
ResultPair == {"CALIBRATION_RESULT", "PILOT_0_WORLD_CONFIGURATION"}
AttemptFiles(k) ==
    <<File("canonical-evidence", k, 0), File("metrics", k, 0),
      File("manifest", k, 0)>>
ResultFiles ==
    <<File("CALIBRATION_RESULT", None, 0),
      File("PILOT_0_WORLD_CONFIGURATION", None, 0)>>
Path == [dir: {"evidence"} \cup InAttempts, of: Key, run: {0}]
        \cup [dir: {"quarantine", "execution-attempts"}, of: Key,
              run: 1..MaxAttempts]
        \cup [dir: {"candidates"}, of: Candidate, run: {0}]
        \cup [dir: ResultPair, of: {None}, run: {0}]

Last(s) == s[Len(s)]
IsExtension(s, t) == Len(s) <= Len(t) /\ \A i \in 1..Len(s) : t[i] = s[i]
Elements(s) == {s[i] : i \in 1..Len(s)}
Now(a) == Last(a.transitions)

\* A file exists once a generation has written it.
Exists(f) == artifact[f] # 0
FilesIn(dirs) == {f \in Path : f.dir \in dirs /\ Exists(f)}

-----------------------------------------------------------------------------
(* The checks a reader makes. *)

\* assertRetainedHistory: what a state keeps of the one before.
RunRetained(a, b) ==
    /\ IsExtension(a.transitions, b.transitions)
    /\ a.failure => b.failure
IntentRetained(a, b) ==
    \/ a \in {None, b}
    \/ /\ a \in (Active \cup Failed) \ {"FAILED_TERMINAL"}
       /\ b \in ExecutionState \ {"PENDING"}
Retains(s, t) ==
    /\ s.executions \subseteq t.executions
    /\ s.quarantined \subseteq t.quarantined
    /\ s.completed \subseteq t.completed
    /\ s.candidates \subseteq t.candidates
    /\ s.incidents <= t.incidents
    /\ \A k \in Key :
        /\ Len(s.runs[k]) <= Len(t.runs[k])
        /\ \A i \in 1..Len(s.runs[k]) : RunRetained(s.runs[k][i], t.runs[k][i])
        /\ IntentRetained(s.intents[k], t.intents[k])
    /\ s.result => t.result

\* _history and _loadLocked.
HistoryValid ==
    /\ generations # <<>>
    /\ \A i \in 1..(Len(generations) - 1) :
          Retains(generations[i], generations[i + 1])
    /\ pointer = Len(generations)

\* _assertNoOrphans: one outcome and one active attempt for each key, ...
LineageConsistent(s) ==
    \A k \in Key :
        LET runs == s.runs[k]
            with(states) == {i \in 1..Len(runs) : Now(runs[i]) \in states}
        IN  /\ s.intents[k] = "SUCCEEDED" <=> k \in s.executions
            /\ k \in s.executions <=> with({"SUCCEEDED"}) # {}
            /\ runs # <<>> => s.intents[k] # None
            /\ Cardinality(with(Active)) <= 1
            /\ Cardinality(with({"SUCCEEDED"})) <= 1
            /\ \A i \in 1..Len(runs) : runs[i].failure <=> i \in with(Failed)

\* ... and exactly the files that the state refers to.
FilesMatch(s) ==
    /\ FilesIn({"evidence"}) = {File("evidence", k, 0) : k \in s.executions}
    /\ FilesIn({"quarantine"}) =
          {File("quarantine", q.key, q.run) : q \in s.quarantined}
    /\ FilesIn({"execution-attempts"}) =
          UNION {{File("execution-attempts", k, i) :
                    i \in {j \in 1..Len(s.runs[k]) : s.runs[k][j].failure}} :
                 k \in Key}
    /\ FilesIn(InAttempts) =
          UNION {Elements(AttemptFiles(k)) : k \in s.completed}
    /\ FilesIn({"candidates"}) = {File("candidates", c, 0) : c \in s.candidates}
    /\ FilesIn(ResultPair) =
          IF s.result THEN Elements(ResultFiles) ELSE {}
    /\ s.status = "COMPLETE" <=> s.result

\* The other directories are listed by their *.json names; attempts/ is listed
\* whole, and a temporary in it is an orphan.
NoOrphans(s) == LineageConsistent(s) /\ FilesMatch(s) /\ strays = {}

-----------------------------------------------------------------------------
\* work: the publication under way, and how far immutable() is with its file.
NoWork == [number |-> 0, body |-> Fresh, files |-> <<>>, recovering |-> FALSE,
           temporary |-> "none"]
NoMemory == [state |-> Fresh, head |-> 0]

Init ==
    /\ journal = <<>> /\ generations = <<>>
    /\ artifact = [f \in Path |-> 0]
    /\ strays = {}
    /\ pointer = 0
    /\ directories = FALSE
    /\ lock = None
    /\ pc = [h \in Handle |-> "closed"]
    /\ call = [h \in Handle |-> "none"]
    /\ work = [h \in Handle |-> NoWork]
    /\ mem = [h \in Handle |-> NoMemory]
    /\ expected = [h \in Handle |-> 0]
    /\ faults = 0

Goto(h, label) == pc' = [pc EXCEPT ![h] = label]
Step(h, from, to) == pc[h] = from /\ Goto(h, to)

\* The end of _exclusive: ROLLBACK frees the lock.
Release(h, label) ==
    /\ lock' = None
    /\ Goto(h, label)
    /\ call' = [call EXCEPT ![h] = "none"]
    /\ work' = [work EXCEPT ![h] = NoWork]

\* _exclusive: the directories are made, then the lock is tried once; a caller
\* that finds it taken gets an error and has done nothing else.
Claim(h, what, from, to) ==
    /\ lock = None
    /\ Step(h, from, to)
    /\ lock' = h
    /\ call' = [call EXCEPT ![h] = what]
    /\ expected' = [expected EXCEPT ![h] = mem[h].head]
    /\ directories' = TRUE
    /\ UNCHANGED <<journal, generations, artifact, strays, pointer, work, mem,
                   faults>>

\* CalibrationArchive.open, and initialize, which publishes the first state
\* only when there is no pointer, and does not look for a journal then.
Open(h) == directories /\ Claim(h, "open", "closed", "recover")
Initialize(h) ==
    Claim(h, "open", "closed", IF pointer = 0 THEN "create" ELSE "recover")
\* update and the record operations; recordResult checks for orphans.
Operate(h) == Claim(h, "operation", "open", "recover")
Conclude(h) == Claim(h, "result", "open", "recover")

-----------------------------------------------------------------------------
(* _recoverTransaction and _loadLocked. *)

Pending == Last(journal)
\* Mutant of Recoverable: a generation that is there already is a rollback.
RecoverableBefore == Len(generations) + 1 = Len(journal)
Recoverable ==
    /\ Len(generations) \in {Len(journal) - 1, Len(journal)}
    /\ pointer \in {0, Len(journal) - 1}

NothingToRecover(h) ==
    /\ journal = <<>> \/ pointer = Len(journal)
    /\ Step(h, "recover", "load")
    /\ UNCHANGED <<disk, lock, call, work, mem, expected, faults>>

Recover(h) ==
    /\ journal # <<>> /\ pointer # Len(journal) /\ Recoverable
    /\ Step(h, "recover", IF Pending.files = <<>> THEN "generation" ELSE "files")
    /\ work' = [work EXCEPT ![h] =
          [number |-> Len(journal), body |-> Pending.body,
           files |-> Pending.files, recovering |-> TRUE, temporary |-> "none"]]
    /\ UNCHANGED <<disk, lock, call, mem, expected, faults>>

Newest == [state |-> Last(generations), head |-> Len(generations)]

\* open and initialize check for orphans and return the handle.
LoadOpened(h) ==
    /\ pc[h] = "load" /\ call[h] = "open"
    /\ HistoryValid /\ NoOrphans(Newest.state)
    /\ mem' = [mem EXCEPT ![h] = Newest]
    /\ Release(h, "open")
    /\ UNCHANGED <<disk, expected, faults>>

\* An operation takes the newest state into the handle before it compares the
\* head it was called with; recordResult checks for orphans in between.
LoadForWork(h) ==
    /\ Step(h, "load", "ready") /\ call[h] # "open"
    /\ HistoryValid
    /\ mem' = [mem EXCEPT ![h] = Newest]
    /\ UNCHANGED <<disk, lock, call, work, expected, faults>>

Admitted(h) == call[h] = "result" => NoOrphans(mem[h].state)

-----------------------------------------------------------------------------
(* The operations: what each may publish. *)

Current(h) == expected[h] = mem[h].head

\* Mutant of Publish: the handle moves on before anything is written.
PublishAhead(h, next, files) ==
    /\ Len(generations) < MaxGenerations
    /\ Current(h) /\ Admitted(h)
    /\ Step(h, "ready", "journal")
    /\ work' = [work EXCEPT ![h] =
          [number |-> mem[h].head + 1, body |-> next, files |-> files,
           recovering |-> FALSE, temporary |-> "none"]]
    /\ mem' = [mem EXCEPT ![h] = [state |-> next, head |-> @.head + 1]]
    /\ UNCHANGED <<disk, lock, call, expected, faults>>
Publish(h, next, files) ==
    /\ Len(generations) < MaxGenerations
    /\ Current(h) /\ Admitted(h)
    /\ Step(h, "ready", "journal")
    /\ work' = [work EXCEPT ![h] =
          [number |-> mem[h].head + 1, body |-> next, files |-> files,
           recovering |-> FALSE, temporary |-> "none"]]
    /\ UNCHANGED <<disk, lock, call, mem, expected, faults>>

Create(h) ==
    /\ Step(h, "create", "journal")
    /\ work' = [work EXCEPT ![h] = [NoWork EXCEPT !.number = 1]]
    /\ UNCHANGED <<disk, lock, call, mem, expected, faults>>

\* A call that is stale, is refused, or finds what it wanted to record.
Return(h) ==
    /\ pc[h] = "ready"
    /\ Release(h, "open")
    /\ UNCHANGED <<disk, mem, expected, faults>>

Working(h) == pc[h] = "ready" /\ call[h] = "operation"

\* update, by the runner when it starts; what else it updates is the progress
\* of the search, which this module leaves out.
Update(h) ==
    LET s == mem[h].state IN
    /\ Working(h) /\ s.status = "READY"
    /\ Publish(h, [s EXCEPT !.status = "RUNNING"], <<>>)

RecordIncident(h) ==
    LET s == mem[h].state IN
    /\ Working(h) /\ s.status # "COMPLETE"
    /\ Publish(h, [s EXCEPT !.incidents = @ + 1, !.status = "FAILED"], <<>>)

RecordExecutionIntent(h, k) ==
    LET s == mem[h].state IN
    /\ Working(h) /\ s.status \notin {"COMPLETE", "FAILED"}
    /\ s.intents[k] = None
    /\ Publish(h, [s EXCEPT !.intents[k] = "PENDING"], <<>>)

\* An attempt that is still active is returned as it is; one that failed for
\* good or succeeded has no successor.  A successor, or an attempt whose intent
\* an earlier run recorded, begins by reconciling with the authority.
MayBegin(s, k) ==
    /\ k \notin s.completed /\ s.intents[k] # None
    /\ s.runs[k] # <<>> =>
          Now(Last(s.runs[k])) \in Failed \ {"FAILED_TERMINAL"}
Begun(recovering) ==
    [transitions |-> IF recovering THEN <<"RECOVERING", "RUNNING">>
                     ELSE <<"PENDING", "DISPATCHING", "RUNNING">>,
     failure |-> FALSE]
\* Mutant of BeginExecutionAttempt: a retry takes the place of what failed.
BeginInPlace(h, k, recovering) ==
    LET s == mem[h].state
        reconciling == recovering \/ s.runs[k] # <<>>
    IN
    /\ Working(h) /\ MayBegin(s, k) /\ Len(s.runs[k]) < MaxAttempts
    /\ Publish(h, [s EXCEPT !.runs[k] = <<Begun(reconciling)>>,
                            !.intents[k] = IF reconciling THEN "RECOVERING"
                                           ELSE "RUNNING"], <<>>)
BeginExecutionAttempt(h, k, recovering) ==
    LET s == mem[h].state
        reconciling == recovering \/ s.runs[k] # <<>>
    IN
    /\ Working(h) /\ MayBegin(s, k) /\ Len(s.runs[k]) < MaxAttempts
    /\ Publish(h, [s EXCEPT !.runs[k] = Append(@, Begun(reconciling)),
                            !.intents[k] = IF reconciling THEN "RECOVERING"
                                           ELSE "RUNNING"], <<>>)

Running(s, k, i) ==
    i \in 1..Len(s.runs[k]) /\ Now(s.runs[k][i]) = "RUNNING"
Moved(a, state) == [a EXCEPT !.transitions = Append(@, state)]

\* An infrastructure failure before the dispatch may be retried, a later one is
\* quarantined; any other failure ends the campaign.
RecordExecutionAttemptFailure(h, k, i, state) ==
    LET s == mem[h].state IN
    /\ Working(h) /\ Running(s, k, i)
    /\ Publish(h, [s EXCEPT
              !.runs[k][i] = [Moved(@, state) EXCEPT !.failure = TRUE],
              !.intents[k] = state,
              !.status = IF state = "FAILED_TERMINAL" THEN "FAILED" ELSE @],
          <<File("execution-attempts", k, i)>>)

RecordEvidence(h, k, i) ==
    LET s == mem[h].state IN
    /\ Working(h) /\ s.status # "COMPLETE"
    /\ k \notin s.executions /\ s.intents[k] # None /\ Running(s, k, i)
    /\ Publish(h, [s EXCEPT !.runs[k][i] = Moved(@, "SUCCEEDED"),
                            !.executions = @ \cup {k},
                            !.intents[k] = "SUCCEEDED"],
               <<File("evidence", k, 0)>>)

QuarantineAdapterResult(h, k, i) ==
    LET s == mem[h].state
        q == [key |-> k, run |-> i]
    IN
    /\ Working(h) /\ s.status # "COMPLETE"
    /\ i \in 1..Len(s.runs[k]) /\ q \notin s.quarantined
    /\ Publish(h, [s EXCEPT !.quarantined = @ \cup {q}],
               <<File("quarantine", k, i)>>)

RecordAttempt(h, k) ==
    LET s == mem[h].state IN
    /\ Working(h) /\ s.status # "COMPLETE" /\ k \notin s.completed
    /\ Publish(h, [s EXCEPT !.completed = @ \cup {k}], AttemptFiles(k))

RecordCandidate(h, c) ==
    LET s == mem[h].state IN
    /\ Working(h) /\ s.status # "COMPLETE" /\ c \notin s.candidates
    /\ Publish(h, [s EXCEPT !.candidates = @ \cup {c}],
               <<File("candidates", c, 0)>>)

\* The runner concludes a running search whose executions have all succeeded;
\* recordResult itself refuses only an archive that is complete.
Concludes(s) ==
    s.status = "RUNNING" /\ \A k \in Key : s.intents[k] \in {None, "SUCCEEDED"}
RecordResult(h) ==
    LET s == mem[h].state IN
    /\ call[h] = "result" /\ s.status # "COMPLETE" /\ Concludes(s)
    /\ Publish(h, [s EXCEPT !.status = "COMPLETE", !.result = TRUE], ResultFiles)

-----------------------------------------------------------------------------
(* The writing: immutable(), atomicPointer(), the rest of _publish. *)

Writing == {"journal", "files", "generation"}

WriteTemporary(h) ==
    /\ pc[h] \in Writing /\ work[h].temporary = "none"
    /\ work' = [work EXCEPT ![h].temporary = "written"]
    /\ UNCHANGED <<disk, lock, pc, call, mem, expected, faults>>

Linking(h, what) ==
    /\ pc[h] = what /\ work[h].temporary = "written"
    /\ work' = [work EXCEPT ![h].temporary = "linked"]
    /\ UNCHANGED <<strays, pointer, directories, lock, pc, call, mem, expected,
                   faults>>

LinkJournal(h) ==
    /\ Linking(h, "journal")
    /\ Len(journal) = work[h].number - 1
    /\ journal' = Append(journal,
                        [body |-> work[h].body, files |-> work[h].files])
    /\ UNCHANGED <<generations, artifact>>

\* A file that is there must have the content it is to be given.
LinkFile(h) ==
    /\ Linking(h, "files")
    /\ artifact[Head(work[h].files)] \in {0, work[h].number}
    /\ artifact' = [artifact EXCEPT ![Head(work[h].files)] = work[h].number]
    /\ UNCHANGED <<journal, generations>>

LinkGeneration(h) ==
    /\ Linking(h, "generation")
    /\ \/ /\ Len(generations) = work[h].number - 1
          /\ generations' = Append(generations, work[h].body)
       \/ /\ Len(generations) = work[h].number
          /\ UNCHANGED generations
    /\ UNCHANGED <<journal, artifact>>

After(h) ==
    CASE pc[h] = "generation" -> "pointer"
      [] pc[h] = "journal" /\ work[h].files # <<>> -> "files"
      [] pc[h] = "files" /\ Len(work[h].files) > 1 -> "files"
      [] OTHER -> "generation"

UnlinkTemporary(h) ==
    /\ work[h].temporary = "linked"
    /\ Goto(h, After(h))
    /\ work' = [work EXCEPT ![h].temporary = "none",
                            ![h].files = IF pc[h] = "files" THEN Tail(@) ELSE @]
    /\ UNCHANGED <<disk, lock, call, mem, expected, faults>>

SwingPointer(h) ==
    /\ Step(h, "pointer", IF work[h].recovering THEN "load" ELSE "finish")
    /\ pointer' = work[h].number
    /\ UNCHANGED <<journal, generations, artifact, strays, directories, lock,
                   call, work, mem, expected, faults>>

\* The handle moves on only when everything has been written.
Finish(h) ==
    /\ pc[h] = "finish"
    /\ mem' = [mem EXCEPT ![h] = [state |-> work[h].body,
                                  head |-> work[h].number]]
    /\ Release(h, "open")
    /\ UNCHANGED <<disk, expected, faults>>

-----------------------------------------------------------------------------
(* What goes wrong. *)

Busy(h) == lock = h
InAttemptDirectory(h) ==
    pc[h] = "files" /\ Head(work[h].files).dir \in InAttempts
BackOut(h) == Release(h, IF call[h] = "open" THEN "closed" ELSE "open")

\* A check of the directory fails: the call ends with an error.
Clashes(h) ==
    /\ work[h].temporary = "written"
    /\ \/ pc[h] = "journal" /\ Len(journal) # work[h].number - 1
       \/ pc[h] = "files" /\ artifact[Head(work[h].files)] \notin {0, work[h].number}
       \/ pc[h] = "generation" /\ Len(generations) \notin {work[h].number - 1, work[h].number}
Unacceptable(h) ==
    \/ pc[h] = "recover" /\ journal # <<>> /\ pointer # Len(journal)
                        /\ ~Recoverable
    \/ pc[h] = "load" /\ ~HistoryValid
    \/ pc[h] = "load" /\ call[h] = "open"
                     /\ HistoryValid /\ ~NoOrphans(Newest.state)
Refuse(h) ==
    /\ Clashes(h) \/ Unacceptable(h)
    /\ BackOut(h)
    /\ UNCHANGED <<disk, mem, expected, faults>>

\* An exception: a fault hook, a full disk, a mutator that throws.  A temporary
\* whose writing fails stays behind; one that could not be linked does not.
Throw(h) ==
    /\ Busy(h) /\ faults < MaxFaults /\ faults' = faults + 1
    /\ BackOut(h)
    /\ strays' \in {strays} \cup
          (IF InAttemptDirectory(h) /\ work[h].temporary = "none"
           THEN {strays \cup {Head(work[h].files)}} ELSE {})
    /\ UNCHANGED <<journal, generations, artifact, pointer, directories, mem,
                   expected>>

\* The process dies, and with it its lock and its handle; the temporary it had
\* not removed stays.
Die(h) ==
    /\ pc[h] # "closed" /\ faults < MaxFaults /\ faults' = faults + 1
    /\ lock' = IF Busy(h) THEN None ELSE lock
    /\ Goto(h, "closed")
    /\ call' = [call EXCEPT ![h] = "none"]
    /\ work' = [work EXCEPT ![h] = NoWork]
    /\ mem' = [mem EXCEPT ![h] = NoMemory]
    /\ expected' = [expected EXCEPT ![h] = 0]
    /\ strays' = IF InAttemptDirectory(h) /\ work[h].temporary # "none"
                 THEN strays \cup {Head(work[h].files)} ELSE strays
    /\ UNCHANGED <<journal, generations, artifact, pointer, directories>>

-----------------------------------------------------------------------------
Operation(h) ==
    \/ Update(h) \/ RecordIncident(h) \/ RecordResult(h)
    \/ \E c \in Candidate : RecordCandidate(h, c)
    \/ \E k \in Key :
        \/ RecordExecutionIntent(h, k) \/ RecordAttempt(h, k)
        \/ \E recovering \in BOOLEAN : BeginExecutionAttempt(h, k, recovering)
        \/ \E i \in 1..MaxAttempts :
            \/ RecordEvidence(h, k, i) \/ QuarantineAdapterResult(h, k, i)
            \/ \E state \in Failed : RecordExecutionAttemptFailure(h, k, i, state)

Write(h) ==
    \/ WriteTemporary(h) \/ LinkJournal(h) \/ LinkFile(h) \/ LinkGeneration(h)
    \/ UnlinkTemporary(h) \/ SwingPointer(h) \/ Finish(h)

Next == \E h \in Handle :
    \/ Open(h) \/ Initialize(h) \/ Operate(h) \/ Conclude(h)
    \/ NothingToRecover(h) \/ Recover(h) \/ LoadOpened(h) \/ LoadForWork(h)
    \/ Create(h) \/ Return(h) \/ Operation(h) \/ Write(h)
    \/ Refuse(h) \/ Throw(h) \/ Die(h)

Spec == Init /\ [][Next]_vars

-----------------------------------------------------------------------------
(* Properties *)

Transaction == [body: State, files: Seq(Path)]
TypeOK ==
    /\ journal \in Seq(Transaction) /\ generations \in Seq(State)
    /\ artifact \in [Path -> Nat] /\ strays \subseteq Path
    /\ pointer \in Nat /\ directories \in BOOLEAN
    /\ lock \in Handle \cup {None}
    /\ pc \in [Handle -> Writing \cup {"closed", "open", "create", "recover",
                                       "load", "ready", "pointer", "finish"}]
    /\ call \in [Handle -> {"none", "open", "operation", "result"}]
    /\ work \in [Handle -> [number: Nat, body: State, files: Seq(Path),
                            recovering: BOOLEAN,
                            temporary: {"none", "written", "linked"}]]
    /\ mem \in [Handle -> [state: State, head: Nat]]
    /\ expected \in [Handle -> Nat]
    /\ faults \in 0..MaxFaults

\* Whenever a handle has taken the lock and completed what was interrupted, the
\* archive's own checks hold of what it finds: the retained history, one outcome
\* for each key, and exactly the files that the state refers to, wherever the
\* last publication was cut off.  (Temporaries in attempts/ are the exception:
\* _assertNoOrphans takes one that a dead process left behind for an orphan.)
Whole == LineageConsistent(Newest.state) /\ FilesMatch(Newest.state)
RecoveryAccepted == \A h \in Handle :
    /\ pc[h] = "recover" => journal = <<>> \/ pointer = Len(journal) \/ Recoverable
    /\ pc[h] = "load" /\ journal # <<>> => HistoryValid /\ Whole

\* A handle that is not in the middle of a call knows a state that was
\* published, and knows it whole: nothing it told its caller is taken back.
HandlesHonest == \A h \in Handle : pc[h] = "open" =>
    /\ mem[h].head \in 1..Len(generations)
    /\ mem[h].state = generations[mem[h].head]

bodies == [i \in 1..Len(journal) |-> journal[i].body]
heads == [h \in Handle |-> mem[h].head]
Log == INSTANCE CampaignLog WITH log <- bodies, seen <- heads

\* The archive is one log of states: a publication counts from the moment its
\* journal is in place, whoever completes it, and only the handle that knows
\* the newest state may add one.
ImplementsLog == Log!Spec
=============================================================================
