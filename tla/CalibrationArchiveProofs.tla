----------------------- MODULE CalibrationArchiveProofs ----------------------
(* What the checks of CalibrationArchive find, proved for every value of its   *)
(* constants: the types, the honesty of handles, the recovery of a publication *)
(* that was cut off, and that the archive implements CampaignLog.              *)
EXTENDS CalibrationArchive, SequenceTheorems, FiniteSetTheorems, TLAPS

-----------------------------------------------------------------------------
(* The inductive invariant *)

Inside == Writing \cup {"create", "recover", "load", "ready", "pointer", "finish"}

\* A handle is inside a call exactly while it holds the lock.
Locking == \A h \in Handle :
    /\ pc[h] \in Inside <=> lock = h
    /\ call[h] = "none" <=> pc[h] \notin Inside
    /\ pc[h] = "ready" => call[h] # "open"
    /\ pc[h] = "create" => call[h] = "open"

\* The generations are the bodies of the journal, or all but the last.
Stored ==
    /\ Len(generations) \in {Len(journal) - 1, Len(journal)}
    /\ pointer <= Len(generations) /\ Len(journal) <= pointer + 1
    /\ \A i \in 1..Len(generations) : generations[i] = journal[i].body

\* What a handle knows was published; one that has been opened knows something.
Memory == \A h \in Handle :
    /\ mem[h].head <= Len(generations)
    /\ mem[h].head > 0 => mem[h].state = generations[mem[h].head]
    /\ pc[h] = "open" \/ call[h] \in {"operation", "result"} => mem[h].head > 0
    /\ pc[h] = "closed" \/ call[h] = "open" => mem[h].head = 0

\* The attempts of a key: all but the last have failed and could be retried,
\* and the intent has the state of the last.
KeyLineage(s, k) ==
    LET runs == s.runs[k] IN
    /\ k \in s.executions <=> s.intents[k] = "SUCCEEDED"
    /\ \A i \in 1..Len(runs) :
        /\ runs[i].transitions # <<>>
        /\ runs[i].failure <=> Now(runs[i]) \in Failed
        /\ i < Len(runs) => Now(runs[i]) \in Failed \ {"FAILED_TERMINAL"}
    /\ runs = <<>> => s.intents[k] \in {None, "PENDING"}
    /\ runs # <<>> =>
        \/ Now(Last(runs)) = "RUNNING" /\ s.intents[k] \in {"RUNNING", "RECOVERING"}
        \/ Now(Last(runs)) \in Failed \cup {"SUCCEEDED"} /\ s.intents[k] = Now(Last(runs))
\* Nothing is under way in an archive that is complete.
Settled(s) ==
    /\ s.status = "COMPLETE" <=> s.result
    /\ s.status = "COMPLETE" => \A k \in Key : s.intents[k] \in {None, "SUCCEEDED"}
Lineage(s) == Settled(s) /\ \A k \in Key : KeyLineage(s, k)

\* The files that a state refers to.
Failures(s, k) == {i \in 1..Len(s.runs[k]) : s.runs[k][i].failure}
EvidenceOf(s) == {File("evidence", k, 0) : k \in s.executions}
QuarantineOf(s) == {File("quarantine", q.key, q.run) : q \in s.quarantined}
RecordsOf(s) == UNION {{File("execution-attempts", k, i) : i \in Failures(s, k)} : k \in Key}
AttemptsOf(s) == UNION {Elements(AttemptFiles(k)) : k \in s.completed}
CandidatesOf(s) == {File("candidates", c, 0) : c \in s.candidates}
ResultOf(s) == IF s.result THEN Elements(ResultFiles) ELSE {}
FilesOf(s) == EvidenceOf(s) \cup QuarantineOf(s) \cup RecordsOf(s)
                \cup AttemptsOf(s) \cup CandidatesOf(s) \cup ResultOf(s)

\* What an operation publishes after s: the state t, with its new files.
Follows(s, t, files) ==
    /\ t \in State /\ files \in Seq(Path)
    /\ Lineage(t) /\ Retains(s, t)
    /\ FilesOf(t) = FilesOf(s) \cup Elements(files)

\* The journal is a history, with the files of its last state being written.
Histories ==
    /\ \A i \in 1..Len(journal) : Lineage(journal[i].body)
    /\ \A i \in 1..(Len(journal) - 1) : Retains(journal[i].body, journal[i + 1].body)
Known == {f \in Path : Exists(f)}
Files ==
    /\ journal = <<>> => Known = {}
    /\ journal # <<>> =>
        /\ Elements(Pending.files) \subseteq FilesOf(Pending.body)
        /\ Known \subseteq FilesOf(Pending.body)
        /\ FilesOf(Pending.body) \subseteq Known \cup Elements(Pending.files)
        /\ Len(generations) = Len(journal) => Elements(Pending.files) \subseteq Known

\* A handle at rest inside its call, with everything before it written.
AtRest == Len(generations) = Len(journal) /\ pointer = Len(journal)
Linked(h, label) == pc[h] = label /\ work[h].temporary = "linked"
Unlinked(h, label) == pc[h] = label /\ work[h].temporary # "linked"

DraftAt(h) == Unlinked(h, "journal") =>
    /\ work[h].number = mem[h].head + 1
    /\ mem[h].head = 0 => work[h].body = Fresh /\ work[h].files = <<>>
    /\ mem[h].head > 0 =>
        /\ mem[h].head = Len(journal) /\ AtRest
        /\ Follows(mem[h].state, work[h].body, work[h].files)
Completing(h) ==
    Linked(h, "journal") \/ pc[h] \in {"files", "generation", "pointer", "finish"}
PublicationAt(h) == Completing(h) =>
    /\ work[h].number = Len(journal) /\ work[h].number > 0
    /\ work[h].body = Pending.body
    /\ pc[h] = "journal" => work[h].files = Pending.files
    /\ pc[h] = "files" => work[h].files # <<>>
                         /\ Elements(work[h].files) \subseteq Elements(Pending.files)
    /\ pc[h] = "files" => Elements(Pending.files) \subseteq Known \cup Elements(work[h].files)
    /\ Linked(h, "files") => Head(work[h].files) \in Known
    /\ pc[h] \in {"generation", "pointer", "finish"} => Elements(Pending.files) \subseteq Known
    /\ Linked(h, "generation") \/ pc[h] \in {"pointer", "finish"} =>
          Len(generations) = Len(journal)
    /\ pc[h] = "finish" => pointer = Len(journal)
CallAt(h) ==
    /\ pc[h] = "load" => journal = <<>> \/ pointer = Len(journal)
    /\ pc[h] = "ready" => mem[h].head = Len(journal) /\ AtRest
    /\ work[h].temporary # "none" => pc[h] \in Writing
    /\ DraftAt(h)
    /\ PublicationAt(h)
Calls == \A h \in Handle : CallAt(h)

IInv == TypeOK /\ Locking /\ Stored /\ Memory /\ Histories /\ Files /\ Calls

-----------------------------------------------------------------------------
(* Sequences, and the parts of a state *)

LEMMA AppendType ==
    ASSUME NEW S, NEW c \in Seq(S), NEW m \in S
    PROVE  /\ Append(c, m) \in Seq(S)
           /\ Len(Append(c, m)) = Len(c) + 1
           /\ Append(c, m)[Len(c) + 1] = m
           /\ \A i \in 1..Len(c) : Append(c, m)[i] = c[i]
           /\ Append(c, m) # <<>>
  OBVIOUS

LEMMA LastType ==
    ASSUME NEW S, NEW c \in Seq(S), c # <<>>
    PROVE  Len(c) \in 1..Len(c) /\ Last(c) = c[Len(c)] /\ Last(c) \in S
  BY DEF Last

LEMMA FileType ==
    /\ \A k \in Key : /\ File("evidence", k, 0) \in Path
                      /\ Elements(AttemptFiles(k)) \subseteq Path
                      /\ AttemptFiles(k) \in Seq(Path)
    /\ \A k \in Key, i \in 1..MaxAttempts :
          File("quarantine", k, i) \in Path /\ File("execution-attempts", k, i) \in Path
    /\ \A c \in Candidate : File("candidates", c, 0) \in Path
    /\ ResultFiles \in Seq(Path) /\ Elements(ResultFiles) \subseteq Path
<1>1. \A k \in Key : AttemptFiles(k) \in Seq(Path)
  BY DEF AttemptFiles, File, Path, InAttempts
<1>2. ResultFiles \in Seq(Path)
  BY DEF ResultFiles, File, Path, ResultPair
<1>3. \A f \in Seq(Path) : Elements(f) \subseteq Path
  BY DEF Elements
<1>4. QED
  BY <1>1, <1>2, <1>3 DEF File, Path

LEMMA StateType ==
    ASSUME NEW s \in State, NEW k \in Key
    PROVE  /\ s.runs[k] \in Seq(Attempt) /\ Len(s.runs[k]) \in Nat
           /\ s.intents[k] \in ExecutionState \cup {None}
           /\ \A i \in 1..Len(s.runs[k]) :
                /\ s.runs[k][i] \in Attempt
                /\ s.runs[k][i].transitions \in Seq(ExecutionState)
                /\ s.runs[k][i].failure \in BOOLEAN
<1>1. s.runs[k] \in Seq(Attempt) /\ s.intents[k] \in ExecutionState \cup {None}
  BY DEF State
<1>2. \A i \in 1..Len(s.runs[k]) : s.runs[k][i] \in Attempt
  BY <1>1
<1>3. \A a \in Attempt : a.transitions \in Seq(ExecutionState) /\ a.failure \in BOOLEAN
  BY DEF Attempt
<1>4. QED
  BY <1>1, <1>2, <1>3

\* A file of one kind is not one of another, and its names determine it.
LEMMA FileNames ==
    \A d, of, n, e, by, m : File(d, of, n) = File(e, by, m) <=> d = e /\ of = by /\ n = m
  BY DEF File

\* An attempt that moves to another state keeps its past.
LEMMA MovedType ==
    ASSUME NEW a \in Attempt, NEW state \in ExecutionState
    PROVE  /\ Moved(a, state) \in Attempt /\ Now(Moved(a, state)) = state
           /\ Moved(a, state).transitions # <<>>
           /\ Moved(a, state).failure = a.failure /\ RunRetained(a, Moved(a, state))
<1> DEFINE t == a.transitions
<1>1. t \in Seq(ExecutionState) /\ a.failure \in BOOLEAN
      /\ Moved(a, state) = [transitions |-> Append(t, state), failure |-> a.failure]
  BY SMTT(40) DEF Attempt, Moved
<1> HIDE DEF t
<1>2. Moved(a, state).transitions = Append(t, state) /\ Moved(a, state).failure = a.failure
      /\ Moved(a, state) \in Attempt
  BY <1>1, AppendType DEF Attempt
<1>3. Len(t) \in Nat /\ Last(Append(t, state)) = state /\ IsExtension(t, Append(t, state))
  BY <1>1, AppendType DEF Last, IsExtension
<1>4. QED
  BY <1>1, <1>2, <1>3, AppendType DEF Now, RunRetained, t

\* A key whose attempts and intent a publication leaves alone.
Untouched(s, t, k) ==
    /\ t.runs[k] = s.runs[k] /\ t.intents[k] = s.intents[k]
    /\ k \in t.executions <=> k \in s.executions

LEMMA UntouchedKey ==
    ASSUME NEW s \in State, NEW t \in State, NEW k \in Key, Untouched(s, t, k),
           KeyLineage(s, k)
    PROVE  /\ KeyLineage(t, k) /\ Failures(t, k) = Failures(s, k)
           /\ Len(s.runs[k]) <= Len(t.runs[k])
           /\ \A i \in 1..Len(s.runs[k]) : RunRetained(s.runs[k][i], t.runs[k][i])
           /\ IntentRetained(s.intents[k], t.intents[k])
<1>1. KeyLineage(t, k) /\ Failures(t, k) = Failures(s, k)
  BY DEF KeyLineage, Untouched, Failures
<1>2. \A i \in 1..Len(s.runs[k]) : RunRetained(s.runs[k][i], t.runs[k][i])
  BY StateType DEF Untouched, RunRetained, IsExtension
<1>3. QED
  BY <1>1, <1>2, StateType DEF Untouched, IntentRetained

\* The attempts of k change in s to those of t, and nothing but what the
\* premises name: what is left to show of k itself.
KeyFollows(s, t, k) ==
    /\ KeyLineage(t, k)
    /\ Len(s.runs[k]) <= Len(t.runs[k])
    /\ \A i \in 1..Len(s.runs[k]) : RunRetained(s.runs[k][i], t.runs[k][i])
    /\ IntentRetained(s.intents[k], t.intents[k])
LEMMA FollowsByKey ==
    ASSUME NEW s \in State, NEW t \in State, Lineage(s), Settled(t),
           s.executions \subseteq t.executions, s.quarantined \subseteq t.quarantined,
           s.completed \subseteq t.completed, s.candidates \subseteq t.candidates,
           s.incidents <= t.incidents, s.result => t.result,
           \A k \in Key : Untouched(s, t, k) \/ KeyFollows(s, t, k)
    PROVE  Lineage(t) /\ Retains(s, t)
<1>1. \A k \in Key : KeyFollows(s, t, k)
  BY UntouchedKey DEF KeyFollows, Lineage
<1>2. QED
  BY <1>1 DEF KeyFollows, Lineage, Retains

-----------------------------------------------------------------------------
(* What each operation publishes *)

\* Where no attempt or intent changes, neither do the records of failures.
LEMMA SameRuns ==
    ASSUME NEW s \in State, NEW t \in State, t.runs = s.runs, t.intents = s.intents,
           t.executions = s.executions
    PROVE  /\ \A k \in Key : Untouched(s, t, k)
           /\ \A k \in Key : Failures(t, k) = Failures(s, k)
  BY DEF Untouched, Failures

\* Each part of a state decides of one kind of file.
LEMMA SameFiles ==
    ASSUME NEW s, NEW t
    PROVE  /\ t.executions = s.executions => EvidenceOf(t) = EvidenceOf(s)
           /\ t.quarantined = s.quarantined => QuarantineOf(t) = QuarantineOf(s)
           /\ (\A k \in Key : Failures(t, k) = Failures(s, k)) => RecordsOf(t) = RecordsOf(s)
           /\ t.completed = s.completed => AttemptsOf(t) = AttemptsOf(s)
           /\ t.candidates = s.candidates => CandidatesOf(t) = CandidatesOf(s)
           /\ t.result = s.result => ResultOf(t) = ResultOf(s)
  BY DEF EvidenceOf, QuarantineOf, RecordsOf, AttemptsOf, CandidatesOf, ResultOf

LEMMA NoFiles == Elements(<<>>) = {} /\ <<>> \in Seq(Path)
  BY DEF Elements

LEMMA OneFile ==
    ASSUME NEW f \in Path PROVE Elements(<<f>>) = {f} /\ <<f>> \in Seq(Path)
  BY DEF Elements

LEMMA UpdateFollows ==
    ASSUME NEW s \in State, Lineage(s), s.status = "READY"
    PROVE  Follows(s, [s EXCEPT !.status = "RUNNING"], <<>>)
<1> DEFINE t == [s EXCEPT !.status = "RUNNING"]
<1>1. /\ t \in State /\ t.runs = s.runs /\ t.intents = s.intents
      /\ t.executions = s.executions /\ t.quarantined = s.quarantined
      /\ t.completed = s.completed /\ t.candidates = s.candidates
      /\ t.incidents = s.incidents /\ t.result = s.result /\ t.status = "RUNNING"
  BY DEF State
<1> HIDE DEF t
<1>2. Settled(t) /\ s.incidents \in Nat
  BY <1>1 DEF Lineage, Settled, State
<1>3. Lineage(t) /\ Retains(s, t)
  BY <1>1, <1>2, SameRuns, FollowsByKey
<1>4. FilesOf(t) = FilesOf(s)
  BY <1>1, SameRuns, SameFiles DEF FilesOf
<1> QED
  BY <1>1, <1>3, <1>4, NoFiles DEF Follows, t

LEMMA IncidentFollows ==
    ASSUME NEW s \in State, Lineage(s), s.status # "COMPLETE"
    PROVE  Follows(s, [s EXCEPT !.incidents = @ + 1, !.status = "FAILED"], <<>>)
<1> DEFINE t == [s EXCEPT !.incidents = @ + 1, !.status = "FAILED"]
<1>1. /\ t \in State /\ t.runs = s.runs /\ t.intents = s.intents
      /\ t.executions = s.executions /\ t.quarantined = s.quarantined
      /\ t.completed = s.completed /\ t.candidates = s.candidates
      /\ s.incidents \in Nat /\ t.incidents = s.incidents + 1
      /\ t.result = s.result /\ t.status = "FAILED"
  <2>1. s.incidents \in Nat /\ s.incidents + 1 \in Nat
    BY DEF State
  <2>2. QED
    BY <2>1 DEF State
<1> HIDE DEF t
<1>2. Settled(t) /\ s.incidents <= t.incidents
  BY <1>1 DEF Lineage, Settled, State
<1>3. Lineage(t) /\ Retains(s, t)
  BY <1>1, <1>2, SameRuns, FollowsByKey
<1>4. FilesOf(t) = FilesOf(s)
  BY <1>1, SameRuns, SameFiles DEF FilesOf
<1> QED
  BY <1>1, <1>3, <1>4, NoFiles DEF Follows, t

LEMMA ResultFollows ==
    ASSUME NEW s \in State, Lineage(s), s.status # "COMPLETE", Concludes(s)
    PROVE  Follows(s, [s EXCEPT !.status = "COMPLETE", !.result = TRUE], ResultFiles)
<1> DEFINE t == [s EXCEPT !.status = "COMPLETE", !.result = TRUE]
<1>1. /\ t \in State /\ t.runs = s.runs /\ t.intents = s.intents
      /\ t.executions = s.executions /\ t.quarantined = s.quarantined
      /\ t.completed = s.completed /\ t.candidates = s.candidates
      /\ s.incidents \in Nat /\ t.incidents = s.incidents
      /\ t.result = TRUE /\ t.status = "COMPLETE"
  BY DEF State
<1> HIDE DEF t
<1>2. Settled(t) /\ ~s.result
  BY <1>1 DEF Lineage, Settled, State, Concludes
<1>3. Lineage(t) /\ Retains(s, t)
  BY <1>1, <1>2, SameRuns, FollowsByKey
<1>4. FilesOf(t) = FilesOf(s) \cup Elements(ResultFiles)
  <2>1. ResultOf(s) = {} /\ ResultOf(t) = Elements(ResultFiles)
    BY <1>1, <1>2 DEF ResultOf
  <2>2. QED
    BY <1>1, <2>1, SameRuns, SameFiles DEF FilesOf
<1> QED
  BY <1>1, <1>3, <1>4, FileType DEF Follows, t

LEMMA CandidateFollows ==
    ASSUME NEW s \in State, Lineage(s), s.status # "COMPLETE", NEW c \in Candidate
    PROVE  Follows(s, [s EXCEPT !.candidates = @ \cup {c}], <<File("candidates", c, 0)>>)
<1> DEFINE t == [s EXCEPT !.candidates = @ \cup {c}]
<1>1. /\ t \in State /\ t.runs = s.runs /\ t.intents = s.intents
      /\ t.executions = s.executions /\ t.quarantined = s.quarantined
      /\ t.completed = s.completed /\ t.candidates = s.candidates \cup {c}
      /\ s.incidents \in Nat /\ t.incidents = s.incidents
      /\ t.result = s.result /\ t.status = s.status
  BY DEF State
<1> HIDE DEF t
<1>2. Settled(t) /\ s.candidates \subseteq t.candidates
  BY <1>1 DEF Lineage, Settled
<1>3. Lineage(t) /\ Retains(s, t)
  BY <1>1, <1>2, SameRuns, FollowsByKey
<1>4. FilesOf(t) = FilesOf(s) \cup {File("candidates", c, 0)}
  <2>1. CandidatesOf(t) = CandidatesOf(s) \cup {File("candidates", c, 0)}
    BY <1>1 DEF CandidatesOf
  <2>2. QED
    BY <1>1, <2>1, SameRuns, SameFiles DEF FilesOf
<1> QED
  BY <1>1, <1>3, <1>4, FileType, OneFile DEF Follows, t

LEMMA AttemptFollows ==
    ASSUME NEW s \in State, Lineage(s), s.status # "COMPLETE", NEW k \in Key
    PROVE  Follows(s, [s EXCEPT !.completed = @ \cup {k}], AttemptFiles(k))
<1> DEFINE t == [s EXCEPT !.completed = @ \cup {k}]
<1>1. /\ t \in State /\ t.runs = s.runs /\ t.intents = s.intents
      /\ t.executions = s.executions /\ t.quarantined = s.quarantined
      /\ t.completed = s.completed \cup {k} /\ t.candidates = s.candidates
      /\ s.incidents \in Nat /\ t.incidents = s.incidents
      /\ t.result = s.result /\ t.status = s.status
  BY DEF State
<1> HIDE DEF t
<1>2. Settled(t) /\ s.completed \subseteq t.completed
  BY <1>1 DEF Lineage, Settled
<1>3. Lineage(t) /\ Retains(s, t)
  BY <1>1, <1>2, SameRuns, FollowsByKey
<1>4. FilesOf(t) = FilesOf(s) \cup Elements(AttemptFiles(k))
  <2>1. AttemptsOf(t) = AttemptsOf(s) \cup Elements(AttemptFiles(k))
    <3> DEFINE F(x) == Elements(AttemptFiles(x))
    <3>1. AttemptsOf(t) = UNION {F(x) : x \in t.completed}
          /\ AttemptsOf(s) = UNION {F(x) : x \in s.completed}
      BY DEF AttemptsOf
    <3> HIDE DEF F
    <3>2. AttemptsOf(t) = AttemptsOf(s) \cup F(k)
      BY <1>1, <3>1
    <3>3. QED
      BY <3>2 DEF F
  <2>2. QED
    BY <1>1, <2>1, SameRuns, SameFiles DEF FilesOf
<1> QED
  BY <1>1, <1>3, <1>4, FileType DEF Follows, t

LEMMA QuarantineFollows ==
    ASSUME NEW s \in State, Lineage(s), s.status # "COMPLETE", NEW k \in Key,
           NEW i \in 1..MaxAttempts
    PROVE  Follows(s, [s EXCEPT !.quarantined = @ \cup {[key |-> k, run |-> i]}],
                   <<File("quarantine", k, i)>>)
<1> DEFINE q == [key |-> k, run |-> i]
           t == [s EXCEPT !.quarantined = @ \cup {q}]
<1>a. q.key = k /\ q.run = i /\ q \in [key: Key, run: Nat]
  OBVIOUS
<1>1. /\ t \in State /\ t.runs = s.runs /\ t.intents = s.intents
      /\ t.executions = s.executions /\ t.quarantined = s.quarantined \cup {q}
      /\ t.completed = s.completed /\ t.candidates = s.candidates
      /\ s.incidents \in Nat /\ t.incidents = s.incidents
      /\ t.result = s.result /\ t.status = s.status
  <2> HIDE DEF q
  <2> QED
    BY <1>a DEF State
<1> HIDE DEF t, q
<1>2. Settled(t) /\ s.quarantined \subseteq t.quarantined
  BY <1>1 DEF Lineage, Settled
<1>3. Lineage(t) /\ Retains(s, t)
  BY <1>1, <1>2, SameRuns, FollowsByKey
<1>4. FilesOf(t) = FilesOf(s) \cup {File("quarantine", k, i)}
  <2>1. QuarantineOf(t) = QuarantineOf(s) \cup {File("quarantine", k, i)}
    BY <1>1, <1>a DEF QuarantineOf
  <2>2. QED
    BY <1>1, <2>1, SameRuns, SameFiles DEF FilesOf
<1> QED
  BY <1>1, <1>3, <1>4, FileType, OneFile DEF Follows, t, q

LEMMA IntentFollows ==
    ASSUME NEW s \in State, Lineage(s), s.status \notin {"COMPLETE", "FAILED"},
           NEW k \in Key, s.intents[k] = None
    PROVE  Follows(s, [s EXCEPT !.intents[k] = "PENDING"], <<>>)
<1> DEFINE t == [s EXCEPT !.intents[k] = "PENDING"]
<1>1. /\ t \in State /\ t.runs = s.runs /\ t.intents = [s.intents EXCEPT ![k] = "PENDING"]
      /\ s.intents \in [Key -> ExecutionState \cup {None}]
      /\ t.executions = s.executions /\ t.quarantined = s.quarantined
      /\ t.completed = s.completed /\ t.candidates = s.candidates
      /\ s.incidents \in Nat /\ t.incidents = s.incidents
      /\ t.result = s.result /\ t.status = s.status
  BY DEF State, ExecutionState, Active
<1> HIDE DEF t
<1>2. Settled(t)
  BY <1>1 DEF Lineage, Settled
<1>3. \A j \in Key : j # k => Untouched(s, t, j)
  BY <1>1 DEF Untouched
<1>4. s.runs[k] = <<>> /\ k \notin s.executions
  BY NoneIsNoState DEF Lineage, KeyLineage, ExecutionState, Active, Failed
<1>5. KeyFollows(s, t, k)
  <2>1. t.intents[k] = "PENDING" /\ t.runs[k] = <<>>
    BY <1>1, <1>4
  <2>2. KeyLineage(t, k)
    BY <1>1, <1>4, <2>1 DEF KeyLineage
  <2>3. QED
    BY <1>4, <2>1, <2>2 DEF KeyFollows, IntentRetained
<1>6. Lineage(t) /\ Retains(s, t)
  BY <1>1, <1>2, <1>3, <1>5, FollowsByKey
<1>7. FilesOf(t) = FilesOf(s)
  <2>1. \A j \in Key : Failures(t, j) = Failures(s, j)
    BY <1>1 DEF Failures
  <2>2. QED
    BY <1>1, <2>1, SameFiles DEF FilesOf
<1> QED
  BY <1>1, <1>6, <1>7, NoFiles DEF Follows, t

LEMMA BegunType ==
    ASSUME NEW r \in BOOLEAN
    PROVE  /\ Begun(r) \in Attempt /\ Begun(r).transitions # <<>>
           /\ ~Begun(r).failure /\ Now(Begun(r)) = "RUNNING"
<1>1. CASE r
  <2>1. <<"RECOVERING", "RUNNING">> \in Seq(ExecutionState)
    BY DEF ExecutionState, Active
  <2>2. QED
    BY <1>1, <2>1 DEF Begun, Attempt, Now, Last
<1>2. CASE ~r
  <2>1. <<"PENDING", "DISPATCHING", "RUNNING">> \in Seq(ExecutionState)
    BY DEF ExecutionState, Active
  <2>2. QED
    BY <1>2, <2>1 DEF Begun, Attempt, Now, Last
<1> QED
  BY <1>1, <1>2

LEMMA BeginFollows ==
    ASSUME NEW s \in State, Lineage(s), NEW k \in Key, MayBegin(s, k), NEW r \in BOOLEAN
    PROVE  Follows(s, [s EXCEPT !.runs[k] = Append(@, Begun(r)),
                                !.intents[k] = IF r THEN "RECOVERING" ELSE "RUNNING"], <<>>)
<1> DEFINE v == IF r THEN "RECOVERING" ELSE "RUNNING"
           b == Begun(r)
           old == s.runs[k]
           t == [s EXCEPT !.runs[k] = Append(@, b), !.intents[k] = v]
<1>a. v \in {"RECOVERING", "RUNNING"} /\ v \in ExecutionState /\ b \in Attempt
      /\ s.runs \in [Key -> Seq(Attempt)] /\ s.intents \in [Key -> ExecutionState \cup {None}]
      /\ old \in Seq(Attempt) /\ Append(old, b) \in Seq(Attempt) /\ s.incidents \in Nat
  BY BegunType, AppendType DEF State, ExecutionState, Active
<1> HIDE DEF v, b
<1>1. /\ t \in State /\ t.runs = [s.runs EXCEPT ![k] = Append(old, b)]
      /\ t.intents = [s.intents EXCEPT ![k] = v]
      /\ t.executions = s.executions /\ t.quarantined = s.quarantined
      /\ t.completed = s.completed /\ t.candidates = s.candidates
      /\ t.incidents = s.incidents /\ t.result = s.result /\ t.status = s.status
  BY <1>a DEF State
<1> HIDE DEF t, old
<1>2. t.runs[k] = Append(old, b) /\ t.intents[k] = v
      /\ \A j \in Key : j # k => Untouched(s, t, j)
  BY <1>a, <1>1 DEF Untouched
<1>3. /\ old # <<>> => Now(Last(old)) \in Failed \ {"FAILED_TERMINAL"}
                       /\ s.intents[k] = Now(Last(old))
      /\ old = <<>> => s.intents[k] = "PENDING"
      /\ k \notin s.executions
  BY DEF MayBegin, Lineage, KeyLineage, old, Failed
<1>4. \A i \in 1..Len(old) : /\ old[i].transitions # <<>>
                             /\ old[i].failure <=> Now(old[i]) \in Failed
                             /\ i < Len(old) => Now(old[i]) \in Failed \ {"FAILED_TERMINAL"}
  BY DEF Lineage, KeyLineage, old
<1>5. \A i \in 1..Len(old) : Now(old[i]) \in Failed \ {"FAILED_TERMINAL"}
  BY <1>a, <1>3, <1>4, LastType
<1>6. Len(Append(old, b)) = Len(old) + 1 /\ Append(old, b)[Len(old) + 1] = b
      /\ (\A i \in 1..Len(old) : Append(old, b)[i] = old[i]) /\ Append(old, b) # <<>>
      /\ Last(Append(old, b)) = b /\ Len(old) \in Nat
  BY <1>a, AppendType DEF Last
<1>7. KeyLineage(t, k)
  <2>1. \A i \in 1..Len(t.runs[k]) :
          /\ t.runs[k][i].transitions # <<>>
          /\ t.runs[k][i].failure <=> Now(t.runs[k][i]) \in Failed
          /\ i < Len(t.runs[k]) => Now(t.runs[k][i]) \in Failed \ {"FAILED_TERMINAL"}
    <3> TAKE i \in 1..Len(t.runs[k])
    <3>1. CASE i = Len(old) + 1
      BY <3>1, <1>2, <1>6, BegunType DEF b, Failed
    <3>2. CASE i # Len(old) + 1
      <4>1. i \in 1..Len(old) /\ t.runs[k][i] = old[i]
        BY <3>2, <1>2, <1>6
      <4>2. QED
        BY <4>1, <1>4, <1>5
    <3> QED
      BY <3>1, <3>2
  <2>2. Now(Last(t.runs[k])) = "RUNNING" /\ t.runs[k] # <<>>
    BY <1>2, <1>6, BegunType DEF b
  <2>3. k \in t.executions <=> t.intents[k] = "SUCCEEDED"
    BY <1>1, <1>2, <1>3, <1>a
  <2>4. QED
    BY <2>1, <2>2, <2>3, <1>2, <1>a DEF KeyLineage
<1>8. KeyFollows(s, t, k)
  <2>1. \A i \in 1..Len(s.runs[k]) : RunRetained(s.runs[k][i], t.runs[k][i])
    <3>1. \A a \in Attempt : RunRetained(a, a)
      BY DEF RunRetained, IsExtension, Attempt
    <3>2. \A i \in 1..Len(old) : old[i] \in Attempt /\ t.runs[k][i] = old[i]
      BY <1>2, <1>6, <1>a
    <3>3. QED
      BY <3>1, <3>2 DEF old
  <2>2. IntentRetained(s.intents[k], t.intents[k])
    BY <1>2, <1>3, <1>a DEF IntentRetained, Active, Failed, ExecutionState
  <2>3. QED
    BY <1>2, <1>6, <1>7, <2>1, <2>2 DEF KeyFollows, old
<1>9. Settled(t)
  <2>1. s.status # "COMPLETE"
    BY <1>3, NoneIsNoState DEF Lineage, Settled, Failed, ExecutionState, Active
  <2>2. QED
    BY <2>1, <1>1 DEF Lineage, Settled
<1>10. Lineage(t) /\ Retains(s, t)
  BY <1>1, <1>2, <1>8, <1>9, <1>a, FollowsByKey
<1>11. FilesOf(t) = FilesOf(s)
  <2>1. Failures(t, k) = Failures(s, k)
    BY <1>2, <1>6, BegunType DEF Failures, old, b
  <2>2. \A j \in Key : Failures(t, j) = Failures(s, j)
    BY <1>2, <2>1 DEF Failures, Untouched
  <2>3. QED
    BY <1>1, <2>2, SameFiles DEF FilesOf
<1> QED
  BY <1>1, <1>10, <1>11, NoFiles DEF Follows, t, v, b

\* The attempt that is running is the last one of its key; it becomes b, and
\* the intent gets its state v.
Moves(s, t, k, i, v, b) ==
    /\ s \in State /\ t \in State /\ Lineage(s) /\ k \in Key /\ i \in Nat /\ Running(s, k, i)
    /\ v \in Failed \cup {"SUCCEEDED"} /\ b \in Attempt
    /\ b.transitions # <<>> /\ Now(b) = v /\ (b.failure <=> v \in Failed)
    /\ RunRetained(s.runs[k][i], b)
    /\ t.runs = [s.runs EXCEPT ![k] = [s.runs[k] EXCEPT ![i] = b]]
    /\ t.intents = [s.intents EXCEPT ![k] = v]
    /\ t.executions = s.executions \cup (IF v = "SUCCEEDED" THEN {k} ELSE {})

LEMMA RunMoves ==
    ASSUME NEW s, NEW t, NEW k, NEW i, NEW v, NEW b, Moves(s, t, k, i, v, b)
    PROVE  /\ \A j \in Key : Untouched(s, t, j) \/ KeyFollows(s, t, j)
           /\ i = Len(s.runs[k]) /\ s.status # "COMPLETE" /\ ~s.runs[k][i].failure
           /\ Failures(t, k) = Failures(s, k) \cup (IF v \in Failed THEN {i} ELSE {})
           /\ \A j \in Key : j # k => Failures(t, j) = Failures(s, j)
<1>0. /\ s \in State /\ t \in State /\ Lineage(s) /\ k \in Key /\ i \in Nat /\ Running(s, k, i)
      /\ v \in Failed \cup {"SUCCEEDED"} /\ b \in Attempt
      /\ b.transitions # <<>> /\ Now(b) = v /\ (b.failure <=> v \in Failed)
      /\ RunRetained(s.runs[k][i], b)
      /\ t.runs = [s.runs EXCEPT ![k] = [s.runs[k] EXCEPT ![i] = b]]
      /\ t.intents = [s.intents EXCEPT ![k] = v]
      /\ t.executions = s.executions \cup (IF v = "SUCCEEDED" THEN {k} ELSE {})
  BY DEF Moves
<1> USE <1>0
<1> DEFINE old == s.runs[k]
           new == [old EXCEPT ![i] = b]
<1>a. /\ s.runs \in [Key -> Seq(Attempt)] /\ s.intents \in [Key -> ExecutionState \cup {None}]
      /\ old \in Seq(Attempt) /\ i \in 1..Len(old) /\ Len(old) \in Nat /\ Now(old[i]) = "RUNNING"
  BY DEF State, Running
<1>b. /\ new \in Seq(Attempt) /\ Len(new) = Len(old) /\ new[i] = b
      /\ \A n \in 1..Len(old) : n # i => new[n] = old[n]
  BY <1>a, ExceptSeq
<1>c. \A n \in 1..Len(old) : /\ old[n].transitions # <<>>
                             /\ old[n].failure <=> Now(old[n]) \in Failed
                             /\ n < Len(old) => Now(old[n]) \in Failed \ {"FAILED_TERMINAL"}
  BY DEF Lineage, KeyLineage, old
<1>d. t.runs[k] = new /\ t.intents[k] = v /\ \A j \in Key : j # k => Untouched(s, t, j)
  BY <1>a DEF Untouched
<1> HIDE DEF new
<1>1. i = Len(old) /\ ~old[i].failure /\ old # <<>> /\ Last(old) = old[i] /\ Last(new) = b
      /\ new # <<>>
  BY <1>a, <1>b, <1>c DEF Failed, Last
<1>2. s.intents[k] \in {"RUNNING", "RECOVERING"} /\ k \notin s.executions
  <2>1. s.intents[k] \in {"RUNNING", "RECOVERING"}
    BY <1>a, <1>1 DEF Lineage, KeyLineage, Failed, old
  <2>2. QED
    BY <2>1 DEF Lineage, KeyLineage
<1>3. s.status # "COMPLETE"
  BY <1>2, NoneIsNoState DEF Lineage, Settled, ExecutionState, Active
<1>4. KeyLineage(t, k)
  <2>1. \A n \in 1..Len(new) :
          /\ new[n].transitions # <<>>
          /\ new[n].failure <=> Now(new[n]) \in Failed
          /\ n < Len(new) => Now(new[n]) \in Failed \ {"FAILED_TERMINAL"}
    BY <1>a, <1>b, <1>c, <1>1
  <2>2. k \in t.executions <=> t.intents[k] = "SUCCEEDED"
    BY <1>2, <1>d
  <2>3. QED
    BY <2>1, <2>2, <1>1, <1>d DEF KeyLineage
<1>5. \A n \in 1..Len(old) : RunRetained(old[n], new[n])
  <2>1. \A a \in Attempt : RunRetained(a, a)
    BY DEF RunRetained, IsExtension, Attempt
  <2>2. QED
    BY <2>1, <1>a, <1>b
<1>6. IntentRetained(s.intents[k], t.intents[k])
  BY <1>2, <1>d DEF IntentRetained, Active, Failed, ExecutionState
<1>7. KeyFollows(s, t, k)
  BY <1>4, <1>5, <1>6, <1>a, <1>b, <1>d DEF KeyFollows
<1>8. Failures(t, k) = Failures(s, k) \cup (IF v \in Failed THEN {i} ELSE {})
  BY <1>a, <1>b, <1>d, <1>1 DEF Failures
<1>9. \A j \in Key : j # k => Failures(t, j) = Failures(s, j)
  BY <1>d DEF Untouched, Failures
<1> QED
  BY <1>1, <1>3, <1>7, <1>8, <1>9, <1>d

LEMMA EvidenceFollows ==
    ASSUME NEW s \in State, Lineage(s), NEW k \in Key, NEW i \in Nat, Running(s, k, i)
    PROVE  Follows(s, [s EXCEPT !.runs[k][i] = Moved(@, "SUCCEEDED"),
                                !.executions = @ \cup {k},
                                !.intents[k] = "SUCCEEDED"],
                   <<File("evidence", k, 0)>>)
<1> DEFINE b == Moved(s.runs[k][i], "SUCCEEDED")
           t == [s EXCEPT !.runs[k][i] = Moved(@, "SUCCEEDED"),
                          !.executions = @ \cup {k}, !.intents[k] = "SUCCEEDED"]
<1>a. s.runs[k] \in Seq(Attempt) /\ i \in 1..Len(s.runs[k]) /\ s.runs[k][i] \in Attempt
      /\ "SUCCEEDED" \in ExecutionState /\ s.runs \in [Key -> Seq(Attempt)]
      /\ s.intents \in [Key -> ExecutionState \cup {None}] /\ s.incidents \in Nat
  BY StateType DEF Running, ExecutionState, State
<1>b. b \in Attempt /\ b.transitions # <<>> /\ Now(b) = "SUCCEEDED"
      /\ b.failure = s.runs[k][i].failure /\ RunRetained(s.runs[k][i], b)
  BY <1>a, MovedType
<1> HIDE DEF b
<1>c. [s.runs[k] EXCEPT ![i] = b] \in Seq(Attempt)
  BY <1>a, <1>b, ExceptSeq
<1>1. /\ t \in State /\ t.runs = [s.runs EXCEPT ![k] = [s.runs[k] EXCEPT ![i] = b]]
      /\ t.intents = [s.intents EXCEPT ![k] = "SUCCEEDED"]
      /\ t.executions = s.executions \cup {k} /\ t.quarantined = s.quarantined
      /\ t.completed = s.completed /\ t.candidates = s.candidates
      /\ t.incidents = s.incidents /\ t.result = s.result /\ t.status = s.status
  <2> DEFINE new == [s.runs[k] EXCEPT ![i] = b]
             u == [s EXCEPT !.runs = [s.runs EXCEPT ![k] = new],
                            !.executions = s.executions \cup {k},
                            !.intents = [s.intents EXCEPT ![k] = "SUCCEEDED"]]
  <2>1. t = u
    BY DEF b
  <2> HIDE DEF t, new
  <2>2. new \in Seq(Attempt)
    BY <1>c DEF new
  <2>3. /\ u \in State /\ u.runs = [s.runs EXCEPT ![k] = new]
        /\ u.intents = [s.intents EXCEPT ![k] = "SUCCEEDED"]
        /\ u.executions = s.executions \cup {k} /\ u.quarantined = s.quarantined
        /\ u.completed = s.completed /\ u.candidates = s.candidates
        /\ u.incidents = s.incidents /\ u.result = s.result /\ u.status = s.status
    BY <1>a, <2>2 DEF State
  <2> QED
    BY <2>1, <2>3 DEF new
<1> HIDE DEF t
<1>2. ~s.runs[k][i].failure
  BY <1>a DEF Lineage, KeyLineage, Running, Failed
<1>3. /\ \A j \in Key : Untouched(s, t, j) \/ KeyFollows(s, t, j)
      /\ s.status # "COMPLETE" /\ \A j \in Key : Failures(t, j) = Failures(s, j)
  <2> DEFINE v == "SUCCEEDED"
  <2>1. v \in Failed \cup {"SUCCEEDED"} /\ v \notin Failed /\ v = "SUCCEEDED"
        /\ t.executions = s.executions \cup (IF v = "SUCCEEDED" THEN {k} ELSE {})
        /\ t.intents = [s.intents EXCEPT ![k] = v] /\ Now(b) = v
        /\ (b.failure <=> v \in Failed)
    BY <1>1, <1>2, <1>b DEF Failed
  <2> HIDE DEF v
  <2>2. /\ \A j \in Key : Untouched(s, t, j) \/ KeyFollows(s, t, j)
        /\ s.status # "COMPLETE"
        /\ Failures(t, k) = Failures(s, k) \cup (IF v \in Failed THEN {i} ELSE {})
        /\ \A j \in Key : j # k => Failures(t, j) = Failures(s, j)
    <3>1. Moves(s, t, k, i, v, b)
      BY <1>1, <1>a, <1>b, <2>1 DEF Moves
    <3>2. QED
      BY <3>1, RunMoves
  <2> QED
    BY <2>1, <2>2
<1>4. Lineage(t) /\ Retains(s, t)
  <2>1. Settled(t)
    BY <1>1, <1>3 DEF Lineage, Settled
  <2>2. QED
    BY <1>1, <1>3, <1>a, <2>1, FollowsByKey
<1>5. FilesOf(t) = FilesOf(s) \cup {File("evidence", k, 0)}
  <2>1. EvidenceOf(t) = EvidenceOf(s) \cup {File("evidence", k, 0)}
    BY <1>1 DEF EvidenceOf
  <2>2. QED
    BY <1>1, <1>3, <2>1, SameFiles DEF FilesOf
<1> QED
  BY <1>1, <1>4, <1>5, FileType, OneFile DEF Follows, t

LEMMA FailureFollows ==
    ASSUME NEW s \in State, Lineage(s), NEW k \in Key, NEW i \in 1..MaxAttempts,
           Running(s, k, i), NEW v \in Failed
    PROVE  Follows(s, [s EXCEPT
                !.runs[k][i] = [Moved(@, v) EXCEPT !.failure = TRUE],
                !.intents[k] = v,
                !.status = IF v = "FAILED_TERMINAL" THEN "FAILED" ELSE @],
              <<File("execution-attempts", k, i)>>)
<1> DEFINE b == [Moved(s.runs[k][i], v) EXCEPT !.failure = TRUE]
           status == IF v = "FAILED_TERMINAL" THEN "FAILED" ELSE s.status
           t == [s EXCEPT !.runs[k][i] = [Moved(@, v) EXCEPT !.failure = TRUE],
                          !.intents[k] = v,
                          !.status = IF v = "FAILED_TERMINAL" THEN "FAILED" ELSE @]
<1>a. s.runs[k] \in Seq(Attempt) /\ i \in 1..Len(s.runs[k]) /\ s.runs[k][i] \in Attempt
      /\ v \in ExecutionState /\ s.runs \in [Key -> Seq(Attempt)]
      /\ s.intents \in [Key -> ExecutionState \cup {None}] /\ s.incidents \in Nat
      /\ status \in {"READY", "RUNNING", "FAILED", "COMPLETE"} /\ i \in Nat
  BY StateType DEF Running, ExecutionState, State
<1>b. b \in Attempt /\ b.transitions # <<>> /\ Now(b) = v /\ b.failure
      /\ RunRetained(s.runs[k][i], b)
  <2> DEFINE m == Moved(s.runs[k][i], v)
  <2>1. m \in Attempt /\ m.transitions # <<>> /\ Now(m) = v /\ RunRetained(s.runs[k][i], m)
    BY <1>a, MovedType
  <2> HIDE DEF m
  <2>2. [m EXCEPT !.failure = TRUE] \in Attempt
        /\ [m EXCEPT !.failure = TRUE].transitions = m.transitions
        /\ [m EXCEPT !.failure = TRUE].failure = TRUE
    BY <2>1 DEF Attempt
  <2> QED
    BY <2>1, <2>2 DEF m, Now, RunRetained
<1> HIDE DEF b
<1>c. [s.runs[k] EXCEPT ![i] = b] \in Seq(Attempt)
  BY <1>a, <1>b, ExceptSeq
<1>1. /\ t \in State /\ t.runs = [s.runs EXCEPT ![k] = [s.runs[k] EXCEPT ![i] = b]]
      /\ t.intents = [s.intents EXCEPT ![k] = v]
      /\ t.executions = s.executions /\ t.quarantined = s.quarantined
      /\ t.completed = s.completed /\ t.candidates = s.candidates
      /\ t.incidents = s.incidents /\ t.result = s.result /\ t.status = status
  <2> DEFINE new == [s.runs[k] EXCEPT ![i] = b]
             u == [s EXCEPT !.runs = [s.runs EXCEPT ![k] = new],
                            !.intents = [s.intents EXCEPT ![k] = v], !.status = status]
  <2>1. t = u
    BY DEF b
  <2> HIDE DEF t, new, status
  <2>2. new \in Seq(Attempt)
    BY <1>c DEF new
  <2>3. /\ u \in State /\ u.runs = [s.runs EXCEPT ![k] = new]
        /\ u.intents = [s.intents EXCEPT ![k] = v]
        /\ u.executions = s.executions /\ u.quarantined = s.quarantined
        /\ u.completed = s.completed /\ u.candidates = s.candidates
        /\ u.incidents = s.incidents /\ u.result = s.result /\ u.status = status
    BY <1>a, <2>2 DEF State
  <2> QED
    BY <2>1, <2>3 DEF new
<1> HIDE DEF t, status
<1>3. /\ \A j \in Key : Untouched(s, t, j) \/ KeyFollows(s, t, j)
      /\ s.status # "COMPLETE" /\ Failures(t, k) = Failures(s, k) \cup {i}
      /\ \A j \in Key : j # k => Failures(t, j) = Failures(s, j)
  <2>1. v \in Failed \cup {"SUCCEEDED"} /\ i \in Nat /\ (b.failure <=> v \in Failed)
        /\ t.executions = s.executions \cup (IF v = "SUCCEEDED" THEN {k} ELSE {})
    BY <1>1, <1>a, <1>b DEF Failed
  <2>2. /\ \A j \in Key : Untouched(s, t, j) \/ KeyFollows(s, t, j)
        /\ s.status # "COMPLETE"
        /\ Failures(t, k) = Failures(s, k) \cup (IF v \in Failed THEN {i} ELSE {})
        /\ \A j \in Key : j # k => Failures(t, j) = Failures(s, j)
    <3>1. Moves(s, t, k, i, v, b)
      BY <1>1, <1>a, <1>b, <2>1 DEF Moves
    <3>2. QED
      BY <3>1, RunMoves
  <2> QED
    BY <2>2
<1>4. Lineage(t) /\ Retains(s, t)
  <2>1. Settled(t)
    BY <1>1, <1>3 DEF Lineage, Settled, status
  <2>2. QED
    BY <1>1, <1>3, <1>a, <2>1, FollowsByKey
<1>5. FilesOf(t) = FilesOf(s) \cup {File("execution-attempts", k, i)}
  <2>1. RecordsOf(t) = RecordsOf(s) \cup {File("execution-attempts", k, i)}
    <3> DEFINE F(x, j) == {File("execution-attempts", j, n) : n \in Failures(x, j)}
    <3>1. RecordsOf(t) = UNION {F(t, j) : j \in Key} /\ RecordsOf(s) = UNION {F(s, j) : j \in Key}
      BY DEF RecordsOf
    <3>2. F(t, k) = F(s, k) \cup {File("execution-attempts", k, i)}
          /\ \A j \in Key : j # k => F(t, j) = F(s, j)
      BY <1>3
    <3> HIDE DEF F
    <3> QED
      BY <3>1, <3>2
  <2>2. QED
    BY <1>1, <1>3, <2>1, SameFiles DEF FilesOf
<1> QED
  BY <1>1, <1>4, <1>5, FileType, OneFile DEF Follows, t, status

LEMMA OperationReady ==
    ASSUME NEW h \in Handle, Operation(h)
    PROVE  pc[h] = "ready"
<1>1. ASSUME NEW t, NEW files, Publish(h, t, files) PROVE pc[h] = "ready"
  BY <1>1 DEF Publish, Step
<1>2. CASE Update(h) \/ RecordIncident(h) \/ RecordResult(h)
  BY <1>1, <1>2 DEF Update, RecordIncident, RecordResult
<1>3. CASE \E c \in Candidate : RecordCandidate(h, c)
  BY <1>1, <1>3 DEF RecordCandidate
<1>4. ASSUME NEW k \in Key, RecordExecutionIntent(h, k) \/ RecordAttempt(h, k)
      PROVE  pc[h] = "ready"
  BY <1>1, <1>4 DEF RecordExecutionIntent, RecordAttempt
<1>5. ASSUME NEW k \in Key, NEW recovering \in BOOLEAN, BeginExecutionAttempt(h, k, recovering)
      PROVE  pc[h] = "ready"
  BY <1>1, <1>5 DEF BeginExecutionAttempt
<1>6. ASSUME NEW k \in Key, NEW i \in 1..MaxAttempts, NEW state \in Failed,
             RecordEvidence(h, k, i) \/ QuarantineAdapterResult(h, k, i)
                \/ RecordExecutionAttemptFailure(h, k, i, state)
      PROVE  pc[h] = "ready"
  BY <1>1, <1>6 DEF RecordEvidence, QuarantineAdapterResult, RecordExecutionAttemptFailure
<1>7. QED
  BY <1>2, <1>3, <1>4, <1>5, <1>6 DEF Operation, Failed

\* Whatever operation is called, what it publishes follows what it has loaded.
LEMMA OperationPublishes ==
    ASSUME TypeOK, NEW h \in Handle, Lineage(mem[h].state), Operation(h)
    PROVE  \E t, files : Publish(h, t, files) /\ Follows(mem[h].state, t, files)
<1> DEFINE s == mem[h].state
<1>a. s \in State
  BY DEF TypeOK
<1> HIDE DEF s
<1>b. Lineage(s)
  BY DEF s
<1>1. CASE Update(h)
  BY <1>1, <1>a, <1>b, UpdateFollows DEF Update, s
<1>2. CASE RecordIncident(h)
  BY <1>2, <1>a, <1>b, IncidentFollows DEF RecordIncident, s
<1>3. CASE RecordResult(h)
  BY <1>3, <1>a, <1>b, ResultFollows DEF RecordResult, s
<1>4. ASSUME NEW c \in Candidate, RecordCandidate(h, c)
      PROVE  \E t, files : Publish(h, t, files) /\ Follows(s, t, files)
  BY <1>4, <1>a, <1>b, CandidateFollows DEF RecordCandidate, s
<1>5. ASSUME NEW k \in Key, RecordExecutionIntent(h, k)
      PROVE  \E t, files : Publish(h, t, files) /\ Follows(s, t, files)
  BY <1>5, <1>a, <1>b, IntentFollows DEF RecordExecutionIntent, s
<1>6. ASSUME NEW k \in Key, RecordAttempt(h, k)
      PROVE  \E t, files : Publish(h, t, files) /\ Follows(s, t, files)
  BY <1>6, <1>a, <1>b, AttemptFollows DEF RecordAttempt, s
<1>7. ASSUME NEW k \in Key, NEW recovering \in BOOLEAN, BeginExecutionAttempt(h, k, recovering)
      PROVE  \E t, files : Publish(h, t, files) /\ Follows(s, t, files)
  <2> DEFINE r == recovering \/ s.runs[k] # <<>>
  <2>1. r \in BOOLEAN /\ MayBegin(s, k)
        /\ Publish(h, [s EXCEPT !.runs[k] = Append(@, Begun(r)),
                                !.intents[k] = IF r THEN "RECOVERING" ELSE "RUNNING"], <<>>)
    BY <1>7 DEF BeginExecutionAttempt, s
  <2> HIDE DEF r
  <2>2. QED
    BY <2>1, <1>a, <1>b, BeginFollows
<1>8. ASSUME NEW k \in Key, NEW i \in 1..MaxAttempts, RecordEvidence(h, k, i)
      PROVE  \E t, files : Publish(h, t, files) /\ Follows(s, t, files)
  <2>1. Running(s, k, i) /\ i \in Nat
    BY <1>8 DEF RecordEvidence, s
  <2>2. QED
    BY <2>1, <1>8, <1>a, <1>b, EvidenceFollows DEF RecordEvidence, s
<1>9. ASSUME NEW k \in Key, NEW i \in 1..MaxAttempts, QuarantineAdapterResult(h, k, i)
      PROVE  \E t, files : Publish(h, t, files) /\ Follows(s, t, files)
  BY <1>9, <1>a, <1>b, QuarantineFollows DEF QuarantineAdapterResult, s
<1>10. ASSUME NEW k \in Key, NEW i \in 1..MaxAttempts, NEW v \in Failed,
              RecordExecutionAttemptFailure(h, k, i, v)
       PROVE  \E t, files : Publish(h, t, files) /\ Follows(s, t, files)
  BY <1>10, <1>a, <1>b, FailureFollows DEF RecordExecutionAttemptFailure, s
<1> QED
  BY <1>1, <1>2, <1>3, <1>4, <1>5, <1>6, <1>7, <1>8, <1>9, <1>10 DEF Operation, s

LEMMA FreshType ==
    /\ Fresh \in State /\ Lineage(Fresh) /\ FilesOf(Fresh) = {} /\ NoWork.body = Fresh
    /\ NoWork \in [number: Nat, body: State, files: Seq(Path), recovering: BOOLEAN,
                   temporary: {"none", "written", "linked"}]
    /\ NoMemory \in [state: State, head: Nat]
<1>1. Fresh \in State
  BY DEF Fresh, State
<1>2. \A k \in Key : KeyLineage(Fresh, k) /\ Failures(Fresh, k) = {}
  BY NoneIsNoState DEF Fresh, KeyLineage, Failures, ExecutionState
<1>3. Lineage(Fresh)
  BY <1>2 DEF Lineage, Settled, Fresh
<1>4. FilesOf(Fresh) = {}
  <2>1. RecordsOf(Fresh) = {}
    BY <1>2 DEF RecordsOf
  <2>2. EvidenceOf(Fresh) = {} /\ QuarantineOf(Fresh) = {} /\ AttemptsOf(Fresh) = {}
        /\ CandidatesOf(Fresh) = {} /\ ResultOf(Fresh) = {}
    BY DEF Fresh, EvidenceOf, QuarantineOf, AttemptsOf, CandidatesOf, ResultOf
  <2>3. QED
    BY <2>1, <2>2 DEF FilesOf
<1>5. QED
  BY <1>1, <1>3, <1>4 DEF NoWork, NoMemory

-----------------------------------------------------------------------------
(* Types *)

LEMMA InitInv == Init => IInv
<1> SUFFICES ASSUME Init PROVE IInv
  OBVIOUS
<1>1. TypeOK
  <2>1. journal \in Seq(Transaction) /\ generations \in Seq(State) /\ faults \in 0..MaxFaults
    BY BoundsAreNaturals DEF Init
  <2>2. artifact \in [Path -> Nat] /\ strays \subseteq Path /\ pointer \in Nat
        /\ directories \in BOOLEAN /\ lock \in Handle \cup {None}
        /\ expected \in [Handle -> Nat]
        /\ call \in [Handle -> {"none", "open", "operation", "result"}]
        /\ pc \in [Handle -> Writing \cup {"closed", "open", "create", "recover",
                                           "load", "ready", "pointer", "finish"}]
    BY DEF Init
  <2>3. work \in [Handle -> [number: Nat, body: State, files: Seq(Path),
                            recovering: BOOLEAN, temporary: {"none", "written", "linked"}]]
        /\ mem \in [Handle -> [state: State, head: Nat]]
    BY FreshType DEF Init
  <2>4. QED
    BY <2>1, <2>2, <2>3 DEF TypeOK
<1>2. Locking /\ Stored /\ Memory /\ Calls
  BY NoneIsNoHandle DEF Init, Locking, Stored, Memory, Calls, CallAt, DraftAt, PublicationAt, Completing,
     Linked, Unlinked, Inside, Writing, NoMemory, NoWork
<1>3. Histories /\ Files
  BY DEF Init, Histories, Files, Known, Exists
<1>4. QED
  BY <1>1, <1>2, <1>3 DEF IInv

PC == Writing \cup {"closed", "open", "create", "recover", "load", "ready", "pointer", "finish"}
Work == [number: Nat, body: State, files: Seq(Path), recovering: BOOLEAN,
         temporary: {"none", "written", "linked"}]
Mem == [state: State, head: Nat]

\* Every handle's own variables keep their types when one of them changes.
LEMMA Labels ==
    /\ Inside \cup {"closed", "open"} = PC /\ NoWork \in Work /\ NoMemory \in Mem
    /\ \A h \in Handle : After(h) \in PC
  BY FreshType DEF PC, Inside, Writing, NoWork, NoMemory, Work, Mem, After

LEMMA LocalType ==
    ASSUME TypeOK
    PROVE  pc \in [Handle -> PC] /\ work \in [Handle -> Work] /\ mem \in [Handle -> Mem]
  BY DEF TypeOK, PC, Work, Mem

LEMMA PcType ==
    ASSUME TypeOK, NEW h \in Handle, NEW label \in PC
    PROVE  [pc EXCEPT ![h] = label] \in [Handle -> PC]
  BY LocalType

LEMMA WorkType ==
    ASSUME TypeOK, NEW h \in Handle, NEW w \in Work
    PROVE  [work EXCEPT ![h] = w] \in [Handle -> Work]
  BY LocalType

LEMMA MemType ==
    ASSUME TypeOK, NEW h \in Handle, NEW m \in Mem
    PROVE  [mem EXCEPT ![h] = m] \in [Handle -> Mem]
  BY LocalType

LEMMA PendingType ==
    ASSUME TypeOK, journal # <<>>
    PROVE  /\ Pending \in Transaction /\ Pending.body \in State /\ Pending.files \in Seq(Path)
           /\ Pending = journal[Len(journal)] /\ Len(journal) \in Nat \ {0}
<1>1. Pending \in Transaction /\ Pending = journal[Len(journal)] /\ Len(journal) \in Nat \ {0}
  BY LastType DEF TypeOK, Pending
<1>2. QED
  BY <1>1 DEF Transaction

LEMMA NewestType ==
    ASSUME TypeOK, HistoryValid
    PROVE  /\ Newest \in Mem /\ Newest.head = Len(generations) /\ Len(generations) \in Nat \ {0}
           /\ Newest.state = generations[Len(generations)]
<1>1. Last(generations) \in State /\ Len(generations) \in Nat \ {0}
      /\ Last(generations) = generations[Len(generations)]
  BY LastType DEF TypeOK, HistoryValid
<1>2. QED
  BY <1>1 DEF Newest, Mem

\* An operation works on a state that has been published.
LEMMA LoadedLineage ==
    ASSUME TypeOK, Locking, Stored, Memory, Histories, Calls, NEW h \in Handle, pc[h] = "ready"
    PROVE  /\ Lineage(mem[h].state) /\ mem[h].head > 0 /\ mem[h].head = Len(journal) /\ AtRest
           /\ mem[h].state = Pending.body /\ journal # <<>>
<1>1. mem[h].head = Len(journal) /\ AtRest /\ call[h] \in {"operation", "result"}
  BY DEF Calls, CallAt, Locking, Inside, TypeOK
<1>2. mem[h].head > 0 /\ mem[h].head \in Nat /\ mem[h].state = generations[mem[h].head]
      /\ mem[h].head \in 1..Len(generations)
  BY <1>1 DEF Memory, TypeOK, Mem
<1>3. mem[h].state = journal[Len(journal)].body /\ Len(journal) \in 1..Len(journal)
      /\ journal # <<>>
  BY <1>1, <1>2 DEF Stored, AtRest
<1>4. QED
  BY <1>1, <1>2, <1>3, PendingType DEF Histories

LEMMA PublishType ==
    ASSUME TypeOK, NEW h \in Handle, NEW t \in State, NEW files \in Seq(Path),
           Publish(h, t, files)
    PROVE  TypeOK'
<1>1. mem[h].head + 1 \in Nat
  BY DEF TypeOK
<1>2. [number |-> mem[h].head + 1, body |-> t, files |-> files,
       recovering |-> FALSE, temporary |-> "none"] \in Work
  BY <1>1 DEF Work
<1>3. pc' \in [Handle -> PC] /\ work' \in [Handle -> Work]
  <2>1. "journal" \in PC
    BY DEF PC, Writing
  <2>2. QED
    BY <1>2, <2>1, PcType, WorkType DEF Publish, Step, Goto
<1>4. QED
  BY <1>3 DEF TypeOK, Publish, disk, PC, Work

LEMMA StepType ==
    ASSUME TypeOK, Locking, Stored, Memory, Histories, Calls, NEW h \in Handle
    PROVE  /\ Open(h) \/ Initialize(h) \/ Operate(h) \/ Conclude(h) => TypeOK'
           /\ NothingToRecover(h) \/ Recover(h) \/ LoadOpened(h) \/ LoadForWork(h) => TypeOK'
           /\ Create(h) \/ Return(h) \/ Operation(h) \/ Write(h) => TypeOK'
           /\ Refuse(h) \/ Throw(h) \/ Die(h) => TypeOK'
<1>1. ASSUME Open(h) \/ Initialize(h) \/ Operate(h) \/ Conclude(h) PROVE TypeOK'
  <2>1. PICK what \in {"open", "operation", "result"}, from \in {"closed", "open"},
             to \in {"recover", "create"} : Claim(h, what, from, to)
    BY <1>1 DEF Open, Initialize, Operate, Conclude
  <2>2. pc' \in [Handle -> PC]
    <3>1. to \in PC
      BY <2>1 DEF PC
    <3>2. QED
      BY <2>1, <3>1, PcType DEF Claim, Step, Goto
  <2>3. call' \in [Handle -> {"none", "open", "operation", "result"}] /\ expected' \in [Handle -> Nat]
    BY <2>1 DEF Claim, TypeOK
  <2>4. QED
    BY <2>1, <2>2, <2>3 DEF TypeOK, Claim, PC
\* Leaving a call.
<1>2. ASSUME NEW label \in {"open", "closed"}, Release(h, label), UNCHANGED <<expected, faults>>,
             UNCHANGED <<journal, generations, artifact, pointer, directories>>,
             strays' \subseteq Path, mem' \in [Handle -> Mem]
      PROVE  TypeOK'
  <2>1. pc' \in [Handle -> PC] /\ work' \in [Handle -> Work]
    <3>1. label \in PC
      BY DEF PC
    <3>2. QED
      BY <1>2, <3>1, PcType, WorkType, Labels DEF Release, Goto
  <2>2. call' \in [Handle -> {"none", "open", "operation", "result"}]
    BY <1>2 DEF Release, TypeOK
  <2>3. QED
    BY <1>2, <2>1, <2>2 DEF TypeOK, Release, PC, Work, Mem
<1>3. CASE NothingToRecover(h)
  <2>1. pc' \in [Handle -> PC]
    <3>1. "load" \in PC
      BY DEF PC
    <3>2. QED
      BY <1>3, <3>1, PcType DEF NothingToRecover, Step, Goto
  <2>2. QED
    BY <1>3, <2>1 DEF TypeOK, NothingToRecover, disk, PC
<1>4. CASE Recover(h)
  <2>1. pc' \in [Handle -> PC]
    <3>1. "generation" \in PC /\ "files" \in PC
      BY DEF PC, Writing
    <3>2. QED
      BY <1>4, <3>1, PcType DEF Recover, Step, Goto
  <2>2. [number |-> Len(journal), body |-> Pending.body, files |-> Pending.files,
         recovering |-> TRUE, temporary |-> "none"] \in Work
    BY <1>4, PendingType DEF Recover, Work
  <2>3. work' \in [Handle -> Work]
    BY <1>4, <2>2, WorkType DEF Recover
  <2>4. QED
    BY <1>4, <2>1, <2>3 DEF TypeOK, Recover, disk, PC, Work
<1>5. CASE LoadOpened(h)
  <2>1. mem' \in [Handle -> Mem]
    BY <1>5, NewestType, MemType DEF LoadOpened
  <2>2. QED
    BY <1>5, <2>1, <1>2 DEF LoadOpened, disk, TypeOK
<1>6. CASE LoadForWork(h)
  <2>1. mem' \in [Handle -> Mem]
    BY <1>6, NewestType, MemType DEF LoadForWork
  <2>2. pc' \in [Handle -> PC]
    <3>1. "ready" \in PC
      BY DEF PC
    <3>2. QED
      BY <1>6, <3>1, PcType DEF LoadForWork, Step, Goto
  <2>3. QED
    BY <1>6, <2>1, <2>2 DEF TypeOK, LoadForWork, disk, PC, Mem
<1>7. CASE Create(h)
  <2>1. [NoWork EXCEPT !.number = 1] \in Work
    BY FreshType DEF NoWork, Work
  <2>2. pc' \in [Handle -> PC] /\ work' \in [Handle -> Work]
    <3>1. "journal" \in PC
      BY DEF PC, Writing
    <3>2. QED
      BY <1>7, <2>1, <3>1, PcType, WorkType DEF Create, Step, Goto
  <2>3. QED
    BY <1>7, <2>2 DEF TypeOK, Create, disk, PC, Work
<1>8. CASE Return(h)
  BY <1>8, <1>2, LocalType DEF Return, disk, TypeOK, Mem
<1>9. CASE Operation(h)
  <2>1. pc[h] = "ready"
    BY <1>9, OperationReady
  <2>2. PICK t, files : Publish(h, t, files) /\ Follows(mem[h].state, t, files)
    BY <2>1, <1>9, LoadedLineage, OperationPublishes
  <2>3. QED
    BY <2>2, PublishType DEF Follows
<1>10. CASE Write(h)
  <2>0. work[h] \in Work /\ pc[h] \in PC
    BY LocalType
  <2>1. CASE WriteTemporary(h)
    <3>1. [work[h] EXCEPT !.temporary = "written"] \in Work
      BY <2>0 DEF Work
    <3>2. work' = [work EXCEPT ![h] = [work[h] EXCEPT !.temporary = "written"]]
      BY <2>1 DEF WriteTemporary
    <3>3. work' \in [Handle -> Work]
      BY <3>1, <3>2 DEF TypeOK, Work
    <3>4. QED
      BY <2>1, <3>3 DEF TypeOK, WriteTemporary, disk, Work
  <2>2. ASSUME NEW what, Linking(h, what) PROVE work' \in [Handle -> Work]
    <3>1. [work[h] EXCEPT !.temporary = "linked"] \in Work
      BY <2>0 DEF Work
    <3>2. work' = [work EXCEPT ![h] = [work[h] EXCEPT !.temporary = "linked"]]
      BY <2>2 DEF Linking
    <3>3. QED
      BY <3>1, <3>2 DEF TypeOK, Work
  <2>3. CASE LinkJournal(h)
    <3>1. [body |-> work[h].body, files |-> work[h].files] \in Transaction
      BY <2>0 DEF Work, Transaction
    <3>2. journal' \in Seq(Transaction)
      BY <2>3, <3>1, AppendType DEF LinkJournal, TypeOK
    <3>3. work' \in [Handle -> Work]
      BY <2>3, <2>2 DEF LinkJournal
    <3>4. QED
      BY <2>3, <3>2, <3>3 DEF TypeOK, LinkJournal, Linking, Work
  <2>4. CASE LinkFile(h)
    <3>1. work[h].number \in Nat
      BY <2>0 DEF Work
    <3>2. artifact' \in [Path -> Nat]
      BY <2>4, <3>1 DEF LinkFile, TypeOK
    <3>3. work' \in [Handle -> Work]
      BY <2>4, <2>2 DEF LinkFile
    <3>4. QED
      BY <2>4, <3>2, <3>3 DEF TypeOK, LinkFile, Linking, Work
  <2>5. CASE LinkGeneration(h)
    <3>1. generations' \in Seq(State)
      <4>1. work[h].body \in State /\ generations \in Seq(State)
        BY <2>0 DEF Work, TypeOK
      <4>2. Append(generations, work[h].body) \in Seq(State)
        BY <4>1, AppendType
      <4>3. QED
        BY <2>5, <4>1, <4>2 DEF LinkGeneration
    <3>2. work' \in [Handle -> Work]
      BY <2>5, <2>2 DEF LinkGeneration
    <3>3. QED
      BY <2>5, <3>1, <3>2 DEF TypeOK, LinkGeneration, Linking, Work
  <2>6. CASE UnlinkTemporary(h)
    <3> DEFINE rest == IF pc[h] = "files" THEN Tail(work[h].files) ELSE work[h].files
               w == [work[h] EXCEPT !.temporary = "none", !.files = rest]
    <3>1. rest \in Seq(Path)
      <4>1. CASE pc[h] = "files"
        <5>1. work[h].files # <<>>
          BY <4>1 DEF Calls, CallAt, PublicationAt, Completing
        <5>2. QED
          BY <4>1, <5>1, <2>0, HeadTailProperties DEF Work
      <4>2. CASE pc[h] # "files"
        BY <4>2, <2>0 DEF Work
      <4>3. QED
        BY <4>1, <4>2
    <3> HIDE DEF rest
    <3>2. w \in Work
      BY <2>0, <3>1 DEF Work
    <3>3. work' = [work EXCEPT ![h] = w]
      BY <2>6 DEF UnlinkTemporary, rest
    <3> HIDE DEF w
    <3>4. work' \in [Handle -> Work]
      BY <3>2, <3>3, WorkType
    <3>6. pc' \in [Handle -> PC]
      BY <2>6, Labels, PcType DEF UnlinkTemporary, Goto
    <3>7. QED
      BY <2>6, <3>4, <3>6 DEF TypeOK, UnlinkTemporary, disk, PC, Work
  <2>7. CASE SwingPointer(h)
    <3>1. work[h].number \in Nat
      BY <2>0 DEF Work
    <3>2. pc' \in [Handle -> PC]
      <4>1. "finish" \in PC /\ "load" \in PC
        BY DEF PC
      <4>2. QED
        BY <2>7, <4>1, PcType DEF SwingPointer, Step, Goto
    <3>3. QED
      BY <2>7, <3>1, <3>2 DEF TypeOK, SwingPointer, PC
  <2>8. CASE Finish(h)
    <3>1. [state |-> work[h].body, head |-> work[h].number] \in Mem
      BY <2>0 DEF Work, Mem
    <3>2. mem' \in [Handle -> Mem]
      BY <2>8, <3>1, MemType DEF Finish
    <3>3. QED
      BY <2>8, <3>2, <1>2 DEF Finish, disk, TypeOK
  <2>9. QED
    BY <1>10, <2>1, <2>3, <2>4, <2>5, <2>6, <2>7, <2>8 DEF Write
<1>11. CASE Refuse(h)
  <2>1. PICK label \in {"open", "closed"} : Release(h, label)
    BY <1>11 DEF Refuse, BackOut
  <2>2. QED
    BY <1>11, <2>1, <1>2, LocalType DEF Refuse, disk, TypeOK, Mem
<1>12. ASSUME pc[h] = "files" PROVE Head(work[h].files) \in Path
  <2>1. work[h].files # <<>> /\ work[h].files \in Seq(Path)
    BY <1>12 DEF Calls, CallAt, PublicationAt, Completing, TypeOK
  <2>2. QED
    BY <2>1, HeadTailProperties
<1>13. CASE Throw(h)
  <2>1. PICK label \in {"open", "closed"} : Release(h, label)
    BY <1>13 DEF Throw, BackOut
  <2>2. strays' \subseteq Path /\ faults' \in 0..MaxFaults
    BY <1>13, <1>12, BoundsAreNaturals DEF Throw, InAttemptDirectory, TypeOK
  <2>3. pc' \in [Handle -> PC] /\ work' \in [Handle -> Work]
    <3>1. label \in PC
      BY DEF PC
    <3>2. QED
      BY <2>1, <3>1, PcType, WorkType, Labels DEF Release, Goto
  <2>4. call' \in [Handle -> {"none", "open", "operation", "result"}] /\ lock' = None
    BY <2>1 DEF Release, TypeOK
  <2>5. QED
    BY <1>13, <2>2, <2>3, <2>4 DEF TypeOK, Throw, PC, Work
<1>14. CASE Die(h)
  <2>1. strays' \subseteq Path /\ faults' \in 0..MaxFaults
    BY <1>14, <1>12, BoundsAreNaturals DEF Die, InAttemptDirectory, TypeOK
  <2>2. pc' \in [Handle -> PC] /\ work' \in [Handle -> Work] /\ mem' \in [Handle -> Mem]
    <3>1. "closed" \in PC
      BY DEF PC
    <3>2. QED
      BY <1>14, <3>1, PcType, WorkType, MemType, Labels DEF Die, Goto
  <2>3. call' \in [Handle -> {"none", "open", "operation", "result"}] /\ expected' \in [Handle -> Nat]
        /\ lock' \in Handle \cup {None}
    BY <1>14 DEF Die, TypeOK
  <2>4. QED
    BY <1>14, <2>1, <2>2, <2>3 DEF TypeOK, Die, PC, Work, Mem
<1> QED
  BY <1>1, <1>3, <1>4, <1>5, <1>6, <1>7, <1>8, <1>9, <1>10, <1>11, <1>13, <1>14

-----------------------------------------------------------------------------
(* What a step is, seen from the lock *)

Publishes(h) == \E t, files : Publish(h, t, files) /\ Follows(mem[h].state, t, files)
Acting(h) ==
    \/ Open(h) \/ Initialize(h) \/ Operate(h) \/ Conclude(h)
    \/ NothingToRecover(h) \/ Recover(h) \/ LoadOpened(h) \/ LoadForWork(h)
    \/ Create(h) \/ Return(h) \/ Publishes(h) \/ Write(h)
    \/ Refuse(h) \/ Throw(h) \/ Die(h)

\* Only one handle acts, and what it has to do with the lock.
Frame(h) == \A g \in Handle \ {h} :
    pc'[g] = pc[g] /\ call'[g] = call[g] /\ work'[g] = work[g] /\ mem'[g] = mem[g]
Quiet == UNCHANGED <<journal, generations, artifact, pointer>>
Enters(h) ==
    /\ lock = None /\ lock' = h /\ Quiet
    /\ \/ pc[h] = "closed" /\ pc'[h] \in {"recover", "create"} /\ call'[h] = "open"
       \/ pc[h] = "open" /\ pc'[h] = "recover" /\ call'[h] \in {"operation", "result"}
    /\ mem'[h] = mem[h] /\ work'[h] = work[h]
Leaves(h) ==
    /\ lock = h /\ lock' = None /\ Quiet /\ work'[h] = NoWork
    /\ pc'[h] \in {"open", "closed"} /\ call'[h] = "none"
    /\ \/ mem'[h].head = 0 /\ pc'[h] = "closed"
       \/ mem'[h] = mem[h] /\ pc'[h] = IF call[h] = "open" THEN "closed" ELSE "open"
       \/ LoadOpened(h) \/ Finish(h)
Stays(h) ==
    /\ lock = h /\ lock' = h /\ call'[h] = call[h]
    /\ pc'[h] \in Inside \ {"create", "recover"}
    /\ pc'[h] = "ready" => call[h] # "open"
    /\ mem'[h] = mem[h] \/ LoadForWork(h)
Vanishes(h) ==
    /\ lock # h /\ lock' = lock /\ Quiet /\ work'[h] = NoWork
    /\ pc'[h] = "closed" /\ call'[h] = "none" /\ mem'[h].head = 0

LEMMA Acts ==
    ASSUME IInv, Next
    PROVE  \E h \in Handle : Acting(h)
<1>1. PICK h \in Handle : Acting(h) \/ Operation(h)
  BY DEF Next, Acting
<1>2. ASSUME Operation(h) PROVE Publishes(h)
  <2>1. pc[h] = "ready"
    BY <1>2, OperationReady
  <2>2. QED
    BY <2>1, <1>2, LoadedLineage, OperationPublishes DEF Publishes, IInv
<1>3. QED
  BY <1>1, <1>2 DEF Acting

LEMMA LockOf ==
    ASSUME TypeOK, Locking, NEW h \in Handle
    PROVE  /\ pc[h] \in PC /\ (pc[h] \in Inside <=> lock = h)
           /\ \A g \in Handle : g # h /\ lock = h => pc[g] \in {"open", "closed"}
           /\ lock = None => pc[h] \in {"open", "closed"}
  BY NoneIsNoHandle, LocalType DEF Locking, TypeOK, PC, Inside

LEMMA LeaveKind ==
    ASSUME TypeOK, Locking, NEW h \in Handle, NEW label \in {"open", "closed"},
           Release(h, label)
    PROVE  /\ lock' = None /\ pc'[h] = label /\ call'[h] = "none" /\ work'[h] = NoWork
           /\ \A g \in Handle \ {h} : pc'[g] = pc[g] /\ call'[g] = call[g] /\ work'[g] = work[g]
  BY DEF Release, Goto, TypeOK

LEMMA StepKind ==
    ASSUME TypeOK, Locking, Memory, Calls, NEW h \in Handle, Acting(h)
    PROVE  Frame(h) /\ (Enters(h) \/ Leaves(h) \/ Stays(h) \/ Vanishes(h))
<1>0. pc[h] \in PC /\ pc \in [Handle -> PC] /\ call \in [Handle -> {"none", "open", "operation", "result"}]
      /\ work \in [Handle -> Work] /\ mem \in [Handle -> Mem]
  BY LocalType DEF TypeOK
<1>1. ASSUME NEW what \in {"open", "operation", "result"}, NEW from \in {"closed", "open"},
             NEW to \in {"recover", "create"}, Claim(h, what, from, to),
             from = "closed" <=> what = "open", to = "create" => what = "open"
      PROVE Frame(h) /\ Enters(h)
  BY <1>0, <1>1 DEF Claim, Step, Goto, Frame, Enters, Quiet
<1>2. CASE Open(h) \/ Initialize(h) \/ Operate(h) \/ Conclude(h)
  BY <1>1, <1>2 DEF Open, Initialize, Operate, Conclude
\* Leaving: the lock was held.
<1>3. ASSUME NEW label \in {"open", "closed"}, Release(h, label), Quiet, pc[h] \in Inside,
             \/ mem' = mem /\ label = IF call[h] = "open" THEN "closed" ELSE "open"
             \/ LoadOpened(h) /\ mem' = [mem EXCEPT ![h] = Newest]
             \/ Finish(h) /\ mem' = [mem EXCEPT ![h] = [state |-> work[h].body, head |-> work[h].number]]
      PROVE  Frame(h) /\ Leaves(h)
  <2>1. lock = h
    BY <1>3, LockOf
  <2>2. \A g \in Handle \ {h} : mem'[g] = mem[g]
    BY <1>0, <1>3
  <2>3. Frame(h)
    BY <1>3, <2>2, LeaveKind DEF Frame
  <2>4. \/ mem'[h] = mem[h] /\ label = IF call[h] = "open" THEN "closed" ELSE "open"
        \/ LoadOpened(h) \/ Finish(h)
    BY <1>3
  <2>5. Leaves(h)
    BY <1>3, <2>1, <2>4, LeaveKind DEF Leaves
  <2>6. QED
    BY <2>3, <2>5
<1>4. CASE LoadOpened(h)
  BY <1>4, <1>3 DEF LoadOpened, disk, Quiet, Inside
<1>5. CASE Finish(h)
  BY <1>5, <1>3 DEF Finish, disk, Quiet, Inside
<1>6. CASE Return(h)
  <2>1. call[h] # "open"
    BY <1>6 DEF Return, Locking
  <2>2. QED
    BY <2>1, <1>6, <1>3 DEF Return, disk, Quiet, Inside
<1>7. CASE Refuse(h) \/ Throw(h)
  <2>1. pc[h] \in Inside
    BY <1>7, LockOf DEF Refuse, Throw, Clashes, Unacceptable, Busy, Inside, Writing
  <2>2. Quiet /\ mem' = mem
    BY <1>7 DEF Refuse, Throw, disk, Quiet
  <2>3. QED
    BY <1>7, <2>1, <2>2, <1>3 DEF Refuse, Throw, BackOut
<1>8. CASE Die(h)
  <2>1. Frame(h) /\ Quiet /\ pc'[h] = "closed" /\ call'[h] = "none" /\ mem'[h] = NoMemory
        /\ work'[h] = NoWork
    BY <1>8, <1>0 DEF Die, Frame, Goto, Quiet
  <2>2. mem'[h].head = 0
    BY <2>1 DEF NoMemory
  <2>3. lock' = IF lock = h THEN None ELSE lock
    BY <1>8 DEF Die, Busy
  <2>4. CASE lock = h
    BY <2>1, <2>2, <2>3, <2>4 DEF Leaves
  <2>5. CASE lock # h
    BY <2>1, <2>2, <2>3, <2>5 DEF Vanishes
  <2>6. QED
    BY <2>1, <2>4, <2>5
\* Staying inside.
<1>9. ASSUME pc[h] \in Inside, lock' = lock, call' = call, mem' = mem \/ LoadForWork(h),
             \A g \in Handle \ {h} : pc'[g] = pc[g] /\ work'[g] = work[g] /\ mem'[g] = mem[g],
             pc'[h] \in Inside \ {"create", "recover"}, pc'[h] = "ready" => call[h] # "open"
      PROVE Frame(h) /\ Stays(h)
  BY <1>9, LockOf DEF Frame, Stays
<1>10. CASE NothingToRecover(h)
  BY <1>10, <1>0, <1>9 DEF NothingToRecover, Step, Goto, Inside, disk
<1>11. CASE Recover(h)
  BY <1>11, <1>0, <1>9 DEF Recover, Step, Goto, Inside, Writing, disk
<1>12. CASE LoadForWork(h)
  BY <1>12, <1>0, <1>9 DEF LoadForWork, Step, Goto, Inside, disk
<1>13. CASE Create(h)
  BY <1>13, <1>0, <1>9 DEF Create, Step, Goto, Inside, Writing, disk
<1>14. CASE Publishes(h)
  BY <1>14, <1>0, <1>9 DEF Publishes, Publish, Step, Goto, Inside, Writing, disk
<1>15. CASE WriteTemporary(h)
  <2>1. \A g \in Handle \ {h} : work'[g] = work[g]
    BY <1>15, <1>0 DEF WriteTemporary
  <2>2. QED
    BY <1>15, <2>1, <1>9 DEF WriteTemporary, Inside, Writing
<1>16. CASE LinkJournal(h) \/ LinkFile(h) \/ LinkGeneration(h)
  <2>1. PICK what \in Writing : Linking(h, what)
    BY <1>16 DEF LinkJournal, LinkFile, LinkGeneration, Writing
  <2>2. \A g \in Handle \ {h} : work'[g] = work[g]
    BY <2>1, <1>0 DEF Linking
  <2>3. QED
    BY <2>1, <2>2, <1>9 DEF Linking, Inside, Writing
<1>17. CASE UnlinkTemporary(h)
  <2>1. \A g \in Handle \ {h} : work'[g] = work[g] /\ pc'[g] = pc[g]
    BY <1>17, <1>0 DEF UnlinkTemporary, Goto
  <2>2. pc'[h] \in Inside \ {"create", "recover", "ready"}
    BY <1>17, <1>0 DEF UnlinkTemporary, Goto, After, Inside, Writing
  <2>3. QED
    <3>1. pc[h] \in Inside
      BY <1>17 DEF UnlinkTemporary, Calls, CallAt, Inside
    <3>2. QED
      BY <1>17, <2>1, <2>2, <3>1, <1>9 DEF UnlinkTemporary
<1>18. CASE SwingPointer(h)
  BY <1>18, <1>0, <1>9 DEF SwingPointer, Step, Goto, Inside
<1> QED
  BY <1>2, <1>4, <1>5, <1>6, <1>7, <1>8, <1>10, <1>11, <1>12, <1>13, <1>14, <1>15, <1>16,
     <1>17, <1>18 DEF Acting, Write

LEMMA StepLocking ==
    ASSUME TypeOK, Locking, Memory, Calls, NEW h \in Handle, Acting(h)
    PROVE  Locking'
<1>1. Frame(h) /\ (Enters(h) \/ Leaves(h) \/ Stays(h) \/ Vanishes(h))
  BY StepKind
<1>2. SUFFICES ASSUME NEW g \in Handle
      PROVE  /\ pc'[g] \in Inside <=> lock' = g
             /\ call'[g] = "none" <=> pc'[g] \notin Inside
             /\ pc'[g] = "ready" => call'[g] # "open"
             /\ pc'[g] = "create" => call'[g] = "open"
  BY DEF Locking
<1>3. CASE g # h
  <2>1. pc'[g] = pc[g] /\ call'[g] = call[g]
    BY <1>1, <1>3 DEF Frame
  <2>2. lock' = g <=> lock = g
    BY <1>1, <1>3, NoneIsNoHandle DEF Enters, Leaves, Stays, Vanishes
  <2>3. QED
    BY <2>1, <2>2 DEF Locking
<1>4. CASE g = h
  <2>1. CASE Enters(h)
    BY <2>1, <1>4 DEF Enters, Inside
  <2>2. CASE Leaves(h)
    BY <2>2, <1>4, NoneIsNoHandle DEF Leaves, Inside, Writing
  <2>3. CASE Stays(h)
    BY <2>3, <1>4 DEF Stays, Locking
  <2>4. CASE Vanishes(h)
    BY <2>4, <1>4 DEF Vanishes, Inside, Writing
  <2>5. QED
    BY <1>1, <2>1, <2>2, <2>3, <2>4
<1>5. QED
  BY <1>3, <1>4

-----------------------------------------------------------------------------
(* The steps that write *)

\* What a linking or a pointer finds, whoever the writer is.
LEMMA WriterFinds ==
    ASSUME TypeOK, Stored, Memory, Files, Calls, NEW h \in Handle
    PROVE  /\ LinkJournal(h) =>
                /\ work[h].number = mem[h].head + 1 /\ Len(journal) = mem[h].head /\ AtRest
                /\ mem[h].head = 0 =>
                     journal = <<>> /\ work[h].body = Fresh /\ work[h].files = <<>>
                /\ mem[h].head > 0 =>
                     /\ journal # <<>> /\ mem[h].state = Pending.body
                     /\ Follows(Pending.body, work[h].body, work[h].files)
           /\ LinkFile(h) \/ LinkGeneration(h) \/ SwingPointer(h) =>
                /\ work[h].number = Len(journal) /\ work[h].number > 0 /\ journal # <<>>
                /\ work[h].body = Pending.body
           /\ LinkFile(h) => work[h].files # <<>>
                             /\ Elements(work[h].files) \subseteq Elements(Pending.files)
           /\ LinkGeneration(h) \/ SwingPointer(h) => Elements(Pending.files) \subseteq Known
           /\ SwingPointer(h) => Len(generations) = Len(journal)
<1>0. CallAt(h) /\ work[h] \in Work /\ mem[h] \in Mem
  BY LocalType DEF Calls
<1>0a. work[h].number \in Nat /\ mem[h].head \in Nat /\ Len(journal) \in Nat
       /\ Len(generations) \in Nat /\ pointer \in Nat
  BY <1>0 DEF Work, Mem, TypeOK
<1>1. ASSUME LinkJournal(h)
      PROVE  /\ work[h].number = mem[h].head + 1 /\ Len(journal) = mem[h].head /\ AtRest
             /\ mem[h].head = 0 => journal = <<>> /\ work[h].body = Fresh /\ work[h].files = <<>>
             /\ mem[h].head > 0 =>
                  /\ journal # <<>> /\ mem[h].state = Pending.body
                  /\ Follows(Pending.body, work[h].body, work[h].files)
  <2>1. DraftAt(h) /\ Unlinked(h, "journal") /\ Len(journal) = work[h].number - 1
    BY <1>1, <1>0 DEF CallAt, LinkJournal, Linking, Unlinked
  <2>2. work[h].number = mem[h].head + 1 /\ Len(journal) = mem[h].head
    BY <2>1, <1>0a DEF DraftAt
  <2>3. CASE mem[h].head = 0
    <3>1. journal = <<>> /\ Len(journal) = 0
      BY <2>2, <2>3 DEF TypeOK
    <3>2. AtRest
      BY <3>1, <1>0a DEF AtRest, Stored
    <3>3. QED
      BY <2>1, <2>2, <2>3, <3>1, <3>2 DEF DraftAt
  <2>4. CASE mem[h].head > 0
    <3>1. AtRest /\ Follows(mem[h].state, work[h].body, work[h].files)
      BY <2>1, <2>4 DEF DraftAt
    <3>2. journal # <<>> /\ Len(journal) \in 1..Len(generations)
      BY <2>2, <2>4, <3>1, <1>0a DEF AtRest
    <3>3. mem[h].state = Pending.body
      BY <2>2, <2>4, <3>2, PendingType DEF Memory, Stored
    <3>4. QED
      BY <2>2, <2>4, <3>1, <3>2, <3>3
  <2>5. QED
    BY <2>3, <2>4, <1>0a
<1>2. ASSUME LinkFile(h) \/ LinkGeneration(h) \/ SwingPointer(h)
      PROVE  /\ work[h].number = Len(journal) /\ work[h].number > 0 /\ journal # <<>>
             /\ work[h].body = Pending.body
             /\ pc[h] = "files" => work[h].files # <<>>
                                   /\ Elements(work[h].files) \subseteq Elements(Pending.files)
             /\ pc[h] \in {"generation", "pointer"} => Elements(Pending.files) \subseteq Known
             /\ pc[h] = "pointer" => Len(generations) = Len(journal)
  <2>1. Completing(h) /\ PublicationAt(h)
    BY <1>2, <1>0 DEF Completing, CallAt, LinkFile, LinkGeneration, SwingPointer, Linking, Step
  <2>2. journal # <<>>
    BY <2>1, <1>0a DEF PublicationAt
  <2>3. QED
    BY <2>1, <2>2 DEF PublicationAt
<1>3. /\ LinkFile(h) => pc[h] = "files"
      /\ LinkGeneration(h) => pc[h] = "generation"
      /\ SwingPointer(h) => pc[h] = "pointer"
  BY DEF LinkFile, LinkGeneration, SwingPointer, Linking, Step
<1> QED
  BY <1>1, <1>2, <1>3

\* Every other step leaves the directory alone.
Writes(h) == LinkJournal(h) \/ LinkFile(h) \/ LinkGeneration(h) \/ SwingPointer(h)
LEMMA QuietSteps ==
    ASSUME NEW h \in Handle, Acting(h), ~Writes(h)
    PROVE  Quiet
  BY DEF Acting, Writes, Write, Quiet, disk, Open, Initialize, Operate, Conclude, Claim,
     NothingToRecover, Recover, LoadOpened, LoadForWork, Create, Return, Publishes, Publish,
     WriteTemporary, UnlinkTemporary, Finish, Refuse, Throw, Die

LEMMA JournalGrows ==
    ASSUME TypeOK, TypeOK', NEW h \in Handle, LinkJournal(h)
    PROVE  /\ Len(journal') = Len(journal) + 1 /\ Len(journal) \in Nat /\ journal' # <<>>
           /\ \A i \in 1..Len(journal) : journal'[i] = journal[i]
           /\ journal'[Len(journal')].body = work[h].body
           /\ Pending'.body = work[h].body /\ Pending'.files = work[h].files
           /\ generations' = generations /\ artifact' = artifact /\ pointer' = pointer
<1> DEFINE entry == [body |-> work[h].body, files |-> work[h].files]
<1>1. journal' = Append(journal, entry) /\ journal \in Seq(Transaction)
      /\ generations' = generations /\ artifact' = artifact /\ pointer' = pointer
  BY DEF LinkJournal, Linking, TypeOK
<1>2. entry \in Transaction
  BY LocalType DEF Work, Transaction
<1>3. entry.body = work[h].body /\ entry.files = work[h].files
  OBVIOUS
<1> HIDE DEF entry
<1>4. /\ Len(journal') = Len(journal) + 1 /\ Len(journal) \in Nat /\ journal' # <<>>
      /\ \A i \in 1..Len(journal) : journal'[i] = journal[i]
      /\ journal'[Len(journal')] = entry
  BY <1>1, <1>2, AppendType
<1>5. Pending' = entry
  BY <1>4 DEF Pending, Last
<1>6. QED
  BY <1>1, <1>3, <1>4, <1>5

LEMMA GenerationsGrow ==
    ASSUME TypeOK, Stored, Memory, Files, Calls, NEW h \in Handle, Acting(h)
    PROVE  /\ Len(generations) <= Len(generations') /\ Len(generations) \in Nat
           /\ \A i \in 1..Len(generations) : generations'[i] = generations[i]
           /\ LinkGeneration(h) =>
                /\ Len(generations') = Len(journal)
                /\ generations'[Len(journal)] = Pending.body
<1>0. generations \in Seq(State) /\ Len(generations) \in Nat
  BY DEF TypeOK
<1>1. CASE LinkGeneration(h)
  <2>1. work[h].number = Len(journal) /\ work[h].body = Pending.body /\ journal # <<>>
        /\ work[h].body \in State /\ Len(journal) \in Nat
    BY <1>1, WriterFinds, LocalType, SMTT(40) DEF Work, TypeOK
  <2>2. CASE generations' = Append(generations, work[h].body) /\ Len(generations) = work[h].number - 1
    BY <1>0, <2>1, <2>2, AppendType
  <2>3. CASE generations' = generations /\ Len(generations) = work[h].number
    <3>1. generations[Len(journal)] = Pending.body
      BY <1>0, <2>1, <2>3, PendingType DEF Stored
    <3>2. QED
      BY <1>0, <2>1, <2>3, <3>1
  <2>4. QED
    BY <1>1, <2>2, <2>3 DEF LinkGeneration
<1>2. CASE ~LinkGeneration(h)
  <2>1. generations' = generations
    BY <1>2, QuietSteps DEF Writes, Quiet, LinkJournal, LinkFile, SwingPointer, Linking
  <2>2. QED
    BY <1>0, <1>2, <2>1
<1>3. QED
  BY <1>1, <1>2

LEMMA Lengths ==
    ASSUME TypeOK
    PROVE  Len(journal) \in Nat /\ Len(generations) \in Nat /\ pointer \in Nat
  BY DEF TypeOK

LEMMA StepStored ==
    ASSUME TypeOK, TypeOK', Stored, Memory, Files, Calls, NEW h \in Handle, Acting(h)
    PROVE  Stored'
<1>0. Len(journal) \in Nat /\ Len(generations) \in Nat /\ pointer \in Nat
  BY Lengths
<1>1. CASE LinkJournal(h)
  <2>1. AtRest
    BY <1>1, WriterFinds
  <2>2. /\ Len(journal') = Len(journal) + 1 /\ generations' = generations /\ pointer' = pointer
        /\ \A i \in 1..Len(journal) : journal'[i] = journal[i]
    BY <1>1, JournalGrows
  <2>3. \A i \in 1..Len(generations) : generations'[i] = journal'[i].body
    BY <2>1, <2>2 DEF Stored, AtRest
  <2>4. QED
    BY <1>0, <2>1, <2>2, <2>3 DEF Stored, AtRest
<1>2. CASE LinkGeneration(h)
  <2>1. journal' = journal /\ pointer' = pointer
    BY <1>2 DEF LinkGeneration, Linking
  <2>2. /\ Len(generations) <= Len(generations') /\ Len(generations') = Len(journal)
        /\ \A i \in 1..Len(generations) : generations'[i] = generations[i]
        /\ generations'[Len(journal)] = journal[Len(journal)].body
    BY <1>2, GenerationsGrow, WriterFinds, PendingType
  <2>3. \A i \in 1..Len(generations') : generations'[i] = journal'[i].body
    BY <1>0, <2>1, <2>2 DEF Stored
  <2>4. QED
    BY <1>0, <2>1, <2>2, <2>3 DEF Stored
<1>3. CASE SwingPointer(h)
  BY <1>0, <1>3, WriterFinds DEF Stored, SwingPointer
<1>4. CASE LinkFile(h)
  BY <1>4 DEF Stored, LinkFile, Linking
<1>5. CASE ~Writes(h)
  BY <1>5, QuietSteps DEF Stored, Quiet
<1>6. QED
  BY <1>1, <1>2, <1>3, <1>4, <1>5 DEF Writes

LEMMA StepHistories ==
    ASSUME TypeOK, TypeOK', Stored, Memory, Histories, Files, Calls, NEW h \in Handle, Acting(h)
    PROVE  Histories'
<1>1. CASE LinkJournal(h)
  <2>1. Lineage(work[h].body)
    BY <1>1, WriterFinds, FreshType, LocalType DEF Follows, Work, Mem
  <2>2. journal # <<>> => Retains(journal[Len(journal)].body, work[h].body)
    BY <1>1, WriterFinds, PendingType, LocalType DEF Follows, Mem
  <2>3. /\ Len(journal') = Len(journal) + 1 /\ Len(journal) \in Nat
        /\ \A i \in 1..Len(journal) : journal'[i] = journal[i]
        /\ journal'[Len(journal')].body = work[h].body
    BY <1>1, JournalGrows
  <2>4. \A i \in 1..Len(journal') : Lineage(journal'[i].body)
    BY <2>1, <2>3 DEF Histories
  <2>5. \A i \in 1..(Len(journal') - 1) : Retains(journal'[i].body, journal'[i + 1].body)
    <3>1. SUFFICES ASSUME NEW i \in 1..Len(journal)
          PROVE Retains(journal'[i].body, journal'[i + 1].body)
      BY <2>3
    <3>2. CASE i < Len(journal)
      BY <2>3, <3>2 DEF Histories
    <3>3. CASE i = Len(journal)
      BY <2>2, <2>3, <3>3
    <3>4. QED
      BY <2>3, <3>2, <3>3
  <2>6. QED
    BY <2>4, <2>5 DEF Histories
<1>2. CASE ~LinkJournal(h)
  <2>1. journal' = journal
    BY <1>2, QuietSteps DEF Writes, Quiet, LinkGeneration, LinkFile, SwingPointer, Linking
  <2>2. QED
    BY <2>1 DEF Histories
<1>3. QED
  BY <1>1, <1>2

LEMMA StepFiles ==
    ASSUME TypeOK, TypeOK', Stored, Memory, Files, Calls, NEW h \in Handle, Acting(h)
    PROVE  Files'
<1>1. CASE LinkJournal(h)
  <2> DEFINE body == work[h].body
             files == work[h].files
  <2>1. journal' # <<>> /\ Pending'.body = body /\ Pending'.files = files
        /\ Len(generations') # Len(journal')
    BY <1>1, JournalGrows, WriterFinds, Lengths DEF AtRest
  <2>2. Known' = Known
    BY <1>1 DEF LinkJournal, Linking, Known, Exists
  <2>3. CASE mem[h].head = 0
    <3>1. Known = {} /\ FilesOf(body) = {} /\ files = <<>>
      BY <1>1, <2>3, WriterFinds, FreshType DEF Files
    <3>2. Elements(files) = {}
      BY <3>1 DEF Elements
    <3>3. QED
      BY <2>1, <2>2, <3>1, <3>2 DEF Files
  <2>4. CASE mem[h].head > 0
    <3>1. AtRest /\ journal # <<>> /\ Follows(Pending.body, body, files)
      BY <1>1, <2>4, WriterFinds
    <3>2. FilesOf(body) = FilesOf(Pending.body) \cup Elements(files)
      BY <3>1 DEF Follows
    <3>3. Known \subseteq FilesOf(Pending.body) /\ FilesOf(Pending.body) \subseteq Known
      BY <3>1 DEF Files, AtRest
    <3> HIDE DEF body, files
    <3>4. QED
      BY <2>1, <2>2, <3>2, <3>3 DEF Files
  <2>5. mem[h].head \in Nat
    BY LocalType DEF Mem
  <2>6. QED
    BY <2>3, <2>4, <2>5
<1>2. CASE LinkFile(h)
  <2> DEFINE f == Head(work[h].files)
  <2>1. work[h].files # <<>> /\ Elements(work[h].files) \subseteq Elements(Pending.files)
        /\ journal # <<>> /\ work[h].number # 0 /\ work[h].files \in Seq(Path)
    BY <1>2, WriterFinds, LocalType DEF Work
  <2>2. f \in Elements(work[h].files)
    BY <2>1 DEF Elements
  <2>3. f \in Path
    BY <2>1, HeadTailProperties
  <2>4. journal' = journal /\ generations' = generations
        /\ artifact' = [artifact EXCEPT ![f] = work[h].number] /\ artifact \in [Path -> Nat]
    BY <1>2 DEF LinkFile, Linking, TypeOK
  <2> HIDE DEF f
  <2>5. Known' = Known \cup {f}
    BY <2>1, <2>3, <2>4 DEF Known, Exists
  <2>6. Pending' = Pending
    BY <2>4 DEF Pending
  <2>7. QED
    BY <2>1, <2>2, <2>4, <2>5, <2>6 DEF Files
<1>3. CASE LinkGeneration(h)
  <2>1. Elements(Pending.files) \subseteq Known
    BY <1>3, WriterFinds
  <2>2. journal' = journal /\ artifact' = artifact
    BY <1>3 DEF LinkGeneration
  <2>3. QED
    BY <2>1, <2>2 DEF Files, Known, Exists, Pending
<1>4. CASE SwingPointer(h) \/ ~Writes(h)
  <2>1. journal' = journal /\ artifact' = artifact /\ generations' = generations
    BY <1>4, QuietSteps DEF Quiet, SwingPointer
  <2>2. QED
    BY <2>1 DEF Files, Known, Exists, Pending
<1>5. QED
  BY <1>1, <1>2, <1>3, <1>4 DEF Writes

\* A step that finishes a publication has made it the newest generation.
LEMMA FinishFinds ==
    ASSUME TypeOK, Stored, Calls, NEW h \in Handle, pc[h] = "finish"
    PROVE  /\ work[h].number = Len(generations) /\ work[h].number > 0 /\ AtRest
           /\ work[h].body = generations[Len(generations)]
<1>1. PublicationAt(h) /\ Completing(h)
  BY DEF Calls, CallAt, Completing
<1>2. work[h].number = Len(journal) /\ Len(journal) > 0 /\ Len(generations) = Len(journal)
      /\ work[h].body = Pending.body /\ pointer = Len(journal)
  BY <1>1 DEF PublicationAt
<1>3. Pending.body = generations[Len(generations)]
  BY <1>2, Lengths, PendingType DEF Stored
<1>4. QED
  BY <1>2, <1>3 DEF AtRest

LEMMA StepMemory ==
    ASSUME TypeOK, TypeOK', Locking, Stored, Memory, Files, Calls, NEW h \in Handle, Acting(h)
    PROVE  Memory'
<1> DEFINE Knows(g) ==
        /\ mem[g].head <= Len(generations)
        /\ mem[g].head > 0 => mem[g].state = generations[mem[g].head]
           Due(g) ==
        /\ pc[g] = "open" \/ call[g] \in {"operation", "result"} => mem[g].head > 0
        /\ pc[g] = "closed" \/ call[g] = "open" => mem[g].head = 0
<1>1. SUFFICES ASSUME NEW g \in Handle PROVE Knows(g)' /\ Due(g)'
  BY DEF Memory
<1>2. Knows(g) /\ Due(g) /\ mem[g].head \in Nat /\ Knows(h) /\ Due(h) /\ mem[h].head \in Nat
  BY LocalType DEF Memory, Mem
<1>3. Frame(h) /\ (Enters(h) \/ Leaves(h) \/ Stays(h) \/ Vanishes(h))
  BY StepKind
<1>4. Len(generations) \in Nat /\ Len(generations) <= Len(generations')
      /\ \A i \in 1..Len(generations) : generations'[i] = generations[i]
  BY GenerationsGrow
<1>5. Len(generations') \in Nat
  BY DEF TypeOK
\* Who keeps what it knows keeps knowing it; and so does who forgets, or reads.
<1>6. mem'[g] = mem[g] => Knows(g)'
  BY <1>2, <1>4, <1>5
<1>7. mem'[g].head = 0 => Knows(g)'
  BY <1>5
<1>8. g = h /\ (LoadOpened(h) \/ LoadForWork(h)) => Knows(g)' /\ mem'[g].head > 0
  <2>1. SUFFICES ASSUME g = h, LoadOpened(h) \/ LoadForWork(h)
        PROVE  Knows(g)' /\ mem'[g].head > 0
    OBVIOUS
  <2>2. mem'[h] = Newest /\ HistoryValid /\ generations' = generations
    BY <2>1, LocalType DEF LoadOpened, LoadForWork, disk
  <2>3. QED
    BY <2>1, <2>2, <1>4, NewestType
<1>9. g = h /\ Finish(h) => Knows(g)' /\ mem'[g].head > 0
  <2>1. SUFFICES ASSUME g = h, Finish(h) PROVE Knows(g)' /\ mem'[g].head > 0
    OBVIOUS
  <2>2. mem'[h] = [state |-> work[h].body, head |-> work[h].number] /\ generations' = generations
    BY <2>1, LocalType DEF Finish, disk
  <2>3. mem'[h].state = work[h].body /\ mem'[h].head = work[h].number
    BY <2>2
  <2>4. work[h].number = Len(generations) /\ work[h].number > 0
        /\ work[h].body = generations[Len(generations)]
    BY <2>1, FinishFinds DEF Finish
  <2>5. QED
    BY <2>1, <2>2, <2>3, <2>4, <1>4
<1> HIDE DEF Knows
<1>10. CASE g # h
  BY <1>2, <1>3, <1>6, <1>10 DEF Frame
<1>11. CASE g = h
  <2>1. CASE Enters(h)
    BY <1>2, <1>6, <1>11, <2>1 DEF Enters
  <2>2. CASE Leaves(h)
    <3>1. call[h] # "none" /\ call[h] \in {"none", "open", "operation", "result"}
      BY <2>2 DEF Leaves, Locking, TypeOK
    <3>2. CASE LoadOpened(h) \/ Finish(h)
      <4>1. pc'[h] = "open" /\ call'[h] = "none"
        BY <3>2, LeaveKind DEF LoadOpened, Finish
      <4>2. QED
        BY <1>8, <1>9, <1>11, <3>2, <4>1
    <3>3. CASE mem'[h].head = 0 /\ pc'[h] = "closed"
      BY <1>7, <1>11, <2>2, <3>3 DEF Leaves
    <3>4. CASE mem'[h] = mem[h] /\ pc'[h] = IF call[h] = "open" THEN "closed" ELSE "open"
      BY <1>2, <1>6, <1>11, <2>2, <3>1, <3>4 DEF Leaves
    <3>5. QED
      BY <2>2, <3>2, <3>3, <3>4 DEF Leaves
  <2>3. CASE Stays(h)
    <3>1. pc'[h] \notin {"open", "closed"} /\ call'[h] = call[h]
      BY <2>3 DEF Stays, Inside, Writing
    <3>2. CASE mem'[h] = mem[h]
      BY <1>2, <1>6, <1>11, <3>1, <3>2
    <3>3. CASE LoadForWork(h)
      BY <1>8, <1>11, <3>1, <3>3 DEF LoadForWork
    <3>4. QED
      BY <2>3, <3>2, <3>3 DEF Stays
  <2>4. CASE Vanishes(h)
    BY <1>7, <1>11, <2>4 DEF Vanishes
  <2>5. QED
    BY <1>3, <2>1, <2>2, <2>3, <2>4
<1>12. QED
  BY <1>10, <1>11

\* A handle outside a call, and one whose surroundings are left alone.
LEMMA IdleCall ==
    ASSUME NEW h \in Handle, pc[h] \notin Inside, work[h].temporary = "none"
    PROVE  CallAt(h)
  BY DEF CallAt, DraftAt, PublicationAt, Completing, Linked, Unlinked, Inside, Writing

LEMMA SameCall ==
    ASSUME NEW h \in Handle, CallAt(h), Quiet,
           pc'[h] = pc[h], work'[h] = work[h], mem'[h] = mem[h]
    PROVE  CallAt(h)'
  BY DEF CallAt, DraftAt, PublicationAt, Completing, Linked, Unlinked, AtRest, Quiet, Pending,
     Known, Exists

LEMMA HeadAndTail ==
    ASSUME NEW S, NEW s \in Seq(S), s # <<>>
    PROVE  /\ Elements(s) = {Head(s)} \cup Elements(Tail(s))
           /\ Len(s) > 1 <=> Tail(s) # <<>>
           /\ Len(s) <= 1 => Elements(Tail(s)) = {}
<1>1. Len(s) \in Nat \ {0} /\ Tail(s) \in Seq(S) /\ Len(Tail(s)) = Len(s) - 1 /\ Head(s) = s[1]
      /\ \A i \in 1..Len(Tail(s)) : Tail(s)[i] = s[i + 1]
  BY HeadTailProperties
<1>2. \A e \in Elements(s) : e = Head(s) \/ e \in Elements(Tail(s))
  <2>1. SUFFICES ASSUME NEW i \in 1..Len(s), i # 1 PROVE s[i] \in Elements(Tail(s))
    BY <1>1 DEF Elements
  <2>2. i - 1 \in 1..Len(Tail(s)) /\ Tail(s)[i - 1] = s[i]
    BY <1>1, <2>1
  <2>3. QED
    BY <2>2 DEF Elements
<1>3. \A e \in Elements(Tail(s)) : e \in Elements(s)
  BY <1>1 DEF Elements
<1>4. Head(s) \in Elements(s)
  BY <1>1 DEF Elements
<1>5. Len(s) <= 1 => Elements(Tail(s)) = {}
  BY <1>1 DEF Elements
<1>6. Elements(s) = {Head(s)} \cup Elements(Tail(s))
  BY <1>2, <1>3, <1>4
<1>7. Len(s) > 1 <=> Tail(s) # <<>>
  <2> DEFINE t == Tail(s)
  <2>1. t \in Seq(S) /\ Len(t) = Len(s) - 1
    BY <1>1
  <2> HIDE DEF t
  <2>2. Len(t) = 0 <=> t = <<>>
    BY <2>1, EmptySeq
  <2>3. t # <<>> <=> Len(s) > 1
    BY <1>1, <2>1, <2>2
  <2>4. QED
    BY <2>3 DEF t
<1>8. QED
  BY <1>5, <1>6, <1>7

\* The call of the handle that acts, one step after another.
LEMMA BeginningCalls ==
    ASSUME TypeOK, Locking, Stored, Memory, Files, Calls, NEW h \in Handle,
           (Enters(h) /\ work'[h] = work[h]) \/ NothingToRecover(h) \/ Recover(h) \/ LoadForWork(h)
    PROVE  CallAt(h)'
<1>0. pc \in [Handle -> PC] /\ work \in [Handle -> Work] /\ mem \in [Handle -> Mem] /\ CallAt(h)
  BY LocalType DEF Calls
<1>1. CASE Enters(h) /\ work'[h] = work[h]
  <2>1. work[h].temporary = "none" /\ pc'[h] \in {"recover", "create"}
    BY <1>0, <1>1 DEF Enters, CallAt, Work, Writing
  <2>2. QED
    BY <1>1, <2>1 DEF CallAt, DraftAt, PublicationAt, Completing, Linked, Unlinked
<1>2. CASE NothingToRecover(h)
  <2>1. work[h].temporary = "none" /\ pc'[h] = "load" /\ work' = work
    BY <1>0, <1>2 DEF NothingToRecover, Step, Goto, CallAt, Work, Writing
  <2>2. journal' = <<>> \/ pointer' = Len(journal')
    BY <1>2 DEF NothingToRecover, disk
  <2>3. QED
    BY <2>1, <2>2 DEF CallAt, DraftAt, PublicationAt, Completing, Linked, Unlinked
<1>3. CASE Recover(h)
  <2>1. pc'[h] = IF Pending.files = <<>> THEN "generation" ELSE "files"
    BY <1>0, <1>3 DEF Recover, Step, Goto
  <2>2. /\ work'[h].number = Len(journal) /\ work'[h].body = Pending.body
        /\ work'[h].files = Pending.files /\ work'[h].temporary = "none"
    BY <1>0, <1>3 DEF Recover
  <2>3. journal' = journal /\ journal # <<>> /\ artifact' = artifact /\ Len(journal) \in Nat \ {0}
    BY <1>3, PendingType DEF Recover, disk
  <2>4. Pending' = Pending /\ Known' = Known
    BY <2>3 DEF Pending, Known, Exists
  <2>5. Pending.files = <<>> => Elements(Pending.files) \subseteq Known
    BY DEF Elements
  <2>6. QED
    BY <2>1, <2>2, <2>3, <2>4, <2>5
       DEF CallAt, DraftAt, PublicationAt, Completing, Linked, Unlinked, Writing
<1>4. CASE LoadForWork(h)
  <2>1. work[h].temporary = "none" /\ pc'[h] = "ready" /\ work' = work /\ pc[h] = "load"
    BY <1>0, <1>4 DEF LoadForWork, Step, Goto, CallAt, Work, Writing
  <2>2. mem'[h] = Newest /\ HistoryValid
        /\ UNCHANGED <<journal, generations, pointer>>
    BY <1>0, <1>4 DEF LoadForWork, disk
  <2>3. pointer = Len(generations) /\ Len(generations) > 0 /\ mem'[h].head = Len(generations)
    BY <2>2, NewestType DEF HistoryValid
  <2>4. Len(journal) = Len(generations)
    <3>1. journal = <<>> \/ pointer = Len(journal)
      BY <1>0, <2>1 DEF CallAt
    <3>2. journal = <<>> => Len(journal) = 0
      OBVIOUS
    <3>3. QED
      BY <2>3, <3>1, <3>2, Lengths DEF Stored
  <2>5. QED
    BY <2>1, <2>2, <2>3, <2>4 DEF CallAt, DraftAt, PublicationAt, Completing, Linked, Unlinked, AtRest
<1>5. QED
  BY <1>1, <1>2, <1>3, <1>4

LEMMA DraftingCalls ==
    ASSUME TypeOK, Locking, Stored, Memory, Histories, Files, Calls, NEW h \in Handle,
           Create(h) \/ Publishes(h) \/ WriteTemporary(h)
    PROVE  CallAt(h)'
<1>0. pc \in [Handle -> PC] /\ work \in [Handle -> Work] /\ mem \in [Handle -> Mem] /\ CallAt(h)
  BY LocalType DEF Calls
<1>1. CASE Create(h)
  <2>1. pc'[h] = "journal" /\ work'[h] = [NoWork EXCEPT !.number = 1] /\ mem' = mem
    BY <1>0, <1>1 DEF Create, Step, Goto
  <2>2. mem[h].head = 0
    BY <1>1 DEF Create, Step, Locking, Memory
  <2>3. work'[h].number = 1 /\ work'[h].body = Fresh /\ work'[h].files = <<>>
        /\ work'[h].temporary = "none"
    BY <2>1 DEF NoWork
  <2>4. QED
    BY <2>1, <2>2, <2>3 DEF CallAt, DraftAt, PublicationAt, Completing, Linked, Unlinked, Writing
<1>2. CASE Publishes(h)
  <2>1. PICK t, files : Publish(h, t, files) /\ Follows(mem[h].state, t, files)
    BY <1>2 DEF Publishes
  <2>2. pc[h] = "ready" /\ pc'[h] = "journal" /\ mem' = mem
        /\ UNCHANGED <<journal, generations, pointer>>
    BY <1>0, <2>1 DEF Publish, Step, Goto, disk
  <2>3. work'[h].number = mem[h].head + 1 /\ work'[h].body = t /\ work'[h].files = files
        /\ work'[h].temporary = "none"
    BY <1>0, <2>1 DEF Publish
  <2>4. mem[h].head > 0 /\ mem[h].head = Len(journal) /\ AtRest
    BY <2>2, LoadedLineage
  <2>5. AtRest'
    BY <2>2, <2>4 DEF AtRest
  <2>6. Follows(mem[h].state, t, files)'
    BY <2>1, <2>2 DEF Follows
  <2>7. DraftAt(h)'
    BY <2>1, <2>2, <2>3, <2>4, <2>5 DEF DraftAt
  <2>8. QED
    BY <2>2, <2>3, <2>7 DEF CallAt, PublicationAt, Completing, Linked, Writing
<1>3. CASE WriteTemporary(h)
  <2>1. pc' = pc /\ mem' = mem /\ pc[h] \in Writing /\ work[h].temporary = "none"
        /\ UNCHANGED <<journal, generations, artifact, pointer>>
    BY <1>3 DEF WriteTemporary, disk
  <2>2. /\ work'[h].number = work[h].number /\ work'[h].body = work[h].body
        /\ work'[h].files = work[h].files /\ work'[h].temporary = "written"
    BY <1>0, <1>3 DEF WriteTemporary, Work
  <2>3. AtRest' = AtRest /\ Pending' = Pending /\ Known' = Known
    BY <2>1 DEF AtRest, Pending, Known, Exists
  <2>4. DraftAt(h)'
    BY <1>0, <2>1, <2>2, <2>3 DEF CallAt, DraftAt, Unlinked, Writing
  <2>5. PublicationAt(h)'
    BY <1>0, <2>1, <2>2, <2>3 DEF CallAt, PublicationAt, Completing, Linked, Writing
  <2>6. QED
    BY <1>0, <2>1, <2>2, <2>4, <2>5 DEF CallAt, Writing
<1>4. QED
  BY <1>1, <1>2, <1>3

LEMMA WritingCalls ==
    ASSUME TypeOK, TypeOK', Locking, Stored, Memory, Files, Calls, NEW h \in Handle, Acting(h),
           LinkJournal(h) \/ LinkFile(h) \/ LinkGeneration(h) \/ SwingPointer(h)
    PROVE  CallAt(h)'
<1>0. pc \in [Handle -> PC] /\ work \in [Handle -> Work] /\ mem \in [Handle -> Mem] /\ CallAt(h)
      /\ work[h] \in Work
  BY LocalType DEF Calls
<1>1. ASSUME NEW what \in Writing, Linking(h, what)
      PROVE  /\ pc[h] = what /\ pc'[h] = what /\ work[h].temporary = "written"
             /\ work'[h].number = work[h].number /\ work'[h].body = work[h].body
             /\ work'[h].files = work[h].files /\ work'[h].temporary = "linked"
  BY <1>0, <1>1 DEF Linking, Work
<1>2. CASE LinkJournal(h)
  <2>1. /\ pc'[h] = "journal" /\ work'[h].temporary = "linked"
        /\ work'[h].number = work[h].number /\ work'[h].body = work[h].body
        /\ work'[h].files = work[h].files
    BY <1>1, <1>2 DEF LinkJournal, Writing
  <2>2. Len(journal') = Len(journal) + 1 /\ Pending'.body = work[h].body
        /\ Pending'.files = work[h].files
    BY <1>2, JournalGrows
  <2>3. work[h].number = Len(journal) + 1 /\ Len(journal) \in Nat
    BY <1>2, WriterFinds, Lengths
  <2>4. PublicationAt(h)'
    BY <2>1, <2>2, <2>3 DEF PublicationAt, Linked
  <2>5. QED
    BY <2>1, <2>4 DEF CallAt, DraftAt, Unlinked, Writing
<1>3. CASE LinkFile(h)
  <2> DEFINE f == Head(work[h].files)
  <2>1. /\ pc[h] = "files" /\ pc'[h] = "files" /\ work'[h].temporary = "linked"
        /\ work'[h].number = work[h].number /\ work'[h].body = work[h].body
        /\ work'[h].files = work[h].files
    BY <1>1, <1>3 DEF LinkFile, Writing
  <2>2. work[h].files # <<>> /\ work[h].number > 0 /\ work[h].number \in Nat
        /\ work[h].files \in Seq(Path)
    BY <1>0, <1>3, WriterFinds DEF Work
  <2>3. f \in Path
    BY <2>2, HeadTailProperties
  <2>4. journal' = journal /\ artifact' = [artifact EXCEPT ![f] = work[h].number]
        /\ artifact \in [Path -> Nat]
    BY <1>3 DEF LinkFile, TypeOK
  <2>5. PublicationAt(h)
    BY <1>0 DEF CallAt
  <2> HIDE DEF f
  <2>6. Known' = Known \cup {f} /\ Pending' = Pending
    BY <2>2, <2>3, <2>4 DEF Known, Exists, Pending
  <2>7. PublicationAt(h)'
    BY <2>1, <2>4, <2>5, <2>6 DEF PublicationAt, Completing, Linked, f
  <2>8. QED
    BY <2>1, <2>7 DEF CallAt, DraftAt, Unlinked, Writing
<1>4. CASE LinkGeneration(h)
  <2>1. /\ pc[h] = "generation" /\ pc'[h] = "generation" /\ work'[h].temporary = "linked"
        /\ work'[h].number = work[h].number /\ work'[h].body = work[h].body
        /\ work'[h].files = work[h].files
    BY <1>1, <1>4 DEF LinkGeneration, Writing
  <2>2. journal' = journal /\ artifact' = artifact
    BY <1>4 DEF LinkGeneration
  <2>3. Known' = Known /\ Pending' = Pending
    BY <2>2 DEF Known, Exists, Pending
  <2>4. Len(generations') = Len(journal)
    BY <1>4, GenerationsGrow
  <2>5. PublicationAt(h)
    BY <1>0 DEF CallAt
  <2>6. PublicationAt(h)'
    BY <2>1, <2>2, <2>3, <2>4, <2>5 DEF PublicationAt, Completing, Linked
  <2>7. QED
    BY <2>1, <2>6 DEF CallAt, DraftAt, Unlinked, Writing
<1>5. CASE SwingPointer(h)
  <2>1. /\ pc[h] = "pointer" /\ pc'[h] \in {"load", "finish"} /\ work' = work
    BY <1>0, <1>5 DEF SwingPointer, Step, Goto
  <2>2. journal' = journal /\ artifact' = artifact /\ generations' = generations
        /\ pointer' = work[h].number
    BY <1>5 DEF SwingPointer
  <2>3. Known' = Known /\ Pending' = Pending
    BY <2>2 DEF Known, Exists, Pending
  <2>4. work[h].number = Len(journal)
    BY <1>5, WriterFinds
  <2>5. PublicationAt(h) /\ work[h].temporary = "none"
    BY <1>0, <2>1 DEF CallAt, Work, Writing
  <2>6. PublicationAt(h)'
    BY <2>1, <2>2, <2>3, <2>4, <2>5 DEF PublicationAt, Completing, Linked
  <2>7. QED
    BY <2>1, <2>2, <2>4, <2>5, <2>6 DEF CallAt, DraftAt, Unlinked, Writing
<1>6. QED
  BY <1>2, <1>3, <1>4, <1>5

LEMMA UnlinkingCalls ==
    ASSUME TypeOK, Calls, NEW h \in Handle, UnlinkTemporary(h)
    PROVE  CallAt(h)'
<1>0. pc \in [Handle -> PC] /\ work \in [Handle -> Work] /\ CallAt(h) /\ work[h] \in Work
      /\ work[h].files \in Seq(Path)
  BY LocalType DEF Calls, Work
<1>1. /\ pc'[h] = After(h) /\ work'[h].temporary = "none" /\ work'[h].number = work[h].number
      /\ work'[h].body = work[h].body
      /\ work'[h].files = IF pc[h] = "files" THEN Tail(work[h].files) ELSE work[h].files
  BY <1>0 DEF UnlinkTemporary, Goto, Work
<1>2. UNCHANGED <<journal, generations, artifact, pointer>> /\ Known' = Known /\ Pending' = Pending
  BY DEF UnlinkTemporary, disk, Known, Exists, Pending
<1>3. PublicationAt(h) /\ pc[h] \in Writing /\ work[h].temporary = "linked"
  BY <1>0 DEF UnlinkTemporary, CallAt
<1>4. Completing(h)
  BY <1>3 DEF Completing, Linked, Writing
<1>5. CASE pc[h] = "journal"
  <2>1. pc'[h] = IF work[h].files = <<>> THEN "generation" ELSE "files"
    BY <1>1, <1>5 DEF After
  <2>2. work[h].files = <<>> => Elements(work[h].files) \subseteq Known
    BY DEF Elements
  <2>3. work'[h].files = work[h].files /\ work[h].files = Pending.files
    BY <1>1, <1>3, <1>4, <1>5 DEF PublicationAt
  <2>4. PublicationAt(h)'
    BY <1>1, <1>2, <1>3, <1>4, <1>5, <2>1, <2>2, <2>3 DEF PublicationAt, Completing, Linked
  <2>5. QED
    BY <1>1, <2>1, <2>4 DEF CallAt, DraftAt, Unlinked
<1>6. CASE pc[h] = "files"
  <2>1. pc'[h] = IF Len(work[h].files) > 1 THEN "files" ELSE "generation"
    BY <1>1, <1>6 DEF After
  <2>2. /\ work[h].files # <<>> /\ Head(work[h].files) \in Known
        /\ Elements(work[h].files) \subseteq Elements(Pending.files)
        /\ Elements(Pending.files) \subseteq Known \cup Elements(work[h].files)
        /\ work[h].number = Len(journal) /\ work[h].number > 0 /\ work[h].body = Pending.body
    BY <1>3, <1>4, <1>6 DEF PublicationAt, Linked
  <2>3. /\ Elements(work[h].files) = {Head(work[h].files)} \cup Elements(Tail(work[h].files))
        /\ Len(work[h].files) > 1 <=> Tail(work[h].files) # <<>>
        /\ Len(work[h].files) <= 1 => Elements(Tail(work[h].files)) = {}
        /\ Len(work[h].files) \in Nat
    BY <1>0, <2>2, HeadAndTail
  <2>4. work'[h].files = Tail(work[h].files)
    BY <1>1, <1>6
  <2>5. PublicationAt(h)'
    BY <1>1, <1>2, <2>1, <2>2, <2>3, <2>4 DEF PublicationAt, Completing, Linked
  <2>6. QED
    BY <1>1, <2>1, <2>5 DEF CallAt, DraftAt, Unlinked
<1>7. CASE pc[h] = "generation"
  <2>1. pc'[h] = "pointer"
    BY <1>1, <1>7 DEF After
  <2>2. PublicationAt(h)'
    BY <1>1, <1>2, <1>3, <1>4, <1>7, <2>1 DEF PublicationAt, Completing, Linked
  <2>3. QED
    BY <1>1, <2>1, <2>2 DEF CallAt, DraftAt, Unlinked
<1>8. QED
  BY <1>3, <1>5, <1>6, <1>7 DEF Writing

LEMMA StepCalls ==
    ASSUME TypeOK, TypeOK', Locking, Locking', Stored, Memory, Histories, Files, Calls,
           NEW h \in Handle, Acting(h)
    PROVE  Calls'
<1>1. Frame(h) /\ (Enters(h) \/ Leaves(h) \/ Stays(h) \/ Vanishes(h))
  BY StepKind
<1>2. SUFFICES ASSUME NEW g \in Handle PROVE CallAt(g)'
  BY DEF Calls
<1>3. CASE g # h
  <2>1. pc'[g] = pc[g] /\ work'[g] = work[g] /\ mem'[g] = mem[g] /\ CallAt(g)
    BY <1>1, <1>3 DEF Frame, Calls
  <2>2. CASE Vanishes(h)
    BY <2>1, <2>2, SameCall DEF Vanishes
  <2>3. CASE ~Vanishes(h)
    <3>1. pc[g] \notin Inside
      BY <1>1, <1>3, <2>3, NoneIsNoHandle DEF Enters, Leaves, Stays, Locking
    <3>2. work[g].temporary = "none"
      BY <2>1, <3>1 DEF CallAt, Inside
    <3>3. QED
      BY <2>1, <3>1, <3>2 DEF CallAt, DraftAt, PublicationAt, Completing, Linked, Unlinked,
         Inside, Writing
  <2>4. QED
    BY <2>2, <2>3
<1>4. CASE g = h
  <2>1. CASE Leaves(h) \/ Vanishes(h)
    <3>1. pc'[h] \in {"open", "closed"} /\ work'[h].temporary = "none"
      BY <2>1 DEF Leaves, Vanishes, NoWork
    <3>2. QED
      BY <1>4, <3>1 DEF CallAt, DraftAt, PublicationAt, Completing, Linked, Unlinked, Writing
  <2>2. CASE Enters(h)
    BY <1>4, <2>2, BeginningCalls DEF Enters
  <2>3. CASE Stays(h)
    <3>1. ~(Open(h) \/ Initialize(h) \/ Operate(h) \/ Conclude(h) \/ LoadOpened(h) \/ Return(h)
            \/ Finish(h) \/ Refuse(h) \/ Throw(h) \/ Die(h))
      BY <2>3, NoneIsNoHandle DEF Stays, Open, Initialize, Operate, Conclude, Claim, LoadOpened,
         Return, Finish, Refuse, Throw, Die, BackOut, Release, Busy
    <3>2. QED
      BY <1>4, <3>1, BeginningCalls, DraftingCalls, WritingCalls, UnlinkingCalls
         DEF Acting, Write
  <2>4. QED
    BY <1>1, <2>1, <2>2, <2>3
<1>5. QED
  BY <1>3, <1>4

-----------------------------------------------------------------------------
(* The theorems *)

LEMMA StepInv ==
    ASSUME IInv, Next
    PROVE  IInv'
<1>1. PICK h \in Handle : Acting(h)
  BY Acts
<1>2. TypeOK'
  <2>1. CASE Publishes(h)
    <3>1. PICK t, files : Publish(h, t, files) /\ Follows(mem[h].state, t, files)
      BY <2>1 DEF Publishes
    <3>2. QED
      BY <3>1, PublishType DEF Follows, IInv
  <2>2. CASE ~Publishes(h)
    BY <1>1, <2>2, StepType DEF Acting, IInv
  <2>3. QED
    BY <2>1, <2>2
<1>3. Locking'
  BY <1>1, StepLocking DEF IInv
<1>4. Stored' /\ Memory' /\ Histories' /\ Files'
  BY <1>1, <1>2, StepStored, StepMemory, StepHistories, StepFiles DEF IInv
<1>5. Calls'
  BY <1>1, <1>2, <1>3, StepCalls DEF IInv
<1>6. QED
  BY <1>2, <1>3, <1>4, <1>5 DEF IInv

\* The inductive invariant holds in every reachable state.
THEOREM Invariant == Spec => []IInv
<1>1. ASSUME IInv, UNCHANGED vars PROVE IInv'
  <2>1. TypeOK' /\ Locking' /\ Stored' /\ Memory'
    BY <1>1 DEF IInv, vars, disk, local, TypeOK, Locking, Stored, Memory
  <2>2. Histories' /\ Files'
    BY <1>1 DEF IInv, vars, disk, local, Histories, Files, Known, Exists, Pending
  <2>3. Calls'
    BY <1>1, SameCall DEF IInv, vars, disk, local, Calls, Quiet
  <2>4. QED
    BY <2>1, <2>2, <2>3 DEF IInv
<1>2. Init => IInv
  BY InitInv
<1>3. QED
  BY <1>1, <1>2, StepInv, PTL DEF Spec

\* Every variable keeps its type: in particular a handle works only on states,
\* and only on files, that the archive has.
THEOREM TypeCorrect == Spec => []TypeOK
<1>1. IInv => TypeOK
  BY DEF IInv
<1>2. QED
  BY <1>1, Invariant, PTL

\* A handle at rest knows a state that was published, whole, wherever other
\* processes were cut off and whatever failed.
THEOREM HandlesAreHonest == Spec => []HandlesHonest
<1>1. ASSUME IInv PROVE HandlesHonest
  <2>1. \A h \in Handle : mem[h].head \in Nat
    BY <1>1, LocalType DEF IInv, Mem
  <2>2. QED
    BY <1>1, <2>1, Lengths DEF HandlesHonest, IInv, Memory
<1>2. QED
  BY <1>1, Invariant, PTL

\* Only the last attempt of a key is anything but a failure to be retried, so
\* that the intents, the executions and the attempts tell the same story.
LEMMA OneOutcome ==
    ASSUME NEW s \in State, Lineage(s)
    PROVE  LineageConsistent(s)
<1>1. SUFFICES ASSUME NEW k \in Key
      PROVE  LET runs == s.runs[k]
                 with(states) == {i \in 1..Len(runs) : Now(runs[i]) \in states}
             IN  /\ s.intents[k] = "SUCCEEDED" <=> k \in s.executions
                 /\ k \in s.executions <=> with({"SUCCEEDED"}) # {}
                 /\ runs # <<>> => s.intents[k] # None
                 /\ Cardinality(with(Active)) <= 1
                 /\ Cardinality(with({"SUCCEEDED"})) <= 1
                 /\ \A i \in 1..Len(runs) : runs[i].failure <=> i \in with(Failed)
  BY DEF LineageConsistent
<1> DEFINE runs == s.runs[k]
           with(states) == {i \in 1..Len(runs) : Now(runs[i]) \in states}
<1>2. KeyLineage(s, k) /\ runs \in Seq(Attempt) /\ Len(runs) \in Nat
  BY StateType DEF Lineage
<1>3. /\ k \in s.executions <=> s.intents[k] = "SUCCEEDED"
      /\ \A i \in 1..Len(runs) : /\ runs[i].failure <=> Now(runs[i]) \in Failed
                                 /\ i < Len(runs) => Now(runs[i]) \in Failed
      /\ runs = <<>> => s.intents[k] \in {None, "PENDING"}
      /\ runs # <<>> =>
            \/ Now(Last(runs)) = "RUNNING" /\ s.intents[k] \in {"RUNNING", "RECOVERING"}
            \/ Now(Last(runs)) \in Failed \cup {"SUCCEEDED"} /\ s.intents[k] = Now(Last(runs))
  BY <1>2 DEF KeyLineage
<1>4. runs # <<>> => Len(runs) \in 1..Len(runs) /\ Last(runs) = runs[Len(runs)]
  BY <1>2, LastType
<1>5. runs = <<>> => Len(runs) = 0
  OBVIOUS
<1> HIDE DEF runs
<1>6. ASSUME NEW states, states \cap Failed = {} PROVE with(states) \subseteq {Len(runs)}
  BY <1>2, <1>3, <1>6
<1>7. ASSUME NEW states, states \cap Failed = {} PROVE Cardinality(with(states)) <= 1
  <2> DEFINE found == with(states)
  <2>1. found = {} \/ found = {Len(runs)}
    BY <1>6, <1>7
  <2>2. Cardinality({}) = 0 /\ Cardinality({Len(runs)}) = 1
    BY FS_EmptySet, FS_Singleton
  <2> HIDE DEF found
  <2>3. Cardinality(found) <= 1
    <3>1. CASE found = {}
      BY <2>2, <3>1
    <3>2. CASE found = {Len(runs)}
      BY <2>2, <3>2
    <3>3. QED
      BY <2>1, <3>1, <3>2
  <2>4. QED
    BY <2>3 DEF found
<1>8. Cardinality(with(Active)) <= 1 /\ Cardinality(with({"SUCCEEDED"})) <= 1
  <2>1. Active \cap Failed = {} /\ {"SUCCEEDED"} \cap Failed = {}
    BY DEF Active, Failed
  <2>2. QED
    BY <2>1, <1>7
<1>9. k \in s.executions <=> with({"SUCCEEDED"}) # {}
  <2>1. ASSUME k \in s.executions PROVE with({"SUCCEEDED"}) # {}
    <3>1. s.intents[k] = "SUCCEEDED"
      BY <2>1, <1>3
    <3>2. runs # <<>>
      BY <3>1, <1>3, NoneIsNoState DEF ExecutionState
    <3>3. Now(runs[Len(runs)]) = "SUCCEEDED"
      BY <3>1, <3>2, <1>3, <1>4
    <3>4. Len(runs) \in with({"SUCCEEDED"})
      BY <3>2, <3>3, <1>4
    <3>5. QED
      BY <3>4
  <2>2. ASSUME NEW i \in with({"SUCCEEDED"}) PROVE k \in s.executions
    <3>1. i = Len(runs) /\ i \in 1..Len(runs) /\ Now(runs[i]) = "SUCCEEDED"
      BY <2>2, <1>6 DEF Failed
    <3>2. runs # <<>>
      BY <3>1, <1>5
    <3>3. Now(Last(runs)) = "SUCCEEDED"
      BY <3>1, <3>2, <1>4
    <3>4. QED
      BY <3>2, <3>3, <1>3
  <2>3. QED
    BY <2>1, <2>2
<1>10. runs # <<>> => s.intents[k] # None
  BY <1>3, NoneIsNoState DEF ExecutionState, Active, Failed
<1>11. \A i \in 1..Len(runs) : runs[i].failure <=> i \in with(Failed)
  BY <1>3
<1>12. QED
  BY <1>3, <1>8, <1>9, <1>10, <1>11 DEF runs

\* The directory of a file tells which part of the state refers to it.
LEMMA FilesByDirectory ==
    ASSUME NEW s, FilesOf(s) = Known
    PROVE  /\ FilesIn({"evidence"}) = EvidenceOf(s)
           /\ FilesIn({"quarantine"}) = QuarantineOf(s)
           /\ FilesIn({"execution-attempts"}) = RecordsOf(s)
           /\ FilesIn(InAttempts) = AttemptsOf(s)
           /\ FilesIn({"candidates"}) = CandidatesOf(s)
           /\ FilesIn(ResultPair) = ResultOf(s)
<1>1. \A dirs : FilesIn(dirs) = {f \in FilesOf(s) : f.dir \in dirs}
  BY DEF FilesIn, Known
<1>2. /\ \A f \in EvidenceOf(s) : f.dir = "evidence"
      /\ \A f \in QuarantineOf(s) : f.dir = "quarantine"
      /\ \A f \in CandidatesOf(s) : f.dir = "candidates"
  BY DEF EvidenceOf, QuarantineOf, CandidatesOf, File
<1>3. \A f \in RecordsOf(s) : f.dir = "execution-attempts"
  BY DEF RecordsOf, File
<1>4. \A f \in AttemptsOf(s) : f.dir \in InAttempts
  <2>1. \A k : \A f \in Elements(AttemptFiles(k)) : f.dir \in InAttempts
    BY DEF Elements, AttemptFiles, File, InAttempts
  <2>2. QED
    BY <2>1 DEF AttemptsOf
<1>5. \A f \in ResultOf(s) : f.dir \in ResultPair
  BY DEF ResultOf, Elements, ResultFiles, File, ResultPair
<1>6. InAttempts = {"canonical-evidence", "metrics", "manifest"}
      /\ ResultPair = {"CALIBRATION_RESULT", "PILOT_0_WORLD_CONFIGURATION"}
  BY DEF InAttempts, ResultPair
<1>7. FilesOf(s) = EvidenceOf(s) \cup QuarantineOf(s) \cup RecordsOf(s)
                    \cup AttemptsOf(s) \cup CandidatesOf(s) \cup ResultOf(s)
  BY DEF FilesOf
<1>8. FilesIn({"evidence"}) = EvidenceOf(s) /\ FilesIn({"quarantine"}) = QuarantineOf(s)
      /\ FilesIn({"candidates"}) = CandidatesOf(s)
  BY <1>1, <1>2, <1>3, <1>4, <1>5, <1>6, <1>7
<1>9. FilesIn({"execution-attempts"}) = RecordsOf(s)
  BY <1>1, <1>2, <1>3, <1>4, <1>5, <1>6, <1>7
<1>10. FilesIn(InAttempts) = AttemptsOf(s)
  BY <1>1, <1>2, <1>3, <1>4, <1>5, <1>6, <1>7
<1>11. FilesIn(ResultPair) = ResultOf(s)
  BY <1>1, <1>2, <1>3, <1>4, <1>5, <1>6, <1>7
<1>12. QED
  BY <1>8, <1>9, <1>10, <1>11

LEMMA FilesAreThere ==
    ASSUME NEW s \in State, Lineage(s), FilesOf(s) = Known
    PROVE  FilesMatch(s)
<1>1. s.status = "COMPLETE" <=> s.result
  BY DEF Lineage, Settled
<1>2. QED
  BY <1>1, FilesByDirectory
     DEF FilesMatch, EvidenceOf, QuarantineOf, RecordsOf, AttemptsOf, CandidatesOf, ResultOf, Failures

\* Wherever a publication was cut off, the next holder of the lock can complete
\* it, and then finds an archive that passes the checks of opening it.
THEOREM Recovers == Spec => []RecoveryAccepted
<1>1. ASSUME IInv PROVE RecoveryAccepted
  <2>0. Len(journal) \in Nat /\ Len(generations) \in Nat /\ pointer \in Nat
    BY <1>1, Lengths DEF IInv
  <2>1. SUFFICES ASSUME NEW h \in Handle
        PROVE  /\ pc[h] = "recover" => journal = <<>> \/ pointer = Len(journal) \/ Recoverable
               /\ pc[h] = "load" /\ journal # <<>> => HistoryValid /\ Whole
    BY DEF RecoveryAccepted
  <2>2. pc[h] = "recover" => journal = <<>> \/ pointer = Len(journal) \/ Recoverable
    BY <1>1, <2>0 DEF IInv, Stored, Recoverable
  <2>3. ASSUME pc[h] = "load", journal # <<>> PROVE HistoryValid /\ Whole
    <3>1. pointer = Len(journal) /\ Len(journal) > 0
      BY <1>1, <2>3, PendingType DEF IInv, Calls, CallAt
    <3>2. Len(generations) = Len(journal)
      BY <1>1, <2>0, <3>1 DEF IInv, Stored
    <3>3. \A i \in 1..Len(generations) : generations[i] = journal[i].body
      BY <1>1 DEF IInv, Stored
    <3>4. \A i \in 1..(Len(generations) - 1) : Retains(generations[i], generations[i + 1])
      BY <1>1, <2>0, <3>2, <3>3 DEF IInv, Histories
    <3>5. generations # <<>>
      BY <3>1, <3>2
    <3>6. HistoryValid
      BY <3>1, <3>2, <3>4, <3>5 DEF HistoryValid
    <3>7. Newest.state = Pending.body /\ Pending.body \in State /\ Lineage(Pending.body)
      BY <1>1, <2>0, <2>3, <3>1, <3>2, <3>3, <3>6, NewestType, PendingType DEF IInv, Histories
    <3>8. FilesOf(Pending.body) = Known
      BY <1>1, <2>3, <3>2 DEF IInv, Files
    <3>9. QED
      BY <3>6, <3>7, <3>8, OneOutcome, FilesAreThere DEF Whole
  <2>4. QED
    BY <2>2, <2>3
<1>2. QED
  BY <1>1, Invariant, PTL

-----------------------------------------------------------------------------
(* The archive implements CampaignLog: a publication counts from its journal. *)

LEMMA BodiesType ==
    ASSUME NEW j \in Seq(Transaction), NEW b, b = [i \in 1..Len(j) |-> j[i].body]
    PROVE  /\ b \in Seq(State) /\ Len(b) = Len(j) /\ Len(j) \in Nat
           /\ \A i \in 1..Len(j) : b[i] = j[i].body
<1>1. \A i \in 1..Len(j) : j[i] \in Transaction
  OBVIOUS
<1>2. \A i \in 1..Len(j) : j[i].body \in State
  BY <1>1 DEF Transaction
<1>3. b \in [1..Len(j) -> State]
  BY <1>2
<1>4. QED
  BY <1>3

\* Linking the journal adds the state, for a handle that has seen all others.
LEMMA LinkingAdds ==
    ASSUME IInv, TypeOK', NEW h \in Handle, LinkJournal(h)
    PROVE  Log!Add(h)
<1>1. /\ bodies \in Seq(State) /\ Len(bodies) = Len(journal) /\ Len(journal) \in Nat
      /\ \A i \in 1..Len(journal) : bodies[i] = journal[i].body
  BY BodiesType DEF IInv, TypeOK, bodies
<1>2. /\ bodies' \in Seq(State) /\ Len(bodies') = Len(journal')
      /\ \A i \in 1..Len(journal') : bodies'[i] = journal'[i].body
  BY BodiesType DEF TypeOK, bodies
<1>3. /\ Len(journal') = Len(journal) + 1
      /\ \A i \in 1..Len(journal) : journal'[i] = journal[i]
      /\ journal'[Len(journal')].body = work[h].body
  BY JournalGrows DEF IInv
<1>4. Len(journal) = mem[h].head /\ mem[h].head \in Nat
      /\ (mem[h].head > 0 => Follows(Pending.body, work[h].body, work[h].files) /\ journal # <<>>)
  BY WriterFinds, LocalType DEF IInv, Mem
<1>5. heads' = heads /\ heads[h] = Len(bodies)
  BY <1>1, <1>4 DEF heads, LinkJournal, Linking
<1>6. bodies = SubSeq(bodies', 1, Len(bodies))
  <2>1. SubSeq(bodies', 1, Len(bodies)) \in Seq(State)
        /\ Len(SubSeq(bodies', 1, Len(bodies))) = Len(bodies)
        /\ \A i \in 1..Len(bodies) : SubSeq(bodies', 1, Len(bodies))[i] = bodies'[i]
    BY <1>1, <1>2, <1>3, SubSeqProperties
  <2>2. \A i \in 1..Len(bodies) : bodies'[i] = bodies[i]
    BY <1>1, <1>2, <1>3
  <2>3. QED
    BY <1>1, <2>1, <2>2, SeqEqual
<1>7. bodies # <<>> => Retains(bodies[Len(bodies)], bodies'[Len(bodies')])
  <2>1. SUFFICES ASSUME bodies # <<>> PROVE Retains(bodies[Len(bodies)], bodies'[Len(bodies')])
    OBVIOUS
  <2>2. Len(bodies) > 0
    BY <1>1, <2>1, EmptySeq
  <2>3. bodies[Len(bodies)] = Pending.body
    BY <1>1, <1>4, <2>2, PendingType DEF IInv
  <2>4. bodies'[Len(bodies')] = work[h].body
    BY <1>1, <1>2, <1>3
  <2>5. QED
    BY <1>1, <1>4, <2>2, <2>3, <2>4 DEF Follows
<1>8. QED
  BY <1>1, <1>2, <1>3, <1>5, <1>6, <1>7 DEF Log!Add

THEOREM Implements == Spec => ImplementsLog
<1>1. Init => Log!Init
  BY DEF Init, Log!Init, bodies, heads, NoMemory
<1>2. ASSUME IInv, TypeOK', Next PROVE Log!Next \/ UNCHANGED Log!vars
  <2>1. PICK h \in Handle : Acting(h)
    BY <1>2, Acts
  <2>2. mem \in [Handle -> Mem] /\ Len(bodies) = Len(journal)
    <3>1. mem \in [Handle -> Mem] /\ journal \in Seq(Transaction)
      BY <1>2, LocalType DEF IInv, TypeOK
    <3>2. QED
      BY <3>1, BodiesType DEF bodies
  <2>3. CASE LinkJournal(h)
    BY <1>2, <2>3, LinkingAdds DEF Log!Next
  <2>4. ASSUME NEW m, mem' = [mem EXCEPT ![h] = m], journal' = journal, m.head = Len(journal)
        PROVE  Log!See(h)
    BY <2>2, <2>4 DEF Log!See, bodies, heads
  <2>5. CASE LoadOpened(h) \/ LoadForWork(h)
    <3>1. HistoryValid /\ pc[h] = "load" /\ journal' = journal /\ mem' = [mem EXCEPT ![h] = Newest]
      BY <2>5 DEF LoadOpened, LoadForWork, Step, disk
    <3>2. Newest.head = Len(generations) /\ Len(generations) > 0 /\ pointer = Len(generations)
      BY <1>2, <3>1, NewestType DEF HistoryValid, IInv
    <3>3. journal = <<>> \/ pointer = Len(journal)
      BY <1>2, <3>1 DEF IInv, Calls, CallAt
    <3>4. journal = <<>> => Len(journal) = 0
      OBVIOUS
    <3>5. Len(generations) = Len(journal)
      BY <1>2, <3>2, <3>3, <3>4, Lengths DEF IInv, Stored
    <3>6. QED
      BY <2>4, <3>1, <3>2, <3>5 DEF Log!Next
  <2>6. CASE Finish(h)
    <3>1. work[h].number = Len(journal)
      BY <1>2, <2>6, FinishFinds DEF IInv, Finish, AtRest
    <3>2. QED
      BY <2>4, <2>6, <3>1 DEF Finish, disk, Log!Next
  <2>7. CASE Die(h)
    <3>1. Log!Forget(h)
      BY <2>2, <2>7 DEF Die, Log!Forget, bodies, heads, NoMemory
    <3>2. QED
      BY <3>1 DEF Log!Next
  <2>8. CASE ~(LinkJournal(h) \/ LoadOpened(h) \/ LoadForWork(h) \/ Finish(h) \/ Die(h))
    <3>1. journal' = journal /\ mem' = mem
      BY <2>1, <2>8 DEF Acting, Write, disk, Open, Initialize, Operate, Conclude, Claim,
         NothingToRecover, Recover, Create, Return, Publishes, Publish, WriteTemporary,
         LinkFile, LinkGeneration, Linking, UnlinkTemporary, SwingPointer, Refuse, Throw
    <3>2. QED
      BY <3>1 DEF Log!vars, bodies, heads
  <2>9. QED
    BY <2>3, <2>5, <2>6, <2>7, <2>8
<1>3. UNCHANGED vars => UNCHANGED Log!vars
  BY DEF vars, disk, local, Log!vars, bodies, heads
<1>4. QED
  BY <1>1, <1>2, <1>3, Invariant, TypeCorrect, PTL DEF Spec, ImplementsLog, Log!Spec
=============================================================================
