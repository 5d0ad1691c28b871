------------------------ MODULE CalibrationRunnerProofs ------------------------
(* The safety invariants of CalibrationRunner, for any landscapes, any size   *)
(* of the search and of the panel of seeds, and any number of faults.         *)
EXTENDS CalibrationRunner, WellFoundedInduction, TLAPS

-----------------------------------------------------------------------------
(* Induction over the natural numbers in a form without operator parameters: *)
(* what is true of a number is membership in a set, so the provers can       *)
(* instantiate it.  And the functions that are defined by recursion.        *)

\* A set of natural numbers has a least element.
LEMMA Least ==
    ASSUME NEW S \in SUBSET Nat, S # {}
    PROVE  \E n \in S : \A m \in S : n <= m
<1>1. PICK R : /\ \A n, m \in Nat : <<m, n>> \in R <=> m < n
               /\ IsWellFoundedOn(R, Nat)
  <2>1. \A n, m \in Nat : <<m, n>> \in OpToRel(<, Nat) <=> m < n
    BY DEF OpToRel
  <2>2. QED
    BY <2>1, NatLessThanWellFounded
<1>2. PICK n \in S : \A m \in S : <<m, n>> \notin R
  BY <1>1, WFMin
<1>3. n \in Nat /\ \A m \in S : m \in Nat /\ ~(m < n)
  BY <1>1, <1>2
<1>4. QED
  BY <1>2, <1>3

\* A set that has 0 and with every number the next has all of them.
LEMMA InductionOver ==
    ASSUME NEW S, 0 \in S, \A n \in Nat : n \in S => n + 1 \in S
    PROVE  Nat \subseteq S
<1> SUFFICES ASSUME Nat \ S # {} PROVE FALSE
  OBVIOUS
<1>1. PICK n \in Nat \ S : \A m \in Nat \ S : n <= m
  BY Least
<1>2. n - 1 \in Nat /\ n - 1 \in S
  BY <1>1
<1>3. QED
  BY <1>1, <1>2

\* The same for the numbers up to a bound.
LEMMA InductionUpTo ==
    ASSUME NEW S, NEW m \in Nat, 0 \in S, \A n \in 0..(m - 1) : n \in S => n + 1 \in S
    PROVE  0..m \subseteq S
<1> DEFINE T == {n \in Nat : n <= m => n \in S}
<1>1. 0 \in T
  OBVIOUS
<1>2. ASSUME NEW n \in Nat, n \in T PROVE n + 1 \in T
  <2>1. SUFFICES ASSUME n + 1 <= m PROVE n + 1 \in S
    OBVIOUS
  <2>2. n \in 0..(m - 1) /\ n \in S
    BY <1>2, <2>1
  <2>3. QED
    BY <2>2
<1>3. Nat \subseteq T
  <2> HIDE DEF T
  <2>1. QED
    BY <1>1, <1>2, InductionOver
<1>4. QED
  BY <1>3

\* A recursive function exists, if what it is made of stays in a set.
Stays(G, T) == \A n \in Nat, t \in T : G[<<n, t>>] \in T
Iterated(f, G, start, m) == f[0] = start /\ \A n \in 1..m : f[n] = G[<<n, f[n - 1]>>]

LEMMA Iterates ==
    ASSUME NEW T, NEW start \in T, NEW G, Stays(G, T), NEW m \in Nat
    PROVE  \E f \in [0..m -> T] : Iterated(f, G, start, m)
<1> USE DEF Stays, Iterated
<1> DEFINE Is(f, n) == /\ f \in [0..n -> T] /\ f[0] = start
                       /\ \A i \in 1..n : f[i] = G[<<i, f[i - 1]>>]
           S == {n \in Nat : \E f : Is(f, n)}
<1>1. 0 \in S
  <2>1. Is([n \in 0..0 |-> start], 0)
    OBVIOUS
  <2>2. QED
    BY <2>1
<1>2. ASSUME NEW n \in Nat, n \in S PROVE n + 1 \in S
  <2>1. PICK f : Is(f, n)
    BY <1>2
  <2>2. PICK last : last = G[<<n + 1, f[n]>>]
    OBVIOUS
  <2> DEFINE g == [i \in 0..(n + 1) |-> IF i = n + 1 THEN last ELSE f[i]]
  <2>3. f[n] \in T /\ last \in T
    BY <2>1, <2>2
  <2>4. g \in [0..(n + 1) -> T] /\ g[0] = start
    BY <2>1, <2>3
  <2>5. ASSUME NEW i \in 1..(n + 1) PROVE g[i] = G[<<i, g[i - 1]>>]
    <3>1. CASE i = n + 1
      <4>1. g[i] = last /\ g[i - 1] = f[n] /\ i - 1 = n
        BY <3>1
      <4>2. QED
        BY <2>2, <3>1, <4>1
    <3>2. CASE i # n + 1
      <4>1. i \in 1..n /\ g[i] = f[i] /\ g[i - 1] = f[i - 1]
        BY <3>2
      <4>2. QED
        BY <2>1, <4>1
    <3>3. QED
      BY <3>1, <3>2
  <2>6. Is(g, n + 1)
    <3> HIDE DEF g
    <3>1. QED
      BY <2>4, <2>5
  <2>7. QED
    <3> HIDE DEF g, Is
    <3>1. QED
      BY <2>6
<1>3. Nat \subseteq S
  <2> HIDE DEF S
  <2>1. QED
    BY <1>1, <1>2, InductionOver
<1>4. PICK f : Is(f, m)
  BY <1>3
<1>5. QED
  BY <1>4


-----------------------------------------------------------------------------
(* The inductive invariant                                                   *)

Parameters == Vector \cup {None}
Progress == [round : Nat, operation : Nat, candidates : Nat, improved : BOOLEAN]
CandidateRecord ==
    [vector : Vector, parent : Vector, operation : 1..Operations, round : Nat]
Executes == {"intent", "begin", "dispatch", "execute", "await", "evidence"}
Assesses == {"assess", "manifest", "candidate"}
Pc == {"down", "restore", "bind", "round", "operation", "progress", "conclude",
       "quarantine", "failure", "incident"} \cup Executes \cup Assesses

Status == {"NONE", "READY", "RUNNING", "FAILED", "COMPLETE"}
RunState ==
    {"NONE", "RUNNING", "SUCCEEDED", "QUARANTINED", "FAILED_RETRYABLE", "FAILED_TERMINAL"}
Failure == {"NONE", "QUARANTINED", "FAILED_RETRYABLE", "FAILED_TERMINAL", "BREACH"}
ArchiveState ==
    [status : Status, intents : SUBSET Key, run : [Key -> RunState],
     evidence : SUBSET Key, quarantined : SUBSET Key, completed : SUBSET Key,
     candidates : Seq(CandidateRecord), incidents : Nat,
     progress : Progress, incumbent : Parameters, result : Parameters]
RunnerState ==
    [pc : Pc, round : Nat, operation : Nat \ {0}, resume : Progress, index : Nat,
     improved : BOOLEAN, incumbent : Parameters, tried : SUBSET Vector,
     complete : BOOLEAN, vector : Parameters, seed : 1..Seeds, prior : BOOLEAN,
     failure : Failure]

TypeOK ==
    /\ landscape \in Landscapes
    /\ archive \in ArchiveState
    /\ authority \in [Key -> {"ABSENT", "PENDING", "FINALIZED"}]
    /\ sent \in SUBSET Key
    /\ runner \in RunnerState
    /\ runner.pc \in Executes \cup Assesses \cup {"quarantine", "failure"} =>
          runner.vector \in Vector

\* A state that the reconstruction of the records comes to.
Visits(land, records, s) == \E n \in 0..Turns : Walk(land, records)[n] = s

\* The search, at the operation that s comes to next, has found these records.
Follows(land, records, s) ==
    LET start == Rounds(land)[s.round]
        now == Evals(land, start, s.round)[s.operation - 1]
    IN
    /\ s.round \in 0..(MaxRounds - 1) /\ s.operation \in 1..(OperationsIn(s.round) + 1)
    /\ s.cursor = Len(records) /\ s.verdict = "open"
    /\ ~start.over
    /\ now.records = records /\ now.incumbent = s.incumbent /\ ~now.cut
    /\ IF s.improved THEN s.incumbent \notin Vectors(start.records) \cup {None}
       ELSE s.incumbent = start.incumbent

\* What a run walks through: visited and the search's.
OnPath(land, records, s) == Visits(land, records, s) /\ Follows(land, records, s)

\* Where the reconstruction was after its last match, from its end.
Latest(s) ==
    [round |-> s.progress.round, operation |-> s.progress.operation + 1,
     incumbent |-> s.incumbent, improved |-> s.progress.improved,
     cursor |-> s.progress.candidates, progress |-> s.progress, verdict |-> "open"]

Final == Reconstructed(landscape, archive.candidates)
Walked == OnPath(landscape, archive.candidates, Latest(Final))

\* Where the run is: after what it resumes, while it passes over it again.
PlaceAt(records, progress, round, operation, incumbent, improved) ==
    [round |-> round, operation |-> operation, incumbent |-> incumbent,
     improved |-> improved, cursor |-> Len(records), progress |-> progress,
     verdict |-> "open"]
OnPlace(operation, incumbent, improved) ==
    OnPath(landscape, archive.candidates,
           PlaceAt(archive.candidates, Final.progress, runner.round,
                   operation, incumbent, improved))

Resuming ==
    /\ at("bind") => archive.progress = Final.progress
    /\ at("round") =>
         IF runner.round = runner.resume.round
         THEN OnPlace(runner.resume.operation + 1, runner.incumbent, archive.progress.improved)
         ELSE OnPlace(1, runner.incumbent, FALSE)
    /\ at("operation") =>
         OnPlace(IF Resumed THEN runner.resume.operation + 1 ELSE runner.operation,
                 runner.incumbent, runner.improved)
Walking == {"round", "operation"} \cup Executes \cup Assesses
Abreast ==
    /\ runner.pc \in Walking \cup {"progress"} =>
         /\ runner.round >= runner.resume.round
         /\ archive.incumbent = runner.incumbent
    /\ runner.pc \in {"round", "operation"} =>
         /\ runner.index = Len(archive.candidates) /\ runner.tried = Vectors(archive.candidates)
    /\ ~at("conclude") => runner.complete
    /\ ~at("down") => archive.incidents = 0

\* The candidate that is executed and assessed is the next one of the search.
Trying ==
    runner.pc \in Executes \cup Assesses =>
      /\ OnPlace(runner.operation, runner.incumbent, runner.improved)
      /\ ~Resumed /\ OperationLeft /\ Len(archive.candidates) < Bound
      /\ runner.vector = next /\ runner.vector \notin Vectors(archive.candidates)
      /\ runner.index = Len(archive.candidates) + 1
      /\ runner.tried = Vectors(archive.candidates) \cup {runner.vector}
Taken ==
    at("progress") =>
      LET admitted == Admits(landscape, runner.incumbent, runner.vector) IN
      /\ OnPlace(runner.operation + 1,
                 IF admitted THEN runner.vector ELSE runner.incumbent,
                 runner.improved \/ admitted)
      /\ ~Resumed
      /\ runner.vector \in Vector
      /\ runner.index = Len(archive.candidates) /\ runner.tried = Vectors(archive.candidates)

\* The search has nothing left to execute.
Exhausts == Search(landscape).records = archive.candidates
Concludes ==
    at("conclude") =>
      /\ Exhausts
      /\ Search(landscape).cut = ~runner.complete
      /\ runner.complete => Final.verdict = "complete"

\* The archive is what the reconstruction makes of it.
Kept ==
    archive.status = "COMPLETE" \/ runner.pc \notin {"down", "restore", "progress"} =>
      /\ archive.progress.candidates = Len(archive.candidates)
      /\ archive.incumbent = Final.incumbent
Regenerated ==
    /\ archive.completed \subseteq archive.evidence
    /\ \A i \in 1..Len(archive.candidates) : Regenerates(archive, archive.candidates[i])

\* What is announced: candidates, and the next one of the search.
Announced ==
    \A k \in archive.intents : \E i \in 1..Len(Search(landscape).records) :
        i <= Len(archive.candidates) + 1 /\ Search(landscape).records[i].vector = k[1]
Settled ==
    /\ archive.evidence \subseteq archive.intents
    /\ \A k \in archive.evidence : authority[k] = "FINALIZED" /\ archive.run[k] = "SUCCEEDED"
Executing ==
    /\ runner.pc \in (Executes \ {"intent"}) \cup {"quarantine", "failure"} =>
         /\ key \in archive.intents
         /\ ~at("begin") => key \notin archive.evidence
    /\ at("evidence") => authority[key] = "FINALIZED"
    /\ runner.pc \in Executes =>
         \A j \in 1..(runner.seed - 1) : <<runner.vector, j>> \in archive.evidence
    /\ runner.pc \in Assesses =>
         \A j \in 1..Seeds : <<runner.vector, j>> \in archive.evidence
    /\ at("manifest") =>
         /\ \A j \in 1..(runner.seed - 1) : <<runner.vector, j>> \in archive.completed
         /\ runner.vector \notin landscape.discloses
    /\ at("candidate") =>
         /\ \A j \in 1..Seeds : <<runner.vector, j>> \in archive.completed
         /\ runner.vector \notin landscape.discloses

Closed ==
    /\ archive.status = "COMPLETE" => at("down") /\ Exhausts
    /\ archive.status # "COMPLETE" => archive.result = None
    /\ archive.result # None =>
         Final.verdict = "complete" /\ archive.result = Result(archive) /\ archive.result = Outcome
    /\ answer # None => Exhausts /\ answer = Outcome

PathInv == Walked /\ Resuming /\ Abreast /\ Trying /\ Taken /\ Concludes /\ Kept
EvidenceInv == Regenerated /\ Announced /\ Settled /\ Executing /\ Closed
IInv == TypeOK /\ PathInv /\ EvidenceInv

-----------------------------------------------------------------------------
(* Parameter sets and operations                                             *)

LEMMA OperationTyped ==
    ASSUME NEW round \in Nat, NEW i \in 1..OperationsIn(round)
    PROVE  OperationAt(round, i) \in 1..Operations
  BY SearchBounds DEF OperationsIn, OperationAt

LEMMA ApplyTyped ==
    ASSUME NEW land \in Landscapes, NEW v \in Vector, NEW o \in 1..Operations
    PROVE  Apply(land, v, o) \in Vector
<1>1. land.apply \in [Vector \X (2..Operations) -> Vector]
  BY LandscapesTyped
<1>2. CASE o = 1
  BY <1>2 DEF Apply
<1>3. CASE o # 1
  <2>1. <<v, o>> \in Vector \X (2..Operations)
    BY <1>3, SearchBounds
  <2>2. land.apply[<<v, o>>] \in Vector
    BY <1>1, <2>1
  <2>3. QED
    BY <1>3, <2>2 DEF Apply
<1>4. QED
  BY <1>2, <1>3

LEMMA OperationsCount ==
    ASSUME NEW round \in Nat
    PROVE  OperationsIn(round) \in Nat /\ OperationsIn(round) <= Operations
  BY SearchBounds DEF OperationsIn

-----------------------------------------------------------------------------
(* The reconstruction, turn by turn                                          *)

Walker ==
    [round : 0..(MaxRounds - 1), operation : Nat \ {0}, incumbent : Parameters,
     improved : BOOLEAN, cursor : Nat, progress : Progress,
     verdict : {"open", "partial", "complete", "refused"}]

LEMMA BeginTyped == Begin \in Walker
  BY SearchBounds DEF Begin, NoProgress, Walker, Progress, Parameters

LEMMA MatchedTyped ==
    ASSUME NEW land, NEW s \in Walker, NEW v \in Vector
    PROVE  Matched(land, s, v) \in Walker
<1>1. PICK admitted \in BOOLEAN : admitted = Admits(land, s.incumbent, v)
  BY DEF Admits, Better
<1>2. /\ s.operation + 1 \in Nat \ {0} /\ s.cursor + 1 \in Nat
      /\ s.improved \/ admitted \in BOOLEAN
      /\ (IF admitted THEN v ELSE s.incumbent) \in Parameters
      /\ [round |-> s.round, operation |-> s.operation, candidates |-> s.cursor + 1,
          improved |-> s.improved \/ admitted] \in Progress
  BY DEF Walker, Parameters, Progress
<1>3. PICK operation \in Nat \ {0}, cursor \in Nat, improved \in BOOLEAN,
           incumbent \in Parameters, progress \in Progress :
        Matched(land, s, v) =
            [s EXCEPT !.operation = operation, !.cursor = cursor, !.improved = improved,
                      !.incumbent = incumbent, !.progress = progress]
  BY <1>1, <1>2, Zenon DEF Matched
<1>4. QED
  BY <1>3 DEF Walker

LEMMA TurnTyped ==
    ASSUME NEW land \in Landscapes, NEW records, NEW s \in Walker
    PROVE  Turn(land, records, s) \in Walker
<1>1. s.round \in Nat /\ s.operation \in Nat \ {0} /\ Base(s) \in Vector
  BY SearchBounds DEF Walker, Base, Parameters
<1>2. PICK operation : operation = OperationAt(s.round, s.operation)
  OBVIOUS
<1>3. PICK v : v = Apply(land, Base(s), operation)
  OBVIOUS
<1>4. s.operation <= OperationsIn(s.round) => v \in Vector
  BY <1>1, <1>2, <1>3, OperationsCount, OperationTyped, ApplyTyped
<1>5. s.operation <= OperationsIn(s.round) => Matched(land, s, v) \in Walker
  BY <1>4, MatchedTyped
<1>6. RoundEnds(land, records, s) \in Walker
  <2>1. Verdict(s, records) \in {"complete", "refused"}
    BY DEF Verdict
  <2>2. s.round + 1 # MaxRounds => s.round + 1 \in 0..(MaxRounds - 1)
    BY SearchBounds DEF Walker
  <2>3. [s EXCEPT !.verdict = Verdict(s, records)] \in Walker
    BY <2>1 DEF Walker
  <2>4. ASSUME s.round + 1 # MaxRounds
        PROVE  [s EXCEPT !.round = @ + 1, !.operation = 1, !.improved = FALSE] \in Walker
    <3>1. s.round + 1 \in 0..(MaxRounds - 1) /\ 1 \in Nat \ {0}
      BY <2>2, <2>4
    <3>2. QED
      BY <3>1 DEF Walker
  <2>5. QED
    BY <2>3, <2>4 DEF RoundEnds
<1>7. [s EXCEPT !.operation = @ + 1] \in Walker
  BY DEF Walker
<1>8. /\ [s EXCEPT !.verdict = Verdict(s, records)] \in Walker
      /\ [s EXCEPT !.verdict = "partial"] \in Walker
      /\ [s EXCEPT !.verdict = "refused"] \in Walker
  BY DEF Walker, Verdict
<1>9. OperationsIn(s.round) \in Nat
  BY <1>1, OperationsCount
<1>10. \/ Turn(land, records, s) \in {s, RoundEnds(land, records, s)}
       \/ s.operation <= OperationsIn(s.round) /\ Turn(land, records, s) = Matched(land, s, v)
       \/ Turn(land, records, s) \in
            {[s EXCEPT !.operation = @ + 1], [s EXCEPT !.verdict = Verdict(s, records)],
             [s EXCEPT !.verdict = "partial"], [s EXCEPT !.verdict = "refused"]}
  <2>1. s.operation > OperationsIn(s.round) \/ s.operation <= OperationsIn(s.round)
    BY <1>1, <1>9
  <2>2. QED
    BY <1>2, <1>3, <2>1, Zenon DEF Turn
<1>11. QED
  BY <1>5, <1>6, <1>7, <1>8, <1>10

LEMMA TurnsTyped == Turns \in Nat /\ Turns >= 1
<1>1. MaxRounds * (Operations + 1) \in Nat
  BY SearchBounds
<1>2. QED
  BY <1>1 DEF Turns

IsWalk(land, records, f) ==
    f = [n \in 0..Turns |-> IF n = 0 THEN Begin ELSE Turn(land, records, f[n - 1])]

LEMMA Walks ==
    ASSUME NEW land \in Landscapes, NEW records
    PROVE  /\ Walk(land, records) \in [0..Turns -> Walker]
           /\ Walk(land, records)[0] = Begin
           /\ \A n \in 0..(Turns - 1) :
                  Walk(land, records)[n + 1] = Turn(land, records, Walk(land, records)[n])
<1> DEFINE G == [p \in Nat \X Walker |-> Turn(land, records, p[2])]
           w == Walk(land, records)
<1>1. \A n \in Nat, s \in Walker : G[<<n, s>>] = Turn(land, records, s)
  OBVIOUS
<1>2. PICK f \in [0..Turns -> Walker] :
          f[0] = Begin /\ \A n \in 1..Turns : f[n] = G[<<n, f[n - 1]>>]
  <2> HIDE DEF G
  <2>1. Stays(G, Walker)
    BY <1>1, TurnTyped DEF Stays
  <2>2. \E f \in [0..Turns -> Walker] : Iterated(f, G, Begin, Turns)
    BY <2>1, BeginTyped, TurnsTyped, Iterates
  <2>3. QED
    BY <2>2, Zenon DEF Iterated
<1>3. IsWalk(land, records, f)
  <2> HIDE DEF G
  <2>1. \A n \in 0..Turns : f[n] = IF n = 0 THEN Begin ELSE Turn(land, records, f[n - 1])
    <3>1. \A n \in 1..Turns : n \in Nat /\ f[n - 1] \in Walker
      BY TurnsTyped
    <3>2. \A n \in 1..Turns : f[n] = Turn(land, records, f[n - 1])
      BY <1>1, <1>2, <3>1
    <3>3. QED
      BY <1>2, <3>2, TurnsTyped
  <2>2. f = [n \in 0..Turns |-> f[n]]
    OBVIOUS
  <2>3. QED
    BY <2>1, <2>2, Zenon DEF IsWalk
<1>4. \A x : (CHOOSE t \in {Turn(land, records, s) : s \in {x}} : TRUE) = Turn(land, records, x)
  OBVIOUS
<1>5. w = CHOOSE g : IsWalk(land, records, g)
  BY <1>4, Zenon DEF Walk, IsWalk
<1>6. IsWalk(land, records, w)
  <2> HIDE DEF w
  <2>1. QED
    BY <1>3, <1>5
<1> HIDE DEF w
<1>7. w[0] = Begin /\ DOMAIN w = 0..Turns
  BY <1>6, TurnsTyped DEF IsWalk
<1>8. \A n \in 0..(Turns - 1) : w[n + 1] = Turn(land, records, w[n])
  <2>1. \A n \in 0..(Turns - 1) : n + 1 \in 0..Turns /\ n + 1 # 0 /\ (n + 1) - 1 = n
    BY TurnsTyped
  <2>2. \A n \in 0..Turns : n # 0 => w[n] = Turn(land, records, w[n - 1])
    BY <1>6 DEF IsWalk
  <2>3. \A n \in 0..(Turns - 1) : w[n + 1] = Turn(land, records, w[(n + 1) - 1])
    BY <2>1, <2>2
  <2>4. QED
    BY <2>1, <2>3
<1>9. \A n \in 0..Turns : w[n] \in Walker
  <2> DEFINE S == {n \in 0..Turns : w[n] \in Walker}
  <2>1. 0 \in S
    BY <1>7, BeginTyped, TurnsTyped
  <2>2. \A n \in 0..(Turns - 1) : n \in S => n + 1 \in S
    BY <1>8, TurnTyped, TurnsTyped
  <2>3. 0..Turns \subseteq S
    <3> HIDE DEF S
    <3>1. QED
      BY <2>1, <2>2, TurnsTyped, InductionUpTo
  <2>4. QED
    BY <2>3
<1>10. QED
  <2>1. w = [n \in 0..Turns |-> w[n]]
    BY <1>6 DEF IsWalk
  <2>2. QED
    BY <1>7, <1>8, <1>9, <2>1 DEF w

\* What is tried at s next, and whether it was tried before.
Tries(land, s) == Apply(land, Base(s), OperationAt(s.round, s.operation))
Tried(land, records, s) == Tries(land, s) \in {records[i].vector : i \in 1..s.cursor}
Awaits(land, s) == Record(Tries(land, s), Base(s), OperationAt(s.round, s.operation), s.round)
Continues(land, records, s) ==
    /\ \A i \in 1..s.cursor : ~Accepted(land, records[i].vector)
    /\ s.improved /\ s.round + 1 # MaxRounds

Rounding(s) == [s EXCEPT !.round = @ + 1, !.operation = 1, !.improved = FALSE]
Skipping(s) == [s EXCEPT !.operation = @ + 1]

\* A turn after which the reconstruction goes on.
GoesOn(land, records, s, t) ==
    \/ /\ s.operation > OperationsIn(s.round)
       /\ Continues(land, records, s) /\ t = Rounding(s)
    \/ /\ s.operation <= OperationsIn(s.round)
       /\ Tried(land, records, s) /\ t = Skipping(s)
    \/ /\ s.operation <= OperationsIn(s.round)
       /\ ~Tried(land, records, s) /\ s.cursor < Bound
       /\ s.cursor + 1 <= Len(records) /\ records[s.cursor + 1] = Awaits(land, s)
       /\ t = Matched(land, s, Tries(land, s))

LEMMA Compared ==
    ASSUME NEW s \in Walker, NEW records, Len(records) \in Nat
    PROVE  /\ s.operation > OperationsIn(s.round) <=> ~(s.operation <= OperationsIn(s.round))
           /\ s.cursor >= Bound <=> ~(s.cursor < Bound)
           /\ s.cursor + 1 > Len(records) <=> ~(s.cursor + 1 <= Len(records))
<1>1. s.operation \in Nat /\ s.round \in Nat /\ s.cursor \in Nat
  BY SearchBounds DEF Walker
<1>2. OperationsIn(s.round) \in Nat /\ Bound \in Nat
  BY <1>1, OperationsCount, SearchBounds
<1>3. QED
  BY <1>1, <1>2

\* The fields of a state that has matched v.
Matches(s, v, admitted, t) ==
    /\ t.round = s.round /\ t.operation = s.operation + 1
    /\ t.incumbent = IF admitted THEN v ELSE s.incumbent
    /\ t.improved = (s.improved \/ admitted)
    /\ t.cursor = s.cursor + 1 /\ t.verdict = s.verdict
    /\ t.progress = [round |-> s.round, operation |-> s.operation,
                     candidates |-> s.cursor + 1, improved |-> s.improved \/ admitted]

LEMMA MatchedFields ==
    ASSUME NEW land, NEW s \in Walker, NEW v
    PROVE  Matches(s, v, Admits(land, s.incumbent, v), Matched(land, s, v))
<1>1. PICK admitted \in BOOLEAN : admitted = Admits(land, s.incumbent, v)
  BY DEF Admits, Better
<1>2. Matches(s, v, admitted, Matched(land, s, v))
  BY <1>1 DEF Matched, Walker, Matches
<1>3. QED
  BY <1>1, <1>2

LEMMA GoingOn ==
    ASSUME NEW land, NEW s \in Walker, NEW records, Len(records) \in Nat, NEW t,
           s.verdict = "open", GoesOn(land, records, s, t)
    PROVE  t = Turn(land, records, s) /\ t.verdict = "open"
<1>1. CASE s.operation > OperationsIn(s.round)
  <2>1. Continues(land, records, s) /\ t = Rounding(s)
    BY <1>1, Compared DEF GoesOn
  <2>2. RoundEnds(land, records, s) = Rounding(s)
    BY <2>1, Zenon DEF RoundEnds, Continues, Rounding
  <2>3. Rounding(s).verdict = "open"
    BY DEF Rounding, Walker
  <2>4. QED
    BY <1>1, <2>1, <2>2, <2>3, Zenon DEF Turn
<1>2. CASE s.operation <= OperationsIn(s.round)
  <2>1. ~(s.operation > OperationsIn(s.round))
    BY <1>2, Compared
  <2>2. CASE Tried(land, records, s)
    <3>1. t = Skipping(s) /\ Skipping(s).verdict = "open"
      BY <2>1, <2>2 DEF GoesOn, Skipping, Walker
    <3>2. QED
      BY <2>1, <2>2, <3>1, Zenon DEF Turn, Tried, Tries, Skipping
  <2>3. CASE ~Tried(land, records, s)
    <3>1. /\ ~(s.cursor >= Bound) /\ ~(s.cursor + 1 > Len(records))
          /\ records[s.cursor + 1] = Awaits(land, s) /\ t = Matched(land, s, Tries(land, s))
      BY <2>1, <2>3, Compared DEF GoesOn
    <3>2. t.verdict = "open"
      <4>1. PICK admitted : Matches(s, Tries(land, s), admitted, t)
        BY <3>1, MatchedFields
      <4>2. QED
        BY <4>1 DEF Matches
    <3>3. QED
      BY <2>1, <2>3, <3>1, <3>2, Zenon DEF Turn, Tried, Tries, Awaits
  <2>4. QED
    BY <2>2, <2>3
<1>3. QED
  BY <1>1, <1>2, Compared

LEMMA WentOn ==
    ASSUME NEW land, NEW s \in Walker, NEW records, Len(records) \in Nat,
           Turn(land, records, s).verdict = "open"
    PROVE  s.verdict = "open" /\ GoesOn(land, records, s, Turn(land, records, s))
<1> DEFINE t == Turn(land, records, s)
<1>1. s.verdict = "open"
  BY Zenon DEF Turn
<1>2. \A verdict : [s EXCEPT !.verdict = verdict].verdict = verdict
  BY DEF Walker
<1>3. Verdict(s, records) # "open"
  BY DEF Verdict
<1>4. CASE s.operation > OperationsIn(s.round)
  <2>1. t = RoundEnds(land, records, s)
    BY <1>1, <1>4, Zenon DEF Turn
  <2>2. Continues(land, records, s) /\ t = Rounding(s)
    BY <1>2, <1>3, <2>1, Zenon DEF RoundEnds, Continues, Rounding
  <2>3. QED
    BY <1>1, <1>4, <2>2, Zenon DEF GoesOn
<1>5. CASE s.operation <= OperationsIn(s.round)
  <2>1. ~(s.operation > OperationsIn(s.round))
    BY <1>5, Compared
  <2>2. CASE Tried(land, records, s)
    <3>1. t = Skipping(s)
      BY <1>1, <2>1, <2>2, Zenon DEF Turn, Tried, Tries, Skipping
    <3>2. QED
      BY <1>1, <1>5, <2>2, <3>1, Zenon DEF GoesOn
  <2>3. CASE ~Tried(land, records, s)
    <3>1. /\ ~(s.cursor >= Bound) /\ ~(s.cursor + 1 > Len(records))
          /\ records[s.cursor + 1] = Awaits(land, s) /\ t = Matched(land, s, Tries(land, s))
      BY <1>1, <1>2, <1>3, <2>1, <2>3, Zenon DEF Turn, Tried, Tries, Awaits
    <3>2. s.cursor < Bound /\ s.cursor + 1 <= Len(records)
      BY <3>1, Compared
    <3>3. QED
      BY <1>1, <1>5, <2>3, <3>1, <3>2, Zenon DEF GoesOn
  <2>4. QED
    BY <2>2, <2>3
<1>6. QED
  BY <1>4, <1>5, Compared

\* How far a state that is open can be after n turns.
Within(n, s) ==
    s.verdict = "open" => /\ s.operation <= OperationsIn(s.round) + 1
                          /\ n + 1 <= s.round * (Operations + 1) + s.operation

LEMMA TurnWithin ==
    ASSUME NEW land \in Landscapes, NEW records, Len(records) \in Nat,
           NEW s \in Walker, NEW n \in Nat, Within(n, s)
    PROVE  Within(n + 1, Turn(land, records, s))
<1>1. SUFFICES ASSUME NEW t, t = Turn(land, records, s), t.verdict = "open"
               PROVE  /\ t.operation <= OperationsIn(t.round) + 1
                      /\ n + 2 <= t.round * (Operations + 1) + t.operation
  BY DEF Within
<1>2. /\ s.verdict = "open" /\ GoesOn(land, records, s, t)
      /\ s.operation <= OperationsIn(s.round) + 1
      /\ n + 1 <= s.round * (Operations + 1) + s.operation
  BY <1>1, WentOn DEF Within
<1>3. /\ s.round \in Nat /\ s.operation \in Nat /\ Operations \in Nat
      /\ OperationsIn(s.round) \in Nat /\ OperationsIn(s.round) <= Operations
  BY SearchBounds, OperationsCount DEF Walker
<1>4. PICK p \in Nat : p = s.round * (Operations + 1)
  BY <1>3
<1>5. (s.round + 1) * (Operations + 1) = p + Operations + 1
  BY <1>3, <1>4
<1>10. n + 1 <= p + s.operation
  BY <1>2, <1>4, Zenon
<1>11. ASSUME t.round = s.round, t.operation = s.operation + 1
       PROVE  n + 2 <= t.round * (Operations + 1) + t.operation
  <2>1. n + 2 <= p + (s.operation + 1)
    BY <1>3, <1>10
  <2>2. QED
    BY <1>4, <1>11, <2>1, Zenon
<1>6. CASE t = Rounding(s)
  <2>1. t.round = s.round + 1 /\ t.operation = 1
    BY <1>6 DEF Rounding, Walker
  <2>2. PICK r \in Nat : r = s.round + 1
    BY <1>3
  <2>5. OperationsIn(r) \in Nat
    BY OperationsCount
  <2>3. n + 2 <= p + Operations + 1 + 1
    BY <1>2, <1>3, <1>10
  <2>4. n + 2 <= t.round * (Operations + 1) + t.operation
    BY <1>5, <2>1, <2>3, Zenon
  <2>6. t.operation <= OperationsIn(t.round) + 1
    BY <2>1, <2>2, <2>5
  <2>7. QED
    BY <2>4, <2>6
<1>7. CASE s.operation <= OperationsIn(s.round) /\ t = Skipping(s)
  <2>1. t.round = s.round /\ t.operation = s.operation + 1
    BY <1>7 DEF Skipping, Walker
  <2>2. t.operation <= OperationsIn(t.round) + 1
    BY <1>3, <1>7, <2>1
  <2>3. QED
    BY <1>11, <2>1, <2>2, Zenon
<1>8. ASSUME s.operation <= OperationsIn(s.round), t = Matched(land, s, Tries(land, s))
      PROVE  /\ t.operation <= OperationsIn(t.round) + 1
             /\ n + 2 <= t.round * (Operations + 1) + t.operation
  <2>1. PICK admitted : Matches(s, Tries(land, s), admitted, t)
    BY <1>8, MatchedFields
  <2>2. t.round = s.round /\ t.operation = s.operation + 1
    BY <2>1 DEF Matches
  <2>3. t.operation <= OperationsIn(t.round) + 1
    BY <1>3, <1>8, <2>2
  <2>4. QED
    BY <1>11, <2>2, <2>3, Zenon
<1>9. QED
  BY <1>2, <1>6, <1>7, <1>8 DEF GoesOn

\* The reconstruction ends in time, and while it goes on has turns left.
LEMMA WalkEnds ==
    ASSUME NEW land \in Landscapes, NEW records, Len(records) \in Nat, NEW n \in 0..Turns,
           Walk(land, records)[n].verdict = "open"
    PROVE  n < Turns
<1> DEFINE w == Walk(land, records)
           S == {m \in 0..Turns : Within(m, w[m])}
<1>1. 0 \in S
  <2>1. Within(0, Begin)
    BY SearchBounds, OperationsCount DEF Within, Begin
  <2>2. QED
    BY <2>1, Walks, TurnsTyped
<1>2. \A m \in 0..(Turns - 1) : m \in S => m + 1 \in S
  BY Walks, TurnWithin, TurnsTyped
<1>3. 0..Turns \subseteq S
  <2> HIDE DEF S
  <2>1. QED
    BY <1>1, <1>2, TurnsTyped, InductionUpTo
<1>4. PICK s \in Walker : s = w[n]
  BY Walks
<1>5. /\ s.operation <= OperationsIn(s.round) + 1
      /\ n + 1 <= s.round * (Operations + 1) + s.operation
  BY <1>3, <1>4 DEF Within
<1>6. /\ s.round \in 0..(MaxRounds - 1) /\ s.operation \in Nat /\ Operations \in Nat
      /\ MaxRounds \in Nat \ {0}
      /\ OperationsIn(s.round) \in Nat /\ OperationsIn(s.round) <= Operations
  BY SearchBounds, OperationsCount DEF Walker
<1>7. n + 1 <= s.round * (Operations + 1) + (Operations + 1)
  BY <1>5, <1>6
<1>8. s.round * (Operations + 1) + (Operations + 1) <= MaxRounds * (Operations + 1)
  <2>1. PICK r \in Nat, k \in Nat : r = s.round /\ k = Operations + 1
    BY <1>6
  <2> DEFINE d == MaxRounds - (r + 1)
  <2>2. d \in Nat /\ MaxRounds = r + 1 + d
    BY <1>6, <2>1
  <2>3. d * k \in Nat
    <3> HIDE DEF d
    <3>1. QED
      BY <2>1, <2>2
  <2>4. (r + 1 + d) * k = r * k + k + d * k
    <3> HIDE DEF d
    <3>1. QED
      BY <2>1, <2>2
  <2>5. r * k \in Nat
    BY <2>1
  <2>6. QED
    <3> HIDE DEF d
    <3>1. QED
      BY <2>1, <2>2, <2>3, <2>4, <2>5
<1>9. QED
  BY <1>6, <1>7, <1>8 DEF Turns

\* Once it has matched all records, the reconstruction learns nothing more.
Settles(s, records, t) ==
    /\ t.cursor = Len(records) /\ t.incumbent = s.incumbent /\ t.progress = s.progress
    /\ t.verdict \in {"open", "partial", "complete"}

LEMMA TurnSettles ==
    ASSUME NEW land \in Landscapes, NEW records, Len(records) \in Nat, NEW s, NEW t \in Walker,
           Settles(s, records, t)
    PROVE  Settles(s, records, Turn(land, records, t))
<1>1. Verdict(t, records) = "complete" /\ t.cursor + 1 > Len(records)
  BY DEF Settles, Verdict
<1>2. \A v \in {"partial", "complete"} : Settles(s, records, [t EXCEPT !.verdict = v])
  BY DEF Settles, Walker
<1>3. Settles(s, records, Rounding(t)) /\ Settles(s, records, Skipping(t))
  BY DEF Settles, Walker, Rounding, Skipping
<1>4. Settles(s, records, RoundEnds(land, records, t))
  BY <1>1, <1>2, <1>3, Zenon DEF RoundEnds, Rounding
<1>5. Turn(land, records, t) \in
        {t, RoundEnds(land, records, t), Skipping(t),
         [t EXCEPT !.verdict = "complete"], [t EXCEPT !.verdict = "partial"]}
  BY <1>1, Zenon DEF Turn, Skipping
<1>6. QED
  BY <1>2, <1>3, <1>4, <1>5

LEMMA WalkSettles ==
    ASSUME NEW land \in Landscapes, NEW records, Len(records) \in Nat, NEW n \in 0..Turns,
           NEW s, s = Walk(land, records)[n], s.verdict = "open", s.cursor = Len(records)
    PROVE  /\ Settles(s, records, Reconstructed(land, records))
           /\ Reconstructed(land, records).verdict # "open"
<1> DEFINE w == Walk(land, records)
           S == {m \in 0..Turns : m >= n => Settles(s, records, w[m])}
<1>1. Settles(s, records, w[n])
  BY DEF Settles
<1>2. 0 \in S
  BY <1>1, TurnsTyped
<1>3. ASSUME NEW m \in 0..(Turns - 1), m \in S PROVE m + 1 \in S
  <2>1. CASE m >= n
    <3>1. w[m] \in Walker /\ w[m + 1] = Turn(land, records, w[m])
      BY Walks, TurnsTyped
    <3>2. QED
      BY <1>3, <2>1, <3>1, TurnSettles, TurnsTyped
  <2>2. CASE m + 1 = n
    BY <1>1, <2>2
  <2>3. CASE m + 1 < n
    BY <2>3, TurnsTyped
  <2>4. QED
    BY <2>1, <2>2, <2>3, TurnsTyped
<1>4. 0..Turns \subseteq S
  <2> HIDE DEF S
  <2>1. QED
    BY <1>2, <1>3, TurnsTyped, InductionUpTo
<1>5. Turns \in 0..Turns /\ Turns >= n
  BY TurnsTyped
<1>6. Settles(s, records, w[Turns])
  BY <1>4, <1>5
<1>7. w[Turns].verdict # "open"
  BY <1>5, WalkEnds, TurnsTyped
<1>8. QED
  BY <1>6, <1>7 DEF Reconstructed

\* What is complete stays so.
LEMMA WalkCompletes ==
    ASSUME NEW land \in Landscapes, NEW records, NEW n \in 0..Turns,
           Walk(land, records)[n].verdict = "complete"
    PROVE  Reconstructed(land, records).verdict = "complete"
<1> DEFINE w == Walk(land, records)
           S == {m \in 0..Turns : m >= n => w[m].verdict = "complete"}
<1>1. 0 \in S
  BY TurnsTyped
<1>2. ASSUME NEW m \in 0..(Turns - 1), m \in S PROVE m + 1 \in S
  <2>1. w[m].verdict = "complete" => w[m + 1] = w[m]
    BY Walks, Zenon DEF Turn
  <2>2. m + 1 >= n => m >= n \/ m + 1 = n
    BY TurnsTyped
  <2>3. QED
    BY <1>2, <2>1, <2>2, TurnsTyped
<1>3. 0..Turns \subseteq S
  <2> HIDE DEF S
  <2>1. QED
    BY <1>1, <1>2, TurnsTyped, InductionUpTo
<1>4. QED
  BY <1>3, TurnsTyped DEF Reconstructed

\* What the reconstruction comes to before it has matched all records, it comes
\* to with one record more.
Agree(records, other) ==
    /\ Len(records) \in Nat /\ Len(other) \in Nat /\ Len(records) <= Len(other)
    /\ \A i \in 1..Len(records) : other[i] = records[i]

LEMMA GoesOnWithMore ==
    ASSUME NEW land, NEW records, NEW other, Agree(records, other), NEW s \in Walker, NEW t,
           s.cursor <= Len(records), GoesOn(land, records, s, t)
    PROVE  t.cursor <= Len(records) /\ GoesOn(land, other, s, t)
<1>1. s.cursor \in Nat /\ Len(records) \in Nat /\ Len(other) \in Nat /\ Len(records) <= Len(other)
  BY DEF Walker, Agree
<1>2. \A i \in 1..s.cursor : other[i] = records[i]
  BY <1>1 DEF Agree
<1>3. /\ Continues(land, records, s) => Continues(land, other, s)
      /\ Tried(land, records, s) <=> Tried(land, other, s)
  BY <1>2 DEF Continues, Tried
<1>4. CASE s.operation > OperationsIn(s.round) /\ t = Rounding(s)
  <2>1. t.cursor = s.cursor
    BY <1>4 DEF Rounding, Walker
  <2>2. Continues(land, records, s)
    BY <1>4, Compared, <1>1 DEF GoesOn
  <2>3. QED
    BY <1>3, <1>4, <2>1, <2>2 DEF GoesOn
<1>5. CASE s.operation <= OperationsIn(s.round) /\ Tried(land, records, s) /\ t = Skipping(s)
  <2>1. t.cursor = s.cursor
    BY <1>5 DEF Skipping, Walker
  <2>2. QED
    BY <1>3, <1>5, <2>1 DEF GoesOn
<1>6. CASE /\ s.operation <= OperationsIn(s.round)
           /\ ~Tried(land, records, s) /\ s.cursor < Bound
           /\ s.cursor + 1 <= Len(records) /\ records[s.cursor + 1] = Awaits(land, s)
           /\ t = Matched(land, s, Tries(land, s))
  <2>1. PICK admitted : Matches(s, Tries(land, s), admitted, t)
    BY <1>6, MatchedFields
  <2>2. t.cursor = s.cursor + 1
    BY <2>1 DEF Matches
  <2>3. s.cursor + 1 <= Len(other) /\ other[s.cursor + 1] = records[s.cursor + 1]
    BY <1>1, <1>6 DEF Agree
  <2>4. QED
    BY <1>3, <1>6, <2>2, <2>3 DEF GoesOn
<1>7. QED
  BY <1>4, <1>5, <1>6, Zenon DEF GoesOn

LEMMA VisitsWithMore ==
    ASSUME NEW land \in Landscapes, NEW records, NEW other, Agree(records, other), NEW s,
           Visits(land, records, s), s.verdict = "open"
    PROVE  Visits(land, other, s)
<1> DEFINE w == Walk(land, records)
           x == Walk(land, other)
           S == {m \in 0..Turns :
                   w[m].verdict = "open" => w[m].cursor <= Len(records) /\ x[m] = w[m]}
<1>1. Len(records) \in Nat /\ Len(other) \in Nat
  BY DEF Agree
<1>2. 0 \in S
  BY <1>1, Walks, TurnsTyped DEF Begin
<1>3. ASSUME NEW m \in 0..(Turns - 1), m \in S PROVE m + 1 \in S
  <2>1. SUFFICES ASSUME w[m + 1].verdict = "open"
                 PROVE  w[m + 1].cursor <= Len(records) /\ x[m + 1] = w[m + 1]
    BY TurnsTyped
  <2>2. PICK a \in Walker : a = w[m] /\ w[m + 1] = Turn(land, records, a)
    BY Walks, TurnsTyped
  <2>3. a.verdict = "open" /\ GoesOn(land, records, a, w[m + 1])
    BY <1>1, <2>1, <2>2, WentOn
  <2>4. a.cursor <= Len(records) /\ x[m] = a
    BY <1>3, <2>2, <2>3
  <2>5. w[m + 1].cursor <= Len(records) /\ GoesOn(land, other, a, w[m + 1])
    BY <2>3, <2>4, GoesOnWithMore
  <2>6. w[m + 1] = Turn(land, other, a)
    BY <1>1, <2>3, <2>5, GoingOn
  <2>7. x[m + 1] = Turn(land, other, a)
    BY <2>4, Walks
  <2>8. QED
    BY <2>5, <2>6, <2>7
<1>4. 0..Turns \subseteq S
  <2> HIDE DEF S
  <2>1. QED
    BY <1>2, <1>3, TurnsTyped, InductionUpTo
<1>5. PICK n \in 0..Turns : w[n] = s
  BY DEF Visits
<1>6. x[n] = s
  BY <1>4, <1>5
<1>7. QED
  BY <1>6 DEF Visits

\* It comes to what follows a state that it comes to.
LEMMA VisitsNext ==
    ASSUME NEW land \in Landscapes, NEW records, Len(records) \in Nat, NEW s, NEW t,
           Visits(land, records, s), s.verdict = "open", t = Turn(land, records, s)
    PROVE  Visits(land, records, t)
<1>1. PICK n \in 0..Turns : Walk(land, records)[n] = s
  BY DEF Visits
<1>2. n < Turns
  BY <1>1, WalkEnds
<1>3. n \in 0..(Turns - 1) /\ n + 1 \in 0..Turns
  BY <1>2, TurnsTyped
<1>4. Walk(land, records)[n + 1] = t
  BY <1>1, <1>3, Walks
<1>5. QED
  BY <1>3, <1>4 DEF Visits

LEMMA VisitsTyped ==
    ASSUME NEW land \in Landscapes, NEW records, NEW s, Visits(land, records, s)
    PROVE  s \in Walker
  BY Walks DEF Visits

LEMMA VisitsGoesOn ==
    ASSUME NEW land \in Landscapes, NEW records, Len(records) \in Nat, NEW s, NEW t,
           Visits(land, records, s), s.verdict = "open", GoesOn(land, records, s, t)
    PROVE  Visits(land, records, t)
  BY VisitsTyped, GoingOn, VisitsNext

\* Where it ends, from a state in which all records are matched.
LEMMA PathSettles ==
    ASSUME NEW land \in Landscapes, NEW records, Len(records) \in Nat, NEW s,
           OnPath(land, records, s)
    PROVE  /\ Settles(s, records, Reconstructed(land, records))
           /\ Reconstructed(land, records).verdict # "open"
<1>1. PICK n \in 0..Turns : Walk(land, records)[n] = s
  BY DEF OnPath, Visits
<1>2. s.verdict = "open" /\ s.cursor = Len(records)
  BY DEF OnPath, Follows
<1>3. QED
  BY <1>1, <1>2, WalkSettles

\* It is complete when a round was the last one.
LEMMA PathCompletes ==
    ASSUME NEW land \in Landscapes, NEW records, Len(records) \in Nat, NEW s,
           OnPath(land, records, s), ~(s.operation <= OperationsIn(s.round)),
           ~Continues(land, records, s)
    PROVE  Reconstructed(land, records).verdict = "complete"
<1>1. s \in Walker /\ s.verdict = "open" /\ s.cursor = Len(records)
  BY VisitsTyped DEF OnPath, Follows
<1>2. s.operation > OperationsIn(s.round)
  BY <1>1, Compared
<1>3. Verdict(s, records) = "complete"
  BY <1>1 DEF Verdict
<1>4. Turn(land, records, s) = [s EXCEPT !.verdict = "complete"]
  BY <1>1, <1>2, <1>3, Zenon DEF Turn, RoundEnds, Continues
<1>5. PICK n \in 0..Turns : Walk(land, records)[n] = Turn(land, records, s)
  BY <1>1, VisitsNext DEF OnPath, Visits
<1>6. Walk(land, records)[n].verdict = "complete"
  BY <1>1, <1>4, <1>5 DEF Walker
<1>7. QED
  BY <1>6, WalkCompletes

-----------------------------------------------------------------------------
(* The search, operation by operation and round by round                     *)

Searcher ==
    {s \in [records : Seq(CandidateRecord), incumbent : Parameters,
            cut : BOOLEAN, over : BOOLEAN] : s.incumbent \in Vectors(s.records) \cup {None}}

\* What a search has found stays, and when it has found all it may it is over.
Grows(s, t) ==
    /\ Agree(s.records, t.records)
    /\ Len(s.records) >= Bound => t.records = s.records
    /\ s.cut => t.cut

LEMMA GrowsReflexive ==
    ASSUME NEW s \in Searcher
    PROVE  Grows(s, s)
  BY DEF Searcher, Grows, Agree

LEMMA GrowsTransitive ==
    ASSUME NEW s, NEW t, NEW u, Grows(s, t), Grows(t, u)
    PROVE  Grows(s, u)
<1>1. Agree(s.records, u.records)
  BY DEF Grows, Agree
<1>2. Len(s.records) >= Bound => u.records = s.records
  BY DEF Grows
<1>3. QED
  BY <1>1, <1>2 DEF Grows

\* One operation that is new.
Searches(land, s, v, parent, operation, round) ==
    [s EXCEPT !.records = Append(@, Record(v, parent, operation, round)),
              !.incumbent = IF Admits(land, @, v) THEN v ELSE @]

LEMMA SearchesTyped ==
    ASSUME NEW land, NEW s \in Searcher, NEW v \in Vector, NEW b \in Vector,
           NEW operation \in 1..Operations, NEW round \in Nat
    PROVE  /\ Searches(land, s, v, b, operation, round) \in Searcher
           /\ Len(s.records) < Bound => Grows(s, Searches(land, s, v, b, operation, round))
<1>1. PICK incumbent : incumbent = IF Admits(land, s.incumbent, v) THEN v ELSE s.incumbent
  OBVIOUS
<1>2. PICK r : r = Record(v, b, operation, round)
  OBVIOUS
<1>3. r \in CandidateRecord /\ r.vector = v
  BY <1>2 DEF Record, CandidateRecord
<1>4. PICK more \in Seq(CandidateRecord) : more = Append(s.records, r)
  <2>1. s.records \in Seq(CandidateRecord)
    BY DEF Searcher
  <2>2. Append(s.records, r) \in Seq(CandidateRecord)
    BY <1>3, <2>1
  <2>3. QED
    BY <2>2
<1>5. /\ Len(more) = Len(s.records) + 1 /\ more[Len(more)] = r
      /\ \A i \in 1..Len(s.records) : more[i] = s.records[i]
      /\ Len(s.records) \in Nat
  BY <1>3, <1>4 DEF Searcher
<1>6. incumbent \in Vectors(more) \cup {None} /\ incumbent \in Parameters
  <2>1. v \in Vectors(more)
    <3>1. Len(more) \in 1..Len(more)
      BY <1>5
    <3>2. QED
      BY <1>3, <1>5, <3>1 DEF Vectors
  <2>2. Vectors(s.records) \subseteq Vectors(more)
    BY <1>5 DEF Vectors
  <2>3. QED
    BY <1>1, <2>1, <2>2 DEF Searcher, Parameters
<1>7. Searches(land, s, v, b, operation, round)
        = [s EXCEPT !.records = more, !.incumbent = incumbent]
  BY <1>1, <1>2, <1>4 DEF Searches, Searcher
<1>8. QED
  <2>1. [s EXCEPT !.records = more, !.incumbent = incumbent] \in Searcher
    BY <1>4, <1>6 DEF Searcher
  <2>2. [s EXCEPT !.records = more, !.incumbent = incumbent].records = more
    BY DEF Searcher
  <2>3. [s EXCEPT !.records = more, !.incumbent = incumbent].cut = s.cut
    BY DEF Searcher
  <2>4. ASSUME Len(s.records) < Bound
        PROVE  Grows(s, [s EXCEPT !.records = more, !.incumbent = incumbent])
    BY <1>5, <2>2, <2>3, <2>4, SearchBounds DEF Grows, Agree
  <2>5. QED
    BY <1>7, <2>1, <2>4

\* What an operation does, for a state of the reconstruction that stands before it.
StandsAt(s, now, i, round) ==
    /\ s.round = round /\ s.operation = i /\ s.incumbent = now.incumbent
    /\ s.cursor = Len(now.records)

LEMMA Evaluated ==
    ASSUME NEW land, NEW now \in Searcher, NEW round, NEW i, NEW s,
           StandsAt(s, now, i, round)
    PROVE  /\ Len(now.records) >= Bound =>
                Evaluate(land, now, i, round) = [now EXCEPT !.cut = TRUE]
           /\ Len(now.records) < Bound /\ Tried(land, now.records, s) =>
                Evaluate(land, now, i, round) = now
           /\ Len(now.records) < Bound /\ ~Tried(land, now.records, s) =>
                Evaluate(land, now, i, round)
                  = Searches(land, now, Tries(land, s), Base(s), OperationAt(round, i), round)
<1>1. /\ Base(s) = IF now.incumbent = None THEN Start ELSE now.incumbent
      /\ Tries(land, s) = Apply(land, Base(s), OperationAt(round, i))
  BY DEF Base, Tries, StandsAt
<1>2. Tried(land, now.records, s)
        <=> Tries(land, s) \in {r.vector : r \in Elements(now.records)}
  BY DEF Tried, Elements, StandsAt
<1>3. Len(now.records) >= Bound <=> ~(Len(now.records) < Bound)
  BY SearchBounds DEF Searcher
<1>4. QED
  BY <1>1, <1>2, <1>3, Zenon DEF Evaluate, Searches

LEMMA Evaluates ==
    ASSUME NEW land, NEW now \in Searcher, NEW round, NEW i, NEW s,
           StandsAt(s, now, i, round), Len(now.records) < Bound, ~Tried(land, now.records, s)
    PROVE  Evaluate(land, now, i, round)
             = Searches(land, now, Tries(land, s), Base(s), OperationAt(round, i), round)
BY Evaluated

Standing(now, i, round) ==
    [round |-> round, operation |-> i, incumbent |-> now.incumbent,
     cursor |-> Len(now.records)]

LEMMA EvaluateTyped ==
    ASSUME NEW land \in Landscapes, NEW now \in Searcher, NEW round \in Nat,
           NEW i \in 1..OperationsIn(round)
    PROVE  Evaluate(land, now, i, round) \in Searcher /\ Grows(now, Evaluate(land, now, i, round))
<1>1. PICK s : s = Standing(now, i, round)
  OBVIOUS
<1>2. StandsAt(s, now, i, round)
  BY <1>1 DEF Standing, StandsAt
<1>3. Base(s) \in Vector /\ OperationAt(round, i) \in 1..Operations
  BY <1>2, OperationTyped, SearchBounds DEF Base, StandsAt, Searcher, Parameters
<1>4. Tries(land, s) \in Vector
  BY <1>2, <1>3, ApplyTyped DEF Tries, StandsAt
<1>0. PICK cut : cut = [now EXCEPT !.cut = TRUE]
  OBVIOUS
<1>5. cut \in Searcher /\ Grows(now, cut)
  <2>2. /\ cut \in [records : Seq(CandidateRecord), incumbent : Parameters,
                    cut : BOOLEAN, over : BOOLEAN]
        /\ cut.records = now.records /\ cut.incumbent = now.incumbent /\ cut.cut
    BY <1>0 DEF Searcher
  <2>3. cut \in Searcher
    BY <2>2 DEF Searcher
  <2>4. Len(now.records) \in Nat
    BY DEF Searcher
  <2>5. Grows(now, cut)
    BY <2>2, <2>4 DEF Grows, Agree
  <2>6. QED
    BY <2>3, <2>5
<1>6. Len(now.records) >= Bound \/ Len(now.records) < Bound
  BY SearchBounds DEF Searcher
<1>7. PICK found : found = Searches(land, now, Tries(land, s), Base(s), OperationAt(round, i), round)
  OBVIOUS
<1>8. found \in Searcher /\ (Len(now.records) < Bound => Grows(now, found))
  BY <1>3, <1>4, <1>7, SearchesTyped
<1>9. Grows(now, now)
  BY GrowsReflexive
<1>10. \/ Evaluate(land, now, i, round) = cut \/ Evaluate(land, now, i, round) = now
       \/ Len(now.records) < Bound /\ Evaluate(land, now, i, round) = found
  <2>1. CASE Len(now.records) >= Bound
    BY <1>0, <1>2, <2>1, Evaluated
  <2>2. CASE Len(now.records) < Bound /\ Tried(land, now.records, s)
    BY <1>2, <2>2, Evaluated
  <2>3. CASE Len(now.records) < Bound /\ ~Tried(land, now.records, s)
    BY <1>2, <1>7, <2>3, Evaluated
  <2>4. QED
    BY <1>6, <2>1, <2>2, <2>3, Zenon
<1>11. QED
  BY <1>5, <1>8, <1>9, <1>10

IsEvals(land, start, round, f) ==
    f = [i \in 0..OperationsIn(round) |->
            IF i = 0 THEN start ELSE Evaluate(land, f[i - 1], i, round)]

LEMMA EvalsTyped ==
    ASSUME NEW land \in Landscapes, NEW start \in Searcher, NEW round \in Nat
    PROVE  /\ Evals(land, start, round) \in [0..OperationsIn(round) -> Searcher]
           /\ Evals(land, start, round)[0] = start
           /\ \A i \in 1..OperationsIn(round) :
                Evals(land, start, round)[i]
                  = Evaluate(land, Evals(land, start, round)[i - 1], i, round)
<1> DEFINE m == OperationsIn(round)
           G == [p \in Nat \X Searcher |->
                    IF p[1] \in 1..m THEN Evaluate(land, p[2], p[1], round) ELSE p[2]]
           e == Evals(land, start, round)
<1>1. m \in Nat
  BY OperationsCount
<1> HIDE DEF m
<1>2. \A i \in Nat, s \in Searcher : G[<<i, s>>] =
        IF i \in 1..m THEN Evaluate(land, s, i, round) ELSE s
  OBVIOUS
<1>3. PICK f \in [0..m -> Searcher] : f[0] = start /\ \A i \in 1..m : f[i] = G[<<i, f[i - 1]>>]
  <2> HIDE DEF G
  <2>1. Stays(G, Searcher)
    BY <1>2, EvaluateTyped DEF Stays, m
  <2>2. \E f \in [0..m -> Searcher] : Iterated(f, G, start, m)
    BY <1>1, <2>1, Iterates
  <2>3. QED
    BY <2>2, Zenon DEF Iterated
<1>4. IsEvals(land, start, round, f)
  <2> HIDE DEF G
  <2>1. \A i \in 0..m : f[i] = IF i = 0 THEN start ELSE Evaluate(land, f[i - 1], i, round)
    <3>1. \A i \in 1..m : i \in Nat /\ f[i - 1] \in Searcher
      BY <1>1
    <3>2. \A i \in 1..m : f[i] = Evaluate(land, f[i - 1], i, round)
      BY <1>2, <1>3, <3>1
    <3>3. QED
      BY <1>1, <1>3, <3>2
  <2>2. f = [i \in 0..m |-> f[i]]
    OBVIOUS
  <2>3. QED
    BY <2>1, <2>2, Zenon DEF IsEvals, m
<1>5. e = CHOOSE g : IsEvals(land, start, round, g)
  BY Zenon DEF Evals, IsEvals
<1>6. IsEvals(land, start, round, e)
  <2> HIDE DEF e
  <2>1. QED
    BY <1>4, <1>5
<1> HIDE DEF e
<1>7. e[0] = start /\ DOMAIN e = 0..m /\ e = [i \in 0..m |-> e[i]]
  BY <1>1, <1>6 DEF IsEvals, m
<1>8. \A i \in 1..m : e[i] = Evaluate(land, e[i - 1], i, round)
  <2>1. \A i \in 1..m : i \in 0..m /\ i # 0
    BY <1>1
  <2>2. QED
    BY <1>6, <2>1 DEF IsEvals, m
<1>9. \A i \in 0..m : e[i] \in Searcher
  <2> DEFINE S == {i \in 0..m : e[i] \in Searcher}
  <2>1. 0 \in S
    BY <1>1, <1>7
  <2>2. ASSUME NEW i \in 0..(m - 1), i \in S PROVE i + 1 \in S
    <3>1. i + 1 \in 1..m /\ (i + 1) - 1 = i /\ e[i] \in Searcher
      BY <1>1, <2>2
    <3>2. e[i + 1] = Evaluate(land, e[i], i + 1, round)
      BY <1>8, <3>1
    <3>3. QED
      BY <3>1, <3>2, EvaluateTyped DEF m
  <2>3. 0..m \subseteq S
    <3> HIDE DEF S
    <3>1. QED
      BY <1>1, <2>1, <2>2, InductionUpTo
  <2>4. QED
    BY <2>3
<1>10. QED
  BY <1>7, <1>8, <1>9 DEF e, m

LEMMA EvalsGrow ==
    ASSUME NEW land \in Landscapes, NEW start \in Searcher, NEW round \in Nat,
           NEW i \in 0..OperationsIn(round), NEW j \in i..OperationsIn(round)
    PROVE  Grows(Evals(land, start, round)[i], Evals(land, start, round)[j])
<1> DEFINE m == OperationsIn(round)
           e == Evals(land, start, round)
           S == {k \in 0..m : k >= i => Grows(e[i], e[k])}
<1>1. m \in Nat
  BY OperationsCount
<1>2. \A k \in 0..m : e[k] \in Searcher
  BY EvalsTyped
<1>3. \A k \in 1..m : e[k] = Evaluate(land, e[k - 1], k, round)
  BY EvalsTyped
<1> HIDE DEF m, e
<1>4. Grows(e[i], e[i])
  BY <1>2, GrowsReflexive DEF m
<1>5. 0 \in S
  BY <1>1, <1>4 DEF m
<1>6. ASSUME NEW k \in 0..(m - 1), k \in S PROVE k + 1 \in S
  <2>1. SUFFICES ASSUME k + 1 >= i, k + 1 # i PROVE Grows(e[i], e[k + 1])
    BY <1>1, <1>4
  <2>2. k >= i /\ k + 1 \in 1..m /\ (k + 1) - 1 = k /\ k \in 0..m
    BY <1>1, <2>1 DEF m
  <2>3. e[k + 1] = Evaluate(land, e[k], k + 1, round) /\ e[k] \in Searcher
    BY <1>2, <1>3, <2>2
  <2>4. Grows(e[k], e[k + 1])
    BY <2>2, <2>3, EvaluateTyped DEF m
  <2>5. QED
    BY <1>6, <2>2, <2>4, GrowsTransitive
<1>7. 0..m \subseteq S
  <2> HIDE DEF S
  <2>1. QED
    BY <1>1, <1>5, <1>6, InductionUpTo
<1>8. j \in 0..m /\ j >= i
  BY <1>1 DEF m
<1>9. Grows(e[i], e[j])
  BY <1>7, <1>8
<1>10. QED
  BY <1>9 DEF e

LEMMA EndedTyped ==
    ASSUME NEW land, NEW start, NEW s \in Searcher
    PROVE  /\ Ended(land, start, s) \in Searcher
           /\ Grows(s, Ended(land, start, s))
           /\ Ended(land, start, s).records = s.records
           /\ Ended(land, start, s).incumbent = s.incumbent
           /\ Ended(land, start, s).cut = s.cut
           /\ Ended(land, start, s).over
                = (Satisfied(land, s) \/ s.cut \/ s.incumbent = start.incumbent)
<1>1. PICK over \in BOOLEAN : over = (Satisfied(land, s) \/ s.cut \/ s.incumbent = start.incumbent)
  BY DEF Satisfied
<1>2. PICK t : t = [s EXCEPT !.over = over]
  OBVIOUS
<1>3. t = Ended(land, start, s)
  BY <1>1, <1>2 DEF Ended
<1>4. /\ t \in [records : Seq(CandidateRecord), incumbent : Parameters,
                cut : BOOLEAN, over : BOOLEAN]
      /\ t.records = s.records /\ t.incumbent = s.incumbent /\ t.cut = s.cut /\ t.over = over
  BY <1>2 DEF Searcher
<1>5. t \in Searcher
  BY <1>4 DEF Searcher
<1>6. Len(s.records) \in Nat
  BY DEF Searcher
<1>7. Grows(s, t)
  BY <1>4, <1>6 DEF Grows, Agree
<1>8. QED
  BY <1>1, <1>3, <1>4, <1>5, <1>7

\* The round that follows a state of the search.
After(land, start, round) ==
    IF start.over THEN start ELSE Ended(land, start, Round(land, start, round))

LEMMA AfterTyped ==
    ASSUME NEW land \in Landscapes, NEW start \in Searcher, NEW round \in Nat
    PROVE  After(land, start, round) \in Searcher /\ Grows(start, After(land, start, round))
<1>1. PICK m \in Nat : m = OperationsIn(round)
  BY OperationsCount
<1>2. PICK r : r = Evals(land, start, round)[m]
  OBVIOUS
<1>3. r = Round(land, start, round)
  BY <1>1, <1>2 DEF Round
<1>4. 0 \in 0..m /\ m \in 0..m
  BY <1>1
<1>5. r \in Searcher
  BY <1>1, <1>2, <1>4, EvalsTyped
<1>6. Grows(start, r)
  BY <1>1, <1>2, <1>4, EvalsTyped, EvalsGrow
<1>7. Ended(land, start, r) \in Searcher /\ Grows(start, Ended(land, start, r))
  BY <1>5, <1>6, EndedTyped, GrowsTransitive
<1>8. QED
  BY <1>3, <1>7, GrowsReflexive DEF After

LEMMA UnsearchedTyped == Unsearched \in Searcher
<1>1. <<>> \in Seq(CandidateRecord)
  OBVIOUS
<1>2. QED
  BY <1>1 DEF Unsearched, Searcher, Parameters

IsRounds(land, f) ==
    f = [n \in 0..MaxRounds |-> IF n = 0 THEN Unsearched ELSE After(land, f[n - 1], n - 1)]

LEMMA RoundsTyped ==
    ASSUME NEW land \in Landscapes
    PROVE  /\ Rounds(land) \in [0..MaxRounds -> Searcher]
           /\ Rounds(land)[0] = Unsearched
           /\ \A n \in 0..(MaxRounds - 1) :
                  Rounds(land)[n + 1] = After(land, Rounds(land)[n], n)
<1> DEFINE G == [p \in Nat \X Searcher |-> IF p[1] = 0 THEN p[2] ELSE After(land, p[2], p[1] - 1)]
           r == Rounds(land)
<1>1. \A n \in Nat, s \in Searcher : G[<<n, s>>] = IF n = 0 THEN s ELSE After(land, s, n - 1)
  OBVIOUS
<1>2. PICK f \in [0..MaxRounds -> Searcher] :
          f[0] = Unsearched /\ \A n \in 1..MaxRounds : f[n] = G[<<n, f[n - 1]>>]
  <2> HIDE DEF G
  <2>1. \A n \in Nat, s \in Searcher : n # 0 => After(land, s, n - 1) \in Searcher
    BY AfterTyped
  <2>2. Stays(G, Searcher)
    BY <1>1, <2>1 DEF Stays
  <2>3. MaxRounds \in Nat
    BY SearchBounds
  <2>4. \E f \in [0..MaxRounds -> Searcher] : Iterated(f, G, Unsearched, MaxRounds)
    BY <2>2, <2>3, UnsearchedTyped, Iterates
  <2>5. QED
    BY <2>4, Zenon DEF Iterated
<1>3. IsRounds(land, f)
  <2> HIDE DEF G
  <2>1. \A n \in 0..MaxRounds : f[n] = IF n = 0 THEN Unsearched ELSE After(land, f[n - 1], n - 1)
    <3>1. \A n \in 1..MaxRounds : n \in Nat /\ n # 0 /\ f[n - 1] \in Searcher
      BY SearchBounds
    <3>2. \A n \in 1..MaxRounds : f[n] = After(land, f[n - 1], n - 1)
      BY <1>1, <1>2, <3>1
    <3>3. QED
      BY <1>2, <3>2, SearchBounds
  <2>2. f = [n \in 0..MaxRounds |-> f[n]]
    OBVIOUS
  <2>3. QED
    BY <2>1, <2>2, Zenon DEF IsRounds
<1>4. r = CHOOSE g : IsRounds(land, g)
  BY Zenon DEF Rounds, IsRounds, After
<1>5. IsRounds(land, r)
  <2> HIDE DEF r
  <2>1. QED
    BY <1>3, <1>4
<1> HIDE DEF r
<1>6. r[0] = Unsearched /\ r = [n \in 0..MaxRounds |-> r[n]]
  BY <1>5, SearchBounds DEF IsRounds
<1>7. \A n \in 0..(MaxRounds - 1) : r[n + 1] = After(land, r[n], n)
  <2>1. \A n \in 0..(MaxRounds - 1) : n + 1 \in 0..MaxRounds /\ n + 1 # 0 /\ (n + 1) - 1 = n
    BY SearchBounds
  <2>2. \A n \in 0..MaxRounds : n # 0 => r[n] = After(land, r[n - 1], n - 1)
    BY <1>5 DEF IsRounds
  <2>3. \A n \in 0..(MaxRounds - 1) : r[n + 1] = After(land, r[(n + 1) - 1], (n + 1) - 1)
    BY <2>1, <2>2
  <2>4. QED
    BY <2>1, <2>3
<1>8. \A n \in 0..MaxRounds : r[n] \in Searcher
  <2> DEFINE S == {n \in 0..MaxRounds : r[n] \in Searcher}
  <2>1. 0 \in S
    BY <1>6, UnsearchedTyped, SearchBounds
  <2>2. ASSUME NEW n \in 0..(MaxRounds - 1), n \in S PROVE n + 1 \in S
    BY <1>7, <2>2, AfterTyped, SearchBounds
  <2>3. 0..MaxRounds \subseteq S
    <3> HIDE DEF S
    <3>1. QED
      BY <2>1, <2>2, SearchBounds, InductionUpTo
  <2>4. QED
    BY <2>3
<1>9. QED
  BY <1>6, <1>7, <1>8 DEF r

LEMMA RoundsGrow ==
    ASSUME NEW land \in Landscapes, NEW n \in 0..MaxRounds
    PROVE  /\ Grows(Rounds(land)[n], Search(land))
           /\ Rounds(land)[n].over => Search(land) = Rounds(land)[n]
<1> DEFINE r == Rounds(land)
           Comes(k) == Grows(r[n], r[k]) /\ (r[n].over => r[k] = r[n])
           S == {k \in 0..MaxRounds : k >= n => Comes(k)}
<1>1. MaxRounds \in Nat
  BY SearchBounds
<1>2. Comes(n)
  BY RoundsTyped, GrowsReflexive
<1>3. 0 \in S
  BY <1>1, <1>2
<1>4. ASSUME NEW k \in 0..(MaxRounds - 1), k \in S PROVE k + 1 \in S
  <2>1. SUFFICES ASSUME k + 1 >= n, k + 1 # n PROVE Comes(k + 1)
    BY <1>1, <1>2
  <2>2. k >= n /\ k \in 0..MaxRounds /\ k \in Nat
    BY <1>1, <2>1
  <2>3. Comes(k)
    BY <1>4, <2>2
  <2>4. r[k + 1] = After(land, r[k], k) /\ r[k] \in Searcher
    BY <2>2, RoundsTyped
  <2>5. Grows(r[k], r[k + 1])
    BY <2>2, <2>4, AfterTyped
  <2>6. r[k].over => r[k + 1] = r[k]
    BY <2>4 DEF After
  <2>7. Grows(r[n], r[k + 1])
    BY <2>3, <2>5, GrowsTransitive
  <2>8. QED
    BY <2>3, <2>6, <2>7
<1>5. 0..MaxRounds \subseteq S
  <2> HIDE DEF S
  <2>1. QED
    BY <1>1, <1>3, <1>4, InductionUpTo
<1>6. Comes(MaxRounds)
  BY <1>1, <1>5
<1>7. QED
  BY <1>6 DEF Search

LEMMA SearchTyped ==
    ASSUME NEW land \in Landscapes
    PROVE  Search(land) \in Searcher
<1>1. MaxRounds \in 0..MaxRounds
  BY SearchBounds
<1>2. QED
  BY <1>1, RoundsTyped DEF Search

LEMMA SearchCut ==
    ASSUME NEW land \in Landscapes
    PROVE  Search(land).cut \in BOOLEAN /\ Search(land).records \in Seq(CandidateRecord)
  BY SearchTyped DEF Searcher

-----------------------------------------------------------------------------
(* The reconstruction follows the search                                     *)

\* Where the search is, before the operation i of a round.
SearchAt(land, round, i) == Evals(land, Rounds(land)[round], round)[i - 1]

LEMMA SearchAhead ==
    ASSUME NEW land \in Landscapes, NEW round \in 0..(MaxRounds - 1), ~Rounds(land)[round].over,
           NEW i \in 1..(OperationsIn(round) + 1)
    PROVE  /\ SearchAt(land, round, i) \in Searcher
           /\ Grows(Rounds(land)[round], SearchAt(land, round, i))
           /\ Grows(SearchAt(land, round, i), Search(land))
<1>1. PICK start : start = Rounds(land)[round]
  OBVIOUS
<1>2. round \in Nat /\ round \in 0..MaxRounds /\ round + 1 \in 0..MaxRounds
  BY SearchBounds
<1>3. start \in Searcher /\ Rounds(land)[round + 1] = After(land, start, round)
  BY <1>1, <1>2, RoundsTyped
<1>4. PICK m \in Nat : m = OperationsIn(round)
  BY <1>2, OperationsCount
<1>5. PICK e : e = Evals(land, start, round)
  OBVIOUS
<1>6. 0 \in 0..m /\ i - 1 \in 0..m /\ i - 1 \in 0..(i - 1) /\ m \in (i - 1)..m
  BY <1>4
<1>7. e[0] = start /\ e[i - 1] \in Searcher /\ e[m] \in Searcher
  <2>1. e \in [0..m -> Searcher] /\ e[0] = start
    BY <1>2, <1>3, <1>4, <1>5, EvalsTyped
  <2>2. QED
    BY <1>6, <2>1
<1>8. Grows(e[0], e[i - 1]) /\ Grows(e[i - 1], e[m])
  <2>1. i - 1 \in 0..OperationsIn(round) /\ 0 \in 0..OperationsIn(round)
        /\ m \in (i - 1)..OperationsIn(round)
    BY <1>4, <1>6
  <2>2. QED
    BY <1>2, <1>3, <1>5, <2>1, EvalsGrow
<1>9. Grows(e[m], Rounds(land)[round + 1])
  BY <1>1, <1>3, <1>4, <1>5, <1>7, EndedTyped DEF After, Round
<1>10. Grows(e[i - 1], Search(land))
  BY <1>2, <1>8, <1>9, RoundsGrow, GrowsTransitive
<1>11. QED
  BY <1>1, <1>5, <1>7, <1>8, <1>10 DEF SearchAt

LEMMA SearchNext ==
    ASSUME NEW land \in Landscapes, NEW round \in 0..(MaxRounds - 1),
           NEW i \in 1..OperationsIn(round)
    PROVE  SearchAt(land, round, i + 1) = Evaluate(land, SearchAt(land, round, i), i, round)
<1>1. PICK start : start = Rounds(land)[round]
  OBVIOUS
<1>2. round \in Nat /\ round \in 0..MaxRounds
  BY SearchBounds
<1>3. start \in Searcher
  BY <1>1, <1>2, RoundsTyped
<1>4. (i + 1) - 1 = i
  BY <1>2, OperationsCount
<1>5. Evals(land, start, round)[i] = Evaluate(land, Evals(land, start, round)[i - 1], i, round)
  BY <1>2, <1>3, EvalsTyped
<1>6. QED
  BY <1>1, <1>4, <1>5 DEF SearchAt

\* The state of the search that s follows.
Followed(land, records, s, start, now) ==
    /\ s.round \in 0..(MaxRounds - 1) /\ s.operation \in 1..(OperationsIn(s.round) + 1)
    /\ s.cursor = Len(records) /\ s.verdict = "open"
    /\ start = Rounds(land)[s.round] /\ start \in Searcher /\ ~start.over
    /\ now = SearchAt(land, s.round, s.operation) /\ now \in Searcher
    /\ now.records = records /\ now.incumbent = s.incumbent /\ ~now.cut
    /\ Grows(start, now) /\ Grows(now, Search(land))
    /\ IF s.improved THEN s.incumbent \notin Vectors(start.records) \cup {None}
       ELSE s.incumbent = start.incumbent
    /\ StandsAt(s, now, s.operation, s.round)

LEMMA Following ==
    ASSUME NEW land \in Landscapes, NEW records, NEW s, Follows(land, records, s)
    PROVE  \E start, now : Followed(land, records, s, start, now)
<1>1. PICK start, now : start = Rounds(land)[s.round] /\ now = SearchAt(land, s.round, s.operation)
  OBVIOUS
<1>2. /\ s.round \in 0..(MaxRounds - 1) /\ s.operation \in 1..(OperationsIn(s.round) + 1)
      /\ s.cursor = Len(records) /\ s.verdict = "open" /\ ~start.over
      /\ now.records = records /\ now.incumbent = s.incumbent /\ ~now.cut
      /\ IF s.improved THEN s.incumbent \notin Vectors(start.records) \cup {None}
         ELSE s.incumbent = start.incumbent
  BY <1>1, Zenon DEF Follows, SearchAt
<1>3. now \in Searcher /\ Grows(start, now) /\ Grows(now, Search(land))
  BY <1>1, <1>2, SearchAhead
<1>4. s.round \in 0..MaxRounds
  BY <1>2, SearchBounds
<1>5. start \in Searcher
  BY <1>1, <1>4, RoundsTyped
<1>6. StandsAt(s, now, s.operation, s.round)
  BY <1>2 DEF StandsAt
<1>7. Followed(land, records, s, start, now)
  BY <1>1, <1>2, <1>3, <1>5, <1>6, Zenon DEF Followed
<1>8. QED
  BY <1>7

\* The converse, for a state of the reconstruction that is not stated with Rounds.
LEMMA FollowsAt ==
    ASSUME NEW land, NEW records, NEW s, NEW start, NEW now,
           s.round \in 0..(MaxRounds - 1), s.operation \in 1..(OperationsIn(s.round) + 1),
           s.cursor = Len(records), s.verdict = "open",
           start = Rounds(land)[s.round], ~start.over,
           now = SearchAt(land, s.round, s.operation),
           now.records = records, now.incumbent = s.incumbent, ~now.cut,
           IF s.improved THEN s.incumbent \notin Vectors(start.records) \cup {None}
           ELSE s.incumbent = start.incumbent
    PROVE  Follows(land, records, s)
  BY Zenon DEF Follows, SearchAt

\* A prefix of what the search finds.
LEMMA FollowsPrefix ==
    ASSUME NEW land \in Landscapes, NEW records, NEW s, Follows(land, records, s)
    PROVE  Agree(records, Search(land).records)
<1>1. PICK start, now : Followed(land, records, s, start, now)
  BY Following
<1>2. QED
  BY <1>1 DEF Followed, Grows

\* At the start of round 0.
LEMMA FollowsBegin ==
    ASSUME NEW land \in Landscapes
    PROVE  Follows(land, <<>>, Begin)
<1>1. PICK start : start = Unsearched
  OBVIOUS
<1>2. /\ start.records = <<>> /\ start.incumbent = None /\ ~start.cut /\ ~start.over
  BY <1>1 DEF Unsearched
<1>3. /\ Begin.round = 0 /\ Begin.operation = 1 /\ Begin.cursor = 0 /\ Begin.verdict = "open"
      /\ Begin.incumbent = None /\ ~Begin.improved
  BY DEF Begin
<1>4. Rounds(land)[0] = start
  BY <1>1, RoundsTyped
<1>5. SearchAt(land, 0, 1) = start
  BY <1>1, <1>4, EvalsTyped, UnsearchedTyped DEF SearchAt
<1>6. 0 \in 0..(MaxRounds - 1) /\ 1 \in 1..(OperationsIn(0) + 1)
  BY SearchBounds, OperationsCount
<1>7. Len(<<>>) = 0
  OBVIOUS
<1>8. QED
  BY <1>2, <1>3, <1>4, <1>5, <1>6, <1>7, FollowsAt

LEMMA FollowsSkip ==
    ASSUME NEW land \in Landscapes, NEW records, NEW s \in Walker, Follows(land, records, s),
           s.operation <= OperationsIn(s.round), Tried(land, records, s), Len(records) < Bound
    PROVE  Follows(land, records, Skipping(s))
<1>1. PICK start, now : Followed(land, records, s, start, now)
  BY Following
<1>2. s.round \in Nat /\ s.operation \in Nat \ {0} /\ OperationsIn(s.round) \in Nat
  BY SearchBounds, OperationsCount DEF Walker
<1>3. PICK t : t = Skipping(s)
  OBVIOUS
<1>4. /\ t.round = s.round /\ t.operation = s.operation + 1 /\ t.cursor = s.cursor
      /\ t.verdict = s.verdict /\ t.incumbent = s.incumbent /\ t.improved = s.improved
  BY <1>3 DEF Skipping, Walker
<1>5. s.operation \in 1..OperationsIn(s.round)
      /\ s.operation + 1 \in 1..(OperationsIn(s.round) + 1)
  BY <1>2
<1>6. Evaluate(land, now, s.operation, s.round) = now
  <2>1. now \in Searcher /\ now.records = records /\ StandsAt(s, now, s.operation, s.round)
    BY <1>1, Zenon DEF Followed
  <2>2. QED
    BY <2>1, Evaluated
<1>7. SearchAt(land, s.round, s.operation + 1) = now
  BY <1>1, <1>5, <1>6, SearchNext DEF Followed
<1>8. Follows(land, records, t)
  BY <1>1, <1>4, <1>5, <1>7, FollowsAt DEF Followed
<1>9. QED
  BY <1>3, <1>8

LEMMA TriesTyped ==
    ASSUME NEW land \in Landscapes, NEW s \in Walker, s.operation <= OperationsIn(s.round)
    PROVE  /\ OperationAt(s.round, s.operation) \in 1..Operations
           /\ Base(s) \in Vector /\ Tries(land, s) \in Vector
           /\ Awaits(land, s) \in CandidateRecord
<1>1. s.round \in Nat /\ s.operation \in Nat \ {0} /\ OperationsIn(s.round) \in Nat
  BY SearchBounds, OperationsCount DEF Walker
<1>2. s.operation \in 1..OperationsIn(s.round)
  BY <1>1
<1>3. Base(s) \in Vector
  BY SearchBounds DEF Base, Walker, Parameters
<1>4. OperationAt(s.round, s.operation) \in 1..Operations
  BY <1>1, <1>2, OperationTyped
<1>5. Tries(land, s) \in Vector
  BY <1>3, <1>4, ApplyTyped DEF Tries
<1>6. QED
  BY <1>1, <1>3, <1>4, <1>5 DEF Awaits, Record, CandidateRecord

LEMMA AgreeVectors ==
    ASSUME NEW records, NEW other, Agree(records, other)
    PROVE  Vectors(records) \subseteq Vectors(other)
  BY DEF Agree, Vectors

LEMMA FollowsMatch ==
    ASSUME NEW land \in Landscapes, NEW records, NEW s \in Walker, Follows(land, records, s),
           s.operation <= OperationsIn(s.round), ~Tried(land, records, s), Len(records) < Bound
    PROVE  /\ Follows(land, Append(records, Awaits(land, s)), Matched(land, s, Tries(land, s)))
           /\ Agree(Append(records, Awaits(land, s)), Search(land).records)
<1>1. PICK start, now : Followed(land, records, s, start, now)
  BY Following
<1>2. s.round \in Nat /\ s.operation \in Nat \ {0} /\ OperationsIn(s.round) \in Nat
  BY SearchBounds, OperationsCount DEF Walker
<1>3. PICK v, admitted, t : /\ v = Tries(land, s) /\ admitted = Admits(land, s.incumbent, v)
                            /\ t = Matched(land, s, v)
  OBVIOUS
<1>4. Matches(s, v, admitted, t)
  BY <1>3, MatchedFields
<1>5. now \in Searcher /\ now.records = records /\ StandsAt(s, now, s.operation, s.round)
      /\ now.incumbent = s.incumbent /\ ~now.cut /\ s.cursor = Len(records)
  BY <1>1, Zenon DEF Followed
<1>6. PICK after : after = Evaluate(land, now, s.operation, s.round)
  OBVIOUS
<1>7. after = Searches(land, now, v, Base(s), OperationAt(s.round, s.operation), s.round)
  <2>1. Len(now.records) < Bound /\ ~Tried(land, now.records, s)
    BY <1>5
  <2>2. now \in Searcher /\ StandsAt(s, now, s.operation, s.round)
    BY <1>5
  <2>3. Evaluate(land, now, s.operation, s.round)
          = Searches(land, now, Tries(land, s), Base(s),
                     OperationAt(s.round, s.operation), s.round)
    BY <2>1, <2>2, Evaluates
  <2>4. QED
    BY <1>3, <1>6, <2>3
<1>8. /\ after.records = Append(records, Awaits(land, s))
      /\ after.incumbent = IF admitted THEN v ELSE s.incumbent
      /\ ~after.cut
  BY <1>3, <1>5, <1>7 DEF Searches, Searcher, Awaits
<1>9. s.operation \in 1..OperationsIn(s.round)
      /\ s.operation + 1 \in 1..(OperationsIn(s.round) + 1)
  BY <1>2
<1>10. SearchAt(land, s.round, s.operation + 1) = after
  BY <1>1, <1>6, <1>9, SearchNext DEF Followed
<1>11. Len(Append(records, Awaits(land, s))) = Len(records) + 1
  BY <1>5 DEF Searcher
<1>12. v \notin Vectors(start.records) \cup {None}
  <2>1. v \in Vector /\ v # None
    BY <1>3, TriesTyped, SearchBounds
  <2>2. v \notin Vectors(records)
    BY <1>3, <1>5 DEF Tried, Vectors
  <2>3. Vectors(start.records) \subseteq Vectors(records)
    BY <1>1, <1>5, AgreeVectors DEF Followed, Grows
  <2>4. QED
    BY <2>1, <2>2, <2>3
<1>13. /\ t.round = s.round /\ t.operation = s.operation + 1 /\ t.cursor = s.cursor + 1
       /\ t.verdict = s.verdict /\ t.incumbent = IF admitted THEN v ELSE s.incumbent
       /\ t.improved = (s.improved \/ admitted)
  BY <1>4 DEF Matches
<1>14. IF t.improved THEN t.incumbent \notin Vectors(start.records) \cup {None}
       ELSE t.incumbent = start.incumbent
  BY <1>1, <1>12, <1>13 DEF Followed
<1>15. Follows(land, after.records, t)
  <2>1. /\ t.round \in 0..(MaxRounds - 1) /\ t.verdict = "open"
        /\ start = Rounds(land)[t.round] /\ ~start.over
    BY <1>1, <1>13 DEF Followed
  <2>2. t.operation \in 1..(OperationsIn(t.round) + 1) /\ t.cursor = Len(after.records)
    BY <1>5, <1>8, <1>9, <1>11, <1>13
  <2>3. after = SearchAt(land, t.round, t.operation) /\ after.incumbent = t.incumbent
    BY <1>8, <1>10, <1>13
  <2>4. QED
    BY <1>8, <1>14, <2>1, <2>2, <2>3, FollowsAt
<1>16. QED
  BY <1>3, <1>8, <1>15, FollowsPrefix

\* The round that ends.
LEMMA FollowsEnd ==
    ASSUME NEW land \in Landscapes, NEW records, NEW s \in Walker, Follows(land, records, s),
           ~(s.operation <= OperationsIn(s.round)), NEW later,
           later = Rounds(land)[s.round + 1]
    PROVE  /\ later \in Searcher /\ later.records = records /\ later.incumbent = s.incumbent
           /\ ~later.cut /\ s.round + 1 \in 1..MaxRounds
           /\ later.over <=> ~s.improved \/ \E i \in 1..s.cursor : Accepted(land, records[i].vector)
<1>1. PICK start, now : Followed(land, records, s, start, now)
  BY Following
<1>2. s.round \in Nat /\ s.operation \in Nat \ {0} /\ OperationsIn(s.round) \in Nat
      /\ s.operation \in 1..(OperationsIn(s.round) + 1) /\ s.round \in 0..(MaxRounds - 1)
  BY <1>1, SearchBounds, OperationsCount DEF Walker, Followed
<1>3. s.operation - 1 = OperationsIn(s.round)
  BY <1>2
<1>4. now = Round(land, start, s.round)
  BY <1>1, <1>3 DEF Followed, SearchAt, Round
<1>5. later = Ended(land, start, now)
  BY <1>1, <1>2, <1>4, RoundsTyped DEF Followed, After
<1>6. /\ now \in Searcher /\ now.records = records /\ now.incumbent = s.incumbent /\ ~now.cut
      /\ start \in Searcher /\ s.cursor = Len(records) /\ Agree(start.records, records)
      /\ IF s.improved THEN s.incumbent \notin Vectors(start.records) \cup {None}
         ELSE s.incumbent = start.incumbent
  BY <1>1 DEF Followed, Grows
<1>7. /\ later \in Searcher /\ later.records = records /\ later.incumbent = s.incumbent
      /\ ~later.cut
      /\ later.over = (Satisfied(land, now) \/ now.cut \/ now.incumbent = start.incumbent)
  BY <1>5, <1>6, EndedTyped
<1>8. Satisfied(land, now) <=> \E i \in 1..s.cursor : Accepted(land, records[i].vector)
  BY <1>6 DEF Satisfied, Elements
<1>9. now.incumbent = start.incumbent <=> ~s.improved
  BY <1>6 DEF Searcher
<1>10. s.round + 1 \in 1..MaxRounds
  BY <1>2, SearchBounds
<1>11. QED
  BY <1>6, <1>7, <1>8, <1>9, <1>10

LEMMA FollowsRound ==
    ASSUME NEW land \in Landscapes, NEW records, NEW s \in Walker, Follows(land, records, s),
           ~(s.operation <= OperationsIn(s.round)), Continues(land, records, s)
    PROVE  Follows(land, records, Rounding(s))
<1>1. PICK later : later = Rounds(land)[s.round + 1]
  OBVIOUS
<1>2. /\ later \in Searcher /\ later.records = records /\ later.incumbent = s.incumbent
      /\ ~later.cut /\ s.round + 1 \in 1..MaxRounds /\ ~later.over
  BY <1>1, FollowsEnd DEF Continues
<1>3. PICK t : t = Rounding(s)
  OBVIOUS
<1>4. /\ t.round = s.round + 1 /\ t.operation = 1 /\ t.cursor = s.cursor
      /\ t.verdict = s.verdict /\ t.incumbent = s.incumbent /\ ~t.improved
  BY <1>3 DEF Rounding, Walker
<1>5. t.round \in 0..(MaxRounds - 1) /\ t.round \in Nat
  BY <1>2, <1>4, SearchBounds DEF Continues
<1>6. t.operation \in 1..(OperationsIn(t.round) + 1)
  BY <1>4, <1>5, OperationsCount
<1>7. SearchAt(land, t.round, t.operation) = later
  BY <1>1, <1>2, <1>4, <1>5, EvalsTyped DEF SearchAt
<1>8. s.cursor = Len(records) /\ s.verdict = "open"
  BY DEF Follows
<1>9. Follows(land, records, t)
  BY <1>1, <1>2, <1>4, <1>5, <1>6, <1>7, <1>8, FollowsAt
<1>10. QED
  BY <1>3, <1>9

\* The search ends with the round that the reconstruction ends with.
LEMMA FollowsLast ==
    ASSUME NEW land \in Landscapes, NEW records, NEW s \in Walker, Follows(land, records, s),
           ~(s.operation <= OperationsIn(s.round)), ~Continues(land, records, s)
    PROVE  Search(land).records = records /\ ~Search(land).cut
<1>1. PICK later : later = Rounds(land)[s.round + 1]
  OBVIOUS
<1>2. /\ later.records = records /\ ~later.cut /\ s.round + 1 \in 1..MaxRounds
      /\ later.over \/ s.round + 1 = MaxRounds
  BY <1>1, FollowsEnd DEF Continues
<1>3. CASE later.over
  <2>1. s.round + 1 \in 0..MaxRounds
    BY <1>2, SearchBounds
  <2>2. Search(land) = later
    BY <1>1, <1>3, <2>1, RoundsGrow
  <2>3. QED
    BY <1>2, <2>2
<1>4. CASE s.round + 1 = MaxRounds
  BY <1>1, <1>2, <1>4 DEF Search
<1>5. QED
  BY <1>2, <1>3, <1>4

\* The bound cuts the search where it cuts the run.
LEMMA FollowsBound ==
    ASSUME NEW land \in Landscapes, NEW records, NEW s \in Walker, Follows(land, records, s),
           s.operation <= OperationsIn(s.round), Len(records) >= Bound
    PROVE  Search(land).records = records /\ Search(land).cut
<1>1. PICK start, now : Followed(land, records, s, start, now)
  BY Following
<1>2. s.round \in 0..(MaxRounds - 1) /\ s.operation \in 1..OperationsIn(s.round)
      /\ s.operation + 1 \in 1..(OperationsIn(s.round) + 1)
  <2>1. s.round \in Nat /\ s.operation \in Nat \ {0} /\ OperationsIn(s.round) \in Nat
    BY SearchBounds, OperationsCount DEF Walker
  <2>2. QED
    BY <1>1, <2>1 DEF Followed
<1>3. now \in Searcher /\ now.records = records /\ StandsAt(s, now, s.operation, s.round)
  BY <1>1, Zenon DEF Followed
<1>4. PICK after : after = [now EXCEPT !.cut = TRUE]
  OBVIOUS
<1>5. after = Evaluate(land, now, s.operation, s.round)
  <2>1. Len(now.records) >= Bound
    BY <1>3
  <2>2. Evaluate(land, now, s.operation, s.round) = [now EXCEPT !.cut = TRUE]
    BY <2>1, Zenon DEF Evaluate
  <2>3. QED
    BY <1>4, <2>2
<1>6. after.records = records /\ after.cut
  BY <1>3, <1>4 DEF Searcher
<1>7. SearchAt(land, s.round, s.operation + 1) = after
  BY <1>1, <1>2, <1>5, SearchNext DEF Followed
<1>8. Grows(after, Search(land))
  BY <1>1, <1>2, <1>7, SearchAhead DEF Followed
<1>9. QED
  BY <1>6, <1>8 DEF Grows

-----------------------------------------------------------------------------
(* A run is on the path of both                                              *)

LEMMA PathTyped ==
    ASSUME NEW land \in Landscapes, NEW records, NEW s, OnPath(land, records, s)
    PROVE  /\ s \in Walker /\ s.cursor = Len(records) /\ s.verdict = "open"
           /\ s.incumbent \in Vectors(records) \cup {None}
           /\ Agree(records, Search(land).records)
<1>1. s \in Walker
  BY VisitsTyped DEF OnPath
<1>2. Follows(land, records, s)
  BY DEF OnPath
<1>3. PICK start, now : Followed(land, records, s, start, now)
  BY <1>2, Following
<1>4. s.incumbent \in Vectors(records) \cup {None}
  BY <1>3 DEF Followed, Searcher
<1>5. QED
  BY <1>1, <1>2, <1>3, <1>4, FollowsPrefix DEF Followed

LEMMA PathBegin ==
    ASSUME NEW land \in Landscapes
    PROVE  OnPath(land, <<>>, Begin)
<1>1. 0 \in 0..Turns /\ Walk(land, <<>>)[0] = Begin
  BY Walks, TurnsTyped
<1>2. QED
  BY <1>1, FollowsBegin DEF OnPath, Visits

LEMMA PathSkip ==
    ASSUME NEW land \in Landscapes, NEW records \in Seq(CandidateRecord), NEW s,
           OnPath(land, records, s), s.operation <= OperationsIn(s.round),
           Tried(land, records, s), Len(records) < Bound
    PROVE  OnPath(land, records, Skipping(s))
<1>1. s \in Walker /\ s.verdict = "open" /\ Len(records) \in Nat
  BY PathTyped
<1>2. GoesOn(land, records, s, Skipping(s))
  BY DEF GoesOn
<1>3. Visits(land, records, Skipping(s))
  BY <1>1, <1>2, VisitsGoesOn DEF OnPath
<1>4. QED
  BY <1>1, <1>3, FollowsSkip DEF OnPath

LEMMA PathRound ==
    ASSUME NEW land \in Landscapes, NEW records \in Seq(CandidateRecord), NEW s,
           OnPath(land, records, s), ~(s.operation <= OperationsIn(s.round)),
           Continues(land, records, s)
    PROVE  OnPath(land, records, Rounding(s))
<1>1. s \in Walker /\ s.verdict = "open" /\ Len(records) \in Nat
  BY PathTyped
<1>2. GoesOn(land, records, s, Rounding(s))
  BY <1>1, Compared DEF GoesOn
<1>3. Visits(land, records, Rounding(s))
  BY <1>1, <1>2, VisitsGoesOn DEF OnPath
<1>4. QED
  BY <1>1, <1>3, FollowsRound DEF OnPath

LEMMA PathMatch ==
    ASSUME NEW land \in Landscapes, NEW records \in Seq(CandidateRecord), NEW s,
           OnPath(land, records, s), s.operation <= OperationsIn(s.round),
           ~Tried(land, records, s), Len(records) < Bound
    PROVE  /\ Append(records, Awaits(land, s)) \in Seq(CandidateRecord)
           /\ OnPath(land, Append(records, Awaits(land, s)), Matched(land, s, Tries(land, s)))
           /\ Agree(Append(records, Awaits(land, s)), Search(land).records)
<1>1. s \in Walker /\ s.verdict = "open" /\ s.cursor = Len(records)
  BY PathTyped
<1>2. PICK more : more = Append(records, Awaits(land, s))
  OBVIOUS
<1>3. Awaits(land, s) \in CandidateRecord
  BY <1>1, TriesTyped
<1>4. /\ more \in Seq(CandidateRecord) /\ Len(more) = Len(records) + 1 /\ Len(records) \in Nat
      /\ more[Len(records) + 1] = Awaits(land, s)
      /\ \A i \in 1..Len(records) : more[i] = records[i]
  BY <1>2, <1>3
<1>5. Agree(records, more)
  BY <1>4 DEF Agree
<1>6. Visits(land, more, s)
  BY <1>1, <1>5, VisitsWithMore DEF OnPath
<1>7. ~Tried(land, more, s)
  BY <1>1, <1>4 DEF Tried
<1>8. GoesOn(land, more, s, Matched(land, s, Tries(land, s)))
  BY <1>1, <1>4, <1>7 DEF GoesOn
<1>9. Visits(land, more, Matched(land, s, Tries(land, s)))
  BY <1>1, <1>4, <1>6, <1>8, VisitsGoesOn
<1>10. Follows(land, more, Matched(land, s, Tries(land, s)))
       /\ Agree(more, Search(land).records)
  BY <1>1, <1>2, FollowsMatch DEF OnPath
<1>11. QED
  BY <1>2, <1>4, <1>9, <1>10 DEF OnPath

\* A state on the path, written as the place of a run.
LEMMA PathPlace ==
    ASSUME NEW land \in Landscapes, NEW records \in Seq(CandidateRecord), NEW s,
           OnPath(land, records, s)
    PROVE  /\ s = PlaceAt(records, Reconstructed(land, records).progress, s.round, s.operation,
                          s.incumbent, s.improved)
           /\ s.incumbent = Reconstructed(land, records).incumbent
           /\ Reconstructed(land, records).verdict \in {"partial", "complete"}
<1>1. s \in Walker /\ s.cursor = Len(records) /\ s.verdict = "open" /\ Len(records) \in Nat
  BY PathTyped
<1>2. Settles(s, records, Reconstructed(land, records))
      /\ Reconstructed(land, records).verdict # "open"
  BY <1>1, PathSettles
<1>3. s = [round |-> s.round, operation |-> s.operation, incumbent |-> s.incumbent,
           improved |-> s.improved, cursor |-> s.cursor, progress |-> s.progress,
           verdict |-> s.verdict]
  BY <1>1 DEF Walker
<1>4. QED
  BY <1>1, <1>2, <1>3 DEF PlaceAt, Settles

-----------------------------------------------------------------------------
(* The selection                                                             *)

LEMMA VectorsTyped ==
    ASSUME NEW records \in Seq(CandidateRecord)
    PROVE  Vectors(records) \subseteq Vector
<1>1. \A i \in 1..Len(records) : records[i] \in CandidateRecord
  OBVIOUS
<1>2. \A r \in CandidateRecord : r.vector \in Vector
  BY DEF CandidateRecord
<1>3. QED
  BY <1>1, <1>2 DEF Vectors

LEMMA Highest ==
    ASSUME NEW land \in Landscapes, NEW records \in Seq(CandidateRecord),
           NEW S \in SUBSET Vectors(records), S # {}
    PROVE  \E v \in S : \A w \in S \ {v} : land.score[v] > land.score[w]
<1>1. land.score \in [Vector -> Nat]
      /\ \A v, w \in Vector : land.score[v] = land.score[w] => v = w
  BY LandscapesTyped
<1>2. PICK score \in [Vector -> Nat] :
          score = land.score /\ \A v, w \in Vector : score[v] = score[w] => v = w
  BY <1>1
<1>3. S \subseteq Vector
  BY VectorsTyped
\* The records up to n hold an element of S, and then one of the highest score.
<1> DEFINE Upto(n) == {v \in S : \E i \in 1..n : records[i].vector = v}
           H == {n \in Nat : Upto(n) # {} =>
                   \E v \in Upto(n) : \A w \in Upto(n) \ {v} : score[v] > score[w]}
<1>4. 0 \in H
  OBVIOUS
<1>5. ASSUME NEW n \in 0..(Len(records) - 1), n \in H PROVE n + 1 \in H
  <2>1. PICK x : x = records[n + 1].vector
    OBVIOUS
  <2>2. Upto(n + 1) = Upto(n) \cup (S \cap {x})
    <3>1. 1..(n + 1) = 1..n \cup {n + 1}
      OBVIOUS
    <3>2. QED
      BY <2>1, <3>1
  <2>3. CASE x \notin S
    <3>1. Upto(n + 1) = Upto(n)
      BY <2>2, <2>3
    <3> HIDE DEF Upto
    <3>2. QED
      BY <1>5, <3>1
  <2>4. CASE x \in S /\ Upto(n) = {}
    <3>1. Upto(n + 1) = {x}
      BY <2>2, <2>4
    <3> HIDE DEF Upto
    <3>2. QED
      BY <3>1
  <2>5. CASE x \in S /\ Upto(n) # {}
    <3>1. PICK v \in Upto(n) : \A w \in Upto(n) \ {v} : score[v] > score[w]
      BY <1>5, <2>5
    <3>2. Upto(n + 1) = Upto(n) \cup {x} /\ Upto(n) \subseteq Vector /\ x \in Vector
      BY <1>3, <2>2, <2>5
    <3> HIDE DEF Upto
    <3>3. \A w \in Upto(n + 1) : w \in Vector /\ score[w] \in Nat
      BY <3>2
    <3>4. CASE x = v
      BY <3>1, <3>2, <3>4
    <3>5. CASE x # v /\ score[v] > score[x]
      <4>1. \A w \in Upto(n + 1) \ {v} : score[v] > score[w]
        BY <3>1, <3>2, <3>5
      <4>2. QED
        BY <3>2, <4>1
    <3>6. CASE x # v /\ score[x] > score[v]
      <4>1. v \in Vector
        BY <3>2
      <4>2. \A w \in Upto(n + 1) \ {x} : score[x] > score[w]
        BY <3>1, <3>2, <3>3, <3>6, <4>1
      <4>3. QED
        BY <3>2, <4>2
    <3>7. x # v => score[x] # score[v]
      BY <1>2, <3>2
    <3>8. score[x] \in Nat /\ score[v] \in Nat
      BY <3>2
    <3>9. QED
      BY <3>4, <3>5, <3>6, <3>7, <3>8
  <2>6. QED
    BY <2>3, <2>4, <2>5
<1>6. 0..Len(records) \subseteq H
  <2> HIDE DEF H
  <2>1. Len(records) \in Nat
    OBVIOUS
  <2>2. QED
    BY <1>4, <1>5, <2>1, InductionUpTo
<1>7. Upto(Len(records)) = S
  BY DEF Vectors
<1>8. Len(records) \in 0..Len(records)
  OBVIOUS
<1>9. Len(records) \in H
  BY <1>6, <1>8
<1>10. QED
  <2> HIDE DEF Upto
  <2>1. QED
    BY <1>2, <1>7, <1>9

LEMMA SelectedTyped ==
    ASSUME NEW land \in Landscapes, NEW records \in Seq(CandidateRecord)
    PROVE  /\ Selected(land, Vectors(records)) \in Vector \cup {None}
           /\ Selected(land, Vectors(records)) = None
                <=> ~\E v \in Vectors(records) : Accepted(land, v)
<1> DEFINE S == {v \in Vectors(records) : Accepted(land, v)}
<1>1. CASE S = {}
  BY <1>1 DEF Selected
<1>2. CASE S # {}
  <2>1. \E v \in S : \A w \in S \ {v} : land.score[v] > land.score[w]
    BY <1>2, Highest
  <2>2. Selected(land, Vectors(records)) \in S
    <3>1. Selected(land, Vectors(records))
            = CHOOSE v \in S : \A w \in S \ {v} : land.score[v] > land.score[w]
      BY <1>2, Zenon DEF Selected
    <3> HIDE DEF S
    <3>2. QED
      BY <2>1, <3>1, Zenon
  <2>3. Vectors(records) \subseteq Vector
    BY VectorsTyped
  <2>4. QED
    BY <2>2, <2>3, SearchBounds
<1>3. QED
  BY <1>1, <1>2

-----------------------------------------------------------------------------
(* What the steps leave alone                                                *)

SameSearch(r, u) ==
    /\ u.round = r.round /\ u.operation = r.operation /\ u.resume = r.resume
    /\ u.index = r.index /\ u.improved = r.improved /\ u.incumbent = r.incumbent
    /\ u.tried = r.tried /\ u.complete = r.complete /\ u.vector = r.vector
Moves(r, u, pc, seed, prior, failure) ==
    /\ u \in RunnerState /\ SameSearch(r, u)
    /\ u.pc = pc /\ u.seed = seed /\ u.prior = prior /\ u.failure = failure

LEMMA Moving ==
    ASSUME NEW r \in RunnerState, NEW pc \in Pc
    PROVE  /\ Moves(r, [r EXCEPT !.pc = pc], pc, r.seed, r.prior, r.failure)
           /\ \A seed \in 1..Seeds :
                Moves(r, [r EXCEPT !.pc = pc, !.seed = seed], pc, seed, r.prior, r.failure)
           /\ \A prior \in BOOLEAN :
                Moves(r, [r EXCEPT !.pc = pc, !.prior = prior], pc, r.seed, prior, r.failure)
           /\ \A failure \in Failure :
                Moves(r, [r EXCEPT !.pc = pc, !.failure = failure], pc, r.seed, r.prior, failure)
           /\ \A seed \in 1..Seeds :
                Moves(r, [r EXCEPT !.seed = seed], r.pc, seed, r.prior, r.failure)
<1>1. Moves(r, [r EXCEPT !.pc = pc], pc, r.seed, r.prior, r.failure)
  BY DEF Moves, SameSearch, RunnerState
<1>2. ASSUME NEW seed \in 1..Seeds
      PROVE  Moves(r, [r EXCEPT !.pc = pc, !.seed = seed], pc, seed, r.prior, r.failure)
  BY DEF Moves, SameSearch, RunnerState
<1>3. ASSUME NEW prior \in BOOLEAN
      PROVE  Moves(r, [r EXCEPT !.pc = pc, !.prior = prior], pc, r.seed, prior, r.failure)
  BY DEF Moves, SameSearch, RunnerState
<1>4. ASSUME NEW failure \in Failure
      PROVE  Moves(r, [r EXCEPT !.pc = pc, !.failure = failure], pc, r.seed, r.prior, failure)
  BY DEF Moves, SameSearch, RunnerState
<1>5. ASSUME NEW seed \in 1..Seeds
      PROVE  Moves(r, [r EXCEPT !.seed = seed], r.pc, seed, r.prior, r.failure)
  BY DEF Moves, SameSearch, RunnerState
<1>6. QED
  BY <1>1, <1>2, <1>3, <1>4, <1>5

\* What is archived of the search, and of the executions.
SameRecords(a, b) ==
    b.candidates = a.candidates /\ b.progress = a.progress /\ b.incumbent = a.incumbent
SameRuns(a, b) ==
    b.intents = a.intents /\ b.evidence = a.evidence /\ b.completed = a.completed
SameOutcome(a, b) == b.incidents = a.incidents /\ b.result = a.result

Attempts == Executes \cup Assesses \cup {"quarantine", "failure"}

\* A step of an execution or an assessment.
ExecutionStep ==
    /\ landscape' = landscape /\ answer' = answer
    /\ runner' \in RunnerState /\ SameSearch(runner, runner')
    /\ archive' \in ArchiveState /\ SameRecords(archive, archive') /\ SameOutcome(archive, archive')
    /\ archive'.status \in {archive.status, "FAILED"}
    /\ runner.pc \in Attempts /\ runner'.pc \in Attempts \cup {"incident"}
    /\ runner'.pc \in Executes \cup Assesses => runner.pc \in Executes \cup Assesses

LEMMA KeyTyped ==
    ASSUME TypeOK, runner.vector \in Vector
    PROVE  key \in Key /\ runner.seed \in 1..Seeds
  BY DEF TypeOK, RunnerState, Key, key

LEMMA ExecutionTyped ==
    ASSUME TypeOK, ExecutionStep,
           authority' \in [Key -> {"ABSENT", "PENDING", "FINALIZED"}], sent' \in SUBSET Key
    PROVE  TypeOK'
<1>1. runner'.pc \in Attempts => runner'.vector \in Vector
  BY DEF ExecutionStep, SameSearch, TypeOK, Attempts
<1>2. QED
  BY <1>1 DEF ExecutionStep, TypeOK, Attempts

\* The seed that follows, or the assessment.
NextSeeds ==
    \/ runner.seed = Seeds /\ runner'.pc = "assess" /\ runner'.seed = runner.seed
    \/ runner.seed # Seeds /\ runner'.pc = "intent" /\ runner'.seed = runner.seed + 1

LEMMA NextSeedStep ==
    ASSUME TypeOK, NextSeed
    PROVE  NextSeeds /\ runner' \in RunnerState /\ SameSearch(runner, runner')
<1>1. runner \in RunnerState /\ "assess" \in Pc /\ "intent" \in Pc
  BY DEF TypeOK, Pc, Executes, Assesses
<1>2. runner.seed \in 1..Seeds
  BY <1>1 DEF RunnerState
<1>3. CASE runner.seed = Seeds
  <2>1. Moves(runner, runner', "assess", runner.seed, runner.prior, runner.failure)
    BY <1>1, <1>3, Moving DEF NextSeed
  <2>2. QED
    BY <1>3, <2>1 DEF Moves, NextSeeds
<1>4. CASE runner.seed # Seeds
  <2>1. runner.seed + 1 \in 1..Seeds
    BY <1>2, <1>4, RunnerBounds
  <2>2. Moves(runner, runner', "intent", runner.seed + 1, runner.prior, runner.failure)
    BY <1>1, <1>4, <2>1, Moving DEF NextSeed
  <2>3. QED
    BY <1>4, <2>2 DEF Moves, NextSeeds
<1>5. QED
  BY <1>3, <1>4

\* Steps of an execution that archive nothing.
LEMMA Unarchived ==
    ASSUME TypeOK, UNCHANGED <<landscape, archive, answer>>, runner' \in RunnerState,
           SameSearch(runner, runner'), runner.pc \in Attempts,
           runner'.pc \in Attempts \cup {"incident"},
           runner'.pc \in Executes \cup Assesses => runner.pc \in Executes \cup Assesses
    PROVE  ExecutionStep
  BY DEF ExecutionStep, TypeOK, SameRecords, SameOutcome

LEMMA RecordIntentStep ==
    ASSUME TypeOK, RecordIntent
    PROVE  /\ ExecutionStep /\ TypeOK' /\ runner.pc = "intent"
           /\ runner'.pc = "begin" /\ runner'.seed = runner.seed
           /\ archive'.intents = archive.intents \cup {key}
           /\ archive'.evidence = archive.evidence /\ archive'.completed = archive.completed
           /\ archive'.run = archive.run /\ authority' = authority
<1>1. runner.pc = "intent" /\ runner \in RunnerState /\ archive \in ArchiveState
  BY DEF RecordIntent, at, TypeOK
<1>2. key \in Key
  BY <1>1, KeyTyped DEF TypeOK, Executes
<1>3. Moves(runner, runner', "begin", runner.seed, key \in archive.intents, runner.failure)
  <2>1. "begin" \in Pc /\ (key \in archive.intents) \in BOOLEAN
    BY DEF Pc, Executes
  <2>2. QED
    BY <1>1, <2>1, Moving DEF RecordIntent
<1>4. archive.intents \cup {key} \in SUBSET Key
  BY <1>1, <1>2 DEF ArchiveState
<1>5. /\ archive' \in ArchiveState /\ SameRecords(archive, archive') /\ SameOutcome(archive, archive')
      /\ archive'.status = archive.status
      /\ archive'.intents = archive.intents \cup {key}
      /\ archive'.evidence = archive.evidence /\ archive'.completed = archive.completed
      /\ archive'.run = archive.run
  BY <1>1, <1>4 DEF RecordIntent, ArchiveState, SameRecords, SameOutcome
<1>6. UNCHANGED <<landscape, authority, sent, answer>>
  BY DEF RecordIntent
<1>7. ExecutionStep
  BY <1>1, <1>3, <1>5, <1>6 DEF ExecutionStep, Moves, Attempts, Executes
<1>8. TypeOK'
  BY <1>6, <1>7, ExecutionTyped DEF TypeOK
<1>9. QED
  BY <1>1, <1>3, <1>5, <1>6, <1>7, <1>8 DEF Moves

LEMMA UseCheckpointStep ==
    ASSUME TypeOK, UseCheckpoint
    PROVE  /\ ExecutionStep /\ TypeOK' /\ runner.pc = "begin" /\ NextSeeds
           /\ key \in archive.evidence /\ archive' = archive /\ authority' = authority
<1>1. runner.pc = "begin" /\ key \in archive.evidence /\ NextSeed
      /\ UNCHANGED <<landscape, archive, authority, sent, answer>>
  BY DEF UseCheckpoint, at
<1>2. NextSeeds /\ runner' \in RunnerState /\ SameSearch(runner, runner')
  BY <1>1, NextSeedStep
<1>3. runner'.pc \in {"assess", "intent"}
  BY <1>2 DEF NextSeeds
<1>4. ExecutionStep
  BY <1>1, <1>2, <1>3, Unarchived DEF Attempts, Executes, Assesses
<1>5. QED
  BY <1>1, <1>2, <1>4, ExecutionTyped DEF TypeOK

LEMMA RecordEvidenceStep ==
    ASSUME TypeOK, RecordEvidence
    PROVE  /\ ExecutionStep /\ TypeOK' /\ runner.pc = "evidence" /\ NextSeeds
           /\ archive'.intents = archive.intents
           /\ archive'.evidence = archive.evidence \cup {key}
           /\ archive'.completed = archive.completed
           /\ archive'.run = [archive.run EXCEPT ![key] = "SUCCEEDED"] /\ authority' = authority
<1>1. /\ runner.pc = "evidence" /\ NextSeed /\ archive \in ArchiveState
      /\ UNCHANGED <<landscape, authority, sent, answer>>
  BY DEF RecordEvidence, at, TypeOK
<1>2. NextSeeds /\ runner' \in RunnerState /\ SameSearch(runner, runner')
  BY <1>1, NextSeedStep
<1>3. runner'.pc \in {"assess", "intent"}
  BY <1>2 DEF NextSeeds
<1>4. key \in Key
  BY <1>1, KeyTyped DEF TypeOK, Executes
<1>5. /\ archive.evidence \cup {key} \in SUBSET Key
      /\ [archive.run EXCEPT ![key] = "SUCCEEDED"] \in [Key -> RunState]
  BY <1>1, <1>4 DEF ArchiveState, RunState
<1>6. archive' = [archive EXCEPT !.run = [@ EXCEPT ![key] = "SUCCEEDED"], !.evidence = @ \cup {key}]
  BY DEF RecordEvidence
<1>7. /\ archive' \in ArchiveState /\ SameRecords(archive, archive') /\ SameOutcome(archive, archive')
      /\ archive'.status = archive.status
      /\ archive'.intents = archive.intents
      /\ archive'.evidence = archive.evidence \cup {key}
      /\ archive'.completed = archive.completed
      /\ archive'.run = [archive.run EXCEPT ![key] = "SUCCEEDED"]
  BY <1>1, <1>5, <1>6 DEF ArchiveState, SameRecords, SameOutcome
<1>8. ExecutionStep
  BY <1>1, <1>2, <1>3, <1>7 DEF ExecutionStep, Attempts, Executes, Assesses
<1>9. QED
  BY <1>1, <1>2, <1>7, <1>8, ExecutionTyped DEF TypeOK

LEMMA BeginAttemptStep ==
    ASSUME TypeOK, BeginAttempt
    PROVE  /\ ExecutionStep /\ TypeOK' /\ runner.pc = "begin" /\ key \notin archive.evidence
           /\ runner'.pc = "dispatch" /\ runner'.seed = runner.seed
           /\ SameRuns(archive, archive') /\ key \in Key
           /\ archive'.run = [archive.run EXCEPT ![key] = "RUNNING"] /\ authority' = authority
<1>1. /\ runner.pc = "begin" /\ runner \in RunnerState /\ archive \in ArchiveState
      /\ key \notin archive.evidence /\ UNCHANGED <<landscape, authority, sent, answer>>
  BY DEF BeginAttempt, at, TypeOK
<1>2. key \in Key
  BY <1>1, KeyTyped DEF TypeOK, Executes
<1>3. Moves(runner, runner', "dispatch", runner.seed, runner.prior, runner.failure)
  <2>1. "dispatch" \in Pc
    BY DEF Pc, Executes
  <2>2. QED
    BY <1>1, <2>1, Moving DEF BeginAttempt, Goto
<1>4. [archive.run EXCEPT ![key] = "RUNNING"] \in [Key -> RunState]
  BY <1>1, <1>2 DEF ArchiveState, RunState
<1>5. archive' = [archive EXCEPT !.run = [@ EXCEPT ![key] = "RUNNING"]]
  BY DEF BeginAttempt
<1>6. /\ archive' \in ArchiveState /\ SameRecords(archive, archive') /\ SameOutcome(archive, archive')
      /\ archive'.status = archive.status /\ SameRuns(archive, archive')
      /\ archive'.run = [archive.run EXCEPT ![key] = "RUNNING"]
  BY <1>1, <1>4, <1>5 DEF ArchiveState, SameRecords, SameOutcome, SameRuns
<1>7. ExecutionStep
  BY <1>1, <1>3, <1>6 DEF ExecutionStep, Moves, Attempts, Executes
<1>8. QED
  BY <1>1, <1>2, <1>3, <1>6, <1>7, ExecutionTyped DEF TypeOK, Moves

\* The steps that only move the run on, to evidence, to a failure or further.
LEMMA MovedOn ==
    ASSUME TypeOK, UNCHANGED <<landscape, archive, authority, answer>>, sent' \in SUBSET Key,
           NEW pc \in Attempts \cup {"incident"}, NEW seed, NEW failure,
           Moves(runner, runner', pc, seed, runner.prior, failure), runner.pc \in Attempts,
           pc \in Executes \cup Assesses => runner.pc \in Executes \cup Assesses
    PROVE  ExecutionStep /\ TypeOK'
<1>1. ExecutionStep
  BY Unarchived DEF Moves
<1>2. QED
  BY <1>1, ExecutionTyped DEF TypeOK

Failing(pc) == pc = "failure" \/ pc = "quarantine"

LEMMA DispatchStep ==
    ASSUME TypeOK, Dispatch
    PROVE  /\ ExecutionStep /\ TypeOK' /\ runner.pc = "dispatch"
           /\ runner'.seed = runner.seed /\ archive' = archive /\ authority' = authority
           /\ \/ runner'.pc = "evidence" /\ authority[key] = "FINALIZED"
              \/ runner'.pc \in {"execute", "failure"}
<1>1. /\ runner.pc = "dispatch" /\ runner \in RunnerState /\ runner.pc \in Attempts
      /\ UNCHANGED <<landscape, archive, authority, sent, answer>> /\ sent' \in SUBSET Key
  BY DEF Dispatch, at, TypeOK, Attempts, Executes
<1>2. key \in Key /\ authority[key] \in {"ABSENT", "PENDING", "FINALIZED"}
  BY <1>1, KeyTyped DEF TypeOK, Executes
<1>3. {"evidence", "execute", "failure"} \subseteq Pc /\ "QUARANTINED" \in Failure
      /\ {"evidence", "execute", "failure"} \subseteq Attempts
      /\ "dispatch" \in Executes
  BY DEF Pc, Executes, Failure, Attempts
<1>4. CASE authority[key] = "FINALIZED"
  <2>1. Goto("evidence")
    BY <1>4, Zenon DEF Dispatch
  <2>2. Moves(runner, runner', "evidence", runner.seed, runner.prior, runner.failure)
    BY <1>1, <1>3, <2>1, Moving DEF Goto
  <2>3. QED
    BY <1>1, <1>3, <1>4, <2>2, MovedOn DEF Moves
<1>5. CASE authority[key] = "PENDING"
  <2>1. Fail("QUARANTINED")
    BY <1>5 DEF Dispatch
  <2>2. Moves(runner, runner', "failure", runner.seed, runner.prior, "QUARANTINED")
    BY <1>1, <1>3, <2>1, Moving DEF Fail
  <2>3. QED
    BY <1>1, <1>3, <2>2, MovedOn DEF Moves
<1>6. CASE authority[key] = "ABSENT"
  <2>1. Goto("execute")
    BY <1>6 DEF Dispatch
  <2>2. Moves(runner, runner', "execute", runner.seed, runner.prior, runner.failure)
    BY <1>1, <1>3, <2>1, Moving DEF Goto
  <2>3. QED
    BY <1>1, <1>3, <2>2, MovedOn DEF Moves
<1>7. QED
  BY <1>2, <1>4, <1>5, <1>6

LEMMA ExecuteStep ==
    ASSUME TypeOK, Execute
    PROVE  /\ ExecutionStep /\ TypeOK' /\ runner.pc = "execute" /\ runner'.pc = "await"
           /\ runner'.seed = runner.seed /\ archive' = archive /\ authority' = authority
<1>1. /\ runner.pc = "execute" /\ runner \in RunnerState /\ runner.pc \in Attempts
      /\ UNCHANGED <<landscape, archive, authority, answer>>
  BY DEF Execute, at, TypeOK, Attempts, Executes
<1>2. key \in Key /\ "await" \in Pc \cap Attempts /\ "execute" \in Executes
  BY <1>1, KeyTyped DEF TypeOK, Executes, Pc, Attempts
<1>3. sent' \in SUBSET Key
  BY <1>2 DEF Execute, TypeOK
<1>4. Moves(runner, runner', "await", runner.seed, runner.prior, runner.failure)
  BY <1>1, <1>2, Moving DEF Execute, Goto
<1>5. QED
  BY <1>1, <1>2, <1>3, <1>4, MovedOn DEF Moves

LEMMA AcknowledgedStep ==
    ASSUME TypeOK, Acknowledged
    PROVE  /\ ExecutionStep /\ TypeOK' /\ runner.pc = "await" /\ runner'.pc = "evidence"
           /\ runner'.seed = runner.seed /\ archive' = archive /\ authority' = authority
           /\ authority[key] = "FINALIZED"
<1>1. /\ runner.pc = "await" /\ runner \in RunnerState /\ runner.pc \in Attempts
      /\ authority[key] = "FINALIZED"
      /\ UNCHANGED <<landscape, archive, authority, sent, answer>> /\ sent' \in SUBSET Key
  BY DEF Acknowledged, at, TypeOK, Attempts, Executes
<1>2. "evidence" \in Pc \cap Attempts /\ "await" \in Executes
  BY DEF Executes, Pc, Attempts
<1>3. Moves(runner, runner', "evidence", runner.seed, runner.prior, runner.failure)
  BY <1>1, <1>2, Moving DEF Acknowledged, Goto
<1>4. QED
  BY <1>1, <1>2, <1>3, MovedOn DEF Moves

\* The ways in which an execution fails.
LEMMA FailingStep ==
    ASSUME TypeOK, Unreachable \/ FailedExecution \/ Unacknowledged \/ RejectResult
    PROVE  /\ ExecutionStep /\ TypeOK'
           /\ runner.pc \in Executes \ {"intent", "begin"} /\ Failing(runner'.pc)
           /\ runner'.seed = runner.seed /\ archive' = archive /\ authority' = authority
<1>1. /\ runner.pc \in {"dispatch", "execute", "await", "evidence"}
      /\ UNCHANGED <<landscape, archive, authority, sent, answer>>
      /\ sent' \in SUBSET Key /\ runner \in RunnerState
  BY DEF Unreachable, FailedExecution, Unacknowledged, RejectResult, at, TypeOK
<1>2. \E pc \in {"failure", "quarantine"}, state \in Failure :
          runner' = [runner EXCEPT !.pc = pc, !.failure = state]
  BY DEF Unreachable, FailedExecution, Unacknowledged, RejectResult, Fail, Failure
<1>3. PICK pc \in {"failure", "quarantine"}, state \in Failure :
          runner' = [runner EXCEPT !.pc = pc, !.failure = state]
  BY <1>2
<1>4. pc \in Pc /\ pc \in Attempts /\ runner.pc \in Attempts
      /\ runner.pc \in Executes \ {"intent", "begin"}
  BY <1>1 DEF Pc, Attempts, Executes
<1>5. Moves(runner, runner', pc, runner.seed, runner.prior, state)
  BY <1>1, <1>3, <1>4, Moving
<1>6. QED
  BY <1>1, <1>4, <1>5, MovedOn DEF Moves, Failing

LEMMA AssessStep ==
    ASSUME TypeOK, Assess
    PROVE  /\ ExecutionStep /\ TypeOK' /\ runner.pc = "assess"
           /\ archive' = archive /\ authority' = authority
           /\ \/ runner'.pc = "incident"
              \/ /\ runner'.pc = "manifest" /\ runner'.seed = 1
                 /\ runner.vector \notin landscape.discloses
<1>1. /\ runner.pc = "assess" /\ runner \in RunnerState /\ runner.pc \in Attempts
      /\ UNCHANGED <<landscape, archive, authority, sent, answer>> /\ sent' \in SUBSET Key
  BY DEF Assess, at, TypeOK, Attempts, Assesses
<1>2. "incident" \in Pc /\ "manifest" \in Pc \cap Attempts /\ "assess" \in Assesses
      /\ 1 \in 1..Seeds
  BY RunnerBounds DEF Assesses, Pc, Attempts
<1>3. CASE runner.vector \in landscape.discloses
  <2>1. Moves(runner, runner', "incident", runner.seed, runner.prior, runner.failure)
    BY <1>1, <1>2, <1>3, Moving DEF Assess, Goto
  <2>2. QED
    BY <1>1, <1>2, <2>1, MovedOn DEF Moves
<1>4. CASE runner.vector \notin landscape.discloses
  <2>1. runner' = [runner EXCEPT !.pc = "manifest", !.seed = 1]
    BY <1>4, Zenon DEF Assess
  <2>2. Moves(runner, [runner EXCEPT !.pc = "manifest", !.seed = 1],
              "manifest", 1, runner.prior, runner.failure)
    BY <1>1, <1>2, Moving, Zenon
  <2>3. Moves(runner, runner', "manifest", 1, runner.prior, runner.failure)
    BY <2>1, <2>2, Zenon
  <2>4. QED
    BY <1>1, <1>2, <1>4, <2>3, MovedOn DEF Moves
<1>5. QED
  BY <1>3, <1>4

LEMMA QuarantineResultStep ==
    ASSUME TypeOK, QuarantineResult
    PROVE  /\ ExecutionStep /\ TypeOK' /\ runner.pc = "quarantine" /\ runner'.pc = "failure"
           /\ runner'.seed = runner.seed /\ SameRuns(archive, archive')
           /\ archive'.run = archive.run /\ authority' = authority
<1>1. /\ runner.pc = "quarantine" /\ runner \in RunnerState /\ archive \in ArchiveState
      /\ UNCHANGED <<landscape, authority, sent, answer>>
  BY DEF QuarantineResult, at, TypeOK
<1>2. key \in Key
  BY <1>1, KeyTyped DEF TypeOK
<1>3. Moves(runner, runner', "failure", runner.seed, runner.prior, runner.failure)
  <2>1. "failure" \in Pc
    BY DEF Pc
  <2>2. QED
    BY <1>1, <2>1, Moving DEF QuarantineResult, Goto
<1>4. /\ archive' \in ArchiveState /\ SameRecords(archive, archive') /\ SameOutcome(archive, archive')
      /\ archive'.status = archive.status /\ SameRuns(archive, archive')
      /\ archive'.run = archive.run
  BY <1>1, <1>2 DEF QuarantineResult, ArchiveState, SameRecords, SameOutcome, SameRuns
<1>5. ExecutionStep
  BY <1>1, <1>3, <1>4 DEF ExecutionStep, Moves, Attempts, Executes, Assesses
<1>6. QED
  BY <1>1, <1>3, <1>4, <1>5, ExecutionTyped DEF TypeOK, Moves

LEMMA RecordManifestStep ==
    ASSUME TypeOK, RecordManifest
    PROVE  /\ ExecutionStep /\ TypeOK' /\ runner.pc = "manifest"
           /\ archive'.intents = archive.intents /\ archive'.evidence = archive.evidence
           /\ archive'.completed = archive.completed \cup {key}
           /\ archive'.run = archive.run /\ authority' = authority
           /\ \/ runner.seed = Seeds /\ runner'.pc = "candidate" /\ runner'.seed = runner.seed
              \/ runner.seed # Seeds /\ runner'.pc = "manifest" /\ runner'.seed = runner.seed + 1
<1>1. /\ runner.pc = "manifest" /\ runner \in RunnerState /\ archive \in ArchiveState
      /\ UNCHANGED <<landscape, authority, sent, answer>>
  BY DEF RecordManifest, at, TypeOK
<1>2. key \in Key /\ runner.seed \in 1..Seeds
  BY <1>1, KeyTyped DEF TypeOK, Assesses
<1>3. /\ archive' \in ArchiveState /\ SameRecords(archive, archive') /\ SameOutcome(archive, archive')
      /\ archive'.status = archive.status
      /\ archive'.intents = archive.intents /\ archive'.evidence = archive.evidence
      /\ archive'.completed = archive.completed \cup {key} /\ archive'.run = archive.run
  BY <1>1, <1>2 DEF RecordManifest, ArchiveState, SameRecords, SameOutcome
<1>4. \/ /\ runner.seed = Seeds
         /\ Moves(runner, runner', "candidate", runner.seed, runner.prior, runner.failure)
      \/ /\ runner.seed # Seeds
         /\ Moves(runner, runner', "manifest", runner.seed + 1, runner.prior, runner.failure)
  <2>1. {"candidate", "manifest"} \subseteq Pc
    BY DEF Pc, Assesses
  <2>2. CASE runner.seed = Seeds
    BY <1>1, <2>1, <2>2, Moving DEF RecordManifest
  <2>3. CASE runner.seed # Seeds
    <3>1. runner.seed + 1 \in 1..Seeds
      BY <1>2, <2>3, RunnerBounds
    <3>2. QED
      BY <1>1, <2>1, <2>3, <3>1, Moving DEF RecordManifest
  <2>4. QED
    BY <2>2, <2>3
<1>5. ExecutionStep
  BY <1>1, <1>3, <1>4 DEF ExecutionStep, Moves, Attempts, Executes, Assesses
<1>6. TypeOK'
  BY <1>1, <1>5, ExecutionTyped DEF TypeOK
<1>7. QED
  BY <1>1, <1>3, <1>4, <1>5, <1>6 DEF Moves

LEMMA IdleTyped == Idle \in RunnerState /\ Idle.pc = "down" /\ Idle.complete
  BY RunnerBounds
  DEF Idle, RunnerState, NoProgress, Progress, Parameters, Pc, Failure

\* A step after which no run is at work.
StopStep ==
    /\ landscape' = landscape /\ runner' = Idle /\ runner.pc # "down"
    /\ archive' \in ArchiveState /\ SameRecords(archive, archive') /\ SameRuns(archive, archive')

LEMMA StopTyped ==
    ASSUME TypeOK, StopStep, authority' = authority, sent' = sent
    PROVE  TypeOK'
<1>1. runner' \in RunnerState /\ runner'.pc = "down"
  BY IdleTyped DEF StopStep
<1>2. QED
  BY <1>1 DEF StopStep, TypeOK, Executes, Assesses

LEMMA RecordFailureStep ==
    ASSUME TypeOK, RecordFailure
    PROVE  /\ TypeOK' /\ runner.pc = "failure" /\ key \in Key
           /\ \/ ExecutionStep /\ runner'.pc = "incident"
              \/ StopStep
           /\ archive'.status \in {archive.status, "FAILED"}
           /\ SameOutcome(archive, archive') /\ SameRuns(archive, archive')
           /\ \E state \in RunState : archive'.run = [archive.run EXCEPT ![key] = state]
           /\ authority' = authority /\ answer' = answer
<1>1. /\ runner.pc = "failure" /\ runner \in RunnerState /\ archive \in ArchiveState
      /\ UNCHANGED <<landscape, authority, sent, answer>>
  BY DEF RecordFailure, at, TypeOK
<1>2. key \in Key
  BY <1>1, KeyTyped DEF TypeOK
<1>3. PICK state \in RunState, status \in {archive.status, "FAILED"} :
        archive' = [archive EXCEPT !.run = [@ EXCEPT ![key] = state], !.status = status]
  <2>1. PICK state : state = IF runner.failure = "BREACH" THEN "FAILED_TERMINAL" ELSE runner.failure
    OBVIOUS
  <2>2. state \in RunState
    BY <1>1, <2>1 DEF RunnerState, Failure, RunState
  <2>3. PICK status : status = IF state = "FAILED_TERMINAL" THEN "FAILED" ELSE archive.status
    OBVIOUS
  <2>4. archive' = [archive EXCEPT !.run = [@ EXCEPT ![key] = state], !.status = status]
    BY <2>1, <2>3 DEF RecordFailure
  <2>5. status \in {archive.status, "FAILED"}
    BY <2>3
  <2>6. QED
    BY <2>2, <2>4, <2>5
<1>4. [archive.run EXCEPT ![key] = state] \in [Key -> RunState] /\ status \in Status
  BY <1>1, <1>2 DEF ArchiveState, Status
<1>5. /\ archive' \in ArchiveState /\ SameRecords(archive, archive') /\ SameOutcome(archive, archive')
      /\ archive'.status = status /\ SameRuns(archive, archive')
      /\ archive'.run = [archive.run EXCEPT ![key] = state]
  BY <1>1, <1>3, <1>4 DEF ArchiveState, SameRecords, SameOutcome, SameRuns
<1>6. CASE runner.failure = "BREACH"
  <2>1. Moves(runner, runner', "incident", runner.seed, runner.prior, runner.failure)
    <3>1. "incident" \in Pc
      BY DEF Pc
    <3>2. QED
      BY <1>1, <1>6, <3>1, Moving DEF RecordFailure, Goto
  <2>2. ExecutionStep
    BY <1>1, <1>5, <2>1 DEF ExecutionStep, Moves, Attempts, Executes, Assesses
  <2>3. TypeOK'
    BY <1>1, <2>2, ExecutionTyped DEF TypeOK
  <2>4. QED
    BY <1>1, <1>2, <1>5, <2>1, <2>2, <2>3 DEF Moves
<1>7. CASE runner.failure # "BREACH"
  <2>1. runner' = Idle
    BY <1>7 DEF RecordFailure, Throw
  <2>2. StopStep
    BY <1>1, <1>5, <2>1 DEF StopStep
  <2>3. TypeOK'
    BY <1>1, <2>2, StopTyped
  <2>4. QED
    BY <1>1, <1>2, <1>5, <2>2, <2>3
<1>8. QED
  BY <1>6, <1>7

LEMMA RecordIncidentStep ==
    ASSUME TypeOK, RecordIncident
    PROVE  /\ StopStep /\ TypeOK' /\ archive'.status = "FAILED"
           /\ archive'.run = archive.run /\ archive'.result = archive.result
           /\ authority' = authority /\ answer' = answer
<1>1. /\ runner.pc = "incident" /\ archive \in ArchiveState /\ runner' = Idle
      /\ UNCHANGED <<landscape, authority, sent, answer>>
  BY DEF RecordIncident, at, TypeOK, Throw
<1>2. /\ archive' \in ArchiveState /\ SameRecords(archive, archive') /\ SameRuns(archive, archive')
      /\ archive'.status = "FAILED" /\ archive'.run = archive.run /\ archive'.result = archive.result
  <2>1. PICK more \in Nat : more = archive.incidents + 1
    BY <1>1 DEF ArchiveState
  <2>2. archive' = [archive EXCEPT !.incidents = more, !.status = "FAILED"]
    BY <2>1 DEF RecordIncident
  <2>3. QED
    BY <1>1, <2>2 DEF ArchiveState, SameRecords, SameRuns, Status
<1>3. StopStep
  BY <1>1, <1>2 DEF StopStep
<1>4. QED
  BY <1>1, <1>2, <1>3, StopTyped

LEMMA DieStep ==
    ASSUME TypeOK, Die
    PROVE  StopStep /\ TypeOK' /\ archive' = archive /\ authority' = authority /\ answer' = answer
<1>1. StopStep /\ UNCHANGED <<archive, authority, sent, answer>>
  BY DEF Die, at, Throw, StopStep, TypeOK, SameRecords, SameRuns
<1>2. QED
  BY <1>1, StopTyped

LEMMA ResultTyped ==
    ASSUME TypeOK
    PROVE  Result(archive) \in Parameters
<1>1. archive.candidates \in Seq(CandidateRecord) /\ landscape \in Landscapes
  BY DEF TypeOK, ArchiveState
<1>2. QED
  BY <1>1, SelectedTyped DEF Result, Parameters

LEMMA ConcludeStep ==
    ASSUME TypeOK, Conclude
    PROVE  /\ StopStep /\ TypeOK' /\ runner.pc = "conclude" /\ archive'.run = archive.run
           /\ archive'.incidents = archive.incidents /\ authority' = authority
           /\ \/ /\ ~AnyAccepted \/ ~runner.complete
                 /\ answer' = "EXHAUSTED" /\ archive' = archive
              \/ /\ AnyAccepted /\ runner.complete
                 /\ answer' = Result(archive) /\ archive'.status = "COMPLETE"
                 /\ archive'.result = Result(archive)
<1>1. /\ runner.pc = "conclude" /\ archive \in ArchiveState /\ runner' = Idle
      /\ UNCHANGED <<landscape, authority, sent>>
  BY DEF Conclude, at, TypeOK, Throw
<1>2. CASE ~AnyAccepted \/ ~runner.complete
  <2>1. answer' = "EXHAUSTED" /\ archive' = archive
    BY <1>2, Zenon DEF Conclude
  <2>2. StopStep
    BY <1>1, <2>1 DEF StopStep, SameRecords, SameRuns
  <2>3. QED
    BY <1>1, <1>2, <2>1, <2>2, StopTyped
<1>3. CASE AnyAccepted /\ runner.complete
  <2>1. PICK result \in Parameters : result = Result(archive)
    BY ResultTyped
  <2>2. answer' = result /\ archive' = [archive EXCEPT !.status = "COMPLETE", !.result = result]
    BY <1>3, <2>1, Zenon DEF Conclude
  <2>3. /\ archive' \in ArchiveState /\ SameRecords(archive, archive') /\ SameRuns(archive, archive')
        /\ archive'.status = "COMPLETE" /\ archive'.result = result
        /\ archive'.run = archive.run /\ archive'.incidents = archive.incidents
    BY <1>1, <2>2 DEF ArchiveState, SameRecords, SameRuns, Status
  <2>4. StopStep
    BY <1>1, <2>3 DEF StopStep
  <2>5. QED
    BY <1>1, <1>3, <2>1, <2>2, <2>3, <2>4, StopTyped
<1>4. QED
  BY <1>2, <1>3

\* Steps of the authority and on the way to it.
LEMMA AuthorityStep ==
    ASSUME TypeOK, Authority \/ \E k \in Key : Lose(k)
    PROVE  /\ TypeOK' /\ UNCHANGED <<landscape, archive, runner, answer>>
           /\ \A k \in Key : authority[k] = "FINALIZED" => authority'[k] = "FINALIZED"
<1>1. ASSUME NEW k \in Key, Stage(k)
      PROVE  /\ TypeOK' /\ UNCHANGED <<landscape, archive, runner, answer>>
             /\ \A j \in Key : authority[j] = "FINALIZED" => authority'[j] = "FINALIZED"
  BY <1>1 DEF Stage, TypeOK, at
<1>2. ASSUME NEW k \in Key, Finalize(k)
      PROVE  /\ TypeOK' /\ UNCHANGED <<landscape, archive, runner, answer>>
             /\ \A j \in Key : authority[j] = "FINALIZED" => authority'[j] = "FINALIZED"
  BY <1>2 DEF Finalize, TypeOK, at
<1>3. ASSUME NEW k \in Key, Lose(k)
      PROVE  /\ TypeOK' /\ UNCHANGED <<landscape, archive, runner, answer>>
             /\ \A j \in Key : authority[j] = "FINALIZED" => authority'[j] = "FINALIZED"
  BY <1>3 DEF Lose, TypeOK, at
<1>4. QED
  BY <1>1, <1>2, <1>3 DEF Authority

LEMMA OpenCompleteStep ==
    ASSUME TypeOK, OpenComplete
    PROVE  /\ TypeOK' /\ UNCHANGED <<landscape, archive, authority, runner>>
           /\ answer' = archive.result /\ archive.status = "COMPLETE"
  BY DEF OpenComplete, TypeOK, at

-----------------------------------------------------------------------------
(* The steps of the search keep the invariant                                *)

\* Those that archive no execution and no candidate.
QuietStep ==
    /\ UNCHANGED <<landscape, authority, sent, answer>>
    /\ archive' \in ArchiveState /\ runner' \in RunnerState
    /\ archive'.candidates = archive.candidates /\ archive'.run = archive.run
    /\ SameRuns(archive, archive') /\ SameOutcome(archive, archive')
    /\ archive.status # "COMPLETE" /\ archive'.status # "COMPLETE"
    /\ \/ runner'.pc \notin Attempts
       \/ runner'.pc = "intent" /\ runner'.seed = 1 /\ runner'.vector \in Vector

LEMMA QuietKeeps ==
    ASSUME IInv, QuietStep
    PROVE  TypeOK' /\ EvidenceInv' /\ Final' = Final /\ Walked'
<1>1. TypeOK'
  BY DEF IInv, TypeOK, QuietStep, Attempts
<1>2. archive'.candidates = archive.candidates /\ landscape' = landscape /\ answer' = answer
      /\ authority' = authority
  BY DEF QuietStep
<1>3. Final' = Final /\ Walked'
  BY <1>2 DEF Final, Walked, IInv, PathInv
<1>4. Regenerated' /\ Announced' /\ Settled'
  BY <1>2 DEF IInv, EvidenceInv, Regenerated, Regenerates, Announced, Settled, QuietStep, SameRuns
<1>5. Executing'
  <2>1. CASE runner'.pc \notin Attempts
    BY <2>1 DEF Executing, Attempts, Executes, Assesses, at
  <2>2. CASE runner'.pc = "intent" /\ runner'.seed = 1
    <3>1. 1..(runner'.seed - 1) = {}
      BY <2>2
    <3>2. QED
      BY <2>2, <3>1 DEF Executing, Executes, Assesses, at
  <2>3. QED
    BY <2>1, <2>2 DEF QuietStep
<1>6. Closed'
  <2>1. archive.result = None /\ archive'.result = None
    BY DEF IInv, EvidenceInv, Closed, QuietStep, SameOutcome
  <2>2. (answer # None => Exhausts /\ answer = Outcome)'
    BY <1>2 DEF IInv, EvidenceInv, Closed, Exhausts, Outcome
  <2>3. QED
    BY <2>1, <2>2 DEF Closed, QuietStep
<1>7. QED
  BY <1>1, <1>3, <1>4, <1>5, <1>6 DEF EvidenceInv

\* A run that is at work works on an archive that is not complete.
LEMMA AtWork ==
    ASSUME IInv, runner.pc # "down"
    PROVE  archive.status # "COMPLETE" /\ archive.incidents = 0
  BY DEF IInv, PathInv, Abreast, EvidenceInv, Closed, at

LEMMA WalkedFacts ==
    ASSUME IInv
    PROVE  /\ landscape \in Landscapes /\ archive.candidates \in Seq(CandidateRecord)
           /\ Final \in Walker /\ Final.progress \in Progress /\ Final.incumbent \in Parameters
           /\ Final.progress.candidates = Len(archive.candidates)
           /\ Final.verdict \in {"partial", "complete"}
<1>1. landscape \in Landscapes /\ archive.candidates \in Seq(CandidateRecord)
  BY DEF IInv, TypeOK, ArchiveState
<1>2. Turns \in 0..Turns
  BY TurnsTyped
<1>3. Final \in Walker
  BY <1>1, <1>2, Walks DEF Final, Reconstructed
<1>4. OnPath(landscape, archive.candidates, Latest(Final))
  BY DEF IInv, PathInv, Walked
<1>5. Latest(Final).cursor = Len(archive.candidates)
  BY <1>1, <1>4, PathTyped
<1>6. Final.verdict \in {"partial", "complete"}
  BY <1>1, <1>4, PathPlace DEF Final
<1>7. QED
  BY <1>1, <1>3, <1>5, <1>6 DEF Walker, Latest

LEMMA OpenKeeps ==
    ASSUME IInv, Open
    PROVE  IInv'
<1>1. archive \in ArchiveState /\ runner \in RunnerState /\ runner.pc = "down"
  BY DEF IInv, TypeOK, Open, at
<1>2. Moves(runner, runner', "restore", runner.seed, runner.prior, runner.failure)
  <2>1. "restore" \in Pc
    BY DEF Pc
  <2>2. QED
    BY <1>1, <2>1, Moving DEF Open, Goto
<1>3. /\ archive' \in ArchiveState /\ SameRecords(archive, archive') /\ SameRuns(archive, archive')
      /\ SameOutcome(archive, archive') /\ archive'.run = archive.run
      /\ archive'.status # "COMPLETE" /\ archive.status # "COMPLETE"
      /\ archive'.incidents = 0
  BY <1>1 DEF Open, ArchiveState, SameRecords, SameRuns, SameOutcome, Status
<1>4. QuietStep
  BY <1>2, <1>3 DEF QuietStep, Moves, Open, Attempts, Executes, Assesses, SameRecords
<1>5. TypeOK' /\ EvidenceInv' /\ Walked'
  BY <1>4, QuietKeeps
<1>6. runner'.pc = "restore" /\ runner'.complete
  BY <1>1, <1>2 DEF Moves, SameSearch, IInv, PathInv, Abreast, at
<1>7. PathInv'
  BY <1>3, <1>5, <1>6
  DEF PathInv, Resuming, Abreast, Walking, Trying, Taken, Concludes, Kept, at, Executes, Assesses
<1>8. QED
  BY <1>5, <1>7 DEF IInv

LEMMA RestoreKeeps ==
    ASSUME IInv, Restore
    PROVE  IInv'
<1>1. archive \in ArchiveState /\ runner \in RunnerState /\ runner.pc = "restore"
  BY DEF IInv, TypeOK, Restore, at
<1>2. Moves(runner, runner', "bind", runner.seed, runner.prior, runner.failure)
  <2>1. "bind" \in Pc
    BY DEF Pc
  <2>2. QED
    BY <1>1, <2>1, Moving DEF Restore, Goto
<1>3. archive' = [archive EXCEPT !.progress = Final.progress, !.incumbent = Final.incumbent]
  BY DEF Restore, Restored, Final
<1>4. Final.progress \in Progress /\ Final.incumbent \in Parameters
      /\ Final.progress.candidates = Len(archive.candidates)
  BY WalkedFacts
<1>5. /\ archive' \in ArchiveState /\ archive'.candidates = archive.candidates
      /\ SameRuns(archive, archive') /\ archive'.status = archive.status
      /\ SameOutcome(archive, archive') /\ archive'.run = archive.run
      /\ archive'.progress = Final.progress /\ archive'.incumbent = Final.incumbent
  BY <1>1, <1>3, <1>4 DEF ArchiveState, SameRuns, SameOutcome
<1>6. QuietStep
  BY <1>1, <1>2, <1>5, AtWork DEF QuietStep, Moves, Restore, Attempts, Executes, Assesses
<1>7. TypeOK' /\ EvidenceInv' /\ Walked' /\ Final' = Final
  BY <1>6, QuietKeeps
<1>8. runner'.pc = "bind" /\ runner'.complete /\ archive'.incidents = 0
  BY <1>1, <1>2, <1>5, AtWork DEF Moves, SameSearch, SameOutcome, IInv, PathInv, Abreast, at
<1>9. PathInv'
  BY <1>4, <1>5, <1>7, <1>8
  DEF PathInv, Resuming, Abreast, Walking, Trying, Taken, Concludes, Kept, at, Executes, Assesses
<1>10. QED
  BY <1>7, <1>9 DEF IInv

LEMMA BindKeeps ==
    ASSUME IInv, Bind
    PROVE  IInv'
<1>1. archive \in ArchiveState /\ runner \in RunnerState /\ runner.pc = "bind"
  BY DEF IInv, TypeOK, Bind, at
<1>2. /\ archive.progress = Final.progress /\ archive.incumbent = Final.incumbent
      /\ archive.progress.candidates = Len(archive.candidates)
  BY <1>1 DEF IInv, PathInv, Resuming, Kept, at
<1>3. archive.progress \in Progress /\ archive.incumbent \in Parameters
      /\ Vectors(archive.candidates) \in SUBSET Vector
  BY <1>1, WalkedFacts, VectorsTyped DEF ArchiveState
<1>4. archive.progress.round \in Nat /\ archive.progress.candidates \in Nat /\ "round" \in Pc
  BY <1>3 DEF Progress, Pc
<1>5. runner' = [runner EXCEPT !.pc = "round", !.round = archive.progress.round,
                     !.resume = archive.progress, !.index = archive.progress.candidates,
                     !.incumbent = archive.incumbent, !.tried = Vectors(archive.candidates)]
      /\ archive' = [archive EXCEPT !.status = "RUNNING"]
      /\ UNCHANGED <<landscape, authority, sent, answer>>
  BY DEF Bind
<1>6. /\ runner' \in RunnerState /\ runner'.pc = "round"
      /\ runner'.round = archive.progress.round /\ runner'.resume = archive.progress
      /\ runner'.index = archive.progress.candidates
      /\ runner'.incumbent = archive.incumbent /\ runner'.tried = Vectors(archive.candidates)
      /\ runner'.complete = runner.complete
  BY <1>1, <1>3, <1>4, <1>5 DEF RunnerState
<1>7. /\ archive' \in ArchiveState /\ SameRecords(archive, archive') /\ SameRuns(archive, archive')
      /\ archive'.status = "RUNNING" /\ SameOutcome(archive, archive')
      /\ archive'.run = archive.run
  BY <1>1, <1>5 DEF ArchiveState, SameRecords, SameRuns, SameOutcome, Status
<1>8. QuietStep
  BY <1>1, <1>5, <1>6, <1>7, AtWork DEF QuietStep, Attempts, Executes, Assesses, SameRecords
<1>9. TypeOK' /\ EvidenceInv' /\ Walked' /\ Final' = Final
  BY <1>8, QuietKeeps
<1>10. runner'.complete /\ archive'.incidents = 0
  BY <1>1, <1>6, <1>7, AtWork DEF SameOutcome, IInv, PathInv, Abreast, at
<1>11. Latest(Final) = PlaceAt(archive.candidates, Final.progress, Final.progress.round,
                               Final.progress.operation + 1, Final.incumbent,
                               Final.progress.improved)
  BY WalkedFacts DEF Latest, PlaceAt
<1>12. OnPath(landscape, archive.candidates,
              PlaceAt(archive.candidates, Final.progress, Final.progress.round,
                      Final.progress.operation + 1, Final.incumbent, Final.progress.improved))
  BY <1>11 DEF IInv, PathInv, Walked
<1>13. Resuming'
  BY <1>2, <1>5, <1>6, <1>7, <1>9, <1>12 DEF Resuming, OnPlace, at, SameRecords
<1>14. Abreast'
  BY <1>2, <1>4, <1>6, <1>7, <1>10 DEF Abreast, at, SameRecords, Walking, Executes, Assesses
<1>15. Kept'
  BY <1>2, <1>7, <1>9 DEF Kept, SameRecords
<1>16. PathInv'
  BY <1>6, <1>9, <1>13, <1>14, <1>15
  DEF PathInv, Trying, Taken, Concludes, at, Executes, Assesses
<1>17. QED
  BY <1>9, <1>16 DEF IInv

LEMMA EnterRoundKeeps ==
    ASSUME IInv, EnterRound
    PROVE  IInv'
<1>1. archive \in ArchiveState /\ runner \in RunnerState /\ runner.pc = "round"
  BY DEF IInv, TypeOK, EnterRound, at
<1>2. /\ runner.index = Len(archive.candidates) /\ runner.tried = Vectors(archive.candidates)
      /\ archive.incumbent = runner.incumbent /\ runner.round >= runner.resume.round
      /\ archive.incumbent = Final.incumbent /\ runner.complete
      /\ archive.progress.candidates = Len(archive.candidates)
  BY <1>1 DEF IInv, PathInv, Abreast, Kept, Walking, at
<1>3. PICK improved \in BOOLEAN :
          improved = (runner.round = runner.resume.round /\ archive.progress.improved)
  BY <1>1 DEF ArchiveState, Progress
<1>4. runner' = [runner EXCEPT !.pc = "operation", !.operation = 1, !.improved = improved]
  BY <1>3 DEF EnterRound
<1>5. /\ runner' \in RunnerState /\ runner'.pc = "operation" /\ runner'.operation = 1
      /\ runner'.improved = improved /\ runner'.round = runner.round
      /\ runner'.resume = runner.resume /\ runner'.index = runner.index
      /\ runner'.incumbent = runner.incumbent /\ runner'.tried = runner.tried
      /\ runner'.complete = runner.complete
  <2>1. "operation" \in Pc /\ 1 \in Nat \ {0}
    BY DEF Pc
  <2>2. QED
    BY <1>1, <1>4, <2>1 DEF RunnerState
<1>6. PICK progress \in Progress :
        /\ archive' = [archive EXCEPT !.progress = progress]
        /\ progress.candidates = Len(archive.candidates)
  <2>1. CASE archive.progress.round = runner.round
    <3>1. archive' = archive
      BY <2>1 DEF EnterRound
    <3>2. archive' = [archive EXCEPT !.progress = archive.progress]
      BY <1>1, <3>1 DEF ArchiveState
    <3>3. archive.progress \in Progress
      BY <1>1 DEF ArchiveState
    <3>4. QED
      BY <1>2, <3>2, <3>3
  <2>2. CASE archive.progress.round # runner.round
    <3>1. PICK progress : progress = [round |-> runner.round, operation |-> 0,
                                      candidates |-> runner.index, improved |-> FALSE]
      OBVIOUS
    <3>2. progress \in Progress /\ progress.candidates = runner.index
      BY <1>1, <3>1 DEF Progress, RunnerState
    <3>3. archive' = [archive EXCEPT !.progress = progress]
      BY <2>2, <3>1 DEF EnterRound
    <3>4. QED
      BY <1>2, <3>2, <3>3
  <2>3. QED
    BY <2>1, <2>2
<1>7. /\ archive' \in ArchiveState /\ archive'.candidates = archive.candidates
      /\ SameRuns(archive, archive') /\ archive'.status = archive.status
      /\ SameOutcome(archive, archive') /\ archive'.run = archive.run
      /\ archive'.progress = progress /\ archive'.incumbent = archive.incumbent
  BY <1>1, <1>6 DEF ArchiveState, SameRuns, SameOutcome
<1>8. UNCHANGED <<landscape, authority, sent, answer>>
  BY DEF EnterRound
<1>9. QuietStep
  BY <1>1, <1>5, <1>7, <1>8, AtWork DEF QuietStep, Attempts, Executes, Assesses
<1>10. TypeOK' /\ EvidenceInv' /\ Walked' /\ Final' = Final
  BY <1>9, QuietKeeps
<1>11. archive'.incidents = 0
  BY <1>1, <1>7, AtWork DEF SameOutcome
<1>12. Resuming'
  <2>1. runner.resume.operation \in Nat
    BY <1>1 DEF RunnerState, Progress
  <2>2. CASE runner.round = runner.resume.round
    <3>1. OnPath(landscape, archive.candidates,
                 PlaceAt(archive.candidates, Final.progress, runner.round,
                         runner.resume.operation + 1, runner.incumbent, improved))
      <4>1. improved = archive.progress.improved
        BY <1>1, <1>3, <2>2 DEF ArchiveState, Progress
      <4>2. OnPlace(runner.resume.operation + 1, runner.incumbent, archive.progress.improved)
        BY <1>1, <2>2 DEF IInv, PathInv, Resuming, at
      <4>3. QED
        BY <4>1, <4>2 DEF OnPlace
    <3>2. PICK o : o = IF Resumed' THEN runner.resume.operation + 1 ELSE 1
      OBVIOUS
    <3>3. o = runner.resume.operation + 1
      BY <1>5, <2>1, <2>2, <3>2 DEF Resumed
    <3>4. QED
      BY <1>5, <1>7, <1>8, <1>10, <3>1, <3>2, <3>3 DEF Resuming, OnPlace, at
  <2>3. CASE runner.round # runner.resume.round
    <3>1. OnPath(landscape, archive.candidates,
                 PlaceAt(archive.candidates, Final.progress, runner.round,
                         1, runner.incumbent, FALSE))
      BY <1>1, <2>3 DEF IInv, PathInv, Resuming, OnPlace, at
    <3>2. ~Resumed' /\ improved = FALSE
      BY <1>3, <1>5, <2>3 DEF Resumed
    <3>3. QED
      BY <1>5, <1>7, <1>8, <1>10, <3>1, <3>2 DEF Resuming, OnPlace, at
  <2>4. QED
    BY <2>2, <2>3
<1>13. Abreast'
  BY <1>2, <1>5, <1>7, <1>11 DEF Abreast, at, Walking
<1>14. Kept'
  BY <1>2, <1>6, <1>7, <1>10 DEF Kept
<1>15. PathInv'
  BY <1>5, <1>10, <1>12, <1>13, <1>14
  DEF PathInv, Trying, Taken, Concludes, at, Executes, Assesses
<1>16. QED
  BY <1>10, <1>15 DEF IInv

LEMMA Stepping ==
    ASSUME NEW s \in Walker
    PROVE  /\ Rounding(s) = [round |-> s.round + 1, operation |-> 1, incumbent |-> s.incumbent,
                             improved |-> FALSE, cursor |-> s.cursor, progress |-> s.progress,
                             verdict |-> s.verdict]
           /\ Skipping(s) = [round |-> s.round, operation |-> s.operation + 1,
                             incumbent |-> s.incumbent, improved |-> s.improved,
                             cursor |-> s.cursor, progress |-> s.progress,
                             verdict |-> s.verdict]
<1> DEFINE Loose ==
      [round : Nat, operation : Nat, incumbent : Parameters, improved : BOOLEAN,
       cursor : Nat, progress : Progress, verdict : {"open", "partial", "complete", "refused"}]
<1>1. \A x \in Loose : x = [round |-> x.round, operation |-> x.operation,
                           incumbent |-> x.incumbent, improved |-> x.improved,
                           cursor |-> x.cursor, progress |-> x.progress, verdict |-> x.verdict]
  OBVIOUS
<1>2. PICK round \in Nat, operation \in Nat : round = s.round + 1 /\ operation = s.operation + 1
  BY DEF Walker
<1>3. PICK x : x = Rounding(s)
  OBVIOUS
<1>4. /\ x \in Loose /\ x.round = round /\ x.operation = 1 /\ x.incumbent = s.incumbent
      /\ x.improved = FALSE /\ x.cursor = s.cursor /\ x.progress = s.progress
      /\ x.verdict = s.verdict
  BY <1>2, <1>3 DEF Rounding, Walker
<1>5. PICK y : y = Skipping(s)
  OBVIOUS
<1>6. /\ y \in Loose /\ y.round = s.round /\ y.operation = operation
      /\ y.incumbent = s.incumbent /\ y.improved = s.improved /\ y.cursor = s.cursor
      /\ y.progress = s.progress /\ y.verdict = s.verdict
  BY <1>2, <1>5 DEF Skipping, Walker
<1> HIDE DEF Loose
<1>7. QED
  BY <1>1, <1>2, <1>3, <1>4, <1>5, <1>6

\* The place of a run before its next operation, and what is known there.
Before(s) ==
    /\ OnPath(landscape, archive.candidates, s) /\ s \in Walker
    /\ s = PlaceAt(archive.candidates, Final.progress, runner.round,
                   s.operation, runner.incumbent, runner.improved)
    /\ s.round = runner.round /\ s.incumbent = runner.incumbent /\ s.improved = runner.improved
    /\ s.cursor = Len(archive.candidates) /\ s.progress = Final.progress /\ s.verdict = "open"
    /\ s.operation = IF Resumed THEN runner.resume.operation + 1 ELSE runner.operation

LEMMA BeforeOperation ==
    ASSUME IInv, runner.pc = "operation"
    PROVE  \E s : Before(s)
<1>1. PICK o : o = IF Resumed THEN runner.resume.operation + 1 ELSE runner.operation
  OBVIOUS
<1>2. PICK s : s = PlaceAt(archive.candidates, Final.progress, runner.round, o,
                           runner.incumbent, runner.improved)
  OBVIOUS
<1>3. OnPath(landscape, archive.candidates, s)
  BY <1>1, <1>2 DEF IInv, PathInv, Resuming, OnPlace, at
<1>4. s.operation = o
  BY <1>2 DEF PlaceAt
<1>5. /\ s.round = runner.round /\ s.incumbent = runner.incumbent /\ s.improved = runner.improved
      /\ s.cursor = Len(archive.candidates) /\ s.progress = Final.progress /\ s.verdict = "open"
  BY <1>2 DEF PlaceAt
<1>6. s \in Walker
  BY <1>3, WalkedFacts, PathTyped
<1>7. QED
  BY <1>1, <1>2, <1>3, <1>4, <1>5, <1>6 DEF Before

\* What a run tries is what the reconstruction tries.
LEMMA BeforeTries ==
    ASSUME NEW s, Before(s), ~Resumed
    PROVE  /\ next = Tries(landscape, s) /\ base = Base(s) /\ s.operation = runner.operation
           /\ OperationLeft <=> s.operation <= OperationsIn(s.round)
           /\ Tried(landscape, archive.candidates, s) <=> next \in Vectors(archive.candidates)
<1>1. s.round = runner.round /\ s.incumbent = runner.incumbent
      /\ s.operation = runner.operation /\ s.cursor = Len(archive.candidates)
  BY DEF Before
<1>2. next = Tries(landscape, s) /\ base = Base(s)
  BY <1>1 DEF next, base, Tries, Base
<1>3. QED
  BY <1>1, <1>2 DEF OperationLeft, Tried, Vectors

\* No operation is left only where none is resumed.
LEMMA BeforeEnd ==
    ASSUME IInv, runner.pc = "operation", NEW s, Before(s), ~OperationLeft
    PROVE  ~Resumed /\ ~(s.operation <= OperationsIn(s.round))
<1>1. s.operation \in 1..(OperationsIn(s.round) + 1)
  BY DEF Before, OnPath, Follows
<1>2. /\ s.round = runner.round
      /\ s.operation = IF Resumed THEN runner.resume.operation + 1 ELSE runner.operation
  BY DEF Before
<1>3. runner \in RunnerState
  BY DEF IInv, TypeOK
<1>4. runner.operation \in Nat /\ runner.round \in Nat /\ runner.resume.operation \in Nat
  BY <1>3 DEF RunnerState, Progress
<1>5. OperationsIn(runner.round) \in Nat
  BY <1>4, OperationsCount
<1>6. runner.operation > OperationsIn(runner.round)
  BY <1>4, <1>5 DEF OperationLeft
<1>7. ~Resumed
  BY <1>1, <1>2, <1>4, <1>5, <1>6 DEF Resumed
<1>8. QED
  BY <1>2, <1>4, <1>5, <1>6, <1>7

LEMMA EndRoundKeeps ==
    ASSUME IInv, EndRound
    PROVE  IInv'
<1>1. archive \in ArchiveState /\ runner \in RunnerState /\ runner.pc = "operation"
      /\ ~OperationLeft
  BY DEF IInv, TypeOK, EndRound, at
<1>2. PICK s : Before(s)
  BY <1>1, BeforeOperation
<1>3. ~Resumed /\ ~(s.operation <= OperationsIn(s.round))
  BY <1>1, <1>2, BeforeEnd
<1>4. /\ runner.index = Len(archive.candidates) /\ runner.tried = Vectors(archive.candidates)
      /\ archive.incumbent = runner.incumbent /\ runner.round >= runner.resume.round
      /\ archive.incumbent = Final.incumbent /\ runner.complete
      /\ archive.progress.candidates = Len(archive.candidates)
  BY <1>1 DEF IInv, PathInv, Abreast, Kept, Walking, at
<1>5. Continues(landscape, archive.candidates, s)
        <=> ~(AnyAccepted \/ ~runner.improved \/ runner.round + 1 = MaxRounds)
  BY <1>2 DEF Continues, AnyAccepted, Assessed, Vectors, Before
<1>6. /\ OnPath(landscape, archive.candidates, s) /\ s \in Walker
      /\ landscape \in Landscapes /\ archive.candidates \in Seq(CandidateRecord)
      /\ Len(archive.candidates) \in Nat /\ Follows(landscape, archive.candidates, s)
  BY <1>2, WalkedFacts DEF Before, OnPath
<1>7. UNCHANGED <<landscape, archive, authority, sent, answer>>
  BY DEF EndRound
<1>8. archive'.incidents = 0 /\ archive.status # "COMPLETE"
  BY <1>1, <1>7, AtWork
<1>9. CASE ~Continues(landscape, archive.candidates, s)
  <2>1. Moves(runner, runner', "conclude", runner.seed, runner.prior, runner.failure)
    <3>1. "conclude" \in Pc
      BY DEF Pc
    <3>2. QED
      BY <1>1, <1>5, <1>9, <3>1, Moving DEF EndRound, Goto
  <2>2. QuietStep
    BY <1>1, <1>7, <1>8, <2>1
    DEF QuietStep, Moves, SameRuns, SameOutcome, Attempts, Executes, Assesses
  <2>3. TypeOK' /\ EvidenceInv' /\ Walked' /\ Final' = Final
    BY <2>2, QuietKeeps
  <2>4. Search(landscape).records = archive.candidates /\ ~Search(landscape).cut
    BY <1>3, <1>6, <1>9, FollowsLast
  <2>5. Final.verdict = "complete"
    BY <1>3, <1>6, <1>9, PathCompletes DEF Final
  <2>6. runner'.pc = "conclude" /\ runner'.complete
    BY <1>4, <2>1 DEF Moves, SameSearch
  <2>7. Concludes'
    <3>1. Search(landscape).cut = FALSE
      BY <1>6, <2>4, SearchCut
    <3>2. runner'.complete = TRUE
      BY <2>3, <2>6 DEF TypeOK, RunnerState
    <3>3. QED
      BY <1>7, <2>3, <2>4, <2>5, <3>1, <3>2 DEF Concludes, Exhausts
  <2>8. PathInv'
    BY <1>4, <1>7, <1>8, <2>3, <2>6, <2>7
    DEF PathInv, Resuming, Abreast, Trying, Taken, Kept, at, Walking, Executes, Assesses
  <2>9. QED
    BY <2>3, <2>8 DEF IInv
<1>10. CASE Continues(landscape, archive.candidates, s)
  <2>1. runner' = [runner EXCEPT !.pc = "round", !.round = runner.round + 1]
    BY <1>5, <1>10 DEF EndRound
  <2>2. /\ runner' \in RunnerState /\ runner'.pc = "round" /\ runner'.round = runner.round + 1
        /\ runner'.resume = runner.resume /\ runner'.index = runner.index
        /\ runner'.incumbent = runner.incumbent /\ runner'.tried = runner.tried
        /\ runner'.complete = runner.complete
    <3>1. "round" \in Pc /\ runner.round + 1 \in Nat
      BY <1>1 DEF Pc, RunnerState
    <3>2. QED
      BY <1>1, <2>1, <3>1 DEF RunnerState
  <2>3. QuietStep
    BY <1>1, <1>7, <1>8, <2>2
    DEF QuietStep, SameRuns, SameOutcome, Attempts, Executes, Assesses
  <2>4. TypeOK' /\ EvidenceInv' /\ Walked' /\ Final' = Final
    BY <2>3, QuietKeeps
  <2>5. OnPath(landscape, archive.candidates, Rounding(s))
    BY <1>3, <1>6, <1>10, PathRound
  <2>6. Rounding(s) = PlaceAt(archive.candidates, Final.progress, runner.round + 1, 1,
                              runner.incumbent, FALSE)
    <3>1. Rounding(s) = [round |-> s.round + 1, operation |-> 1, incumbent |-> s.incumbent,
                         improved |-> FALSE, cursor |-> s.cursor, progress |-> s.progress,
                         verdict |-> s.verdict]
      BY <1>6, Stepping
    <3>2. /\ s.round = runner.round /\ s.incumbent = runner.incumbent
          /\ s.cursor = Len(archive.candidates) /\ s.progress = Final.progress
          /\ s.verdict = "open"
      BY <1>2, Zenon DEF Before
    <3>3. QED
      BY <3>1, <3>2 DEF PlaceAt
  <2>7. runner.round \in Nat /\ runner.resume.round \in Nat
    BY <1>1 DEF RunnerState, Progress
  <2>8. Resuming'
    <3>1. runner'.round # runner'.resume.round
      BY <1>4, <2>2, <2>7
    <3>2. QED
      BY <1>7, <2>2, <2>4, <2>5, <2>6, <3>1 DEF Resuming, OnPlace, at
  <2>9. runner'.round >= runner'.resume.round
    BY <1>4, <2>2, <2>7
  <2>10. PathInv'
    BY <1>4, <1>7, <1>8, <2>2, <2>4, <2>8, <2>9
    DEF PathInv, Abreast, Trying, Taken, Concludes, Kept, at, Walking, Executes, Assesses
  <2>11. QED
    BY <2>4, <2>10 DEF IInv
<1>11. QED
  BY <1>9, <1>10

LEMMA StopAtBoundKeeps ==
    ASSUME IInv, StopAtBound
    PROVE  IInv'
<1>1. archive \in ArchiveState /\ runner \in RunnerState /\ runner.pc = "operation"
      /\ OperationLeft /\ ~Resumed /\ runner.index >= Bound
  BY DEF IInv, TypeOK, StopAtBound, at
<1>2. PICK s : Before(s)
  BY <1>1, BeforeOperation
<1>3. /\ runner.index = Len(archive.candidates)
      /\ archive.incumbent = Final.incumbent
      /\ archive.progress.candidates = Len(archive.candidates)
  BY <1>1 DEF IInv, PathInv, Abreast, Kept, Walking, at
<1>4. s \in Walker /\ landscape \in Landscapes /\ Follows(landscape, archive.candidates, s)
      /\ s.operation <= OperationsIn(s.round)
  BY <1>1, <1>2, BeforeTries, WalkedFacts DEF Before, OnPath
<1>5. Search(landscape).records = archive.candidates /\ Search(landscape).cut
  BY <1>1, <1>3, <1>4, FollowsBound
<1>6. runner' = [runner EXCEPT !.pc = "conclude", !.complete = FALSE]
      /\ UNCHANGED <<landscape, archive, authority, sent, answer>>
  BY DEF StopAtBound
<1>7. /\ runner' \in RunnerState /\ runner'.pc = "conclude" /\ runner'.complete = FALSE
  <2>1. "conclude" \in Pc
    BY DEF Pc
  <2>2. QED
    BY <1>1, <1>6, <2>1 DEF RunnerState
<1>8. archive'.incidents = 0 /\ archive.status # "COMPLETE"
  BY <1>1, <1>6, AtWork
<1>9. QuietStep
  BY <1>1, <1>6, <1>7, <1>8
  DEF QuietStep, SameRuns, SameOutcome, Attempts, Executes, Assesses
<1>10. TypeOK' /\ EvidenceInv' /\ Walked' /\ Final' = Final
  BY <1>9, QuietKeeps
<1>11. Concludes'
  <2>1. Search(landscape).cut = TRUE
    BY <1>4, <1>5, SearchCut
  <2>2. QED
    BY <1>5, <1>6, <1>7, <2>1 DEF Concludes, Exhausts
<1>12. PathInv'
  BY <1>3, <1>6, <1>7, <1>8, <1>10, <1>11
  DEF PathInv, Resuming, Abreast, Trying, Taken, Kept, at, Walking, Executes, Assesses
<1>13. QED
  BY <1>10, <1>12 DEF IInv

LEMMA SkipOperationKeeps ==
    ASSUME IInv, SkipOperation
    PROVE  IInv'
<1>1. archive \in ArchiveState /\ runner \in RunnerState /\ runner.pc = "operation"
      /\ OperationLeft /\ (Resumed \/ (runner.index < Bound /\ next \in runner.tried))
  BY DEF IInv, TypeOK, SkipOperation, at
<1>2. PICK s : Before(s)
  BY <1>1, BeforeOperation
<1>3. /\ runner.index = Len(archive.candidates) /\ runner.tried = Vectors(archive.candidates)
      /\ archive.incumbent = runner.incumbent /\ runner.round >= runner.resume.round
      /\ archive.incumbent = Final.incumbent /\ runner.complete
      /\ archive.progress.candidates = Len(archive.candidates)
  BY <1>1 DEF IInv, PathInv, Abreast, Kept, Walking, at
<1>4. runner.operation + 1 \in Nat \ {0} /\ runner.operation \in Nat
      /\ runner.resume.operation \in Nat
  BY <1>1 DEF RunnerState, Progress
<1>5. runner' = [runner EXCEPT !.operation = runner.operation + 1]
      /\ UNCHANGED <<landscape, archive, authority, sent, answer>>
  BY DEF SkipOperation
<1>6. /\ runner' \in RunnerState /\ runner'.pc = "operation"
      /\ runner'.operation = runner.operation + 1 /\ runner'.round = runner.round
      /\ runner'.resume = runner.resume /\ runner'.index = runner.index
      /\ runner'.incumbent = runner.incumbent /\ runner'.tried = runner.tried
      /\ runner'.improved = runner.improved /\ runner'.complete = runner.complete
  BY <1>1, <1>4, <1>5 DEF RunnerState
<1>7. archive'.incidents = 0 /\ archive.status # "COMPLETE"
  BY <1>1, <1>5, AtWork
<1>8. QuietStep
  BY <1>1, <1>5, <1>6, <1>7
  DEF QuietStep, SameRuns, SameOutcome, Attempts, Executes, Assesses
<1>9. TypeOK' /\ EvidenceInv' /\ Walked' /\ Final' = Final
  BY <1>8, QuietKeeps
<1>10. PICK o : o = IF Resumed' THEN runner.resume.operation + 1 ELSE runner.operation + 1
  OBVIOUS
<1>11. OnPath(landscape, archive.candidates,
              PlaceAt(archive.candidates, Final.progress, runner.round, o,
                      runner.incumbent, runner.improved))
  <2>1. /\ s.round = runner.round /\ s.incumbent = runner.incumbent
        /\ s.improved = runner.improved /\ s \in Walker
        /\ s.cursor = Len(archive.candidates) /\ s.progress = Final.progress
        /\ s.verdict = "open" /\ OnPath(landscape, archive.candidates, s)
        /\ s.operation = IF Resumed THEN runner.resume.operation + 1 ELSE runner.operation
        /\ s = PlaceAt(archive.candidates, Final.progress, runner.round,
                       s.operation, runner.incumbent, runner.improved)
    BY <1>2, Zenon DEF Before
  <2>2. CASE Resumed
    <3>1. o = runner.resume.operation + 1
      BY <1>4, <1>6, <1>10, <2>2 DEF Resumed
    <3>2. s.operation = o
      BY <2>1, <2>2, <3>1
    <3>3. QED
      BY <2>1, <3>2
  <2>3. CASE ~Resumed
    <3>1. o = runner.operation + 1
      BY <1>4, <1>6, <1>10, <2>3 DEF Resumed
    <3>2. s.operation <= OperationsIn(s.round) /\ Tried(landscape, archive.candidates, s)
      BY <1>1, <1>2, <1>3, <2>3, BeforeTries
    <3>3. OnPath(landscape, archive.candidates, Skipping(s))
      BY <1>1, <1>3, <2>1, <2>3, <3>2, WalkedFacts, PathSkip
    <3>4. Skipping(s) = PlaceAt(archive.candidates, Final.progress, runner.round, o,
                                runner.incumbent, runner.improved)
      BY <2>1, <2>3, <3>1, Stepping DEF PlaceAt
    <3>5. QED
      BY <3>3, <3>4
  <2>4. QED
    BY <2>2, <2>3
<1>12. Resuming'
  BY <1>5, <1>6, <1>9, <1>10, <1>11 DEF Resuming, OnPlace, at
<1>13. PathInv'
  BY <1>3, <1>5, <1>6, <1>7, <1>9, <1>12
  DEF PathInv, Abreast, Trying, Taken, Concludes, Kept, at, Walking, Executes, Assesses
<1>14. QED
  BY <1>9, <1>13 DEF IInv

LEMMA TakeCandidateKeeps ==
    ASSUME IInv, TakeCandidate
    PROVE  IInv'
<1>1. archive \in ArchiveState /\ runner \in RunnerState /\ runner.pc = "operation"
      /\ OperationLeft /\ ~Resumed /\ runner.index < Bound /\ next \notin runner.tried
  BY DEF IInv, TypeOK, TakeCandidate, at
<1>2. PICK s : Before(s)
  BY <1>1, BeforeOperation
<1>3. /\ runner.index = Len(archive.candidates) /\ runner.tried = Vectors(archive.candidates)
      /\ archive.incumbent = runner.incumbent /\ runner.round >= runner.resume.round
      /\ archive.incumbent = Final.incumbent /\ runner.complete
      /\ archive.progress.candidates = Len(archive.candidates)
  BY <1>1 DEF IInv, PathInv, Abreast, Kept, Walking, at
<1>4. next \in Vector
  BY <1>1, <1>2, BeforeTries, TriesTyped, WalkedFacts DEF Before
<1>5. /\ runner.index + 1 \in Nat /\ "intent" \in Pc /\ 1 \in 1..Seeds
      /\ runner.tried \cup {next} \in SUBSET Vector /\ next \in Parameters
  BY <1>1, <1>4, RunnerBounds DEF RunnerState, Pc, Executes, Parameters
<1>6. UNCHANGED <<landscape, archive, authority, sent, answer>>
  BY DEF TakeCandidate
<1>7. PICK v, tried : v = next /\ tried = runner.tried \cup {next}
  OBVIOUS
<1>8. runner' = [runner EXCEPT !.pc = "intent", !.tried = tried, !.index = runner.index + 1,
                               !.vector = v, !.seed = 1]
  BY <1>7 DEF TakeCandidate
<1>9. /\ runner' \in RunnerState /\ runner'.pc = "intent" /\ runner'.seed = 1
      /\ runner'.operation = runner.operation /\ runner'.round = runner.round
      /\ runner'.resume = runner.resume /\ runner'.index = runner.index + 1
      /\ runner'.incumbent = runner.incumbent /\ runner'.tried = tried
      /\ runner'.improved = runner.improved /\ runner'.complete = runner.complete
      /\ runner'.vector = v
  BY <1>1, <1>5, <1>7, <1>8 DEF RunnerState
<1>10. archive'.incidents = 0 /\ archive.status # "COMPLETE"
  BY <1>1, <1>6, AtWork
<1>11. QuietStep
  BY <1>1, <1>4, <1>6, <1>7, <1>9, <1>10 DEF QuietStep, SameRuns, SameOutcome
<1>12. TypeOK' /\ EvidenceInv' /\ Walked' /\ Final' = Final
  BY <1>11, QuietKeeps
<1>13. OnPath(landscape, archive.candidates,
              PlaceAt(archive.candidates, Final.progress, runner.round, runner.operation,
                      runner.incumbent, runner.improved))
  BY <1>1, <1>2 DEF Before
<1>14. Trying'
  <2>1. Resumed' <=> Resumed
    BY <1>9 DEF Resumed
  <2>2. OperationLeft' <=> OperationLeft
    BY <1>9 DEF OperationLeft
  <2>3. next' = next
    BY <1>6, <1>9 DEF next, base
  <2>4. OnPlace(runner.operation, runner.incumbent, runner.improved)'
    BY <1>6, <1>9, <1>12, <1>13 DEF OnPlace
  <2>5. QED
    BY <1>1, <1>3, <1>6, <1>7, <1>9, <2>1, <2>2, <2>3, <2>4 DEF Trying
<1>15. PathInv'
  BY <1>3, <1>6, <1>9, <1>10, <1>12, <1>14
  DEF PathInv, Abreast, Resuming, Taken, Concludes, Kept, at, Walking, Executes, Assesses
<1>16. QED
  BY <1>12, <1>15 DEF IInv

LEMMA RecordProgressKeeps ==
    ASSUME IInv, RecordProgress
    PROVE  IInv'
<1>1. archive \in ArchiveState /\ runner \in RunnerState /\ runner.pc = "progress"
  BY DEF IInv, TypeOK, RecordProgress, at
<1>2. PICK admitted \in BOOLEAN : admitted = Admits(landscape, runner.incumbent, runner.vector)
  BY DEF Admits, Better
<1>3. PICK incumbent, improved :
          /\ incumbent = IF admitted THEN runner.vector ELSE runner.incumbent
          /\ improved = (runner.improved \/ admitted)
  OBVIOUS
<1>4. /\ OnPath(landscape, archive.candidates,
                PlaceAt(archive.candidates, Final.progress, runner.round, runner.operation + 1,
                        incumbent, improved))
      /\ ~Resumed /\ runner.vector \in Vector
      /\ runner.index = Len(archive.candidates) /\ runner.tried = Vectors(archive.candidates)
  BY <1>1, <1>2, <1>3 DEF IInv, PathInv, Taken, OnPlace, at
<1>5. /\ archive.incumbent = runner.incumbent /\ runner.round >= runner.resume.round
      /\ runner.complete
  BY <1>1 DEF IInv, PathInv, Abreast, at
<1>6. incumbent \in Parameters /\ improved \in BOOLEAN /\ None \in Parameters
  BY <1>1, <1>3, <1>4 DEF RunnerState, Parameters
<1>7. PICK progress : progress = [round |-> runner.round, operation |-> runner.operation,
                                  candidates |-> runner.index, improved |-> improved]
  OBVIOUS
<1>8. progress \in Progress /\ progress.candidates = runner.index
  BY <1>1, <1>6, <1>7 DEF Progress, RunnerState
<1>9. /\ archive' = [archive EXCEPT !.progress = progress, !.incumbent = incumbent]
      /\ runner' = [runner EXCEPT !.pc = "operation", !.operation = runner.operation + 1,
                       !.incumbent = incumbent, !.improved = improved,
                       !.vector = None, !.seed = 1, !.prior = FALSE]
      /\ UNCHANGED <<landscape, authority, sent, answer>>
  BY <1>2, <1>3, <1>5, <1>7 DEF RecordProgress
<1>10. /\ runner' \in RunnerState /\ runner'.pc = "operation"
       /\ runner'.operation = runner.operation + 1 /\ runner'.round = runner.round
       /\ runner'.resume = runner.resume /\ runner'.index = runner.index
       /\ runner'.incumbent = incumbent /\ runner'.tried = runner.tried
       /\ runner'.improved = improved /\ runner'.complete = runner.complete
  <2>1. "operation" \in Pc /\ runner.operation + 1 \in Nat \ {0} /\ 1 \in 1..Seeds
    BY <1>1, RunnerBounds DEF Pc, RunnerState
  <2>2. QED
    BY <1>1, <1>6, <1>9, <2>1 DEF RunnerState
<1>11. /\ archive' \in ArchiveState /\ archive'.candidates = archive.candidates
       /\ SameRuns(archive, archive') /\ archive'.status = archive.status
       /\ SameOutcome(archive, archive') /\ archive'.run = archive.run
       /\ archive'.progress = progress /\ archive'.incumbent = incumbent
  BY <1>1, <1>6, <1>8, <1>9 DEF ArchiveState, SameRuns, SameOutcome
<1>12. QuietStep
  BY <1>1, <1>9, <1>10, <1>11, AtWork DEF QuietStep, Attempts, Executes, Assesses
<1>13. TypeOK' /\ EvidenceInv' /\ Walked' /\ Final' = Final
  BY <1>12, QuietKeeps
<1>14. archive'.incidents = 0
  BY <1>1, <1>11, AtWork DEF SameOutcome
<1>15. ~Resumed'
  <2>1. runner.operation \in Nat /\ runner.resume.operation \in Nat
    BY <1>1 DEF RunnerState, Progress
  <2>2. QED
    BY <1>4, <1>10, <2>1 DEF Resumed
<1>16. Resuming'
  BY <1>4, <1>9, <1>10, <1>11, <1>13, <1>15 DEF Resuming, OnPlace, at
<1>17. archive'.incumbent = Final.incumbent
  <2>1. PlaceAt(archive.candidates, Final.progress, runner.round, runner.operation + 1,
                incumbent, improved).incumbent = incumbent
    BY DEF PlaceAt
  <2>2. QED
    BY <1>4, <1>11, <2>1, WalkedFacts, PathPlace DEF Final
<1>18. PathInv'
  BY <1>4, <1>5, <1>8, <1>9, <1>10, <1>11, <1>13, <1>14, <1>16, <1>17
  DEF PathInv, Abreast, Trying, Taken, Concludes, Kept, at, Walking, Executes, Assesses
<1>19. QED
  BY <1>13, <1>18 DEF IInv

\* The candidate that is tried is the one that the search finds next.
FindsNext(s) ==
    /\ Before(s) /\ ~Resumed /\ s.operation = runner.operation
    /\ s.operation <= OperationsIn(s.round) /\ ~Tried(landscape, archive.candidates, s)
    /\ Len(archive.candidates) < Bound
    /\ runner.vector = Tries(landscape, s) /\ base = Base(s)
    /\ Candidate = Awaits(landscape, s)

LEMMA TryingNext ==
    ASSUME IInv, runner.pc \in Executes \cup Assesses
    PROVE  \E s : FindsNext(s)
<1>1. PICK s : s = PlaceAt(archive.candidates, Final.progress, runner.round, runner.operation,
                           runner.incumbent, runner.improved)
  OBVIOUS
<1>2. /\ OnPath(landscape, archive.candidates, s)
      /\ ~Resumed /\ OperationLeft /\ Len(archive.candidates) < Bound
      /\ runner.vector = next /\ runner.vector \notin Vectors(archive.candidates)
  BY <1>1 DEF IInv, PathInv, Trying, OnPlace
<1>3. /\ s.round = runner.round /\ s.incumbent = runner.incumbent /\ s.improved = runner.improved
      /\ s.cursor = Len(archive.candidates) /\ s.progress = Final.progress /\ s.verdict = "open"
      /\ s.operation = runner.operation
  BY <1>1 DEF PlaceAt
<1>4. s \in Walker
  BY <1>2, WalkedFacts, PathTyped
<1>5. Before(s)
  BY <1>1, <1>2, <1>3, <1>4 DEF Before
<1>6. /\ next = Tries(landscape, s) /\ base = Base(s)
      /\ s.operation <= OperationsIn(s.round) /\ ~Tried(landscape, archive.candidates, s)
  BY <1>2, <1>5, BeforeTries
<1>7. Candidate = Awaits(landscape, s)
  BY <1>2, <1>3, <1>6 DEF Candidate, Awaits
<1>8. QED
  BY <1>2, <1>3, <1>5, <1>6, <1>7 DEF FindsNext

LEMMA RecordCandidateKeeps ==
    ASSUME IInv, RecordCandidate
    PROVE  IInv'
<1>1. archive \in ArchiveState /\ runner \in RunnerState /\ runner.pc = "candidate"
      /\ runner.pc \in Assesses /\ UNCHANGED <<landscape, authority, sent, answer>>
  BY DEF IInv, TypeOK, RecordCandidate, at, Assesses
<1>2. PICK s : FindsNext(s)
  BY <1>1, TryingNext
<1>3. PICK records, land : records = archive.candidates /\ land = landscape
  OBVIOUS
<1>4. /\ records \in Seq(CandidateRecord) /\ land \in Landscapes
      /\ OnPath(land, records, s) /\ s \in Walker
      /\ s.round = runner.round /\ s.incumbent = runner.incumbent /\ s.improved = runner.improved
      /\ s.operation = runner.operation /\ s.cursor = Len(records) /\ Len(records) \in Nat
      /\ s.operation <= OperationsIn(s.round) /\ ~Tried(land, records, s)
      /\ Len(records) < Bound /\ runner.vector = Tries(land, s) /\ base = Base(s)
      /\ Candidate = Awaits(land, s) /\ ~Resumed
  BY <1>2, <1>3, WalkedFacts DEF FindsNext, Before
<1>5. PICK more, m : more = Append(records, Awaits(land, s)) /\ m = Matched(land, s, Tries(land, s))
  OBVIOUS
<1>6. /\ more \in Seq(CandidateRecord) /\ OnPath(land, more, m)
      /\ Agree(more, Search(land).records)
  BY <1>4, <1>5, PathMatch
<1>7. /\ Len(more) = Len(records) + 1 /\ more[Len(records) + 1] = Awaits(land, s)
      /\ \A i \in 1..Len(records) : more[i] = records[i]
  <2>1. Awaits(land, s) \in CandidateRecord
    BY <1>4, TriesTyped
  <2>2. QED
    BY <1>4, <1>5, <2>1
<1>8. PICK v : v = runner.vector /\ v = Tries(land, s)
  BY <1>4
<1>9. v \in Vector /\ v \notin Vectors(records) /\ Awaits(land, s).vector = v
  BY <1>4, <1>8, TriesTyped DEF Tried, Vectors, Awaits, Record
<1>10. Vectors(more) = Vectors(records) \cup {v}
  <2>1. 1..Len(more) = 1..Len(records) \cup {Len(records) + 1}
    BY <1>4, <1>7
  <2>2. QED
    BY <1>7, <1>9, <2>1 DEF Vectors
<1>11. archive' = [archive EXCEPT !.candidates = more]
  BY <1>3, <1>4, <1>5, <1>8, <1>9 DEF RecordCandidate, Assessed
<1>12. /\ archive' \in ArchiveState /\ archive'.candidates = more
       /\ SameRuns(archive, archive') /\ archive'.status = archive.status
       /\ SameOutcome(archive, archive') /\ archive'.run = archive.run
       /\ archive'.incumbent = archive.incumbent
  BY <1>1, <1>6, <1>11 DEF ArchiveState, SameRuns, SameOutcome
<1>13. Moves(runner, runner', "progress", runner.seed, runner.prior, runner.failure)
  <2>1. "progress" \in Pc
    BY DEF Pc
  <2>2. QED
    BY <1>1, <2>1, Moving DEF RecordCandidate, Goto
<1>14. /\ runner' \in RunnerState /\ runner'.pc = "progress" /\ runner'.round = runner.round
       /\ runner'.operation = runner.operation /\ runner'.resume = runner.resume
       /\ runner'.index = runner.index /\ runner'.improved = runner.improved
       /\ runner'.incumbent = runner.incumbent /\ runner'.tried = runner.tried
       /\ runner'.complete = runner.complete /\ runner'.vector = runner.vector
  BY <1>13 DEF Moves, SameSearch
<1>15. TypeOK'
  BY <1>1, <1>12, <1>14 DEF IInv, TypeOK, Executes, Assesses
<1>16. archive.status # "COMPLETE" /\ archive'.status # "COMPLETE" /\ archive'.incidents = 0
       /\ archive.result = None
  BY <1>1, <1>12, AtWork DEF SameOutcome, IInv, EvidenceInv, Closed
<1>17. PICK admitted \in BOOLEAN : admitted = Admits(land, s.incumbent, v)
  BY DEF Admits, Better
<1>18. /\ m.round = s.round /\ m.operation = s.operation + 1
       /\ m.incumbent = IF admitted THEN v ELSE s.incumbent
       /\ m.improved = (s.improved \/ admitted)
       /\ m.progress = [round |-> s.round, operation |-> s.operation,
                        candidates |-> s.cursor + 1, improved |-> s.improved \/ admitted]
  <2>1. Matches(s, v, admitted, m)
    BY <1>4, <1>5, <1>8, <1>17, MatchedFields
  <2>2. QED
    BY <2>1 DEF Matches
<1>19. PICK final : final = Reconstructed(land, more)
  OBVIOUS
<1>20. Final' = final
  BY <1>1, <1>3, <1>12, <1>19 DEF Final
<1>21. /\ m = PlaceAt(more, final.progress, m.round, m.operation, m.incumbent, m.improved)
       /\ m.incumbent = final.incumbent
  BY <1>4, <1>6, <1>19, PathPlace
<1>22. m.progress = final.progress
  <2>1. PlaceAt(more, final.progress, m.round, m.operation, m.incumbent, m.improved).progress
          = final.progress
    BY DEF PlaceAt
  <2>2. QED
    BY <1>21, <2>1
<1>23. Walked'
  <2>1. Latest(final) = PlaceAt(more, final.progress, m.round, m.operation, m.incumbent, m.improved)
    BY <1>4, <1>7, <1>18, <1>21, <1>22 DEF Latest, PlaceAt
  <2>2. OnPath(land, more, Latest(final))
    BY <1>6, <1>21, <2>1
  <2>3. QED
    BY <1>1, <1>3, <1>12, <1>20, <2>2 DEF Walked
<1>24. Taken'
  <2>1. Admits(landscape, runner.incumbent, runner.vector)' = admitted
    BY <1>1, <1>3, <1>4, <1>8, <1>14, <1>17
  <2>2. OnPlace(runner.operation + 1,
                IF admitted THEN runner.vector ELSE runner.incumbent,
                runner.improved \/ admitted)'
    BY <1>1, <1>3, <1>4, <1>6, <1>8, <1>12, <1>14, <1>18, <1>20, <1>21 DEF OnPlace
  <2>3. ~Resumed'
    BY <1>4, <1>14 DEF Resumed
  <2>4. runner.index = Len(records) + 1 /\ runner.tried = Vectors(records) \cup {v}
    BY <1>1, <1>3, <1>8 DEF IInv, PathInv, Trying
  <2>5. QED
    BY <1>7, <1>8, <1>9, <1>10, <1>12, <1>14, <2>1, <2>2, <2>3, <2>4 DEF Taken
<1>25. PathInv'
  <2>1. runner.round >= runner.resume.round /\ archive.incumbent = runner.incumbent
        /\ runner.complete
    BY <1>1 DEF IInv, PathInv, Abreast, Walking, at
  <2>2. QED
    BY <1>12, <1>14, <1>16, <1>23, <1>24, <2>1
    DEF PathInv, Abreast, Resuming, Trying, Concludes, Kept, at, Walking, Executes, Assesses
<1>26. Regenerated'
  <2>1. /\ archive.completed \subseteq archive.evidence
        /\ \A i \in 1..Len(records) : Regenerates(archive, records[i])
    BY <1>3 DEF IInv, EvidenceInv, Regenerated
  <2>2. /\ {v} \X (1..Seeds) \subseteq archive.completed /\ v \notin land.discloses
    BY <1>1, <1>3, <1>8 DEF IInv, EvidenceInv, Executing, at
  <2>3. PICK c : c = Awaits(land, s)
    OBVIOUS
  <2>4. c.vector = v /\ c.parent = Base(s) /\ c.operation = OperationAt(s.round, s.operation)
    BY <1>8, <2>3 DEF Awaits, Record
  <2>5. Transition(land, c.parent, c.vector, c.operation)
    BY <1>4, <1>8, <2>4, TriesTyped DEF Transition, Tries
  <2>6. c.parent \in Vectors(records) \cup {Start}
    BY <1>4, <2>4, PathTyped DEF Base
  <2>7. Regenerates(archive', c)
    BY <1>1, <1>3, <1>10, <1>12, <2>2, <2>4, <2>5, <2>6 DEF Regenerates, SameRuns
  <2>8. \A i \in 1..Len(records) : Regenerates(archive', more[i])
    BY <1>3, <1>7, <1>10, <1>12, <2>1 DEF Regenerates, SameRuns
  <2>9. \A i \in 1..Len(more) : i \in 1..Len(records) \/ i = Len(records) + 1
    BY <1>4, <1>7
  <2>10. \A i \in 1..Len(more) : Regenerates(archive', more[i])
    BY <1>7, <2>3, <2>7, <2>8, <2>9
  <2>11. QED
    BY <1>1, <1>12, <2>1, <2>10 DEF Regenerated, SameRuns, Regenerates
<1>27. Announced'
  <2>1. \A i : i \in Nat /\ i <= Len(records) + 1 => i <= Len(more) + 1
    BY <1>4, <1>7
  <2>2. ASSUME NEW k \in archive.intents
        PROVE  \E i \in 1..Len(Search(land).records) :
                    i <= Len(more) + 1 /\ Search(land).records[i].vector = k[1]
    BY <1>3, <2>1 DEF IInv, EvidenceInv, Announced
  <2>3. QED
    BY <1>1, <1>3, <1>12, <2>2 DEF Announced, SameRuns
<1>28. Settled' /\ Executing'
  BY <1>1, <1>12, <1>14
  DEF IInv, EvidenceInv, Settled, Executing, SameRuns, at, Executes, Assesses
<1>29. Closed'
  <2>1. answer = None
    <3>1. Search(land).records # records
      BY <1>4, <1>6, <1>7 DEF Agree
    <3>2. QED
      BY <1>3, <3>1 DEF IInv, EvidenceInv, Closed, Exhausts
  <2>2. QED
    BY <1>1, <1>12, <1>16, <2>1 DEF Closed, SameOutcome
<1>30. QED
  BY <1>15, <1>25, <1>26, <1>27, <1>28, <1>29 DEF IInv, EvidenceInv

-----------------------------------------------------------------------------
(* The steps of the executions keep the invariant                            *)

LEMMA ExecutionPath ==
    ASSUME IInv, ExecutionStep
    PROVE  PathInv' /\ Closed'
<1>1. /\ landscape' = landscape /\ archive'.candidates = archive.candidates
      /\ archive'.progress = archive.progress /\ archive'.incumbent = archive.incumbent
      /\ archive'.result = archive.result /\ archive'.incidents = archive.incidents
      /\ answer' = answer
  BY DEF ExecutionStep, SameRecords, SameOutcome
<1>2. runner.pc # "down" /\ runner.pc \notin {"restore", "progress", "conclude"}
  BY DEF ExecutionStep, Attempts, Executes, Assesses
<1>3. archive.status # "COMPLETE" /\ archive.incidents = 0 /\ archive'.status # "COMPLETE"
  BY <1>2, AtWork DEF ExecutionStep
<1>4. Final' = Final /\ Walked'
  BY <1>1 DEF Final, Walked, IInv, PathInv
<1>5. /\ runner'.round = runner.round /\ runner'.operation = runner.operation
      /\ runner'.resume = runner.resume /\ runner'.index = runner.index
      /\ runner'.improved = runner.improved /\ runner'.incumbent = runner.incumbent
      /\ runner'.tried = runner.tried /\ runner'.complete = runner.complete
      /\ runner'.vector = runner.vector
  BY DEF ExecutionStep, SameSearch
<1>6. runner'.pc \in Attempts \cup {"incident"}
      /\ (runner'.pc \in Executes \cup Assesses => runner.pc \in Executes \cup Assesses)
  BY DEF ExecutionStep
<1>7. runner'.pc \notin {"down", "restore", "bind", "round", "operation", "progress", "conclude"}
  BY <1>6 DEF Attempts, Executes, Assesses
<1>8. Abreast'
  <2>1. runner'.pc \in Executes \cup Assesses =>
          runner.round >= runner.resume.round /\ archive.incumbent = runner.incumbent
    BY <1>6 DEF IInv, PathInv, Abreast, Walking
  <2>2. runner.complete
    BY <1>2 DEF IInv, PathInv, Abreast, at
  <2>3. QED
    BY <1>1, <1>3, <1>5, <1>7, <2>1, <2>2 DEF Abreast, at, Walking
<1>9. Trying'
  <2>1. SUFFICES ASSUME runner'.pc \in Executes \cup Assesses PROVE Trying'
    BY DEF Trying
  <2>2. /\ OnPlace(runner.operation, runner.incumbent, runner.improved)
        /\ ~Resumed /\ OperationLeft /\ Len(archive.candidates) < Bound
        /\ runner.vector = next /\ runner.vector \notin Vectors(archive.candidates)
        /\ runner.index = Len(archive.candidates) + 1
        /\ runner.tried = Vectors(archive.candidates) \cup {runner.vector}
    BY <1>6, <2>1 DEF IInv, PathInv, Trying
  <2>3. (Resumed' <=> Resumed) /\ (OperationLeft' <=> OperationLeft) /\ next' = next
    BY <1>1, <1>5 DEF Resumed, OperationLeft, next, base
  <2>4. OnPlace(runner.operation, runner.incumbent, runner.improved)'
    BY <1>1, <1>4, <1>5, <2>2 DEF OnPlace
  <2>5. QED
    BY <1>1, <1>5, <2>2, <2>3, <2>4 DEF Trying
<1>10. Resuming' /\ Taken' /\ Concludes'
  BY <1>7 DEF Resuming, Taken, Concludes, at
<1>11. Kept'
  <2>1. runner.pc \notin {"down", "restore", "progress"}
    BY <1>2
  <2>2. QED
    BY <1>1, <1>4, <2>1 DEF IInv, PathInv, Kept
<1>12. Closed'
  <2>1. archive.result = None
    BY <1>3 DEF IInv, EvidenceInv, Closed
  <2>2. (answer # None => Exhausts /\ answer = Outcome)'
    BY <1>1 DEF IInv, EvidenceInv, Closed, Exhausts, Outcome
  <2>3. QED
    BY <1>1, <1>3, <2>1, <2>2 DEF Closed
<1>13. QED
  BY <1>4, <1>8, <1>9, <1>10, <1>11, <1>12 DEF PathInv

LEMMA StopPath ==
    ASSUME IInv, StopStep,
           archive'.status = "COMPLETE" => archive.status = "COMPLETE" \/ runner.pc = "conclude"
    PROVE  PathInv'
<1>1. /\ landscape' = landscape /\ archive'.candidates = archive.candidates
      /\ archive'.progress = archive.progress /\ archive'.incumbent = archive.incumbent
  BY DEF StopStep, SameRecords
<1>2. Final' = Final /\ Walked'
  BY <1>1 DEF Final, Walked, IInv, PathInv
<1>3. runner'.pc = "down" /\ runner'.complete
  BY IdleTyped DEF StopStep
<1>4. Kept'
  <2>1. SUFFICES ASSUME archive'.status = "COMPLETE" PROVE Kept'
    BY <1>3 DEF Kept
  <2>2. runner.pc = "conclude"
    BY <2>1, AtWork DEF StopStep
  <2>3. QED
    BY <1>1, <1>2, <2>2 DEF IInv, PathInv, Kept
<1>5. QED
  BY <1>2, <1>3, <1>4
  DEF PathInv, Resuming, Abreast, Trying, Taken, Concludes, at, Walking, Executes, Assesses

\* What stays true of the archive if only more is announced and archived.
LEMMA SameArchive ==
    ASSUME IInv, landscape' = landscape, archive'.candidates = archive.candidates,
           SameRuns(archive, archive')
    PROVE  Regenerated' /\ Announced'
  BY DEF IInv, EvidenceInv, Regenerated, Regenerates, Announced, SameRuns

LEMMA SameRun ==
    ASSUME IInv, SameRuns(archive, archive'), archive'.run = archive.run,
           \A k \in Key : authority[k] = "FINALIZED" => authority'[k] = "FINALIZED"
    PROVE  Settled'
<1>1. archive.evidence \subseteq Key
  BY DEF IInv, TypeOK, ArchiveState
<1>2. QED
  BY <1>1 DEF IInv, EvidenceInv, Settled, SameRuns

\* What is known of an execution.
LEMMA ExecutingFacts ==
    ASSUME IInv
    PROVE  /\ runner.pc \in {"begin", "dispatch", "execute", "await", "evidence",
                             "quarantine", "failure"} => key \in archive.intents
           /\ runner.pc \in {"dispatch", "execute", "await", "evidence",
                             "quarantine", "failure"} => key \notin archive.evidence
           /\ runner.pc = "evidence" => authority[key] = "FINALIZED"
           /\ runner.pc \in Executes =>
                \A j \in 1..(runner.seed - 1) : <<runner.vector, j>> \in archive.evidence
           /\ runner.pc \in Assesses =>
                \A j \in 1..Seeds : <<runner.vector, j>> \in archive.evidence
           /\ runner.pc = "manifest" =>
                /\ \A j \in 1..(runner.seed - 1) : <<runner.vector, j>> \in archive.completed
                /\ runner.vector \notin landscape.discloses
           /\ archive.completed \subseteq archive.evidence
           /\ archive.evidence \subseteq archive.intents
           /\ \A k \in archive.evidence : authority[k] = "FINALIZED" /\ archive.run[k] = "SUCCEEDED"
           /\ runner.seed \in 1..Seeds
           /\ archive.evidence \subseteq Key /\ archive.run \in [Key -> RunState]
<1>1. Executing /\ Regenerated /\ Settled
  BY DEF IInv, EvidenceInv
<1>2. runner.seed \in 1..Seeds
  BY DEF IInv, TypeOK, RunnerState
<1>3. archive.evidence \subseteq Key /\ archive.run \in [Key -> RunState]
  BY DEF IInv, TypeOK, ArchiveState
<1>4. /\ archive.completed \subseteq archive.evidence
      /\ archive.evidence \subseteq archive.intents
      /\ \A k \in archive.evidence : authority[k] = "FINALIZED" /\ archive.run[k] = "SUCCEEDED"
  BY <1>1 DEF Regenerated, Settled
<1>5. /\ runner.pc \in {"begin", "dispatch", "execute", "await", "evidence",
                        "quarantine", "failure"} => key \in archive.intents
      /\ runner.pc \in {"dispatch", "execute", "await", "evidence",
                        "quarantine", "failure"} => key \notin archive.evidence
      /\ runner.pc = "evidence" => authority[key] = "FINALIZED"
  BY <1>1 DEF Executing, at, Executes
<1>6. /\ runner.pc \in Executes =>
           \A j \in 1..(runner.seed - 1) : <<runner.vector, j>> \in archive.evidence
      /\ runner.pc \in Assesses =>
           \A j \in 1..Seeds : <<runner.vector, j>> \in archive.evidence
      /\ runner.pc = "manifest" =>
           /\ \A j \in 1..(runner.seed - 1) : <<runner.vector, j>> \in archive.completed
           /\ runner.vector \notin landscape.discloses
  BY <1>1 DEF Executing, at
<1>7. QED
  BY <1>2, <1>3, <1>4, <1>5, <1>6

LEMMA RecordIntentKeeps ==
    ASSUME IInv, RecordIntent
    PROVE  IInv'
<1>1. /\ ExecutionStep /\ TypeOK' /\ runner.pc = "intent"
      /\ runner'.pc = "begin" /\ runner'.seed = runner.seed
      /\ archive'.intents = archive.intents \cup {key}
      /\ archive'.evidence = archive.evidence /\ archive'.completed = archive.completed
      /\ archive'.run = archive.run /\ authority' = authority
  BY RecordIntentStep DEF IInv
<1>2. PathInv' /\ Closed'
  BY <1>1, ExecutionPath
<1>3. /\ landscape' = landscape /\ archive'.candidates = archive.candidates
      /\ runner'.vector = runner.vector
  BY <1>1 DEF ExecutionStep, SameRecords, SameSearch
<1>4. Regenerated' /\ Settled'
  BY <1>1, <1>3 DEF IInv, EvidenceInv, Regenerated, Regenerates, Settled
<1>5. Announced'
  <2>1. PICK s : FindsNext(s)
    BY <1>1, TryingNext DEF Executes
  <2>2. PICK records, land : records = archive.candidates /\ land = landscape
    OBVIOUS
  <2>3. /\ records \in Seq(CandidateRecord) /\ land \in Landscapes /\ OnPath(land, records, s)
        /\ s \in Walker /\ s.operation <= OperationsIn(s.round) /\ ~Tried(land, records, s)
        /\ Len(records) < Bound /\ runner.vector = Tries(land, s)
    BY <2>1, <2>2, WalkedFacts DEF FindsNext, Before
  <2>4. PICK more, found : more = Append(records, Awaits(land, s)) /\ found = Search(land).records
    OBVIOUS
  <2>5. Agree(more, found)
    BY <2>3, <2>4, PathMatch
  <2>6. /\ Len(more) = Len(records) + 1 /\ more[Len(records) + 1] = Awaits(land, s)
        /\ Len(records) \in Nat
    <3>1. Awaits(land, s) \in CandidateRecord
      BY <2>3, TriesTyped
    <3>2. QED
      BY <2>3, <2>4, <3>1
  <2>7. Awaits(land, s).vector = runner.vector
    BY <2>3 DEF Awaits, Record
  <2>8. /\ Len(records) + 1 \in 1..Len(found) /\ found[Len(records) + 1].vector = runner.vector
    BY <2>5, <2>6, <2>7 DEF Agree
  <2>9. key[1] = runner.vector
    BY DEF key
  <2>10. \A k \in archive.intents : \E i \in 1..Len(found) :
            i <= Len(records) + 1 /\ found[i].vector = k[1]
    BY <2>2, <2>4 DEF IInv, EvidenceInv, Announced
  <2>11. \A k \in archive.intents \cup {key} : \E i \in 1..Len(found) :
            i <= Len(records) + 1 /\ found[i].vector = k[1]
    BY <2>6, <2>8, <2>9, <2>10
  <2>12. QED
    BY <1>1, <1>3, <2>2, <2>4, <2>11 DEF Announced
<1>6. Executing'
  <2>1. key' = key
    BY <1>1, <1>3 DEF key
  <2>2. \A j \in 1..(runner.seed - 1) : <<runner.vector, j>> \in archive.evidence
    BY <1>1, ExecutingFacts DEF Executes
  <2>3. QED
    BY <1>1, <1>3, <2>1, <2>2 DEF Executing, at, Executes, Assesses
<1>7. QED
  BY <1>1, <1>2, <1>4, <1>5, <1>6 DEF IInv, EvidenceInv

LEMMA MovingKeeps ==
    ASSUME IInv, ExecutionStep, TypeOK', SameRuns(archive, archive'),
           archive'.run = archive.run, authority' = authority, Executing'
    PROVE  IInv'
<1>1. PathInv' /\ Closed'
  BY ExecutionPath
<1>2. Regenerated' /\ Announced'
  BY SameArchive DEF ExecutionStep, SameRecords
<1>3. Settled'
  BY SameRun
<1>4. QED
  BY <1>1, <1>2, <1>3 DEF IInv, EvidenceInv

\* The next execution, or the assessment once the last seed has its evidence.
LEMMA NextSeedKeeps ==
    ASSUME NextSeeds, runner'.vector = runner.vector, runner.seed \in 1..Seeds,
           key \in archive'.evidence,
           \A j \in 1..(runner.seed - 1) : <<runner.vector, j>> \in archive'.evidence
    PROVE  Executing'
<1>1. \A j \in 1..runner.seed : <<runner.vector, j>> \in archive'.evidence
  BY DEF key
<1>2. CASE runner'.pc = "assess" /\ runner.seed = Seeds
  BY <1>1, <1>2 DEF Executing, at, Executes, Assesses
<1>3. CASE runner'.pc = "intent" /\ runner'.seed = runner.seed + 1
  <2>1. \A j \in 1..(runner'.seed - 1) : <<runner'.vector, j>> \in archive'.evidence
    BY <1>1, <1>3
  <2>2. QED
    BY <1>3, <2>1 DEF Executing, at, Executes, Assesses
<1>4. QED
  BY <1>2, <1>3 DEF NextSeeds

LEMMA UseCheckpointKeeps ==
    ASSUME IInv, UseCheckpoint
    PROVE  IInv'
<1>1. /\ ExecutionStep /\ TypeOK' /\ runner.pc = "begin" /\ NextSeeds
      /\ key \in archive.evidence /\ archive' = archive /\ authority' = authority
  BY UseCheckpointStep DEF IInv
<1>2. runner'.vector = runner.vector
  BY <1>1 DEF ExecutionStep, SameSearch
<1>3. /\ runner.seed \in 1..Seeds
      /\ \A j \in 1..(runner.seed - 1) : <<runner.vector, j>> \in archive.evidence
  BY <1>1, ExecutingFacts DEF Executes
<1>4. Executing'
  BY <1>1, <1>2, <1>3, NextSeedKeeps
<1>5. QED
  BY <1>1, <1>4, MovingKeeps DEF SameRuns

LEMMA RecordEvidenceKeeps ==
    ASSUME IInv, RecordEvidence
    PROVE  IInv'
<1>1. /\ ExecutionStep /\ TypeOK' /\ runner.pc = "evidence" /\ NextSeeds
      /\ archive'.intents = archive.intents
      /\ archive'.evidence = archive.evidence \cup {key}
      /\ archive'.completed = archive.completed
      /\ archive'.run = [archive.run EXCEPT ![key] = "SUCCEEDED"] /\ authority' = authority
  BY RecordEvidenceStep DEF IInv
<1>2. /\ landscape' = landscape /\ archive'.candidates = archive.candidates
      /\ runner'.vector = runner.vector
  BY <1>1 DEF ExecutionStep, SameRecords, SameSearch
<1>3. /\ runner.seed \in 1..Seeds /\ key \in archive.intents /\ authority[key] = "FINALIZED"
      /\ \A j \in 1..(runner.seed - 1) : <<runner.vector, j>> \in archive.evidence
      /\ archive.completed \subseteq archive.evidence /\ archive.evidence \subseteq archive.intents
      /\ \A k \in archive.evidence : authority[k] = "FINALIZED" /\ archive.run[k] = "SUCCEEDED"
      /\ archive.evidence \subseteq Key /\ archive.run \in [Key -> RunState]
  BY <1>1, ExecutingFacts DEF Executes
<1>4. key \in Key
  BY <1>1, KeyTyped DEF IInv, TypeOK, Executes
<1>5. PathInv' /\ Closed'
  BY <1>1, ExecutionPath
<1>6. Executing'
  BY <1>1, <1>2, <1>3, NextSeedKeeps
<1>7. Regenerated' /\ Announced'
  BY <1>1, <1>2 DEF IInv, EvidenceInv, Regenerated, Regenerates, Announced
<1>8. Settled'
  BY <1>1, <1>3, <1>4 DEF Settled
<1>9. QED
  BY <1>1, <1>5, <1>6, <1>7, <1>8 DEF IInv, EvidenceInv

LEMMA BeginAttemptKeeps ==
    ASSUME IInv, BeginAttempt
    PROVE  IInv'
<1>1. /\ ExecutionStep /\ TypeOK' /\ runner.pc = "begin" /\ key \notin archive.evidence
      /\ runner'.pc = "dispatch" /\ runner'.seed = runner.seed
      /\ SameRuns(archive, archive') /\ key \in Key
      /\ archive'.run = [archive.run EXCEPT ![key] = "RUNNING"] /\ authority' = authority
  BY BeginAttemptStep DEF IInv
<1>2. /\ landscape' = landscape /\ archive'.candidates = archive.candidates
      /\ runner'.vector = runner.vector
  BY <1>1 DEF ExecutionStep, SameRecords, SameSearch
<1>3. /\ key \in archive.intents
      /\ \A j \in 1..(runner.seed - 1) : <<runner.vector, j>> \in archive.evidence
      /\ archive.evidence \subseteq archive.intents
      /\ \A k \in archive.evidence : authority[k] = "FINALIZED" /\ archive.run[k] = "SUCCEEDED"
      /\ archive.evidence \subseteq Key /\ archive.run \in [Key -> RunState]
  BY <1>1, ExecutingFacts DEF Executes
<1>4. PathInv' /\ Closed'
  BY <1>1, ExecutionPath
<1>5. Regenerated' /\ Announced'
  BY <1>1, <1>2, SameArchive
<1>6. Settled'
  BY <1>1, <1>3 DEF Settled, SameRuns
<1>7. Executing'
  <2>1. key' = key
    BY <1>1, <1>2 DEF key
  <2>2. QED
    BY <1>1, <1>2, <1>3, <2>1 DEF Executing, at, Executes, Assesses, SameRuns
<1>8. QED
  BY <1>1, <1>4, <1>5, <1>6, <1>7 DEF IInv, EvidenceInv

LEMMA DispatchKeeps ==
    ASSUME IInv, Dispatch
    PROVE  IInv'
<1>1. /\ ExecutionStep /\ TypeOK' /\ runner.pc = "dispatch"
      /\ runner'.seed = runner.seed /\ archive' = archive /\ authority' = authority
      /\ \/ runner'.pc = "evidence" /\ authority[key] = "FINALIZED"
         \/ runner'.pc \in {"execute", "failure"}
  BY DispatchStep DEF IInv
<1>2. runner'.vector = runner.vector
  BY <1>1 DEF ExecutionStep, SameSearch
<1>3. /\ key \in archive.intents /\ key \notin archive.evidence
      /\ \A j \in 1..(runner.seed - 1) : <<runner.vector, j>> \in archive.evidence
  BY <1>1, ExecutingFacts DEF Executes
<1>4. key' = key
  BY <1>1, <1>2 DEF key
<1>5. Executing'
  BY <1>1, <1>2, <1>3, <1>4 DEF Executing, at, Executes, Assesses
<1>6. QED
  BY <1>1, <1>5, MovingKeeps DEF SameRuns

LEMMA ExecuteKeeps ==
    ASSUME IInv, Execute
    PROVE  IInv'
<1>1. /\ ExecutionStep /\ TypeOK' /\ runner.pc = "execute" /\ runner'.pc = "await"
      /\ runner'.seed = runner.seed /\ archive' = archive /\ authority' = authority
  BY ExecuteStep DEF IInv
<1>2. runner'.vector = runner.vector
  BY <1>1 DEF ExecutionStep, SameSearch
<1>3. /\ key \in archive.intents /\ key \notin archive.evidence
      /\ \A j \in 1..(runner.seed - 1) : <<runner.vector, j>> \in archive.evidence
  BY <1>1, ExecutingFacts DEF Executes
<1>4. key' = key
  BY <1>1, <1>2 DEF key
<1>5. Executing'
  BY <1>1, <1>2, <1>3, <1>4 DEF Executing, at, Executes, Assesses
<1>6. QED
  BY <1>1, <1>5, MovingKeeps DEF SameRuns

LEMMA AcknowledgedKeeps ==
    ASSUME IInv, Acknowledged
    PROVE  IInv'
<1>1. /\ ExecutionStep /\ TypeOK' /\ runner.pc = "await" /\ runner'.pc = "evidence"
      /\ runner'.seed = runner.seed /\ archive' = archive /\ authority' = authority
      /\ authority[key] = "FINALIZED"
  BY AcknowledgedStep DEF IInv
<1>2. runner'.vector = runner.vector
  BY <1>1 DEF ExecutionStep, SameSearch
<1>3. /\ key \in archive.intents /\ key \notin archive.evidence
      /\ \A j \in 1..(runner.seed - 1) : <<runner.vector, j>> \in archive.evidence
  BY <1>1, ExecutingFacts DEF Executes
<1>4. key' = key
  BY <1>1, <1>2 DEF key
<1>5. Executing'
  BY <1>1, <1>2, <1>3, <1>4 DEF Executing, at, Executes, Assesses
<1>6. QED
  BY <1>1, <1>5, MovingKeeps DEF SameRuns

LEMMA FailingKeeps ==
    ASSUME IInv, Unreachable \/ FailedExecution \/ Unacknowledged \/ RejectResult
    PROVE  IInv'
<1>1. /\ ExecutionStep /\ TypeOK'
      /\ runner.pc \in Executes \ {"intent", "begin"} /\ Failing(runner'.pc)
      /\ runner'.seed = runner.seed /\ archive' = archive /\ authority' = authority
  BY FailingStep DEF IInv
<1>2. runner'.vector = runner.vector
  BY <1>1 DEF ExecutionStep, SameSearch
<1>3. key \in archive.intents /\ key \notin archive.evidence
  BY <1>1, ExecutingFacts DEF Executes
<1>4. key' = key
  BY <1>1, <1>2 DEF key
<1>5. runner'.pc = "failure" \/ runner'.pc = "quarantine"
  BY <1>1 DEF Failing
<1>6. Executing'
  BY <1>1, <1>2, <1>3, <1>4, <1>5 DEF Executing, at, Executes, Assesses
<1>7. QED
  BY <1>1, <1>6, MovingKeeps DEF SameRuns

LEMMA QuarantineResultKeeps ==
    ASSUME IInv, QuarantineResult
    PROVE  IInv'
<1>1. /\ ExecutionStep /\ TypeOK' /\ runner.pc = "quarantine" /\ runner'.pc = "failure"
      /\ runner'.seed = runner.seed /\ SameRuns(archive, archive')
      /\ archive'.run = archive.run /\ authority' = authority
  BY QuarantineResultStep DEF IInv
<1>2. runner'.vector = runner.vector
  BY <1>1 DEF ExecutionStep, SameSearch
<1>3. key \in archive.intents /\ key \notin archive.evidence
  BY <1>1, ExecutingFacts
<1>4. key' = key
  BY <1>1, <1>2 DEF key
<1>5. Executing'
  BY <1>1, <1>2, <1>3, <1>4 DEF Executing, at, Executes, Assesses, SameRuns
<1>6. QED
  BY <1>1, <1>5, MovingKeeps

LEMMA AssessKeeps ==
    ASSUME IInv, Assess
    PROVE  IInv'
<1>1. /\ ExecutionStep /\ TypeOK' /\ runner.pc = "assess"
      /\ archive' = archive /\ authority' = authority
      /\ \/ runner'.pc = "incident"
         \/ /\ runner'.pc = "manifest" /\ runner'.seed = 1
            /\ runner.vector \notin landscape.discloses
  BY AssessStep DEF IInv
<1>2. landscape' = landscape /\ runner'.vector = runner.vector
  BY <1>1 DEF ExecutionStep, SameSearch
<1>3. \A j \in 1..Seeds : <<runner.vector, j>> \in archive.evidence
  BY <1>1, ExecutingFacts DEF Assesses
<1>4. Executing'
  <2>1. CASE runner'.pc = "incident"
    BY <2>1 DEF Executing, at, Executes, Assesses
  <2>2. CASE /\ runner'.pc = "manifest" /\ runner'.seed = 1
             /\ runner.vector \notin landscape.discloses
    <3>1. \A j \in 1..(runner'.seed - 1) : <<runner'.vector, j>> \in archive'.completed
      BY <2>2
    <3>2. QED
      BY <1>1, <1>2, <1>3, <2>2, <3>1 DEF Executing, at, Executes, Assesses
  <2>3. QED
    BY <1>1, <2>1, <2>2
<1>5. QED
  BY <1>1, <1>4, MovingKeeps DEF SameRuns

LEMMA RecordManifestKeeps ==
    ASSUME IInv, RecordManifest
    PROVE  IInv'
<1>1. /\ ExecutionStep /\ TypeOK' /\ runner.pc = "manifest"
      /\ archive'.intents = archive.intents /\ archive'.evidence = archive.evidence
      /\ archive'.completed = archive.completed \cup {key}
      /\ archive'.run = archive.run /\ authority' = authority
      /\ \/ runner.seed = Seeds /\ runner'.pc = "candidate" /\ runner'.seed = runner.seed
         \/ runner.seed # Seeds /\ runner'.pc = "manifest" /\ runner'.seed = runner.seed + 1
  BY RecordManifestStep DEF IInv
<1>2. /\ landscape' = landscape /\ archive'.candidates = archive.candidates
      /\ runner'.vector = runner.vector
  BY <1>1 DEF ExecutionStep, SameRecords, SameSearch
<1>3. /\ runner.seed \in 1..Seeds /\ archive.completed \subseteq archive.evidence
      /\ \A j \in 1..Seeds : <<runner.vector, j>> \in archive.evidence
      /\ \A j \in 1..(runner.seed - 1) : <<runner.vector, j>> \in archive.completed
      /\ runner.vector \notin landscape.discloses
  BY <1>1, ExecutingFacts DEF Assesses
<1>4. PathInv' /\ Closed'
  BY <1>1, ExecutionPath
<1>5. archive'.completed \subseteq archive'.evidence
  BY <1>1, <1>3 DEF key
<1>6. Regenerated' /\ Announced' /\ Settled'
  BY <1>1, <1>2, <1>5 DEF IInv, EvidenceInv, Regenerated, Regenerates, Announced, Settled
<1>7. \A j \in 1..runner.seed : <<runner.vector, j>> \in archive'.completed
  BY <1>1, <1>3 DEF key
<1>8. Executing'
  <2>1. CASE runner.seed = Seeds /\ runner'.pc = "candidate"
    BY <1>1, <1>2, <1>3, <1>7, <2>1 DEF Executing, at, Executes, Assesses
  <2>2. CASE runner'.pc = "manifest" /\ runner'.seed = runner.seed + 1
    <3>1. \A j \in 1..(runner'.seed - 1) : <<runner'.vector, j>> \in archive'.completed
      BY <1>2, <1>3, <1>7, <2>2
    <3>2. QED
      BY <1>1, <1>2, <1>3, <2>2, <3>1 DEF Executing, at, Executes, Assesses
  <2>3. QED
    BY <1>1, <2>1, <2>2
<1>9. QED
  BY <1>1, <1>4, <1>6, <1>8 DEF IInv, EvidenceInv

\* A run that ends without a result.
LEMMA StopKeeps ==
    ASSUME IInv, StopStep, TypeOK', answer' = answer, archive'.result = archive.result,
           archive'.status \in {archive.status, "FAILED"}, Settled'
    PROVE  IInv'
<1>1. /\ landscape' = landscape /\ archive'.candidates = archive.candidates
      /\ runner'.pc = "down" /\ SameRuns(archive, archive') /\ runner.pc # "down"
  BY IdleTyped DEF StopStep, SameRecords
<1>2. archive.status # "COMPLETE" /\ archive'.status # "COMPLETE" /\ archive.result = None
  BY <1>1, AtWork DEF IInv, EvidenceInv, Closed
<1>3. PathInv'
  BY <1>2, StopPath
<1>4. Regenerated' /\ Announced'
  BY <1>1, SameArchive
<1>5. Executing'
  BY <1>1 DEF Executing, at, Executes, Assesses
<1>6. (answer # None => Exhausts /\ answer = Outcome)'
  BY <1>1 DEF IInv, EvidenceInv, Closed, Exhausts, Outcome
<1>7. Closed'
  BY <1>2, <1>6 DEF Closed
<1>8. QED
  BY <1>3, <1>4, <1>5, <1>7 DEF IInv, EvidenceInv

LEMMA RecordFailureKeeps ==
    ASSUME IInv, RecordFailure
    PROVE  IInv'
<1>1. /\ TypeOK' /\ runner.pc = "failure" /\ key \in Key
      /\ \/ ExecutionStep /\ runner'.pc = "incident"
         \/ StopStep
      /\ archive'.status \in {archive.status, "FAILED"}
      /\ SameOutcome(archive, archive') /\ SameRuns(archive, archive')
      /\ \E state \in RunState : archive'.run = [archive.run EXCEPT ![key] = state]
      /\ authority' = authority /\ answer' = answer
  BY RecordFailureStep DEF IInv
<1>2. /\ key \notin archive.evidence /\ archive.evidence \subseteq archive.intents
      /\ \A k \in archive.evidence : authority[k] = "FINALIZED" /\ archive.run[k] = "SUCCEEDED"
      /\ archive.evidence \subseteq Key /\ archive.run \in [Key -> RunState]
  BY <1>1, ExecutingFacts
<1>3. Settled'
  <2>1. PICK state \in RunState : archive'.run = [archive.run EXCEPT ![key] = state]
    BY <1>1
  <2>2. QED
    BY <1>1, <1>2, <2>1 DEF Settled, SameRuns
<1>4. CASE ExecutionStep /\ runner'.pc = "incident"
  <2>1. PathInv' /\ Closed'
    BY <1>4, ExecutionPath
  <2>2. Regenerated' /\ Announced'
    BY <1>1, <1>4, SameArchive DEF ExecutionStep, SameRecords
  <2>3. Executing'
    BY <1>4 DEF Executing, at, Executes, Assesses
  <2>4. QED
    BY <1>1, <1>3, <2>1, <2>2, <2>3 DEF IInv, EvidenceInv
<1>5. CASE StopStep
  BY <1>1, <1>3, <1>5, StopKeeps DEF SameOutcome
<1>6. QED
  BY <1>1, <1>4, <1>5

LEMMA RecordIncidentKeeps ==
    ASSUME IInv, RecordIncident
    PROVE  IInv'
<1>1. /\ StopStep /\ TypeOK' /\ archive'.status = "FAILED"
      /\ archive'.run = archive.run /\ archive'.result = archive.result
      /\ authority' = authority /\ answer' = answer
  BY RecordIncidentStep DEF IInv
<1>2. Settled'
  BY <1>1, SameRun DEF StopStep
<1>3. QED
  BY <1>1, <1>2, StopKeeps

LEMMA DieKeeps ==
    ASSUME IInv, Die
    PROVE  IInv'
<1>1. StopStep /\ TypeOK' /\ archive' = archive /\ authority' = authority /\ answer' = answer
  BY DieStep DEF IInv
<1>2. Settled'
  BY <1>1, SameRun DEF StopStep
<1>3. QED
  BY <1>1, <1>2, StopKeeps

\* Every seed of the panel has been executed for each candidate: none is left
\* out of the selection.
LEMMA PanelComplete ==
    ASSUME IInv, AnyAccepted
    PROVE  {k[2] : k \in archive.completed} = 1..Seeds
<1>1. archive.completed \subseteq Key /\ archive.candidates \in Seq(CandidateRecord)
  BY DEF IInv, TypeOK, ArchiveState
<1>2. PICK i \in 1..Len(archive.candidates) : Regenerates(archive, archive.candidates[i])
  BY DEF AnyAccepted, Assessed, Vectors, IInv, EvidenceInv, Regenerated
<1>3. PICK v : {v} \X (1..Seeds) \subseteq archive.completed
  BY <1>2 DEF Regenerates
<1>4. ASSUME NEW j \in 1..Seeds
      PROVE  j \in {k[2] : k \in archive.completed}
  <2>1. <<v, j>> \in archive.completed /\ <<v, j>>[2] = j
    BY <1>3, <1>4
  <2>2. QED
    BY <2>1
<1>5. ASSUME NEW k \in archive.completed
      PROVE  k[2] \in 1..Seeds
  BY <1>1, <1>5 DEF Key
<1>6. QED
  BY <1>4, <1>5

LEMMA ConcludeKeeps ==
    ASSUME IInv, Conclude
    PROVE  IInv'
<1>1. /\ StopStep /\ TypeOK' /\ runner.pc = "conclude" /\ archive'.run = archive.run
      /\ archive'.incidents = archive.incidents /\ authority' = authority
      /\ \/ /\ ~AnyAccepted \/ ~runner.complete
            /\ answer' = "EXHAUSTED" /\ archive' = archive
         \/ /\ AnyAccepted /\ runner.complete
            /\ answer' = Result(archive) /\ archive'.status = "COMPLETE"
            /\ archive'.result = Result(archive)
  BY ConcludeStep DEF IInv
<1>2. /\ landscape' = landscape /\ archive'.candidates = archive.candidates
      /\ runner'.pc = "down" /\ SameRuns(archive, archive') /\ runner.pc # "down"
  BY <1>1, IdleTyped DEF StopStep, SameRecords
<1>3. archive.status # "COMPLETE" /\ archive.result = None /\ archive.incidents = 0
  BY <1>2, AtWork DEF IInv, EvidenceInv, Closed
<1>4. /\ Exhausts /\ Search(landscape).cut = ~runner.complete
      /\ runner.complete => Final.verdict = "complete"
  BY <1>1 DEF IInv, PathInv, Concludes, at
<1>5. landscape \in Landscapes /\ archive.candidates \in Seq(CandidateRecord)
  BY WalkedFacts
<1>6. PathInv'
  BY <1>1, StopPath
<1>7. Regenerated' /\ Announced'
  BY <1>2, SameArchive
<1>8. Settled'
  BY <1>1, <1>2, SameRun
<1>9. Executing'
  BY <1>2 DEF Executing, at, Executes, Assesses
<1>10. Final' = Final /\ (Exhausts' <=> Exhausts) /\ Outcome' = Outcome
  BY <1>2 DEF Final, Exhausts, Outcome
<1>11. AnyAccepted <=> Selected(landscape, Vectors(archive.candidates)) # None
  BY <1>5, SelectedTyped DEF AnyAccepted, Assessed
<1>12. Outcome = IF ~runner.complete \/ ~AnyAccepted THEN "EXHAUSTED"
                 ELSE Selected(landscape, Vectors(archive.candidates))
  BY <1>4, <1>11 DEF Outcome, Exhausts
<1>13. CASE ~AnyAccepted \/ ~runner.complete
  <2>1. answer' = "EXHAUSTED" /\ archive' = archive
    BY <1>1, <1>13
  <2>2. Outcome = "EXHAUSTED"
    BY <1>12, <1>13
  <2>3. Closed'
    BY <1>3, <1>4, <1>10, <2>1, <2>2 DEF Closed
  <2>4. QED
    BY <1>1, <1>6, <1>7, <1>8, <1>9, <2>3 DEF IInv, EvidenceInv
<1>14. CASE AnyAccepted /\ runner.complete
  <2>1. /\ answer' = Result(archive) /\ archive'.status = "COMPLETE"
        /\ archive'.result = Result(archive)
    BY <1>1, <1>14
  <2>2. Result(archive) = Selected(landscape, Vectors(archive.candidates))
    BY <1>3, <1>14, PanelComplete DEF Result
  <2>3. Outcome = Result(archive)
    BY <1>12, <1>14, <2>2
  <2>4. Result(archive)' = Result(archive)
    BY <1>1, <1>2 DEF Result, SameRuns
  <2>5. Closed'
    BY <1>2, <1>4, <1>10, <1>14, <2>1, <2>3, <2>4 DEF Closed, at
  <2>6. QED
    BY <1>1, <1>6, <1>7, <1>8, <1>9, <2>5 DEF IInv, EvidenceInv
<1>15. QED
  BY <1>1, <1>13, <1>14

-----------------------------------------------------------------------------
(* The authority, and steps that change no run                               *)

LEMMA AuthorityKeeps ==
    ASSUME IInv, TypeOK', UNCHANGED <<landscape, archive, runner, answer>>,
           \A k \in Key : authority[k] = "FINALIZED" => authority'[k] = "FINALIZED"
    PROVE  IInv'
<1>1. PathInv' /\ Closed' /\ Regenerated' /\ Announced'
  <2>1. Final' = Final /\ Walked'
    BY DEF Final, IInv, PathInv, Walked
  <2>2. Resuming' /\ Trying' /\ Taken'
    BY <2>1
    DEF IInv, PathInv, Resuming, Trying, Taken, OnPlace, at, Resumed, OperationLeft, next, base
  <2>3. Abreast' /\ Concludes' /\ Kept'
    BY <2>1 DEF IInv, PathInv, Abreast, Concludes, Kept, at, Exhausts
  <2>4. Closed' /\ Regenerated' /\ Announced'
    BY <2>1
    DEF IInv, EvidenceInv, Closed, Regenerated, Regenerates, Announced, at, Exhausts, Outcome, Result
  <2>5. QED
    BY <2>1, <2>2, <2>3, <2>4 DEF PathInv
<1>2. Settled'
  BY SameRun DEF SameRuns
<1>3. Executing'
  <2>1. key' = key /\ archive' = archive /\ runner' = runner /\ landscape' = landscape
    BY DEF key
  <2>2. Executing
    BY DEF IInv, EvidenceInv
  <2>3. runner.pc = "evidence" => authority'[key] = "FINALIZED"
    <3>1. runner.pc = "evidence" => key \in Key
      BY KeyTyped DEF IInv, TypeOK, Executes
    <3>2. QED
      BY <2>2, <3>1 DEF Executing, at
  <2>4. QED
    BY <2>1, <2>2, <2>3 DEF Executing, at
<1>4. QED
  BY <1>1, <1>2, <1>3 DEF IInv, EvidenceInv

LEMMA OpenCompleteKeeps ==
    ASSUME IInv, OpenComplete
    PROVE  IInv'
<1>1. /\ TypeOK' /\ UNCHANGED <<landscape, archive, authority, runner>>
      /\ answer' = archive.result /\ archive.status = "COMPLETE"
  BY OpenCompleteStep DEF IInv
<1>2. Final' = Final /\ Walked'
  BY <1>1 DEF Final, IInv, PathInv, Walked
<1>3. Resuming' /\ Trying' /\ Taken'
  BY <1>1, <1>2
  DEF IInv, PathInv, Resuming, Trying, Taken, OnPlace, at, Resumed, OperationLeft, next, base
<1>4. Abreast' /\ Concludes' /\ Kept'
  BY <1>1, <1>2 DEF IInv, PathInv, Abreast, Concludes, Kept, at, Exhausts
<1>5. Regenerated' /\ Announced' /\ Settled'
  BY <1>1 DEF IInv, EvidenceInv, Regenerated, Regenerates, Announced, Settled
<1>6. Executing'
  <2>1. Executing /\ key' = key
    BY <1>1 DEF IInv, EvidenceInv, key
  <2>2. QED
    BY <1>1, <2>1 DEF Executing, at
<1>7. Closed'
  <2>1. Closed /\ Exhausts
    BY <1>1 DEF IInv, EvidenceInv, Closed
  <2>2. /\ Final' = Final /\ (Exhausts' <=> Exhausts) /\ Outcome' = Outcome
        /\ Result(archive)' = Result(archive)
    BY <1>1, <1>2 DEF Exhausts, Outcome, Result
  <2>3. QED
    BY <1>1, <2>1, <2>2 DEF Closed, at
<1>8. QED
  BY <1>1, <1>2, <1>3, <1>4, <1>5, <1>6, <1>7 DEF IInv, PathInv, EvidenceInv

LEMMA Stuttering ==
    ASSUME IInv, UNCHANGED vars
    PROVE  IInv'
<1>1. TypeOK' /\ UNCHANGED <<landscape, archive, authority, runner, answer>>
  BY DEF IInv, TypeOK, vars
<1>2. QED
  BY <1>1, AuthorityKeeps

-----------------------------------------------------------------------------
(* The invariant                                                             *)

LEMMA InitTyped ==
    ASSUME Init
    PROVE  TypeOK
<1>1. NoProgress \in Progress /\ None \in Parameters
  BY DEF NoProgress, Progress, Parameters
<1>2. <<>> \in Seq(CandidateRecord) /\ "NONE" \in RunState /\ "NONE" \in Status
  BY DEF RunState, Status
<1>3. Unborn \in ArchiveState
  BY <1>1, <1>2 DEF Unborn, ArchiveState
<1>4. [k \in Key |-> "ABSENT"] \in [Key -> {"ABSENT", "PENDING", "FINALIZED"}]
  OBVIOUS
<1>5. QED
  BY <1>3, <1>4, IdleTyped DEF Init, TypeOK, Executes, Assesses

LEMMA InitWalked ==
    ASSUME Init
    PROVE  Walked
<1>1. landscape \in Landscapes /\ archive.candidates = <<>>
  BY DEF Init, Unborn
<1>2. OnPath(landscape, <<>>, Begin) /\ Len(<<>>) = 0
  BY <1>1, PathBegin
<1>3. Settles(Begin, <<>>, Final)
  BY <1>1, <1>2, PathSettles DEF Final
<1>4. Final.cursor = 0 /\ Final.incumbent = None /\ Final.progress = NoProgress
  BY <1>2, <1>3 DEF Settles, Begin
<1>5. Latest(Final) = Begin
  BY <1>4 DEF Latest, Begin, NoProgress
<1>6. QED
  BY <1>1, <1>2, <1>5 DEF Walked

LEMMA InitIInv == Init => IInv
<1> SUFFICES ASSUME Init PROVE IInv
  OBVIOUS
<1>1. /\ runner.pc = "down" /\ runner.complete /\ answer = None
      /\ archive.status = "NONE" /\ archive.candidates = <<>> /\ archive.intents = {}
      /\ archive.evidence = {} /\ archive.completed = {} /\ archive.result = None
  BY IdleTyped DEF Init, Unborn
<1>2. PathInv
  BY <1>1, InitWalked
  DEF PathInv, Resuming, Abreast, Trying, Taken, Concludes, Kept, at, Walking, Executes, Assesses
<1>3. EvidenceInv
  <2>1. Regenerated /\ Announced /\ Settled
    BY <1>1 DEF Regenerated, Announced, Settled
  <2>2. Executing
    BY <1>1 DEF Executing, at, Executes, Assesses
  <2>3. Closed
    BY <1>1 DEF Closed
  <2>4. QED
    BY <2>1, <2>2, <2>3 DEF EvidenceInv
<1>4. QED
  BY <1>2, <1>3, InitTyped DEF IInv

\* One step per operation of a run and of the authority.
LEMMA NextIInv == IInv /\ [Next]_vars => IInv'
<1> SUFFICES ASSUME IInv, [Next]_vars PROVE IInv'
  OBVIOUS
<1>1. CASE Open
  BY <1>1, OpenKeeps
<1>2. CASE OpenComplete
  BY <1>2, OpenCompleteKeeps
<1>3. CASE Restore
  BY <1>3, RestoreKeeps
<1>4. CASE Bind
  BY <1>4, BindKeeps
<1>5. CASE EnterRound
  BY <1>5, EnterRoundKeeps
<1>6. CASE EndRound
  BY <1>6, EndRoundKeeps
<1>7. CASE StopAtBound
  BY <1>7, StopAtBoundKeeps
<1>8. CASE SkipOperation
  BY <1>8, SkipOperationKeeps
<1>9. CASE TakeCandidate
  BY <1>9, TakeCandidateKeeps
<1>10. CASE RecordIntent
  BY <1>10, RecordIntentKeeps
<1>11. CASE UseCheckpoint
  BY <1>11, UseCheckpointKeeps
<1>12. CASE BeginAttempt
  BY <1>12, BeginAttemptKeeps
<1>13. CASE Dispatch
  BY <1>13, DispatchKeeps
<1>14. CASE Execute
  BY <1>14, ExecuteKeeps
<1>15. CASE Acknowledged
  BY <1>15, AcknowledgedKeeps
<1>16. CASE QuarantineResult
  BY <1>16, QuarantineResultKeeps
<1>17. CASE RecordFailure
  BY <1>17, RecordFailureKeeps
<1>18. CASE RecordIncident
  BY <1>18, RecordIncidentKeeps
<1>19. CASE RecordEvidence
  BY <1>19, RecordEvidenceKeeps
<1>20. CASE Assess
  BY <1>20, AssessKeeps
<1>21. CASE RecordManifest
  BY <1>21, RecordManifestKeeps
<1>22. CASE RecordCandidate
  BY <1>22, RecordCandidateKeeps
<1>23. CASE RecordProgress
  BY <1>23, RecordProgressKeeps
<1>24. CASE Conclude
  BY <1>24, ConcludeKeeps
<1>25. CASE Unreachable \/ FailedExecution \/ Unacknowledged \/ RejectResult
  BY <1>25, FailingKeeps
<1>26. CASE Die
  BY <1>26, DieKeeps
<1>27. CASE Authority \/ \E k \in Key : Lose(k)
  <2>1. TypeOK
    BY DEF IInv
  <2>2. QED
    BY <1>27, <2>1, AuthorityStep, AuthorityKeeps
<1>28. CASE UNCHANGED vars
  BY <1>28, Stuttering
<1>29. QED
  BY <1>1, <1>2, <1>3, <1>4, <1>5, <1>6, <1>7, <1>8, <1>9, <1>10, <1>11, <1>12, <1>13,
     <1>14, <1>15, <1>16, <1>17, <1>18, <1>19, <1>20, <1>21, <1>22, <1>23, <1>24, <1>25,
     <1>26, <1>27, <1>28 DEF Next, Step

\* Whatever stops the runs, and wherever: what they archive and what they hold
\* in memory is a place of the reconstruction of the archive and of the search
\* of the protocol at once (_run, src/calibration-runner.js:2411).
THEOREM Invariant == Spec => []IInv
<1>1. QED
  BY InitIInv, NextIInv, PTL DEF Spec

\* The archive, the run and the authority keep their types
\* (CalibrationArchive.initialize, src/calibration-runner.js:1525).
THEOREM TypeCorrect == Spec => []TypeOK
<1>1. IInv => TypeOK
  BY DEF IInv
<1>2. QED
  BY <1>1, Invariant, PTL

-----------------------------------------------------------------------------
(* The properties                                                            *)

LEMMA HistoryFollows == IInv => HistoryIsSearch
<1> SUFFICES ASSUME IInv PROVE HistoryIsSearch
  OBVIOUS
<1>1. /\ landscape \in Landscapes /\ archive.candidates \in Seq(CandidateRecord)
      /\ Final.verdict \in {"partial", "complete"}
  BY WalkedFacts
<1>2. Agree(archive.candidates, Search(landscape).records)
  BY <1>1, PathTyped DEF IInv, PathInv, Walked
<1>3. runner.pc = "operation" => runner.incumbent = Final.incumbent
  <2>1. SUFFICES ASSUME runner.pc = "operation" PROVE runner.incumbent = Final.incumbent
    OBVIOUS
  <2>2. PICK s : Before(s)
    BY <2>1, BeforeOperation
  <2>3. OnPath(landscape, archive.candidates, s) /\ s.incumbent = runner.incumbent
    BY <2>2 DEF Before
  <2>4. s.incumbent = Final.incumbent
    BY <1>1, <2>3, PathPlace DEF Final
  <2>5. QED
    BY <2>3, <2>4
<1>4. runner.pc = "operation" => runner.index = Len(archive.candidates)
  BY DEF IInv, PathInv, Abreast
<1>5. QED
  BY <1>1, <1>2, <1>3, <1>4 DEF HistoryIsSearch, Agree, Final, at

\* What runs archive is the uninterrupted search, in its order, and none of
\* their successors refuses it (reconstructCalibrationSearch,
\* src/calibration-runner.js:2180).
THEOREM SearchIsResumed == Spec => []HistoryIsSearch
<1>1. QED
  BY HistoryFollows, Invariant, PTL

LEMMA Verifies == IInv => ArchiveVerifies
<1> SUFFICES ASSUME IInv,
                    archive.status = "COMPLETE" \/ runner.pc \notin {"down", "restore", "progress"}
             PROVE  Verified(archive)
  BY DEF ArchiveVerifies
<1>1. Final.verdict \in {"partial", "complete"}
  BY WalkedFacts
<1>2. archive.progress.candidates = Len(archive.candidates) /\ archive.incumbent = Final.incumbent
  BY DEF IInv, PathInv, Kept
<1>3. Regenerated
  BY DEF IInv, EvidenceInv
<1>4. ResultVerified(archive, Final)
  BY DEF IInv, EvidenceInv, Closed, ResultVerified
<1>5. QED
  BY <1>1, <1>2, <1>3, <1>4 DEF Verified, Regenerated, Final

\* An archive always verifies again, from the evidence up to the result, once a
\* run has restored its progress (CalibrationArchive.verify, src/calibration-runner.js:1796).
THEOREM ArchiveIsVerifiable == Spec => []ArchiveVerifies
<1>1. QED
  BY Verifies, Invariant, PTL

\* No two calls of run() answer differently, and none otherwise than the search
\* of the protocol (the end of _run, src/calibration-runner.js:2727).
THEOREM OneOutcome == Spec => []ResultIsSearch
<1>1. IInv => ResultIsSearch
  <2>1. SUFFICES ASSUME IInv PROVE ResultIsSearch
    OBVIOUS
  <2>2. Closed
    BY <2>1 DEF IInv, EvidenceInv
  <2>3. QED
    BY <2>2, Zenon DEF Closed, ResultIsSearch
<1>2. QED
  BY <1>1, Invariant, PTL

LEMMA Settlement == IInv => NothingUnsettled
<1> SUFFICES ASSUME IInv, answer # None
             PROVE  /\ archive.intents = Vectors(archive.candidates) \X (1..Seeds)
                    /\ \A k \in archive.intents :
                          /\ authority[k] = "FINALIZED"
                          /\ k \in archive.evidence \cap archive.completed
                          /\ archive.run[k] = "SUCCEEDED"
  BY DEF NothingUnsettled
<1>1. Exhausts
  BY DEF IInv, EvidenceInv, Closed
<1>2. archive.intents \subseteq Key
  BY DEF IInv, TypeOK, ArchiveState
<1>3. /\ archive.completed \subseteq archive.evidence
      /\ archive.evidence \subseteq archive.intents
      /\ \A k \in archive.evidence : authority[k] = "FINALIZED" /\ archive.run[k] = "SUCCEEDED"
  BY DEF IInv, EvidenceInv, Regenerated, Settled
<1>4. Vectors(archive.candidates) \X (1..Seeds) \subseteq archive.completed
  <2>1. SUFFICES ASSUME NEW i \in 1..Len(archive.candidates), NEW j \in 1..Seeds
                 PROVE  <<archive.candidates[i].vector, j>> \in archive.completed
    BY DEF Vectors
  <2>2. Regenerates(archive, archive.candidates[i])
    BY DEF IInv, EvidenceInv, Regenerated
  <2>3. QED
    BY <2>2 DEF Regenerates
<1>5. ASSUME NEW k \in archive.intents
      PROVE  k \in Vectors(archive.candidates) \X (1..Seeds)
  <2>1. PICK i \in 1..Len(archive.candidates) : archive.candidates[i].vector = k[1]
    BY <1>1, <1>5 DEF IInv, EvidenceInv, Announced, Exhausts
  <2>2. k[1] \in Vectors(archive.candidates)
    BY <2>1 DEF Vectors
  <2>3. k = <<k[1], k[2]>> /\ k[2] \in 1..Seeds
    BY <1>2, <1>5 DEF Key
  <2>4. QED
    BY <2>2, <2>3
<1>6. QED
  BY <1>3, <1>4, <1>5

\* An answer leaves nothing open: no execution was announced, then forgotten,
\* and each is held by the authority and the archive alike (recordExecutionIntent,
\* src/calibration-runner.js:1571).
THEOREM AllSettled == Spec => []NothingUnsettled
<1>1. QED
  BY Settlement, Invariant, PTL
=============================================================================
