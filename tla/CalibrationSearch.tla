-------------------------- MODULE CalibrationSearch --------------------------
(***************************************************************************)
(* The frozen search over parameter sets, as pure functions:               *)
(* reconstructCalibrationSearch and betterCandidate of                     *)
(* src/calibration-runner.js, selectCalibrationCandidate of                *)
(* src/calibration.js, and, to compare them with, the search that the      *)
(* protocol describes, carried out in one go.                              *)
(*                                                                         *)
(* A landscape stands for what the executions would measure: the parameter *)
(* set each operation makes of another one, the violations of its metrics  *)
(* in the protocol's order, its rank in the final selection, and whether   *)
(* its metrics disclose the treatment to the selector.                     *)
(***************************************************************************)
EXTENDS Naturals, Sequences

CONSTANTS
    Vector,           \* parameter sets
    Start,            \* startingParameterSet()
    Operations,       \* how many operations are enumerated; the first: BASELINE
    MaxRounds,        \* protocol.search_procedure.maximum_rounds
    Bound,            \* maximumCandidates
    None              \* JavaScript's null

ASSUME SearchBounds ==
    /\ Start \in Vector /\ None \notin Vector
    /\ Operations \in Nat \ {0} /\ MaxRounds \in Nat \ {0} /\ Bound \in Nat \ {0}

Elements(s) == {s[i] : i \in 1..Len(s)}
Newest(s) == s[Len(s)]

\* applyOperation: the baseline leaves a parameter set as it is.
Apply(land, v, operation) == IF operation = 1 THEN v ELSE land.apply[<<v, operation>>]

\* assertCalibrationTransition.
Transition(land, parent, v, operation) ==
    operation \in 1..Operations /\ v = Apply(land, parent, operation)

\* A round after the first one leaves the baseline out.
OperationsIn(round) == IF round = 0 THEN Operations ELSE Operations - 1
OperationAt(round, i) == IF round = 0 THEN i ELSE i + 1

Accepted(land, v) == \A m \in DOMAIN land.violation[v] : land.violation[v][m] = 0

\* betterCandidate: no metric that passed may fail; then the first that differs.
Better(land, v, w) ==
    LET a == land.violation[v]  b == land.violation[w] IN
    /\ \A m \in DOMAIN a : b[m] = 0 => a[m] = 0
    /\ \E m \in DOMAIN a :
          a[m] < b[m] /\ \A l \in 1..(m - 1) : a[l] = b[l]
Admits(land, incumbent, v) == incumbent = None \/ Better(land, v, incumbent)

\* selectCalibrationCandidate: the accepted candidate of the highest score.
Selected(land, vectors) ==
    LET accepted == {v \in vectors : Accepted(land, v)} IN
    IF accepted = {} THEN None
    ELSE CHOOSE v \in accepted :
            \A w \in accepted \ {v} : land.score[v] > land.score[w]

-----------------------------------------------------------------------------
(* reconstructCalibrationSearch: the loops over rounds and operations, one *)
(* turn of the inner loop at a time.  Rounds count from 0, operations and  *)
(* records from 1; operation is the next one, cursor the records matched.  *)

Record(v, parent, operation, round) ==
    [vector |-> v, parent |-> parent, operation |-> operation, round |-> round]

NoProgress == [round |-> 0, operation |-> 0, candidates |-> 0, improved |-> FALSE]

Begin == [round |-> 0, operation |-> 1, incumbent |-> None, improved |-> FALSE,
          cursor |-> 0, progress |-> NoProgress, verdict |-> "open"]

Base(s) == IF s.incumbent = None THEN Start ELSE s.incumbent
Verdict(s, records) == IF s.cursor = Len(records) THEN "complete" ELSE "refused"

RoundEnds(land, records, s) ==
    IF \/ \E i \in 1..s.cursor : Accepted(land, records[i].vector)
       \/ ~s.improved \/ s.round + 1 = MaxRounds
    THEN [s EXCEPT !.verdict = Verdict(s, records)]
    ELSE [s EXCEPT !.round = @ + 1, !.operation = 1, !.improved = FALSE]

Matched(land, s, v) ==
    LET admitted == Admits(land, s.incumbent, v)
        improved == s.improved \/ admitted
    IN  [s EXCEPT !.operation = @ + 1, !.cursor = @ + 1, !.improved = improved,
                  !.incumbent = IF admitted THEN v ELSE @,
                  !.progress = [round |-> s.round, operation |-> s.operation,
                                candidates |-> s.cursor + 1,
                                improved |-> improved]]

Turn(land, records, s) ==
    LET operation == OperationAt(s.round, s.operation)
        v == Apply(land, Base(s), operation)
        next == s.cursor + 1
    IN
    IF s.verdict # "open" THEN s
    ELSE IF s.operation > OperationsIn(s.round) THEN RoundEnds(land, records, s)
    ELSE IF v \in {records[i].vector : i \in 1..s.cursor}
         THEN [s EXCEPT !.operation = @ + 1]
    ELSE IF s.cursor >= Bound THEN [s EXCEPT !.verdict = Verdict(s, records)]
    ELSE IF next > Len(records) THEN [s EXCEPT !.verdict = "partial"]
    ELSE IF records[next] # Record(v, Base(s), operation, s.round)
         THEN [s EXCEPT !.verdict = "refused"]
    ELSE Matched(land, s, v)

\* The state before a turn is bound by the set, so that TLC evaluates it once.
Turns == MaxRounds * (Operations + 1) + 1
Walk(land, records) ==
    LET after[n \in 0..Turns] ==
            IF n = 0 THEN Begin
            ELSE CHOOSE t \in {Turn(land, records, s) : s \in {after[n - 1]}} : TRUE
    IN  after
Reconstructed(land, records) == Walk(land, records)[Turns]

-----------------------------------------------------------------------------
(* The search of the protocol: from the incumbent of a round, every        *)
(* operation in order, each new parameter set evaluated once, the better   *)
(* one kept; rounds until one has an accepted candidate or improves        *)
(* nothing.                                                                *)

Evaluate(land, s, i, round) ==
    LET base == IF s.incumbent = None THEN Start ELSE s.incumbent
        operation == OperationAt(round, i)
        v == Apply(land, base, operation)
    IN
    IF Len(s.records) >= Bound THEN [s EXCEPT !.cut = TRUE]
    ELSE IF v \in {r.vector : r \in Elements(s.records)} THEN s
    ELSE [s EXCEPT !.records = Append(@, Record(v, base, operation, round)),
                   !.incumbent = IF Admits(land, @, v) THEN v ELSE @]

Evals(land, start, round) ==
    LET after[i \in 0..OperationsIn(round)] ==
            IF i = 0 THEN start ELSE Evaluate(land, after[i - 1], i, round)
    IN  after
Round(land, start, round) == Evals(land, start, round)[OperationsIn(round)]

\* Whether it goes on after a round that began with `start'.
Satisfied(land, s) == \E r \in Elements(s.records) : Accepted(land, r.vector)
Ended(land, start, s) ==
    [s EXCEPT !.over = Satisfied(land, s) \/ s.cut \/ s.incumbent = start.incumbent]

Unsearched == [records |-> <<>>, incumbent |-> None, cut |-> FALSE, over |-> FALSE]
Rounds(land) ==
    LET after[n \in 0..MaxRounds] ==
            IF n = 0 THEN Unsearched
            ELSE IF after[n - 1].over THEN after[n - 1]
            ELSE Ended(land, after[n - 1], Round(land, after[n - 1], n - 1))
    IN  after
\* Its records, and whether the bound cut it.
Search(land) == Rounds(land)[MaxRounds]
=============================================================================
