--------------------------- MODULE TurnPhasesProofs ---------------------------
(* The safety invariants of TurnPhases, proved for every value of its          *)
(* constants.                                                                  *)
EXTENDS TurnPhases, TLAPS

-----------------------------------------------------------------------------
(* The inductive invariant *)

\* Whose readiness was confirmed is ready, until the phase ends.
ReadyAcked == state # None => state.ready = acked

\* Where a batch is in each phase of the turn.
StatusIn(phase, b) ==
    IF b = None THEN "none"
    ELSE IF phase \in {"final_planning", "validation"} THEN "submitted"
    ELSE IF b = "unfit" THEN "rejected"
    ELSE IF phase = "accepted_commit" THEN "validated"
    ELSE IF phase = "resolution" THEN "accepted"
    ELSE "resolved"
Counted ==
    state # None =>
        /\ state.batches = offered
        /\ state.phase \in {"observation", "private_planning", "diplomacy"} =>
            \A a \in Actor : offered[a] = None
        /\ \A a \in Actor : state.submissions[a] = StatusIn(state.phase, offered[a])
        /\ state.phase \in {"resolution"} \cup Post =>
            state.committed = {a \in Actor : offered[a] \notin {None, "unfit"}}

\* A record is sealed in its phase, after which what it records is not touched.
Sealed ==
    state # None =>
        /\ state.memory_archive # None =>
            /\ state.phase \in {"snapshot", "interview", "close"}
            /\ state.memory_archive = state.memory_operations
        /\ state.snapshot # None =>
            /\ state.phase \in {"interview", "close"}
            /\ state.snapshot = state.memory_archive
        /\ state.interviews # None => state.phase \in {"interview", "close"}

\* Once a round of interviews is complete, nobody else responds: everybody has,
\* or their time is over.
Respondents == {a \in alive : Responses(a) # {}}
Interviewed ==
    /\ call # None => call.actor \in alive
    /\ state # None /\ state.interviews # None /\ setBacks = 0 =>
        /\ state.interviews = Respondents
        /\ state.phase = "interview" => clock = "past" \/ Respondents = alive

IInv == /\ TypeOK /\ CallPinsPhase /\ MessagesOnce
        /\ ReadyAcked /\ AbsencesTrue
        /\ Counted /\ Sealed /\ Interviewed

-----------------------------------------------------------------------------
(* Lemmas on phases *)

LEMMA FollowingType ==
    ASSUME NEW p \in Phase, p # "close"
    PROVE  Following[p] \in Phase
BY DEF Following, Phase

LEMMA OnwardType ==
    ASSUME NEW s \in Lifecycle, s.phase # "close"
    PROVE  Onward(s) \in Lifecycle
BY FollowingType DEF Onward, Lifecycle, Phase

LEMMA OpenedType ==
    ASSUME NEW t \in Turn
    PROVE  Opened(t) \in Lifecycle
BY DEF Opened, Lifecycle, Phase, Status

-----------------------------------------------------------------------------
(* Type correctness *)

\* What a step of an actor's or of a model call may change.
LEMMA ActorType ==
    ASSUME TypeOK, NEW a \in Actor,
           Look(a) \/ Projection(a) \/ Ready(a) \/ Dispatch(a) \/ (\E b \in Batch : Submit(a, b))
    PROVE  TypeOK'
<1>1. CASE Look(a)
  BY <1>1 DEF Look, TypeOK, world, asking, time, history
<1>2. CASE Projection(a)
  <2>1. state \in Lifecycle
    BY <1>2 DEF Projection, Opportunity, InPhase, TypeOK
  <2>2. state' \in Lifecycle
    BY <1>2, <2>1 DEF Projection, Lifecycle
  <2> QED
    BY <1>2, <2>2 DEF Projection, TypeOK, world, asking, time, history
<1>3. CASE Ready(a)
  <2>1. state \in Lifecycle
    BY <1>3 DEF Ready, Opportunity, InPhase, TypeOK
  <2>2. state' \in Lifecycle
    BY <1>3, <2>1 DEF Ready, Issued, Lifecycle
  <2> QED
    BY <1>3, <2>2 DEF Ready, TypeOK, world, asking, time
<1>4. CASE Dispatch(a)
  <2>1. /\ call' \in Call /\ calls' \in 0..MaxCalls
    <3>1. state \in Lifecycle /\ state.phase \in Calling
      BY <1>4 DEF Dispatch, Calls, TypeOK
    <3> QED
      BY <1>4, <3>1, BoundsAreNaturals DEF Dispatch, TypeOK, Call, Lifecycle
  <2> QED
    BY <1>4, <2>1 DEF Dispatch, TypeOK, world, time, history
<1>5. CASE \E b \in Batch : Submit(a, b)
  <2> PICK b \in Batch : Submit(a, b)
    BY <1>5
  <2>1. state \in Lifecycle
    BY DEF Submit, Opportunity, InPhase, TypeOK
  <2>2. state' \in Lifecycle
    BY <2>1 DEF Submit, Issued, Lifecycle, Status
  <2> QED
    BY <2>2 DEF Submit, TypeOK, world, asking, time
<1> QED
  BY <1>1, <1>2, <1>3, <1>4, <1>5

LEMMA MessageType ==
    ASSUME TypeOK, NEW m \in Message, Diplomacy(m)
    PROVE  TypeOK'
<1>1. state \in Lifecycle /\ m.actor \in Actor
  BY MessagesHaveSenders DEF Diplomacy, MayTell, Opportunity, InPhase, TypeOK
<1>2. state' \in Lifecycle
  BY <1>1 DEF Diplomacy, Issued, Lifecycle
<1>3. inbox' \in [Actor -> [Message -> Nat]]
  BY DEF Diplomacy, TypeOK
<1>4. current' \subseteq Participant
  BY DEF Diplomacy, TypeOK
<1> QED
  BY <1>2, <1>3, <1>4 DEF Diplomacy, TypeOK, world, asking, time, history

\* An answer used in a phase, the round of interviews, an outcome.
LEMMA AnswerType ==
    ASSUME TypeOK,
           Complete \/ CompleteInterviews \/ (\E c \in answers : UpdateMemory(c))
    PROVE  TypeOK'
<1>1. CASE Complete
  BY <1>1 DEF Complete, TypeOK, world, time, history
<1>2. CASE CompleteInterviews
  <2>1. state \in Lifecycle
    BY <1>2 DEF CompleteInterviews, InPhase, TypeOK
  <2>2. state' \in Lifecycle
    BY <1>2, <2>1 DEF CompleteInterviews, Lifecycle, TypeOK
  <2> QED
    BY <1>2, <2>2 DEF CompleteInterviews, TypeOK, world, asking, time, history
<1>3. CASE \E c \in answers : UpdateMemory(c)
  <2> PICK c \in answers : UpdateMemory(c)
    BY <1>3
  <2>1. state \in Lifecycle /\ c \in Call
    BY DEF UpdateMemory, Opportunity, InPhase, TypeOK
  <2>2. state' \in Lifecycle
    BY <2>1 DEF UpdateMemory, Lifecycle
  <2> QED
    BY <2>2 DEF UpdateMemory, TypeOK, world, asking, time, history
<1> QED
  BY <1>1, <1>2, <1>3

\* A phase is opened with a state of the right type.
LEMMA OpensType ==
    ASSUME TypeOK, NEW s \in Lifecycle, Opens(s),
           worldTurn' \in 0..MaxTurns, alive' \subseteq Actor, terminal' \in BOOLEAN,
           UNCHANGED <<dispositions, offered>>,
           inbox' \in {inbox, NoMessages},
           \/ boundary' = None
           \/ /\ boundary' = [expected |-> Expected, missing |-> Expected \ state.ready,
                              done |-> acked]
    PROVE  TypeOK' /\ state' \in Lifecycle
<1>1. inbox' \in [Actor -> [Message -> Nat]]
  BY DEF TypeOK, NoMessages
<1>2. Expected \subseteq Actor
  BY DEF Expected, TypeOK
<1>3. boundary' \in {None} \cup
         [expected : SUBSET Actor, missing : SUBSET Actor, done : SUBSET Actor]
  BY <1>2 DEF TypeOK
<1> QED
  BY <1>1, <1>3 DEF Opens, TypeOK, asking

LEMMA AdvanceType == ASSUME TypeOK, Advance PROVE TypeOK' /\ state' \in Lifecycle
<1>1. CASE AdvanceInteractive
  <2>1. state \in Lifecycle /\ state.phase # "close"
    BY <1>1 DEF AdvanceInteractive, InPhase, TypeOK, Interactive
  <2>2. Onward(state) \in Lifecycle
    BY <2>1, OnwardType
  <2> QED
    BY <1>1, <2>2, OpensType DEF AdvanceInteractive, world, TypeOK
<1>2. CASE Validate
  <2>1. state \in Lifecycle /\ state.phase # "close"
    BY <1>2 DEF Validate, InTime, InPhase, TypeOK
  <2> DEFINE s == [Onward(state) EXCEPT !.submissions = [a \in Actor |->
            IF @[a] = "none" THEN "none"
            ELSE IF state.batches[a] = "unfit" THEN "rejected" ELSE "validated"]]
  <2>2. Onward(state) \in Lifecycle
    BY <2>1, OnwardType
  <2>3. s \in Lifecycle
    BY <2>2 DEF Lifecycle, Status
  <2> QED
    BY <1>2, <2>3, OpensType DEF Validate, world, TypeOK
<1>3. CASE Commit
  <2>1. state \in Lifecycle /\ state.phase # "close"
    BY <1>3, SMTT(40) DEF Commit, InTime, InPhase, TypeOK
  <2> DEFINE s == [Onward(state) EXCEPT !.committed = Selected,
            !.submissions = [a \in Actor |-> IF a \in Selected THEN "accepted" ELSE @[a]]]
  <2>2. Onward(state) \in Lifecycle
    BY <2>1, OnwardType
  <2>3. s \in Lifecycle
    BY <2>2 DEF Lifecycle, Status, Selected
  <2> QED
    BY <1>3, <2>3, OpensType DEF Commit, world, TypeOK
<1>4. CASE Resolve
  <2>1. state \in Lifecycle /\ state.phase # "close"
    BY <1>4 DEF Resolve, InTime, InPhase, TypeOK
  <2> DEFINE s == [Onward(state) EXCEPT !.submissions =
            [a \in Actor |-> IF @[a] = "accepted" THEN "resolved" ELSE @[a]]]
  <2>2. Onward(state) \in Lifecycle
    BY <2>1, OnwardType
  <2>3. s \in Lifecycle
    BY <2>2 DEF Lifecycle, Status
  <2>4. worldTurn' \in 0..MaxTurns
    BY <1>4, <2>1, BoundsAreNaturals
    DEF Resolve, InTime, InPhase, InStep, Post, TypeOK, Lifecycle, Turn
  <2>5. alive' \subseteq Actor /\ terminal' \in BOOLEAN
    BY <1>4 DEF Resolve, Ended, TypeOK
  <2> QED
    BY <1>4, <2>3, <2>4, <2>5, OpensType DEF Resolve, world
<1>5. CASE ArchiveMemory
  <2>1. state \in Lifecycle /\ state.phase # "close"
    BY <1>5 DEF ArchiveMemory, InTime, InPhase, TypeOK
  <2> DEFINE s == [Onward(state) EXCEPT !.memory_archive = state.memory_operations]
  <2>2. Onward(state) \in Lifecycle
    BY <2>1, OnwardType
  <2>3. s \in Lifecycle
    BY <2>1, <2>2 DEF Lifecycle
  <2> QED
    BY <1>5, <2>3, OpensType DEF ArchiveMemory, world, TypeOK
<1>6. CASE Snapshot
  <2>1. state \in Lifecycle /\ state.phase # "close"
    BY <1>6 DEF Snapshot, InTime, InPhase, TypeOK
  <2> DEFINE s == [Onward(state) EXCEPT !.snapshot = state.memory_archive]
  <2>2. Onward(state) \in Lifecycle
    BY <2>1, OnwardType
  <2>3. s \in Lifecycle
    BY <2>1, <2>2 DEF Lifecycle
  <2> QED
    BY <1>6, <2>3, OpensType DEF Snapshot, world, TypeOK
<1>7. CASE AdvanceInterview
  <2>1. state \in Lifecycle /\ state.phase # "close"
    BY <1>7 DEF AdvanceInterview, InPhase, TypeOK
  <2>2. Onward(state) \in Lifecycle
    BY <2>1, OnwardType
  <2> QED
    BY <1>7, <2>2, OpensType DEF AdvanceInterview, world, TypeOK
<1>8. CASE Close
  <2>1. state \in Lifecycle
    BY <1>8 DEF Close, InTime, InPhase, TypeOK
  <2>2. state' \in Lifecycle
    BY <1>8, <2>1 DEF Close, Lifecycle
  <2> QED
    BY <1>8, <2>2 DEF Close, TypeOK, asking, time, history
<1> QED
  BY <1>1, <1>2, <1>3, <1>4, <1>5, <1>6, <1>7, <1>8 DEF Advance

LEMMA TypeStep == ASSUME TypeOK, [Next]_vars PROVE TypeOK'
<1>1. ASSUME NEW c \in answers, NEW b \in Batch, SubmitModelResult(c, b)
      PROVE  TypeOK'
  <2>1. c.actor \in Actor
    BY DEF TypeOK, Call
  <2> QED
    BY <1>1, <2>1, ActorType DEF SubmitModelResult
<1>2. CASE Begin
  <2>1. Opened(worldTurn) \in Lifecycle
    BY <1>2, OpenedType, BoundsAreNaturals DEF Begin, TypeOK, Turn
  <2>2. inbox' \in [Actor -> [Message -> Nat]]
    BY <1>2 DEF Begin, NoMessages
  <2> QED
    BY <1>2, <2>1, <2>2 DEF Begin, Opens, TypeOK, world, asking
<1>3. CASE Stop
  BY <1>3 DEF Stop, TypeOK, asking, time, history
<1>4. CASE Tick
  BY <1>4 DEF Tick, TypeOK, world, asking, history
<1>5. CASE SetBack
  BY <1>5, BoundsAreNaturals DEF SetBack, TypeOK, world, asking, history
<1>6. CASE UNCHANGED vars
  BY <1>6 DEF TypeOK, vars, world, asking, time, history
<1> QED
  BY <1>1, <1>2, <1>3, <1>4, <1>5, <1>6, ActorType, MessageType, AnswerType, AdvanceType
  DEF Next

-----------------------------------------------------------------------------
(* Kinds of steps *)

\* Commands of actors and answers, which stay in the phase they find.
Acting ==
    \/ \E a \in Actor : Projection(a) \/ Ready(a) \/ \E b \in Batch : Submit(a, b)
    \/ \E m \in Message : Diplomacy(m)
    \/ \E c \in answers : UpdateMemory(c)
    \/ CompleteInterviews

\* Steps that neither command the phases nor move them on.
Idling ==
    \/ \E a \in Actor : Look(a) \/ Dispatch(a)
    \/ Complete \/ Stop \/ Tick \/ SetBack \/ UNCHANGED vars

LEMMA Kinds ==
    ASSUME TypeOK, [Next]_vars
    PROVE  Idling \/ Acting \/ Begin \/ Advance
<1>1. ASSUME NEW c \in answers, NEW b \in Batch, SubmitModelResult(c, b)
      PROVE  Acting
  BY <1>1 DEF SubmitModelResult, Acting, TypeOK, Call
<1> QED
  BY <1>1 DEF Next, Idling, Acting

LEMMA IdleKeeps ==
    ASSUME Idling
    PROVE  UNCHANGED <<state, inbox, acked, offered, boundary, alive>>
BY DEF Idling, Look, Dispatch, Complete, Stop, Tick, SetBack, vars, history, world

\* What an actor or an answer adds to the state, and what stays as it is.
LEMMA ActKeeps ==
    ASSUME TypeOK, Acting
    PROVE  /\ state \in Lifecycle /\ state' \in Lifecycle
           /\ state # None /\ state' # None /\ call = None
           /\ UNCHANGED <<boundary, world, asking, time>>
           /\ state'.turn = state.turn /\ state'.phase = state.phase
           /\ state'.closed = state.closed /\ state'.committed = state.committed
           /\ state'.memory_archive = state.memory_archive
           /\ state'.snapshot = state.snapshot
           /\ state.commands \subseteq state'.commands
           /\ \/ state'.ready = state.ready /\ acked' = acked
              \/ \E a \in Actor : /\ state'.ready = state.ready \cup {a}
                                 /\ acked' = acked \cup {a}
           /\ \/ UNCHANGED <<state.submissions, state.batches, offered>>
              \/ \E a \in Actor, b \in Batch :
                    /\ state.phase = "final_planning"
                    /\ state'.submissions = [state.submissions EXCEPT ![a] = "submitted"]
                    /\ state'.batches = [state.batches EXCEPT ![a] = b]
                    /\ offered' = [offered EXCEPT ![a] = b]
           /\ \/ state'.memory_operations = state.memory_operations
              \/ state.phase = "memory_update"
           /\ \/ state'.interviews = state.interviews
              \/ CompleteInterviews
           /\ inbox' = inbox \/ \E m \in Message : Diplomacy(m)
<1> DEFINE Keeps ==
        /\ state' \in Lifecycle
        /\ UNCHANGED <<boundary, world, asking, time>>
        /\ state'.turn = state.turn /\ state'.phase = state.phase
        /\ state'.closed = state.closed /\ state'.committed = state.committed
        /\ state'.memory_archive = state.memory_archive
        /\ state'.snapshot = state.snapshot
<1> DEFINE Silent == state'.ready = state.ready /\ acked' = acked
<1> DEFINE Unsubmitted == UNCHANGED <<state.submissions, state.batches, offered>>
<1>1. /\ state \in Lifecycle /\ call = None /\ state # None
  BY DEF Acting, Projection, Ready, Submit, Diplomacy, MayTell, UpdateMemory,
         CompleteInterviews, Opportunity, InPhase, TypeOK
<1>2. ASSUME NEW a \in Actor, Projection(a)
      PROVE  /\ Keeps /\ Silent /\ Unsubmitted /\ UNCHANGED <<inbox, state.commands,
                 state.memory_operations, state.interviews>>
  BY <1>1, <1>2 DEF Projection, Lifecycle, history
<1>3. ASSUME NEW a \in Actor, Ready(a)
      PROVE  /\ Keeps /\ Unsubmitted /\ UNCHANGED <<inbox, state.commands,
                 state.memory_operations, state.interviews>>
             /\ state'.ready = state.ready \cup {a} /\ acked' = acked \cup {a}
  BY <1>1, <1>3 DEF Ready, Issued, Lifecycle
<1>4. ASSUME NEW a \in Actor, NEW b \in Batch, Submit(a, b)
      PROVE  /\ Keeps /\ Silent /\ UNCHANGED <<inbox, state.commands,
                 state.memory_operations, state.interviews>>
             /\ state.phase = "final_planning"
             /\ state'.submissions = [state.submissions EXCEPT ![a] = "submitted"]
             /\ state'.batches = [state.batches EXCEPT ![a] = b]
             /\ offered' = [offered EXCEPT ![a] = b]
  BY <1>1, <1>4 DEF Submit, Opportunity, InPhase, Issued, Lifecycle, Status
<1>5. ASSUME NEW m \in Message, Diplomacy(m)
      PROVE  /\ Keeps /\ Silent /\ Unsubmitted
             /\ UNCHANGED <<state.memory_operations, state.interviews>>
             /\ state'.commands = state.commands \cup {m}
  BY <1>1, <1>5, MessagesHaveSenders, ZenonT(60) DEF Diplomacy, Issued, Lifecycle, history
<1>6. ASSUME NEW c \in answers, UpdateMemory(c)
      PROVE  /\ Keeps /\ Silent /\ Unsubmitted
             /\ UNCHANGED <<inbox, state.commands, state.interviews>>
             /\ state.phase = "memory_update"
  BY <1>1, <1>6 DEF UpdateMemory, Opportunity, InPhase, Lifecycle, history, TypeOK
<1>7. ASSUME CompleteInterviews
      PROVE  /\ Keeps /\ Silent /\ Unsubmitted
             /\ UNCHANGED <<inbox, state.commands, state.memory_operations>>
  BY <1>1, <1>7 DEF CompleteInterviews, Lifecycle, history, TypeOK
<1> QED
  BY <1>1, <1>2, <1>3, <1>4, <1>5, <1>6, <1>7, NoneIsNull, ZenonT(60) DEF Acting

\* A phase that ends has no call of unknown outcome; its work is its own.
LEMMA MoveKeeps ==
    ASSUME TypeOK, Advance
    PROVE  /\ state \in Lifecycle /\ state # None
           /\ state' \in Lifecycle /\ state' # None
           /\ call = None /\ UNCHANGED <<inbox, offered, setBacks, answers, call>>
           /\ state'.turn = state.turn /\ state'.commands = state.commands
           /\ state'.batches = state.batches
           /\ state'.memory_operations = state.memory_operations
           /\ state'.interviews = state.interviews
           /\ \/ Close /\ state'.phase = state.phase
              \/ state.phase # "close" /\ state'.phase = Following[state.phase]
           /\ Resolve \/ alive' = alive
           /\ \/ state'.submissions = state.submissions
              \/ Validate \/ Commit \/ Resolve
           /\ state'.committed = state.committed \/ Commit
           /\ state'.memory_archive = state.memory_archive \/ ArchiveMemory
           /\ state'.snapshot = state.snapshot \/ Snapshot
<1> DEFINE s == Onward(state)
<1>1. /\ state \in Lifecycle /\ state # None /\ call = None
      /\ state' \in Lifecycle /\ state' # None
  BY AdvanceType, NoneIsNull
  DEF Advance, AdvanceInteractive, Validate, Commit, Resolve, ArchiveMemory, Snapshot,
         AdvanceInterview, Close, InTime, InPhase, TypeOK
<1>2. AdvanceInteractive \/ Validate \/ Commit \/ Resolve \/ ArchiveMemory \/ Snapshot
          \/ AdvanceInterview => state.phase # "close"
  BY DEF AdvanceInteractive, Validate, Commit, Resolve, ArchiveMemory, Snapshot,
         AdvanceInterview, InTime, InPhase, Interactive
<1>3. UNCHANGED <<inbox, offered, setBacks, answers, call>>
  BY DEF Advance, AdvanceInteractive, Validate, Commit, Resolve, ArchiveMemory, Snapshot,
         AdvanceInterview, Close, Opens, asking, time, history
<1>4. Resolve \/ alive' = alive
  BY DEF Advance, AdvanceInteractive, Validate, Commit, ArchiveMemory, Snapshot,
         AdvanceInterview, Close, world
<1>5. /\ s = [state EXCEPT !.phase = Following[state.phase], !.ready = {}, !.projections = {}]
  BY DEF Onward
<1>6. CASE AdvanceInteractive \/ AdvanceInterview
  <2>1. state' = s
    BY <1>6, SMTT(40) DEF AdvanceInteractive, AdvanceInterview, Opens
  <2> QED
    BY <1>1, <1>2, <1>3, <1>4, <1>5, <1>6, <2>1 DEF Lifecycle
<1>7. CASE Validate
  BY <1>1, <1>2, <1>3, <1>4, <1>5, <1>7, ZenonT(60) DEF Validate, Opens, Lifecycle
<1>8. CASE Commit
  BY <1>1, <1>2, <1>3, <1>4, <1>5, <1>8, ZenonT(60) DEF Commit, Opens, Lifecycle
<1>9. CASE Resolve
  BY <1>1, <1>2, <1>3, <1>4, <1>5, <1>9, ZenonT(60) DEF Resolve, Opens, Lifecycle
<1>10. CASE ArchiveMemory
  BY <1>1, <1>2, <1>3, <1>4, <1>5, <1>10 DEF ArchiveMemory, Opens, Lifecycle
<1>11. CASE Snapshot
  BY <1>1, <1>2, <1>3, <1>4, <1>5, <1>11 DEF Snapshot, Opens, Lifecycle
<1>12. CASE Close
  BY <1>1, <1>3, <1>4, <1>12 DEF Close, Lifecycle
<1> QED
  BY <1>6, <1>7, <1>8, <1>9, <1>10, <1>11, <1>12 DEF Advance

-----------------------------------------------------------------------------
(* Calls, messages and absences *)

LEMMA CallStep ==
    ASSUME TypeOK, CallPinsPhase, [Next]_vars
    PROVE  CallPinsPhase'
<1>1. CASE Idling
  <2>1. ASSUME NEW a \in Actor, Dispatch(a)
        PROVE  CallPinsPhase'
    BY <2>1 DEF Dispatch, CallPinsPhase, Underway
  <2>2. ASSUME call' = None \/ call' = call
        PROVE  CallPinsPhase'
    BY <1>1, <2>2, IdleKeeps DEF CallPinsPhase, Underway
  <2> QED
    BY <1>1, <2>1, <2>2
    DEF Idling, Look, Complete, Stop, Tick, SetBack, vars, asking
<1>2. CASE Acting
  BY <1>2, ActKeeps DEF CallPinsPhase, asking
<1>3. CASE Begin
  BY <1>3 DEF Begin, Opens, asking, CallPinsPhase
<1>4. CASE Advance
  BY <1>4, MoveKeeps DEF CallPinsPhase
<1> QED
  BY <1>1, <1>2, <1>3, <1>4, Kinds

LEMMA MessageStep ==
    ASSUME TypeOK, MessagesOnce, [Next]_vars
    PROVE  MessagesOnce'
<1>1. CASE UNCHANGED <<state, inbox>>
  BY <1>1 DEF MessagesOnce
<1>2. CASE Acting
  <2>1. CASE inbox' = inbox
    BY <1>2, <2>1, ActKeeps DEF MessagesOnce
  <2>2. ASSUME NEW m \in Message, Diplomacy(m)
        PROVE  MessagesOnce'
    <3>1. /\ m \notin state.commands /\ m \in state'.commands
      <4>1. state \in Lifecycle
        BY <1>2, ActKeeps
      <4> QED
        BY <2>2, <4>1 DEF Diplomacy, MayTell, Lifecycle
    <3>2. \A a \in Actor, n \in Message : inbox[a][n] \in Nat
      BY DEF TypeOK
    <3>3. \A a \in Actor : inbox[a][m] = 0
      BY <3>1, <3>2 DEF MessagesOnce
    <3>4. \A a \in Actor, n \in Message :
            inbox'[a][n] = inbox[a][n] \/ (n = m /\ inbox'[a][n] = inbox[a][n] + 1)
      <4>1. CASE inbox' = inbox
        BY <4>1
      <4>2. ASSUME NEW to \in Audience(m.actor),
                   inbox' = [a \in Actor |-> IF a \in to
                                THEN [inbox[a] EXCEPT ![m] = @ + 1] ELSE inbox[a]]
            PROVE  \A a \in Actor, n \in Message :
                inbox'[a][n] = inbox[a][n] \/ (n = m /\ inbox'[a][n] = inbox[a][n] + 1)
        BY <4>2 DEF TypeOK
      <4> QED
        BY <2>2, <4>1, <4>2 DEF Diplomacy
    <3>5. \A a \in Actor, n \in Message :
            inbox'[a][n] = inbox[a][n] \/ (n = m /\ inbox'[a][n] = 1)
      BY <3>3, <3>4
    <3> QED
      BY <1>2, <3>1, <3>5, ActKeeps DEF MessagesOnce
  <2> QED
    BY <1>2, <2>1, <2>2, ActKeeps
<1>3. CASE Begin
  BY <1>3 DEF Begin, NoMessages, MessagesOnce
<1>4. CASE Advance
  BY <1>4, MoveKeeps DEF MessagesOnce
<1> QED
  BY <1>1, <1>2, <1>3, <1>4, Kinds, IdleKeeps

LEMMA AbsenceStep ==
    ASSUME TypeOK, ReadyAcked, AbsencesTrue, [Next]_vars
    PROVE  ReadyAcked' /\ AbsencesTrue'
<1>1. CASE Idling
  BY <1>1, IdleKeeps DEF ReadyAcked, AbsencesTrue
<1>2. CASE Acting
  BY <1>2, ActKeeps DEF ReadyAcked, AbsencesTrue
<1>3. CASE Begin
  BY <1>3 DEF Begin, Opens, Opened, ReadyAcked, AbsencesTrue
<1>4. CASE Close
  <2>1. state \in Lifecycle /\ state # None
    BY <1>4, MoveKeeps DEF Advance
  <2> QED
    BY <1>4, <2>1 DEF Close, history, ReadyAcked, AbsencesTrue, Lifecycle
<1>5. ASSUME Advance, ~Close
      PROVE  ReadyAcked'
  <2>1. state \in Lifecycle
    BY <1>5, MoveKeeps
  <2>2. state'.ready = {}
    BY <1>5, <2>1 DEF Advance, AdvanceInteractive, Validate, Commit, Resolve, ArchiveMemory,
           Snapshot, AdvanceInterview, Opens, Onward, Lifecycle
  <2> QED
    BY <1>5, <2>2 DEF Advance, AdvanceInteractive, Validate, Commit, Resolve, ArchiveMemory,
           Snapshot, AdvanceInterview, Opens, ReadyAcked
<1>6. ASSUME Advance, ~Close
      PROVE  AbsencesTrue'
  <2>1. CASE AdvanceInteractive
    <3>1. state # None
      BY <2>1 DEF AdvanceInteractive, InPhase
    <3> QED
      BY <2>1, <3>1 DEF AdvanceInteractive, ReadyAcked, AbsencesTrue
  <2>2. CASE boundary' = None
    BY <2>2 DEF AbsencesTrue
  <2> QED
    BY <1>6, <2>1, <2>2 DEF Advance, Validate, Commit, Resolve, ArchiveMemory, Snapshot,
           AdvanceInterview
<1> QED
  BY <1>1, <1>2, <1>3, <1>4, <1>5, <1>6, Kinds

-----------------------------------------------------------------------------
(* Records and submissions *)

LEMMA Succession ==
    /\ Following["observation"] = "private_planning"
    /\ Following["private_planning"] = "diplomacy"
    /\ Following["diplomacy"] = "final_planning"
    /\ Following["final_planning"] = "validation"
    /\ Following["validation"] = "accepted_commit"
    /\ Following["accepted_commit"] = "resolution"
    /\ Following["resolution"] = "consequence_reveal"
    /\ Following["consequence_reveal"] = "memory_update"
    /\ Following["memory_update"] = "memory_archive"
    /\ Following["memory_archive"] = "snapshot"
    /\ Following["snapshot"] = "interview"
    /\ Following["interview"] = "close"
BY DEF Following

\* The late phases are reached one after the other.
LEMMA LatePhases ==
    ASSUME NEW p \in Phase, p # "close"
    PROVE  /\ Following[p] = "snapshot" <=> p = "memory_archive"
           /\ Following[p] = "interview" <=> p = "snapshot"
           /\ Following[p] = "close" <=> p = "interview"
BY Succession DEF Phase

LEMMA SealedStep ==
    ASSUME TypeOK, Sealed, [Next]_vars
    PROVE  Sealed'
<1>1. CASE Idling
  BY <1>1, IdleKeeps DEF Sealed
<1>2. CASE Acting
  <2>1. CompleteInterviews => state.phase = "interview"
    BY DEF CompleteInterviews, InPhase
  <2> QED
    BY <1>2, <2>1, ActKeeps DEF Sealed
<1>3. CASE Begin
  BY <1>3 DEF Begin, Opens, Opened, Sealed
<1>4. CASE Advance
  <2>1. state.phase \in Phase
    BY <1>4, MoveKeeps DEF Lifecycle
  <2>2. CASE ArchiveMemory
    <3>1. /\ state.phase = "memory_archive" /\ state'.phase = "snapshot"
          /\ state'.memory_archive = state.memory_operations
      BY <1>4, <2>2, MoveKeeps, Succession
      DEF ArchiveMemory, InTime, InPhase, Opens, Onward, Lifecycle
    <3> QED
      BY <1>4, <2>2, <3>1, MoveKeeps DEF Sealed, ArchiveMemory, Snapshot, InTime, InPhase
  <2>3. CASE Snapshot
    <3>1. /\ state.phase = "snapshot" /\ state'.phase = "interview"
          /\ state'.snapshot = state.memory_archive
      BY <1>4, <2>3, MoveKeeps, Succession
      DEF Snapshot, InTime, InPhase, Opens, Onward, Lifecycle
    <3> QED
      BY <1>4, <2>3, <3>1, MoveKeeps DEF Sealed, ArchiveMemory, InTime, InPhase
  <2>4. CASE /\ state'.memory_archive = state.memory_archive
             /\ state'.snapshot = state.snapshot
    BY <1>4, <2>1, <2>4, MoveKeeps, LatePhases DEF Sealed
  <2> QED
    BY <1>4, <2>2, <2>3, <2>4, MoveKeeps
<1> QED
  BY <1>1, <1>2, <1>3, <1>4, Kinds

LEMMA InterviewedStep ==
    ASSUME TypeOK, CallPinsPhase, Sealed, Interviewed, [Next]_vars
    PROVE  Interviewed'
<1>1. CASE Idling
  <2>1. ASSUME NEW a \in Actor, Look(a) \/ Dispatch(a)
        PROVE  Interviewed'
    <3>1. UNCHANGED <<state, alive, answers, clock, setBacks>>
      BY <2>1 DEF Look, Dispatch, world, asking, time
    <3>2. call' # None => call'.actor \in alive
      BY <2>1 DEF Look, Dispatch, asking, Interviewed
    <3> QED
      BY <3>1, <3>2 DEF Interviewed, Respondents, Responses
  <2>2. CASE Complete
    <3>1. UNCHANGED <<state, alive, clock, setBacks>> /\ call' = None
      BY <2>2 DEF Complete, world, time
    <3>2. CASE answers' = answers
      BY <3>1, <3>2 DEF Interviewed, Respondents, Responses
    <3>3. CASE answers' = answers \cup {call} /\ call.phase # "interview"
      BY <3>1, <3>3 DEF Interviewed, Respondents, Responses
    <3>4. CASE /\ answers' = answers \cup {call} /\ call.phase = "interview"
               /\ clock # "past"
      <4>1. state.phase = "interview"
        BY <2>2, <3>4 DEF Complete, CallPinsPhase
      <4>2. Respondents \subseteq Respondents' /\ Respondents' \subseteq alive
        BY <3>1, <3>4 DEF Respondents, Responses
      <4> QED
        BY <3>1, <3>4, <4>1, <4>2 DEF Interviewed
    <3> QED
      BY <2>2, <3>2, <3>3, <3>4 DEF Complete
  <2>3. CASE SetBack
    <3>1. setBacks' # 0 /\ UNCHANGED <<call, alive>>
      BY <2>3 DEF SetBack, TypeOK, asking, world
    <3> QED
      BY <3>1 DEF Interviewed
  <2>4. CASE Tick
    <3>1. /\ UNCHANGED <<state, alive, call, answers, setBacks>>
          /\ clock = "past" => clock' = "past"
      BY <2>4 DEF Tick, world, asking
    <3> QED
      BY <3>1 DEF Interviewed, Respondents, Responses
  <2>5. CASE Stop \/ UNCHANGED vars
    <3>1. UNCHANGED <<state, alive, call, answers, clock, setBacks>>
      BY <2>5 DEF Stop, vars, world, asking, time
    <3> QED
      BY <3>1 DEF Interviewed, Respondents, Responses
  <2> QED
    BY <1>1, <2>1, <2>2, <2>3, <2>4, <2>5 DEF Idling
<1>2. CASE Acting
  <2>1. /\ UNCHANGED <<alive, call, answers, clock, setBacks>>
        /\ state'.turn = state.turn /\ state'.phase = state.phase
    BY <1>2, ActKeeps DEF world, asking, time
  <2>2. Respondents' = Respondents
    BY <2>1 DEF Respondents, Responses
  <2>3. CASE CompleteInterviews
    <3>1. state'.interviews = Respondents
      BY <1>2, <2>3, ActKeeps DEF CompleteInterviews, Respondents, Lifecycle
    <3>2. clock = "past" \/ Respondents = alive
      BY <2>3 DEF CompleteInterviews, Respondents
    <3> QED
      BY <2>1, <2>2, <3>1, <3>2 DEF Interviewed
  <2>4. CASE state'.interviews = state.interviews
    BY <1>2, <2>1, <2>2, <2>4, ActKeeps DEF Interviewed
  <2> QED
    BY <1>2, <2>3, <2>4, ActKeeps
<1>3. CASE Begin
  BY <1>3 DEF Begin, Opens, Opened, asking, Interviewed
<1>4. CASE Advance
  <2>1. CASE state.interviews = None
    BY <1>4, <2>1, MoveKeeps DEF Interviewed
  <2>2. CASE state.interviews # None
    <3>1. state.phase \in {"interview", "close"}
      BY <1>4, <2>2, MoveKeeps DEF Sealed
    <3>2. ~Resolve /\ state'.phase = "close"
      BY <1>4, <3>1, MoveKeeps, Succession
      DEF Resolve, Close, InTime, InPhase
    <3>3. Respondents' = Respondents
      BY <1>4, <3>2, MoveKeeps DEF Respondents, Responses
    <3> QED
      BY <1>4, <3>2, <3>3, MoveKeeps DEF Interviewed
  <2> QED
    BY <2>1, <2>2
<1> QED
  BY <1>1, <1>2, <1>3, <1>4, Kinds

LEMMA CountedStep ==
    ASSUME TypeOK, Counted, [Next]_vars
    PROVE  Counted'
<1>1. CASE Idling
  BY <1>1, IdleKeeps DEF Counted
<1>2. CASE Acting
  <2>1. CASE UNCHANGED <<state.submissions, state.batches, offered>>
    BY <1>2, <2>1, ActKeeps DEF Counted
  <2>2. ASSUME NEW a \in Actor, NEW b \in Batch,
               /\ state.phase = "final_planning"
               /\ state'.submissions = [state.submissions EXCEPT ![a] = "submitted"]
               /\ state'.batches = [state.batches EXCEPT ![a] = b]
               /\ offered' = [offered EXCEPT ![a] = b]
        PROVE  Counted'
    <3>1. \A c \in Actor : state'.submissions[c] = StatusIn("final_planning", offered'[c])
      BY <1>2, <2>2, ActKeeps, NoneIsNull, BatchesAreKinds DEF Counted, StatusIn, TypeOK, Lifecycle
    <3>2. state'.phase = "final_planning" /\ state # None
      BY <1>2, <2>2, ActKeeps
    <3> QED
      BY <2>2, <3>1, <3>2 DEF Counted, Post
  <2> QED
    BY <1>2, <2>1, <2>2, ActKeeps
<1>3. CASE Begin
  BY <1>3 DEF Begin, Opens, Opened, Counted, StatusIn, Post
<1>4. CASE Advance
  <2>1. /\ state.phase \in Phase /\ state.submissions \in [Actor -> Status]
        /\ offered \in [Actor -> Batch \cup {None}]
    BY <1>4, MoveKeeps DEF Lifecycle, TypeOK
  <2>2. CASE Validate
    <3>0. /\ state.phase = "validation" /\ state \in Lifecycle
          /\ state' = [Onward(state) EXCEPT !.submissions = [a \in Actor |->
                 IF @[a] = "none" THEN "none"
                 ELSE IF state.batches[a] = "unfit" THEN "rejected" ELSE "validated"]]
      BY <1>4, <2>2, MoveKeeps DEF Validate, InTime, InPhase, Opens
    <3>1. /\ state.phase = "validation" /\ state'.phase = "accepted_commit"
          /\ \A a \in Actor : state'.submissions[a] =
                IF state.submissions[a] = "none" THEN "none"
                ELSE IF state.batches[a] = "unfit" THEN "rejected" ELSE "validated"
      BY <3>0, Succession DEF Onward, Lifecycle
    <3> QED
      BY <1>4, <2>1, <3>1, MoveKeeps, SMTT(40) DEF Counted, StatusIn, Post
  <2>3. CASE Commit
    <3>0. /\ state.phase = "accepted_commit" /\ state \in Lifecycle
          /\ state' = [Onward(state) EXCEPT !.committed = Selected,
                 !.submissions = [a \in Actor |-> IF a \in Selected THEN "accepted" ELSE @[a]]]
      BY <1>4, <2>3, MoveKeeps DEF Commit, InTime, InPhase, Opens
    <3>1. /\ state.phase = "accepted_commit" /\ state'.phase = "resolution"
          /\ state'.committed = Selected
          /\ \A a \in Actor : state'.submissions[a] =
                IF a \in Selected THEN "accepted" ELSE state.submissions[a]
      BY <3>0, Succession DEF Onward, Lifecycle
    <3>2. Selected = {a \in Actor : offered[a] \notin {None, "unfit"}}
      BY <1>4, <3>1, MoveKeeps DEF Selected, Counted, StatusIn
    <3> QED
      BY <1>4, <2>1, <3>1, <3>2, MoveKeeps DEF Counted, StatusIn, Post
  <2>4. CASE Resolve
    <3>0. /\ state.phase = "resolution" /\ state \in Lifecycle
          /\ state' = [Onward(state) EXCEPT !.submissions =
                 [a \in Actor |-> IF @[a] = "accepted" THEN "resolved" ELSE @[a]]]
      BY <1>4, <2>4, MoveKeeps DEF Resolve, InTime, InPhase, Opens
    <3>1. /\ state.phase = "resolution" /\ state'.phase = "consequence_reveal"
          /\ state'.committed = state.committed
          /\ \A a \in Actor : state'.submissions[a] =
                IF state.submissions[a] = "accepted" THEN "resolved" ELSE state.submissions[a]
      BY <3>0, Succession DEF Onward, Lifecycle
    <3> QED
      BY <1>4, <2>1, <3>1, MoveKeeps DEF Counted, StatusIn, Post
  <2>5. CASE /\ state'.submissions = state.submissions
             /\ state'.committed = state.committed
             /\ ~(Validate \/ Commit \/ Resolve)
    <3>1. \/ state.phase \in Post /\ state'.phase \in Post
          \/ state.phase \in Interactive /\ state'.phase = Following[state.phase]
      BY <1>4, <2>1, <2>5, MoveKeeps, Succession
      DEF Advance, AdvanceInteractive, ArchiveMemory, Snapshot, AdvanceInterview, Close,
          InTime, InPhase, Post, Interactive
    <3>2. CASE state.phase \in Post /\ state'.phase \in Post
      BY <1>4, <2>5, <3>2, MoveKeeps DEF Counted, StatusIn, Post
    <3>3. CASE state.phase \in Interactive /\ state'.phase = Following[state.phase]
      BY <1>4, <2>5, <3>3, MoveKeeps, Succession DEF Counted, StatusIn, Post, Interactive
    <3> QED
      BY <3>1, <3>2, <3>3
  <2> QED
    BY <1>4, <2>2, <2>3, <2>4, <2>5, MoveKeeps
<1> QED
  BY <1>1, <1>2, <1>3, <1>4, Kinds

-----------------------------------------------------------------------------
(* The theorems *)

LEMMA Initially == Init => IInv
<1> SUFFICES ASSUME Init PROVE IInv
  OBVIOUS
<1>1. TypeOK
  <2>1. 0 \in 0..MaxTurns /\ 0 \in 0..MaxCalls /\ 0 \in 0..MaxSetBacks
    BY BoundsAreNaturals
  <2>2. inbox \in [Actor -> [Message -> Nat]] /\ offered \in [Actor -> Batch \cup {None}]
    BY DEF Init, NoMessages
  <2> QED
    BY <2>1, <2>2 DEF Init, TypeOK
<1>2. CallPinsPhase /\ MessagesOnce
  BY DEF Init, NoMessages, CallPinsPhase, MessagesOnce
<1>3. ReadyAcked /\ AbsencesTrue /\ Counted /\ Sealed /\ Interviewed
  BY DEF Init, ReadyAcked, AbsencesTrue, Counted, Sealed, Interviewed
<1> QED
  BY <1>1, <1>2, <1>3 DEF IInv

LEMMA Preserved == IInv /\ [Next]_vars => IInv'
BY TypeStep, CallStep, MessageStep, AbsenceStep, CountedStep, SealedStep, InterviewedStep
DEF IInv

\* IInv holds in every state that can be reached.
THEOREM Invariant == Spec => []IInv
BY Initially, Preserved, PTL DEF Spec

\* Every variable keeps its type, for any number of actors, turns and calls.
THEOREM TypeCorrect == Spec => []TypeOK
<1>1. IInv => TypeOK
  BY DEF IInv
<1> QED
  BY <1>1, Invariant, PTL

\* Whoever was told that a batch is submitted finds it resolved or rejected.
THEOREM SubmissionsCount == Spec => []EverySubmissionCounts
<1>1. IInv => EverySubmissionCounts
  BY NoneIsNull DEF Kind, IInv, Counted, StatusIn, EverySubmissionCounts, Post
<1> QED
  BY <1>1, Invariant, PTL

\* The run records as missing whose completion was expected and not confirmed.
THEOREM AbsencesAreTrue == Spec => []AbsencesTrue
<1>1. IInv => AbsencesTrue
  BY DEF IInv
<1> QED
  BY <1>1, Invariant, PTL

\* No phase ends under a model call whose outcome is unknown.
THEOREM CallsPinPhases == Spec => []CallPinsPhase
<1>1. IInv => CallPinsPhase
  BY DEF IInv
<1> QED
  BY <1>1, Invariant, PTL

\* A message reaches a recipient at most once, and only with its command.
THEOREM MessagesArriveOnce == Spec => []MessagesOnce
<1>1. IInv => MessagesOnce
  BY DEF IInv
<1> QED
  BY <1>1, Invariant, PTL

\* What a turn seals is complete and stays so.
THEOREM RecordsAreComplete == Spec => []RecordsComplete
<1>1. IInv => RecordsComplete
  BY DEF IInv, Sealed, Interviewed, Respondents, RecordsComplete
<1> QED
  BY <1>1, Invariant, PTL
=============================================================================
