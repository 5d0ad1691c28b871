------------------------------ MODULE TurnPhases ------------------------------
(***************************************************************************)
(* The thirteen phases of a turn: src/turn-phases.js (class TurnPhases and *)
(* executeTurnPhaseCommand), the facade through which participants act on  *)
(* them (src/run-service.js, participantState and #participantPhase), and  *)
(* the model calls that are made while a phase is open.                    *)
(*                                                                         *)
(* A command is one step: it runs on a private candidate of RunService,    *)
(* which is published whole or discarded (EffectOnce and NothingLost of    *)
(* RunService).  Commands are refused while the outcome of a model call is *)
(* unknown (CertainEnough of RunService).  The wall clock is kept as far   *)
(* as the code looks at it: relative to the phase's opening and deadline.  *)
(***************************************************************************)
EXTENDS Naturals, FiniteSets

CONSTANTS
    Actor,         \* polities, each bound to a runtime
    StateOnly,     \* those whose condition keeps no memory
    Participant,   \* those who act through the server's facade; the others
                   \* are driven by trusted controllers
    Message,       \* diplomacy commands sent in a turn: by whom, with which id
    Batch,         \* action batches: fit, unfit, or clashing
    None,          \* JavaScript's null
    MaxTurns,      \* config.maxTurns
    Predicates,    \* world.objectiveTerminalPredicates
    Expiring,      \* phases whose budget may run out
    MaxCalls,      \* bound on model calls
    MaxSetBacks    \* bound on how often the wall clock is set back

Phase == {"observation", "private_planning", "diplomacy", "final_planning",
          "validation", "accepted_commit", "resolution", "consequence_reveal",
          "memory_update", "memory_archive", "snapshot", "interview", "close"}
Interactive == {"observation", "private_planning", "diplomacy", "final_planning",
                "consequence_reveal", "memory_update"}
\* What must be done before its budget has run out, or never.
Mandatory == Phase \ (Interactive \cup {"interview"})
\* The phases after the reducer has gone on to the next turn.
Post == {"consequence_reveal", "memory_update", "memory_archive", "snapshot",
         "interview", "close"}
\* The phases in which models may be called.
Calling == {"private_planning", "diplomacy", "final_planning", "memory_update",
            "interview"}
Following ==
    [observation |-> "private_planning", private_planning |-> "diplomacy",
     diplomacy |-> "final_planning", final_planning |-> "validation",
     validation |-> "accepted_commit", accepted_commit |-> "resolution",
     resolution |-> "consequence_reveal", consequence_reveal |-> "memory_update",
     memory_update |-> "memory_archive", memory_archive |-> "snapshot",
     snapshot |-> "interview", interview |-> "close"]

\* A batch is unfit when an action in it is invalid, and clashing when each is
\* valid by itself but two of them move or attack with the same unit.
ASSUME ActorsAreKinds == StateOnly \subseteq Actor /\ Participant \subseteq Actor
Kind == {"fit", "unfit", "clashing"}
ASSUME BatchesAreKinds == Batch \subseteq Kind
ASSUME MessagesHaveSenders == \A m \in Message : m.actor \in Actor
ASSUME BoundsAreNaturals ==
    MaxTurns \in Nat \ {0} /\ MaxCalls \in Nat /\ MaxSetBacks \in Nat
ASSUME ExpiringArePhases == Expiring \subseteq Phase
ASSUME PredicatesAreObjective ==
    Predicates \subseteq {"insufficient_surviving_distinct_participants",
                          "all_remaining_permanently_action_incapable"}

VARIABLES
    state,         \* TurnPhases' #state; None before the first turn
    worldTurn,     \* world.turn, the reducer's
    alive,         \* polities that are alive
    terminal,      \* world.terminal
    dispositions,  \* what RunDisposition events say of the run
    inbox,         \* copies of this turn's messages that a polity has received
    current,       \* participants whose screen shows the current projection
    call,          \* the model call whose outcome is unknown
    calls,         \* model calls made
    answers,       \* calls that completed successfully and whose answer is used
    clock,         \* where now is: behind the phase's opening, within or past it
    setBacks,
    acked,         \* actors whose readiness for the current phase was confirmed
    offered,       \* batches whose submission in the current turn was confirmed
    boundary       \* who was missing when the previous, interactive phase ended

world == <<worldTurn, alive, terminal, dispositions>>
asking == <<call, calls, answers>>
time == <<clock, setBacks>>
history == <<acked, offered, boundary>>
vars == <<state, world, inbox, current, asking, time, history>>

Turn == 0..MaxTurns - 1
Call == [number : 1..MaxCalls, turn : Turn, phase : Calling, actor : Actor]
Status == {"none", "submitted", "validated", "rejected", "accepted", "resolved"}
Lifecycle ==
    [turn : Turn, phase : Phase, closed : BOOLEAN,
     ready : SUBSET Actor, projections : SUBSET Actor,
     submissions : [Actor -> Status],
     batches : [Actor -> Batch \cup {None}],  \* what the action ledger keeps
     commands : SUBSET Message,
     committed : {None} \cup SUBSET Actor,
     memory_operations : SUBSET Call,
     memory_archive : {None} \cup SUBSET Call,
     snapshot : {None} \cup SUBSET Call,
     interviews : {None} \cup SUBSET Actor]

ASSUME NoneIsNull == None \notin Actor /\ None \notin Kind /\ None \notin Lifecycle

Opened(t) ==
    [turn |-> t, phase |-> "observation", closed |-> FALSE, ready |-> {},
     projections |-> {}, submissions |-> [a \in Actor |-> "none"],
     batches |-> [a \in Actor |-> None], commands |-> {}, committed |-> None,
     memory_operations |-> {}, memory_archive |-> None, snapshot |-> None,
     interviews |-> None]

NoMessages == [a \in Actor |-> [m \in Message |-> 0]]

Init ==
    /\ state = None
    /\ worldTurn = 0 /\ alive = Actor /\ terminal = FALSE /\ dispositions = {}
    /\ inbox = NoMessages
    /\ current = {}
    /\ call = None /\ calls = 0 /\ answers = {}
    /\ clock = "within" /\ setBacks = 0
    /\ acked = {} /\ offered = [a \in Actor |-> None] /\ boundary = None

-----------------------------------------------------------------------------
(* Guards *)

\* assertPhaseRunning: a terminal world only finishes the turn it is in.
Running ==
    /\ "stopped" \notin dispositions
    /\ terminal => /\ state # None
                   /\ ~state.closed
                   /\ state.turn = worldTurn - 1
                   /\ state.phase \in Post

\* #assertTurn.  A command is all or nothing, so a resolution is never found
\* half done (recoveringResolution).
InStep == worldTurn = state.turn + (IF state.phase \in Post THEN 1 ELSE 0)

\* Mutant of InPhase: commands do not wait for the outcome of a model call.
InPhaseUncertain(phases) ==
    /\ Running
    /\ state # None /\ ~state.closed /\ InStep
    /\ state.phase \in phases
    /\ clock # "behind"
\* A command on an open turn is executed in one of these phases ...
InPhase(phases) ==
    /\ Running /\ call = None
    /\ state # None /\ ~state.closed /\ InStep
    /\ state.phase \in phases
    /\ clock # "behind"
\* ... and gives a living actor an opportunity before the deadline.
Opportunity(phases, a) ==
    InPhase(phases) /\ a \in alive /\ clock = "within"

\* A participant's request names the projection it answers, which must be the
\* current one and is recorded as issued.
UpToDate(a) == a \in Participant => a \in current
Issued(a) == IF a \in Participant THEN {a} ELSE {}

Remembers(a) == a \notin StateOnly
Expected == IF state.phase = "memory_update" THEN alive \ StateOnly ELSE alive

-----------------------------------------------------------------------------
(* Participants, and the controllers of the others *)

\* participantState answers at any time.
Look(a) ==
    /\ a \in Participant \ current /\ state # None
    /\ current' = current \cup {a}
    /\ UNCHANGED <<state, world, inbox, asking, time, history>>

Projection(a) ==
    /\ a \notin Participant /\ Opportunity(Interactive, a)
    /\ state' = [state EXCEPT !.projections = @ \cup {a}]
    /\ UNCHANGED <<world, inbox, current, asking, time, history>>

Ready(a) ==
    /\ Opportunity(Interactive, a) /\ UpToDate(a)
    /\ a \notin state.ready
    /\ \/ a \in state.projections \cup Issued(a)
       \/ state.phase = "memory_update" /\ ~Remembers(a)
    /\ state.phase = "final_planning" => state.submissions[a] # "none"
    /\ state' = [state EXCEPT !.projections = @ \cup Issued(a), !.ready = @ \cup {a}]
    /\ acked' = acked \cup {a}
    /\ UNCHANGED <<world, inbox, current, asking, time, offered, boundary>>

\* A command is known by the turn, its sender and the sender's request id.
MayTell(m) ==
    /\ Opportunity({"diplomacy"}, m.actor) /\ UpToDate(m.actor)
    /\ m.actor \notin state.ready /\ m \notin state.commands

\* Everybody, or the sender and another polity, or the members of a room.
Audience(a) == {to \in SUBSET Actor : a \in to}

\* diplomacy: the command is carried out at once or recorded as rejected.  A
\* message is delivered; a channel command changes what its members see.
Diplomacy(m) ==
    /\ MayTell(m)
    /\ state' = [state EXCEPT !.projections = @ \cup Issued(m.actor),
                              !.commands = @ \cup {m}]
    /\ \/ UNCHANGED <<inbox, current>>
       \/ \E to \in Audience(m.actor) :
            /\ current' = current \ to
            /\ \/ UNCHANGED inbox
               \/ inbox' = [a \in Actor |-> IF a \in to THEN [inbox[a] EXCEPT ![m] = @ + 1]
                                            ELSE inbox[a]]
    /\ UNCHANGED <<world, asking, time, history>>

Submit(a, b) ==
    /\ Opportunity({"final_planning"}, a) /\ UpToDate(a)
    /\ state.submissions[a] = "none"
    /\ state' = [state EXCEPT !.projections = @ \cup Issued(a),
                              !.submissions[a] = "submitted", !.batches[a] = b]
    /\ offered' = [offered EXCEPT ![a] = b]
    /\ UNCHANGED <<world, inbox, current, asking, time, acked, boundary>>

\* A model's answer of this turn and phase is submitted with its lineage.
SubmitModelResult(c, b) ==
    /\ c.actor \notin Participant
    /\ Opportunity({"final_planning"}, c.actor)
    /\ c.turn = state.turn /\ c.phase = "final_planning"
    /\ Submit(c.actor, b)

\* Mutant of UpdateMemory: an edit is possible until the turn is closed.
UpdateMemoryLate(c) ==
    /\ Opportunity(Post, c.actor)
    /\ c.actor \notin state.ready /\ Remembers(c.actor)
    /\ c.turn = state.turn /\ c.phase = "memory_update"
    /\ c \notin state.memory_operations
    /\ state' = [state EXCEPT !.memory_operations = @ \cup {c}]
    /\ UNCHANGED <<world, inbox, current, asking, time, history>>
UpdateMemory(c) ==
    /\ Opportunity({"memory_update"}, c.actor)
    /\ c.actor \notin state.ready /\ Remembers(c.actor)
    /\ c.turn = state.turn /\ c.phase = "memory_update"
    /\ c \notin state.memory_operations
    /\ state' = [state EXCEPT !.memory_operations = @ \cup {c}]
    /\ UNCHANGED <<world, inbox, current, asking, time, history>>

-----------------------------------------------------------------------------
(* Model calls: RunService.invokeModel and reconcileInvocation *)

\* Mutant of Recordable: an outcome that comes too late cannot be recorded.
RecordableInTime(phase) == clock = "within"
\* The replay that precedes publication refuses an invocation recorded before
\* its phase was opened, unless it is an interview.  (It also compares it with
\* the time of its dispatch, which matters no longer than the clock is behind.)
Recordable(phase) == clock # "behind" \/ phase = "interview"

\* modelPhaseContext: the phase has calls and its deadline has not come.
Calls == state.phase \in Calling /\ clock # "past"

Dispatch(a) ==
    /\ Running /\ call = None
    /\ state # None /\ ~state.closed /\ InStep
    /\ Calls /\ Recordable(state.phase)
    /\ a \in alive
    /\ state.phase = "memory_update" => Remembers(a)
    /\ calls < MaxCalls /\ calls' = calls + 1
    /\ call' = [number |-> calls', turn |-> state.turn, phase |-> state.phase, actor |-> a]
    /\ UNCHANGED <<state, world, inbox, current, answers, time, history>>

\* The outcome is recorded; after the deadline it is no success.  What a model
\* answered in the earlier phases does not come back to the phases.
Complete ==
    /\ call # None /\ Recordable(call.phase)
    /\ \/ UNCHANGED answers
       \/ /\ clock # "past" /\ call.phase \in {"final_planning", "memory_update", "interview"}
          /\ answers' = answers \cup {call}
    /\ call' = None
    /\ UNCHANGED <<state, world, inbox, current, calls, time, history>>

\* InterviewResponse events of this turn.
Responses(a) ==
    {c \in answers : c.actor = a /\ c.turn = state.turn /\ c.phase = "interview"}

CompleteInterviews ==
    /\ InPhase({"interview"}) /\ state.interviews = None
    /\ \A a \in alive : Cardinality(Responses(a)) <= 1
    /\ (\E a \in alive : Responses(a) = {}) => clock = "past"
    /\ state' = [state EXCEPT !.interviews = {a \in alive : Responses(a) # {}}]
    /\ UNCHANGED <<world, inbox, current, asking, time, history>>

-----------------------------------------------------------------------------
(* The scheduler: begin and advance *)

\* Mutant of Onward: readiness outlives its phase.
OnwardReady(s) ==
    [s EXCEPT !.phase = Following[s.phase], !.projections = {}]
Onward(s) ==
    [s EXCEPT !.phase = Following[s.phase], !.ready = {}, !.projections = {}]

\* A phase is opened now; nobody is ready for it or has seen it.
Opens(s) ==
    /\ state' = s
    /\ clock' = "within" /\ current' = {} /\ acked' = {}
    /\ UNCHANGED <<asking, setBacks>>

Begin ==
    /\ Running /\ call = None /\ ~terminal /\ worldTurn < MaxTurns
    /\ state # None => state.closed
    /\ Opens(Opened(worldTurn))
    /\ inbox' = NoMessages
    /\ offered' = [a \in Actor |-> None] /\ boundary' = None
    /\ UNCHANGED world

AdvanceInteractive ==
    /\ InPhase(Interactive)
    /\ Expected \subseteq state.ready \/ clock = "past"
    /\ boundary' = [expected |-> Expected, missing |-> Expected \ state.ready,
                    done |-> acked]
    /\ Opens(Onward(state))
    /\ UNCHANGED <<world, inbox, offered>>

\* A mandatory phase does its work and ends, in one step, before the deadline.
InTime(phase) == InPhase({phase}) /\ clock = "within"

Validate ==
    /\ InTime("validation")
    /\ Opens([Onward(state) EXCEPT !.submissions = [a \in Actor |->
            IF @[a] = "none" THEN "none"
            ELSE IF state.batches[a] = "unfit" THEN "rejected" ELSE "validated"]])
    /\ boundary' = None
    /\ UNCHANGED <<world, inbox, offered>>

\* Mutant of Selected: everything that was submitted.
SelectedRegardless == {a \in Actor : state.submissions[a] # "none"}
\* commitTurn refuses a set in which a unit acts twice.
Selected == {a \in Actor : state.submissions[a] \in {"validated", "accepted"}}
Commit ==
    /\ InTime("accepted_commit")
    /\ \A a \in Selected : state.batches[a] # "clashing"
    /\ Opens([Onward(state) EXCEPT !.committed = Selected,
            !.submissions = [a \in Actor |-> IF a \in Selected THEN "accepted" ELSE @[a]]])
    /\ boundary' = None
    /\ UNCHANGED <<world, inbox, offered>>

\* resolveTurn: polities may be eliminated or become incapable for good.
Ended(survivors, incapable) ==
    \/ /\ "insufficient_surviving_distinct_participants" \in Predicates
       /\ Cardinality(survivors) < 2
    \/ /\ "all_remaining_permanently_action_incapable" \in Predicates
       /\ survivors # {} /\ survivors \subseteq incapable
    \/ worldTurn + 1 >= MaxTurns
Resolve ==
    /\ InTime("resolution") /\ state.committed # None /\ ~terminal
    /\ \E incapable \in SUBSET alive :
        /\ alive' \in SUBSET alive
        /\ terminal' = Ended(alive', incapable)
    /\ worldTurn' = worldTurn + 1
    /\ Opens([Onward(state) EXCEPT !.submissions =
            [a \in Actor |-> IF @[a] = "accepted" THEN "resolved" ELSE @[a]]])
    /\ boundary' = None
    /\ UNCHANGED <<dispositions, inbox, offered>>

ArchiveMemory ==
    /\ InTime("memory_archive")
    /\ Opens([Onward(state) EXCEPT !.memory_archive = state.memory_operations])
    /\ boundary' = None
    /\ UNCHANGED <<world, inbox, offered>>

Snapshot ==
    /\ InTime("snapshot") /\ state.memory_archive # None
    /\ Opens([Onward(state) EXCEPT !.snapshot = state.memory_archive])
    /\ boundary' = None
    /\ UNCHANGED <<world, inbox, offered>>

\* If no round was completed, everybody is recorded as missing, the few whose
\* responses are in evidence included; boundary does not cover interviews.
AdvanceInterview ==
    /\ InPhase({"interview"})
    /\ state.interviews # None \/ clock = "past"
    /\ Opens(Onward(state))
    /\ boundary' = None
    /\ UNCHANGED <<world, inbox, offered>>

\* A terminal world is disposed of when its last turn is closed.
Close ==
    /\ InTime("close")
    /\ state' = [state EXCEPT !.closed = TRUE]
    /\ terminal => dispositions = {}
    /\ dispositions' = IF terminal THEN {"complete"} ELSE dispositions
    /\ UNCHANGED <<worldTurn, alive, terminal, inbox, current, asking, time, history>>

Advance ==
    \/ AdvanceInteractive \/ Validate \/ Commit \/ Resolve \/ ArchiveMemory
    \/ Snapshot \/ AdvanceInterview \/ Close

-----------------------------------------------------------------------------
(* The environment *)

\* checkpoint("security") records the disposition that stops a run.
Stop ==
    /\ "stopped" \notin dispositions
    /\ dispositions' = dispositions \cup {"stopped"}
    /\ UNCHANGED <<state, worldTurn, alive, terminal, inbox, current, asking, time, history>>

Underway == state # None /\ ~state.closed

Tick ==
    /\ Underway
    /\ \/ clock = "behind" /\ clock' = "within"
       \/ clock = "within" /\ state.phase \in Expiring /\ clock' = "past"
    /\ UNCHANGED <<state, world, inbox, current, asking, setBacks, history>>

SetBack ==
    /\ Underway /\ setBacks < MaxSetBacks
    /\ clock # "behind" /\ clock' \in {"behind", "within"} \ {clock}
    /\ setBacks' = setBacks + 1
    /\ UNCHANGED <<state, world, inbox, current, asking, history>>

Next ==
    \/ \E a \in Actor :
        \/ Look(a) \/ Projection(a) \/ Ready(a) \/ Dispatch(a)
        \/ \E b \in Batch : Submit(a, b)
    \/ \E m \in Message : Diplomacy(m)
    \/ \E c \in answers : UpdateMemory(c) \/ \E b \in Batch : SubmitModelResult(c, b)
    \/ Complete \/ CompleteInterviews
    \/ Begin \/ Advance \/ Stop \/ Tick \/ SetBack

Spec == Init /\ [][Next]_vars

\* The scheduler runs, an unknown outcome is reconciled, and time passes.
LiveSpec == Spec /\ WF_vars(Advance) /\ WF_vars(Complete) /\ WF_vars(Tick)

-----------------------------------------------------------------------------
(* Properties *)

\* The types of the variables.
TypeOK ==
    /\ state \in {None} \cup Lifecycle
    /\ worldTurn \in 0..MaxTurns /\ alive \subseteq Actor /\ terminal \in BOOLEAN
    /\ dispositions \subseteq {"stopped", "complete"}
    /\ inbox \in [Actor -> [Message -> Nat]]
    /\ current \subseteq Participant
    /\ call \in {None} \cup Call /\ calls \in 0..MaxCalls /\ answers \subseteq Call
    /\ clock \in {"behind", "within", "past"} /\ setBacks \in 0..MaxSetBacks
    /\ acked \subseteq Actor /\ offered \in [Actor -> Batch \cup {None}]
    /\ boundary \in {None} \cup
           [expected : SUBSET Actor, missing : SUBSET Actor, done : SUBSET Actor]

\* Whoever was told that a batch is submitted finds it in the resolution of
\* that turn, or rejected, however submissions race the deadline; and nothing
\* else is resolved (submit, #validate, #commit, #resolve).
EverySubmissionCounts ==
    state # None /\ state.phase \in Post =>
        /\ state.committed = {a \in Actor : offered[a] \notin {None, "unfit"}}
        /\ \A a \in Actor :
            /\ a \in state.committed => state.submissions[a] = "resolved"
            /\ offered[a] = "unfit" => state.submissions[a] = "rejected"
            /\ offered[a] = None => state.submissions[a] = "none"

\* At the end of a phase the run records exactly those as missing who were
\* expected and whose completion was not confirmed (#expected, ready, advance).
AbsencesTrue ==
    boundary # None =>
        boundary.missing = boundary.expected \ boundary.done

\* A phase does not end while the outcome of a model call made in it is
\* unknown, so that an answer always meets the turn and phase that it was asked
\* in, even when it comes after the deadline (invokeModel, advance).
CallPinsPhase ==
    call # None => Underway /\ call.turn = state.turn /\ call.phase = state.phase

\* A message reaches a recipient once, however often its command is retried,
\* and none arrives whose command is not on record (diplomacy).
MessagesOnce ==
    \A a \in Actor, m \in Message :
        /\ inbox[a][m] <= 1
        /\ inbox[a][m] = 1 => state # None /\ m \in state.commands

\* What a turn sealed is complete: its archive and snapshot hold every memory
\* operation that was confirmed, and its round of interviews every response
\* (#archiveMemory, #snapshot, completeInterviews).  A clock that is set back
\* reopens the interviews after their deadline.
RecordsComplete ==
    state # None =>
        /\ state.memory_archive # None => state.memory_archive = state.memory_operations
        /\ state.snapshot # None => state.snapshot = state.memory_archive
        /\ state.interviews # None /\ setBacks = 0 =>
            state.interviews = {a \in alive : Responses(a) # {}}

ClosedTurn(t) == state # None /\ state.turn = t /\ state.closed
Stopped == "stopped" \in dispositions
\* The budget of mandatory work has run out: the run has to be stopped.
Overdue == Underway /\ state.phase \in Mandatory /\ clock = "past"

\* A turn that was begun is closed, whoever is silent, dead or late, unless the
\* run is stopped or was too slow with mandatory work (advance).
TurnCloses ==
    \A t \in Turn :
        (Underway /\ state.turn = t)
            ~> ClosedTurn(t) \/ Stopped \/ Overdue
=============================================================================
