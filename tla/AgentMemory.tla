----------------------------- MODULE AgentMemory -----------------------------
(***************************************************************************)
(* The memory of one polity (MemoryStore of src/memory.js), the runtimes   *)
(* that call the model for it (AgentRuntime and invokeRecordedModel of     *)
(* src/agent.js), the confidant that interviews it, and the check of what  *)
(* they recorded when the run is reconstructed (src/replay.js).            *)
(*                                                                         *)
(* Nothing is kept but the evidence: a store is rebuilt from it, several   *)
(* runtimes (incarnations of the polity) may hold one, and a model call    *)
(* awaits its answer while phases end and other stores write.  Texts are   *)
(* their lengths; `when' stands for the place of an event among those of   *)
(* the turn's phases, which are not events here.                           *)
(***************************************************************************)
EXTENDS Naturals, Sequences, FiniteSetsExt

CONSTANTS
    Runtime,       \* places for incarnations of the polity
    Text,          \* lengths of texts, in bytes
    Capacity,      \* config.memory.capacity
    MaxAttempts,   \* condition.retry.max_attempts
    Confidant, None,
    MaxTurns,      \* bound on the turns
    MaxEvents,     \* bound on the evidence before something new begins
    MaxWrites,     \* bound on the writes of the host itself
    MaxRestarts    \* bound on the deaths of the process

\* The ID of an incarnation: the name of its polity and its number.
Session == {"session"} \X Nat
Incarnation == [session : Session, count : Nat]

\* A record of the memory, and a call of the model: who makes it, and what is shown.
Item == [id : Nat, text : Nat]
Phase == {"planning", "memory_update", "interview"}
Caller == Session \cup ({"confidant"} \X Nat)
CallId == {"call"} \X Caller \X Nat
ModelCall == [session : Caller, invocation : CallId, turn : Nat, phase : Phase, attempt : Nat,
              retryOf : CallId \cup {None}, shown : Seq(Item), head : Nat]

ASSUME MemorySentinels ==
    Confidant \notin Runtime /\ None \notin Session \cup Incarnation \cup CallId \cup ModelCall
ASSUME MemoryBounds ==
    /\ Text \subseteq Nat /\ Capacity \in Nat /\ MaxAttempts \in Nat \ {0}
    /\ MaxTurns \in Nat /\ MaxEvents \in Nat /\ MaxWrites \in Nat /\ MaxRestarts \in Nat

VARIABLES
    log,           \* the evidence: memory operations and model invocations
    mode,          \* condition.memory.mode
    agent,         \* session and #invocationCount of each runtime, None if there is none
    store,         \* the MemoryStore of each runtime
    calls,         \* the model call that each runtime, or the confidant, awaits
    reserved,      \* runSessions
    clock,         \* turn, phase, whether its deadline is past, whether the polity lives
    ready, interviewed,  \* what the phase state says of the polity
    restarts

running == <<agent, store, calls, reserved>>
phases == <<clock, ready, interviewed>>
vars == <<log, mode, running, phases, restarts>>

-----------------------------------------------------------------------------
(* Memory operations on records. *)

Handles(records) == {records[i].id : i \in DOMAIN records}
Used(records) ==
    LET sum[i \in 0..Len(records)] ==
            IF i = 0 THEN 0 ELSE sum[i - 1] + records[i].text + (IF i > 1 THEN 1 ELSE 0)
    IN sum[Len(records)]

\* The records without those with the handles ids, and put for the first of them.
Replaced(records, ids, put) ==
    LET first == Min({i \in DOMAIN records : records[i].id \in ids})
        kept[i \in 0..Len(records)] ==
            IF i = 0 THEN <<>>
            ELSE kept[i - 1] \o (IF records[i].id \notin ids THEN <<records[i]>>
                                 ELSE IF i = first THEN put ELSE <<>>)
    IN kept[Len(records)]

\* What a request makes of the records; a new record takes the handle n.
After(records, q, n) ==
    LET new == [id |-> n, text |-> q.text]
    IN CASE q.op = "REMEMBER" -> Append(records, new)
         [] q.op = "EDIT" -> [i \in DOMAIN records |->
                IF records[i].id \in q.ids THEN [records[i] EXCEPT !.text = q.text] ELSE records[i]]
         [] q.op = "FORGET" -> Replaced(records, q.ids, <<>>)
         [] q.op = "COMPRESS" -> Replaced(records, q.ids, <<new>>)
         [] q.op = "CLEAR" -> <<>>
         [] OTHER -> records

\* parseMemoryOperation: the handles exist and the result fits.
Fits(records, q) ==
    /\ q.op \in {"EDIT", "FORGET", "COMPRESS"} => q.ids # {} /\ q.ids \subseteq Handles(records)
    /\ Used(After(records, q, 0)) <= Capacity

Bare(op) == [op |-> op, ids |-> {}, text |-> 0]
Read == Bare("READ")
Requests(records) ==
    LET one == {{h} : h \in Handles(records)}
        some == SUBSET Handles(records) \ {{}}
    IN {q \in [op : {"REMEMBER"}, ids : {{}}, text : Text] \cup [op : {"EDIT"}, ids : one, text : Text]
              \cup [op : {"FORGET"}, ids : one, text : {0}] \cup [op : {"COMPRESS"}, ids : some, text : Text]
              \cup {Bare("CLEAR"), Read} : Fits(records, q)}

-----------------------------------------------------------------------------
(* The evidence. *)

Operations(l) == {i \in DOMAIN l : l[i].kind = "memory"}
Invocations(l) == {i \in DOMAIN l : l[i].kind = "model"}
HeadEvent(l) == Max({0} \cup Operations(l))
LastOf(l, id) == Max({0} \cup {i \in Invocations(l) : l[i].invocation = id})
Sessions(l) == {l[i].session : i \in DOMAIN l}

\* Mutant of Completes: a completion may be applied again.
CompletesAgain(l, id, session, turn, q, records) ==
    LET source == LastOf(l, id) IN
    /\ source # 0
    /\ l[source].phase = "memory_update" /\ l[source].turn = turn /\ l[source].session = session
    /\ l[source].stage = "complete" /\ l[source].request = q
    /\ Fits(records, q)

\* assertMemoryCompletion: the call id of the memory phase of this turn has
\* ended in this very request, and no operation has used it yet.
Completes(l, id, session, turn, q, records) ==
    LET source == LastOf(l, id) IN
    /\ source # 0
    /\ l[source].phase = "memory_update" /\ l[source].turn = turn /\ l[source].session = session
    /\ l[source].stage = "complete" /\ l[source].request = q
    /\ Fits(records, q)
    /\ \A i \in Operations(l) :
        i > source /\ l[i].invocation = id => l[i].request.op = "RECOVER"

NoMemory == [records |-> <<>>, sequence |-> 0, head |-> 0, owner |-> None,
             sessions |-> {}, ok |-> TRUE]

\* replayMemoryOperation, on the state s that the events before e have left.
ReplayOperation(before, e, s) ==
    LET owner == IF s.head = 0 THEN e.session ELSE s.owner
        source == LastOf(before, e.invocation)
        after == After(s.records, e.request, s.sequence)
    IN [records |-> after, sequence |-> s.sequence + 1, head |-> Len(before) + 1, owner |-> e.next,
        sessions |-> s.sessions \cup {owner, e.next},
        ok |-> /\ s.ok
               /\ e.session = owner /\ e.parent = s.head /\ e.sequence = s.sequence
               /\ e.before = s.records
               /\ e.request.op # "RECOVER" /\ source # 0
                    /\ (e.request.op = "READ" => before[source].phase = "memory_update")
                  => Completes(before, e.invocation, e.session, e.turn, e.request, s.records)
               /\ Fits(s.records, e.request) /\ e.after = after
               /\ IF e.request.op = "RECOVER" THEN e.next \notin s.sessions \cup {owner}
                                              ELSE e.next = owner]

\* reconstructMemoryState.
ReplayEvent(l, k, s) ==
    IF l[k].kind = "memory" THEN ReplayOperation(SubSeq(l, 1, k - 1), l[k], s) ELSE s
Reduced(l) ==
    LET state[k \in 0..Len(l)] == IF k = 0 THEN NoMemory ELSE ReplayEvent(l, k, state[k - 1])
    IN state[Len(l)]

-----------------------------------------------------------------------------
(* MemoryStore. *)

Restored(session, l) ==
    LET s == Reduced(l) IN
    [records |-> s.records, sequence |-> s.sequence, head |-> s.head,
     owner |-> IF s.head = 0 THEN session ELSE s.owner]

\* restoreCanonical takes the newest records if the session still owns them.
MayRestore(st) ==
    LET s == Reduced(log) IN s.ok /\ (s.head # 0 => s.owner = st.owner)

\* Mutant of MayArchive: a store does not compare its head with the evidence.
MayArchiveStale(l, st, session, q) ==
    /\ mode = "persistent" \/ (q.op = "RECOVER" /\ st.records = <<>>)
    /\ st.owner = session
    /\ Used(After(st.records, q, st.sequence)) <= Capacity

\* #check and the conditions of #archive.  The constructor of a runtime writes
\* before it tells the store whether the polity lives.
MayArchive(l, st, session, q) ==
    /\ mode = "persistent" \/ (q.op = "RECOVER" /\ st.records = <<>>)
    /\ st.owner = session
    /\ st.head = HeadEvent(l)
    /\ Used(After(st.records, q, st.sequence)) <= Capacity

Operation(st, q, session, next, id) ==
    [kind |-> "memory", request |-> q, session |-> session, next |-> next, invocation |-> id,
     turn |-> clock.turn, before |-> st.records, after |-> After(st.records, q, st.sequence),
     sequence |-> st.sequence, parent |-> st.head, when |-> clock]
Wrote(st, e, l) ==
    [records |-> e.after, sequence |-> st.sequence + 1, head |-> Len(l) + 1, owner |-> e.next]

-----------------------------------------------------------------------------
(* AgentRuntime. *)

Live == {r \in Runtime : agent[r] # None}
Room == Len(log) < MaxEvents

\* Mutant of FreshSession: the number of sessions used is taken to be free.
FreshSessionCounted == <<"session", Cardinality(reserved \cup Sessions(log))>>

\* reserveSession: the first ordinal not below the number of sessions used.
FreshSession ==
    LET used == reserved \cup Sessions(log)
        n == Cardinality(used)
    IN <<"session", Min({k \in n..(2 * n) : <<"session", k>> \notin used})>>

Reserve(s) == reserved' = reserved \cup Sessions(log) \cup {s}

\* The session of the newest call of this polity outside interviews.
PriorSession ==
    LET i == Max({0} \cup {j \in Invocations(log) : log[j].phase # "interview"})
    IN IF i = 0 THEN None ELSE log[i].session

\* The constructor restores the memory and, if another session owned it or
\* called the model, transfers it to its own.
Construct(r) ==
    LET s == FreshSession
        state == Reduced(log)
        previous == IF state.head # 0 THEN state.owner ELSE PriorSession
        st == Restored(previous, log)
        e == Operation(st, Bare("RECOVER"), previous, s, <<"incarnation", s, 0>>)
    IN /\ agent[r] = None /\ Room /\ state.ok
       /\ Reserve(s)
       /\ agent' = [agent EXCEPT ![r] = [session |-> s, count |-> 0]]
       /\ \/ /\ previous \in {None, s}
             /\ store' = [store EXCEPT ![r] = [st EXCEPT !.owner = s]]
             /\ UNCHANGED log
          \/ /\ previous \notin {None, s} /\ s \notin state.sessions
             /\ log' = Append(log, e)
             /\ store' = [store EXCEPT ![r] = Wrote(st, e, log)]
       /\ UNCHANGED <<mode, calls, phases, restarts>>

\* The process dies, and with it every runtime and what is awaited.
Restart ==
    /\ restarts < MaxRestarts /\ restarts' = restarts + 1
    /\ agent' = [r \in Runtime |-> None]
    /\ calls' = [c \in DOMAIN calls |-> None]
    /\ store' = [r \in Runtime |-> Restored(None, <<>>)]
    /\ reserved' = {}
    /\ UNCHANGED <<log, mode, phases>>

Reset(r) ==
    LET s == FreshSession
        old == agent[r].session
        st == Restored(old, log)
        e == Operation(st, Bare("RECOVER"), old, s, <<"recovery", s, 0>>)
    IN /\ agent[r] # None /\ Room
       /\ calls[r] = None /\ clock.lives /\ MayRestore(store[r])
       /\ MayArchive(log, st, old, Bare("RECOVER")) /\ s \notin Reduced(log).sessions
       /\ Reserve(s)
       /\ log' = Append(log, e)
       /\ store' = [store EXCEPT ![r] = Wrote(st, e, log)]
       /\ agent' = [agent EXCEPT ![r].session = s]
       /\ UNCHANGED <<mode, calls, phases, restarts>>

-----------------------------------------------------------------------------
(* invokeRecordedModel, for runtimes and the confidant. *)

Recorded(call, stage, outcome, q) ==
    [kind |-> "model", session |-> call.session, invocation |-> call.invocation,
     turn |-> call.turn, phase |-> call.phase, attempt |-> call.attempt, retryOf |-> call.retryOf,
     shown |-> call.shown, head |-> call.head, stage |-> stage, outcome |-> outcome,
     request |-> q, when |-> clock]
Dispatched(call) == Recorded(call, "dispatch", "pending", None)

\* Mutant of Timely: an answer counts as long as the polity lives.
TimelyAlways(call) == clock.lives

\* isCurrent, and the deadline, which no later phase renews.
Timely(call) ==
    /\ clock.lives /\ clock.turn = call.turn /\ clock.phase = call.phase /\ ~clock.expired

Call(session, n, shown, head) ==
    [session |-> session, invocation |-> <<"call", session, n>>, turn |-> clock.turn, phase |-> clock.phase,
     attempt |-> 1, retryOf |-> None, shown |-> shown, head |-> head]

\* invoke: the memory is read, archived and shown; the call is recorded before
\* it is made.  Past the deadline it is recorded as failed and not made.
Invoke(r) ==
    LET a == agent[r]
        st == Restored(a.session, log)
        read == Operation(st, Read, a.session, a.session, <<"call", a.session, a.count>>)
        persistent == mode = "persistent"
        shown == IF persistent THEN st.records ELSE <<>>
        begun == IF persistent THEN Append(log, read) ELSE log
        call == Call(a.session, a.count, shown, HeadEvent(begun))
        sent == Append(begun, Dispatched(call))
    IN /\ a # None /\ calls[r] = None /\ Room
       /\ clock.lives /\ clock.phase \in {"planning", "memory_update"}
       /\ clock.phase = "memory_update" => persistent
       /\ MayRestore(store[r])
       /\ persistent => MayArchive(log, st, a.session, Read)
       /\ store' = [store EXCEPT ![r] = IF persistent THEN Wrote(st, read, log) ELSE st]
       /\ agent' = [agent EXCEPT ![r].count = a.count + 1]
       /\ \/ /\ Timely(call)
             /\ log' = sent
             /\ calls' = [calls EXCEPT ![r] = call]
          \/ /\ ~Timely(call)
             /\ log' = Append(sent, Recorded(call, "complete", "failed", None))
             /\ UNCHANGED calls
       /\ UNCHANGED <<mode, reserved, phases, restarts>>

\* interviewAll: a session of its own, with the records the runtime's store holds.
Interview(r) ==
    LET call == Call(<<"confidant", clock.turn>>, 0,
                     IF mode = "persistent" THEN store[r].records ELSE <<>>, store[r].head) IN
    /\ agent[r] # None /\ calls[Confidant] = None /\ Room
    /\ Timely(call) /\ clock.phase = "interview" /\ ~interviewed
    /\ calls' = [calls EXCEPT ![Confidant] = call]
    /\ log' = Append(log, Dispatched(call))
    /\ UNCHANGED <<mode, agent, store, reserved, phases, restarts>>

\* What the parser makes of an answer in the call's phase.
Answers(call) ==
    IF call.phase = "memory_update" THEN Requests(call.shown) ELSE {Bare("OTHER")}

Ended(c, e) ==
    /\ log' = Append(log, e)
    /\ calls' = [calls EXCEPT ![c] = None]
    /\ interviewed' = (interviewed \/ (c = Confidant /\ clock.phase = "interview"
                                       /\ clock.turn = calls[c].turn))
    /\ UNCHANGED <<mode, agent, store, reserved, clock, ready, restarts>>

Succeed(c) ==
    /\ calls[c] # None /\ Timely(calls[c])
    /\ \E q \in Answers(calls[c]) : Ended(c, Recorded(calls[c], "complete", "success", q))

\* An answer that is late or not understood is recorded and discarded.
Fail(c) ==
    /\ calls[c] # None
    /\ Ended(c, Recorded(calls[c], "complete", "failed", None))

\* A failure of the transport is tried again under a new invocation id.
Retry(c) ==
    LET old == calls[c]
        id == <<"call", old.session, IF c = Confidant THEN old.attempt ELSE agent[c].count>>
        new == [old EXCEPT !.invocation = id, !.attempt = @ + 1, !.retryOf = old.invocation]
    IN /\ old # None /\ Timely(old) /\ old.attempt < MaxAttempts
       /\ log' = log \o <<Recorded(old, "complete", "retryable", None), Dispatched(new)>>
       /\ calls' = [calls EXCEPT ![c] = new]
       /\ agent' = IF c = Confidant THEN agent ELSE [agent EXCEPT ![c].count = @ + 1]
       /\ UNCHANGED <<mode, store, reserved, phases, restarts>>

-----------------------------------------------------------------------------
(* What an answer of the memory phase does to the memory. *)

Opportunity ==
    /\ clock.phase = "memory_update" /\ ~clock.expired /\ ~ready
    /\ clock.lives /\ mode = "persistent"

\* Store st, opened under a session, applies what the call id answered.
Apply(st, session, id, q) ==
    /\ Completes(log, id, session, clock.turn, q, st.records)
    /\ MayArchive(log, st, session, q)
    /\ log' = Append(log, Operation(st, q, session, session, id))

Answered == {i \in Invocations(log) : log[i].outcome = "success" /\ log[i].phase = "memory_update"}

\* applyMemoryOperation, by a runtime that is not calling.
ApplyMemoryOperation(r) ==
    /\ Opportunity /\ agent[r] # None /\ calls[r] = None /\ Room
    /\ MayRestore(store[r])
    /\ LET st == Restored(agent[r].session, log) IN
       \E i \in Answered :
        LET q == log[i].request IN
        /\ Apply(st, agent[r].session, log[i].invocation, q)
        /\ store' = [store EXCEPT ![r] =
                Wrote(st, Operation(st, q, agent[r].session, agent[r].session, log[i].invocation), log)]
    /\ UNCHANGED <<mode, agent, calls, reserved, phases, restarts>>

\* updateMemory of the phases, with the runtime's store as it is.
UpdateMemory(r) ==
    /\ Opportunity /\ agent[r] # None /\ Room
    /\ \E i \in Answered :
        LET q == log[i].request IN
        /\ Apply(store[r], agent[r].session, log[i].invocation, q)
        /\ store' = [store EXCEPT ![r] =
                Wrote(@, Operation(@, q, agent[r].session, agent[r].session, log[i].invocation), log)]
    /\ UNCHANGED <<mode, agent, calls, reserved, phases, restarts>>

\* The same as a durable command: phaseRuntimes opens a store for the command,
\* under the session that the bindings of the phases name.
UpdateMemoryDurably(session) ==
    /\ Opportunity /\ Room /\ Reduced(log).ok
    /\ LET st == Restored(session, log) IN
       /\ st.owner = session
       /\ \E i \in Answered : Apply(st, session, log[i].invocation, log[i].request)
    /\ UNCHANGED <<mode, running, phases, restarts>>

\* write, edit, forget, compress, clear and read by whoever holds the store of
\* a runtime, under an invocation ID that is not a call's.
Write(r) ==
    /\ agent[r] # None /\ Room /\ clock.lives /\ mode = "persistent"
    /\ Cardinality({i \in Operations(log) : log[i].invocation[1] = "host"}) < MaxWrites
    /\ \E q \in Requests(store[r].records) :
        LET e == Operation(store[r], q, agent[r].session, agent[r].session, <<"host", None, 0>>) IN
        /\ MayArchive(log, store[r], agent[r].session, q)
        /\ log' = Append(log, e)
        /\ store' = [store EXCEPT ![r] = Wrote(@, e, log)]
    /\ UNCHANGED <<mode, agent, calls, reserved, phases, restarts>>

-----------------------------------------------------------------------------
(* The phases, as far as they matter here. *)

Ready == /\ clock.phase \in {"planning", "memory_update"} /\ ~clock.expired /\ clock.lives
         /\ ready' = TRUE
         /\ UNCHANGED <<log, mode, running, clock, interviewed, restarts>>

Expire == /\ ~clock.expired
          /\ clock' = [clock EXCEPT !.expired = TRUE]
          /\ UNCHANGED <<log, mode, running, ready, interviewed, restarts>>

\* advance: the polity may fall when the turn is resolved, after planning.
Advance ==
    /\ \/ clock.expired \/ ~clock.lives
       \/ ready
       \/ (clock.phase = "memory_update" /\ mode = "state_only")
       \/ (clock.phase = "interview" /\ interviewed)
    /\ clock.phase = "interview" => clock.turn < MaxTurns
    /\ \E lives \in {TRUE, FALSE} :
        /\ lives # clock.lives => clock.lives /\ clock.phase = "planning"
        /\ clock' = [turn |-> IF clock.phase = "interview" THEN clock.turn + 1 ELSE clock.turn,
                     phase |-> CASE clock.phase = "planning" -> "memory_update"
                                 [] clock.phase = "memory_update" -> "interview"
                                 [] OTHER -> "planning",
                     expired |-> FALSE, lives |-> lives]
    /\ ready' = FALSE /\ interviewed' = FALSE
    /\ UNCHANGED <<log, mode, running, restarts>>

Init ==
    /\ log = <<>> /\ mode \in {"persistent", "state_only"}
    /\ agent = [r \in Runtime |-> None] /\ calls = [c \in Runtime \cup {Confidant} |-> None]
    /\ store = [r \in Runtime |-> Restored(None, <<>>)]
    /\ reserved = {} /\ restarts = 0
    /\ clock = [turn |-> 0, phase |-> "planning", expired |-> FALSE, lives |-> TRUE]
    /\ ready = FALSE /\ interviewed = FALSE

Next ==
    \/ \E r \in Runtime : \/ Construct(r) \/ Reset(r) \/ Invoke(r) \/ Interview(r)
                           \/ ApplyMemoryOperation(r) \/ UpdateMemory(r) \/ Write(r)
    \/ \E s \in Sessions(log) : UpdateMemoryDurably(s)
    \/ \E c \in Runtime \cup {Confidant} : Succeed(c) \/ Fail(c) \/ Retry(c)
    \/ Restart \/ Ready \/ Expire \/ Advance

Spec == Init /\ [][Next]_vars

-----------------------------------------------------------------------------
(* The reconstruction of the run, from the evidence alone. *)

\* validateInvocation: lifecycle, retries, and the memory that was shown.
ValidInvocation(k) ==
    LET e == log[k]
        before == SubSeq(log, 1, k - 1)
        memory == Reduced(before)
        source == LastOf(before, e.invocation)
        same(x) == /\ x.session = e.session /\ x.turn = e.turn /\ x.phase = e.phase
                   /\ x.shown = e.shown
    IN /\ e.when.lives
       /\ e.phase # "interview" => e.turn = e.when.turn /\ e.phase = e.when.phase
       /\ e.phase # "interview" /\ memory.head # 0 => memory.owner = e.session
       /\ e.shown = (IF mode = "persistent" THEN memory.records ELSE <<>>)
       /\ e.phase = "memory_update" => mode = "persistent"
       /\ e.outcome = "success" =>
            /\ ~(e.when.expired /\ e.when.turn = e.turn /\ e.when.phase = e.phase)
            /\ e.phase = "memory_update" => Fits(memory.records, e.request)
       /\ IF e.stage = "complete"
          THEN /\ source # 0 /\ log[source].stage = "dispatch" /\ same(log[source])
               /\ log[source].attempt = e.attempt /\ log[source].retryOf = e.retryOf
          ELSE /\ source = 0
               /\ \A i \in Invocations(before) : log[i].session = e.session =>
                    log[LastOf(before, log[i].invocation)].stage = "complete"
               /\ IF e.retryOf = None THEN e.attempt = 1
                  ELSE LET old == LastOf(before, e.retryOf) IN
                       /\ old # 0 /\ log[old].outcome = "retryable"
                       /\ e.attempt = log[old].attempt + 1 /\ same(log[old])
                       /\ \A i \in Invocations(before) : log[i].retryOf # e.retryOf

\* An event is undisturbed if the polity lives, and if what a call showed and
\* the phase it was made in are still those of the run when it is recorded.
Undisturbed(k) ==
    LET e == log[k] IN
    /\ e.when.lives
    /\ e.kind = "model" =>
        /\ e.phase # "interview" => e.phase = e.when.phase /\ e.turn = e.when.turn
        /\ e.head = HeadEvent(SubSeq(log, 1, k - 1))

\* The first interview of a turn, not one that a restart lets begin again.
Interviews(turn) ==
    {i \in Invocations(log) : /\ log[i].phase = "interview" /\ log[i].turn = turn
                              /\ log[i].stage = "dispatch" /\ log[i].attempt = 1}

\* Evidence can be reconstructed: reconstructRun (src/replay.js) accepts every
\* model call that was recorded undisturbed, over any number of incarnations,
\* retries, restarts and writers, and whatever else it refuses.  What it refuses
\* is what came late, after a transfer or after a change of the memory shown
\* (which "record_and_discard" of src/agent.js:29 records all the same), and
\* the interview that begins again after a restart under the same session.
Reconstructs ==
    \A k \in Invocations(log) :
        \/ ValidInvocation(k)
        \/ ~Undisturbed(k)
        \/ log[k].phase = "interview" /\ Cardinality(Interviews(log[k].turn)) > 1

\* The evidence's memory operations always reduce (reconstructMemoryState of
\* src/memory.js), and a store is what they reduce to up to the operation it
\* knows last; one that knows the newest is the owner's.
StoresHonest ==
    /\ Reduced(log).ok
    /\ \A r \in Live :
        LET s == Reduced(SubSeq(log, 1, store[r].head)) IN
        /\ store[r].records = s.records /\ store[r].sequence = s.sequence
        /\ store[r].head = HeadEvent(log) /\ HeadEvent(log) # 0 => s.owner = agent[r].session

\* An answer changes the memory once, in its own phase: an operation that
\* changes it under the ID of a call is what that call, of the same session,
\* turn and phase, answered in time, and no other operation changes it under
\* that ID (assertMemoryCompletion of src/memory.js, updateMemory of
\* src/turn-phases.js).
AppliedOnce ==
    \A k \in Operations(log) :
        log[k].before # log[k].after /\ log[k].invocation[1] = "call" =>
        /\ \E i \in Invocations(log) :
            /\ i < k /\ log[i].invocation = log[k].invocation
            /\ log[i].outcome = "success" /\ log[i].request = log[k].request
            /\ log[i].turn = log[k].turn /\ log[i].session = log[k].session
            /\ log[i].when.turn = log[k].when.turn /\ log[i].when.phase = log[k].when.phase
        /\ \A j \in Operations(log) \ {k} :
            log[j].invocation = log[k].invocation => log[j].before = log[j].after

\* An invocation ID names one call: it is dispatched once and ends at most once
\* (nextInvocationId and reserveSession of src/agent.js).
InvokedOnce ==
    \A i, j \in Invocations(log) :
        /\ i < j /\ log[i].invocation = log[j].invocation /\ log[i].phase # "interview"
        => log[i].stage = "dispatch" /\ log[j].stage = "complete"
=============================================================================
