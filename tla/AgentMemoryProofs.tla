--------------------------- MODULE AgentMemoryProofs ---------------------------
(* The safety invariants of AgentMemory, for any runtimes, texts and bounds: *)
(* at the end, that the run is reconstructed from its evidence.              *)
EXTENDS AgentMemory, FiniteSetTheorems, SequenceTheorems, WellFoundedInduction, TLAPS

-----------------------------------------------------------------------------
(* Induction over the natural numbers in a form without operator parameters: *)
(* what is true of a number is membership in a set, so the provers can       *)
(* instantiate it.  And the elements that the models take with Min and Max. *)

\* A set of natural numbers has a least element.
LEMMA Least ==
    ASSUME NEW S \in SUBSET Nat, S # {}
    PROVE  \E n \in S : \A m \in S : n <= m
<1>1. PICK R : /\ \A n, m \in Nat : <<m, n>> \in R <=> m < n
               /\ IsWellFoundedOn(R, Nat)
  <2>1. \A n, m \in Nat : <<m, n>> \in OpToRel(<, Nat) <=> m < n
    BY DEF OpToRel
  <2>2. QED
    BY <2>1, NatLessThanWellFounded
<1>2. PICK n \in S : \A m \in S : <<m, n>> \notin R
  BY <1>1, WFMin
<1>3. n \in Nat /\ \A m \in S : m \in Nat /\ ~(m < n)
  BY <1>1, <1>2
<1>4. QED
  BY <1>2, <1>3

\* A set that has 0 and with every number the next has all of them.
LEMMA InductionOver ==
    ASSUME NEW S, 0 \in S, \A n \in Nat : n \in S => n + 1 \in S
    PROVE  Nat \subseteq S
<1> SUFFICES ASSUME Nat \ S # {} PROVE FALSE
  OBVIOUS
<1>1. PICK n \in Nat \ S : \A m \in Nat \ S : n <= m
  BY Least
<1>2. n - 1 \in Nat /\ n - 1 \in S
  BY <1>1
<1>3. QED
  BY <1>1, <1>2

\* A set of natural numbers with a bound has a greatest element.
LEMMA Greatest ==
    ASSUME NEW S \in SUBSET Nat, S # {}, NEW b \in Nat, \A n \in S : n <= b
    PROVE  \E n \in S : \A m \in S : m <= n
<1> DEFINE T == {b - n : n \in S}
<1>1. T \in SUBSET Nat /\ T # {}
  <2>1. \A n \in S : b - n \in Nat
    OBVIOUS
  <2>2. QED
    BY <2>1
<1>2. PICK t \in T : \A u \in T : t <= u
  BY <1>1, Least
<1>3. PICK n \in S : t = b - n
  BY <1>2
<1>4. \A m \in S : b - m \in T
  OBVIOUS
<1>5. \A m \in S : b - n <= b - m
  BY <1>2, <1>3, <1>4
<1>6. \A m \in S : m <= n
  BY <1>5
<1>7. QED
  BY <1>6

LEMMA MinIsLeast ==
    ASSUME NEW S \in SUBSET Nat, S # {}
    PROVE  Min(S) \in S /\ \A n \in S : Min(S) <= n
  BY Least, Zenon DEF Min

LEMMA MaxIsGreatest ==
    ASSUME NEW S \in SUBSET Nat, S # {}, NEW b \in Nat, \A n \in S : n <= b
    PROVE  Max(S) \in S /\ \A n \in S : n <= Max(S)
<1>1. PICK x \in S : \A y \in S : y <= x
  BY Greatest
<1>2. \A y \in S : x >= y
  BY <1>1
<1>3. Max(S) \in S /\ \A y \in S : Max(S) >= y
  BY <1>2, Zenon DEF Max
<1>4. QED
  BY <1>3


-----------------------------------------------------------------------------
(* The reduction of a log, event by event                                    *)

\* The states that the events of l up to the n-th have left.
Replay(l, n, f) ==
    f = [k \in 0..n |-> IF k = 0 THEN NoMemory ELSE ReplayEvent(l, k, f[k - 1])]

LEMMA ReplayExists == ASSUME NEW l, NEW n \in Nat PROVE \E f : Replay(l, n, f)
<1> DEFINE S == {m \in Nat : \E f : Replay(l, m, f)}
<1>1. 0 \in S
  <2>1. Replay(l, 0, [k \in 0..0 |-> NoMemory])
    BY DEF Replay
  <2>2. QED
    BY <2>1
<1>2. ASSUME NEW m \in Nat, m \in S PROVE m + 1 \in S
  <2>1. PICK f : Replay(l, m, f)
    BY <1>2
  <2> DEFINE g == [k \in 0..(m + 1) |-> IF k = m + 1 THEN ReplayEvent(l, m + 1, f[m]) ELSE f[k]]
  <2>2. \A k \in 0..m : g[k] = IF k = 0 THEN NoMemory ELSE ReplayEvent(l, k, g[k - 1])
    BY <2>1 DEF Replay
  <2>3. g[m + 1] = ReplayEvent(l, m + 1, g[m])
    OBVIOUS
  <2>4. \A k \in 0..(m + 1) :
            g[k] = IF k = 0 THEN NoMemory ELSE ReplayEvent(l, k, g[k - 1])
    <3> HIDE DEF g
    <3>1. \A k \in 0..(m + 1) : k \in 0..m \/ (k = m + 1 /\ k # 0 /\ k - 1 = m)
      OBVIOUS
    <3>2. QED
      BY <2>2, <2>3, <3>1
  <2>5. Replay(l, m + 1, g)
    <3>1. g = [k \in 0..(m + 1) |-> g[k]]
      OBVIOUS
    <3> HIDE DEF g
    <3>2. QED
      BY <2>4, <3>1 DEF Replay
  <2>6. QED
    BY <2>5
<1>3. Nat \subseteq S
  <2> HIDE DEF S
  <2>1. QED
    BY <1>1, <1>2, InductionOver
<1>4. QED
  BY <1>3

LEMMA ReplayUnique ==
    ASSUME NEW l, NEW m, NEW n \in Nat, NEW o \in Nat, n <= o, NEW f, NEW g,
           Replay(l, n, f), Replay(m, o, g),
           \A k \in 1..n : \A s : ReplayEvent(l, k, s) = ReplayEvent(m, k, s)
    PROVE  \A k \in 0..n : f[k] = g[k]
<1> DEFINE S == {k \in Nat : k <= n => f[k] = g[k]}
<1>1. 0 \in S
  BY DEF Replay
<1>2. ASSUME NEW k \in Nat, k \in S PROVE k + 1 \in S
  <2>1. SUFFICES ASSUME k + 1 <= n PROVE f[k + 1] = g[k + 1]
    OBVIOUS
  <2>2. f[k] = g[k] /\ k + 1 \in 1..n
    BY <1>2, <2>1
  <2>3. f[k + 1] = ReplayEvent(l, k + 1, f[k]) /\ g[k + 1] = ReplayEvent(m, k + 1, g[k])
    BY <2>1 DEF Replay
  <2>4. QED
    BY <2>2, <2>3
<1>3. Nat \subseteq S
  <2> HIDE DEF S
  <2>1. QED
    BY <1>1, <1>2, InductionOver
<1>4. QED
  BY <1>3

LEMMA ReducedIs ==
    ASSUME NEW l, Len(l) \in Nat
    PROVE  \E f : Replay(l, Len(l), f) /\ Reduced(l) = f[Len(l)]
<1> DEFINE state == CHOOSE f : Replay(l, Len(l), f)
<1>1. Replay(l, Len(l), state)
  BY ReplayExists
<1>2. Reduced(l) = state[Len(l)]
  BY DEF Reduced, Replay
<1>3. QED
  BY <1>1, <1>2

-----------------------------------------------------------------------------
(* Logs *)

IsLog(l) == \E S : l \in Seq(S)

LEMMA LogLength ==
    ASSUME NEW l, IsLog(l)
    PROVE  /\ Len(l) \in Nat /\ DOMAIN l = 1..Len(l)
           /\ Operations(l) \subseteq 1..Len(l) /\ Invocations(l) \subseteq 1..Len(l)
           /\ SubSeq(l, 1, Len(l)) = l
           /\ Operations(l) \cap Invocations(l) = {}
<1>1. PICK S : l \in Seq(S)
  BY DEF IsLog
<1>2. Len(l) \in Nat /\ DOMAIN l = 1..Len(l) /\ SubSeq(l, 1, Len(l)) = l
  BY <1>1
<1>3. QED
  BY <1>2 DEF Operations, Invocations

LEMMA Appended ==
    ASSUME NEW l, IsLog(l), NEW e
    PROVE  /\ IsLog(Append(l, e)) /\ Len(Append(l, e)) = Len(l) + 1
           /\ \A i \in 1..Len(l) : Append(l, e)[i] = l[i]
           /\ Append(l, e)[Len(l) + 1] = e
           /\ \A n \in 0..Len(l) : SubSeq(Append(l, e), 1, n) = SubSeq(l, 1, n)
<1>1. PICK S : l \in Seq(S)
  BY DEF IsLog
<1>2. PICK T : T = S \cup {e}
  OBVIOUS
<1>3. l \in Seq(T) /\ e \in T
  <2>1. \A i \in 1..Len(l) : l[i] \in T
    BY <1>1, <1>2
  <2>2. QED
    BY <1>1, <1>2, <2>1
<1>4. Append(l, e) \in Seq(T)
  BY <1>3
<1>5. \A n \in 0..Len(l) : SubSeq(Append(l, e), 1, n) = SubSeq(l, 1, n)
  BY <1>3
<1>6. QED
  BY <1>3, <1>4, <1>5 DEF IsLog

LEMMA AppendedTwice ==
    ASSUME NEW l, IsLog(l), NEW a, NEW b
    PROVE  l \o <<a, b>> = Append(Append(l, a), b)
<1>1. PICK S : l \in Seq(S)
  BY DEF IsLog
<1>2. PICK T : T = S \cup {a, b}
  OBVIOUS
<1>3. l \in Seq(T) /\ a \in T /\ b \in T
  <2>1. \A i \in 1..Len(l) : l[i] \in T
    BY <1>1, <1>2
  <2>2. QED
    BY <1>1, <1>2, <2>1
<1>4. QED
  BY <1>3

LEMMA KindsAppended ==
    ASSUME NEW l, IsLog(l), NEW e
    PROVE  /\ e.kind = "memory" =>
                  /\ Operations(Append(l, e)) = Operations(l) \cup {Len(l) + 1}
                  /\ Invocations(Append(l, e)) = Invocations(l)
           /\ e.kind = "model" =>
                  /\ Operations(Append(l, e)) = Operations(l)
                  /\ Invocations(Append(l, e)) = Invocations(l) \cup {Len(l) + 1}
<1>1. Len(l) \in Nat /\ DOMAIN l = 1..Len(l) /\ DOMAIN Append(l, e) = 1..(Len(l) + 1)
  BY Appended, LogLength
<1>2. \A i \in 1..(Len(l) + 1) : i \in 1..Len(l) \/ i = Len(l) + 1
  BY <1>1
<1>3. QED
  BY <1>1, <1>2, Appended DEF Operations, Invocations

\* The greatest of a set of places in a log, 0 if there is none.
LEMMA MaxOfPlaces ==
    ASSUME NEW n \in Nat, NEW P \in SUBSET (1..n)
    PROVE  /\ Max({0} \cup P) \in 0..n
           /\ Max({0} \cup P) # 0 => Max({0} \cup P) \in P
           /\ Max({0} \cup P) = 0 => P = {}
           /\ \A i \in P : i <= Max({0} \cup P)
<1>1. PICK S : S = {0} \cup P
  OBVIOUS
<1>2. S \in SUBSET Nat /\ S # {} /\ \A i \in S : i <= n
  BY <1>1
<1>3. PICK m : m = Max(S)
  OBVIOUS
<1>4. m \in S /\ \A i \in S : i <= m
  BY <1>2, <1>3, MaxIsGreatest
<1>5. /\ m \in 0..n /\ (m # 0 => m \in P) /\ (m = 0 => P = {})
      /\ \A i \in P : i <= m
  BY <1>1, <1>4
<1>6. QED
  BY <1>1, <1>3, <1>5

LEMMA HeadEventIs ==
    ASSUME NEW l, IsLog(l)
    PROVE  /\ HeadEvent(l) \in 0..Len(l)
           /\ HeadEvent(l) # 0 => HeadEvent(l) \in Operations(l)
           /\ \A i \in Operations(l) : i <= HeadEvent(l)
  BY LogLength, MaxOfPlaces DEF HeadEvent

LEMMA HeadEventAppended ==
    ASSUME NEW l, IsLog(l), NEW e
    PROVE  /\ e.kind = "memory" => HeadEvent(Append(l, e)) = Len(l) + 1
           /\ e.kind = "model" => HeadEvent(Append(l, e)) = HeadEvent(l)
<1>1. Len(l) \in Nat
  BY LogLength
<1>2. ASSUME e.kind = "memory" PROVE HeadEvent(Append(l, e)) = Len(l) + 1
  <2>1. Len(l) + 1 \in Operations(Append(l, e))
    BY <1>2, KindsAppended
  <2>2. HeadEvent(Append(l, e)) \in 0..(Len(l) + 1) /\ Len(l) + 1 <= HeadEvent(Append(l, e))
    BY <2>1, Appended, HeadEventIs
  <2>3. QED
    BY <1>1, <2>2
<1>3. e.kind = "model" => HeadEvent(Append(l, e)) = HeadEvent(l)
  BY KindsAppended DEF HeadEvent
<1>4. QED
  BY <1>2, <1>3

LEMMA LastOfIs ==
    ASSUME NEW l, IsLog(l), NEW id
    PROVE  /\ LastOf(l, id) \in 0..Len(l)
           /\ LastOf(l, id) # 0 =>
                  LastOf(l, id) \in Invocations(l) /\ l[LastOf(l, id)].invocation = id
           /\ \A i \in Invocations(l) : l[i].invocation = id =>
                  LastOf(l, id) # 0 /\ i <= LastOf(l, id)
<1>1. PICK P : P = {i \in Invocations(l) : l[i].invocation = id}
  OBVIOUS
<1>2. Len(l) \in Nat /\ P \in SUBSET (1..Len(l))
  BY <1>1, LogLength
<1>3. LastOf(l, id) = Max({0} \cup P)
  BY <1>1 DEF LastOf
<1>4. QED
  BY <1>1, <1>2, <1>3, MaxOfPlaces

LEMMA ReducedAppended ==
    ASSUME NEW l, IsLog(l), NEW e
    PROVE  Reduced(Append(l, e)) =
               IF e.kind = "memory" THEN ReplayOperation(l, e, Reduced(l)) ELSE Reduced(l)
<1>0. PICK m : m = Append(l, e)
  OBVIOUS
<1>1. Len(l) \in Nat /\ Len(m) = Len(l) + 1 /\ Len(m) \in Nat
  BY <1>0, LogLength, Appended
<1>2. PICK f : Replay(l, Len(l), f) /\ Reduced(l) = f[Len(l)]
  BY <1>1, ReducedIs
<1>3. PICK g : Replay(m, Len(m), g) /\ Reduced(m) = g[Len(m)]
  BY <1>1, ReducedIs
<1>4. ASSUME NEW k \in 1..Len(l), NEW s PROVE ReplayEvent(l, k, s) = ReplayEvent(m, k, s)
  <2>1. k - 1 \in 0..Len(l)
    BY <1>1
  <2>2. l[k] = m[k] /\ SubSeq(l, 1, k - 1) = SubSeq(m, 1, k - 1)
    BY <1>0, <2>1, Appended
  <2>3. QED
    BY <2>2 DEF ReplayEvent
<1>5. f[Len(l)] = g[Len(l)]
  <2>1. \A k \in 0..Len(l) : f[k] = g[k]
    BY <1>1, <1>2, <1>3, <1>4, ReplayUnique
  <2>2. QED
    BY <1>1, <2>1
<1>6. g[Len(l) + 1] = ReplayEvent(m, Len(l) + 1, g[Len(l)])
  BY <1>1, <1>3 DEF Replay
<1>7. m[Len(l) + 1] = e /\ SubSeq(m, 1, (Len(l) + 1) - 1) = l
  <2>1. SubSeq(m, 1, Len(l)) = l
    BY <1>0, <1>1, Appended, LogLength
  <2>2. (Len(l) + 1) - 1 = Len(l)
    BY <1>1
  <2>3. QED
    BY <1>0, <2>1, <2>2, Appended
<1>8. ReplayEvent(m, Len(l) + 1, Reduced(l)) =
          IF e.kind = "memory" THEN ReplayOperation(l, e, Reduced(l)) ELSE Reduced(l)
  BY <1>7, Zenon DEF ReplayEvent
<1>9. QED
  BY <1>0, <1>1, <1>2, <1>3, <1>5, <1>6, <1>8

-----------------------------------------------------------------------------
(* The inductive invariant *)

IsConfidant(session) == \E t \in Nat : session = <<"confidant", t>>
NthCall(session, n) == <<"call", session, n>>

Typed ==
    /\ IsFiniteSet(reserved)
    /\ clock \in [turn : Nat, phase : Phase, expired : BOOLEAN, lives : BOOLEAN]
    /\ \E S : store \in [Runtime -> S]
    /\ \E S : calls \in [Runtime \cup {Confidant} -> S]

\* No two incarnations share a session.
Incarnations(ag) ==
    /\ ag \in [Runtime -> Incarnation \cup {None}]
    /\ \A r \in Runtime : ag[r] # None =>
        \A q \in Runtime \ {r} : ag[q] # None => ag[q].session # ag[r].session
LiveReserved == \A r \in Runtime : agent[r] # None => agent[r].session \in reserved

\* A recorded call has an ID of its session that the session has used up, and
\* an answer that counts was recorded when it was in time.
CallGood(e, ag) ==
    /\ e.stage \in {"dispatch", "complete"}
    /\ e.outcome = "success" =>
        /\ e.stage = "complete" /\ e.when.turn = e.turn /\ e.when.phase = e.phase
        /\ e.request.op # "RECOVER"
    /\ \E n \in Nat :
        /\ e.invocation = NthCall(e.session, n)
        /\ \A r \in Runtime :
            ag[r] # None /\ ag[r].session = e.session => n < ag[r].count
    /\ IF e.phase = "interview" THEN IsConfidant(e.session) ELSE e.session \in Session
CallsGood(l, ag) == \A i \in Invocations(l) : CallGood(l[i], ag)

\* A call that is awaited has been dispatched and has not ended.
Awaited(c, call, l, ag) ==
    /\ \E records : call \in
            [session : {call.session}, invocation : {call.invocation}, turn : Nat,
             phase : Phase, attempt : Nat, retryOf : {call.retryOf}, shown : {records},
             head : {call.head}]
    /\ \E n \in Nat :
        /\ call.invocation = NthCall(call.session, n)
        /\ c # Confidant => n < ag[c].count
    /\ IF c = Confidant THEN call.phase = "interview" /\ IsConfidant(call.session)
       ELSE /\ ag[c] # None /\ call.session = ag[c].session /\ call.phase # "interview"
            /\ \A i \in Invocations(l) :
                l[i].invocation = call.invocation => l[i].stage = "dispatch"
CallsAwaited ==
    \A c \in Runtime \cup {Confidant} : calls[c] # None => Awaited(c, calls[c], log, agent)

\* The parts of InvokedOnce and AppliedOnce for a log.
Once(l) ==
    \A i, j \in Invocations(l) :
        /\ i < j /\ l[i].invocation = l[j].invocation /\ l[i].phase # "interview"
        => l[i].stage = "dispatch" /\ l[j].stage = "complete"
Changes(e) == e.before # e.after /\ e.invocation[1] = "call"
AnsweredBefore(l, k) ==
    \E i \in Invocations(l) :
        /\ i < k /\ l[i].invocation = l[k].invocation
        /\ l[i].outcome = "success" /\ l[i].request = l[k].request
        /\ l[i].turn = l[k].turn /\ l[i].session = l[k].session
        /\ l[i].when.turn = l[k].when.turn /\ l[i].when.phase = l[k].when.phase
Applied(l) ==
    \A k \in Operations(l) :
        /\ l[k].request.op \in {"READ", "RECOVER"} => l[k].before = l[k].after
        /\ Changes(l[k]) =>
            /\ AnsweredBefore(l, k)
            /\ \A j \in Operations(l) \ {k} :
                l[j].invocation = l[k].invocation => l[j].before = l[j].after

\* The memory operations of a log reduce, to memory that fits and whose newest
\* operation is the newest of the log.
Reduces(l) ==
    /\ Reduced(l).ok /\ Reduced(l).head = HeadEvent(l)
    /\ Reduced(SubSeq(l, 1, HeadEvent(l))) = Reduced(l)
    /\ Used(Reduced(l).records) <= Capacity
    /\ HeadEvent(l) # 0 => Reduced(l).owner \in Session

\* A store knows the log up to an operation.
Knows(st, session, l) ==
    LET s == Reduced(SubSeq(l, 1, st.head)) IN
    /\ st.owner = session
    /\ st.head \in 0..Len(l)
    /\ st.records = s.records /\ st.sequence = s.sequence
    /\ st.head = HeadEvent(l) /\ st.head # 0 => Reduced(l).owner = session
StoresKnow == \A r \in Live : Knows(store[r], agent[r].session, log)

LogGood(l, ag) ==
    /\ IsLog(l)
    /\ CallsGood(l, ag) /\ Once(l) /\ Applied(l)
    /\ Reduces(l)

IInv ==
    /\ Typed /\ Incarnations(agent) /\ LiveReserved
    /\ LogGood(log, agent) /\ CallsAwaited /\ StoresKnow

-----------------------------------------------------------------------------
(* The memory of a log that grows *)

LEMMA ModelReduces ==
    ASSUME NEW l, IsLog(l), Reduces(l), NEW e, e.kind = "model"
    PROVE  /\ Reduces(Append(l, e))
           /\ \A st, session : Knows(st, session, l) => Knows(st, session, Append(l, e))
<1> DEFINE m == Append(l, e)
<1>1. /\ Len(l) \in Nat /\ Len(m) = Len(l) + 1 /\ HeadEvent(m) = HeadEvent(l)
      /\ HeadEvent(l) \in 0..Len(l)
      /\ \A n \in 0..Len(l) : SubSeq(m, 1, n) = SubSeq(l, 1, n)
  BY LogLength, Appended, HeadEventAppended, HeadEventIs
<1>2. Reduced(m) = Reduced(l)
  <2>1. e.kind # "memory"
    OBVIOUS
  <2>2. QED
    BY <2>1, ReducedAppended
<1> HIDE DEF m
<1>3. Reduces(m)
  BY <1>1, <1>2 DEF Reduces
<1>4. ASSUME NEW st, NEW session, Knows(st, session, l) PROVE Knows(st, session, m)
  <2>1. PICK h : h = st.head
    OBVIOUS
  <2>2. h \in 0..Len(l) /\ h \in 0..Len(m) /\ SubSeq(m, 1, h) = SubSeq(l, 1, h)
    BY <1>1, <1>4, <2>1 DEF Knows
  <2>3. QED
    BY <1>1, <1>2, <1>4, <2>1, <2>2 DEF Knows
<1>5. QED
  BY <1>3, <1>4 DEF m

\* An operation that the reduction of the log accepts.
Proper(l, e) ==
    LET s == Reduced(l) IN
    /\ e.kind = "memory"
    /\ s.head # 0 => s.owner = e.session
    /\ e.parent = s.head /\ e.sequence = s.sequence /\ e.before = s.records
    /\ e.request.op # "RECOVER" /\ LastOf(l, e.invocation) # 0
         /\ (e.request.op = "READ" => l[LastOf(l, e.invocation)].phase = "memory_update")
       => Completes(l, e.invocation, e.session, e.turn, e.request, s.records)
    /\ Fits(s.records, e.request)
    /\ e.after = After(s.records, e.request, s.sequence) /\ Used(e.after) <= Capacity
    /\ IF e.request.op = "RECOVER" THEN e.next \notin s.sessions \cup {e.session}
                                   ELSE e.next = e.session
    /\ e.next \in Session

LEMMA MemoryReduces ==
    ASSUME NEW l, IsLog(l), Reduces(l), NEW e, Proper(l, e)
    PROVE  /\ Reduces(Append(l, e))
           /\ \A st, session : Knows(st, session, l) => Knows(st, session, Append(l, e))
           /\ \A st : st.sequence = Reduced(l).sequence =>
                  Knows(Wrote(st, e, l), e.next, Append(l, e))
<1> DEFINE m == Append(l, e)
           s == Reduced(l)
<1>1. /\ Len(l) \in Nat /\ Len(m) = Len(l) + 1 /\ HeadEvent(m) = Len(l) + 1
      /\ HeadEvent(l) \in 0..Len(l) /\ IsLog(m) /\ SubSeq(m, 1, Len(m)) = m
      /\ \A n \in 0..Len(l) : SubSeq(m, 1, n) = SubSeq(l, 1, n)
  BY LogLength, Appended, HeadEventAppended, HeadEventIs, SMTT(40) DEF Proper
<1>2. Reduced(m) = ReplayOperation(l, e, s)
  BY ReducedAppended DEF Proper
<1>3. /\ Reduced(m).records = e.after /\ Reduced(m).sequence = s.sequence + 1
      /\ Reduced(m).head = Len(l) + 1 /\ Reduced(m).owner = e.next
  BY <1>2 DEF ReplayOperation, Proper
<1>4. Reduced(m).ok
  <2>1. (IF s.head = 0 THEN e.session ELSE s.owner) = e.session
    BY DEF Proper
  <2>2. s.ok
    BY DEF Reduces
  <2> HIDE DEF s
  <2>3. QED
    BY <1>2, <2>1, <2>2 DEF ReplayOperation, Proper, s
<1> HIDE DEF m, s
<1>5. Reduces(m)
  BY <1>1, <1>3, <1>4 DEF Reduces, Proper
<1>6. ASSUME NEW st, NEW session, Knows(st, session, l) PROVE Knows(st, session, m)
  <2>1. PICK h : h = st.head
    OBVIOUS
  <2>2. /\ h \in 0..Len(l) /\ h \in 0..Len(m) /\ SubSeq(m, 1, h) = SubSeq(l, 1, h)
        /\ h # HeadEvent(m)
    BY <1>1, <1>6, <2>1 DEF Knows
  <2>3. QED
    BY <1>6, <2>1, <2>2 DEF Knows
<1>7. ASSUME NEW st, st.sequence = s.sequence PROVE Knows(Wrote(st, e, l), e.next, m)
  <2>1. PICK w : w = Wrote(st, e, l)
    OBVIOUS
  <2>2. /\ w.records = e.after /\ w.sequence = s.sequence + 1 /\ w.owner = e.next
        /\ w.head = Len(m)
    BY <1>1, <1>7, <2>1 DEF Wrote
  <2>3. Len(m) \in 0..Len(m)
    BY <1>1
  <2>4. QED
    BY <1>1, <1>3, <2>1, <2>2, <2>3 DEF Knows
<1>8. QED
  BY <1>5, <1>6, <1>7 DEF m, s

\* A store that knows the newest operation knows the memory.
LEMMA KnowsNewest ==
    ASSUME NEW l, IsLog(l), Reduces(l), NEW st, NEW session, Knows(st, session, l),
           st.head = HeadEvent(l)
    PROVE  /\ st.records = Reduced(l).records /\ st.sequence = Reduced(l).sequence
           /\ st.head = Reduced(l).head /\ st.owner = session
           /\ Reduced(l).head # 0 => Reduced(l).owner = session
  BY DEF Knows, Reduces

LEMMA RestoredKnows ==
    ASSUME NEW l, IsLog(l), Reduces(l), NEW session,
           Reduced(l).head # 0 => Reduced(l).owner = session
    PROVE  /\ Knows(Restored(session, l), session, l)
           /\ Restored(session, l).head = HeadEvent(l)
  BY HeadEventIs DEF Restored, Knows, Reduces

LEMMA OperationProper ==
    ASSUME IsLog(log), Reduces(log), NEW st, NEW session, Knows(st, session, log),
           st.head = HeadEvent(log), NEW q, NEW next \in Session, NEW id,
           Fits(st.records, q), Used(After(st.records, q, st.sequence)) <= Capacity,
           \/ q.op = "RECOVER"
           \/ LastOf(log, id) = 0
           \/ Completes(log, id, session, clock.turn, q, st.records),
           IF q.op = "RECOVER" THEN next \notin Reduced(log).sessions \cup {session}
                               ELSE next = session
    PROVE  /\ Proper(log, Operation(st, q, session, next, id))
           /\ st.sequence = Reduced(log).sequence
<1> DEFINE e == Operation(st, q, session, next, id)
<1>1. /\ e.kind = "memory" /\ e.request = q /\ e.session = session /\ e.next = next
      /\ e.invocation = id /\ e.turn = clock.turn /\ e.before = st.records
      /\ e.after = After(st.records, q, st.sequence) /\ e.sequence = st.sequence
      /\ e.parent = st.head
  BY DEF Operation
<1> HIDE DEF e
<1>2. QED
  BY <1>1, KnowsNewest DEF Proper, e

-----------------------------------------------------------------------------
(* Sessions *)

LEMMA SessionsFinite == ASSUME NEW l, IsLog(l) PROVE IsFiniteSet(Sessions(l))
<1> DEFINE f == [i \in 1..Len(l) |-> l[i].session]
<1>1. Len(l) \in Nat /\ DOMAIN l = 1..Len(l)
  BY LogLength
<1>2. f \in Surjection(1..Len(l), Sessions(l))
  BY <1>1 DEF Surjection, Sessions
<1>3. IsFiniteSet(1..Len(l))
  BY <1>1, FS_Interval
<1>4. QED
  BY <1>2, <1>3, FS_Surjection

\* A session that is reserved is new: among one number more than sessions have
\* been used there is one that has not.
LEMMA FreshIsFresh ==
    ASSUME IsLog(log), IsFiniteSet(reserved)
    PROVE  /\ FreshSession \in Session
           /\ FreshSession \notin reserved /\ FreshSession \notin Sessions(log)
<1>1. PICK used : used = reserved \cup Sessions(log)
  OBVIOUS
<1>2. IsFiniteSet(used)
  BY <1>1, SessionsFinite, FS_Union
<1>3. PICK n \in Nat : n = Cardinality(used)
  BY <1>2, FS_CardinalityType
<1>4. PICK free : free = {k \in n..(2 * n) : <<"session", k>> \notin used}
  OBVIOUS
<1>5. free # {}
  <2>1. SUFFICES ASSUME \A k \in n..(2 * n) : <<"session", k>> \in used PROVE FALSE
    BY <1>4
  <2> DEFINE f == [k \in n..(2 * n) |-> <<"session", k>>]
  <2>2. f \in [n..(2 * n) -> used]
    BY <2>1
  <2>3. \A j, k \in n..(2 * n) : f[j] = f[k] => j = k
    OBVIOUS
  <2>4. IsFiniteSet(n..(2 * n)) /\ Cardinality(n..(2 * n)) = n + 1
    <3>1. PICK b \in Nat : b = 2 * n
      OBVIOUS
    <3>2. n <= b /\ b - n + 1 = n + 1 /\ n \in Int /\ b \in Int
      BY <3>1
    <3>3. IsFiniteSet(n..b) /\ Cardinality(n..b) = n + 1
      <4>1. /\ IsFiniteSet(n..b)
            /\ Cardinality(n..b) = IF n > b THEN 0 ELSE b - n + 1
        BY <3>2, FS_Interval
      <4>2. ~(n > b)
        BY <3>2
      <4>3. QED
        BY <3>2, <4>1, <4>2
    <3>4. QED
      BY <3>1, <3>3
  <2> HIDE DEF f
  <2>5. Cardinality(used) < Cardinality(n..(2 * n))
    BY <1>3, <2>4
  <2>6. \E j, k \in n..(2 * n) : j # k /\ f[j] = f[k]
    BY <1>2, <2>2, <2>4, <2>5, FS_PigeonHole
  <2>7. QED
    BY <2>3, <2>6
<1>6. Min(free) \in free
  <2>1. free \in SUBSET Nat
    BY <1>4
  <2>2. QED
    BY <1>5, <2>1, MinIsLeast
<1>7. FreshSession = <<"session", Min(free)>>
  BY <1>1, <1>3, <1>4 DEF FreshSession
<1>8. QED
  BY <1>1, <1>3, <1>4, <1>6, <1>7 DEF Session

-----------------------------------------------------------------------------
(* The calls of a log that grows *)

LEMMA MemoryCalls ==
    ASSUME NEW l, IsLog(l), NEW e, e.kind = "memory"
    PROVE  LET m == Append(l, e)
           IN  /\ Invocations(m) = Invocations(l)
               /\ \A i \in Invocations(m) : m[i] = l[i]
               /\ \A ag : CallsGood(l, ag) => CallsGood(m, ag)
               /\ Once(l) => Once(m)
               /\ \A c, call, ag : Awaited(c, call, l, ag) => Awaited(c, call, m, ag)
<1> DEFINE m == Append(l, e)
<1>1. Invocations(m) = Invocations(l)
  BY KindsAppended
<1>2. \A i \in Invocations(m) : m[i] = l[i]
  BY <1>1, LogLength, Appended
<1> HIDE DEF m
<1>3. ASSUME NEW ag, CallsGood(l, ag) PROVE CallsGood(m, ag)
  BY <1>1, <1>2, <1>3 DEF CallsGood
<1>4. Once(l) => Once(m)
  BY <1>1, <1>2 DEF Once
<1>5. ASSUME NEW c, NEW call, NEW ag, Awaited(c, call, l, ag) PROVE Awaited(c, call, m, ag)
  BY <1>1, <1>2, <1>5 DEF Awaited
<1>6. QED
  BY <1>1, <1>2, <1>3, <1>4, <1>5 DEF m

LEMMA ModelCalls ==
    ASSUME NEW l, IsLog(l), NEW e, e.kind = "model", NEW ag, CallGood(e, ag),
           CallsGood(l, ag), Once(l), Applied(l),
           \A i \in Invocations(l) :
               l[i].invocation = e.invocation /\ l[i].phase # "interview"
               => l[i].stage = "dispatch" /\ e.stage = "complete"
    PROVE  LET m == Append(l, e)
           IN  /\ CallsGood(m, ag) /\ Once(m) /\ Applied(m)
               /\ \A c, call, other :
                      /\ Awaited(c, call, l, other)
                      /\ e.invocation # call.invocation \/ e.stage = "dispatch"
                      => Awaited(c, call, m, other)
<1> DEFINE m == Append(l, e)
<1>1. /\ Invocations(m) = Invocations(l) \cup {Len(l) + 1} /\ Operations(m) = Operations(l)
      /\ Len(l) \in Nat /\ m[Len(l) + 1] = e
  BY KindsAppended, LogLength, Appended
<1>2. \A i \in 1..Len(l) : m[i] = l[i] /\ i < Len(l) + 1
  BY <1>1, Appended
<1>3. Invocations(l) \subseteq 1..Len(l) /\ Operations(l) \subseteq 1..Len(l)
  BY LogLength
<1> HIDE DEF m
<1>4. CallsGood(m, ag)
  BY <1>1, <1>2, <1>3 DEF CallsGood
<1>5. Once(m)
  <2>1. SUFFICES ASSUME NEW i \in Invocations(m), NEW j \in Invocations(m), i < j,
                        m[i].invocation = m[j].invocation, m[i].phase # "interview"
                 PROVE  m[i].stage = "dispatch" /\ m[j].stage = "complete"
    BY DEF Once
  <2>2. i \in Invocations(l) /\ m[i] = l[i]
    BY <1>1, <1>2, <1>3, <2>1
  <2>3. CASE j \in Invocations(l)
    BY <1>2, <1>3, <2>1, <2>2, <2>3 DEF Once
  <2>4. CASE j = Len(l) + 1
    BY <1>1, <2>1, <2>2, <2>4
  <2>5. QED
    BY <1>1, <2>3, <2>4
<1>6. Applied(m)
  <2>1. \A k \in Operations(l) : AnsweredBefore(l, k) => AnsweredBefore(m, k)
    BY <1>1, <1>2, <1>3 DEF AnsweredBefore
  <2>2. \A k \in Operations(l) : m[k] = l[k]
    BY <1>2, <1>3
  <2>3. QED
    BY <1>1, <2>1, <2>2 DEF Applied
<1>7. ASSUME NEW c, NEW call, NEW other, Awaited(c, call, l, other),
             e.invocation # call.invocation \/ e.stage = "dispatch"
      PROVE  Awaited(c, call, m, other)
  BY <1>1, <1>2, <1>3, <1>7 DEF Awaited
<1>8. QED
  BY <1>4, <1>5, <1>6, <1>7 DEF m

\* An operation that changes nothing, or is no answer's, is no answer applied.
LEMMA QuietApplied ==
    ASSUME NEW l, IsLog(l), NEW e, e.kind = "memory", Applied(l),
           e.before = e.after \/ e.invocation[1] # "call",
           e.request.op \in {"READ", "RECOVER"} => e.before = e.after
    PROVE  Applied(Append(l, e))
<1>0. PICK m : m = Append(l, e)
  OBVIOUS
<1>1. /\ Operations(m) = Operations(l) \cup {Len(l) + 1} /\ Invocations(m) = Invocations(l)
      /\ m[Len(l) + 1] = e /\ Len(l) \in Nat
  BY <1>0, KindsAppended, LogLength, Appended
<1>2. /\ \A i \in 1..Len(l) : m[i] = l[i]
      /\ Operations(l) \subseteq 1..Len(l) /\ Invocations(l) \subseteq 1..Len(l)
  BY <1>0, Appended, LogLength
<1>3. \A k \in Operations(l) : AnsweredBefore(l, k) => AnsweredBefore(m, k)
  BY <1>1, <1>2 DEF AnsweredBefore
<1>4. ~Changes(e)
  BY DEF Changes
<1>5. \A k \in Operations(l) : Changes(l[k]) /\ e.invocation = l[k].invocation => e.before = e.after
  BY DEF Changes
<1>6. Applied(m)
  <2>1. SUFFICES ASSUME NEW k \in Operations(m)
                 PROVE  /\ m[k].request.op \in {"READ", "RECOVER"} => m[k].before = m[k].after
                        /\ Changes(m[k]) =>
                             /\ AnsweredBefore(m, k)
                             /\ \A j \in Operations(m) \ {k} :
                                 m[j].invocation = m[k].invocation => m[j].before = m[j].after
    BY DEF Applied
  <2>2. CASE k = Len(l) + 1
    BY <1>1, <1>4, <2>2
  <2>3. CASE k \in Operations(l)
    <3>1. m[k] = l[k]
      BY <1>2, <2>3
    <3>2. \A j \in Operations(m) : (j \in Operations(l) /\ m[j] = l[j]) \/ m[j] = e
      BY <1>1, <1>2
    <3>3. QED
      BY <1>3, <1>5, <2>3, <3>1, <3>2 DEF Applied
  <2>4. QED
    BY <1>1, <2>2, <2>3
<1>7. QED
  BY <1>0, <1>6

\* An answer that completes is applied for the first time.
LEMMA AnswerApplied ==
    ASSUME IsLog(log), CallsGood(log, agent), Once(log), Applied(log),
           NEW i \in Answered, NEW st, NEW session \in Session,
           clock.phase = "memory_update",
           Completes(log, log[i].invocation, session, clock.turn, log[i].request, st.records)
    PROVE  Applied(Append(log, Operation(st, log[i].request, session, session, log[i].invocation)))
<1>1. PICK e : e = Operation(st, log[i].request, session, session, log[i].invocation)
  OBVIOUS
<1>2. /\ e.kind = "memory" /\ e.request = log[i].request /\ e.session = session
      /\ e.invocation = log[i].invocation /\ e.turn = clock.turn /\ e.before = st.records
      /\ e.after = After(st.records, e.request, st.sequence) /\ e.when = clock
  BY <1>1 DEF Operation
<1>3. PICK m : m = Append(log, e)
  OBVIOUS
<1>4. /\ Operations(m) = Operations(log) \cup {Len(log) + 1}
      /\ Invocations(m) = Invocations(log)
      /\ m[Len(log) + 1] = e /\ Len(log) \in Nat
  BY <1>2, <1>3, KindsAppended, LogLength, Appended
<1>5. /\ \A k \in 1..Len(log) : m[k] = log[k]
      /\ Operations(log) \subseteq 1..Len(log) /\ Invocations(log) \subseteq 1..Len(log)
      /\ Operations(log) \cap Invocations(log) = {}
  BY <1>3, Appended, LogLength
<1>6. /\ i \in Invocations(log) /\ log[i].outcome = "success"
      /\ log[i].phase = "memory_update" /\ log[i].stage = "complete"
      /\ log[i].when.turn = log[i].turn /\ log[i].when.phase = "memory_update"
  BY DEF Answered, CallsGood, CallGood
<1>7. i = LastOf(log, log[i].invocation)
  <2>1. PICK source : source = LastOf(log, log[i].invocation)
    OBVIOUS
  <2>2. source \in Invocations(log) /\ log[source].invocation = log[i].invocation /\ i <= source
    BY <1>6, <2>1, LastOfIs
  <2>3. ~(i < source)
    BY <1>6, <2>2 DEF Once
  <2>4. i = source
    BY <1>5, <1>6, <2>2, <2>3
  <2>5. QED
    BY <2>1, <2>4
<1>8. /\ log[i].turn = clock.turn /\ log[i].session = session
      /\ \A k \in Operations(log) :
             k > i /\ log[k].invocation = log[i].invocation => log[k].request.op = "RECOVER"
  BY <1>7 DEF Completes
<1>9. AnsweredBefore(m, Len(log) + 1)
  BY <1>2, <1>4, <1>5, <1>6, <1>8 DEF AnsweredBefore
<1>10. \A k \in Operations(log) : log[k].invocation = e.invocation => ~Changes(log[k])
  <2>1. SUFFICES ASSUME NEW k \in Operations(log), log[k].invocation = e.invocation,
                        Changes(log[k])
                 PROVE  FALSE
    OBVIOUS
  <2>2. PICK j \in Invocations(log) :
            /\ j < k /\ log[j].invocation = log[i].invocation /\ log[j].outcome = "success"
    BY <1>2, <2>1 DEF Applied, AnsweredBefore
  <2>3. ~(k > i)
    BY <1>8, <1>2, <2>1 DEF Applied, Changes
  <2>4. j < i
    BY <1>5, <1>6, <2>2, <2>3
  <2>5. log[j].session = session
    <3>1. \E n \in Nat : log[j].invocation = NthCall(log[j].session, n)
      BY DEF CallsGood, CallGood
    <3>2. \E n \in Nat : log[i].invocation = NthCall(log[i].session, n)
      BY <1>6 DEF CallsGood, CallGood
    <3>3. log[j].invocation[2] = log[j].session /\ log[i].invocation[2] = log[i].session
      BY <3>1, <3>2 DEF NthCall
    <3>4. QED
      BY <1>8, <2>2, <3>3
  <2>6. log[j].phase # "interview"
    BY <2>5 DEF CallsGood, CallGood, Session, IsConfidant
  <2>7. log[j].stage = "dispatch" /\ log[j].stage = "complete"
    BY <1>6, <2>2, <2>4, <2>6 DEF Once, CallsGood, CallGood
  <2>8. QED
    BY <2>7
<1>11. e.invocation[1] = "call"
  BY <1>2, <1>6 DEF CallsGood, CallGood, NthCall
<1>12. e.request.op \in {"READ", "RECOVER"} => e.before = e.after
  BY <1>2 DEF After
<1>13. Applied(m)
  <2>1. SUFFICES ASSUME NEW k \in Operations(m)
                 PROVE  /\ m[k].request.op \in {"READ", "RECOVER"} => m[k].before = m[k].after
                        /\ Changes(m[k]) =>
                             /\ AnsweredBefore(m, k)
                             /\ \A j \in Operations(m) \ {k} :
                                 m[j].invocation = m[k].invocation => m[j].before = m[j].after
    BY DEF Applied
  <2>2. \A j \in Operations(m) : \/ j = Len(log) + 1 /\ m[j] = e
                                 \/ j \in Operations(log) /\ m[j] = log[j]
    BY <1>4, <1>5
  <2>3. CASE k = Len(log) + 1
    BY <1>4, <1>9, <1>10, <1>11, <1>12, <2>2, <2>3 DEF Changes
  <2>4. CASE k \in Operations(log)
    <3>1. m[k] = log[k] /\ (AnsweredBefore(log, k) => AnsweredBefore(m, k))
      BY <1>4, <1>5, <2>4 DEF AnsweredBefore
    <3>2. QED
      BY <1>10, <2>2, <2>4, <3>1 DEF Applied
  <2>5. QED
    BY <1>4, <2>3, <2>4
<1>14. QED
  BY <1>1, <1>3, <1>13

-----------------------------------------------------------------------------
(* What a step adds to the log *)

LEMMA RecordedIs ==
    ASSUME NEW call, NEW stage, NEW outcome, NEW q
    PROVE  LET e == Recorded(call, stage, outcome, q)
           IN  /\ e.kind = "model" /\ e.session = call.session
               /\ e.invocation = call.invocation /\ e.turn = call.turn
               /\ e.phase = call.phase /\ e.stage = stage /\ e.outcome = outcome
               /\ e.request = q /\ e.when = clock
  BY DEF Recorded

LEMMA NotConfidant == \A s \in Session : ~IsConfidant(s)
  BY DEF Session, IsConfidant

LEMMA NthCallIs == \A s, t, m, n : NthCall(s, m) = NthCall(t, n) => s = t /\ m = n
  BY DEF NthCall

LEMMA RecordedGood ==
    ASSUME NEW l, NEW ag, Incarnations(ag), NEW c \in Runtime \cup {Confidant}, NEW call,
           Awaited(c, call, l, ag), NEW stage \in {"dispatch", "complete"}, NEW outcome, NEW q,
           outcome = "success" => stage = "complete" /\ Timely(call) /\ q.op # "RECOVER"
    PROVE  CallGood(Recorded(call, stage, outcome, q), ag)
<1>1. PICK e : e = Recorded(call, stage, outcome, q)
  OBVIOUS
<1>2. /\ e.session = call.session /\ e.invocation = call.invocation /\ e.turn = call.turn
      /\ e.phase = call.phase /\ e.stage = stage /\ e.outcome = outcome /\ e.when = clock
      /\ e.request = q
  BY <1>1, RecordedIs
<1>3. IF call.phase = "interview" THEN IsConfidant(call.session) ELSE call.session \in Session
  BY MemorySentinels DEF Awaited, Incarnations, Incarnation
<1>4. \E n \in Nat :
          /\ call.invocation = NthCall(call.session, n)
          /\ \A r \in Runtime : ag[r] # None /\ ag[r].session = call.session => n < ag[r].count
  <2>1. PICK n \in Nat : call.invocation = NthCall(call.session, n)
                         /\ (c # Confidant => n < ag[c].count)
    BY DEF Awaited
  <2>2. ASSUME NEW r \in Runtime, ag[r] # None, ag[r].session = call.session
        PROVE  n < ag[r].count
    <3>1. ~IsConfidant(call.session)
      BY <2>2, NotConfidant DEF Incarnations, Incarnation
    <3>2. c # Confidant /\ ag[c] # None /\ ag[c].session = call.session
      BY <3>1 DEF Awaited
    <3>3. r = c
      BY <2>2, <3>2 DEF Incarnations
    <3>4. QED
      BY <2>1, <3>2, <3>3
  <2>3. QED
    BY <2>1, <2>2
<1>5. outcome = "success" => e.when.turn = e.turn /\ e.when.phase = e.phase
  BY <1>2 DEF Timely
<1>6. QED
  BY <1>1, <1>2, <1>3, <1>4, <1>5 DEF CallGood

\* A call is dispatched under an ID that is not in the log.
LEMMA Dispatches ==
    ASSUME NEW l, NEW ag, LogGood(l, ag), Incarnations(ag),
           NEW c \in Runtime \cup {Confidant}, NEW call, Awaited(c, call, l, ag),
           \A i \in Invocations(l) :
               l[i].invocation = call.invocation => l[i].phase = "interview"
    PROVE  LET m == Append(l, Dispatched(call))
           IN  /\ LogGood(m, ag)
               /\ \A st, session : Knows(st, session, l) => Knows(st, session, m)
               /\ \A d, other, ah : Awaited(d, other, l, ah) => Awaited(d, other, m, ah)
<1>1. PICK e : e = Dispatched(call)
  OBVIOUS
<1>2. /\ e.kind = "model" /\ e.stage = "dispatch" /\ e.invocation = call.invocation
  BY <1>1, RecordedIs DEF Dispatched
<1>3. CallGood(e, ag)
  BY <1>1, RecordedGood DEF Dispatched
<1>4. PICK m : m = Append(l, e)
  OBVIOUS
<1>5. /\ CallsGood(m, ag) /\ Once(m) /\ Applied(m)
      /\ \A d, other, ah : Awaited(d, other, l, ah) => Awaited(d, other, m, ah)
  BY <1>2, <1>3, <1>4, ModelCalls DEF LogGood
<1>6. IsLog(m) /\ Reduces(m) /\ \A st, session : Knows(st, session, l) => Knows(st, session, m)
  BY <1>2, <1>4, Appended, ModelReduces DEF LogGood
<1>7. QED
  BY <1>1, <1>4, <1>5, <1>6 DEF LogGood

\* A call that is awaited ends.
LEMMA EndsCall ==
    ASSUME NEW l, NEW ag, LogGood(l, ag), Incarnations(ag),
           NEW c \in Runtime \cup {Confidant}, NEW call, Awaited(c, call, l, ag),
           NEW outcome, NEW q, outcome = "success" => Timely(call) /\ q.op # "RECOVER"
    PROVE  LET m == Append(l, Recorded(call, "complete", outcome, q))
           IN  /\ LogGood(m, ag)
               /\ \A st, session : Knows(st, session, l) => Knows(st, session, m)
               /\ \A d \in (Runtime \cup {Confidant}) \ {c} :
                      \A other : Awaited(d, other, l, ag) => Awaited(d, other, m, ag)
<1>1. PICK e : e = Recorded(call, "complete", outcome, q)
  OBVIOUS
<1>2. /\ e.kind = "model" /\ e.stage = "complete" /\ e.invocation = call.invocation
  BY <1>1, RecordedIs
<1>3. CallGood(e, ag)
  BY <1>1, RecordedGood
<1>4. PICK m : m = Append(l, e)
  OBVIOUS
<1>5. PICK n \in Nat : call.invocation = NthCall(call.session, n)
  BY DEF Awaited
<1>6. \A i \in Invocations(l) :
          l[i].invocation = e.invocation /\ l[i].phase # "interview" => l[i].stage = "dispatch"
  <2>1. SUFFICES ASSUME NEW i \in Invocations(l), l[i].invocation = call.invocation,
                        l[i].phase # "interview"
                 PROVE  l[i].stage = "dispatch"
    BY <1>2
  <2>2. l[i].session \in Session /\ \E k \in Nat : l[i].invocation = NthCall(l[i].session, k)
    BY <2>1 DEF LogGood, CallsGood, CallGood
  <2>3. call.session \in Session
    <3>1. PICK k \in Nat : l[i].invocation = NthCall(l[i].session, k)
      BY <2>2
    <3>2. NthCall(l[i].session, k) = NthCall(call.session, n)
      BY <1>5, <2>1, <3>1
    <3>3. QED
      BY <2>2, <3>2, NthCallIs
  <2>4. c # Confidant
    BY <2>3, NotConfidant DEF Awaited
  <2>5. QED
    BY <2>1, <2>4 DEF Awaited
<1>7. /\ CallsGood(m, ag) /\ Once(m) /\ Applied(m)
      /\ \A d, other, ah : Awaited(d, other, l, ah) /\ e.invocation # other.invocation
             => Awaited(d, other, m, ah)
  BY <1>2, <1>3, <1>4, <1>6, ModelCalls DEF LogGood
<1>8. IsLog(m) /\ Reduces(m) /\ \A st, session : Knows(st, session, l) => Knows(st, session, m)
  BY <1>2, <1>4, Appended, ModelReduces DEF LogGood
<1>9. ASSUME NEW d \in (Runtime \cup {Confidant}) \ {c}, NEW other, Awaited(d, other, l, ag)
      PROVE  e.invocation # other.invocation
  <2>1. PICK k \in Nat : other.invocation = NthCall(other.session, k)
    BY <1>9 DEF Awaited
  <2>2. other.session # call.session
    <3>1. CASE c = Confidant
      BY <1>9, <3>1, NotConfidant DEF Awaited, Incarnations, Incarnation
    <3>2. CASE d = Confidant
      BY <1>9, <3>2, NotConfidant DEF Awaited, Incarnations, Incarnation
    <3>3. CASE c # Confidant /\ d # Confidant
      BY <1>9, <3>3 DEF Awaited, Incarnations
    <3>4. QED
      BY <3>1, <3>2, <3>3
  <2>3. QED
    BY <1>2, <1>5, <2>1, <2>2, NthCallIs
<1>10. QED
  BY <1>1, <1>4, <1>7, <1>8, <1>9 DEF LogGood

\* An operation is written.
LEMMA Writes ==
    ASSUME NEW l, NEW ag, LogGood(l, ag), NEW e, Proper(l, e), Applied(Append(l, e))
    PROVE  LET m == Append(l, e)
           IN  /\ LogGood(m, ag)
               /\ \A st, session : Knows(st, session, l) => Knows(st, session, m)
               /\ \A st : st.sequence = Reduced(l).sequence => Knows(Wrote(st, e, l), e.next, m)
               /\ \A d, other, ah : Awaited(d, other, l, ah) => Awaited(d, other, m, ah)
<1>1. PICK m : m = Append(l, e)
  OBVIOUS
<1>2. e.kind = "memory" /\ IsLog(l) /\ Reduces(l)
  BY DEF Proper, LogGood
<1>3. /\ CallsGood(m, ag) /\ Once(m)
      /\ \A d, other, ah : Awaited(d, other, l, ah) => Awaited(d, other, m, ah)
  BY <1>1, <1>2, MemoryCalls DEF LogGood
<1>4. /\ IsLog(m) /\ Reduces(m)
      /\ \A st, session : Knows(st, session, l) => Knows(st, session, m)
      /\ \A st : st.sequence = Reduced(l).sequence => Knows(Wrote(st, e, l), e.next, m)
  BY <1>1, <1>2, Appended, MemoryReduces
<1>5. QED
  BY <1>1, <1>3, <1>4 DEF LogGood

\* Incarnations come with new sessions, and use up their invocation IDs.
Grown(l, ag, ah) ==
    \A r \in Runtime : ah[r] # None =>
        \/ ag[r] # None /\ ah[r].session = ag[r].session /\ ag[r].count <= ah[r].count
        \/ ah[r].session \notin Sessions(l)

LEMMA LogGrown ==
    ASSUME NEW l, NEW ag, NEW ah, LogGood(l, ag), Incarnations(ag), Incarnations(ah),
           Grown(l, ag, ah)
    PROVE  LogGood(l, ah)
<1> SUFFICES ASSUME NEW i \in Invocations(l) PROVE CallGood(l[i], ah)
  BY DEF LogGood, CallsGood
<1>1. CallGood(l[i], ag)
  BY DEF LogGood, CallsGood
<1>2. l[i].session \in Sessions(l)
  BY DEF Sessions, Invocations
<1>3. PICK n \in Nat :
          /\ l[i].invocation = NthCall(l[i].session, n)
          /\ \A r \in Runtime : ag[r] # None /\ ag[r].session = l[i].session => n < ag[r].count
  BY <1>1 DEF CallGood
<1>4. ASSUME NEW r \in Runtime, ah[r] # None, ah[r].session = l[i].session
      PROVE  n < ah[r].count
  <2>1. ag[r] # None /\ ag[r].session = l[i].session /\ ag[r].count <= ah[r].count
    BY <1>2, <1>4 DEF Grown
  <2>2. n < ag[r].count /\ ag[r].count \in Nat /\ ah[r].count \in Nat
    BY <1>3, <1>4, <2>1 DEF Incarnations, Incarnation
  <2>3. QED
    BY <2>1, <2>2
<1>5. QED
  BY <1>1, <1>3, <1>4 DEF CallGood

LEMMA AwaitedGrown ==
    ASSUME NEW l, NEW ag, NEW ah, NEW c \in Runtime \cup {Confidant}, NEW call,
           Awaited(c, call, l, ag), Incarnations(ag), Incarnations(ah),
           c # Confidant =>
               /\ ah[c] # None /\ ah[c].session = ag[c].session /\ ag[c].count <= ah[c].count
    PROVE  Awaited(c, call, l, ah)
<1>1. PICK n \in Nat : /\ call.invocation = NthCall(call.session, n)
                       /\ c # Confidant => n < ag[c].count
  BY DEF Awaited
<1>2. c # Confidant => n < ah[c].count
  <2>1. SUFFICES ASSUME c # Confidant PROVE n < ah[c].count
    OBVIOUS
  <2>2. ag[c] # None /\ ag[c].count \in Nat /\ ah[c].count \in Nat
    BY <2>1 DEF Awaited, Incarnations, Incarnation
  <2>3. QED
    BY <1>1, <2>1, <2>2
<1>3. QED
  BY <1>1, <1>2 DEF Awaited

\* The next invocation ID of an incarnation is not in the log.
LEMMA Unused ==
    ASSUME NEW l, NEW ag, LogGood(l, ag), NEW r \in Runtime, ag[r] # None, Incarnations(ag)
    PROVE  /\ \A i \in Invocations(l) : l[i].invocation # NthCall(ag[r].session, ag[r].count)
           /\ LastOf(l, NthCall(ag[r].session, ag[r].count)) = 0
<1>1. ASSUME NEW i \in Invocations(l) PROVE l[i].invocation # NthCall(ag[r].session, ag[r].count)
  <2>1. PICK n \in Nat :
            /\ l[i].invocation = NthCall(l[i].session, n)
            /\ ag[r].session = l[i].session => n < ag[r].count
    BY DEF LogGood, CallsGood, CallGood
  <2>2. ag[r].count \in Nat
    BY DEF Incarnations, Incarnation
  <2>3. QED
    BY <2>1, <2>2, NthCallIs
<1>2. QED
  BY <1>1, LastOfIs DEF LogGood

-----------------------------------------------------------------------------
(* Calls *)

LEMMA Updated ==
    ASSUME NEW f, NEW D, NEW S, f \in [D -> S], NEW d \in D, NEW x
    PROVE  /\ [f EXCEPT ![d] = x] \in [D -> S \cup {x}]
           /\ [f EXCEPT ![d] = x][d] = x
           /\ \A c \in D \ {d} : [f EXCEPT ![d] = x][c] = f[c]
  OBVIOUS

LEMMA LiveTyped ==
    ASSUME NEW ag, Incarnations(ag), NEW r \in Runtime, ag[r] # None
    PROVE  /\ ag[r].session \in Session /\ ag[r].count \in Nat
           /\ ag[r] = [session |-> ag[r].session, count |-> ag[r].count]
  BY DEF Incarnations, Incarnation

\* The parts of the invariant that a step of a call touches.
LEMMA CallsChanged ==
    ASSUME IInv, NEW c \in Runtime \cup {Confidant}, NEW x, NEW l, NEW ag,
           calls' = [calls EXCEPT ![c] = x] \/ (calls' = calls /\ x = calls[c]),
           log' = l, agent' = ag, LogGood(l, ag), Incarnations(ag),
           \A r \in Runtime : ag[r] # None => ag[r].session \in reserved,
           x # None => Awaited(c, x, l, ag),
           \A d \in (Runtime \cup {Confidant}) \ {c} :
               calls[d] # None => Awaited(d, calls[d], l, ag),
           reserved' = reserved,
           clock' \in [turn : Nat, phase : Phase, expired : BOOLEAN, lives : BOOLEAN],
           \E S : store' \in [Runtime -> S], StoresKnow'
    PROVE  IInv'
<1>1. PICK S : calls \in [Runtime \cup {Confidant} -> S]
  BY DEF IInv, Typed
<1>2. /\ calls' \in [Runtime \cup {Confidant} -> S \cup {x}]
      /\ calls'[c] = x /\ \A d \in (Runtime \cup {Confidant}) \ {c} : calls'[d] = calls[d]
  <2>1. CASE calls' = [calls EXCEPT ![c] = x]
    BY <1>1, <2>1, Updated
  <2>2. CASE calls' = calls /\ x = calls[c]
    BY <1>1, <2>2
  <2>3. QED
    BY <2>1, <2>2
<1>3. Typed'
  BY <1>2 DEF IInv, Typed
<1>4. CallsAwaited'
  <2>1. SUFFICES ASSUME NEW d \in Runtime \cup {Confidant}, calls'[d] # None
                 PROVE  Awaited(d, calls'[d], l, ag)
    BY DEF CallsAwaited
  <2>2. CASE d = c
    BY <1>2, <2>1, <2>2
  <2>3. CASE d # c
    BY <1>2, <2>1, <2>3
  <2>4. QED
    BY <2>2, <2>3
<1>5. QED
  BY <1>3, <1>4 DEF IInv, LiveReserved

LEMMA StoresStay ==
    ASSUME IInv, UNCHANGED <<store, agent>>,
           \A st, session : Knows(st, session, log) => Knows(st, session, log')
    PROVE  StoresKnow' /\ \E S : store' \in [Runtime -> S]
  BY DEF IInv, StoresKnow, Live, Typed

LEMMA EndedStep ==
    ASSUME IInv, NEW c \in Runtime \cup {Confidant}, calls[c] # None,
           NEW outcome, NEW q, outcome = "success" => Timely(calls[c]) /\ q.op # "RECOVER",
           Ended(c, Recorded(calls[c], "complete", outcome, q))
    PROVE  IInv'
<1>1. PICK l : l = Append(log, Recorded(calls[c], "complete", outcome, q))
  OBVIOUS
<1>2. /\ log' = l /\ calls' = [calls EXCEPT ![c] = None]
      /\ UNCHANGED <<agent, store, reserved, clock>>
  BY <1>1 DEF Ended
<1>3. Awaited(c, calls[c], log, agent)
  BY DEF IInv, CallsAwaited
<1>4. /\ LogGood(l, agent)
      /\ \A st, session : Knows(st, session, log) => Knows(st, session, l)
      /\ \A d \in (Runtime \cup {Confidant}) \ {c} :
             \A other : Awaited(d, other, log, agent) => Awaited(d, other, l, agent)
  BY <1>1, <1>3, EndsCall DEF IInv
<1>5. StoresKnow' /\ \E S : store' \in [Runtime -> S]
  BY <1>2, <1>4, StoresStay
<1>6. \A d \in (Runtime \cup {Confidant}) \ {c} :
          calls[d] # None => Awaited(d, calls[d], l, agent)
  BY <1>4 DEF IInv, CallsAwaited
<1>7. QED
  BY <1>2, <1>4, <1>5, <1>6, CallsChanged DEF IInv, LiveReserved, Typed

LEMMA SucceedStep ==
    ASSUME IInv, NEW c \in Runtime \cup {Confidant}, Succeed(c) PROVE IInv'
<1>1. PICK q \in Answers(calls[c]) :
          /\ calls[c] # None /\ Timely(calls[c])
          /\ Ended(c, Recorded(calls[c], "complete", "success", q))
  BY DEF Succeed
<1>2. q.op # "RECOVER"
  BY DEF Answers, Requests, Read, Bare
<1>3. QED
  BY <1>1, <1>2, EndedStep

LEMMA FailStep ==
    ASSUME IInv, NEW c \in Runtime \cup {Confidant}, Fail(c) PROVE IInv'
<1>1. calls[c] # None /\ Ended(c, Recorded(calls[c], "complete", "failed", None))
  BY DEF Fail
<1>2. "failed" # "success"
  OBVIOUS
<1>3. QED
  BY <1>1, <1>2, EndedStep

\* The IDs of the confidant's calls are those of interviews.
LEMMA ConfidantsOwn ==
    ASSUME NEW l, NEW ag, LogGood(l, ag), NEW call, Awaited(Confidant, call, l, ag)
    PROVE  \A i \in Invocations(l) :
               l[i].invocation = call.invocation => l[i].phase = "interview"
<1>1. SUFFICES ASSUME NEW i \in Invocations(l), l[i].invocation = call.invocation,
                      l[i].phase # "interview"
               PROVE  FALSE
  OBVIOUS
<1>2. PICK n \in Nat : l[i].invocation = NthCall(l[i].session, n)
  BY DEF LogGood, CallsGood, CallGood
<1>3. PICK k \in Nat : call.invocation = NthCall(call.session, k)
  BY DEF Awaited
<1>4. NthCall(l[i].session, n) = NthCall(call.session, k)
  BY <1>1, <1>2, <1>3
<1>5. l[i].session = call.session
  BY <1>4, NthCallIs
<1>6. l[i].session \in Session
  BY <1>1 DEF LogGood, CallsGood, CallGood
<1>7. IsConfidant(call.session)
  BY DEF Awaited
<1>8. QED
  BY <1>5, <1>6, <1>7, NotConfidant

LEMMA InterviewStep == ASSUME IInv, NEW r \in Runtime, Interview(r) PROVE IInv'
<1>1. PICK call : call = Call(<<"confidant", clock.turn>>, 0,
                 IF mode = "persistent" THEN store[r].records ELSE <<>>, store[r].head)
  OBVIOUS
<1>2. PICK l : l = Append(log, Dispatched(call))
  OBVIOUS
<1>3. /\ log' = l /\ calls' = [calls EXCEPT ![Confidant] = call]
      /\ UNCHANGED <<agent, store, reserved, clock>> /\ clock.phase = "interview"
      /\ calls[Confidant] = None
  BY <1>1, <1>2 DEF Interview, phases
<1>4. /\ clock.turn \in Nat /\ clock.phase \in Phase
  BY DEF IInv, Typed
<1>5. Awaited(Confidant, call, log, agent)
  <2>1. /\ call.session = <<"confidant", clock.turn>> /\ call.phase = "interview"
        /\ call.invocation = NthCall(call.session, 0)
    BY <1>1, <1>3 DEF Call, NthCall
  <2>2. call \in [session : {call.session}, invocation : {call.invocation}, turn : Nat,
             phase : Phase, attempt : Nat, retryOf : {call.retryOf}, shown : {call.shown},
             head : {call.head}]
    BY <1>1, <1>4 DEF Call
  <2>3. IsConfidant(call.session)
    BY <1>4, <2>1 DEF IsConfidant
  <2>4. QED
    BY <2>1, <2>2, <2>3 DEF Awaited
<1>6. \A i \in Invocations(log) :
          log[i].invocation = call.invocation => log[i].phase = "interview"
  BY <1>5, ConfidantsOwn DEF IInv
<1>7. /\ LogGood(l, agent)
      /\ \A st, session : Knows(st, session, log) => Knows(st, session, l)
      /\ \A d, other, ah : Awaited(d, other, log, ah) => Awaited(d, other, l, ah)
  BY <1>2, <1>5, <1>6, Dispatches DEF IInv
<1>8. StoresKnow' /\ \E S : store' \in [Runtime -> S]
  BY <1>3, <1>7, StoresStay
<1>9. /\ Awaited(Confidant, call, l, agent)
      /\ \A d \in (Runtime \cup {Confidant}) \ {Confidant} :
             calls[d] # None => Awaited(d, calls[d], l, agent)
  BY <1>5, <1>7 DEF IInv, CallsAwaited
<1>10. QED
  BY <1>3, <1>7, <1>8, <1>9, CallsChanged DEF IInv, LiveReserved, Typed

\* An incarnation that uses up an invocation ID.
Counts(ag, r, ah) ==
    /\ ah \in [Runtime -> Incarnation \cup {None}]
    /\ ah[r] = [session |-> ag[r].session, count |-> ag[r].count + 1]
    /\ \A q \in Runtime \ {r} : ah[q] = ag[q]

LEMMA CountsNext ==
    ASSUME Incarnations(agent), NEW r \in Runtime, agent[r] # None
    PROVE  Counts(agent, r, [agent EXCEPT ![r].count = agent[r].count + 1])
<1>1. /\ agent[r].session \in Session /\ agent[r].count \in Nat
      /\ agent[r] = [session |-> agent[r].session, count |-> agent[r].count]
  BY LiveTyped
<1>2. PICK x : x = [session |-> agent[r].session, count |-> agent[r].count + 1]
  OBVIOUS
<1>3. x \in Incarnation /\ x = [agent[r] EXCEPT !.count = agent[r].count + 1]
  BY <1>1, <1>2 DEF Incarnation
<1>4. PICK ah : ah = [agent EXCEPT ![r] = x]
  OBVIOUS
<1>5. /\ ah \in [Runtime -> Incarnation \cup {None}]
      /\ ah[r] = x /\ \A q \in Runtime \ {r} : ah[q] = agent[q]
  BY <1>3, <1>4 DEF Incarnations
<1>6. Counts(agent, r, ah)
  BY <1>2, <1>5 DEF Counts
<1>7. ah = [agent EXCEPT ![r].count = agent[r].count + 1]
  BY <1>3, <1>4
<1>8. QED
  BY <1>6, <1>7

LEMMA Counted ==
    ASSUME NEW l, NEW ag, LogGood(l, ag), Incarnations(ag), NEW r \in Runtime, ag[r] # None,
           NEW ah, Counts(ag, r, ah)
    PROVE  /\ Incarnations(ah) /\ LogGood(l, ah)
           /\ ah[r] # None /\ ah[r].session = ag[r].session
           /\ ah[r].count = ag[r].count + 1
           /\ \A q \in Runtime : ah[q] # None <=> ag[q] # None
           /\ \A q \in Runtime : ag[q] # None =>
                  ah[q].session = ag[q].session /\ ag[q].count <= ah[q].count
<1>2. /\ ag[r].session \in Session /\ ag[r].count \in Nat
      /\ ag[r] = [session |-> ag[r].session, count |-> ag[r].count]
  BY LiveTyped
<1>3. PICK x : x = [session |-> ag[r].session, count |-> ag[r].count + 1]
  OBVIOUS
<1>5. x \in Incarnation
  BY <1>2, <1>3 DEF Incarnation
<1>6. /\ ah \in [Runtime -> Incarnation \cup {None}]
      /\ ah[r] = x /\ \A q \in Runtime \ {r} : ah[q] = ag[q]
  BY <1>3 DEF Counts
<1>7. x # None
  BY <1>5, MemorySentinels
<1>8. /\ \A q \in Runtime : ah[q] # None <=> ag[q] # None
      /\ \A q \in Runtime : ag[q] # None =>
             ah[q].session = ag[q].session /\ ag[q].count <= ah[q].count
  <2>1. \A q \in Runtime : ag[q] # None => ag[q].count \in Nat
    BY LiveTyped
  <2>2. QED
    BY <1>2, <1>3, <1>6, <1>7, <2>1
<1>9. Incarnations(ah)
  BY <1>6, <1>8 DEF Incarnations
<1>10. LogGood(l, ah)
  BY <1>8, <1>9, LogGrown DEF Grown
<1>11. QED
  BY <1>2, <1>3, <1>6, <1>7, <1>8, <1>9, <1>10

LEMMA RetryStep == ASSUME IInv, NEW c \in Runtime \cup {Confidant}, Retry(c) PROVE IInv'
<1>1. PICK old : old = calls[c]
  OBVIOUS
<1>2. PICK id : id = <<"call", old.session, IF c = Confidant THEN old.attempt ELSE agent[c].count>>
  OBVIOUS
<1>3. PICK new : new = [old EXCEPT !.invocation = id, !.attempt = @ + 1, !.retryOf = old.invocation]
  OBVIOUS
<1>4. PICK ag : ag = IF c = Confidant THEN agent ELSE [agent EXCEPT ![c].count = @ + 1]
  OBVIOUS
<1>5. PICK l : l = Append(log, Recorded(old, "complete", "retryable", None))
  OBVIOUS
<1>6. PICK m : m = Append(l, Dispatched(new))
  OBVIOUS
<1>7. /\ old # None /\ calls' = [calls EXCEPT ![c] = new] /\ agent' = ag /\ log' = m
      /\ UNCHANGED <<store, reserved, clock>>
  BY <1>1, <1>2, <1>3, <1>4, <1>5, <1>6, AppendedTwice DEF Retry, phases, IInv, LogGood
<1>8. Awaited(c, old, log, agent)
  BY <1>1, <1>7 DEF IInv, CallsAwaited
<1>9. /\ LogGood(l, agent)
      /\ \A st, session : Knows(st, session, log) => Knows(st, session, l)
      /\ \A d \in (Runtime \cup {Confidant}) \ {c} :
             calls[d] # None => Awaited(d, calls[d], l, agent)
  <2>1. "retryable" # "success"
    OBVIOUS
  <2>2. QED
    BY <1>5, <1>8, <2>1, EndsCall DEF IInv, CallsAwaited
<1>10. c # Confidant => agent[c] # None /\ old.session = agent[c].session
  BY <1>8 DEF Awaited
<1>11. /\ Incarnations(ag) /\ LogGood(l, ag)
       /\ c # Confidant => ag[c] # None /\ ag[c].session = agent[c].session
                           /\ ag[c].count = agent[c].count + 1
       /\ \A q \in Runtime : ag[q] # None <=> agent[q] # None
       /\ \A q \in Runtime : agent[q] # None =>
              ag[q].session = agent[q].session /\ agent[q].count <= ag[q].count
  <2>1. CASE c = Confidant
    <3>1. \A q \in Runtime : agent[q] # None => agent[q].count \in Nat
      BY LiveTyped DEF IInv
    <3>2. QED
      BY <1>4, <1>9, <2>1, <3>1 DEF IInv
  <2>2. CASE c # Confidant
    <3>1. c \in Runtime /\ agent[c] # None /\ Incarnations(agent) /\ LogGood(l, agent)
      BY <1>9, <1>10, <2>2 DEF IInv
    <3>2. ag = [agent EXCEPT ![c].count = agent[c].count + 1]
      BY <1>4, <2>2
    <3>3. Counts(agent, c, ag)
      BY <3>1, <3>2, CountsNext, Zenon
    <3>4. QED
      BY <3>1, <3>3, Counted
  <2>3. QED
    BY <2>1, <2>2
<1>12. /\ new.session = old.session /\ new.invocation = id /\ new.phase = old.phase
       /\ \E records : new \in
             [session : {new.session}, invocation : {new.invocation}, turn : Nat,
              phase : Phase, attempt : Nat, retryOf : {new.retryOf}, shown : {records},
              head : {new.head}]
       /\ old.attempt \in Nat
  <2>1. PICK records : old \in
             [session : {old.session}, invocation : {old.invocation}, turn : Nat,
              phase : Phase, attempt : Nat, retryOf : {old.retryOf}, shown : {records},
              head : {old.head}]
    BY <1>8 DEF Awaited
  <2>2. /\ old = [session |-> old.session, invocation |-> old.invocation, turn |-> old.turn,
                  phase |-> old.phase, attempt |-> old.attempt, retryOf |-> old.retryOf,
                  shown |-> records, head |-> old.head]
        /\ old.turn \in Nat /\ old.phase \in Phase /\ old.attempt \in Nat
    BY <2>1
  <2>3. new = [session |-> old.session, invocation |-> id, turn |-> old.turn,
               phase |-> old.phase, attempt |-> old.attempt + 1, retryOf |-> old.invocation,
               shown |-> records, head |-> old.head]
    <3>1. PICK a, b, t, p, n, o, h :
              /\ a = old.session /\ b = old.invocation /\ t = old.turn /\ p = old.phase
              /\ n = old.attempt /\ o = old.retryOf /\ h = old.head
      OBVIOUS
    <3>2. old = [session |-> a, invocation |-> b, turn |-> t, phase |-> p, attempt |-> n,
                 retryOf |-> o, shown |-> records, head |-> h]
      BY <2>2, <3>1
    <3>3. new = [session |-> a, invocation |-> id, turn |-> t, phase |-> p, attempt |-> n + 1,
                 retryOf |-> b, shown |-> records, head |-> h]
      BY <1>3, <3>2
    <3>4. QED
      BY <3>1, <3>3
  <2>4. PICK k \in Nat : k = old.attempt + 1
    BY <2>2
  <2>5. new \in
             [session : {new.session}, invocation : {new.invocation}, turn : Nat,
              phase : Phase, attempt : Nat, retryOf : {new.retryOf}, shown : {records},
              head : {new.head}]
    BY <2>2, <2>3, <2>4
  <2>6. QED
    BY <2>2, <2>3, <2>5
<1>13. \A i \in Invocations(l) : l[i].invocation = id => c = Confidant
  <2>1. SUFFICES ASSUME c # Confidant
                 PROVE  \A i \in Invocations(l) : l[i].invocation # id
    OBVIOUS
  <2>2. id = NthCall(agent[c].session, agent[c].count)
    BY <1>2, <1>10, <2>1 DEF NthCall
  <2>3. QED
    BY <1>9, <1>10, <2>1, <2>2, Unused DEF IInv
<1>14. Awaited(c, new, l, ag)
  <2>1. CASE c = Confidant
    <3>1. id = NthCall(old.session, old.attempt)
      BY <1>2, <2>1 DEF NthCall
    <3>2. old.phase = "interview" /\ IsConfidant(old.session)
      BY <1>8, <2>1 DEF Awaited
    <3>3. QED
      BY <1>12, <2>1, <3>1, <3>2 DEF Awaited
  <2>2. CASE c # Confidant
    <3>1. id = NthCall(old.session, agent[c].count) /\ agent[c].count \in Nat
      BY <1>2, <1>10, <2>2, LiveTyped DEF NthCall, IInv
    <3>2. old.phase # "interview" /\ old.session = ag[c].session /\ ag[c] # None
      BY <1>8, <1>10, <1>11, <2>2 DEF Awaited
    <3>3. agent[c].count < ag[c].count
      BY <1>11, <2>2, <3>1
    <3>4. QED
      BY <1>12, <1>13, <2>2, <3>1, <3>2, <3>3 DEF Awaited
  <2>3. QED
    BY <2>1, <2>2
<1>15. \A i \in Invocations(l) : l[i].invocation = new.invocation => l[i].phase = "interview"
  <2>1. CASE c = Confidant
    BY <1>11, <1>14, <2>1, ConfidantsOwn
  <2>2. CASE c # Confidant
    BY <1>12, <1>13, <2>2
  <2>3. QED
    BY <2>1, <2>2
<1>16. /\ LogGood(m, ag)
       /\ \A st, session : Knows(st, session, l) => Knows(st, session, m)
       /\ \A d, other, ah : Awaited(d, other, l, ah) => Awaited(d, other, m, ah)
  BY <1>6, <1>11, <1>14, <1>15, Dispatches
<1>17. \A d \in (Runtime \cup {Confidant}) \ {c} :
           calls[d] # None => Awaited(d, calls[d], m, ag)
  <2>1. SUFFICES ASSUME NEW d \in (Runtime \cup {Confidant}) \ {c}, calls[d] # None
                 PROVE  Awaited(d, calls[d], l, ag)
    BY <1>16
  <2>2. Awaited(d, calls[d], l, agent)
    BY <1>9, <2>1
  <2>3. d # Confidant => agent[d] # None
    BY <2>2 DEF Awaited
  <2>4. QED
    BY <1>11, <2>2, <2>3, AwaitedGrown DEF IInv
<1>18. StoresKnow' /\ \E S : store' \in [Runtime -> S]
  <2>1. \A q \in Runtime : ag[q] # None => agent[q] # None /\ ag[q].session = agent[q].session
    BY <1>11
  <2>2. QED
    BY <1>7, <1>9, <1>16, <2>1 DEF IInv, StoresKnow, Live, Typed
<1>19. \A q \in Runtime : ag[q] # None => ag[q].session \in reserved
  BY <1>11 DEF IInv, LiveReserved
<1>20. QED
  BY <1>7, <1>11, <1>14, <1>16, <1>17, <1>18, <1>19, CallsChanged DEF IInv, Typed

-----------------------------------------------------------------------------
(* Stores *)

\* A runtime's store is replaced by one that knows the log; l and ag come after.
StoreReplaced(r, st, l, ag) ==
    /\ \E S : store' \in [Runtime -> S]
    /\ store'[r] = st /\ \A q \in Runtime \ {r} : store'[q] = store[q]
    /\ log' = l /\ agent' = ag
    /\ Knows(st, ag[r].session, l)
    /\ \A other, session : Knows(other, session, log) => Knows(other, session, l)
    /\ \A q \in Runtime \ {r} :
           ag[q] # None => agent[q] # None /\ ag[q].session = agent[q].session

LEMMA StoreSet ==
    ASSUME IInv, NEW r \in Runtime, NEW st, NEW l, NEW ag, StoreReplaced(r, st, l, ag)
    PROVE  StoresKnow'
<1> USE DEF StoreReplaced
<1>1. SUFFICES ASSUME NEW q \in Runtime, ag[q] # None PROVE Knows(store'[q], ag[q].session, l)
  BY DEF StoresKnow, Live
<1>2. CASE q = r
  BY <1>2
<1>3. CASE q # r
  BY <1>1, <1>3 DEF IInv, StoresKnow, Live
<1>4. QED
  BY <1>2, <1>3

LEMMA StoreChanged ==
    ASSUME IInv, NEW r \in Runtime, NEW st, store' = [store EXCEPT ![r] = st]
    PROVE  /\ \E S : store' \in [Runtime -> S]
           /\ store'[r] = st /\ \A q \in Runtime \ {r} : store'[q] = store[q]
<1>1. PICK S : store \in [Runtime -> S]
  BY DEF IInv, Typed
<1>2. store' \in [Runtime -> S \cup {st}]
  BY <1>1
<1>3. QED
  BY <1>1, <1>2

\* A store that may be restored is restored to the newest memory.
LEMMA RestoredNow ==
    ASSUME IInv, NEW r \in Runtime, agent[r] # None, MayRestore(store[r])
    PROVE  LET st == Restored(agent[r].session, log)
           IN  Knows(st, agent[r].session, log) /\ st.head = HeadEvent(log)
  BY RestoredKnows DEF IInv, StoresKnow, Live, Knows, MayRestore, LogGood

\* The memory is read, under the ID of the call that is to be made.
LEMMA InvokeReads ==
    ASSUME IInv, NEW r \in Runtime, agent[r] # None, NEW st,
           Knows(st, agent[r].session, log), st.head = HeadEvent(log),
           NEW id, id = NthCall(agent[r].session, agent[r].count)
    PROVE  LET read == Operation(st, Read, agent[r].session, agent[r].session, id)
           IN  /\ Proper(log, read) /\ Applied(Append(log, read))
               /\ read.next = agent[r].session /\ st.sequence = Reduced(log).sequence
<1>1. PICK read : read = Operation(st, Read, agent[r].session, agent[r].session, id)
  OBVIOUS
<1>2. agent[r].session \in Session
  BY LiveTyped DEF IInv
<1>3. Read.op = "READ" /\ \A n : After(st.records, Read, n) = st.records
  BY DEF Read, Bare, After
<1>4. IsLog(log) /\ Reduces(log) /\ Applied(log) /\ LastOf(log, id) = 0
  BY Unused DEF IInv, LogGood
<1>5. Used(st.records) <= Capacity
  BY <1>4, KnowsNewest DEF Reduces
<1>6. Fits(st.records, Read)
  BY <1>3, <1>5 DEF Fits
<1>7. Proper(log, read) /\ st.sequence = Reduced(log).sequence
  BY <1>1, <1>2, <1>3, <1>4, <1>5, <1>6, OperationProper
<1>8. /\ read.kind = "memory" /\ read.before = read.after /\ read.next = agent[r].session
  BY <1>1, <1>3 DEF Operation
<1>9. Applied(Append(log, read))
  BY <1>4, <1>8, QuietApplied
<1>10. QED
  BY <1>1, <1>7, <1>8, <1>9

LEMMA InvokeStep == ASSUME IInv, NEW r \in Runtime, Invoke(r) PROVE IInv'
<1>1. PICK a : a = agent[r]
  OBVIOUS
<1>2. PICK st : st = Restored(a.session, log)
  OBVIOUS
<1>3. PICK id : id = NthCall(a.session, a.count)
  OBVIOUS
<1>4. PICK read : read = Operation(st, Read, a.session, a.session, id)
  OBVIOUS
<1>5. PICK begun : begun = IF mode = "persistent" THEN Append(log, read) ELSE log
  OBVIOUS
<1>6. PICK shown : shown = IF mode = "persistent" THEN st.records ELSE <<>>
  OBVIOUS
<1>7. PICK call : call = Call(a.session, a.count, shown, HeadEvent(begun))
  OBVIOUS
<1>8. PICK sent : sent = Append(begun, Dispatched(call))
  OBVIOUS
<1>9. PICK wrote : wrote = IF mode = "persistent" THEN Wrote(st, read, log) ELSE st
  OBVIOUS
<1>10. PICK ag : ag = [agent EXCEPT ![r].count = a.count + 1]
  OBVIOUS
<1>11. /\ a # None /\ calls[r] = None /\ MayRestore(store[r])
       /\ clock.phase \in {"planning", "memory_update"}
       /\ store' = [store EXCEPT ![r] = wrote] /\ agent' = ag
       /\ \/ log' = sent /\ calls' = [calls EXCEPT ![r] = call]
          \/ /\ log' = Append(sent, Recorded(call, "complete", "failed", None))
             /\ calls' = calls
       /\ reserved' = reserved /\ clock' = clock
  BY <1>1, <1>2, <1>3, <1>4, <1>5, <1>6, <1>7, <1>8, <1>9, <1>10 DEF Invoke, NthCall, phases
<1>12. Knows(st, a.session, log) /\ st.head = HeadEvent(log)
  BY <1>1, <1>2, <1>11, RestoredNow
<1>13. /\ LogGood(begun, agent) /\ Knows(wrote, a.session, begun)
       /\ \A other, session : Knows(other, session, log) => Knows(other, session, begun)
       /\ \A d, other, ah : Awaited(d, other, log, ah) => Awaited(d, other, begun, ah)
  <2>1. CASE mode = "persistent"
    <3>1. /\ Proper(log, read) /\ Applied(Append(log, read))
          /\ read.next = a.session /\ st.sequence = Reduced(log).sequence
      BY <1>1, <1>3, <1>4, <1>11, <1>12, InvokeReads
    <3>2. begun = Append(log, read) /\ wrote = Wrote(st, read, log)
      BY <1>5, <1>9, <2>1
    <3>3. LogGood(log, agent)
      BY DEF IInv
    <3>4. QED
      BY <3>1, <3>2, <3>3, Writes
  <2>2. CASE mode # "persistent"
    BY <1>5, <1>9, <1>12, <2>2 DEF IInv
  <2>3. QED
    BY <2>1, <2>2
<1>14. a.session \in Session /\ a.count \in Nat /\ Incarnations(agent)
  BY <1>1, <1>11, LiveTyped DEF IInv
<1>15. Counts(agent, r, ag)
  <2>1. ag = [agent EXCEPT ![r].count = agent[r].count + 1] /\ agent[r] # None
    BY <1>1, <1>10, <1>11
  <2>2. QED
    BY <1>14, <2>1, CountsNext, Zenon
<1>16. /\ Incarnations(ag) /\ LogGood(begun, ag)
       /\ ag[r] # None /\ ag[r].session = a.session /\ ag[r].count = a.count + 1
       /\ \A q \in Runtime : ag[q] # None <=> agent[q] # None
       /\ \A q \in Runtime : agent[q] # None =>
              ag[q].session = agent[q].session /\ agent[q].count <= ag[q].count
  BY <1>1, <1>11, <1>13, <1>14, <1>15, Counted
<1>17. \A i \in Invocations(begun) : begun[i].invocation # id
  BY <1>1, <1>3, <1>11, <1>13, <1>14, Unused
<1>18. Awaited(r, call, begun, ag)
  <2>1. /\ call.session = a.session /\ call.invocation = id /\ call.phase = clock.phase
        /\ call = [session |-> a.session, invocation |-> id, turn |-> clock.turn,
                   phase |-> clock.phase, attempt |-> 1, retryOf |-> None, shown |-> shown,
                   head |-> HeadEvent(begun)]
    BY <1>3, <1>7 DEF Call, NthCall
  <2>2. clock.turn \in Nat /\ clock.phase \in Phase
    BY DEF IInv, Typed
  <2>3. call \in
            [session : {call.session}, invocation : {call.invocation}, turn : Nat,
             phase : Phase, attempt : Nat, retryOf : {call.retryOf}, shown : {shown},
             head : {call.head}]
    BY <2>1, <2>2
  <2>4. r # Confidant
    BY MemorySentinels
  <2>5. a.count < ag[r].count
    BY <1>14, <1>16
  <2>6. call.phase # "interview"
    BY <1>11, <2>1
  <2>7. QED
    BY <1>3, <1>14, <1>16, <1>17, <2>1, <2>3, <2>4, <2>5, <2>6 DEF Awaited
<1>19. /\ LogGood(sent, ag)
       /\ \A other, session : Knows(other, session, begun) => Knows(other, session, sent)
       /\ \A d, other, ah : Awaited(d, other, begun, ah) => Awaited(d, other, sent, ah)
  <2>1. call.invocation = id
    BY <1>3, <1>7 DEF Call, NthCall
  <2>2. QED
    BY <1>8, <1>16, <1>17, <1>18, <2>1, Dispatches
<1>20. \A d \in (Runtime \cup {Confidant}) \ {r} :
           calls[d] # None => Awaited(d, calls[d], sent, ag)
  <2>1. SUFFICES ASSUME NEW d \in (Runtime \cup {Confidant}) \ {r}, calls[d] # None
                 PROVE  Awaited(d, calls[d], begun, ag)
    BY <1>19
  <2>2. Awaited(d, calls[d], begun, agent)
    BY <1>13, <2>1 DEF IInv, CallsAwaited
  <2>3. d # Confidant => agent[d] # None
    BY <2>2 DEF Awaited
  <2>4. QED
    BY <1>14, <1>16, <2>2, <2>3, AwaitedGrown
<1>21. \A q \in Runtime : ag[q] # None => ag[q].session \in reserved
  BY <1>16 DEF IInv, LiveReserved
<1>22. /\ \E S : store' \in [Runtime -> S]
       /\ store'[r] = wrote /\ \A q \in Runtime \ {r} : store'[q] = store[q]
  <2>1. store' = [store EXCEPT ![r] = wrote]
    BY <1>11
  <2>2. QED
    BY <2>1, StoreChanged
<1>23. CASE log' = sent /\ calls' = [calls EXCEPT ![r] = call]
  <2>1. StoresKnow'
    <3>1. /\ Knows(wrote, ag[r].session, sent)
          /\ \A other, session : Knows(other, session, log) => Knows(other, session, sent)
      BY <1>13, <1>16, <1>19
    <3>2. log' = sent /\ agent' = ag
      BY <1>11, <1>23
    <3>3. \A q \in Runtime \ {r} :
              ag[q] # None => agent[q] # None /\ ag[q].session = agent[q].session
      BY <1>16
    <3>4. StoreReplaced(r, wrote, sent, ag)
      BY <1>22, <3>1, <3>2, <3>3 DEF StoreReplaced
    <3>5. QED
      BY <3>4, StoreSet
  <2>2. Awaited(r, call, sent, ag)
    BY <1>18, <1>19
  <2>3. QED
    BY <1>11, <1>16, <1>19, <1>20, <1>21, <1>23, <1>22, <2>1, <2>2, CallsChanged, ZenonT(60)
    DEF IInv, Typed
<1>24. CASE /\ log' = Append(sent, Recorded(call, "complete", "failed", None))
            /\ calls' = calls
  <2>1. PICK ended : ended = Append(sent, Recorded(call, "complete", "failed", None))
    OBVIOUS
  <2>2. /\ LogGood(ended, ag)
        /\ \A other, session : Knows(other, session, sent) => Knows(other, session, ended)
        /\ \A d \in (Runtime \cup {Confidant}) \ {r} :
               \A other : Awaited(d, other, sent, ag) => Awaited(d, other, ended, ag)
    <3>1. "failed" # "success" /\ Awaited(r, call, sent, ag)
      BY <1>18, <1>19
    <3>2. QED
      BY <1>16, <1>19, <2>1, <3>1, EndsCall
  <2>3. StoresKnow'
    <3>1. /\ Knows(wrote, ag[r].session, ended)
          /\ \A other, session : Knows(other, session, log) => Knows(other, session, ended)
      BY <1>13, <1>16, <1>19, <2>2
    <3>2. log' = ended /\ agent' = ag
      BY <1>11, <1>24, <2>1
    <3>3. \A q \in Runtime \ {r} :
              ag[q] # None => agent[q] # None /\ ag[q].session = agent[q].session
      BY <1>16
    <3>4. StoreReplaced(r, wrote, ended, ag)
      BY <1>22, <3>1, <3>2, <3>3 DEF StoreReplaced
    <3>5. QED
      BY <3>4, StoreSet
  <2>4. \A d \in (Runtime \cup {Confidant}) \ {r} :
            calls[d] # None => Awaited(d, calls[d], ended, ag)
    BY <1>20, <2>2
  <2>5. QED
    BY <1>11, <1>16, <1>21, <1>24, <1>22, <2>1, <2>2, <2>3, <2>4, CallsChanged DEF IInv, Typed
<1>25. QED
  BY <1>11, <1>23, <1>24

-----------------------------------------------------------------------------
(* What is written *)

\* An operation is added to the log, and the runtime r, if it is one, knows it.
LEMMA Written ==
    ASSUME IInv, NEW e, Proper(log, e), Applied(Append(log, e)), log' = Append(log, e),
           UNCHANGED <<agent, calls, reserved, clock>>,
           \/ UNCHANGED store
           \/ \E r \in Runtime : \E st :
                /\ agent[r] # None /\ e.next = agent[r].session
                /\ st.sequence = Reduced(log).sequence
                /\ store' = [store EXCEPT ![r] = Wrote(st, e, log)]
    PROVE  IInv'
<1>1. PICK m : m = Append(log, e)
  OBVIOUS
<1>2. LogGood(log, agent)
  BY DEF IInv
<1>3. /\ LogGood(m, agent)
      /\ \A st, session : Knows(st, session, log) => Knows(st, session, m)
      /\ \A st : st.sequence = Reduced(log).sequence => Knows(Wrote(st, e, log), e.next, m)
      /\ \A d, other, ah : Awaited(d, other, log, ah) => Awaited(d, other, m, ah)
  BY <1>1, <1>2, Writes
<1>4. StoresKnow' /\ \E S : store' \in [Runtime -> S]
  <2>1. CASE UNCHANGED store
    BY <1>1, <1>3, <2>1, StoresStay
  <2>2. ASSUME NEW r \in Runtime, NEW st, agent[r] # None, e.next = agent[r].session,
               st.sequence = Reduced(log).sequence,
               store' = [store EXCEPT ![r] = Wrote(st, e, log)]
        PROVE  StoresKnow' /\ \E S : store' \in [Runtime -> S]
    <3>1. Knows(Wrote(st, e, log), agent[r].session, m)
      BY <1>3, <2>2
    <3>2. agent' = agent /\ log' = m
      BY <1>1
    <3>3. /\ \E S : store' \in [Runtime -> S] /\ store'[r] = Wrote(st, e, log)
          /\ \A q \in Runtime \ {r} : store'[q] = store[q]
      BY <2>2, StoreChanged
    <3>4. StoreReplaced(r, Wrote(st, e, log), m, agent)
      BY <1>3, <3>1, <3>2, <3>3 DEF StoreReplaced
    <3>5. QED
      BY <2>2, <3>3, <3>4, StoreSet
  <2>3. QED
    BY <2>1, <2>2
<1>5. CallsAwaited'
  BY <1>1, <1>3 DEF IInv, CallsAwaited
<1>6. QED
  BY <1>1, <1>3, <1>4, <1>5 DEF IInv, Typed, LiveReserved

\* An answer is applied by a store that knows the log.
LEMMA AnswerWritten ==
    ASSUME IInv, Opportunity, NEW st, NEW session \in Session, Knows(st, session, log),
           NEW i \in Answered, Apply(st, session, log[i].invocation, log[i].request)
    PROVE  LET e == Operation(st, log[i].request, session, session, log[i].invocation)
           IN  /\ Proper(log, e) /\ Applied(Append(log, e)) /\ log' = Append(log, e)
               /\ e.next = session /\ st.sequence = Reduced(log).sequence
<1>1. PICK e : e = Operation(st, log[i].request, session, session, log[i].invocation)
  OBVIOUS
<1>2. /\ Completes(log, log[i].invocation, session, clock.turn, log[i].request, st.records)
      /\ st.head = HeadEvent(log) /\ log' = Append(log, e)
      /\ Used(After(st.records, log[i].request, st.sequence)) <= Capacity
  BY <1>1 DEF Apply, MayArchive
<1>3. IsLog(log) /\ Reduces(log) /\ CallsGood(log, agent) /\ Once(log) /\ Applied(log)
  BY DEF IInv, LogGood
<1>4. log[i].request.op # "RECOVER"
  BY <1>3 DEF Answered, CallsGood, CallGood
<1>5. Fits(st.records, log[i].request)
  BY <1>2 DEF Completes
<1>6. Proper(log, e) /\ st.sequence = Reduced(log).sequence
  BY <1>1, <1>2, <1>3, <1>4, <1>5, OperationProper
<1>7. Applied(Append(log, e))
  BY <1>1, <1>2, <1>3, AnswerApplied DEF Opportunity
<1>8. e.next = session
  BY <1>1 DEF Operation
<1>9. QED
  BY <1>1, <1>2, <1>6, <1>7, <1>8

LEMMA ApplyMemoryOperationStep ==
    ASSUME IInv, NEW r \in Runtime, ApplyMemoryOperation(r) PROVE IInv'
<1>1. PICK session : session = agent[r].session
  OBVIOUS
<1>2. PICK st : st = Restored(session, log)
  OBVIOUS
<1>3. PICK i \in Answered :
          /\ Apply(st, session, log[i].invocation, log[i].request)
          /\ store' = [store EXCEPT ![r] =
                Wrote(st, Operation(st, log[i].request, session, session, log[i].invocation), log)]
  BY <1>1, <1>2 DEF ApplyMemoryOperation
<1>4. /\ Opportunity /\ agent[r] # None /\ MayRestore(store[r])
      /\ UNCHANGED <<agent, calls, reserved, clock>>
  BY DEF ApplyMemoryOperation, phases
<1>5. session \in Session
  BY <1>1, <1>4, LiveTyped DEF IInv
<1>6. Knows(st, session, log)
  BY <1>1, <1>2, <1>4, RestoredNow
<1>7. PICK e : e = Operation(st, log[i].request, session, session, log[i].invocation)
  OBVIOUS
<1>8. /\ Proper(log, e) /\ Applied(Append(log, e)) /\ log' = Append(log, e)
      /\ e.next = session /\ st.sequence = Reduced(log).sequence
  BY <1>3, <1>4, <1>5, <1>6, <1>7, AnswerWritten
<1>9. QED
  BY <1>1, <1>3, <1>4, <1>7, <1>8, Written

LEMMA UpdateMemoryStep ==
    ASSUME IInv, NEW r \in Runtime, UpdateMemory(r) PROVE IInv'
<1>1. PICK session : session = agent[r].session
  OBVIOUS
<1>2. PICK st : st = store[r]
  OBVIOUS
<1>3. PICK i \in Answered :
          /\ Apply(st, session, log[i].invocation, log[i].request)
          /\ store' = [store EXCEPT ![r] =
                Wrote(st, Operation(st, log[i].request, session, session, log[i].invocation), log)]
  BY <1>1, <1>2 DEF UpdateMemory
<1>4. Opportunity /\ agent[r] # None /\ UNCHANGED <<agent, calls, reserved, clock>>
  BY DEF UpdateMemory, phases
<1>5. session \in Session
  BY <1>1, <1>4, LiveTyped DEF IInv
<1>6. Knows(st, session, log)
  BY <1>1, <1>2, <1>4 DEF IInv, StoresKnow, Live
<1>7. PICK e : e = Operation(st, log[i].request, session, session, log[i].invocation)
  OBVIOUS
<1>8. /\ Proper(log, e) /\ Applied(Append(log, e)) /\ log' = Append(log, e)
      /\ e.next = session /\ st.sequence = Reduced(log).sequence
  BY <1>3, <1>4, <1>5, <1>6, <1>7, AnswerWritten
<1>9. QED
  BY <1>1, <1>3, <1>4, <1>7, <1>8, Written

LEMMA UpdateMemoryDurablyStep ==
    ASSUME IInv, NEW session, UpdateMemoryDurably(session) PROVE IInv'
<1>1. PICK st : st = Restored(session, log)
  OBVIOUS
<1>2. PICK i \in Answered : Apply(st, session, log[i].invocation, log[i].request)
  BY <1>1 DEF UpdateMemoryDurably
<1>3. /\ Opportunity /\ st.owner = session
      /\ UNCHANGED <<agent, calls, reserved, store, clock>>
  BY <1>1 DEF UpdateMemoryDurably, phases, running
<1>4. IsLog(log) /\ Reduces(log) /\ CallsGood(log, agent)
  BY DEF IInv, LogGood
<1>5. session \in Session
  <2>1. PICK k : k = LastOf(log, log[i].invocation)
    OBVIOUS
  <2>2. k # 0 /\ log[k].phase = "memory_update" /\ log[k].session = session
    BY <1>2, <2>1 DEF Apply, Completes
  <2>3. k \in Invocations(log)
    BY <1>4, <2>1, <2>2, LastOfIs
  <2>4. QED
    BY <1>4, <2>2, <2>3 DEF CallsGood, CallGood
<1>6. Reduced(log).head # 0 => Reduced(log).owner = session
  BY <1>1, <1>3 DEF Restored
<1>7. Knows(st, session, log)
  BY <1>1, <1>4, <1>6, RestoredKnows
<1>8. PICK e : e = Operation(st, log[i].request, session, session, log[i].invocation)
  OBVIOUS
<1>9. Proper(log, e) /\ Applied(Append(log, e)) /\ log' = Append(log, e)
  BY <1>2, <1>3, <1>5, <1>7, <1>8, AnswerWritten
<1>10. QED
  BY <1>3, <1>9, Written

LEMMA WriteStep == ASSUME IInv, NEW r \in Runtime, Write(r) PROVE IInv'
<1>1. PICK session : session = agent[r].session
  OBVIOUS
<1>2. PICK st : st = store[r]
  OBVIOUS
<1>3. PICK id : id = <<"host", None, 0>>
  OBVIOUS
<1>4. PICK q \in Requests(st.records) :
          /\ MayArchive(log, st, session, q)
          /\ log' = Append(log, Operation(st, q, session, session, id))
          /\ store' = [store EXCEPT ![r] = Wrote(st, Operation(st, q, session, session, id), log)]
  BY <1>1, <1>2, <1>3 DEF Write
<1>5. agent[r] # None /\ UNCHANGED <<agent, calls, reserved, clock>>
  BY DEF Write, phases
<1>6. PICK e : e = Operation(st, q, session, session, id)
  OBVIOUS
<1>7. session \in Session
  BY <1>1, <1>5, LiveTyped DEF IInv
<1>8. Knows(st, session, log)
  BY <1>1, <1>2, <1>5 DEF IInv, StoresKnow, Live
<1>9. IsLog(log) /\ Reduces(log) /\ CallsGood(log, agent) /\ Applied(log)
  BY DEF IInv, LogGood
<1>10. LastOf(log, id) = 0
  <2>1. SUFFICES ASSUME LastOf(log, id) # 0 PROVE FALSE
    OBVIOUS
  <2>2. PICK i \in Invocations(log) : log[i].invocation = id
    BY <1>9, <2>1, LastOfIs
  <2>3. QED
    BY <1>3, <1>9, <2>2 DEF CallsGood, CallGood, NthCall
<1>11. Fits(st.records, q) /\ q.op # "RECOVER"
  BY DEF Requests, Read, Bare
<1>12. st.head = HeadEvent(log) /\ Used(After(st.records, q, st.sequence)) <= Capacity
  BY <1>4 DEF MayArchive
<1>13. Proper(log, e) /\ st.sequence = Reduced(log).sequence
  BY <1>6, <1>7, <1>8, <1>9, <1>10, <1>11, <1>12, OperationProper
<1>14. Applied(Append(log, e))
  <2>1. /\ e.kind = "memory" /\ e.request = q /\ e.invocation = id /\ e.before = st.records
        /\ e.after = After(st.records, q, st.sequence)
    BY <1>6 DEF Operation
  <2>2. e.invocation[1] # "call"
    BY <1>3, <2>1
  <2>3. e.request.op \in {"READ", "RECOVER"} => e.before = e.after
    BY <2>1 DEF After
  <2>4. QED
    BY <1>9, <2>1, <2>2, <2>3, QuietApplied
<1>15. e.next = session /\ log' = Append(log, e) /\ store' = [store EXCEPT ![r] = Wrote(st, e, log)]
  BY <1>4, <1>6 DEF Operation
<1>16. QED
  BY <1>1, <1>5, <1>13, <1>14, <1>15, Written

-----------------------------------------------------------------------------
(* New incarnations *)

\* An operation that transfers the memory to a new session.
LEMMA Transferred ==
    ASSUME IInv, NEW st, NEW session, Knows(st, session, log), st.head = HeadEvent(log),
           NEW s \in Session, s # session, s \notin Reduced(log).sessions, NEW id
    PROVE  LET e == Operation(st, Bare("RECOVER"), session, s, id)
           IN  /\ Proper(log, e) /\ Applied(Append(log, e)) /\ e.next = s
               /\ st.sequence = Reduced(log).sequence
<1>1. PICK q : q = Bare("RECOVER")
  OBVIOUS
<1>2. PICK e : e = Operation(st, q, session, s, id)
  OBVIOUS
<1>3. q.op = "RECOVER" /\ \A n : After(st.records, q, n) = st.records
  BY <1>1 DEF Bare, After
<1>4. IsLog(log) /\ Reduces(log) /\ Applied(log)
  BY DEF IInv, LogGood
<1>5. Used(st.records) <= Capacity
  BY <1>4, KnowsNewest DEF Reduces
<1>6. Fits(st.records, q)
  BY <1>3, <1>5 DEF Fits
<1>7. Proper(log, e) /\ st.sequence = Reduced(log).sequence
  BY <1>2, <1>3, <1>4, <1>5, <1>6, OperationProper
<1>8. e.kind = "memory" /\ e.before = e.after /\ e.next = s
  BY <1>2, <1>3 DEF Operation
<1>9. Applied(Append(log, e))
  BY <1>4, <1>8, QuietApplied
<1>10. QED
  BY <1>1, <1>2, <1>7, <1>8, <1>9

\* A runtime comes under a new session, with the memory as it is or transferred.
LEMMA Incarnated ==
    ASSUME IInv, NEW r \in Runtime, calls[r] = None, NEW s, s = FreshSession, Reserve(s),
           NEW n \in Nat, NEW ag \in [Runtime -> Incarnation \cup {None}],
           ag[r] = [session |-> s, count |-> n],
           \A q \in Runtime \ {r} : ag[q] = agent[q], agent' = ag,
           NEW st, \E S : store' \in [Runtime -> S], store'[r] = st,
           \A q \in Runtime \ {r} : store'[q] = store[q], UNCHANGED <<calls, clock>>,
           \/ log' = log /\ Knows(st, s, log)
           \/ \E e, old :
                /\ log' = Append(log, e) /\ Proper(log, e) /\ Applied(Append(log, e))
                /\ e.next = s /\ old.sequence = Reduced(log).sequence
                /\ st = Wrote(old, e, log)
    PROVE  IInv'
<1>1. IsFiniteSet(reserved) /\ IsLog(log) /\ Incarnations(agent) /\ LogGood(log, agent)
  BY DEF IInv, Typed, LogGood
<1>2. s \in Session /\ s \notin reserved /\ s \notin Sessions(log)
  BY <1>1, FreshIsFresh
<1>3. ag[r] # None /\ ag[r].session = s /\ r # Confidant
  <2>1. ag[r] \in Incarnation
    BY <1>2 DEF Incarnation
  <2>2. QED
    BY <2>1, MemorySentinels
<1>4. \A q \in Runtime \ {r} : agent[q] # None => agent[q].session # s
  BY <1>2 DEF IInv, LiveReserved
<1>5. Incarnations(ag)
  BY <1>1, <1>3, <1>4 DEF Incarnations
<1>6. Grown(log, agent, ag)
  <2>1. \A q \in Runtime : agent[q] # None => agent[q].count \in Nat
    BY <1>1, LiveTyped
  <2>2. QED
    BY <1>2, <1>3, <2>1 DEF Grown
<1>7. LogGood(log, ag)
  BY <1>1, <1>5, <1>6, LogGrown
<1>8. PICK l : l = log'
  OBVIOUS
<1>9. /\ LogGood(l, ag) /\ Knows(st, s, l)
      /\ \A other, session : Knows(other, session, log) => Knows(other, session, l)
      /\ \A d, other, ah : Awaited(d, other, log, ah) => Awaited(d, other, l, ah)
  <2>1. CASE log' = log /\ Knows(st, s, log)
    BY <1>7, <1>8, <2>1
  <2>2. ASSUME NEW e, NEW old, log' = Append(log, e), Proper(log, e), Applied(Append(log, e)),
               e.next = s, old.sequence = Reduced(log).sequence, st = Wrote(old, e, log)
        PROVE  /\ LogGood(l, ag) /\ Knows(st, s, l)
               /\ \A other, session : Knows(other, session, log) => Knows(other, session, l)
               /\ \A d, other, ah : Awaited(d, other, log, ah) => Awaited(d, other, l, ah)
    BY <1>7, <1>8, <2>2, Writes
  <2>3. QED
    BY <2>1, <2>2
<1>10. /\ \E S : store' \in [Runtime -> S]
       /\ store'[r] = st /\ \A q \in Runtime \ {r} : store'[q] = store[q]
  OBVIOUS
<1>11. StoresKnow'
  <2>1. log' = l /\ Knows(st, ag[r].session, l)
    BY <1>3, <1>8, <1>9
  <2>2. StoreReplaced(r, st, l, ag)
    BY <1>9, <1>10, <2>1 DEF StoreReplaced
  <2>3. QED
    BY <2>2, StoreSet
<1>12. CallsAwaited'
  <2>1. SUFFICES ASSUME NEW c \in Runtime \cup {Confidant}, calls[c] # None
                 PROVE  Awaited(c, calls[c], log, ag)
    BY <1>8, <1>9 DEF CallsAwaited
  <2>2. Awaited(c, calls[c], log, agent) /\ c # r
    BY <2>1 DEF IInv, CallsAwaited
  <2>3. c # Confidant => agent[c] # None /\ ag[c] = agent[c] /\ agent[c].count \in Nat
    BY <1>1, <2>2, LiveTyped DEF Awaited
  <2>4. QED
    BY <1>1, <1>5, <2>2, <2>3, AwaitedGrown
<1>13. Typed' /\ LiveReserved'
  <2>1. IsFiniteSet(reserved') /\ reserved' = reserved \cup Sessions(log) \cup {s}
    BY <1>1, SessionsFinite, FS_Union, FS_AddElement DEF Reserve
  <2>2. Typed'
    BY <1>10, <2>1 DEF IInv, Typed
  <2>3. LiveReserved'
    BY <1>3, <2>1 DEF IInv, LiveReserved
  <2>4. QED
    BY <2>2, <2>3
<1>14. QED
  BY <1>5, <1>8, <1>9, <1>11, <1>12, <1>13 DEF IInv


LEMMA ResetStep == ASSUME IInv, NEW r \in Runtime, Reset(r) PROVE IInv'
<1>1. PICK s : s = FreshSession
  OBVIOUS
<1>2. PICK old : old = agent[r].session
  OBVIOUS
<1>3. PICK st : st = Restored(old, log)
  OBVIOUS
<1>4. PICK e : e = Operation(st, Bare("RECOVER"), old, s, <<"recovery", s, 0>>)
  OBVIOUS
<1>5. PICK ag : ag = [agent EXCEPT ![r].session = s]
  OBVIOUS
<1>6. /\ agent[r] # None /\ calls[r] = None /\ MayRestore(store[r])
      /\ s \notin Reduced(log).sessions /\ Reserve(s) /\ log' = Append(log, e)
      /\ store' = [store EXCEPT ![r] = Wrote(st, e, log)] /\ agent' = ag
      /\ UNCHANGED <<calls, clock>>
  BY <1>1, <1>2, <1>3, <1>4, <1>5 DEF Reset, phases
<1>7. Knows(st, old, log) /\ st.head = HeadEvent(log)
  BY <1>2, <1>3, <1>6, RestoredNow
<1>8. /\ Incarnations(agent) /\ IsFiniteSet(reserved) /\ IsLog(log) /\ old \in reserved
  BY <1>2, <1>6 DEF IInv, Typed, LogGood, LiveReserved
<1>9. s \in Session /\ s # old
  BY <1>1, <1>8, FreshIsFresh
<1>10. PICK n \in Nat : n = agent[r].count /\ agent[r] = [session |-> old, count |-> n]
  BY <1>2, <1>6, <1>8, LiveTyped
<1>11. PICK x \in Incarnation : x = [session |-> s, count |-> n]
  BY <1>9 DEF Incarnation
<1>12. /\ ag \in [Runtime -> Incarnation \cup {None}]
       /\ ag[r] = [session |-> s, count |-> n]
       /\ \A q \in Runtime \ {r} : ag[q] = agent[q]
  <2>1. [agent[r] EXCEPT !.session = s] = x
    BY <1>10, <1>11
  <2>2. ag = [agent EXCEPT ![r] = x]
    BY <1>5, <2>1
  <2>3. QED
    BY <1>8, <1>11, <2>2 DEF Incarnations
<1>13. /\ Proper(log, e) /\ Applied(Append(log, e)) /\ e.next = s
       /\ st.sequence = Reduced(log).sequence
  BY <1>4, <1>6, <1>7, <1>9, Transferred
<1>14. PICK wrote : wrote = Wrote(st, e, log) /\ store' = [store EXCEPT ![r] = wrote]
  BY <1>6
<1>15. \E f, older :
           /\ log' = Append(log, f) /\ Proper(log, f) /\ Applied(Append(log, f))
           /\ f.next = s /\ older.sequence = Reduced(log).sequence
           /\ wrote = Wrote(older, f, log)
  BY <1>6, <1>13, <1>14
<1>16. /\ \E S : store' \in [Runtime -> S]
       /\ store'[r] = wrote /\ \A q \in Runtime \ {r} : store'[q] = store[q]
  BY <1>14, StoreChanged
<1>17. QED
  BY <1>1, <1>6, <1>12, <1>15, <1>16, Incarnated

LEMMA ConstructStep == ASSUME IInv, NEW r \in Runtime, Construct(r) PROVE IInv'
<1>1. PICK s : s = FreshSession
  OBVIOUS
<1>2. PICK state : state = Reduced(log)
  OBVIOUS
<1>3. PICK previous : previous = IF state.head # 0 THEN state.owner ELSE PriorSession
  OBVIOUS
<1>4. PICK st : st = Restored(previous, log)
  OBVIOUS
<1>5. PICK e : e = Operation(st, Bare("RECOVER"), previous, s, <<"incarnation", s, 0>>)
  OBVIOUS
<1>6. PICK ag : ag = [agent EXCEPT ![r] = [session |-> s, count |-> 0]]
  OBVIOUS
<1>7. PICK kept : kept = [st EXCEPT !.owner = s]
  OBVIOUS
<1>8. /\ agent[r] = None /\ Reserve(s) /\ agent' = ag /\ UNCHANGED <<calls, clock>>
      /\ \/ /\ previous \in {None, s} /\ log' = log
            /\ store' = [store EXCEPT ![r] = kept]
         \/ /\ previous \notin {None, s} /\ s \notin state.sessions /\ log' = Append(log, e)
            /\ store' = [store EXCEPT ![r] = Wrote(st, e, log)]
  BY <1>1, <1>2, <1>3, <1>4, <1>5, <1>6, <1>7 DEF Construct, phases
<1>9. Incarnations(agent) /\ IsFiniteSet(reserved) /\ IsLog(log) /\ Reduces(log)
  BY DEF IInv, Typed, LogGood
<1>10. s \in Session
  BY <1>1, <1>9, FreshIsFresh
<1>11. /\ ag \in [Runtime -> Incarnation \cup {None}]
       /\ ag[r] = [session |-> s, count |-> 0]
       /\ \A q \in Runtime \ {r} : ag[q] = agent[q]
  <2>1. PICK x \in Incarnation : x = [session |-> s, count |-> 0]
    BY <1>10 DEF Incarnation
  <2>2. QED
    BY <1>6, <1>9, <2>1 DEF Incarnations
<1>12. calls[r] = None
  BY <1>8, MemorySentinels DEF IInv, CallsAwaited, Awaited
<1>13. Knows(st, previous, log) /\ st.head = HeadEvent(log)
  BY <1>2, <1>3, <1>4, <1>9, RestoredKnows
<1>14. CASE /\ previous \in {None, s} /\ log' = log
            /\ store' = [store EXCEPT ![r] = kept]
  <2>1. state.head # 0 => Reduced(log).owner = s
    BY <1>2, <1>3, <1>9, <1>14, MemorySentinels DEF Reduces
  <2>2. /\ kept.records = st.records /\ kept.sequence = st.sequence /\ kept.head = st.head
        /\ kept.owner = s
    BY <1>4, <1>7 DEF Restored
  <2>3. Knows(kept, s, log)
    BY <1>2, <1>9, <1>13, <2>1, <2>2 DEF Knows, Reduces
  <2>4. /\ 0 \in Nat /\ \E S : store' \in [Runtime -> S]
        /\ store'[r] = kept /\ \A q \in Runtime \ {r} : store'[q] = store[q]
    BY <1>14, StoreChanged
  <2>5. QED
    BY <1>1, <1>8, <1>11, <1>12, <1>14, <2>3, <2>4, Incarnated
<1>15. CASE /\ previous \notin {None, s} /\ s \notin state.sessions /\ log' = Append(log, e)
            /\ store' = [store EXCEPT ![r] = Wrote(st, e, log)]
  <2>1. /\ Proper(log, e) /\ Applied(Append(log, e)) /\ e.next = s
        /\ st.sequence = Reduced(log).sequence
    BY <1>2, <1>5, <1>10, <1>13, <1>15, Transferred
  <2>2. PICK wrote : wrote = Wrote(st, e, log) /\ store' = [store EXCEPT ![r] = wrote]
    BY <1>15
  <2>3. \E f, older :
            /\ log' = Append(log, f) /\ Proper(log, f) /\ Applied(Append(log, f))
            /\ f.next = s /\ older.sequence = Reduced(log).sequence
            /\ wrote = Wrote(older, f, log)
    BY <1>15, <2>1, <2>2
  <2>4. 0 \in Nat
    OBVIOUS
  <2>5. /\ \E S : store' \in [Runtime -> S]
        /\ store'[r] = wrote /\ \A q \in Runtime \ {r} : store'[q] = store[q]
    BY <2>2, StoreChanged
  <2>6. QED
    BY <1>1, <1>8, <1>11, <1>12, <1>15, <2>3, <2>4, <2>5, Incarnated
<1>16. QED
  BY <1>8, <1>14, <1>15

-----------------------------------------------------------------------------
(* The phases, and the death of the process *)

LEMMA RestartStep == ASSUME IInv, Restart PROVE IInv'
<1>1. PICK ag : ag = [r \in Runtime |-> None]
  OBVIOUS
<1>2. /\ agent' = ag /\ log' = log /\ clock' = clock /\ reserved' = {}
      /\ calls' = [c \in DOMAIN calls |-> None]
      /\ store' = [r \in Runtime |-> Restored(None, <<>>)]
  BY <1>1 DEF Restart, phases
<1>3. \A r \in Runtime : ag[r] = None
  BY <1>1
<1>4. Incarnations(ag) /\ Grown(log, agent, ag)
  BY <1>1, <1>3 DEF Incarnations, Grown
<1>5. LogGood(log, ag)
  BY <1>4, LogGrown DEF IInv
<1>6. PICK st : st = Restored(None, <<>>)
  OBVIOUS
<1>7. /\ calls' \in [Runtime \cup {Confidant} -> {None}] /\ store' \in [Runtime -> {st}]
      /\ \A c \in Runtime \cup {Confidant} : calls'[c] = None
  <2>1. DOMAIN calls = Runtime \cup {Confidant}
    BY DEF IInv, Typed
  <2>2. QED
    BY <1>2, <1>6, <2>1
<1>8. Typed'
  <2>1. IsFiniteSet(reserved')
    BY <1>2, FS_EmptySet
  <2>2. (\E S : store' \in [Runtime -> S]) /\ (\E S : calls' \in [Runtime \cup {Confidant} -> S])
    BY <1>7
  <2>3. QED
    BY <1>2, <2>1, <2>2 DEF IInv, Typed
<1>9. CallsAwaited' /\ StoresKnow' /\ LiveReserved'
  BY <1>2, <1>3, <1>7 DEF CallsAwaited, StoresKnow, Live, LiveReserved
<1>10. QED
  BY <1>2, <1>4, <1>5, <1>8, <1>9 DEF IInv

LEMMA ClockStep ==
    ASSUME IInv, UNCHANGED <<log, agent, store, calls, reserved>>,
           clock' \in [turn : Nat, phase : Phase, expired : BOOLEAN, lives : BOOLEAN]
    PROVE  IInv'
  BY DEF IInv, Typed, LiveReserved, CallsAwaited, StoresKnow, Live

LEMMA PhaseSteps == ASSUME IInv, Ready \/ Expire \/ Advance PROVE IInv'
<1>1. clock \in [turn : Nat, phase : Phase, expired : BOOLEAN, lives : BOOLEAN]
  BY DEF IInv, Typed
<1>2. CASE Ready
  BY <1>1, <1>2, ClockStep DEF Ready, running
<1>3. CASE Expire
  <2>1. clock' \in [turn : Nat, phase : Phase, expired : BOOLEAN, lives : BOOLEAN]
    BY <1>1, <1>3 DEF Expire
  <2>2. QED
    BY <1>3, <2>1, ClockStep DEF Expire, running
<1>4. CASE Advance
  <2>1. PICK lives \in {TRUE, FALSE} :
            clock' = [turn |-> IF clock.phase = "interview" THEN clock.turn + 1 ELSE clock.turn,
                      phase |-> CASE clock.phase = "planning" -> "memory_update"
                                  [] clock.phase = "memory_update" -> "interview"
                                  [] OTHER -> "planning",
                      expired |-> FALSE, lives |-> lives]
    BY <1>4 DEF Advance
  <2>2. PICK t \in Nat : t = IF clock.phase = "interview" THEN clock.turn + 1 ELSE clock.turn
    BY <1>1
  <2>3. PICK p \in Phase : p = CASE clock.phase = "planning" -> "memory_update"
                                 [] clock.phase = "memory_update" -> "interview"
                                 [] OTHER -> "planning"
    BY DEF Phase
  <2>4. clock' = [turn |-> t, phase |-> p, expired |-> FALSE, lives |-> lives]
    BY <2>1, <2>2, <2>3
  <2>5. clock' \in [turn : Nat, phase : Phase, expired : BOOLEAN, lives : BOOLEAN]
    BY <2>4
  <2>6. QED
    BY <1>4, <2>5, ClockStep DEF Advance, running
<1>5. QED
  BY <1>2, <1>3, <1>4

-----------------------------------------------------------------------------
(* The beginning *)

LEMMA UsedNothing == Used(<<>>) = 0
<1> DEFINE Sums(f) ==
        f = [i \in 0..Len(<<>>) |->
                IF i = 0 THEN 0 ELSE f[i - 1] + <<>>[i].text + (IF i > 1 THEN 1 ELSE 0)]
<1> DEFINE sum == CHOOSE f : Sums(f)
<1>1. Len(<<>>) = 0 /\ 0..0 = {0}
  OBVIOUS
<1>2. Sums([i \in {0} |-> 0])
  BY <1>1
<1>3. Sums(sum)
  BY <1>2
<1>4. sum[0] = 0
  BY <1>1, <1>3
<1>5. Used(<<>>) = sum[0]
  BY <1>1 DEF Used
<1>6. QED
  BY <1>4, <1>5

LEMMA Initially == Init => IInv
<1> SUFFICES ASSUME Init PROVE IInv
  OBVIOUS
<1>1. /\ log = <<>> /\ reserved = {}
      /\ \A r \in Runtime : agent[r] = None
      /\ \A c \in Runtime \cup {Confidant} : calls[c] = None
  BY DEF Init
<1>2. PICK st : st = Restored(None, <<>>)
  OBVIOUS
<1>3. Typed
  <2>1. store \in [Runtime -> {st}] /\ calls \in [Runtime \cup {Confidant} -> {None}]
    BY <1>2 DEF Init
  <2>2. (\E S : store \in [Runtime -> S]) /\ (\E S : calls \in [Runtime \cup {Confidant} -> S])
    BY <2>1
  <2>3. IsFiniteSet(reserved)
    BY <1>1, FS_EmptySet
  <2>4. clock \in [turn : Nat, phase : Phase, expired : BOOLEAN, lives : BOOLEAN]
    BY DEF Init, Phase
  <2>5. QED
    BY <2>2, <2>3, <2>4 DEF Typed
<1>4. Incarnations(agent)
  <2>1. agent \in [Runtime -> {None}]
    BY DEF Init
  <2>2. QED
    BY <1>1, <2>1 DEF Incarnations
<1>5. LiveReserved /\ CallsAwaited /\ StoresKnow
  BY <1>1 DEF LiveReserved, CallsAwaited, StoresKnow, Live
<1>6. IsLog(log) /\ Len(log) = 0
  <2>1. <<>> \in Seq({}) /\ Len(<<>>) = 0
    OBVIOUS
  <2>2. QED
    BY <1>1, <2>1 DEF IsLog
<1>7. Invocations(log) = {} /\ Operations(log) = {} /\ HeadEvent(log) = 0
  BY <1>6, LogLength, HeadEventIs
<1>8. CallsGood(log, agent) /\ Once(log) /\ Applied(log)
  BY <1>7 DEF CallsGood, Once, Applied
<1>9. Reduced(log) = NoMemory
  <2>1. PICK f : Replay(log, Len(log), f) /\ Reduced(log) = f[Len(log)]
    BY <1>6, ReducedIs
  <2>2. QED
    BY <1>6, <2>1 DEF Replay
<1>10. Reduces(log)
  <2>1. SubSeq(log, 1, HeadEvent(log)) = log
    BY <1>6, <1>7, LogLength
  <2>2. Used(NoMemory.records) <= Capacity
    <3>1. NoMemory.records = <<>> /\ 0 <= Capacity
      BY MemoryBounds DEF NoMemory
    <3>2. QED
      BY <3>1, UsedNothing
  <2>3. NoMemory.ok /\ NoMemory.head = 0
    BY DEF NoMemory
  <2>4. QED
    BY <1>7, <1>9, <2>1, <2>2, <2>3 DEF Reduces
<1>11. QED
  BY <1>3, <1>4, <1>5, <1>6, <1>8, <1>10 DEF IInv, LogGood

LEMMA Preserved == ASSUME IInv, [Next]_vars PROVE IInv'
<1>1. CASE UNCHANGED vars
  <2>1. UNCHANGED <<log, agent, store, calls, reserved, clock>>
    BY <1>1 DEF vars, running, phases
  <2>2. QED
    BY <2>1, ClockStep DEF IInv, Typed
<1>2. ASSUME NEW r \in Runtime,
             \/ Construct(r) \/ Reset(r) \/ Invoke(r) \/ Interview(r)
             \/ ApplyMemoryOperation(r) \/ UpdateMemory(r) \/ Write(r)
      PROVE  IInv'
  BY <1>2, ConstructStep, ResetStep, InvokeStep, InterviewStep, ApplyMemoryOperationStep,
     UpdateMemoryStep, WriteStep
<1>3. ASSUME NEW s, UpdateMemoryDurably(s) PROVE IInv'
  BY <1>3, UpdateMemoryDurablyStep
<1>4. ASSUME NEW c \in Runtime \cup {Confidant}, Succeed(c) \/ Fail(c) \/ Retry(c) PROVE IInv'
  BY <1>4, SucceedStep, FailStep, RetryStep
<1>5. CASE Restart
  BY <1>5, RestartStep
<1>6. CASE Ready \/ Expire \/ Advance
  BY <1>6, PhaseSteps
<1>7. QED
  BY <1>1, <1>2, <1>3, <1>4, <1>5, <1>6 DEF Next

-----------------------------------------------------------------------------
(* The theorems *)

\* The memory operations of the evidence always reduce, to memory that fits
\* and is owned by a session of an incarnation; every runtime's store knows
\* them up to an operation of the log; and a call that is awaited is dispatched
\* under an ID that its incarnation used for nothing else (MemoryStore of
\* src/memory.js, AgentRuntime of src/agent.js).
THEOREM Invariant == Spec => []IInv
<1>1. IInv /\ [Next]_vars => IInv'
  BY Preserved
<1>2. QED
  BY Initially, <1>1, PTL DEF Spec

\* No invocation ID is used for two calls, in any number of incarnations,
\* retries and deaths of the process (reserveSession and nextInvocationId of
\* src/agent.js).
THEOREM NoIdTwice == Spec => []InvokedOnce
<1>1. IInv => InvokedOnce
  BY DEF IInv, LogGood, Once, InvokedOnce
<1>2. QED
  BY Invariant, <1>1, PTL

\* No answer of the model changes the memory twice, or under another session,
\* turn or phase than it was asked for (assertMemoryCompletion of src/memory.js).
THEOREM NoAnswerTwice == Spec => []AppliedOnce
<1>1. IInv => AppliedOnce
  <2>1. SUFFICES ASSUME Applied(log) PROVE AppliedOnce
    BY DEF IInv, LogGood
  <2>2. QED
    BY <2>1 DEF Applied, AppliedOnce, Changes, AnsweredBefore
<1>2. QED
  BY Invariant, <1>1, PTL

\* A store holds what the evidence reduces to up to the operation it knows
\* last, and one that knows the newest belongs to the owner of the memory, so
\* no runtime writes from memory that another has changed (MemoryStore#archive
\* of src/memory.js).
THEOREM StoresAreHonest == Spec => []StoresHonest
<1>1. IInv => StoresHonest
  <2>1. SUFFICES ASSUME IInv PROVE StoresHonest
    OBVIOUS
  <2>2. /\ Reduced(log).ok /\ Reduced(SubSeq(log, 1, HeadEvent(log))) = Reduced(log)
    BY <2>1 DEF IInv, LogGood, Reduces
  <2>3. ASSUME NEW r \in Live, NEW h, h = store[r].head
        PROVE  LET s == Reduced(SubSeq(log, 1, h)) IN
               /\ store[r].records = s.records /\ store[r].sequence = s.sequence
               /\ h = HeadEvent(log) /\ HeadEvent(log) # 0 => s.owner = agent[r].session
    BY <2>1, <2>2, <2>3 DEF IInv, StoresKnow, Knows
  <2>4. QED
    BY <2>2, <2>3 DEF StoresHonest
<1>2. QED
  BY Invariant, <1>1, PTL

-----------------------------------------------------------------------------
(* What the reconstruction asks of an event e, by the log l before it.  The *)
(* memory's mode is the argument kind of these operators: they are about    *)
(* logs of one state and are used of the next.                              *)

Same(x, e) ==
    x.session = e.session /\ x.turn = e.turn /\ x.phase = e.phase /\ x.shown = e.shown
InterviewsOf(l, turn) ==
    {i \in Invocations(l) : /\ l[i].phase = "interview" /\ l[i].turn = turn
                            /\ l[i].stage = "dispatch" /\ l[i].attempt = 1}
Again(l, turn) == \E i, j \in InterviewsOf(l, turn) : i # j

\* The call that e belongs to is the polity's, and shows its memory.
Fitting(l, e, kind) ==
    LET memory == Reduced(l) IN
    /\ e.when.lives
    /\ e.phase # "interview" => e.turn = e.when.turn /\ e.phase = e.when.phase
    /\ e.phase # "interview" /\ memory.head # 0 => memory.owner = e.session
    /\ e.shown = (IF kind = "persistent" THEN memory.records ELSE <<>>)
    /\ e.phase = "memory_update" => kind = "persistent"
    /\ e.outcome = "success" =>
         /\ ~(e.when.expired /\ e.when.turn = e.turn /\ e.when.phase = e.phase)
         /\ e.phase = "memory_update" => Fits(memory.records, e.request)

\* An event that ends a call, or begins one, in the order of the lifecycle.
Ends(l, e) ==
    LET source == LastOf(l, e.invocation) IN
    /\ source # 0 /\ l[source].stage = "dispatch" /\ Same(l[source], e)
    /\ l[source].attempt = e.attempt /\ l[source].retryOf = e.retryOf
Complete(l, id) == l[LastOf(l, id)].stage = "complete"
Retries(l, e) ==
    LET old == LastOf(l, e.retryOf) IN
    /\ old # 0 /\ l[old].outcome = "retryable"
    /\ e.attempt = l[old].attempt + 1 /\ Same(l[old], e)
    /\ \A i \in Invocations(l) : l[i].retryOf # e.retryOf
Begins(l, e) ==
    /\ LastOf(l, e.invocation) = 0
    /\ \A i \in Invocations(l) : l[i].session = e.session => Complete(l, l[i].invocation)
    /\ IF e.retryOf = None THEN e.attempt = 1 ELSE Retries(l, e)

Valid(l, e, kind) == Fitting(l, e, kind) /\ IF e.stage = "complete" THEN Ends(l, e) ELSE Begins(l, e)
Calm(l, e) ==
    /\ e.when.lives
    /\ e.phase # "interview" => e.phase = e.when.phase /\ e.turn = e.when.turn
    /\ e.head = HeadEvent(l)
Accepts(l, e, kind) == Calm(l, e) => Valid(l, e, kind)
Repeats(l, e) == e.phase = "interview" /\ Again(l, e.turn)
Accepted(l, kind) ==
    \A k \in Invocations(l) : Accepts(SubSeq(l, 1, k - 1), l[k], kind) \/ Repeats(l, l[k])

-----------------------------------------------------------------------------
(* The inductive invariant, beside IInv of AgentMemoryProofs *)

\* A retry is of a call of its session; an interview has its turn's session,
\* and is in the log of that turn.
Traced(e, l) ==
    e.retryOf # None => \E i \in Invocations(l) :
        l[i].invocation = e.retryOf /\ l[i].session = e.session
EventTold(e, l) ==
    /\ Traced(e, l)
    /\ e.phase = "interview" =>
           e.session = <<"confidant", e.turn>> /\ InterviewsOf(l, e.turn) # {}
EventsTold(l) == \A i \in Invocations(l) : EventTold(l[i], l)

\* What a call shows is the memory as of the operation it names.
Remembers(call, l, kind) ==
    LET s == Reduced(SubSeq(l, 1, call.head)) IN
    /\ call.head \in 0..Len(l)
    /\ call.shown = (IF kind = "persistent" THEN s.records ELSE <<>>)
    /\ call.phase # "interview" /\ call.head # 0 => s.owner = call.session
    /\ call.phase = "memory_update" => kind = "persistent"

\* The newest event of a call that is awaited is its dispatch.
Sent(call, l) ==
    LET k == LastOf(l, call.invocation) IN
    /\ k # 0 /\ l[k].stage = "dispatch" /\ Same(l[k], call)
    /\ l[k].attempt = call.attempt /\ l[k].retryOf = call.retryOf

\* It has not been tried again, and the other calls of its session have ended.
Alone(call, l) ==
    \A i \in Invocations(l) :
        /\ l[i].retryOf # call.invocation
        /\ l[i].session = call.session /\ l[i].invocation # call.invocation
             => Complete(l, l[i].invocation)

\* The confidant numbers its calls by their attempts.
Numbered(call, l) ==
    /\ call.session = <<"confidant", call.turn>> /\ call.attempt \in Nat \ {0}
    /\ call.invocation = NthCall(call.session, call.attempt - 1)
    /\ ~Again(l, call.turn) =>
        \A i \in Invocations(l) : l[i].session = call.session =>
            \E n \in Nat : n < call.attempt /\ l[i].invocation = NthCall(call.session, n)

CallTold(c, call, l, kind) ==
    /\ Remembers(call, l, kind) /\ Sent(call, l)
    /\ Alone(call, l) \/ (c = Confidant /\ Again(l, call.turn))
    /\ c = Confidant => Numbered(call, l)

\* A session that awaits nothing has no call that has not ended.
Idle(session, l) ==
    \A i \in Invocations(l) : l[i].session = session => Complete(l, l[i].invocation)

\* Operations, and the answers that become operations, have a text.
Worded(e) ==
    \/ e.kind = "memory"
    \/ e.kind = "model" /\ e.outcome = "success" /\ e.phase = "memory_update"
    => e.request.text \in Nat
AllWorded(l) == \A i \in 1..Len(l) : Worded(l[i])

Told ==
    /\ Accepted(log, mode) /\ EventsTold(log) /\ AllWorded(log)
    /\ \A c \in Runtime \cup {Confidant} : calls[c] # None => CallTold(c, calls[c], log, mode)
    /\ \A r \in Live : calls[r] = None => Idle(agent[r].session, log)

-----------------------------------------------------------------------------
(* What the memory holds, and what a call is *)

\* The records that Replaced keeps, up to the n-th.
Kept(records, ids, first, put, n, f) ==
    f = [i \in 0..n |->
            IF i = 0 THEN <<>>
            ELSE f[i - 1] \o (IF records[i].id \notin ids THEN <<records[i]>>
                              ELSE IF i = first THEN put ELSE <<>>)]

LEMMA KeptExists ==
    ASSUME NEW records, NEW ids, NEW first, NEW put, NEW n \in Nat
    PROVE  \E f : Kept(records, ids, first, put, n, f)
<1> DEFINE S == {m \in Nat : \E f : Kept(records, ids, first, put, m, f)}
<1> DEFINE Piece(i) == IF records[i].id \notin ids THEN <<records[i]>>
                       ELSE IF i = first THEN put ELSE <<>>
<1>1. 0 \in S
  <2>1. Kept(records, ids, first, put, 0, [i \in 0..0 |-> <<>>])
    BY DEF Kept
  <2>2. QED
    BY <2>1
<1>2. ASSUME NEW m \in Nat, m \in S PROVE m + 1 \in S
  <2>1. PICK f : Kept(records, ids, first, put, m, f)
    BY <1>2
  <2> DEFINE g == [i \in 0..(m + 1) |-> IF i = m + 1 THEN f[m] \o Piece(m + 1) ELSE f[i]]
  <2>2. \A i \in 0..m : g[i] = IF i = 0 THEN <<>> ELSE g[i - 1] \o Piece(i)
    <3> HIDE DEF Piece
    <3>1. \A i \in 0..m : f[i] = IF i = 0 THEN <<>> ELSE f[i - 1] \o Piece(i)
      BY <2>1 DEF Kept, Piece
    <3>2. QED
      BY <3>1
  <2>3. g[m + 1] = g[m] \o Piece(m + 1)
    <3> HIDE DEF Piece
    <3>1. m \in 0..(m + 1) /\ m + 1 \in 0..(m + 1) /\ m # m + 1
      OBVIOUS
    <3>2. g[m] = f[m] /\ g[m + 1] = f[m] \o Piece(m + 1)
      BY <3>1
    <3>3. QED
      BY <3>2
  <2>4. \A i \in 0..(m + 1) : g[i] = IF i = 0 THEN <<>> ELSE g[i - 1] \o Piece(i)
    <3> HIDE DEF g, Piece
    <3>1. \A i \in 0..(m + 1) : i \in 0..m \/ (i = m + 1 /\ i # 0 /\ i - 1 = m)
      OBVIOUS
    <3>2. QED
      BY <2>2, <2>3, <3>1
  <2>5. Kept(records, ids, first, put, m + 1, g)
    <3>1. g = [i \in 0..(m + 1) |-> g[i]]
      OBVIOUS
    <3> HIDE DEF g
    <3>2. QED
      BY <2>4, <3>1 DEF Kept
  <2>6. QED
    BY <2>5
<1>3. Nat \subseteq S
  <2> HIDE DEF S
  <2>1. QED
    BY <1>1, <1>2, InductionOver
<1>4. QED
  BY <1>3

LEMMA ReplacedTyped ==
    ASSUME NEW records \in Seq(Item), NEW ids, NEW put \in Seq(Item)
    PROVE  Replaced(records, ids, put) \in Seq(Item)
<1>1. PICK first : first = Min({i \in DOMAIN records : records[i].id \in ids})
  OBVIOUS
<1>2. PICK n \in Nat : n = Len(records)
  OBVIOUS
<1> DEFINE kept == CHOOSE f : Kept(records, ids, first, put, n, f)
<1>3. Kept(records, ids, first, put, n, kept)
  BY KeptExists
<1>4. Replaced(records, ids, put) = kept[n]
  BY <1>1, <1>2 DEF Replaced, Kept
<1> HIDE DEF kept
<1> DEFINE S == {i \in Nat : i <= n => kept[i] \in Seq(Item)}
<1>5. 0 \in S
  <2>1. kept[0] = <<>> /\ <<>> \in Seq(Item)
    BY <1>3 DEF Kept
  <2>2. QED
    BY <2>1
<1>6. ASSUME NEW i \in Nat, i \in S PROVE i + 1 \in S
  <2>1. SUFFICES ASSUME i + 1 <= n PROVE kept[i + 1] \in Seq(Item)
    OBVIOUS
  <2>2. kept[i] \in Seq(Item) /\ i + 1 \in 1..Len(records)
    BY <1>2, <1>6, <2>1
  <2>3. PICK piece : piece = IF records[i + 1].id \notin ids THEN <<records[i + 1]>>
                             ELSE IF i + 1 = first THEN put ELSE <<>>
    OBVIOUS
  <2>4. kept[i + 1] = kept[i] \o piece
    <3>1. i + 1 \in 0..n /\ i + 1 # 0 /\ (i + 1) - 1 = i
      BY <2>1
    <3>2. kept[i + 1] = kept[(i + 1) - 1] \o piece
      BY <1>3, <2>3, <3>1 DEF Kept
    <3>3. QED
      BY <3>1, <3>2
  <2>5. piece \in Seq(Item)
    <3>1. records[i + 1] \in Item
      BY <2>2
    <3>2. <<records[i + 1]>> \in Seq(Item) /\ <<>> \in Seq(Item)
      BY <3>1
    <3>3. QED
      BY <2>3, <3>2
  <2>6. QED
    BY <2>2, <2>4, <2>5
<1>7. Nat \subseteq S
  <2> HIDE DEF S
  <2>1. QED
    BY <1>5, <1>6, InductionOver
<1>8. QED
  BY <1>4, <1>7

LEMMA AfterTyped ==
    ASSUME NEW records \in Seq(Item), NEW q, q.text \in Nat, NEW n \in Nat
    PROVE  After(records, q, n) \in Seq(Item)
<1>1. PICK new : new = [id |-> n, text |-> q.text]
  OBVIOUS
<1>2. new \in Item /\ <<new>> \in Seq(Item) /\ <<>> \in Seq(Item)
  BY <1>1 DEF Item
<1>3. CASE q.op = "REMEMBER"
  BY <1>1, <1>2, <1>3 DEF After
<1>4. CASE q.op = "EDIT"
  <2>1. PICK f : f = [i \in DOMAIN records |->
            IF records[i].id \in q.ids THEN [records[i] EXCEPT !.text = q.text] ELSE records[i]]
    OBVIOUS
  <2>2. After(records, q, n) = f
    BY <1>4, <2>1 DEF After
  <2>3. \A x \in Item : [x EXCEPT !.text = q.text] \in Item
    BY DEF Item
  <2>4. Len(records) \in Nat /\ f \in [1..Len(records) -> Item]
    BY <2>1, <2>3
  <2>5. QED
    BY <2>2, <2>4, SeqDef
<1>5. CASE q.op = "FORGET"
  BY <1>2, <1>5, ReplacedTyped DEF After
<1>6. CASE q.op = "COMPRESS"
  BY <1>1, <1>2, <1>6, ReplacedTyped DEF After
<1>7. CASE q.op \notin {"REMEMBER", "EDIT", "FORGET", "COMPRESS"}
  BY <1>2, <1>7 DEF After
<1>8. QED
  BY <1>3, <1>4, <1>5, <1>6, <1>7

\* What the log reduces to is a list of records.
LEMMA MemoryTyped ==
    ASSUME NEW l, IsLog(l), AllWorded(l)
    PROVE  Reduced(l).records \in Seq(Item)
<1>1. Len(l) \in Nat
  BY LogLength
<1>2. PICK f : Replay(l, Len(l), f) /\ Reduced(l) = f[Len(l)]
  BY <1>1, ReducedIs
<1> DEFINE S == {k \in Nat : k <= Len(l) => f[k].records \in Seq(Item) /\ f[k].sequence \in Nat}
<1>3. 0 \in S
  <2>1. f[0] = NoMemory
    BY <1>1, <1>2 DEF Replay
  <2>2. NoMemory.records = <<>> /\ NoMemory.sequence = 0 /\ <<>> \in Seq(Item)
    BY DEF NoMemory
  <2>3. f[0].records \in Seq(Item) /\ f[0].sequence \in Nat
    BY <2>1, <2>2
  <2>4. QED
    BY <2>3
<1>4. ASSUME NEW k \in Nat, k \in S PROVE k + 1 \in S
  <2>1. SUFFICES ASSUME k + 1 <= Len(l)
                 PROVE  f[k + 1].records \in Seq(Item) /\ f[k + 1].sequence \in Nat
    OBVIOUS
  <2>2. PICK s : s = f[k]
    OBVIOUS
  <2>3. s.records \in Seq(Item) /\ s.sequence \in Nat /\ k + 1 \in 1..Len(l)
    BY <1>1, <1>4, <2>1, <2>2
  <2>4. f[k + 1] = ReplayEvent(l, k + 1, s)
    BY <1>1, <1>2, <2>1, <2>2 DEF Replay
  <2>5. CASE l[k + 1].kind = "memory"
    <3>1. l[k + 1].request.text \in Nat
      BY <2>3, <2>5 DEF AllWorded, Worded
    <3>2. /\ f[k + 1].records = After(s.records, l[k + 1].request, s.sequence)
          /\ f[k + 1].sequence = s.sequence + 1
      BY <2>4, <2>5 DEF ReplayEvent, ReplayOperation
    <3>3. After(s.records, l[k + 1].request, s.sequence) \in Seq(Item)
      BY <2>3, <3>1, AfterTyped
    <3>4. QED
      BY <2>3, <3>2, <3>3
  <2>6. CASE l[k + 1].kind # "memory"
    BY <2>3, <2>4, <2>6 DEF ReplayEvent
  <2>7. QED
    BY <2>5, <2>6
<1>5. Nat \subseteq S
  <2> HIDE DEF S
  <2>1. QED
    BY <1>3, <1>4, InductionOver
<1>6. QED
  BY <1>1, <1>2, <1>5

LEMMA WordedAppended ==
    ASSUME NEW l, IsLog(l), AllWorded(l), NEW e, Worded(e) PROVE AllWorded(Append(l, e))
<1>1. PICK m : m = Append(l, e)
  OBVIOUS
<1>2. /\ Len(l) \in Nat /\ Len(m) = Len(l) + 1
      /\ \A i \in 1..Len(l) : m[i] = l[i]
      /\ m[Len(l) + 1] = e
  BY <1>1, LogLength, Appended
<1>3. \A i \in 1..Len(m) : i \in 1..Len(l) \/ i = Len(l) + 1
  BY <1>2
<1>4. QED
  BY <1>1, <1>2, <1>3 DEF AllWorded

\* What a call shows, if it remembers the memory, is a list of records.
LEMMA ShownTyped ==
    ASSUME NEW l, IsLog(l), AllWorded(l), NEW call, Remembers(call, l, mode)
    PROVE  call.shown \in Seq(Item) /\ call.head \in Nat
<1>1. Len(l) \in Nat
  BY LogLength
<1>2. PICK h \in 0..Len(l) : h = call.head
  BY DEF Remembers
<1>3. PICK m : m = SubSeq(l, 1, h)
  OBVIOUS
<1>4. IsLog(m) /\ AllWorded(m)
  <2>1. PICK T : l \in Seq(T)
    BY DEF IsLog
  <2>2. m \in Seq(T) /\ Len(m) = h /\ \A i \in 1..h : m[i] = l[i]
    BY <1>1, <1>2, <1>3, <2>1
  <2>3. QED
    BY <1>1, <2>2 DEF IsLog, AllWorded
<1>5. Reduced(m).records \in Seq(Item) /\ <<>> \in Seq(Item)
  BY <1>4, MemoryTyped
<1>6. QED
  BY <1>1, <1>2, <1>3, <1>5 DEF Remembers

LEMMA CallTyped ==
    ASSUME NEW l, IsLog(l), AllWorded(l), NEW session \in Caller, NEW n \in Nat,
           NEW turn \in Nat, NEW phase \in Phase, NEW attempt \in Nat,
           NEW retryOf \in CallId \cup {None}, NEW shown, NEW head,
           NEW call, call = [session |-> session, invocation |-> NthCall(session, n),
                             turn |-> turn, phase |-> phase, attempt |-> attempt,
                             retryOf |-> retryOf, shown |-> shown, head |-> head],
           Remembers(call, l, mode)
    PROVE  call # None
<1>1. NthCall(session, n) \in CallId
  BY DEF NthCall, CallId
<1>2. call.shown = shown /\ call.head = head
  OBVIOUS
<1>3. shown \in Seq(Item) /\ head \in Nat
  BY <1>2, ShownTyped
<1>4. call \in ModelCall
  BY <1>1, <1>3 DEF ModelCall
<1>5. QED
  BY <1>4, MemorySentinels

-----------------------------------------------------------------------------
(* Logs that grow by an event *)

\* The ID of an event's call is one of its session.
Named(e) == \E n \in Nat : e.invocation = NthCall(e.session, n)
AllNamed(l) == IsLog(l) /\ \A i \in Invocations(l) : Named(l[i])

LEMMA GoodNamed == ASSUME NEW l, NEW ag, LogGood(l, ag) PROVE AllNamed(l)
  BY DEF LogGood, CallsGood, CallGood, AllNamed, Named

LEMMA LastOfAppended ==
    ASSUME NEW l, IsLog(l), NEW e
    PROVE  LET m == Append(l, e)
           IN  /\ e.kind = "memory" => \A id : LastOf(m, id) = LastOf(l, id)
               /\ e.kind = "model" =>
                      /\ LastOf(m, e.invocation) = Len(l) + 1
                      /\ \A id : id # e.invocation => LastOf(m, id) = LastOf(l, id)
<1>1. PICK m : m = Append(l, e)
  OBVIOUS
<1>2. /\ Len(l) \in Nat /\ Invocations(l) \subseteq 1..Len(l) /\ IsLog(m) /\ Len(m) = Len(l) + 1
      /\ \A i \in 1..Len(l) : m[i] = l[i]
      /\ m[Len(l) + 1] = e
  BY <1>1, LogLength, Appended
<1>3. ASSUME e.kind = "memory", NEW id PROVE LastOf(m, id) = LastOf(l, id)
  <2>1. Invocations(m) = Invocations(l)
    BY <1>1, <1>3, KindsAppended
  <2>2. {i \in Invocations(m) : m[i].invocation = id} = {i \in Invocations(l) : l[i].invocation = id}
    BY <1>2, <2>1
  <2>3. QED
    BY <2>2 DEF LastOf
<1>4. ASSUME e.kind = "model"
      PROVE  /\ LastOf(m, e.invocation) = Len(l) + 1
             /\ \A id : id # e.invocation => LastOf(m, id) = LastOf(l, id)
  <2>1. Invocations(m) = Invocations(l) \cup {Len(l) + 1}
    BY <1>1, <1>4, KindsAppended
  <2>2. LastOf(m, e.invocation) \in 0..(Len(l) + 1) /\ Len(l) + 1 <= LastOf(m, e.invocation)
    BY <1>2, <2>1, LastOfIs
  <2>3. LastOf(m, e.invocation) = Len(l) + 1
    BY <1>2, <2>2
  <2>4. ASSUME NEW id, id # e.invocation PROVE LastOf(m, id) = LastOf(l, id)
    <3>1. {i \in Invocations(m) : m[i].invocation = id}
              = {i \in Invocations(l) : l[i].invocation = id}
      BY <1>2, <2>1, <2>4
    <3>2. QED
      BY <3>1 DEF LastOf
  <2>5. QED
    BY <2>3, <2>4
<1>5. QED
  BY <1>1, <1>3, <1>4

LEMMA InterviewsAppended ==
    ASSUME NEW l, IsLog(l), NEW e, e.kind \in {"memory", "model"}
    PROVE  LET m == Append(l, e)
           IN  /\ \A turn : InterviewsOf(l, turn) \subseteq InterviewsOf(m, turn)
               /\ \A turn : Again(l, turn) => Again(m, turn)
               /\ e.kind = "model" /\ e.phase = "interview" /\ e.stage = "dispatch" /\ e.attempt = 1
                    => Len(l) + 1 \in InterviewsOf(m, e.turn)
<1>1. PICK m : m = Append(l, e)
  OBVIOUS
<1>2. /\ Len(l) \in Nat /\ Invocations(l) \subseteq 1..Len(l)
      /\ \A i \in 1..Len(l) : m[i] = l[i]
      /\ m[Len(l) + 1] = e
      /\ Invocations(l) \subseteq Invocations(m)
      /\ e.kind = "model" => Len(l) + 1 \in Invocations(m)
  BY <1>1, LogLength, Appended, KindsAppended
<1>3. \A turn : InterviewsOf(l, turn) \subseteq InterviewsOf(m, turn)
  BY <1>2 DEF InterviewsOf
<1>4. QED
  BY <1>1, <1>2, <1>3 DEF InterviewsOf, Again

LEMMA AcceptedAppended ==
    ASSUME NEW l, IsLog(l), Accepted(l, mode), NEW e, e.kind \in {"memory", "model"},
           e.kind = "model" => Accepts(l, e, mode) \/ Repeats(Append(l, e), e)
    PROVE  Accepted(Append(l, e), mode)
<1>1. PICK m : m = Append(l, e)
  OBVIOUS
<1>2. /\ Len(l) \in Nat /\ Len(m) = Len(l) + 1 /\ Invocations(l) \subseteq 1..Len(l)
      /\ \A i \in 1..Len(l) : m[i] = l[i]
      /\ m[Len(l) + 1] = e
      /\ \A n \in 0..Len(l) : SubSeq(m, 1, n) = SubSeq(l, 1, n)
      /\ SubSeq(l, 1, Len(l)) = l
  BY <1>1, LogLength, Appended
<1>3. ASSUME NEW k \in Invocations(l)
      PROVE  Accepts(SubSeq(m, 1, k - 1), m[k], mode) \/ Repeats(m, m[k])
  <2>1. k \in 1..Len(l) /\ k - 1 \in 0..Len(l)
    BY <1>2
  <2>2. m[k] = l[k] /\ SubSeq(m, 1, k - 1) = SubSeq(l, 1, k - 1)
    BY <1>2, <2>1
  <2>3. Accepts(SubSeq(l, 1, k - 1), l[k], mode) \/ Repeats(l, l[k])
    BY DEF Accepted
  <2>4. Repeats(l, l[k]) => Repeats(m, l[k])
    BY <1>1, InterviewsAppended DEF Repeats
  <2>5. QED
    BY <2>2, <2>3, <2>4
<1>4. ASSUME e.kind = "model"
      PROVE  /\ Accepts(SubSeq(m, 1, (Len(l) + 1) - 1), m[Len(l) + 1], mode) \/ Repeats(m, m[Len(l) + 1])
             /\ Invocations(m) = Invocations(l) \cup {Len(l) + 1}
  <2>1. (Len(l) + 1) - 1 = Len(l) /\ Len(l) \in 0..Len(l)
    BY <1>2
  <2>2. SubSeq(m, 1, (Len(l) + 1) - 1) = l
    BY <1>2, <2>1
  <2>3. QED
    BY <1>1, <1>2, <1>4, <2>2, KindsAppended
<1>5. e.kind = "memory" => Invocations(m) = Invocations(l)
  BY <1>1, KindsAppended
<1>6. \A k \in Invocations(m) : Accepts(SubSeq(m, 1, k - 1), m[k], mode) \/ Repeats(m, m[k])
  BY <1>3, <1>4, <1>5
<1>7. QED
  BY <1>1, <1>6 DEF Accepted

LEMMA EventsAppended ==
    ASSUME NEW l, IsLog(l), EventsTold(l), NEW e, e.kind \in {"memory", "model"},
           e.kind = "model" => EventTold(e, Append(l, e))
    PROVE  EventsTold(Append(l, e))
<1>1. PICK m : m = Append(l, e)
  OBVIOUS
<1>2. /\ Len(l) \in Nat /\ Invocations(l) \subseteq 1..Len(l)
      /\ \A i \in 1..Len(l) : m[i] = l[i]
      /\ m[Len(l) + 1] = e
      /\ Invocations(l) \subseteq Invocations(m)
      /\ e.kind = "memory" => Invocations(m) = Invocations(l)
      /\ e.kind = "model" => Invocations(m) = Invocations(l) \cup {Len(l) + 1}
  BY <1>1, LogLength, Appended, KindsAppended
<1>3. \A turn : InterviewsOf(l, turn) \subseteq InterviewsOf(m, turn)
  BY <1>1, InterviewsAppended
<1>4. ASSUME NEW x, EventTold(x, l) PROVE EventTold(x, m)
  <2>1. x.retryOf # None => \E i \in Invocations(m) :
            m[i].invocation = x.retryOf /\ m[i].session = x.session
    BY <1>2, <1>4 DEF EventTold, Traced
  <2>2. QED
    BY <1>3, <1>4, <2>1 DEF EventTold, Traced
<1>5. \A i \in Invocations(l) : EventTold(m[i], m)
  BY <1>2, <1>4 DEF EventsTold
<1>6. QED
  BY <1>1, <1>2, <1>5 DEF EventsTold

-----------------------------------------------------------------------------
(* What is told of one session while others write *)

\* An event of another session is not of a call of this one, nor retries it.
LEMMA OfAnother ==
    ASSUME NEW l, AllNamed(l), NEW e, Named(e), Traced(e, l)
    PROVE  /\ \A x : Named(x) /\ x.session # e.session => x.invocation # e.invocation
           /\ \A call : Named(call) /\ call.session # e.session /\ None # call.invocation
                  => e.retryOf # call.invocation
<1>1. ASSUME NEW x, NEW y, Named(x), Named(y), x.invocation = y.invocation
      PROVE  x.session = y.session
  <2>1. PICK j, k \in Nat : /\ x.invocation = NthCall(x.session, j)
                            /\ y.invocation = NthCall(y.session, k)
    BY <1>1 DEF Named
  <2>2. NthCall(x.session, j) = NthCall(y.session, k)
    BY <1>1, <2>1
  <2>3. QED
    BY <2>2, NthCallIs
<1>2. ASSUME NEW call, Named(call), call.session # e.session, None # call.invocation
      PROVE  e.retryOf # call.invocation
  <2>1. SUFFICES ASSUME e.retryOf = call.invocation PROVE FALSE
    OBVIOUS
  <2>2. PICK i \in Invocations(l) : l[i].invocation = e.retryOf /\ l[i].session = e.session
    BY <1>2, <2>1 DEF EventTold, Traced
  <2>3. Named(l[i])
    BY DEF AllNamed
  <2>4. QED
    BY <1>1, <1>2, <2>1, <2>2, <2>3
<1>3. QED
  BY <1>1, <1>2

\* No call has the ID None.
LEMMA CallIds ==
    ASSUME NEW call, Named(call), call.session \in Session \/ IsConfidant(call.session)
    PROVE  call.invocation # None
<1>1. PICK n \in Nat : call.invocation = <<"call", call.session, n>>
  BY DEF Named, NthCall
<1>2. call.session \in Caller
  BY DEF IsConfidant, Caller
<1>3. call.invocation \in CallId
  BY <1>1, <1>2 DEF CallId
<1>4. QED
  BY <1>3, MemorySentinels

\* The parts of CallTold and Idle that look at the events of a session.
LEMMA OtherIdle ==
    ASSUME NEW l, AllNamed(l), NEW e, NEW session, Idle(session, l),
           \/ e.kind = "memory"
           \/ e.kind = "model" /\ Named(e) /\ e.session # session
    PROVE  Idle(session, Append(l, e))
<1>1. PICK m : m = Append(l, e)
  OBVIOUS
<1>2. /\ Len(l) \in Nat /\ Invocations(l) \subseteq 1..Len(l) /\ IsLog(l)
      /\ \A i \in 1..Len(l) : m[i] = l[i]
      /\ m[Len(l) + 1] = e
      /\ e.kind = "memory" => Invocations(m) = Invocations(l)
      /\ e.kind = "model" => Invocations(m) = Invocations(l) \cup {Len(l) + 1}
  BY <1>1, LogLength, Appended, KindsAppended DEF AllNamed
<1>3. SUFFICES ASSUME NEW i \in Invocations(m), m[i].session = session
               PROVE  Complete(m, m[i].invocation)
  BY <1>1 DEF Idle
<1>4. i \in Invocations(l) /\ m[i] = l[i]
  BY <1>2, <1>3
<1>5. Named(l[i]) /\ Complete(l, l[i].invocation)
  BY <1>3, <1>4 DEF AllNamed, Idle
<1>6. LastOf(m, l[i].invocation) = LastOf(l, l[i].invocation)
  <2>1. CASE e.kind = "memory"
    BY <1>1, <1>2, <2>1, LastOfAppended
  <2>2. CASE e.kind = "model" /\ Named(e) /\ e.session # session
    <3>1. l[i].invocation # e.invocation
      BY <1>3, <1>4, <1>5, <2>2, NthCallIs DEF Named
    <3>2. QED
      BY <1>1, <1>2, <2>2, <3>1, LastOfAppended
  <2>3. QED
    BY <2>1, <2>2
<1>7. LastOf(l, l[i].invocation) \in 1..Len(l)
  BY <1>2, <1>4, LastOfIs
<1>8. QED
  BY <1>2, <1>4, <1>5, <1>6, <1>7 DEF Complete

LEMMA RemembersAppended ==
    ASSUME NEW l, IsLog(l), NEW e, NEW call, Remembers(call, l, mode)
    PROVE  Remembers(call, Append(l, e), mode)
<1>1. PICK m : m = Append(l, e)
  OBVIOUS
<1>2. /\ Len(l) \in Nat /\ Len(m) = Len(l) + 1
      /\ \A n \in 0..Len(l) : SubSeq(m, 1, n) = SubSeq(l, 1, n)
  BY <1>1, LogLength, Appended
<1>3. PICK h : h = call.head
  OBVIOUS
<1>4. h \in 0..Len(l) /\ h \in 0..Len(m) /\ SubSeq(m, 1, h) = SubSeq(l, 1, h)
  BY <1>2, <1>3 DEF Remembers
<1>5. QED
  BY <1>1, <1>3, <1>4 DEF Remembers

LEMMA OtherTold ==
    ASSUME NEW l, AllNamed(l), NEW e, NEW c, NEW call, CallTold(c, call, l, mode),
           Named(call), call.invocation # None,
           \/ e.kind = "memory"
           \/ e.kind = "model" /\ Named(e) /\ e.session # call.session /\ Traced(e, l)
    PROVE  CallTold(c, call, Append(l, e), mode)
<1>1. PICK m : m = Append(l, e)
  OBVIOUS
<1>2. /\ Len(l) \in Nat /\ Invocations(l) \subseteq 1..Len(l) /\ IsLog(l)
      /\ \A i \in 1..Len(l) : m[i] = l[i]
      /\ m[Len(l) + 1] = e
      /\ e.kind = "memory" => Invocations(m) = Invocations(l)
      /\ e.kind = "model" => Invocations(m) = Invocations(l) \cup {Len(l) + 1}
  BY <1>1, LogLength, Appended, KindsAppended DEF AllNamed
<1>3. e.kind = "model" => e.invocation # call.invocation /\ e.retryOf # call.invocation
  BY OfAnother
<1>4. LastOf(m, call.invocation) = LastOf(l, call.invocation)
  BY <1>1, <1>2, <1>3, LastOfAppended
<1>5. Remembers(call, m, mode)
  BY <1>1, <1>2, RemembersAppended DEF CallTold
<1>6. Sent(call, m)
  <2>1. LastOf(l, call.invocation) \in 1..Len(l)
    BY <1>2, LastOfIs DEF CallTold, Sent
  <2>2. QED
    BY <1>2, <1>4, <2>1 DEF CallTold, Sent
<1>7. \A turn : Again(l, turn) => Again(m, turn)
  BY <1>1, <1>2, InterviewsAppended
<1>8. ASSUME Alone(call, l) PROVE Alone(call, m)
  <2>1. ASSUME NEW i \in Invocations(m) PROVE m[i].retryOf # call.invocation
    BY <1>2, <1>3, <1>8 DEF Alone
  <2>2. ASSUME NEW i \in Invocations(m), m[i].session = call.session,
               m[i].invocation # call.invocation
        PROVE  Complete(m, m[i].invocation)
    <3>1. i \in Invocations(l) /\ m[i] = l[i]
      BY <1>2, <2>2
    <3>2. Named(l[i]) /\ Complete(l, l[i].invocation)
      BY <1>8, <2>2, <3>1 DEF AllNamed, Alone
    <3>3. e.kind = "model" => l[i].invocation # e.invocation
      BY <2>2, <3>1, <3>2, NthCallIs DEF Named
    <3>4. LastOf(m, l[i].invocation) = LastOf(l, l[i].invocation)
      BY <1>1, <1>2, <3>3, LastOfAppended
    <3>5. LastOf(l, l[i].invocation) \in 1..Len(l)
      BY <1>2, <3>1, LastOfIs
    <3>6. QED
      BY <1>2, <3>1, <3>2, <3>4, <3>5 DEF Complete
  <2>3. QED
    BY <2>1, <2>2 DEF Alone
<1>9. c = Confidant => Numbered(call, m)
  <2>1. SUFFICES ASSUME c = Confidant PROVE Numbered(call, m)
    OBVIOUS
  <2>2. Numbered(call, l)
    BY <2>1 DEF CallTold
  <2>3. \A i \in Invocations(m) : m[i].session = call.session =>
            i \in Invocations(l) /\ m[i] = l[i]
    BY <1>2
  <2>4. QED
    BY <1>7, <2>2, <2>3 DEF Numbered
<1>10. QED
  BY <1>1, <1>5, <1>6, <1>7, <1>8, <1>9 DEF CallTold

-----------------------------------------------------------------------------
(* A call that ends *)

LEMMA RecordedAlso ==
    ASSUME NEW call, NEW stage, NEW outcome, NEW q
    PROVE  LET e == Recorded(call, stage, outcome, q)
           IN  /\ e.kind = "model" /\ e.session = call.session
               /\ e.invocation = call.invocation /\ e.turn = call.turn
               /\ e.phase = call.phase /\ e.stage = stage /\ e.outcome = outcome
               /\ e.request = q /\ e.when = clock
               /\ e.attempt = call.attempt /\ e.retryOf = call.retryOf
               /\ e.shown = call.shown /\ e.head = call.head
  BY DEF Recorded

LEMMA RequestsWorded == ASSUME NEW records, NEW q \in Requests(records) PROVE q.text \in Nat
<1>1. \/ q.text \in Text \/ q.text = 0
  BY DEF Requests, Bare, Read
<1>2. 0 \in Nat
  OBVIOUS
<1>3. QED
  BY <1>1, <1>2, MemoryBounds

LEMMA RecordedWorded ==
    ASSUME NEW l, IsLog(l), AllWorded(l), NEW call, NEW stage, NEW outcome, NEW q,
           outcome = "success" => q \in Answers(call)
    PROVE  AllWorded(Append(l, Recorded(call, stage, outcome, q)))
<1>1. PICK e : e = Recorded(call, stage, outcome, q)
  OBVIOUS
<1>2. /\ e.kind = "model" /\ e.outcome = outcome /\ e.phase = call.phase /\ e.request = q
  BY <1>1, RecordedAlso
<1>3. ASSUME outcome = "success", call.phase = "memory_update" PROVE q.text \in Nat
  BY <1>3, RequestsWorded DEF Answers
<1>4. Worded(e)
  BY <1>2, <1>3 DEF Worded
<1>5. QED
  BY <1>1, <1>4, WordedAppended

\* An event of a call that remembers the memory fits the run it is recorded in,
\* if that has not changed since.
LEMMA Fit ==
    ASSUME NEW l, Reduces(l), NEW call, Remembers(call, l, mode),
           NEW stage, NEW outcome, NEW q,
           outcome = "success" => Timely(call) /\ q \in Answers(call),
           Calm(l, Recorded(call, stage, outcome, q))
    PROVE  Fitting(l, Recorded(call, stage, outcome, q), mode)
<1>1. PICK e : e = Recorded(call, stage, outcome, q)
  OBVIOUS
<1>2. /\ e.session = call.session /\ e.turn = call.turn /\ e.phase = call.phase
      /\ e.outcome = outcome /\ e.request = q /\ e.when = clock
      /\ e.shown = call.shown /\ e.head = call.head
  BY <1>1, RecordedAlso
<1>3. /\ e.when.lives /\ call.head = HeadEvent(l)
      /\ e.phase # "interview" => e.phase = e.when.phase /\ e.turn = e.when.turn
  BY <1>1, <1>2 DEF Calm
<1>4. PICK s : s = Reduced(l)
  OBVIOUS
<1>5. /\ s = Reduced(SubSeq(l, 1, call.head)) /\ s.head = call.head
  BY <1>3, <1>4 DEF Reduces
<1>6. /\ e.shown = (IF mode = "persistent" THEN s.records ELSE <<>>)
      /\ e.phase # "interview" /\ s.head # 0 => s.owner = e.session
      /\ e.phase = "memory_update" => mode = "persistent"
  BY <1>2, <1>5 DEF Remembers
<1>7. ASSUME e.outcome = "success"
      PROVE  /\ ~(e.when.expired /\ e.when.turn = e.turn /\ e.when.phase = e.phase)
             /\ e.phase = "memory_update" => Fits(s.records, e.request)
  <2>1. Timely(call) /\ q \in Answers(call)
    BY <1>2, <1>7
  <2>2. ~e.when.expired
    BY <1>2, <2>1 DEF Timely
  <2>3. ASSUME e.phase = "memory_update" PROVE Fits(s.records, q)
    <3>1. q \in Requests(call.shown) /\ call.shown = s.records
      BY <1>2, <1>6, <2>1, <2>3 DEF Answers
    <3>2. QED
      BY <3>1 DEF Requests
  <2>4. QED
    BY <1>2, <2>2, <2>3
<1>8. QED
  BY <1>1, <1>3, <1>4, <1>6, <1>7 DEF Fitting

LEMMA EndTold ==
    ASSUME NEW l, AllNamed(l), Reduces(l), Accepted(l, mode), EventsTold(l),
           NEW c, NEW call, Named(call), CallTold(c, call, l, mode),
           NEW outcome, NEW q, outcome = "success" => Timely(call) /\ q \in Answers(call)
    PROVE  LET e == Recorded(call, "complete", outcome, q)
           IN  /\ Accepted(Append(l, e), mode) /\ EventsTold(Append(l, e))
               /\ Named(e) /\ Traced(e, l)
               /\ Alone(call, l) => Idle(call.session, Append(l, e))
<1>1. PICK e : e = Recorded(call, "complete", outcome, q)
  OBVIOUS
<1>2. /\ e.kind = "model" /\ e.session = call.session /\ e.invocation = call.invocation
      /\ e.turn = call.turn /\ e.phase = call.phase /\ e.stage = "complete"
      /\ e.attempt = call.attempt /\ e.retryOf = call.retryOf /\ e.shown = call.shown
  BY <1>1, RecordedAlso
<1>3. PICK m : m = Append(l, e)
  OBVIOUS
<1>4. /\ Len(l) \in Nat /\ Invocations(l) \subseteq 1..Len(l) /\ IsLog(l)
      /\ \A i \in 1..Len(l) : m[i] = l[i]
      /\ m[Len(l) + 1] = e
      /\ Invocations(m) = Invocations(l) \cup {Len(l) + 1}
  BY <1>2, <1>3, LogLength, Appended, KindsAppended DEF AllNamed
<1>5. PICK k : k = LastOf(l, call.invocation)
  OBVIOUS
<1>6. /\ k # 0 /\ k \in Invocations(l) /\ l[k].stage = "dispatch"
      /\ l[k].session = call.session /\ l[k].turn = call.turn /\ l[k].phase = call.phase
      /\ l[k].shown = call.shown
      /\ l[k].attempt = call.attempt /\ l[k].retryOf = call.retryOf
  BY <1>4, <1>5, LastOfIs DEF CallTold, Sent, Same
<1>7. Ends(l, e)
  BY <1>2, <1>5, <1>6 DEF Ends, Same
<1>8. Accepts(l, e, mode)
  <2>1. Calm(l, e) => Fitting(l, e, mode)
    BY <1>1, Fit DEF CallTold
  <2>2. QED
    BY <1>2, <1>7, <2>1 DEF Accepts, Valid
<1>9. EventTold(e, l)
  <2>1. EventTold(l[k], l)
    BY <1>6 DEF EventsTold
  <2>2. QED
    BY <1>2, <1>6, <2>1 DEF EventTold, Traced
<1>10. EventTold(e, m)
  <2>1. Invocations(l) \subseteq Invocations(m)
    BY <1>4
  <2>2. InterviewsOf(l, e.turn) \subseteq InterviewsOf(m, e.turn)
    BY <1>2, <1>3, <1>4, InterviewsAppended
  <2>3. e.retryOf # None => \E i \in Invocations(m) :
            m[i].invocation = e.retryOf /\ m[i].session = e.session
    BY <1>4, <1>9, <2>1 DEF EventTold, Traced
  <2>4. QED
    BY <1>9, <2>2, <2>3 DEF EventTold, Traced
<1>11. Accepted(m, mode) /\ EventsTold(m)
  <2>1. e.kind \in {"memory", "model"}
    BY <1>2
  <2>2. QED
    BY <1>3, <1>4, <1>8, <1>10, <2>1, AcceptedAppended, EventsAppended
<1>12. ASSUME Alone(call, l) PROVE Idle(call.session, m)
  <2>1. SUFFICES ASSUME NEW i \in Invocations(m), m[i].session = call.session
                 PROVE  Complete(m, m[i].invocation)
    BY DEF Idle
  <2>2. CASE m[i].invocation = call.invocation
    <3>1. LastOf(m, call.invocation) = Len(l) + 1
      BY <1>2, <1>3, <1>4, LastOfAppended
    <3>2. QED
      BY <1>2, <1>4, <2>2, <3>1 DEF Complete
  <2>3. CASE m[i].invocation # call.invocation
    <3>1. i \in Invocations(l) /\ m[i] = l[i]
      BY <1>2, <1>4, <2>3
    <3>2. Complete(l, l[i].invocation)
      BY <1>12, <2>1, <2>3, <3>1 DEF Alone
    <3>3. LastOf(m, l[i].invocation) = LastOf(l, l[i].invocation)
      BY <1>2, <1>3, <1>4, <2>3, <3>1, LastOfAppended
    <3>4. LastOf(l, l[i].invocation) \in 1..Len(l)
      BY <1>4, <3>1, LastOfIs
    <3>5. QED
      BY <1>4, <3>1, <3>2, <3>3, <3>4 DEF Complete
  <2>4. QED
    BY <2>2, <2>3
<1>13. Named(e) /\ Traced(e, l)
  BY <1>2, <1>9 DEF Named, EventTold
<1>14. QED
  BY <1>1, <1>3, <1>11, <1>12, <1>13

-----------------------------------------------------------------------------
(* A call that begins *)

\* The log tells what the call comes after.
Comes(call, l) ==
    /\ Traced(call, l)
    /\ call.phase = "interview" =>
           /\ call.session = <<"confidant", call.turn>>
           /\ call.attempt = 1 \/ InterviewsOf(l, call.turn) # {}

\* The call is new, and follows the calls of its session.
Follows(call, l) ==
    /\ \A i \in Invocations(l) : l[i].invocation # call.invocation
    /\ Idle(call.session, l)
    /\ IF call.retryOf = None THEN call.attempt = 1 ELSE Retries(l, call)

\* By the log m with its dispatch, the call of c is in its place.
Placed(c, call, l, m) ==
    /\ \/ Follows(call, l)
       \/ c = Confidant /\ call.phase = "interview" /\ Again(m, call.turn)
    /\ c = Confidant => Numbered(call, m)

LEMMA DispatchTold ==
    ASSUME NEW l, AllNamed(l), Reduces(l), Accepted(l, mode), EventsTold(l),
           NEW c, NEW call, Named(call), call.invocation # None,
           Remembers(call, l, mode), Comes(call, l),
           NEW m, m = Append(l, Dispatched(call)), Placed(c, call, l, m)
    PROVE  /\ Accepted(m, mode) /\ EventsTold(m) /\ CallTold(c, call, m, mode)
           /\ Named(Dispatched(call)) /\ Dispatched(call).session = call.session
           /\ Traced(Dispatched(call), l)
<1> USE DEF Placed
<1>1. PICK e : e = Dispatched(call)
  OBVIOUS
<1>2. /\ e.kind = "model" /\ e.session = call.session /\ e.invocation = call.invocation
      /\ e.turn = call.turn /\ e.phase = call.phase /\ e.stage = "dispatch"
      /\ e.outcome = "pending"
      /\ e.attempt = call.attempt /\ e.retryOf = call.retryOf /\ e.shown = call.shown
  BY <1>1, RecordedAlso DEF Dispatched
<1>3. /\ Len(l) \in Nat /\ Invocations(l) \subseteq 1..Len(l) /\ IsLog(l) /\ m = Append(l, e)
      /\ \A i \in 1..Len(l) : m[i] = l[i]
      /\ m[Len(l) + 1] = e
      /\ Invocations(m) = Invocations(l) \cup {Len(l) + 1}
  BY <1>1, <1>2, LogLength, Appended, KindsAppended DEF AllNamed
<1>4. Follows(call, l) => Begins(l, e)
  <2>1. SUFFICES ASSUME Follows(call, l) PROVE Begins(l, e)
    OBVIOUS
  <2>2. LastOf(l, e.invocation) = 0
    BY <1>2, <1>3, <2>1, LastOfIs DEF Follows
  <2>3. \A i \in Invocations(l) : l[i].session = e.session => Complete(l, l[i].invocation)
    BY <1>2, <2>1 DEF Follows, Idle
  <2>4. Retries(l, call) => Retries(l, e)
    BY <1>2 DEF Retries, Same
  <2>5. QED
    BY <1>2, <2>1, <2>2, <2>3, <2>4 DEF Begins, Follows
<1>5. Calm(l, e) => Fitting(l, e, mode)
  <2>1. "pending" # "success"
    OBVIOUS
  <2>2. QED
    BY <1>1, <2>1, Fit DEF Dispatched
<1>6. Accepts(l, e, mode) \/ Repeats(m, e)
  <2>1. CASE Follows(call, l)
    BY <1>2, <1>4, <1>5, <2>1 DEF Accepts, Valid
  <2>2. CASE call.phase = "interview" /\ Again(m, call.turn)
    BY <1>2, <2>2 DEF Repeats
  <2>3. QED
    BY <2>1, <2>2
<1>7. EventTold(e, m)
  <2>1. e.retryOf # None => \E i \in Invocations(m) :
            m[i].invocation = e.retryOf /\ m[i].session = e.session
    BY <1>2, <1>3 DEF Comes, Traced
  <2>2. ASSUME e.phase = "interview" PROVE InterviewsOf(m, e.turn) # {}
    <3>1. CASE call.attempt = 1
      BY <1>2, <1>3, <2>2, <3>1, InterviewsAppended
    <3>2. CASE InterviewsOf(l, call.turn) # {}
      BY <1>2, <1>3, <3>2, InterviewsAppended
    <3>3. QED
      BY <1>2, <2>2, <3>1, <3>2 DEF Comes, Traced
  <2>3. QED
    BY <1>2, <2>1, <2>2 DEF EventTold, Comes, Traced
<1>8. Accepted(m, mode) /\ EventsTold(m)
  <2>1. e.kind \in {"memory", "model"}
    BY <1>2
  <2>2. QED
    BY <1>3, <1>6, <1>7, <2>1, AcceptedAppended, EventsAppended
<1>9. Sent(call, m)
  <2>1. LastOf(m, call.invocation) = Len(l) + 1
    BY <1>2, <1>3, LastOfAppended
  <2>2. Len(l) + 1 # 0
    BY <1>3
  <2>3. QED
    BY <1>2, <1>3, <2>1, <2>2 DEF Sent, Same
<1>10. Follows(call, l) => Alone(call, m)
  <2>1. SUFFICES ASSUME Follows(call, l), NEW i \in Invocations(m)
                 PROVE  /\ m[i].retryOf # call.invocation
                        /\ m[i].session = call.session /\ m[i].invocation # call.invocation
                             => Complete(m, m[i].invocation)
    BY DEF Alone
  <2>2. m[i].retryOf # call.invocation
    <3>1. CASE i = Len(l) + 1
      BY <1>2, <1>3, <2>1, <3>1 DEF Comes, Follows, Traced
    <3>2. CASE i \in Invocations(l)
      <4>1. EventTold(l[i], l) /\ m[i] = l[i]
        BY <1>3, <3>2 DEF EventsTold
      <4>2. QED
        BY <2>1, <4>1 DEF EventTold, Follows, Traced
    <3>3. QED
      BY <1>3, <3>1, <3>2
  <2>3. ASSUME m[i].session = call.session, m[i].invocation # call.invocation
        PROVE  Complete(m, m[i].invocation)
    <3>1. i \in Invocations(l) /\ m[i] = l[i]
      BY <1>2, <1>3, <2>3
    <3>2. Complete(l, l[i].invocation)
      BY <2>1, <2>3, <3>1 DEF Follows, Idle
    <3>3. LastOf(m, l[i].invocation) = LastOf(l, l[i].invocation)
      BY <1>2, <1>3, <2>3, <3>1, LastOfAppended
    <3>4. LastOf(l, l[i].invocation) \in 1..Len(l)
      BY <1>3, <3>1, LastOfIs
    <3>5. QED
      BY <1>3, <3>1, <3>2, <3>3, <3>4 DEF Complete
  <2>4. QED
    BY <2>2, <2>3
<1>11. Remembers(call, m, mode)
  BY <1>3, RemembersAppended
<1>12. CallTold(c, call, m, mode)
  BY <1>9, <1>10, <1>11 DEF CallTold
<1>13. Named(e) /\ Traced(e, l)
  BY <1>2 DEF Named, Traced, Comes
<1>14. QED
  BY <1>1, <1>2, <1>8, <1>12, <1>13

-----------------------------------------------------------------------------
(* Steps *)

\* What is told of the calls and sessions other than those of c.
OthersTold(c, l) ==
    /\ \A d \in (Runtime \cup {Confidant}) \ {c} :
           calls[d] # None => CallTold(d, calls[d], l, mode)
    /\ \A r \in Runtime \ {c} :
           agent[r] # None /\ calls[r] = None => Idle(agent[r].session, l)

LEMMA ToldAfter ==
    ASSUME Told, NEW c \in Runtime \cup {Confidant}, NEW l, log' = l, mode' = mode,
           NEW x, calls'[c] = x,
           \A d \in (Runtime \cup {Confidant}) \ {c} : calls'[d] = calls[d],
           \A r \in Runtime : agent'[r] # None =>
               agent[r] # None /\ agent'[r].session = agent[r].session,
           Accepted(l, mode), EventsTold(l), AllWorded(l), OthersTold(c, l),
           x # None => CallTold(c, x, l, mode),
           c # Confidant /\ x = None /\ agent[c] # None => Idle(agent[c].session, l)
    PROVE  Told'
<1>2. ASSUME NEW d \in Runtime \cup {Confidant}, calls'[d] # None
      PROVE  CallTold(d, calls'[d], l, mode)
  BY <1>2 DEF OthersTold
<1>3. ASSUME NEW r \in Runtime, agent'[r] # None, calls'[r] = None
      PROVE  Idle(agent'[r].session, l)
  <2>1. r # Confidant
    BY MemorySentinels
  <2>2. QED
    BY <1>3, <2>1 DEF OthersTold
<1>4. QED
  BY <1>2, <1>3 DEF Told, Live

\* The sessions of different callers are different.
Owns(c, session) ==
    IF c = Confidant THEN IsConfidant(session)
    ELSE agent[c] # None /\ session = agent[c].session

LEMMA AwaitedOwns ==
    ASSUME IInv, NEW c \in Runtime \cup {Confidant}, calls[c] # None
    PROVE  /\ Owns(c, calls[c].session)
           /\ Named(calls[c]) /\ calls[c].invocation # None
<1>1. Awaited(c, calls[c], log, agent)
  BY DEF IInv, CallsAwaited
<1>2. Owns(c, calls[c].session) /\ Named(calls[c])
  BY <1>1 DEF Awaited, Owns, Named
<1>3. calls[c].session \in Session \/ IsConfidant(calls[c].session)
  BY <1>2, LiveTyped DEF Owns, IInv
<1>4. QED
  BY <1>2, <1>3, CallIds

LEMMA OthersApart ==
    ASSUME IInv, NEW c \in Runtime \cup {Confidant}, NEW session, Owns(c, session)
    PROVE  /\ \A r \in Runtime \ {c} : agent[r] # None => agent[r].session # session
           /\ \A d \in (Runtime \cup {Confidant}) \ {c} :
                  calls[d] # None => calls[d].session # session
<1>1. \A r \in Runtime \ {c} : agent[r] # None => agent[r].session # session
  <2>1. CASE c = Confidant
    BY <2>1, LiveTyped, NotConfidant DEF Owns, IInv
  <2>2. CASE c # Confidant
    BY <2>2 DEF Owns, IInv, Incarnations
  <2>3. QED
    BY <2>1, <2>2
<1>2. ASSUME NEW d \in (Runtime \cup {Confidant}) \ {c}, calls[d] # None
      PROVE  calls[d].session # session
  <2>1. Owns(d, calls[d].session)
    BY <1>2, AwaitedOwns
  <2>2. CASE d = Confidant
    <3>1. c \in Runtime /\ agent[c] # None /\ session = agent[c].session
      BY <2>2 DEF Owns
    <3>2. session \in Session /\ IsConfidant(calls[d].session)
      BY <2>1, <2>2, <3>1, LiveTyped DEF Owns, IInv
    <3>3. QED
      BY <3>2, NotConfidant
  <2>3. CASE d # Confidant
    BY <1>1, <1>2, <2>1, <2>3 DEF Owns
  <2>4. QED
    BY <2>2, <2>3
<1>3. QED
  BY <1>1, <1>2

LEMMA OthersStay ==
    ASSUME IInv, NEW c \in Runtime \cup {Confidant}, NEW session, Owns(c, session),
           NEW l, AllNamed(l), NEW e, OthersTold(c, l),
           \/ e.kind = "memory"
           \/ e.kind = "model" /\ Named(e) /\ e.session = session /\ Traced(e, l)
    PROVE  OthersTold(c, Append(l, e))
<1>1. ASSUME NEW d \in (Runtime \cup {Confidant}) \ {c}, calls[d] # None
      PROVE  CallTold(d, calls[d], Append(l, e), mode)
  <2>1. calls[d].session # session /\ Named(calls[d]) /\ calls[d].invocation # None
    BY <1>1, OthersApart, AwaitedOwns
  <2>2. CallTold(d, calls[d], l, mode)
    BY <1>1 DEF OthersTold
  <2>3. QED
    BY <2>1, <2>2, OtherTold
<1>2. ASSUME NEW r \in Runtime \ {c}, agent[r] # None, calls[r] = None
      PROVE  Idle(agent[r].session, Append(l, e))
  <2>1. agent[r].session # session
    BY <1>2, OthersApart
  <2>2. Idle(agent[r].session, l)
    BY <1>2 DEF OthersTold
  <2>3. QED
    BY <2>1, <2>2, OtherIdle
<1>3. QED
  BY <1>1, <1>2 DEF OthersTold

LEMMA ToldOthers ==
    ASSUME Told, NEW c \in Runtime \cup {Confidant} PROVE OthersTold(c, log)
  BY DEF Told, OthersTold, Live

LEMMA EndedTold ==
    ASSUME IInv, Told, NEW c \in Runtime \cup {Confidant}, calls[c] # None,
           NEW outcome, NEW q, outcome = "success" => Timely(calls[c]) /\ q \in Answers(calls[c]),
           Ended(c, Recorded(calls[c], "complete", outcome, q))
    PROVE  Told'
<1>1. PICK call : call = calls[c]
  OBVIOUS
<1>2. PICK e : e = Recorded(call, "complete", outcome, q)
  OBVIOUS
<1>3. PICK l : l = Append(log, e)
  OBVIOUS
<1>4. /\ log' = l /\ calls' = [calls EXCEPT ![c] = None] /\ UNCHANGED <<agent, mode>>
  BY <1>1, <1>2, <1>3 DEF Ended
<1>5. AllNamed(log) /\ Reduces(log)
  BY GoodNamed DEF IInv, LogGood
<1>6. /\ Accepted(log, mode) /\ EventsTold(log) /\ CallTold(c, call, log, mode)
      /\ OthersTold(c, log)
  BY <1>1, ToldOthers DEF Told
<1>7. Owns(c, call.session) /\ Named(call)
  BY <1>1, AwaitedOwns
<1>8. /\ Accepted(l, mode) /\ EventsTold(l) /\ Named(e) /\ Traced(e, log)
      /\ Alone(call, log) => Idle(call.session, l)
  BY <1>1, <1>2, <1>3, <1>5, <1>6, <1>7, EndTold
<1>9. OthersTold(c, l)
  <2>1. e.kind = "model" /\ e.session = call.session
    BY <1>2, RecordedAlso
  <2>2. QED
    BY <1>3, <1>5, <1>6, <1>7, <1>8, <2>1, OthersStay
<1>10. /\ calls'[c] = None
       /\ \A d \in (Runtime \cup {Confidant}) \ {c} : calls'[d] = calls[d]
  BY <1>4 DEF IInv, Typed
<1>11. c # Confidant /\ agent[c] # None => Idle(agent[c].session, l)
  BY <1>6, <1>7, <1>8 DEF CallTold, Owns
<1>12. AllWorded(l)
  BY <1>1, <1>2, <1>3, <1>5, RecordedWorded DEF Told, AllNamed
<1>13. QED
  BY <1>4, <1>8, <1>9, <1>10, <1>11, <1>12, ToldAfter

LEMMA SucceedTold ==
    ASSUME IInv, Told, NEW c \in Runtime \cup {Confidant}, Succeed(c) PROVE Told'
<1>1. PICK q \in Answers(calls[c]) :
          /\ calls[c] # None /\ Timely(calls[c])
          /\ Ended(c, Recorded(calls[c], "complete", "success", q))
  BY DEF Succeed
<1>2. QED
  BY <1>1, EndedTold

LEMMA FailTold ==
    ASSUME IInv, Told, NEW c \in Runtime \cup {Confidant}, Fail(c) PROVE Told'
<1>1. calls[c] # None /\ Ended(c, Recorded(calls[c], "complete", "failed", None))
  BY DEF Fail
<1>2. "failed" # "success"
  OBVIOUS
<1>3. QED
  BY <1>1, <1>2, EndedTold

\* An interview that is the first of its turn finds no event of its session.
LEMMA FirstInterview ==
    ASSUME NEW l, NEW ag, LogGood(l, ag), EventsTold(l), NEW turn, InterviewsOf(l, turn) = {},
           turn \in Nat
    PROVE  \A i \in Invocations(l) : l[i].session # <<"confidant", turn>>
<1>1. SUFFICES ASSUME NEW i \in Invocations(l), l[i].session = <<"confidant", turn>>
               PROVE  FALSE
  OBVIOUS
<1>2. IsConfidant(l[i].session)
  BY <1>1 DEF IsConfidant
<1>3. l[i].phase = "interview"
  BY <1>2, NotConfidant DEF LogGood, CallsGood, CallGood
<1>4. l[i].session = <<"confidant", l[i].turn>> /\ InterviewsOf(l, l[i].turn) # {}
  BY <1>3 DEF EventsTold, EventTold
<1>5. l[i].turn = turn
  BY <1>1, <1>4
<1>6. QED
  BY <1>4, <1>5

LEMMA InterviewTold ==
    ASSUME IInv, Told, NEW r \in Runtime, Interview(r) PROVE Told'
<1>1. PICK shown : shown = IF mode = "persistent" THEN store[r].records ELSE <<>>
  OBVIOUS
<1>2. PICK session : session = <<"confidant", clock.turn>>
  OBVIOUS
<1>3. PICK call : call = Call(session, 0, shown, store[r].head)
  OBVIOUS
<1>4. PICK e : e = Dispatched(call)
  OBVIOUS
<1>5. PICK m : m = Append(log, e)
  OBVIOUS
<1>6. /\ log' = m /\ calls' = [calls EXCEPT ![Confidant] = call]
      /\ UNCHANGED <<agent, mode>> /\ clock.phase = "interview"
      /\ calls[Confidant] = None /\ agent[r] # None
  BY <1>1, <1>2, <1>3, <1>4, <1>5 DEF Interview
<1>7. clock.turn \in Nat
  BY DEF IInv, Typed
<1>8. /\ call.session = session /\ call.invocation = NthCall(session, 0)
      /\ call.turn = clock.turn /\ call.phase = "interview" /\ call.attempt = 1
      /\ call.retryOf = None /\ call.shown = shown /\ call.head = store[r].head
  BY <1>3, <1>6 DEF Call, NthCall
<1>9. IsConfidant(session) /\ Owns(Confidant, session) /\ Named(call) /\ call.invocation # None
  <2>1. IsConfidant(session)
    BY <1>2, <1>7 DEF IsConfidant
  <2>2. Named(call)
    BY <1>8 DEF Named
  <2>3. QED
    BY <1>8, <2>1, <2>2, CallIds DEF Owns
<1>10. AllNamed(log) /\ Reduces(log) /\ IsLog(log) /\ LogGood(log, agent)
  BY GoodNamed DEF IInv, LogGood
<1>11. Accepted(log, mode) /\ EventsTold(log) /\ OthersTold(Confidant, log)
  BY ToldOthers DEF Told
<1>12. Remembers(call, log, mode)
  <2>1. Knows(store[r], agent[r].session, log)
    BY <1>6 DEF IInv, StoresKnow, Live
  <2>2. "interview" # "memory_update"
    OBVIOUS
  <2>3. QED
    BY <1>1, <1>8, <2>1, <2>2 DEF Knows, Remembers
<1>13. Comes(call, log)
  BY <1>2, <1>8 DEF Comes, Traced
<1>14. /\ e.kind = "model" /\ e.session = session /\ e.phase = "interview" /\ e.attempt = 1
       /\ e.turn = clock.turn /\ e.stage = "dispatch" /\ e.invocation = call.invocation
  BY <1>4, <1>8, RecordedAlso DEF Dispatched
<1>15. /\ Len(log) \in Nat /\ Invocations(log) \subseteq 1..Len(log)
       /\ \A i \in 1..Len(log) : m[i] = log[i]
       /\ m[Len(log) + 1] = e
       /\ Invocations(m) = Invocations(log) \cup {Len(log) + 1}
  BY <1>5, <1>10, <1>14, LogLength, Appended, KindsAppended
<1>16. ~Again(m, clock.turn) => \A i \in Invocations(log) : log[i].session # session
  <2>1. SUFFICES ASSUME ~Again(m, clock.turn) PROVE InterviewsOf(log, clock.turn) = {}
    BY <1>2, <1>7, <1>10, <1>11, FirstInterview
  <2>2. /\ InterviewsOf(log, clock.turn) \subseteq InterviewsOf(m, clock.turn)
        /\ Len(log) + 1 \in InterviewsOf(m, clock.turn)
    BY <1>5, <1>10, <1>14, InterviewsAppended
  <2>3. \A i \in InterviewsOf(log, clock.turn) : i # Len(log) + 1
    BY <1>15 DEF InterviewsOf
  <2>4. QED
    BY <2>1, <2>2, <2>3 DEF Again
<1>17. ~Again(m, clock.turn) => Follows(call, log)
  <2>1. SUFFICES ASSUME \A i \in Invocations(log) : log[i].session # session
                 PROVE  Follows(call, log)
    BY <1>16
  <2>2. \A i \in Invocations(log) : log[i].invocation # call.invocation
    BY <1>8, <1>10, <2>1, NthCallIs DEF AllNamed, Named
  <2>3. QED
    BY <1>8, <2>1, <2>2 DEF Follows, Idle
<1>18. Numbered(call, m)
  <2>1. ~Again(m, clock.turn) => \A i \in Invocations(m) : m[i].session = session =>
            m[i].invocation = NthCall(session, 0)
    BY <1>8, <1>14, <1>15, <1>16
  <2>2. 0 \in Nat /\ 0 < 1 /\ 1 - 1 = 0 /\ 1 \in Nat \ {0}
    OBVIOUS
  <2>3. QED
    BY <1>2, <1>8, <2>1, <2>2 DEF Numbered
<1>19. /\ Accepted(m, mode) /\ EventsTold(m) /\ CallTold(Confidant, call, m, mode)
       /\ Named(e) /\ Traced(e, log)
  <2>1. Placed(Confidant, call, log, m)
    BY <1>8, <1>17, <1>18 DEF Placed
  <2>2. QED
    BY <1>4, <1>5, <1>9, <1>10, <1>11, <1>12, <1>13, <2>1, DispatchTold
<1>20. OthersTold(Confidant, m)
  BY <1>5, <1>9, <1>10, <1>11, <1>14, <1>19, OthersStay
<1>21. /\ calls'[Confidant] = call
       /\ \A d \in (Runtime \cup {Confidant}) \ {Confidant} : calls'[d] = calls[d]
  BY <1>6 DEF IInv, Typed
<1>22. AllWorded(m)
  <2>1. "pending" # "success" /\ AllWorded(log)
    BY DEF Told
  <2>2. QED
    BY <1>4, <1>5, <1>10, <2>1, RecordedWorded DEF Dispatched
<1>23. QED
  BY <1>6, <1>19, <1>20, <1>21, <1>22, ToldAfter

\* A call that has ended to be tried again, and is alone in its session, is
\* what its retry follows.
EndsToRetry(e, old) ==
    /\ e.kind = "model" /\ e.stage = "complete" /\ e.outcome = "retryable"
    /\ e.invocation = old.invocation /\ e.attempt = old.attempt /\ e.retryOf = old.retryOf
    /\ Same(e, old)
Renews(new, old) ==
    /\ new.session = old.session /\ new.turn = old.turn /\ new.phase = old.phase
    /\ new.shown = old.shown /\ new.attempt = old.attempt + 1
    /\ new.retryOf = old.invocation /\ old.invocation # None
IsNew(call, l) == \A i \in Invocations(l) : l[i].invocation # call.invocation

LEMMA RetryFollows ==
    ASSUME NEW log0, AllNamed(log0), NEW old, Sent(old, log0), Alone(old, log0),
           NEW e, EndsToRetry(e, old), Idle(old.session, Append(log0, e)),
           NEW new, Renews(new, old), IsNew(new, Append(log0, e))
    PROVE  Follows(new, Append(log0, e))
<1> USE DEF EndsToRetry, Renews, IsNew
<1> PICK l : l = Append(log0, e)
  OBVIOUS
<1>1. /\ Len(log0) \in Nat /\ Invocations(log0) \subseteq 1..Len(log0) /\ IsLog(log0)
      /\ \A i \in 1..Len(log0) : l[i] = log0[i]
      /\ l[Len(log0) + 1] = e
      /\ Invocations(l) = Invocations(log0) \cup {Len(log0) + 1}
  BY LogLength, Appended, KindsAppended DEF AllNamed
<1>2. LastOf(l, old.invocation) = Len(log0) + 1
  BY <1>1, LastOfAppended
<1>3. old.retryOf # old.invocation
  <2>1. PICK k : k = LastOf(log0, old.invocation)
    OBVIOUS
  <2>2. k \in Invocations(log0) /\ log0[k].retryOf = old.retryOf
    BY <1>1, <2>1, LastOfIs DEF Sent
  <2>3. QED
    BY <2>2 DEF Alone
<1>4. \A i \in Invocations(l) : l[i].retryOf # old.invocation
  BY <1>1, <1>3 DEF Alone
<1>5. Retries(l, new)
  <2>1. Len(log0) + 1 # 0
    BY <1>1
  <2>2. Same(e, new)
    BY DEF Same
  <2>3. QED
    BY <1>1, <1>2, <1>4, <2>1, <2>2 DEF Retries
<1>6. QED
  BY <1>5 DEF Follows

\* The confidant's numbers, over the log without a second interview of the turn.
NumbersBelow(l, session, m) ==
    \A i \in Invocations(l) : l[i].session = session =>
        /\ \E n \in Nat : n < m /\ l[i].invocation = NthCall(session, n)
        /\ l[i].invocation # NthCall(session, m)

LEMMA RetryNumbered ==
    ASSUME NEW log0, IsLog(log0), NEW old, Numbered(old, log0),
           NEW e, EndsToRetry(e, old), ~Again(Append(log0, e), old.turn)
    PROVE  NumbersBelow(Append(log0, e), old.session, old.attempt)
<1> USE DEF EndsToRetry, Same
<1> PICK l : l = Append(log0, e)
  OBVIOUS
<1>1. /\ Len(log0) \in Nat /\ Invocations(log0) \subseteq 1..Len(log0)
      /\ \A i \in 1..Len(log0) : l[i] = log0[i]
      /\ l[Len(log0) + 1] = e
      /\ Invocations(l) = Invocations(log0) \cup {Len(log0) + 1}
  BY LogLength, Appended, KindsAppended
<1>2. ~Again(log0, old.turn)
  <2>1. e.kind \in {"memory", "model"}
    OBVIOUS
  <2>2. QED
    BY <2>1, InterviewsAppended
<1>3. old.attempt - 1 \in Nat /\ old.attempt - 1 < old.attempt /\ old.attempt \in Nat
  BY DEF Numbered
<1>4. SUFFICES ASSUME NEW i \in Invocations(l), l[i].session = old.session
               PROVE  \E n \in Nat : n < old.attempt /\ l[i].invocation = NthCall(old.session, n)
  <2>1. \A n \in Nat : n < old.attempt =>
            NthCall(old.session, n) # NthCall(old.session, old.attempt)
    BY <1>3, NthCallIs
  <2>2. QED
    BY <2>1 DEF NumbersBelow
<1>5. CASE i \in Invocations(log0)
  BY <1>1, <1>2, <1>4, <1>5 DEF Numbered
<1>6. CASE i = Len(log0) + 1
  <2>1. l[i].invocation = NthCall(old.session, old.attempt - 1)
    BY <1>1, <1>6 DEF Numbered
  <2>2. QED
    BY <1>3, <2>1
<1>7. QED
  BY <1>1, <1>5, <1>6

\* An incarnation that uses up an ID keeps its session.
LEMMA SessionsKept ==
    ASSUME IInv, NEW r \in Runtime, agent[r] # None, NEW n, n = agent[r].count + 1,
           NEW ag, ag = [agent EXCEPT ![r].count = n]
    PROVE  \A q \in Runtime : ag[q] # None =>
               agent[q] # None /\ ag[q].session = agent[q].session
<1>1. Incarnations(agent) /\ LogGood(log, agent)
  BY DEF IInv
<1>2. Counts(agent, r, ag)
  <2>1. ag = [agent EXCEPT ![r].count = agent[r].count + 1]
    OBVIOUS
  <2>2. QED
    BY <1>1, <2>1, CountsNext, Zenon
<1>3. QED
  BY <1>1, <1>2, Counted

LEMMA RetryTold ==
    ASSUME IInv, Told, NEW c \in Runtime \cup {Confidant}, Retry(c) PROVE Told'
<1>1. PICK old : old = calls[c]
  OBVIOUS
<1>2. PICK id : id = <<"call", old.session, IF c = Confidant THEN old.attempt ELSE agent[c].count>>
  OBVIOUS
<1>3. PICK new : new = [old EXCEPT !.invocation = id, !.attempt = @ + 1, !.retryOf = old.invocation]
  OBVIOUS
<1>4. PICK e : e = Recorded(old, "complete", "retryable", None)
  OBVIOUS
<1>5. PICK l : l = Append(log, e)
  OBVIOUS
<1>6. PICK f : f = Dispatched(new)
  OBVIOUS
<1>7. PICK m : m = Append(l, f)
  OBVIOUS
<1>8. /\ old # None /\ calls' = [calls EXCEPT ![c] = new] /\ log' = m /\ mode' = mode
      /\ IF c = Confidant THEN agent' = agent ELSE agent' = [agent EXCEPT ![c].count = @ + 1]
  BY <1>1, <1>2, <1>3, <1>4, <1>5, <1>6, <1>7, AppendedTwice DEF Retry, IInv, LogGood
<1>9. /\ Awaited(c, old, log, agent) /\ Owns(c, old.session) /\ Named(old)
      /\ old.invocation # None
  BY <1>1, <1>8, AwaitedOwns DEF IInv, CallsAwaited
<1>10. AllNamed(log) /\ Reduces(log) /\ IsLog(log) /\ LogGood(log, agent)
  BY GoodNamed DEF IInv, LogGood
<1>11. /\ LogGood(l, agent) /\ AllNamed(l) /\ Reduces(l) /\ IsLog(l)
  <2>1. "retryable" # "success"
    OBVIOUS
  <2>2. LogGood(l, agent)
    BY <1>4, <1>5, <1>9, <1>10, <2>1, EndsCall DEF IInv
  <2>3. QED
    BY <2>2, GoodNamed DEF LogGood
<1>12. /\ Accepted(log, mode) /\ EventsTold(log) /\ CallTold(c, old, log, mode)
       /\ OthersTold(c, log)
  BY <1>1, <1>8, ToldOthers DEF Told
<1>13. /\ Accepted(l, mode) /\ EventsTold(l) /\ Named(e) /\ Traced(e, log)
       /\ Alone(old, log) => Idle(old.session, l)
  <2>1. "retryable" # "success"
    OBVIOUS
  <2>2. QED
    BY <1>4, <1>5, <1>9, <1>10, <1>12, <2>1, EndTold
<1>14. /\ e.kind = "model" /\ e.session = old.session /\ e.invocation = old.invocation
       /\ e.turn = old.turn /\ e.phase = old.phase /\ e.stage = "complete"
       /\ e.outcome = "retryable" /\ e.shown = old.shown
       /\ e.attempt = old.attempt /\ e.retryOf = old.retryOf
  BY <1>4, RecordedAlso
<1>15. /\ new.session = old.session /\ new.invocation = id /\ new.turn = old.turn
       /\ new.phase = old.phase /\ new.attempt = old.attempt + 1
       /\ new.retryOf = old.invocation /\ new.shown = old.shown /\ new.head = old.head
  <2>1. PICK records : old \in
             [session : {old.session}, invocation : {old.invocation}, turn : Nat,
              phase : Phase, attempt : Nat, retryOf : {old.retryOf}, shown : {records},
              head : {old.head}]
    BY <1>9 DEF Awaited
  <2>2. PICK a, b, t, p, n, o, h :
            /\ a = old.session /\ b = old.invocation /\ t = old.turn /\ p = old.phase
            /\ n = old.attempt /\ o = old.retryOf /\ h = old.head
    OBVIOUS
  <2>3. old = [session |-> a, invocation |-> b, turn |-> t, phase |-> p, attempt |-> n,
               retryOf |-> o, shown |-> records, head |-> h]
    BY <2>1, <2>2
  <2>4. new = [session |-> a, invocation |-> id, turn |-> t, phase |-> p, attempt |-> n + 1,
               retryOf |-> b, shown |-> records, head |-> h]
    BY <1>3, <2>3
  <2>5. old.shown = records
    BY <2>3
  <2>6. QED
    BY <2>2, <2>4, <2>5
<1>16. /\ Len(log) \in Nat /\ Invocations(log) \subseteq 1..Len(log)
       /\ l[Len(log) + 1] = e /\ Len(log) + 1 \in Invocations(l)
  BY <1>5, <1>10, <1>14, LogLength, Appended, KindsAppended
<1>17. PICK n \in Nat : /\ id = NthCall(old.session, n)
                        /\ n = IF c = Confidant THEN old.attempt ELSE agent[c].count
  <2>1. c = Confidant => old.attempt \in Nat
    BY <1>12 DEF CallTold, Numbered
  <2>2. c # Confidant => agent[c].count \in Nat
    BY <1>9, <1>10, LiveTyped DEF Owns, IInv
  <2>3. QED
    BY <1>2, <2>1, <2>2 DEF NthCall
<1>18. Named(new) /\ new.invocation # None
  <2>1. Named(new)
    BY <1>15, <1>17 DEF Named
  <2>2. new.session \in Session \/ IsConfidant(new.session)
    BY <1>9, <1>15, LiveTyped DEF Owns, IInv
  <2>3. QED
    BY <2>1, <2>2, CallIds
<1>19. Remembers(new, l, mode)
  <2>1. Remembers(old, l, mode)
    BY <1>5, <1>10, <1>12, RemembersAppended DEF CallTold
  <2>2. QED
    BY <1>15, <2>1 DEF Remembers
<1>20. Comes(new, l)
  <2>1. Traced(new, l)
    BY <1>14, <1>15, <1>16 DEF Traced
  <2>2. EventTold(e, l)
    BY <1>13, <1>16 DEF EventsTold
  <2>3. QED
    BY <1>14, <1>15, <2>1, <2>2 DEF Comes, EventTold
<1>21. c = Confidant => old.phase = "interview" /\ Numbered(old, log)
  BY <1>9, <1>12 DEF Awaited, CallTold
<1>22. Again(l, old.turn) => Again(m, old.turn)
  <2>1. f.kind \in {"memory", "model"}
    BY <1>6, RecordedAlso DEF Dispatched
  <2>2. QED
    BY <1>7, <1>11, <2>1, InterviewsAppended
<1> EndsToRetry(e, old) /\ Renews(new, old)
  BY <1>9, <1>14, <1>15 DEF EndsToRetry, Renews, Same
<1>23. c = Confidant /\ ~Again(l, old.turn) => NumbersBelow(l, old.session, old.attempt)
  BY <1>5, <1>10, <1>21, RetryNumbered
<1>24. c # Confidant \/ ~Again(l, old.turn) => IsNew(new, l)
  <2> USE DEF IsNew
  <2>1. CASE c # Confidant
    <3>1. id = NthCall(agent[c].session, agent[c].count) /\ c \in Runtime /\ agent[c] # None
      BY <1>9, <1>17, <2>1 DEF Owns
    <3>2. QED
      BY <1>11, <1>15, <3>1, Unused DEF IInv
  <2>2. CASE c = Confidant /\ ~Again(l, old.turn)
    <3>1. SUFFICES ASSUME NEW i \in Invocations(l), l[i].invocation = new.invocation
                   PROVE  FALSE
      BY <2>2
    <3>2. PICK k \in Nat : l[i].invocation = NthCall(l[i].session, k)
      BY <1>11 DEF AllNamed, Named
    <3>3. NthCall(l[i].session, k) = NthCall(old.session, n)
      BY <1>15, <1>17, <3>1, <3>2
    <3>4. l[i].session = old.session
      BY <3>3, NthCallIs
    <3>5. QED
      BY <1>15, <1>17, <1>23, <2>2, <3>1, <3>4 DEF NumbersBelow
  <2>3. QED
    BY <2>1, <2>2
<1>25. Follows(new, l) \/ (c = Confidant /\ new.phase = "interview" /\ Again(m, new.turn))
  <2>1. SUFFICES ASSUME c # Confidant \/ ~Again(l, old.turn) PROVE Follows(new, l)
    BY <1>15, <1>21, <1>22
  <2>2. ~Again(l, old.turn) => ~Again(log, old.turn)
    <3>1. e.kind \in {"memory", "model"}
      BY <1>14
    <3>2. QED
      BY <1>5, <1>10, <3>1, InterviewsAppended
  <2>3. Alone(old, log)
    BY <1>12, <2>1, <2>2 DEF CallTold
  <2>4. Sent(old, log)
    BY <1>12 DEF CallTold
  <2>5. Idle(old.session, l) /\ IsNew(new, l)
    BY <1>13, <1>24, <2>1, <2>3
  <2>6. QED
    BY <1>5, <1>10, <2>3, <2>4, <2>5, RetryFollows
<1>26. /\ f.kind = "model" /\ f.session = new.session /\ f.invocation = new.invocation
  BY <1>6, RecordedAlso DEF Dispatched
<1>27. c = Confidant => Numbered(new, m)
  <2>1. SUFFICES ASSUME c = Confidant PROVE Numbered(new, m)
    OBVIOUS
  <2>2. PICK a \in Nat \ {0} : a = old.attempt
    BY <1>21, <2>1 DEF Numbered
  <2>3. new.attempt = a + 1 /\ a + 1 \in Nat \ {0} /\ (a + 1) - 1 = a /\ a < a + 1
    BY <1>15, <2>2
  <2>4. new.session = <<"confidant", new.turn>> /\ new.invocation = NthCall(new.session, a)
    BY <1>15, <1>17, <1>21, <2>1, <2>2 DEF Numbered
  <2>5. ASSUME ~Again(m, new.turn), NEW i \in Invocations(m), m[i].session = new.session
        PROVE  \E k \in Nat : k < a + 1 /\ m[i].invocation = NthCall(new.session, k)
    <3>1. /\ Len(l) \in Nat /\ Invocations(l) \subseteq 1..Len(l)
          /\ \A j \in 1..Len(l) : m[j] = l[j]
          /\ m[Len(l) + 1] = f
          /\ Invocations(m) = Invocations(l) \cup {Len(l) + 1}
      BY <1>7, <1>11, <1>26, LogLength, Appended, KindsAppended
    <3>2. CASE i = Len(l) + 1
      BY <1>26, <2>2, <2>3, <2>4, <3>1, <3>2
    <3>3. CASE i \in Invocations(l)
      <4>1. PICK k \in Nat : k < old.attempt /\ l[i].invocation = NthCall(old.session, k)
        BY <1>15, <1>22, <1>23, <2>1, <2>5, <3>1, <3>3 DEF NumbersBelow
      <4>2. k < a + 1
        BY <2>2, <4>1
      <4>3. QED
        BY <1>15, <3>1, <3>3, <4>1, <4>2
    <3>4. QED
      BY <3>1, <3>2, <3>3
  <2>6. QED
    BY <2>3, <2>4, <2>5 DEF Numbered
<1>28. /\ Accepted(m, mode) /\ EventsTold(m) /\ CallTold(c, new, m, mode)
       /\ Named(f) /\ Traced(f, l)
  <2>1. Placed(c, new, l, m)
    BY <1>25, <1>27 DEF Placed
  <2>2. QED
    BY <1>6, <1>7, <1>11, <1>13, <1>18, <1>19, <1>20, <2>1, DispatchTold
<1>29. OthersTold(c, m)
  <2>1. OthersTold(c, l)
    BY <1>5, <1>9, <1>10, <1>12, <1>13, <1>14, OthersStay
  <2>2. QED
    BY <1>7, <1>9, <1>11, <1>15, <1>26, <1>28, <2>1, OthersStay
<1>30. /\ calls'[c] = new
       /\ \A d \in (Runtime \cup {Confidant}) \ {c} : calls'[d] = calls[d]
  BY <1>8 DEF IInv, Typed
<1>31. \A r \in Runtime : agent'[r] # None => agent[r] # None /\ agent'[r].session = agent[r].session
  <2>1. CASE c = Confidant
    BY <1>8, <2>1
  <2>2. CASE c # Confidant
    <3>1. c \in Runtime /\ agent[c] # None
      BY <1>9, <2>2 DEF Owns
    <3>2. PICK k : k = agent[c].count + 1
      OBVIOUS
    <3>3. agent' = [agent EXCEPT ![c].count = k]
      BY <1>8, <2>2, <3>2
    <3>4. QED
      BY <3>1, <3>2, <3>3, SessionsKept
  <2>3. QED
    BY <2>1, <2>2
<1>32. AllWorded(l) /\ AllWorded(m)
  <2>1. "pending" # "success" /\ "retryable" # "success" /\ AllWorded(log)
    BY DEF Told
  <2>2. AllWorded(l)
    BY <1>4, <1>5, <1>10, <2>1, RecordedWorded
  <2>3. QED
    BY <1>6, <1>7, <1>11, <2>1, <2>2, RecordedWorded DEF Dispatched
<1>33. new # None
  <2>1. PICK records : old \in
             [session : {old.session}, invocation : {old.invocation}, turn : Nat,
              phase : Phase, attempt : Nat, retryOf : {old.retryOf}, shown : {records},
              head : {old.head}]
    BY <1>9 DEF Awaited
  <2>2. PICK t \in Nat, p \in Phase, a \in Nat : t = old.turn /\ p = old.phase /\ a = old.attempt
    BY <2>1
  <2>3. PICK s, o, h, w : /\ s = old.session /\ o = old.invocation /\ h = old.head
                          /\ w = old.retryOf
    OBVIOUS
  <2>4. new = [session |-> s, invocation |-> NthCall(s, n), turn |-> t, phase |-> p,
               attempt |-> a + 1, retryOf |-> o, shown |-> records, head |-> h]
    <3>1. old = [session |-> s, invocation |-> o, turn |-> t, phase |-> p, attempt |-> a,
                 retryOf |-> w, shown |-> records, head |-> h]
      BY <2>1, <2>2, <2>3
    <3>2. id = NthCall(s, n)
      BY <1>17, <2>3
    <3>3. new = [session |-> s, invocation |-> id, turn |-> t, phase |-> p,
                 attempt |-> a + 1, retryOf |-> o, shown |-> records, head |-> h]
      BY <1>3, <3>1
    <3>4. QED
      BY <3>2, <3>3
  <2>5. s \in Caller
    <3>1. s \in Session \/ IsConfidant(s)
      BY <1>9, <2>3, LiveTyped DEF Owns, IInv
    <3>2. QED
      BY <3>1 DEF IsConfidant, Caller
  <2>6. o \in CallId
    BY <1>9, <2>3, <2>5 DEF Named, NthCall, CallId
  <2>7. QED
    BY <1>11, <1>19, <1>32, <2>4, <2>5, <2>6, CallTyped
<1>34. QED
  BY <1>8, <1>28, <1>29, <1>30, <1>31, <1>32, <1>33, ToldAfter

-----------------------------------------------------------------------------
(* A call that is made after the memory is read *)

LEMMA NamedAppended ==
    ASSUME NEW l, AllNamed(l), NEW e, e.kind = "memory" \/ (e.kind = "model" /\ Named(e))
    PROVE  AllNamed(Append(l, e))
<1>1. PICK m : m = Append(l, e)
  OBVIOUS
<1>2. /\ Len(l) \in Nat /\ Invocations(l) \subseteq 1..Len(l) /\ IsLog(m)
      /\ \A i \in 1..Len(l) : m[i] = l[i]
      /\ m[Len(l) + 1] = e
      /\ e.kind = "memory" => Invocations(m) = Invocations(l)
      /\ e.kind = "model" => Invocations(m) = Invocations(l) \cup {Len(l) + 1}
  BY <1>1, LogLength, Appended, KindsAppended DEF AllNamed
<1>3. \A i \in Invocations(l) : Named(m[i])
  BY <1>2 DEF AllNamed
<1>4. QED
  BY <1>1, <1>2, <1>3 DEF AllNamed

\* A log with one more operation tells as much.
LEMMA OperationTold ==
    ASSUME IInv, Told, NEW e, e.kind = "memory", Worded(e)
    PROVE  LET l == Append(log, e)
           IN  /\ Accepted(l, mode) /\ EventsTold(l) /\ AllWorded(l) /\ AllNamed(l)
               /\ \A c \in Runtime \cup {Confidant} :
                      calls[c] # None => CallTold(c, calls[c], l, mode)
               /\ \A session : Idle(session, log) => Idle(session, l)
<1>1. AllNamed(log) /\ IsLog(log)
  BY GoodNamed DEF IInv, LogGood
<1>2. Accepted(log, mode) /\ EventsTold(log) /\ AllWorded(log)
  BY DEF Told
<1>3. e.kind \in {"memory", "model"} /\ e.kind # "model"
  OBVIOUS
<1>4. /\ Accepted(Append(log, e), mode) /\ EventsTold(Append(log, e))
      /\ AllWorded(Append(log, e)) /\ AllNamed(Append(log, e))
  BY <1>1, <1>2, <1>3, AcceptedAppended, EventsAppended, WordedAppended, NamedAppended
<1>5. ASSUME NEW c \in Runtime \cup {Confidant}, calls[c] # None
      PROVE  CallTold(c, calls[c], Append(log, e), mode)
  <2>1. CallTold(c, calls[c], log, mode) /\ Named(calls[c]) /\ calls[c].invocation # None
    BY <1>5, AwaitedOwns DEF Told
  <2>2. QED
    BY <1>1, <2>1, OtherTold
<1>6. ASSUME NEW session, Idle(session, log) PROVE Idle(session, Append(log, e))
  BY <1>1, <1>6, OtherIdle
<1>7. QED
  BY <1>4, <1>5, <1>6

LEMMA ReadWorded == ASSUME NEW st, NEW session, NEW id
                    PROVE  Worded(Operation(st, Read, session, session, id))
  BY DEF Worded, Operation, Read, Bare

\* What the call of incarnation a is made from: the memory as it is read.
Reads(a, st, read, begun, call) ==
    /\ st = Restored(a.session, log)
    /\ read = Operation(st, Read, a.session, a.session, NthCall(a.session, a.count))
    /\ begun = (IF mode = "persistent" THEN Append(log, read) ELSE log)
    /\ call.head = HeadEvent(begun) /\ call.session = a.session
    /\ call.shown = (IF mode = "persistent" THEN st.records ELSE <<>>)
    /\ call.phase = "memory_update" => mode = "persistent"

LEMMA InvokeRemembers ==
    ASSUME IInv, NEW r \in Runtime, agent[r] # None, MayRestore(store[r]),
           NEW st, NEW read, NEW begun, NEW call, Reads(agent[r], st, read, begun, call)
    PROVE  LogGood(begun, agent) /\ Remembers(call, begun, mode)
<1> USE DEF Reads
<1> PICK a : a = agent[r]
  OBVIOUS
<1>1. Knows(st, a.session, log) /\ st.head = HeadEvent(log)
  BY RestoredNow
<1>2. IsLog(log) /\ Reduces(log) /\ LogGood(log, agent)
  BY DEF IInv, LogGood
<1>3. PICK w : w = IF mode = "persistent" THEN Wrote(st, read, log) ELSE st
  OBVIOUS
<1>4. LogGood(begun, agent) /\ Knows(w, a.session, begun) /\ w.head = HeadEvent(begun)
      /\ w.records = st.records
  <2>1. CASE mode = "persistent"
    <3>1. /\ Proper(log, read) /\ Applied(Append(log, read))
          /\ read.next = a.session /\ st.sequence = Reduced(log).sequence
      BY <1>1, InvokeReads
    <3>2. begun = Append(log, read) /\ w = Wrote(st, read, log)
      BY <1>3, <2>1
    <3>3. read.kind = "memory" /\ read.after = st.records
      BY DEF Operation, After, Read, Bare
    <3>4. w.head = Len(log) + 1 /\ w.records = read.after
      BY <3>2 DEF Wrote
    <3>5. QED
      BY <1>2, <3>1, <3>2, <3>3, <3>4, Writes, HeadEventAppended
  <2>2. CASE mode # "persistent"
    BY <1>1, <1>2, <1>3, <2>2
  <2>3. QED
    BY <2>1, <2>2
<1>5. IsLog(begun) /\ Reduces(begun)
  BY <1>4 DEF LogGood
<1>6. /\ Reduced(begun).records = st.records
      /\ Reduced(begun).head # 0 => Reduced(begun).owner = a.session
  BY <1>4, <1>5, KnowsNewest
<1>7. /\ Reduced(SubSeq(begun, 1, HeadEvent(begun))) = Reduced(begun)
      /\ Reduced(begun).head = HeadEvent(begun)
      /\ HeadEvent(begun) \in 0..Len(begun)
  BY <1>5, HeadEventIs DEF Reduces
<1>8. Remembers(call, begun, mode)
  BY <1>6, <1>7 DEF Remembers
<1>9. QED
  BY <1>4, <1>8

LEMMA InvokeTold == ASSUME IInv, Told, NEW r \in Runtime, Invoke(r) PROVE Told'
<1>1. PICK a : a = agent[r]
  OBVIOUS
<1>2. PICK st : st = Restored(a.session, log)
  OBVIOUS
<1>3. PICK id : id = NthCall(a.session, a.count)
  OBVIOUS
<1>4. PICK read : read = Operation(st, Read, a.session, a.session, id)
  OBVIOUS
<1>5. PICK begun : begun = IF mode = "persistent" THEN Append(log, read) ELSE log
  OBVIOUS
<1>6. PICK shown : shown = IF mode = "persistent" THEN st.records ELSE <<>>
  OBVIOUS
<1>7. PICK call : call = Call(a.session, a.count, shown, HeadEvent(begun))
  OBVIOUS
<1>8. PICK e : e = Dispatched(call)
  OBVIOUS
<1>9. PICK sent : sent = Append(begun, e)
  OBVIOUS
<1>10. PICK f : f = Recorded(call, "complete", "failed", None)
  OBVIOUS
<1>11. PICK n : n = a.count + 1
  OBVIOUS
<1>12. /\ a # None /\ calls[r] = None /\ MayRestore(store[r])
       /\ clock.phase \in {"planning", "memory_update"}
       /\ clock.phase = "memory_update" => mode = "persistent"
       /\ agent' = [agent EXCEPT ![r].count = n] /\ mode' = mode
       /\ \/ log' = sent /\ calls' = [calls EXCEPT ![r] = call]
          \/ log' = Append(sent, f) /\ calls' = calls
  BY <1>1, <1>2, <1>3, <1>4, <1>5, <1>6, <1>7, <1>8, <1>9, <1>10, <1>11 DEF Invoke, NthCall
<1>13. /\ call = [session |-> a.session, invocation |-> id, turn |-> clock.turn,
                  phase |-> clock.phase, attempt |-> 1, retryOf |-> None, shown |-> shown,
                  head |-> HeadEvent(begun)]
       /\ call.session = a.session /\ call.invocation = id /\ call.phase = clock.phase
       /\ call.attempt = 1 /\ call.retryOf = None /\ call.shown = shown
       /\ call.head = HeadEvent(begun)
  BY <1>3, <1>7 DEF Call, NthCall
<1>14. LogGood(begun, agent) /\ Remembers(call, begun, mode)
  <2>1. call.phase = "memory_update" => mode = "persistent"
    BY <1>12, <1>13
  <2>2. call.shown = IF mode = "persistent" THEN st.records ELSE <<>>
    BY <1>6, <1>13
  <2>3. Reads(agent[r], st, read, begun, call)
    BY <1>1, <1>2, <1>3, <1>4, <1>5, <1>13, <2>1, <2>2 DEF Reads
  <2>4. QED
    BY <1>1, <1>12, <2>3, InvokeRemembers
<1>15. /\ Accepted(begun, mode) /\ EventsTold(begun) /\ AllWorded(begun) /\ AllNamed(begun)
       /\ \A c \in Runtime \cup {Confidant} :
              calls[c] # None => CallTold(c, calls[c], begun, mode)
       /\ \A session : Idle(session, log) => Idle(session, begun)
  <2>1. CASE mode = "persistent"
    <3>1. begun = Append(log, read) /\ read.kind = "memory" /\ Worded(read)
      BY <1>4, <1>5, <2>1, ReadWorded DEF Operation
    <3>2. QED
      BY <3>1, OperationTold
  <2>2. CASE mode # "persistent"
    <3>1. begun = log
      BY <1>5, <2>2
    <3>2. AllNamed(log)
      BY GoodNamed DEF IInv
    <3>3. QED
      BY <3>1, <3>2 DEF Told
  <2>3. QED
    BY <2>1, <2>2
<1>16. r # Confidant /\ Owns(r, a.session) /\ a.session \in Session /\ a.count \in Nat
  <2>1. r # Confidant
    BY MemorySentinels
  <2>2. QED
    BY <1>1, <1>12, <2>1, LiveTyped DEF IInv, Owns
<1>17. Named(call) /\ call.invocation # None
  <2>1. Named(call)
    BY <1>3, <1>13, <1>16 DEF Named
  <2>2. QED
    BY <1>13, <1>16, <2>1, CallIds
<1>18. OthersTold(r, begun) /\ Idle(a.session, begun)
  BY <1>1, <1>12, <1>15 DEF OthersTold, Told, Live
<1>19. Comes(call, begun)
  BY <1>12, <1>13 DEF Comes, Traced
<1>20. Placed(r, call, begun, sent)
  <2>1. \A i \in Invocations(begun) : begun[i].invocation # id
    BY <1>1, <1>3, <1>12, <1>14, Unused DEF IInv
  <2>2. Follows(call, begun)
    BY <1>13, <1>18, <2>1 DEF Follows
  <2>3. QED
    BY <1>16, <2>2 DEF Placed
<1>21. Reduces(begun) /\ IsLog(begun)
  BY <1>14 DEF LogGood
<1>22. /\ Accepted(sent, mode) /\ EventsTold(sent) /\ CallTold(r, call, sent, mode)
       /\ Named(e) /\ e.session = call.session /\ Traced(e, begun)
  BY <1>8, <1>9, <1>14, <1>15, <1>17, <1>19, <1>20, <1>21, DispatchTold
<1>23. e.kind = "model"
  BY <1>8, RecordedAlso DEF Dispatched
<1>24. OthersTold(r, sent)
  BY <1>9, <1>13, <1>15, <1>16, <1>18, <1>22, <1>23, OthersStay
<1>25. AllWorded(sent) /\ AllNamed(sent) /\ Reduces(sent) /\ IsLog(sent)
  <2>1. "pending" # "success"
    OBVIOUS
  <2>2. AllWorded(sent)
    BY <1>8, <1>9, <1>15, <1>21, <2>1, RecordedWorded DEF Dispatched
  <2>3. AllNamed(sent) /\ Reduces(sent)
    BY <1>9, <1>15, <1>21, <1>22, <1>23, NamedAppended, ModelReduces
  <2>4. QED
    BY <2>2, <2>3 DEF AllNamed
<1>26. \A q \in Runtime : agent'[q] # None =>
           agent[q] # None /\ agent'[q].session = agent[q].session
  BY <1>1, <1>11, <1>12, SessionsKept
<1>27. CASE log' = sent /\ calls' = [calls EXCEPT ![r] = call]
  <2>1. /\ calls'[r] = call
        /\ \A d \in (Runtime \cup {Confidant}) \ {r} : calls'[d] = calls[d]
    BY <1>27 DEF IInv, Typed
  <2>2. call # None
    <3>1. Remembers(call, sent, mode)
      BY <1>22 DEF CallTold
    <3>2. clock.turn \in Nat /\ clock.phase \in Phase /\ 1 \in Nat
      BY DEF IInv, Typed
    <3>3. a.session \in Caller
      BY <1>16 DEF Caller
    <3>4. None \in CallId \cup {None}
      OBVIOUS
    <3>5. QED
      BY <1>3, <1>13, <1>16, <1>25, <3>1, <3>2, <3>3, <3>4, CallTyped
  <2>3. QED
    BY <1>12, <1>22, <1>24, <1>25, <1>26, <1>27, <2>1, <2>2, ToldAfter
<1>28. CASE log' = Append(sent, f) /\ calls' = calls
  <2>1. PICK l : l = Append(sent, f)
    OBVIOUS
  <2>2. "failed" # "success"
    OBVIOUS
  <2>3. /\ Accepted(l, mode) /\ EventsTold(l) /\ Named(f) /\ Traced(f, sent)
        /\ Alone(call, sent) => Idle(call.session, l)
    BY <1>10, <1>17, <1>22, <1>25, <2>1, <2>2, EndTold
  <2>4. f.kind = "model" /\ f.session = call.session
    BY <1>10, RecordedAlso
  <2>5. OthersTold(r, l)
    BY <1>13, <1>16, <1>24, <1>25, <2>1, <2>3, <2>4, OthersStay
  <2>6. AllWorded(l)
    BY <1>10, <1>25, <2>1, <2>2, RecordedWorded
  <2>7. Idle(agent[r].session, l)
    BY <1>1, <1>13, <1>16, <1>22, <2>3 DEF CallTold
  <2>8. log' = l /\ calls'[r] = None
        /\ \A d \in (Runtime \cup {Confidant}) \ {r} : calls'[d] = calls[d]
    BY <1>12, <1>28, <2>1
  <2>9. QED
    BY <1>12, <1>26, <2>3, <2>5, <2>6, <2>7, <2>8, ToldAfter
<1>29. QED
  BY <1>12, <1>27, <1>28

-----------------------------------------------------------------------------
(* What is written, and new incarnations *)

LEMMA WrittenTold ==
    ASSUME IInv, Told, UNCHANGED <<calls, mode>>,
           \/ log' = log
           \/ \E e : e.kind = "memory" /\ Worded(e) /\ log' = Append(log, e),
           \A r \in Runtime : agent'[r] # None /\ calls[r] = None => Idle(agent'[r].session, log)
    PROVE  Told'
<1>1. PICK l : log' = l
  OBVIOUS
<1>2. /\ Accepted(l, mode) /\ EventsTold(l) /\ AllWorded(l)
      /\ \A c \in Runtime \cup {Confidant} :
             calls[c] # None => CallTold(c, calls[c], l, mode)
      /\ \A session : Idle(session, log) => Idle(session, l)
  <2>1. CASE log' = log
    BY <1>1, <2>1 DEF Told
  <2>2. CASE \E e : e.kind = "memory" /\ Worded(e) /\ log' = Append(log, e)
    BY <1>1, <2>2, OperationTold
  <2>3. QED
    BY <2>1, <2>2
<1>3. \A c \in Runtime \cup {Confidant} :
          calls'[c] # None => CallTold(c, calls'[c], log', mode')
  BY <1>1, <1>2
<1>4. \A r \in Runtime : agent'[r] # None /\ calls'[r] = None => Idle(agent'[r].session, log')
  BY <1>1, <1>2
<1>5. QED
  BY <1>1, <1>2, <1>3, <1>4 DEF Told, Live

LEMMA SameAgentsIdle ==
    ASSUME Told, UNCHANGED agent
    PROVE  \A r \in Runtime : agent'[r] # None /\ calls[r] = None => Idle(agent'[r].session, log)
  BY DEF Told, Live

\* What is answered for the memory has a text.
LEMMA AnswerWorded ==
    ASSUME IInv, Told, NEW i \in Answered, NEW st, NEW session, NEW next, NEW id
    PROVE  LET e == Operation(st, log[i].request, session, next, id)
           IN  e.kind = "memory" /\ Worded(e)
<1>1. i \in Invocations(log) /\ log[i].outcome = "success" /\ log[i].phase = "memory_update"
  BY DEF Answered
<1>2. i \in 1..Len(log) /\ log[i].kind = "model"
  BY <1>1, LogLength DEF IInv, LogGood, Invocations
<1>3. log[i].request.text \in Nat
  BY <1>1, <1>2 DEF Told, AllWorded, Worded
<1>4. QED
  BY <1>3 DEF Operation, Worded

LEMMA WritesTold ==
    ASSUME IInv, Told, NEW r \in Runtime,
           ApplyMemoryOperation(r) \/ UpdateMemory(r) \/ Write(r)
    PROVE  Told'
<1>1. UNCHANGED <<calls, mode, agent>>
  BY DEF ApplyMemoryOperation, UpdateMemory, Write
<1>2. \E e : e.kind = "memory" /\ Worded(e) /\ log' = Append(log, e)
  <2>1. CASE ApplyMemoryOperation(r)
    <3>1. PICK i \in Answered :
              Apply(Restored(agent[r].session, log), agent[r].session, log[i].invocation, log[i].request)
      BY <2>1 DEF ApplyMemoryOperation
    <3>2. QED
      BY <3>1, AnswerWorded DEF Apply
  <2>2. CASE UpdateMemory(r)
    <3>1. PICK i \in Answered :
              Apply(store[r], agent[r].session, log[i].invocation, log[i].request)
      BY <2>2 DEF UpdateMemory
    <3>2. QED
      BY <3>1, AnswerWorded DEF Apply
  <2>3. CASE Write(r)
    <3>1. PICK q \in Requests(store[r].records) : log' = Append(log,
              Operation(store[r], q, agent[r].session, agent[r].session, <<"host", None, 0>>))
      BY <2>3 DEF Write
    <3>2. PICK e : e = Operation(store[r], q, agent[r].session, agent[r].session, <<"host", None, 0>>)
      OBVIOUS
    <3>3. e.kind = "memory" /\ e.request = q
      BY <3>2 DEF Operation
    <3>4. q.text \in Nat
      BY <3>1, RequestsWorded
    <3>5. QED
      BY <3>1, <3>2, <3>3, <3>4 DEF Worded
  <2>4. QED
    BY <2>1, <2>2, <2>3
<1>3. QED
  BY <1>1, <1>2, SameAgentsIdle, WrittenTold

LEMMA UpdateMemoryDurablyTold ==
    ASSUME IInv, Told, NEW session, UpdateMemoryDurably(session) PROVE Told'
<1>1. UNCHANGED <<calls, mode, agent>>
  BY DEF UpdateMemoryDurably, running
<1>2. PICK i \in Answered :
          Apply(Restored(session, log), session, log[i].invocation, log[i].request)
  BY DEF UpdateMemoryDurably
<1>3. \E e : e.kind = "memory" /\ Worded(e) /\ log' = Append(log, e)
  BY <1>2, AnswerWorded DEF Apply
<1>4. QED
  BY <1>1, <1>3, SameAgentsIdle, WrittenTold

\* A session that has just been reserved has no events.
LEMMA FreshIdle == ASSUME IInv PROVE Idle(FreshSession, log)
<1>1. FreshSession \notin Sessions(log) /\ IsLog(log)
  BY FreshIsFresh DEF IInv, LogGood, Typed
<1>2. \A i \in Invocations(log) : log[i].session # FreshSession
  BY <1>1 DEF Sessions, Invocations
<1>3. QED
  BY <1>2 DEF Idle

LEMMA RecoveryWorded ==
    ASSUME NEW st, NEW session, NEW next, NEW id
    PROVE  LET e == Operation(st, Bare("RECOVER"), session, next, id)
           IN  e.kind = "memory" /\ Worded(e)
  BY DEF Operation, Worded, Bare

LEMMA ConstructTold == ASSUME IInv, Told, NEW r \in Runtime, Construct(r) PROVE Told'
<1>1. UNCHANGED <<calls, mode>> /\ agent[r] = None
  BY DEF Construct
<1>2. \/ log' = log
      \/ \E e : e.kind = "memory" /\ Worded(e) /\ log' = Append(log, e)
  BY RecoveryWorded DEF Construct
<1>3. PICK s : s = FreshSession
  OBVIOUS
<1>4. agent' = [agent EXCEPT ![r] = [session |-> s, count |-> 0]]
  BY <1>3 DEF Construct
<1>5. \A q \in Runtime : agent'[q] # None =>
          agent'[q].session = s \/ (agent[q] # None /\ agent'[q] = agent[q])
  BY <1>4 DEF IInv, Incarnations
<1>6. Idle(s, log)
  BY <1>3, FreshIdle
<1>7. \A q \in Runtime : agent'[q] # None /\ calls[q] = None => Idle(agent'[q].session, log)
  BY <1>5, <1>6 DEF Told, Live
<1>8. QED
  BY <1>1, <1>2, <1>7, WrittenTold

LEMMA ResetTold == ASSUME IInv, Told, NEW r \in Runtime, Reset(r) PROVE Told'
<1>1. UNCHANGED <<calls, mode>> /\ agent[r] # None
  BY DEF Reset
<1>2. \E e : e.kind = "memory" /\ Worded(e) /\ log' = Append(log, e)
  BY RecoveryWorded DEF Reset
<1>3. PICK s : s = FreshSession
  OBVIOUS
<1>4. agent' = [agent EXCEPT ![r].session = s]
  BY <1>3 DEF Reset
<1>5. \A q \in Runtime : agent'[q] # None =>
          agent'[q].session = s \/ (agent[q] # None /\ agent'[q] = agent[q])
  <2>1. agent[r] = [session |-> agent[r].session, count |-> agent[r].count]
    BY <1>1, LiveTyped DEF IInv
  <2>2. PICK t, n : agent[r] = [session |-> t, count |-> n]
    BY <2>1
  <2>3. [agent[r] EXCEPT !.session = s].session = s
    BY <2>2
  <2>4. QED
    BY <1>4, <2>3 DEF IInv, Incarnations
<1>6. Idle(s, log)
  BY <1>3, FreshIdle
<1>7. \A q \in Runtime : agent'[q] # None /\ calls[q] = None => Idle(agent'[q].session, log)
  BY <1>5, <1>6 DEF Told, Live
<1>8. QED
  BY <1>1, <1>2, <1>7, WrittenTold

-----------------------------------------------------------------------------
(* The phases, the death of the process, and the beginning *)

LEMMA RestartTold == ASSUME IInv, Told, Restart PROVE Told'
<1>1. UNCHANGED <<log, mode>> /\ agent' = [r \in Runtime |-> None]
  BY DEF Restart
<1>2. \A c \in Runtime \cup {Confidant} : calls'[c] = None
  BY DEF Restart, IInv, Typed
<1>3. Accepted(log', mode') /\ EventsTold(log') /\ AllWorded(log')
  BY <1>1 DEF Told
<1>4. QED
  BY <1>1, <1>2, <1>3 DEF Told, Live

LEMMA QuietTold == ASSUME IInv, Told, UNCHANGED <<log, mode, agent, calls>> PROVE Told'
  BY SameAgentsIdle, WrittenTold

LEMMA InitiallyTold == Init => Told
<1> SUFFICES ASSUME Init PROVE Told
  OBVIOUS
<1>1. /\ log = <<>>
      /\ \A r \in Runtime : agent[r] = None
      /\ \A c \in Runtime \cup {Confidant} : calls[c] = None
  BY DEF Init
<1>2. IsLog(log) /\ Len(log) = 0
  <2>1. <<>> \in Seq({}) /\ Len(<<>>) = 0
    OBVIOUS
  <2>2. QED
    BY <1>1, <2>1 DEF IsLog
<1>3. Invocations(log) = {} /\ 1..Len(log) = {}
  BY <1>2, LogLength
<1>4. Accepted(log, mode) /\ EventsTold(log) /\ AllWorded(log)
  BY <1>3 DEF Accepted, EventsTold, AllWorded
<1>5. QED
  BY <1>1, <1>4 DEF Told, Live

LEMMA ToldPreserved == ASSUME IInv, Told, [Next]_vars PROVE Told'
<1>1. CASE UNCHANGED vars
  BY <1>1, QuietTold DEF vars, running
<1>2. ASSUME NEW r \in Runtime,
             \/ Construct(r) \/ Reset(r) \/ Invoke(r) \/ Interview(r)
             \/ ApplyMemoryOperation(r) \/ UpdateMemory(r) \/ Write(r)
      PROVE  Told'
  BY <1>2, ConstructTold, ResetTold, InvokeTold, InterviewTold, WritesTold
<1>3. ASSUME NEW s, UpdateMemoryDurably(s) PROVE Told'
  BY <1>3, UpdateMemoryDurablyTold
<1>4. ASSUME NEW c \in Runtime \cup {Confidant}, Succeed(c) \/ Fail(c) \/ Retry(c) PROVE Told'
  BY <1>4, SucceedTold, FailTold, RetryTold
<1>5. CASE Restart
  BY <1>5, RestartTold
<1>6. CASE Ready \/ Expire \/ Advance
  BY <1>6, QuietTold DEF Ready, Expire, Advance, running
<1>7. QED
  BY <1>1, <1>2, <1>3, <1>4, <1>5, <1>6 DEF Next

-----------------------------------------------------------------------------
(* The theorem *)

\* What is accepted of an event is what the reconstruction asks of it.
LEMMA ValidIs ==
    ASSUME IsLog(log), NEW k \in Invocations(log),
           Valid(SubSeq(log, 1, k - 1), log[k], mode)
    PROVE  ValidInvocation(k)
<1>1. PICK e : e = log[k]
  OBVIOUS
<1>2. PICK b : b = SubSeq(log, 1, k - 1)
  OBVIOUS
<1>3. PICK memory : memory = Reduced(b)
  OBVIOUS
<1>4. PICK source : source = LastOf(b, e.invocation)
  OBVIOUS
<1>5. PICK old : old = LastOf(b, e.retryOf)
  OBVIOUS
<1>6. Fitting(b, e, mode) /\ IF e.stage = "complete" THEN Ends(b, e) ELSE Begins(b, e)
  BY <1>1, <1>2 DEF Valid
<1>7. /\ IsLog(b) /\ Len(b) \in Nat /\ Invocations(b) \subseteq 1..Len(b)
      /\ \A i \in 1..Len(b) : b[i] = log[i]
  <2>1. k \in 1..Len(log) /\ Len(log) \in Nat
    BY LogLength
  <2>2. PICK T : log \in Seq(T)
    BY DEF IsLog
  <2>3. b \in Seq(T) /\ \A i \in 1..Len(b) : b[i] = log[i]
    BY <1>2, <2>1, <2>2
  <2>4. IsLog(b)
    BY <2>3 DEF IsLog
  <2>5. QED
    BY <2>3, <2>4, LogLength
<1>8. \A id : LastOf(b, id) # 0 => b[LastOf(b, id)] = log[LastOf(b, id)]
  BY <1>7, LastOfIs
<1>9. \A i \in Invocations(b) : b[i] = log[i]
  BY <1>7
<1>10. /\ e.when.lives
       /\ e.phase # "interview" => e.turn = e.when.turn /\ e.phase = e.when.phase
       /\ e.phase # "interview" /\ memory.head # 0 => memory.owner = e.session
       /\ e.shown = (IF mode = "persistent" THEN memory.records ELSE <<>>)
       /\ e.phase = "memory_update" => mode = "persistent"
       /\ e.outcome = "success" =>
            /\ ~(e.when.expired /\ e.when.turn = e.turn /\ e.when.phase = e.phase)
            /\ e.phase = "memory_update" => Fits(memory.records, e.request)
  BY <1>3, <1>6 DEF Fitting
<1>11. ASSUME e.stage = "complete"
       PROVE  /\ source # 0 /\ log[source].stage = "dispatch"
              /\ log[source].session = e.session /\ log[source].turn = e.turn
              /\ log[source].phase = e.phase /\ log[source].shown = e.shown
              /\ log[source].attempt = e.attempt /\ log[source].retryOf = e.retryOf
  BY <1>4, <1>6, <1>8, <1>11 DEF Ends, Same
<1>12. ASSUME e.stage # "complete"
       PROVE  /\ source = 0
              /\ \A i \in Invocations(b) : log[i].session = e.session =>
                   log[LastOf(b, log[i].invocation)].stage = "complete"
              /\ IF e.retryOf = None THEN e.attempt = 1
                 ELSE /\ old # 0 /\ log[old].outcome = "retryable"
                      /\ e.attempt = log[old].attempt + 1
                      /\ log[old].session = e.session /\ log[old].turn = e.turn
                      /\ log[old].phase = e.phase /\ log[old].shown = e.shown
                      /\ \A i \in Invocations(b) : log[i].retryOf # e.retryOf
  <2>1. Begins(b, e)
    BY <1>6, <1>12
  <2>2. ASSUME NEW i \in Invocations(b), log[i].session = e.session
        PROVE  log[LastOf(b, log[i].invocation)].stage = "complete"
    <3>1. Complete(b, b[i].invocation) /\ LastOf(b, b[i].invocation) # 0
      BY <1>7, <1>9, <2>1, <2>2, LastOfIs DEF Begins
    <3>2. QED
      BY <1>8, <1>9, <3>1 DEF Complete
  <2>3. ASSUME e.retryOf # None
        PROVE  /\ old # 0 /\ log[old].outcome = "retryable"
               /\ e.attempt = log[old].attempt + 1
               /\ log[old].session = e.session /\ log[old].turn = e.turn
               /\ log[old].phase = e.phase /\ log[old].shown = e.shown
               /\ \A i \in Invocations(b) : log[i].retryOf # e.retryOf
    BY <1>5, <1>8, <1>9, <2>1, <2>3 DEF Begins, Retries, Same
  <2>4. QED
    BY <1>4, <2>1, <2>2, <2>3 DEF Begins
<1>13. QED
  BY <1>1, <1>2, <1>3, <1>4, <1>5, <1>10, <1>11, <1>12 DEF ValidInvocation

\* Two interviews that begin are more than one.
LEMMA AgainIs ==
    ASSUME IsLog(log), NEW turn, Again(log, turn) PROVE Cardinality(Interviews(turn)) > 1
<1>1. PICK i, j \in InterviewsOf(log, turn) : i # j
  BY DEF Again
<1>2. PICK I : I = Interviews(turn)
  OBVIOUS
<1>3. i \in I /\ j \in I
  BY <1>1, <1>2 DEF InterviewsOf, Interviews
<1>4. IsFiniteSet(I)
  <2>1. Len(log) \in Nat /\ I \subseteq 1..Len(log)
    BY <1>2, LogLength DEF Interviews
  <2>2. IsFiniteSet(1..Len(log))
    BY <2>1, FS_Interval
  <2>3. QED
    BY <2>1, <2>2, FS_Subset
<1>5. Cardinality({i, j}) = 2
  <2>1. Cardinality({i}) = 1 /\ IsFiniteSet({i})
    BY FS_Singleton
  <2>2. Cardinality({i} \cup {j}) = Cardinality({i}) + 1
    BY <1>1, <2>1, FS_AddElement
  <2>3. {i} \cup {j} = {i, j}
    OBVIOUS
  <2>4. QED
    BY <2>1, <2>2, <2>3
<1>6. Cardinality({i, j}) <= Cardinality(I) /\ Cardinality(I) \in Nat
  BY <1>3, <1>4, FS_Subset, FS_CardinalityType
<1>7. QED
  BY <1>2, <1>5, <1>6

LEMMA ToldReconstructs == ASSUME IInv, Told PROVE Reconstructs
<1>1. SUFFICES ASSUME NEW k \in Invocations(log), Undisturbed(k), ~ValidInvocation(k)
               PROVE  /\ log[k].phase = "interview"
                      /\ Cardinality(Interviews(log[k].turn)) > 1
  BY DEF Reconstructs
<1>2. IsLog(log) /\ log[k].kind = "model"
  BY DEF IInv, LogGood, Invocations
<1>3. Accepts(SubSeq(log, 1, k - 1), log[k], mode) \/ Repeats(log, log[k])
  BY DEF Told, Accepted
<1>4. Calm(SubSeq(log, 1, k - 1), log[k])
  BY <1>1, <1>2 DEF Undisturbed, Calm
<1>5. ~Valid(SubSeq(log, 1, k - 1), log[k], mode)
  BY <1>1, <1>2, ValidIs
<1>6. Repeats(log, log[k])
  BY <1>3, <1>4, <1>5 DEF Accepts
<1>7. QED
  BY <1>2, <1>6, AgainIs DEF Repeats

\* Every call of the model that is recorded undisturbed is accepted when the
\* run is reconstructed from its evidence, over any number of incarnations,
\* retries, writers, turns and deaths of the process (validateInvocation of
\* src/replay.js, of what invokeRecordedModel of src/agent.js has recorded).
THEOREM Reconstruction == Spec => []Reconstructs
<1>1. Init => IInv /\ Told
  BY Initially, InitiallyTold
<1>2. IInv /\ Told /\ [Next]_vars => (IInv /\ Told)'
  BY Preserved, ToldPreserved
<1>3. IInv /\ Told => Reconstructs
  BY ToldReconstructs
<1>4. QED
  BY <1>1, <1>2, <1>3, PTL DEF Spec
=============================================================================
