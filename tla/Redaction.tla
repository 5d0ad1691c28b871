------------------------------ MODULE Redaction ------------------------------
(***************************************************************************)
(* What a redaction erases (redactionDependencies and redactBundle of      *)
(* src/forensics.js), on the evidence that the memory and the model calls  *)
(* of a polity leave (#archive of src/memory.js, invokeRecordedModel of    *)
(* src/agent.js, interviewAll of src/confidant.js).                        *)
(*                                                                         *)
(* Payloads are addressed by their content: a payload is its content, the  *)
(* kind of it, whom or what it is of, the places or handles and the texts  *)
(* it has, and two that are equal are one, whosever they are: polities may *)
(* write and answer the same.  Texts are numbers, and 0 is the empty one.  *)
(* Next to the evidence, `flow' says what was in truth made of what.       *)
(***************************************************************************)
EXTENDS Naturals, Sequences, SequencesExt, FiniteSetsExt, TLC

CONSTANTS
    Polity,
    Text,       \* what polities write and answer
    MaxSteps    \* bound on what the polities do, each step several events

ASSUME StepsBound == MaxSteps \in Nat
ASSUME TextsAreNumbers == Text \subseteq Nat \ {0}

VARIABLES
    bundle,     \* the evidence: its events, and which payload names which;
                \* the records each polity holds; what was made of what
    steps
vars == <<bundle, steps>>

Payload(kind, of, places, texts) == <<kind, of, places, texts>>
Raw(t) == Payload("raw", "", <<>>, <<t>>)
Empty == Raw(0)
TextsOf(x) == ToSet(x[4])

Memory(records) ==
    Payload("memory", "", [i \in DOMAIN records |-> records[i][1]],
                          [i \in DOMAIN records |-> records[i][2]])
Request(op, handles, texts) == Payload("request", op, handles, texts)

-----------------------------------------------------------------------------
(* The evidence that is recorded. *)

Here(b) == Len(b.events) + 1
EventPayload(b) == Payload("event", "", <<Here(b)>>, <<>>)

\* Appends an event whose payload, or another one, mentions others by address.
Recording(b, event, mentions, flow) ==
    [b EXCEPT !.events = Append(@, event), !.flow = @ \cup flow, !.mentions = @ \cup mentions]

LastMemory(b, p) ==
    LET own == {i \in DOMAIN b.events : b.events[i].type = "MemoryOperation" /\ b.events[i].of = p}
    IN {i \in own : \A j \in own : j <= i}

\* #archive: a request turns the records held into others.
Archived(b, p, request, records, invocation, inputs) ==
    LET before == Memory(b.held[p])
        after == Memory(records)
        available == Payload("available", "", <<Here(b)>>, <<>>)
        used == {before, request} \cup inputs
        event == [type |-> "MemoryOperation", of |-> p, payload |-> EventPayload(b),
                  parents |-> LastMemory(b, p), provenance |-> {},
                  read |-> request[2] = "READ", invocation |-> invocation, inputs |-> used,
                  output |-> after, available |-> available]
        next == Recording(b, event,
            ({event.payload} \X (used \cup {after, available})) \cup ({available} \X ({before} \cup inputs)),
            {<<x, after>> : x \in {before} \cup (IF event.read THEN {} ELSE {request})})
    IN [next EXCEPT !.held[p] = records]

\* What a model is shown: the memory phase shows the records in the projection,
\* too (memoryInterface of src/memory.js).
Shown(b, p, phase) ==
    LET m == Memory(b.held[p])
        projection == Payload("projection", <<p, phase>>, <<>>, <<>>)
        of(kind) == Payload(kind, <<p, phase>>, IF phase = "memory_update" THEN m[3] ELSE <<>>, m[4])
    IN [projection |-> projection, memory |-> m, contents |-> [i \in DOMAIN m[4] |-> Raw(m[4][i])],
        visible |-> IF phase = "memory_update" THEN of("visible")
                    ELSE Payload("visible", <<p, phase>>, <<>>, <<>>),
        prompt |-> of("prompt"), body |-> of("body"), phase |-> phase]

ShownFlow(s) ==
    LET told == {x \in ToSet(s.contents) : x # Empty} IN
    {<<s.projection, s.visible>>, <<s.visible, s.prompt>>, <<s.prompt, s.body>>}
      \cup (told \X {s.prompt}) \cup ({s.memory} \X told)
      \cup (IF told # {} /\ s.phase = "memory_update" THEN {<<s.memory, s.visible>>} ELSE {})

\* record of invokeRecordedModel: what is known of an attempt at a stage.
Recorded(b, p, s, stage, invocation, parent, answer, context) ==
    LET instruction == Payload("instruction", s.phase, <<>>, <<>>)
        diagnostic == Payload("diagnostic", "", <<Here(b)>>, <<>>)
        event == [type |-> "ModelInvocation", of |-> p, payload |-> EventPayload(b),
                  parents |-> {parent},
                  provenance |-> {diagnostic, s.body, answer.response} \cup context,
                  shown |-> s, instruction |-> instruction, invocation |-> invocation,
                  diagnostic |-> diagnostic, answer |-> answer]
    IN Recording(b, event,
        ({event.payload} \X ({instruction, s.projection, s.visible, s.prompt, answer.output}
                               \cup ToSet(s.contents)
                               \cup (IF s.phase = "planning" THEN answer.parsed ELSE {})))
          \cup ({diagnostic} \X ({s.body, answer.response} \cup answer.parsed \cup context)),
        ShownFlow(s) \cup (({answer.response, answer.output} \ {Empty}) \X answer.parsed)
          \cup ({s.body} \X ({answer.response, answer.output} \ {Empty})))

Pending == [response |-> Empty, output |-> Empty, parsed |-> {}]
\* An answer: an action, or a request for an operation on memory.
Answer(what, handles, texts) ==
    [response |-> Payload("response", what, handles, texts),
     output |-> Payload("raw", what, handles, texts),
     parsed |-> {IF what = "action" THEN Payload(what, "", handles, texts)
                 ELSE Request(what, handles, texts)}]
\* An answer in an interview: the text, as a record of it would be.
Said(t) ==
    [response |-> Payload("response", "interview", <<>>, <<t>>), output |-> Raw(t),
     parsed |-> {Payload("interview", "", <<>>, <<t>>)}]
\* What a transport that failed has left: bytes, and nothing parsed.
Broken(t) == [Answer("action", <<>>, <<t>>) EXCEPT !.parsed = {}]

\* An attempt: its dispatch and what ended it.
Attempted(b, p, s, invocation, parent, answer, context) ==
    LET sent == Recorded(b, p, s, "dispatch", invocation, parent, Pending, context)
    IN Recorded(sent, p, s, "complete", invocation, Len(sent.events), answer, context)

\* invokeRecordedModel up to its first attempt.
Issued(b, p, s) ==
    Recording(b, [type |-> "ProjectionIssued", of |-> p, payload |-> s.projection,
                  parents |-> {}, provenance |-> {}], {}, {})

\* invoke of src/agent.js: the memory is read first.
Invoked(b, p, phase, answers) ==
    LET s == Shown(b, p, phase)
        id == Here(b)
        read == Archived(b, p, Request("READ", <<>>, <<>>), b.held[p], id, {s.projection})
        issued == Issued(read, p, s)
        context == {Payload("configuration", "", <<>>, <<>>)}
        once == Attempted(issued, p, s, id, Len(issued.events), answers[1], context)
    IN IF Len(answers) = 1 THEN once
       ELSE Attempted(once, p, s, Here(once), Len(once.events), answers[2], context)

\* apply of src/memory.js, after a call of the memory phase whose answer it is.
Applied(b, p, request, records) ==
    LET e == b.events[Len(b.events)]
    IN Archived(b, p, request, records, e.invocation,
                {e.shown.prompt, e.answer.output, e.shown.projection, request} \cup ToSet(e.shown.contents))

\* interviewAll: without a read, of a session of its own.
Interviewed(b, p, answer) ==
    LET s == Shown(b, p, "interview")
        isolation == Payload("isolation", "", <<Here(b)>>, <<>>)
        context == Payload("configuration", "", <<Here(b)>>, <<>>)
        issued == Issued(b, p, s)
        asked == Attempted(issued, p, s, Here(b), Len(issued.events), answer, {context})
        event == [type |-> "InterviewResponse", of |-> p, payload |-> EventPayload(asked),
                  parents |-> {Len(asked.events)}, provenance |-> {},
                  projection |-> s.projection, isolation |-> isolation, response |-> answer.output]
    IN Recording(asked, event,
        ({event.payload} \X {s.projection, isolation, answer.output})
          \cup {<<isolation, s.projection>>, <<context, isolation>>}, {})

-----------------------------------------------------------------------------
(* What a polity, or the host for it, may do next. *)

\* Requests of the memory, with what they make of the records: to remember, to
\* replace everything by another text, and to forget everything.  The handle of
\* a record is made of the polity and of its operations before.
Operations(b, p) ==
    LET held == b.held[p]
        k == Here(b)
        all == [i \in DOMAIN held |-> held[i][1]]
    IN {<<Request("REMEMBER", <<>>, <<t>>), Append(held, <<k, t>>)>> : t \in Text \cup {0}}
         \cup {<<Request("COMPRESS", all, <<t>>), <<<<k, t>>>>>> : t \in IF held = <<>> THEN {} ELSE Text}
         \cup {<<Request("CLEAR", <<>>, <<>>), <<>>>>}

\* The host, for a polity.
Operate(p) ==
    \E o \in Operations(bundle, p) : bundle' = Archived(bundle, p, o[1], o[2], Here(bundle), {})

\* A decision, at once or after an attempt whose transport failed.
Decide(p) ==
    \E t \in Text : \E before \in {<<>>} \cup {<<Broken(u)>> : u \in Text} :
        bundle' = Invoked(bundle, p, "planning", Append(before, Answer("action", <<>>, <<t>>)))

\* The memory phase: the model is called, and its answer applied.
UpdateMemory(p) ==
    \E o \in Operations(bundle, p) \cup {<<Request("READ", <<>>, <<>>), bundle.held[p]>>} :
        LET called == Invoked(bundle, p, "memory_update", <<Answer(o[1][2], o[1][3], o[1][4])>>)
        IN bundle' = Applied(called, p, o[1], o[2])

Interview(p) == \E t \in Text : bundle' = Interviewed(bundle, p, Said(t))

Init ==
    /\ bundle = [events |-> <<>>, held |-> [p \in Polity |-> <<>>], flow |-> {}, mentions |-> {}]
    /\ steps = 0

Next ==
    /\ steps < MaxSteps /\ steps' = steps + 1
    /\ \E p \in Polity : Operate(p) \/ Decide(p) \/ UpdateMemory(p) \/ Interview(p)

Spec == Init /\ [][Next]_vars

-----------------------------------------------------------------------------
(* redactionDependencies, of a bundle that no redaction has changed before. *)

Payloads(b) ==
    {b.events[i].payload : i \in DOMAIN b.events} \cup UNION {{m[1], m[2]} : m \in b.mentions}

\* Mutant of Refs: the empty output connects whoever awaited one.
RefsWithEmpty(S) == S

\* refs: all but the empty output that every attempt begins with.
Refs(S) == S \ {Empty}
Link(S, T) == {l \in Refs(S) \X Refs(T) : l[1] # l[2]}

Of(b, type) == {b.events[i] : i \in {j \in DOMAIN b.events : b.events[j].type = type}}

\* Mutant of Origins: records are known from what was read only.
OriginsRead(b, handle, text) ==
    {m \in {e.output : e \in {f \in Of(b, "MemoryOperation") : f.read}} :
        \E i \in DOMAIN m[3] : m[3][i] = handle /\ m[4][i] = text}

\* memoryOrigins: the memories that hold a record.
Origins(b, handle, text) ==
    {m \in UNION {e.inputs \cup {e.output} : e \in Of(b, "MemoryOperation")} :
        /\ m[1] = "memory"
        /\ \E i \in DOMAIN m[3] : m[3][i] = handle /\ m[4][i] = text}

\* What the records of one invocation say of it, taken together.
Group(b, id) ==
    LET own == {e \in Of(b, "ModelInvocation") : e.invocation = id}
        memory == UNION {ToSet(e.shown.contents) : e \in own}
    IN [memory |-> memory,
        sources |-> memory \cup UNION {{e.instruction, e.shown.projection, e.shown.visible} : e \in own},
        inputs |-> UNION {{e.shown.prompt, e.shown.body} : e \in own},
        outputs |-> UNION {{e.answer.output, e.answer.response} \cup e.answer.parsed : e \in own}]

SegmentLinks(b) == UNION {
    LET s == e.shown IN
    Link({s.projection}, {s.visible})
      \cup UNION {Link(Origins(b, s.memory[3][k], s.memory[4][k]), {s.contents[k]}) : k \in DOMAIN s.contents}
    : e \in Of(b, "ModelInvocation")}

InvocationLinks(b) == UNION {
    LET g == Group(b, id) IN
    Link(g.sources, g.inputs) \cup Link(g.inputs, g.inputs \cup g.outputs) \cup Link(g.outputs, g.outputs)
    : id \in {e.invocation : e \in Of(b, "ModelInvocation")}}

EventLinks(b) == UNION {
    LET e == b.events[i] IN Link({b.events[j].payload : j \in e.parents} \cup e.provenance, {e.payload})
    : i \in DOMAIN b.events}

MemoryLinks(b) == UNION {
    LET g == Group(b, e.invocation) IN
    Link(e.inputs \cup {e.available}, {e.output})
      \cup (IF e.read THEN Link({e.output, e.available}, g.memory \cup g.inputs) ELSE {})
    : e \in Of(b, "MemoryOperation")}

InterviewLinks(b) ==
    UNION {Link({e.projection, e.isolation}, {e.response}) : e \in Of(b, "InterviewResponse")}

Dependencies(b) ==
    SegmentLinks(b) \cup InvocationLinks(b) \cup EventLinks(b) \cup MemoryLinks(b) \cup InterviewLinks(b)

-----------------------------------------------------------------------------
(* redactBundle. *)

\* The loop that goes on while something is added.
Reach(R, S) ==
    LET reach[T \in SUBSET (S \cup {r[2] : r \in R})] ==
            LET more == {r[2] : r \in {l \in R : l[1] \in T}} \ T
            IN IF more = {} THEN T ELSE reach[T \cup more]
    IN reach[S]

\* What goes with what: derivatives, and whatever names it.
Spread(b) == Dependencies(b) \cup {<<m[2], m[1]>> : m \in b.mentions}

\* The payloads that a tombstone removes, for a field of x that holds the text t,
\* or 0 if it holds none: also whatever holds that text.
Removed(b, spread, x, t) ==
    Reach(spread, {x} \cup (IF t = 0 THEN {} ELSE {y \in Payloads(b) : t \in TextsOf(y)}))

-----------------------------------------------------------------------------
(* Properties *)

Content(b) == {x \in Payloads(b) : x[1] \notin {"event", "diagnostic", "available"}}
Made(b, x) == Reach(b.flow, {x})

\* The views of the projection that show a polity its records in the memory phase.
Interfaces(b) ==
    {e.shown.visible : e \in {f \in Of(b, "ModelInvocation") : f.shown.phase = "memory_update"}}

\* Provenance drives the purge (src/forensics.js:136): whatever is redacted, all
\* that was in truth made of it goes too, without any help of the text it holds
\* and over any chain of memories, calls, retries, answers and interviews.  What
\* a memory phase shows next to the prompt is the exception: see InterfacesErased.
ErasureFollowsContent ==
    LET spread == Spread(bundle) IN
    \A x \in Content(bundle) :
        Made(bundle, x) \ Interfaces(bundle) \subseteq Removed(bundle, spread, x, 0)

\* "All recorded representations of an attempt are covered" (src/forensics.js:67):
\* once a text is redacted nothing remains of what was made of it.
InterfacesErased ==
    LET spread == Spread(bundle) IN
    \A x \in Content(bundle) : \A t \in TextsOf(x) \ {0} :
        Made(bundle, x) \subseteq Removed(bundle, spread, x, t)

\* What an event refers to, the diagnostic of an invocation with it.
OperationHas(e) == {e.output, e.available} \cup e.inputs
InvocationHas(e) ==
    {e.instruction, e.shown.projection, e.shown.visible, e.shown.prompt, e.shown.body,
     e.diagnostic, e.answer.response, e.answer.output}
      \cup ToSet(e.shown.contents) \cup e.answer.parsed
InterviewHas(e) == {e.projection, e.isolation, e.response}
Has(e) ==
    {e.payload} \cup e.provenance
      \cup (IF e.type = "MemoryOperation" THEN OperationHas(e) ELSE {})
      \cup (IF e.type = "ModelInvocation" THEN InvocationHas(e) ELSE {})
      \cup (IF e.type = "InterviewResponse" THEN InterviewHas(e) ELSE {})

Own(b, p) == UNION {Has(b.events[i]) : i \in {j \in DOMAIN b.events : b.events[j].of = p}}
Others(b, p) == UNION {Own(b, q) : q \in Polity \ {p}}

\* "Content addressing intentionally aliases byte-identical outputs" and what is
\* not one of them is "unrelated participant evidence"
\* (test/redaction-adversarial.test.js:46-51): what a redaction of a polity's
\* evidence erases of others it erases through payloads that both have, as what
\* was made of them or names them, and the empty output, which every attempt
\* begins with, is not one.
OnlyAliasesCross ==
    LET spread == Spread(bundle) IN
    \A p \in Polity : \A x \in Own(bundle, p) \ {Empty} :
        LET gone == Removed(bundle, spread, x, 0)
            shared == (gone \cap Own(bundle, p) \cap Others(bundle, p)) \ {Empty}
        IN gone \ Own(bundle, p) \subseteq Reach(spread, shared)
=============================================================================
