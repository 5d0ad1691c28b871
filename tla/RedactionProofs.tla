--------------------------- MODULE RedactionProofs ---------------------------
(* Proofs about Redaction: that what is erased follows the content, and the *)
(* evidence of others through payloads that they have, too.                 *)
EXTENDS Redaction, FiniteSetTheorems, SequenceTheorems, TLAPS

-----------------------------------------------------------------------------
(* The loop of a redaction adds what is named until nothing more is: the    *)
(* least set that has what it began with and whatever follows.              *)

Closed(R, T) == \A r \in R : r[1] \in T => r[2] \in T
Ends(R, S) == S \cup {r[2] : r \in R}
More(R, T) == {r[2] : r \in {l \in R : l[1] \in T}} \ T
Reaching(R, S, f) ==
    f = [T \in SUBSET Ends(R, S) |-> IF More(R, T) = {} THEN T ELSE f[T \cup More(R, T)]]
Nearest(R, S, T) ==
    {z \in Ends(R, S) : \A C \in SUBSET Ends(R, S) : T \subseteq C /\ Closed(R, C) => z \in C}

LEMMA EndsFinite ==
    ASSUME NEW R, NEW S, IsFiniteSet(R), IsFiniteSet(S)
    PROVE  IsFiniteSet(Ends(R, S))
<1> DEFINE T == {r[2] : r \in R}
           f == [r \in R |-> r[2]]
<1>1. f \in Surjection(R, T)
  BY DEF Surjection
<1>2. IsFiniteSet(T)
  <2> HIDE DEF T, f
  <2>1. QED
    BY <1>1, FS_Surjection
<1>3. QED
  BY <1>2, FS_Union DEF Ends

\* The nearest closed set of a closed one is itself, of another that of more.
LEMMA NearestOf ==
    ASSUME NEW R, NEW S, NEW T \in SUBSET Ends(R, S)
    PROVE  /\ More(R, T) \in SUBSET Ends(R, S)
           /\ More(R, T) = {} <=> Closed(R, T)
           /\ More(R, T) = {} => Nearest(R, S, T) = T
           /\ Nearest(R, S, T) = Nearest(R, S, T \cup More(R, T))
<1>1. More(R, T) \in SUBSET Ends(R, S)
  BY DEF More, Ends
<1>2. More(R, T) = {} <=> Closed(R, T)
  BY DEF More, Closed
<1>3. More(R, T) = {} => Nearest(R, S, T) = T
  BY <1>2 DEF Nearest
<1>4. \A C : Closed(R, C) => (T \subseteq C <=> T \cup More(R, T) \subseteq C)
  BY DEF More, Closed
<1>5. QED
  BY <1>1, <1>2, <1>3, <1>4 DEF Nearest

LEMMA ReachingExists ==
    ASSUME NEW R, NEW S
    PROVE  \E f : Reaching(R, S, f)
<1> DEFINE f == [T \in SUBSET Ends(R, S) |-> Nearest(R, S, T)]
<1>1. ASSUME NEW T \in SUBSET Ends(R, S)
      PROVE  f[T] = IF More(R, T) = {} THEN T ELSE f[T \cup More(R, T)]
  <2>1. T \cup More(R, T) \in SUBSET Ends(R, S)
    BY NearestOf
  <2>2. f[T] = Nearest(R, S, T) /\ f[T \cup More(R, T)] = Nearest(R, S, T \cup More(R, T))
    BY <2>1
  <2>3. QED
    <3> HIDE DEF f
    <3>1. QED
      BY <2>2, NearestOf
<1>2. f = [T \in SUBSET Ends(R, S) |-> IF More(R, T) = {} THEN T ELSE f[T \cup More(R, T)]]
  <2>1. f = [T \in SUBSET Ends(R, S) |-> f[T]]
    OBVIOUS
  <2> HIDE DEF f
  <2>2. QED
    BY <1>1, <2>1
<1>3. QED
  <2> HIDE DEF f
  <2>1. QED
    BY <1>2 DEF Reaching

LEMMA ReachingIsNearest ==
    ASSUME NEW R, NEW S, IsFiniteSet(R), IsFiniteSet(S), NEW f, Reaching(R, S, f)
    PROVE  \A T \in SUBSET Ends(R, S) : f[T] = Nearest(R, S, T)
<1> DEFINE U == Ends(R, S)
           Bad == {T \in SUBSET U : f[T] # Nearest(R, S, T)}
           Left == {U \ T : T \in Bad}
<1>1. SUFFICES ASSUME Left # {} PROVE FALSE
  OBVIOUS
<1>2. Left \in SUBSET FiniteSubsetsOf(U)
  BY EndsFinite, FS_FiniteSubsetsOfFinite
<1>3. PICK W \in Left : \A V \in Left : <<V, W>> \notin StrictSubsetOrdering(U)
  <2> HIDE DEF Left, U
  <2>1. QED
    BY <1>1, <1>2, FS_StrictSubsetOrderingWellFounded, WFMin
<1>4. PICK T \in Bad : W = U \ T
  BY <1>3
<1>5. T \in SUBSET U /\ f[T] # Nearest(R, S, T)
  BY <1>4
<1>6. f[T] = IF More(R, T) = {} THEN T ELSE f[T \cup More(R, T)]
  BY <1>5 DEF Reaching
<1>7. More(R, T) # {} /\ f[T] = f[T \cup More(R, T)]
  BY <1>5, <1>6, NearestOf
<1>8. T \cup More(R, T) \in SUBSET U /\ More(R, T) \cap T = {}
  BY <1>5, NearestOf DEF More
<1>9. T \cup More(R, T) \in Bad
  BY <1>5, <1>7, <1>8, NearestOf
<1>10. U \ (T \cup More(R, T)) \in Left
  BY <1>9
<1>11. <<U \ (T \cup More(R, T)), W>> \in StrictSubsetOrdering(U)
  BY <1>4, <1>7, <1>8 DEF StrictSubsetOrdering
<1>12. QED
  BY <1>3, <1>10, <1>11

LEMMA Reached ==
    ASSUME NEW R, NEW S, IsFiniteSet(R), IsFiniteSet(S)
    PROVE  /\ S \subseteq Reach(R, S)
           /\ Closed(R, Reach(R, S))
           /\ \A C : S \subseteq C /\ Closed(R, C) => Reach(R, S) \subseteq C
<1>1. PICK f : f = CHOOSE g : Reaching(R, S, g)
  OBVIOUS
<1>2. Reaching(R, S, f)
  BY <1>1, ReachingExists, Zenon
<1>3. Reach(R, S) = f[S]
  BY <1>1 DEF Reach, Reaching, Ends, More
<1>4. S \in SUBSET Ends(R, S)
  BY DEF Ends
<1>5. Reach(R, S) = Nearest(R, S, S)
  BY <1>2, <1>3, <1>4, ReachingIsNearest
<1>6. Closed(R, Nearest(R, S, S))
  BY DEF Closed, Nearest, Ends
<1>7. ASSUME NEW C, S \subseteq C, Closed(R, C)
      PROVE  Nearest(R, S, S) \subseteq C
  <2>1. PICK D : D = C \cap Ends(R, S)
    OBVIOUS
  <2>2. S \subseteq D /\ Closed(R, D) /\ D \in SUBSET Ends(R, S)
    BY <1>4, <1>7, <2>1 DEF Closed, Ends
  <2>3. QED
    BY <2>1, <2>2 DEF Nearest
<1>8. QED
  BY <1>4, <1>5, <1>6, <1>7 DEF Nearest

-----------------------------------------------------------------------------
(* What is true of a bundle at every moment.  Whatever stands in an event   *)
(* was recorded; memories have handles of whose they are, so that what is   *)
(* known of records leads to the memories of the same polity.               *)

Theirs(b, k, p) == k \in DOMAIN b.events /\ b.events[k].of = p

Indexed == {"event", "diagnostic", "available", "isolation"}
Parsed == {"request", "action", "interview"}

Marked(b, z, p) == \A i \in DOMAIN z[3] : Theirs(b, z[3][i], p)

Part(b, p) == {z \in Payloads(b) : \E i \in DOMAIN b.events :
                                       b.events[i].of = p /\ z \in Has(b.events[i])}

\* What a model was shown of records.
Texts(m) == [i \in DOMAIN m[4] |-> Raw(m[4][i])]
Shows(s, p, m, phase) ==
    LET places == IF phase = "memory_update" THEN m[3] ELSE <<>>
        texts == IF phase = "memory_update" THEN m[4] ELSE <<>>
    IN /\ s.phase = phase /\ s.memory = m /\ s.contents = Texts(m)
       /\ s.projection = Payload("projection", <<p, phase>>, <<>>, <<>>)
       /\ s.visible = Payload("visible", <<p, phase>>, places, texts)
       /\ s.prompt = Payload("prompt", <<p, phase>>, places, m[4])
       /\ s.body = Payload("body", <<p, phase>>, places, m[4])

Known(b, m) ==
    \E i \in DOMAIN b.events : /\ b.events[i].type = "MemoryOperation"
                               /\ m \in b.events[i].inputs \cup {b.events[i].output}
Remembered(b, p, m) ==
    /\ m[1] = "memory" /\ Marked(b, m, p) /\ m[4] \in Seq(Nat) /\ DOMAIN m[3] = DOMAIN m[4]
    /\ m[3] = <<>> \/ Known(b, m)

Types == {"MemoryOperation", "ModelInvocation", "ProjectionIssued", "InterviewResponse"}
OperationFits(b, e) ==
    /\ Theirs(b, e.invocation, e.of)
    /\ \A z \in e.inputs \cup {e.output} : z[1] = "memory" => Marked(b, z, e.of)
InvocationFits(b, e) ==
    /\ Theirs(b, e.invocation, e.of)
    /\ Shows(e.shown, e.of, e.shown.memory, e.shown.phase) /\ Remembered(b, e.of, e.shown.memory)
EventFits(b, i) ==
    LET e == b.events[i] IN
    /\ e.type \in Types /\ e.of \in Polity
    /\ \A j \in e.parents : Theirs(b, j, e.of)
    /\ \A z \in Has(e) : z \in Payloads(b)
    /\ e.type = "MemoryOperation" => OperationFits(b, e)
    /\ e.type = "ModelInvocation" => InvocationFits(b, e)

\* One names another of the same polity.
MentionFits(b, m) ==
    /\ \E p \in Polity : m[1] \in Part(b, p) /\ m[2] \in Part(b, p)
    /\ m[1][1] \in Indexed \cup {"configuration"}

\* What is made of another depends on it, but for the view of the memory phase.
Surfaces(b, f) ==
    \E i \in DOMAIN b.events :
        LET e == b.events[i] IN
        /\ e.type = "ModelInvocation" /\ e.shown.phase = "memory_update"
        /\ f[1] = e.shown.memory /\ f[2] = e.shown.visible
        /\ \E k \in DOMAIN e.shown.contents : e.shown.contents[k] # Empty
FlowFits(b, f) ==
    /\ f[1] = f[2] \/ <<f[1], f[2]>> \in Dependencies(b) \/ Surfaces(b, f)
    /\ f[1][1] = "visible" =>
           \E i \in DOMAIN b.events :
               LET e == b.events[i] IN
               e.type = "ModelInvocation" /\ f[1] = e.shown.visible /\ f[2] = e.shown.prompt

IsBundle(b) ==
    /\ b = [events |-> b.events, held |-> b.held, flow |-> b.flow, mentions |-> b.mentions]
    /\ b.events \in Seq({b.events[i] : i \in DOMAIN b.events})
    /\ b.held \in [Polity -> Seq(Nat \X Nat)]
    /\ IsFiniteSet(b.flow) /\ IsFiniteSet(b.mentions)

BundleInv(b) ==
    /\ IsBundle(b)
    /\ \A i \in DOMAIN b.events : EventFits(b, i)
    /\ \A m \in b.mentions : MentionFits(b, m)
    /\ \A f \in b.flow : FlowFits(b, f)
    /\ \A p \in Polity : Remembered(b, p, Memory(b.held[p]))

IInv == BundleInv(bundle)

-----------------------------------------------------------------------------
(* Whatever goes with a payload is of the same polity.                      *)

LEMMA PayloadIs ==
    ASSUME NEW kind, NEW of, NEW places, NEW texts
    PROVE  /\ Payload(kind, of, places, texts)[1] = kind
           /\ Payload(kind, of, places, texts)[2] = of
           /\ Payload(kind, of, places, texts)[3] = places
           /\ Payload(kind, of, places, texts)[4] = texts
  BY DEF Payload

LEMMA RawIs ==
    ASSUME NEW t
    PROVE  Raw(t)[1] = "raw" /\ Raw(t)[3] = <<>> /\ Raw(t)[4] = <<t>>
<1>1. Raw(t)[1] = "raw"
  BY DEF Payload, Raw
<1>2. Raw(t)[3] = <<>>
  BY DEF Payload, Raw
<1>3. Raw(t)[4] = <<t>>
  BY DEF Payload, Raw
<1>4. QED
  BY <1>1, <1>2, <1>3

LEMMA Links ==
    ASSUME NEW S, NEW T
    PROVE  /\ \A d \in Link(S, T) : /\ d = <<d[1], d[2]>> /\ d[1] \in S /\ d[2] \in T
                                    /\ d[1] # Empty /\ d[2] # Empty /\ d[1] # d[2]
           /\ \A x \in S, y \in T :
                  x # Empty /\ y # Empty /\ x # y => <<x, y>> \in Link(S, T)
  BY DEF Link, Refs

LEMMA InPart ==
    ASSUME NEW b, BundleInv(b), NEW i \in DOMAIN b.events, NEW z \in Has(b.events[i])
    PROVE  z \in Part(b, b.events[i].of) /\ b.events[i].of \in Polity /\ z \in Payloads(b)
<1>1. EventFits(b, i)
  BY DEF BundleInv
<1>2. b.events[i].of \in Polity /\ z \in Payloads(b)
  BY <1>1, Zenon DEF EventFits
<1>3. QED
  BY <1>2 DEF Part

\* The events of a type, each with what stands in it.
LEMMA OfTypes ==
    ASSUME NEW b, NEW t, NEW e \in Of(b, t)
    PROVE  \E i \in DOMAIN b.events : e = b.events[i] /\ e.type = t
  BY DEF Of

LEMMA InvocationOf ==
    ASSUME NEW b, BundleInv(b), NEW e \in Of(b, "ModelInvocation")
    PROVE  /\ e.of \in Polity /\ InvocationFits(b, e)
           /\ \A z \in InvocationHas(e) : z \in Part(b, e.of)
<1>1. PICK i \in DOMAIN b.events : e = b.events[i] /\ e.type = "ModelInvocation"
  BY OfTypes
<1>2. EventFits(b, i) /\ InvocationHas(e) \subseteq Has(b.events[i])
  BY <1>1 DEF BundleInv, Has
<1>3. InvocationFits(b, e) /\ e.of \in Polity
  BY <1>1, <1>2, Zenon DEF EventFits
<1>4. QED
  BY <1>1, <1>2, <1>3, InPart

LEMMA OperationOf ==
    ASSUME NEW b, BundleInv(b), NEW e \in Of(b, "MemoryOperation")
    PROVE  /\ e.of \in Polity /\ OperationFits(b, e)
           /\ \A z \in OperationHas(e) : z \in Part(b, e.of)
<1>1. PICK i \in DOMAIN b.events : e = b.events[i] /\ e.type = "MemoryOperation"
  BY OfTypes
<1>2. EventFits(b, i) /\ OperationHas(e) \subseteq Has(b.events[i])
  BY <1>1 DEF BundleInv, Has
<1>3. OperationFits(b, e) /\ e.of \in Polity
  BY <1>1, <1>2, Zenon DEF EventFits
<1>4. QED
  BY <1>1, <1>2, <1>3, InPart

LEMMA InterviewOf ==
    ASSUME NEW b, BundleInv(b), NEW e \in Of(b, "InterviewResponse")
    PROVE  e.of \in Polity /\ \A z \in InterviewHas(e) : z \in Part(b, e.of)
<1>1. PICK i \in DOMAIN b.events : e = b.events[i] /\ e.type = "InterviewResponse"
  BY OfTypes
<1>2. EventFits(b, i) /\ InterviewHas(e) \subseteq Has(b.events[i])
  BY <1>1 DEF BundleInv, Has
<1>3. e.of \in Polity
  BY <1>1, <1>2, Zenon DEF EventFits
<1>4. QED
  BY <1>1, <1>2, <1>3, InPart

\* A link between two of a polity, to another than the empty output.
Linked(b, d) ==
    /\ d = <<d[1], d[2]>> /\ d[2] # Empty
    /\ \E p \in Polity : d[1] \in Part(b, p) /\ d[2] \in Part(b, p)

LEMMA LinkedWithin ==
    ASSUME NEW b, NEW p \in Polity, NEW S, NEW T, S \subseteq Part(b, p), T \subseteq Part(b, p)
    PROVE  \A d \in Link(S, T) : Linked(b, d)
  BY Links DEF Linked

\* What the records of an invocation say is of whose invocation it is.
LEMMA GroupWithin ==
    ASSUME NEW b, BundleInv(b), NEW id, NEW p, Theirs(b, id, p)
    PROVE  /\ Group(b, id).memory \subseteq Part(b, p) /\ Group(b, id).sources \subseteq Part(b, p)
           /\ Group(b, id).inputs \subseteq Part(b, p) /\ Group(b, id).outputs \subseteq Part(b, p)
<1> DEFINE own == {e \in Of(b, "ModelInvocation") : e.invocation = id}
           memory == UNION {ToSet(e.shown.contents) : e \in own}
           sources == memory \cup UNION {{e.instruction, e.shown.projection, e.shown.visible} : e \in own}
           inputs == UNION {{e.shown.prompt, e.shown.body} : e \in own}
           outputs == UNION {{e.answer.output, e.answer.response} \cup e.answer.parsed : e \in own}
<1>1. Group(b, id) = [memory |-> memory, sources |-> sources, inputs |-> inputs, outputs |-> outputs]
  BY DEF Group
<1>2. ASSUME NEW e \in own PROVE InvocationHas(e) \subseteq Part(b, p) /\ InvocationFits(b, e)
  <2>1. Theirs(b, id, e.of) /\ InvocationFits(b, e) /\ InvocationHas(e) \subseteq Part(b, e.of)
    BY InvocationOf DEF InvocationFits
  <2>2. e.of = p
    BY <2>1 DEF Theirs
  <2>3. QED
    BY <2>1, <2>2
<1>4. memory \subseteq Part(b, p) /\ sources \subseteq Part(b, p)
  BY <1>2 DEF InvocationHas
<1>5. inputs \subseteq Part(b, p) /\ outputs \subseteq Part(b, p)
  BY <1>2 DEF InvocationHas
<1>7. QED
  <2> HIDE DEF memory, sources, inputs, outputs
  <2>1. QED
    BY <1>1, <1>4, <1>5

LEMMA SegmentsLinked ==
    ASSUME NEW b, BundleInv(b)
    PROVE  \A d \in SegmentLinks(b) : Linked(b, d)
<1> SUFFICES ASSUME NEW e \in Of(b, "ModelInvocation")
             PROVE  /\ \A d \in Link({e.shown.projection}, {e.shown.visible}) : Linked(b, d)
                    /\ \A k \in DOMAIN e.shown.contents :
                          \A d \in Link(Origins(b, e.shown.memory[3][k], e.shown.memory[4][k]),
                                        {e.shown.contents[k]}) : Linked(b, d)
  <2>1. \A d \in SegmentLinks(b) : \E e \in Of(b, "ModelInvocation") :
            \/ d \in Link({e.shown.projection}, {e.shown.visible})
            \/ \E k \in DOMAIN e.shown.contents :
                  d \in Link(Origins(b, e.shown.memory[3][k], e.shown.memory[4][k]),
                             {e.shown.contents[k]})
    <3> DEFINE origins(e) == UNION {Link(Origins(b, e.shown.memory[3][k], e.shown.memory[4][k]),
                                         {e.shown.contents[k]}) : k \in DOMAIN e.shown.contents}
               links(e) == Link({e.shown.projection}, {e.shown.visible}) \cup origins(e)
    <3>1. SegmentLinks(b) = UNION {links(e) : e \in Of(b, "ModelInvocation")}
      BY Zenon DEF SegmentLinks
    <3>2. \A d \in SegmentLinks(b) : \E e \in Of(b, "ModelInvocation") : d \in links(e)
      <4> HIDE DEF links
      <4>1. QED
        BY <3>1
    <3>3. QED
      BY <3>2
  <2>2. QED
    BY <2>1
<1>1. /\ e.of \in Polity /\ InvocationFits(b, e)
      /\ \A z \in InvocationHas(e) : z \in Part(b, e.of)
  BY InvocationOf
<1>2. /\ e.shown.projection \in Part(b, e.of) /\ e.shown.visible \in Part(b, e.of)
      /\ ToSet(e.shown.contents) \subseteq Part(b, e.of)
  BY <1>1 DEF InvocationHas
<1>3. /\ e.shown.contents = Texts(e.shown.memory)
      /\ Marked(b, e.shown.memory, e.of) /\ DOMAIN e.shown.memory[3] = DOMAIN e.shown.memory[4]
  BY <1>1 DEF InvocationFits, Shows, Remembered
<1>4. \A d \in Link({e.shown.projection}, {e.shown.visible}) : Linked(b, d)
  BY <1>1, <1>2, <1>3, LinkedWithin
<1>5. ASSUME NEW k \in DOMAIN e.shown.contents
      PROVE  \A d \in Link(Origins(b, e.shown.memory[3][k], e.shown.memory[4][k]),
                           {e.shown.contents[k]}) : Linked(b, d)
  <2>1. k \in DOMAIN e.shown.memory[3]
    BY <1>3 DEF Texts
  <2>2. e.shown.contents[k] \in Part(b, e.of)
    BY <1>2 DEF ToSet
  <2>3. PICK handle, text : handle = e.shown.memory[3][k] /\ text = e.shown.memory[4][k]
    OBVIOUS
  <2>4. Theirs(b, handle, e.of)
    BY <1>3, <2>1, <2>3, Zenon DEF Marked
  <2>5. ASSUME NEW m \in Origins(b, handle, text) PROVE m \in Part(b, e.of)
    <3>1. PICK f \in Of(b, "MemoryOperation") : m \in f.inputs \cup {f.output}
      BY <2>5 DEF Origins
    <3>2. m \in Part(b, f.of) /\ f.of \in Polity /\ OperationFits(b, f)
      BY <3>1, OperationOf DEF OperationHas
    <3>3. m[1] = "memory" /\ \E i \in DOMAIN m[3] : m[3][i] = handle
      BY <2>5 DEF Origins
    <3>4. Theirs(b, handle, f.of)
      BY <3>1, <3>2, <3>3, Zenon DEF OperationFits, Marked
    <3>5. QED
      BY <2>4, <3>2, <3>4 DEF Theirs
  <2>6. \A d \in Link(Origins(b, handle, text), {e.shown.contents[k]}) : Linked(b, d)
    BY <1>1, <2>2, <2>5, LinkedWithin
  <2>7. QED
    BY <2>3, <2>6
<1>6. QED
  BY <1>4, <1>5

LEMMA SegmentLinksHave ==
    ASSUME NEW b, NEW e \in Of(b, "ModelInvocation")
    PROVE  /\ Link({e.shown.projection}, {e.shown.visible}) \subseteq SegmentLinks(b)
           /\ \A k \in DOMAIN e.shown.contents :
                 Link(Origins(b, e.shown.memory[3][k], e.shown.memory[4][k]), {e.shown.contents[k]})
                   \subseteq SegmentLinks(b)
<1> DEFINE origin(s, k) == Link(Origins(b, s.memory[3][k], s.memory[4][k]), {s.contents[k]})
           origins(s) == UNION {origin(s, k) : k \in DOMAIN s.contents}
           links(s) == Link({s.projection}, {s.visible}) \cup origins(s)
<1>1. SegmentLinks(b) = UNION {links(f.shown) : f \in Of(b, "ModelInvocation")}
  BY Zenon DEF SegmentLinks
<1>2. links(e.shown) \subseteq SegmentLinks(b)
  <2> HIDE DEF links
  <2>1. QED
    BY <1>1
<1>3. \A k \in DOMAIN e.shown.contents : origin(e.shown, k) \subseteq origins(e.shown)
  <2> HIDE DEF origin
  <2>1. QED
    OBVIOUS
<1>4. QED
  BY <1>2, <1>3

LEMMA InvocationsLinked ==
    ASSUME NEW b, BundleInv(b)
    PROVE  \A d \in InvocationLinks(b) : Linked(b, d)
<1> SUFFICES ASSUME NEW e \in Of(b, "ModelInvocation"), NEW g, g = Group(b, e.invocation)
             PROVE  /\ \A d \in Link(g.sources, g.inputs) : Linked(b, d)
                    /\ \A d \in Link(g.inputs, g.inputs \cup g.outputs) : Linked(b, d)
                    /\ \A d \in Link(g.outputs, g.outputs) : Linked(b, d)
  BY DEF InvocationLinks
<1>1. e.of \in Polity /\ Theirs(b, e.invocation, e.of)
  BY InvocationOf DEF InvocationFits
<1>2. /\ g.sources \subseteq Part(b, e.of) /\ g.inputs \subseteq Part(b, e.of)
      /\ g.outputs \subseteq Part(b, e.of)
  BY <1>1, GroupWithin
<1>3. QED
  BY <1>1, <1>2, LinkedWithin

LEMMA OperationsLinked ==
    ASSUME NEW b, BundleInv(b)
    PROVE  \A d \in MemoryLinks(b) : Linked(b, d)
<1> SUFFICES ASSUME NEW e \in Of(b, "MemoryOperation"), NEW g, g = Group(b, e.invocation)
             PROVE  /\ \A d \in Link(e.inputs \cup {e.available}, {e.output}) : Linked(b, d)
                    /\ \A d \in Link({e.output, e.available}, g.memory \cup g.inputs) : Linked(b, d)
  BY DEF MemoryLinks
<1>1. /\ e.of \in Polity /\ Theirs(b, e.invocation, e.of)
      /\ e.inputs \cup {e.output, e.available} \subseteq Part(b, e.of)
  BY OperationOf DEF OperationFits, OperationHas
<1>2. g.memory \subseteq Part(b, e.of) /\ g.inputs \subseteq Part(b, e.of)
  BY <1>1, GroupWithin
<1>3. QED
  BY <1>1, <1>2, LinkedWithin

LEMMA InterviewsLinked ==
    ASSUME NEW b, BundleInv(b)
    PROVE  \A d \in InterviewLinks(b) : Linked(b, d)
<1> SUFFICES ASSUME NEW e \in Of(b, "InterviewResponse")
             PROVE  \A d \in Link({e.projection, e.isolation}, {e.response}) : Linked(b, d)
  BY DEF InterviewLinks
<1>1. /\ e.of \in Polity
      /\ {e.projection, e.isolation, e.response} \subseteq Part(b, e.of)
  BY InterviewOf DEF InterviewHas
<1>2. QED
  BY <1>1, LinkedWithin

LEMMA EventsLinked ==
    ASSUME NEW b, BundleInv(b)
    PROVE  \A d \in EventLinks(b) : Linked(b, d)
<1> SUFFICES ASSUME NEW i \in DOMAIN b.events
             PROVE  \A d \in Link({b.events[j].payload : j \in b.events[i].parents}
                                    \cup b.events[i].provenance, {b.events[i].payload}) : Linked(b, d)
  BY DEF EventLinks
<1>1. PICK p : p = b.events[i].of
  OBVIOUS
<1>2. \A j \in DOMAIN b.events : b.events[j].payload \in Has(b.events[j])
  BY DEF Has
<1>3. \A z \in b.events[i].provenance : z \in Has(b.events[i])
  BY DEF Has
<1>4. p \in Polity /\ b.events[i].payload \in Part(b, p) /\ b.events[i].provenance \subseteq Part(b, p)
  BY <1>1, <1>2, <1>3, InPart
<1>5. \A j \in b.events[i].parents : j \in DOMAIN b.events /\ b.events[j].of = p
  BY <1>1 DEF BundleInv, EventFits, Theirs
<1>6. {b.events[j].payload : j \in b.events[i].parents} \subseteq Part(b, p)
  BY <1>2, <1>5, InPart
<1>7. QED
  BY <1>4, <1>6, LinkedWithin

\* Whatever goes with a payload stands in the events of one of those who have it.
LEMMA OneParty ==
    ASSUME NEW b, BundleInv(b)
    PROVE  \A d \in Spread(b) : Linked(b, d)
<1>1. \A d \in Dependencies(b) : Linked(b, d)
  BY SegmentsLinked, InvocationsLinked, OperationsLinked, InterviewsLinked, EventsLinked
     DEF Dependencies
<1>2. ASSUME NEW m \in b.mentions PROVE Linked(b, <<m[2], m[1]>>)
  <2>1. MentionFits(b, m)
    BY DEF BundleInv
  <2>2. m[1] # Empty
    BY <2>1, RawIs DEF MentionFits, Indexed, Empty
  <2>3. QED
    BY <2>1, <2>2 DEF MentionFits, Linked
<1>3. QED
  BY <1>1, <1>2 DEF Spread

LEMMA SpreadFinite ==
    ASSUME NEW b, BundleInv(b)
    PROVE  IsFiniteSet(Spread(b)) /\ IsFiniteSet(b.flow)
<1>1. IsFiniteSet(DOMAIN b.events) /\ IsFiniteSet(b.mentions) /\ IsFiniteSet(b.flow)
  <2>1. IsBundle(b)
    BY DEF BundleInv
  <2>2. Len(b.events) \in Nat /\ DOMAIN b.events = 1..Len(b.events)
    BY <2>1 DEF IsBundle
  <2>3. IsFiniteSet(1..Len(b.events))
    BY <2>2, FS_Interval
  <2>4. QED
    BY <2>1, <2>2, <2>3 DEF IsBundle
<1> DEFINE payloads == {b.events[i].payload : i \in DOMAIN b.events}
           firsts == {m[1] : m \in b.mentions}
           seconds == {m[2] : m \in b.mentions}
           f == [i \in DOMAIN b.events |-> b.events[i].payload]
           g == [m \in b.mentions |-> m[1]]
           h == [m \in b.mentions |-> m[2]]
<1>2. /\ f \in Surjection(DOMAIN b.events, payloads)
      /\ g \in Surjection(b.mentions, firsts) /\ h \in Surjection(b.mentions, seconds)
  BY DEF Surjection
<1>3. Payloads(b) = payloads \cup (firsts \cup seconds)
  BY DEF Payloads
<1>4. IsFiniteSet(payloads) /\ IsFiniteSet(firsts) /\ IsFiniteSet(seconds)
  <2> HIDE DEF payloads, firsts, seconds, f, g, h
  <2>1. QED
    BY <1>1, <1>2, FS_Surjection
<1>5. IsFiniteSet(Payloads(b))
  <2> HIDE DEF payloads, firsts, seconds, f, g, h
  <2>1. IsFiniteSet(firsts \cup seconds)
    BY <1>4, FS_Union
  <2>2. QED
    BY <1>3, <1>4, <2>1, FS_Union
<1>6. ASSUME NEW d \in Spread(b) PROVE d \in Payloads(b) \X Payloads(b)
  <2>1. Linked(b, d)
    BY OneParty
  <2>2. d = <<d[1], d[2]>> /\ d[1] \in Payloads(b) /\ d[2] \in Payloads(b)
    BY <2>1 DEF Linked, Part
  <2>3. QED
    BY <2>2
<1>7. IsFiniteSet(Payloads(b) \X Payloads(b))
  BY <1>5, FS_Product
<1>8. IsFiniteSet(Spread(b))
  BY <1>6, <1>7, FS_Subset
<1>9. QED
  BY <1>1, <1>8

-----------------------------------------------------------------------------
(* What is made of a payload goes with it: a view that the memory phase     *)
(* showed may stay, but the prompt that was made of it goes by the records. *)

\* A memory that a prompt was made of goes with it over the text of a record.
LEMMA SurfaceErased ==
    ASSUME NEW b, BundleInv(b), NEW f, Surfaces(b, f),
           NEW M, Closed(Spread(b), M), f[1] \in M
    PROVE  \A i \in DOMAIN b.events :
               b.events[i].type = "ModelInvocation" /\ b.events[i].shown.visible = f[2]
                   => b.events[i].shown.prompt \in M
<1>1. PICK i \in DOMAIN b.events :
          /\ b.events[i].type = "ModelInvocation" /\ b.events[i].shown.phase = "memory_update"
          /\ f[1] = b.events[i].shown.memory /\ f[2] = b.events[i].shown.visible
          /\ \E k \in DOMAIN b.events[i].shown.contents : b.events[i].shown.contents[k] # Empty
  BY DEF Surfaces
<1>2. PICK e : e = b.events[i]
  OBVIOUS
<1>3. e \in Of(b, "ModelInvocation") /\ e.type = "ModelInvocation"
  BY <1>1, <1>2 DEF Of
<1>4. InvocationFits(b, e)
  BY <1>3, InvocationOf
<1>5. PICK m : m = e.shown.memory
  OBVIOUS
<1>6. PICK k \in DOMAIN e.shown.contents : e.shown.contents[k] # Empty
  BY <1>1, <1>2
<1>7. PICK handle, text : handle = m[3][k] /\ text = m[4][k]
  OBVIOUS
<1>8. /\ e.shown.contents = Texts(m) /\ m[1] = "memory" /\ DOMAIN m[3] = DOMAIN m[4]
      /\ m[3] = <<>> \/ Known(b, m)
  BY <1>4, <1>5 DEF InvocationFits, Shows, Remembered
<1>9. k \in DOMAIN m[3] /\ k \in DOMAIN m[4] /\ e.shown.contents[k] = Raw(text)
  BY <1>6, <1>7, <1>8 DEF Texts
<1>10. m \in Origins(b, handle, text)
  <2>1. m[3] # <<>>
    BY <1>9
  <2>2. PICK j \in DOMAIN b.events : /\ b.events[j].type = "MemoryOperation"
                                     /\ m \in b.events[j].inputs \cup {b.events[j].output}
    BY <1>8, <2>1 DEF Known
  <2>3. b.events[j] \in Of(b, "MemoryOperation")
    BY <2>2 DEF Of
  <2>4. QED
    BY <1>7, <1>8, <1>9, <2>2, <2>3 DEF Origins
<1>11. <<m, e.shown.contents[k]>> \in SegmentLinks(b)
  <2>1. m # Empty /\ m # e.shown.contents[k]
    BY <1>8, <1>9, RawIs DEF Empty
  <2>2. <<m, e.shown.contents[k]>> \in Link(Origins(b, handle, text), {e.shown.contents[k]})
    BY <1>6, <1>10, <2>1, Links
  <2>3. QED
    BY <1>3, <1>5, <1>6, <1>7, <2>2, SegmentLinksHave
<1>12. <<e.shown.contents[k], e.shown.prompt>> \in InvocationLinks(b)
  <2>1. PICK g : g = Group(b, e.invocation)
    OBVIOUS
  <2>2. e.shown.contents[k] \in g.sources /\ e.shown.prompt \in g.inputs
    <3>1. e.shown.contents[k] \in ToSet(e.shown.contents)
      BY DEF ToSet
    <3>2. QED
      BY <1>3, <2>1, <3>1 DEF Group
  <2>3. e.shown.prompt # Empty /\ e.shown.contents[k] # e.shown.prompt
    <3>1. e.shown.prompt[1] = "prompt"
      BY <1>4 DEF InvocationFits, Shows, Payload
    <3>2. QED
      BY <1>9, <3>1, RawIs DEF Empty
  <2>4. <<e.shown.contents[k], e.shown.prompt>> \in Link(g.sources, g.inputs)
    BY <1>6, <2>2, <2>3, Links
  <2>5. QED
    BY <1>3, <2>1, <2>4 DEF InvocationLinks
<1>13. e.shown.contents[k] \in M
  BY <1>1, <1>2, <1>5, <1>11 DEF Closed, Spread, Dependencies
<1>14. e.shown.prompt \in M
  BY <1>12, <1>13 DEF Closed, Spread, Dependencies
<1>15. ASSUME NEW j \in DOMAIN b.events, b.events[j].type = "ModelInvocation",
              b.events[j].shown.visible = f[2]
       PROVE  b.events[j].shown.prompt = e.shown.prompt
  <2>1. PICK d : d = b.events[j]
    OBVIOUS
  <2>2. InvocationFits(b, d)
    <3>1. d \in Of(b, "ModelInvocation")
      BY <1>15, <2>1 DEF Of
    <3>2. QED
      BY <3>1, InvocationOf
  <2>3. /\ e.shown.visible = Payload("visible", <<e.of, e.shown.phase>>, m[3], m[4])
        /\ e.shown.prompt = Payload("prompt", <<e.of, e.shown.phase>>, m[3], m[4])
    BY <1>1, <1>2, <1>4, <1>5 DEF InvocationFits, Shows
  <2>4. PICK places, texts :
            /\ d.shown.visible = Payload("visible", <<d.of, d.shown.phase>>, places, texts)
            /\ d.shown.phase = "memory_update" =>
                  d.shown.prompt = Payload("prompt", <<d.of, d.shown.phase>>, places, texts)
    BY <2>2 DEF InvocationFits, Shows
  <2>5. d.shown.visible = e.shown.visible
    BY <1>1, <1>2, <1>15, <2>1
  <2>6. <<d.of, d.shown.phase>> = <<e.of, e.shown.phase>> /\ places = m[3] /\ texts = m[4]
    BY <2>3, <2>4, <2>5 DEF Payload
  <2>7. d.shown.phase = "memory_update"
    BY <1>1, <1>2, <2>6
  <2>8. QED
    BY <2>1, <2>3, <2>4, <2>6, <2>7
<1>16. QED
  BY <1>14, <1>15

LEMMA ErasedWithAll ==
    ASSUME NEW b, BundleInv(b), NEW x
    PROVE  Made(b, x) \ Interfaces(b) \subseteq Removed(b, Spread(b), x, 0)
<1> DEFINE M == Reach(Spread(b), {x})
           V == {v \in Interfaces(b) : \E y \in M : Surfaces(b, <<y, v>>)}
<1>1. Removed(b, Spread(b), x, 0) = M
  BY DEF Removed
<1>2. IsFiniteSet(Spread(b)) /\ IsFiniteSet(b.flow) /\ IsFiniteSet({x})
  BY SpreadFinite, FS_Singleton
<1>3. x \in M /\ Closed(Spread(b), M)
  BY <1>2, Reached
<1>4. Closed(b.flow, M \cup V)
  <2> SUFFICES ASSUME NEW f \in b.flow, f[1] \in M \cup V PROVE f[2] \in M \cup V
    BY DEF Closed
  <2>1. FlowFits(b, f)
    BY DEF BundleInv
  <2>2. CASE f[1] \in M
    <3>1. CASE f[1] = f[2]
      BY <2>2, <3>1
    <3>2. CASE <<f[1], f[2]>> \in Dependencies(b)
      BY <1>3, <2>2, <3>2 DEF Closed, Spread
    <3>3. CASE Surfaces(b, f)
      <4>1. PICK i \in DOMAIN b.events :
                /\ b.events[i].type = "ModelInvocation" /\ f[2] = b.events[i].shown.visible
                /\ b.events[i].shown.phase = "memory_update"
        BY <3>3 DEF Surfaces
      <4>2. f[2] \in Interfaces(b)
        <5>1. b.events[i] \in Of(b, "ModelInvocation")
          BY <4>1, Zenon DEF Of
        <5>2. QED
          BY <4>1, <5>1 DEF Interfaces
      <4>3. Surfaces(b, <<f[1], f[2]>>)
        BY <3>3 DEF Surfaces
      <4>4. QED
        BY <2>2, <4>2, <4>3
    <3>4. QED
      BY <2>1, <3>1, <3>2, <3>3 DEF FlowFits
  <2>3. CASE f[1] \in V
    <3>1. PICK y \in M : Surfaces(b, <<y, f[1]>>)
      BY <2>3
    <3>2. f[1][1] = "visible"
      <4>1. PICK i \in DOMAIN b.events :
                b.events[i].type = "ModelInvocation" /\ f[1] = b.events[i].shown.visible
        BY <3>1 DEF Surfaces
      <4>2. PICK e : e = b.events[i] /\ e \in Of(b, "ModelInvocation")
        BY <4>1, Zenon DEF Of
      <4>3. InvocationFits(b, e)
        BY <4>2, InvocationOf
      <4>4. PICK of, places, texts : e.shown.visible = Payload("visible", of, places, texts)
        BY <4>3, Zenon DEF InvocationFits, Shows
      <4>5. QED
        BY <4>1, <4>2, <4>4 DEF Payload
    <3>3. PICK i \in DOMAIN b.events :
              /\ b.events[i].type = "ModelInvocation" /\ f[1] = b.events[i].shown.visible
              /\ f[2] = b.events[i].shown.prompt
      BY <2>1, <3>2 DEF FlowFits
    <3>4. PICK g : g = <<y, f[1]>>
      OBVIOUS
    <3>5. g[1] \in M /\ g[2] = f[1] /\ Surfaces(b, g)
      BY <3>1, <3>4
    <3>6. b.events[i].shown.prompt \in M
      <4> HIDE DEF M
      <4>1. QED
        BY <1>3, <3>3, <3>5, SurfaceErased
    <3>7. QED
      BY <3>3, <3>6
  <2>4. QED
    BY <2>2, <2>3
<1>5. Made(b, x) \subseteq M \cup V
  <2> HIDE DEF M, V
  <2>1. QED
    BY <1>2, <1>3, <1>4, Reached DEF Made
<1>6. QED
  BY <1>1, <1>5

-----------------------------------------------------------------------------
(* What goes with the evidence of one polity reaches that of another only   *)
(* through what both have.                                                  *)

LEMMA InOwn ==
    ASSUME NEW b, NEW p, NEW z \in Part(b, p)
    PROVE  z \in Own(b, p)
  BY DEF Part, Own

LEMMA AliasesLead ==
    ASSUME NEW b, BundleInv(b), NEW p \in Polity, NEW x \in Own(b, p) \ {Empty},
           NEW M, M = Removed(b, Spread(b), x, 0),
           NEW S, S = (M \cap Own(b, p) \cap Others(b, p)) \ {Empty}
    PROVE  M \ Own(b, p) \subseteq Reach(Spread(b), S)
<1> DEFINE R == Reach(Spread(b), S)
           C == M \cap (Own(b, p) \cup R)
<1>1. IsFiniteSet(Spread(b)) /\ IsFiniteSet({x}) /\ M = Reach(Spread(b), {x})
  BY SpreadFinite, FS_Singleton DEF Removed
<1>2. x \in M /\ Closed(Spread(b), M)
  BY <1>1, Reached
<1>3. \A d \in Spread(b) : Linked(b, d)
  BY OneParty
<1>4. Empty \notin M
  <2>1. PICK D : D = M \ {Empty}
    OBVIOUS
  <2>2. x \in D
    BY <1>2, <2>1
  <2>3. Closed(Spread(b), D)
    BY <1>2, <1>3, <2>1 DEF Closed, Linked
  <2>4. M \subseteq D
    BY <1>1, <2>2, <2>3, Reached
  <2>5. QED
    BY <2>1, <2>4
<1>5. IsFiniteSet(S)
  <2>1. Closed(Spread(b), Ends(Spread(b), {x})) /\ x \in Ends(Spread(b), {x})
    BY DEF Closed, Ends
  <2>2. M \subseteq Ends(Spread(b), {x})
    BY <1>1, <2>1, Reached
  <2>3. S \subseteq Ends(Spread(b), {x})
    BY <2>2
  <2>4. IsFiniteSet(Ends(Spread(b), {x}))
    BY <1>1, EndsFinite
  <2>5. QED
    BY <2>3, <2>4, FS_Subset
<1>6. S \subseteq R /\ Closed(Spread(b), R)
  BY <1>1, <1>5, Reached
<1>7. ASSUME NEW d \in Spread(b), d[1] \in C
      PROVE  d[2] \in C
  <2>1. d[1] \in M /\ d[2] \in M /\ d[1] # Empty
    BY <1>2, <1>4, <1>7 DEF Closed
  <2>2. CASE d[1] \in R
    BY <1>6, <2>1, <2>2 DEF Closed
  <2>3. CASE d[1] \in Own(b, p)
    <3>1. PICK q \in Polity : d[1] \in Part(b, q) /\ d[2] \in Part(b, q)
      BY <1>3 DEF Linked
    <3>2. CASE q = p
      BY <2>1, <3>1, <3>2, InOwn
    <3>3. CASE q # p
      <4>1. d[1] \in Others(b, p)
        BY <3>1, <3>3, InOwn DEF Others
      <4>2. d[1] \in S
        BY <2>1, <2>3, <4>1
      <4>3. QED
        BY <1>6, <2>2, <4>2
    <3>4. QED
      BY <3>2, <3>3
  <2>4. QED
    BY <1>7, <2>2, <2>3
<1>8. x \in C /\ Closed(Spread(b), C)
  BY <1>2, <1>7 DEF Closed
<1>9. M \subseteq C
  <2> HIDE DEF C
  <2>1. QED
    BY <1>1, <1>8, Reached
<1>10. QED
  BY <1>9

-----------------------------------------------------------------------------
(* Evidence is only ever added to, and what is true of what is there stays. *)

Grows(b, c) ==
    /\ DOMAIN b.events \subseteq DOMAIN c.events
    /\ \A i \in DOMAIN b.events : c.events[i] = b.events[i]
    /\ b.flow \subseteq c.flow /\ b.mentions \subseteq c.mentions

LEMMA GrowsOn ==
    ASSUME NEW b, NEW c, NEW d, Grows(b, c), Grows(c, d)
    PROVE  Grows(b, d)
  BY DEF Grows

LEMMA TheirsGrows ==
    ASSUME NEW b, NEW c, Grows(b, c), NEW k, NEW p, Theirs(b, k, p)
    PROVE  Theirs(c, k, p)
  BY DEF Grows, Theirs

LEMMA MarkedGrows ==
    ASSUME NEW b, NEW c, Grows(b, c), NEW z, NEW p, Marked(b, z, p)
    PROVE  Marked(c, z, p)
<1>1. \A k : Theirs(b, k, p) => Theirs(c, k, p)
  BY TheirsGrows
<1>2. QED
  BY <1>1, Zenon DEF Marked

LEMMA PayloadsGrow ==
    ASSUME NEW b, NEW c, Grows(b, c)
    PROVE  Payloads(b) \subseteq Payloads(c)
<1>1. ASSUME NEW i \in DOMAIN b.events PROVE b.events[i].payload \in Payloads(c)
  BY DEF Payloads, Grows
<1>2. ASSUME NEW m \in b.mentions PROVE m[1] \in Payloads(c) /\ m[2] \in Payloads(c)
  BY DEF Payloads, Grows
<1>3. QED
  BY <1>1, <1>2 DEF Payloads

LEMMA RememberedGrows ==
    ASSUME NEW b, NEW c, Grows(b, c), NEW p, NEW m, Remembered(b, p, m)
    PROVE  Remembered(c, p, m)
<1>1. Known(b, m) => Known(c, m)
  BY DEF Known, Grows
<1>2. QED
  BY <1>1, MarkedGrows, Zenon DEF Remembered

LEMMA OfGrows ==
    ASSUME NEW b, NEW c, Grows(b, c), NEW type
    PROVE  Of(b, type) \subseteq Of(c, type)
  BY DEF Of, Grows

LEMMA LinkGrows ==
    ASSUME NEW S, NEW T, NEW U, NEW V, S \subseteq U, T \subseteq V
    PROVE  Link(S, T) \subseteq Link(U, V)
  BY DEF Link, Refs

LEMMA OriginsGrow ==
    ASSUME NEW b, NEW c, Grows(b, c), NEW handle, NEW text
    PROVE  Origins(b, handle, text) \subseteq Origins(c, handle, text)
<1>1. UNION {e.inputs \cup {e.output} : e \in Of(b, "MemoryOperation")}
        \subseteq UNION {e.inputs \cup {e.output} : e \in Of(c, "MemoryOperation")}
  BY OfGrows
<1>2. QED
  BY <1>1 DEF Origins

LEMMA GroupGrows ==
    ASSUME NEW b, NEW c, Grows(b, c), NEW id
    PROVE  /\ Group(b, id).memory \subseteq Group(c, id).memory
           /\ Group(b, id).sources \subseteq Group(c, id).sources
           /\ Group(b, id).inputs \subseteq Group(c, id).inputs
           /\ Group(b, id).outputs \subseteq Group(c, id).outputs
<1> DEFINE own(d) == {e \in Of(d, "ModelInvocation") : e.invocation = id}
           memory(d) == UNION {ToSet(e.shown.contents) : e \in own(d)}
           instructions(d) == UNION {{e.instruction, e.shown.projection, e.shown.visible} : e \in own(d)}
           inputs(d) == UNION {{e.shown.prompt, e.shown.body} : e \in own(d)}
           outputs(d) == UNION {{e.answer.output, e.answer.response} \cup e.answer.parsed : e \in own(d)}
<1>1. own(b) \subseteq own(c)
  BY OfGrows
<1>2. ASSUME NEW d
      PROVE  Group(d, id) = [memory |-> memory(d), sources |-> memory(d) \cup instructions(d),
                             inputs |-> inputs(d), outputs |-> outputs(d)]
  BY DEF Group
<1>3. /\ memory(b) \subseteq memory(c) /\ instructions(b) \subseteq instructions(c)
      /\ inputs(b) \subseteq inputs(c) /\ outputs(b) \subseteq outputs(c)
  <2> HIDE DEF own
  <2>1. QED
    BY <1>1
<1>4. QED
  <2> HIDE DEF memory, instructions, inputs, outputs
  <2>1. QED
    BY <1>2, <1>3

LEMMA SegmentLinksGrow ==
    ASSUME NEW b, NEW c, Grows(b, c)
    PROVE  SegmentLinks(b) \subseteq SegmentLinks(c)
<1> DEFINE origin(d, s, k) == Link(Origins(d, s.memory[3][k], s.memory[4][k]), {s.contents[k]})
           origins(d, s) == UNION {origin(d, s, k) : k \in DOMAIN s.contents}
           links(d, s) == Link({s.projection}, {s.visible}) \cup origins(d, s)
<1>1. \A d : SegmentLinks(d) = UNION {links(d, f.shown) : f \in Of(d, "ModelInvocation")}
  BY Zenon DEF SegmentLinks
<1>2. \A s, k : origin(b, s, k) \subseteq origin(c, s, k)
  BY OriginsGrow, LinkGrows
<1>3. \A s : origins(b, s) \subseteq origins(c, s)
  <2> HIDE DEF origin
  <2>1. QED
    BY <1>2
<1>4. \A s : links(b, s) \subseteq links(c, s)
  BY <1>3
<1>5. QED
  <2> HIDE DEF links
  <2>1. QED
    BY <1>1, <1>4, OfGrows

LEMMA InvocationLinksGrow ==
    ASSUME NEW b, NEW c, Grows(b, c)
    PROVE  InvocationLinks(b) \subseteq InvocationLinks(c)
<1> DEFINE links(g) == Link(g.sources, g.inputs) \cup Link(g.inputs, g.inputs \cup g.outputs)
                         \cup Link(g.outputs, g.outputs)
           ids(d) == {e.invocation : e \in Of(d, "ModelInvocation")}
<1>1. \A d : InvocationLinks(d) = UNION {links(Group(d, id)) : id \in ids(d)}
  BY Zenon DEF InvocationLinks
<1>2. ASSUME NEW id PROVE links(Group(b, id)) \subseteq links(Group(c, id))
  <2>1. PICK g, h : g = Group(b, id) /\ h = Group(c, id)
    OBVIOUS
  <2>2. g.sources \subseteq h.sources /\ g.inputs \subseteq h.inputs /\ g.outputs \subseteq h.outputs
    BY <2>1, GroupGrows
  <2>3. /\ Link(g.sources, g.inputs) \subseteq Link(h.sources, h.inputs)
        /\ Link(g.inputs, g.inputs \cup g.outputs) \subseteq Link(h.inputs, h.inputs \cup h.outputs)
        /\ Link(g.outputs, g.outputs) \subseteq Link(h.outputs, h.outputs)
    BY <2>2, LinkGrows
  <2>4. QED
    BY <2>1, <2>3
<1>3. ids(b) \subseteq ids(c)
  BY OfGrows
<1>4. QED
  <2> HIDE DEF links, ids
  <2>1. QED
    BY <1>1, <1>2, <1>3

LEMMA MemoryLinksHave ==
    ASSUME NEW b, NEW e \in Of(b, "MemoryOperation")
    PROVE  Link(e.inputs \cup {e.available}, {e.output}) \subseteq MemoryLinks(b)
<1> DEFINE made(d) == Link(d.inputs \cup {d.available}, {d.output})
           links(d, g) == made(d)
                            \cup (IF d.read THEN Link({d.output, d.available}, g.memory \cup g.inputs)
                                  ELSE {})
<1>1. MemoryLinks(b) = UNION {links(d, Group(b, d.invocation)) : d \in Of(b, "MemoryOperation")}
  BY Zenon DEF MemoryLinks
<1>2. made(e) \subseteq links(e, Group(b, e.invocation))
  <2> HIDE DEF made
  <2>1. QED
    OBVIOUS
<1>3. QED
  <2> HIDE DEF links
  <2>1. QED
    BY <1>1, <1>2

LEMMA MemoryLinksGrow ==
    ASSUME NEW b, NEW c, Grows(b, c)
    PROVE  MemoryLinks(b) \subseteq MemoryLinks(c)
<1> DEFINE links(e, g) == Link(e.inputs \cup {e.available}, {e.output})
                            \cup (IF e.read THEN Link({e.output, e.available}, g.memory \cup g.inputs)
                                  ELSE {})
<1>1. \A d : MemoryLinks(d) = UNION {links(e, Group(d, e.invocation)) : e \in Of(d, "MemoryOperation")}
  BY Zenon DEF MemoryLinks
<1>2. ASSUME NEW e PROVE links(e, Group(b, e.invocation)) \subseteq links(e, Group(c, e.invocation))
  <2>1. PICK g, h : g = Group(b, e.invocation) /\ h = Group(c, e.invocation)
    OBVIOUS
  <2>2. g.memory \cup g.inputs \subseteq h.memory \cup h.inputs
    BY <2>1, GroupGrows
  <2>3. Link({e.output, e.available}, g.memory \cup g.inputs)
          \subseteq Link({e.output, e.available}, h.memory \cup h.inputs)
    BY <2>2, LinkGrows
  <2>4. QED
    BY <2>1, <2>3
<1>3. QED
  <2> HIDE DEF links
  <2>1. QED
    BY <1>1, <1>2, OfGrows

LEMMA InterviewLinksGrow ==
    ASSUME NEW b, NEW c, Grows(b, c)
    PROVE  InterviewLinks(b) \subseteq InterviewLinks(c)
  BY OfGrows DEF InterviewLinks

LEMMA EventLinksGrow ==
    ASSUME NEW b, NEW c, Grows(b, c), BundleInv(b)
    PROVE  EventLinks(b) \subseteq EventLinks(c)
<1> DEFINE links(d, i) == Link({d.events[j].payload : j \in d.events[i].parents}
                                 \cup d.events[i].provenance, {d.events[i].payload})
<1>1. \A d : EventLinks(d) = UNION {links(d, i) : i \in DOMAIN d.events}
  BY Zenon DEF EventLinks
<1>2. ASSUME NEW i \in DOMAIN b.events PROVE links(b, i) = links(c, i)
  <2>1. \A j \in b.events[i].parents : j \in DOMAIN b.events
    BY DEF BundleInv, EventFits, Theirs
  <2>2. c.events[i] = b.events[i] /\ \A j \in b.events[i].parents : c.events[j] = b.events[j]
    BY <2>1 DEF Grows
  <2>3. {b.events[j].payload : j \in b.events[i].parents} = {c.events[j].payload : j \in c.events[i].parents}
    BY <2>2
  <2>4. QED
    BY <2>2, <2>3
<1>3. QED
  <2> HIDE DEF links
  <2>1. QED
    BY <1>1, <1>2 DEF Grows

LEMMA DependenciesGrow ==
    ASSUME NEW b, NEW c, Grows(b, c), BundleInv(b)
    PROVE  Dependencies(b) \subseteq Dependencies(c)
  BY SegmentLinksGrow, InvocationLinksGrow, EventLinksGrow, MemoryLinksGrow, InterviewLinksGrow
     DEF Dependencies

LEMMA PartGrows ==
    ASSUME NEW b, NEW c, Grows(b, c), NEW p
    PROVE  Part(b, p) \subseteq Part(c, p)
  BY PayloadsGrow DEF Part, Grows

LEMMA EventFitsGrows ==
    ASSUME NEW b, NEW c, Grows(b, c), NEW i \in DOMAIN b.events, EventFits(b, i)
    PROVE  EventFits(c, i)
<1>1. PICK e : e = b.events[i] /\ e = c.events[i]
  BY DEF Grows
<1>2. \A j \in e.parents : Theirs(c, j, e.of)
  BY <1>1, TheirsGrows DEF EventFits
<1>3. \A z \in Has(e) : z \in Payloads(c)
  <2>1. \A z \in Has(e) : z \in Payloads(b)
    BY <1>1, Zenon DEF EventFits
  <2>2. QED
    BY <2>1, PayloadsGrow
<1>4. OperationFits(b, e) => OperationFits(c, e)
  BY TheirsGrows, MarkedGrows DEF OperationFits
<1>5. InvocationFits(b, e) => InvocationFits(c, e)
  BY TheirsGrows, RememberedGrows, Zenon DEF InvocationFits
<1>6. QED
  BY <1>1, <1>2, <1>3, <1>4, <1>5, Zenon DEF EventFits

LEMMA MentionFitsGrows ==
    ASSUME NEW b, NEW c, Grows(b, c), NEW m, MentionFits(b, m)
    PROVE  MentionFits(c, m)
  BY PartGrows DEF MentionFits

LEMMA FlowFitsGrows ==
    ASSUME NEW b, NEW c, Grows(b, c), BundleInv(b), NEW f, FlowFits(b, f)
    PROVE  FlowFits(c, f)
<1>1. Surfaces(b, f) => Surfaces(c, f)
  BY DEF Surfaces, Grows
<1>2. f[1][1] = "visible" =>
          \E i \in DOMAIN c.events :
              LET e == c.events[i] IN
              e.type = "ModelInvocation" /\ f[1] = e.shown.visible /\ f[2] = e.shown.prompt
  BY DEF FlowFits, Grows
<1>3. <<f[1], f[2]>> \in Dependencies(b) => <<f[1], f[2]>> \in Dependencies(c)
  BY DependenciesGrow
<1>4. f[1] = f[2] \/ <<f[1], f[2]>> \in Dependencies(b) \/ Surfaces(b, f)
  BY Zenon DEF FlowFits
<1>5. QED
  BY <1>1, <1>2, <1>3, <1>4, Zenon DEF FlowFits

\* c is b and one more event, and what was recorded with it.
Adds(b, c, e, mentions, flow) ==
    /\ Grows(b, c) /\ Here(b) \in Nat \ {0}
    /\ DOMAIN c.events = DOMAIN b.events \cup {Here(b)} /\ Here(b) \notin DOMAIN b.events
    /\ c.events[Here(b)] = e /\ Len(c.events) = Here(b)
    /\ c.mentions = b.mentions \cup mentions /\ c.flow = b.flow \cup flow

LEMMA RecordingAdds ==
    ASSUME NEW b, IsBundle(b), NEW e, NEW mentions, IsFiniteSet(mentions),
           NEW flow, IsFiniteSet(flow), NEW c, c = Recording(b, e, mentions, flow)
    PROVE  /\ IsBundle(c) /\ Adds(b, c, e, mentions, flow) /\ c.held = b.held
<1> DEFINE E == {b.events[i] : i \in DOMAIN b.events}
<1>1. b = [events |-> b.events, held |-> b.held, flow |-> b.flow, mentions |-> b.mentions]
  BY DEF IsBundle
<1>2. PICK s, h, f, m : /\ s = b.events /\ h = b.held /\ f = b.flow /\ m = b.mentions
                        /\ b = [events |-> s, held |-> h, flow |-> f, mentions |-> m]
  BY <1>1
<1>3. PICK s2, f2, m2 : s2 = Append(s, e) /\ f2 = f \cup flow /\ m2 = m \cup mentions
  OBVIOUS
<1>4. c = [events |-> s2, held |-> h, flow |-> f2, mentions |-> m2]
  BY <1>2, <1>3 DEF Recording
<1>5. c.events = s2 /\ c.held = h /\ c.flow = f2 /\ c.mentions = m2
  BY <1>4
<1>6. s \in Seq(E \cup {e}) /\ s \in Seq(E)
  BY <1>2 DEF IsBundle
<1>7. /\ s2 \in Seq(E \cup {e}) /\ Len(s) \in Nat /\ Len(s2) = Len(s) + 1
      /\ DOMAIN s = 1..Len(s) /\ DOMAIN s2 = 1..(Len(s) + 1)
      /\ \A i \in 1..Len(s) : s2[i] = s[i]
      /\ s2[Len(s) + 1] = e
  <2> HIDE DEF E
  <2>1. QED
    BY <1>3, <1>6
<1>8. E \cup {e} \subseteq {s2[i] : i \in DOMAIN s2}
  <2>1. \A i \in DOMAIN s : i \in DOMAIN s2 /\ s2[i] = s[i]
    BY <1>7
  <2>2. ASSUME NEW x \in E
        PROVE  \E i \in DOMAIN s2 : x = s2[i]
    <3>1. PICK i \in DOMAIN s : x = s[i]
      BY <1>2, Zenon
    <3>2. QED
      BY <2>1, <3>1, Zenon
  <2>3. \E i \in DOMAIN s2 : e = s2[i]
    BY <1>7
  <2>4. QED
    <3> HIDE DEF E
    <3>1. QED
      BY <2>2, <2>3, Zenon
<1>9. s2 \in Seq({s2[i] : i \in DOMAIN s2})
  <2> HIDE DEF E
  <2>1. QED
    BY <1>7, <1>8
<1>10. IsFiniteSet(f2) /\ IsFiniteSet(m2)
  BY <1>2, <1>3, FS_Union DEF IsBundle
<1>11. IsBundle(c)
  BY <1>2, <1>4, <1>5, <1>9, <1>10 DEF IsBundle
<1>12. Here(b) = Len(s) + 1
  BY <1>2 DEF Here
<1>13. Grows(b, c)
  <2>1. DOMAIN s \subseteq DOMAIN s2 /\ \A i \in DOMAIN s : s2[i] = s[i]
    BY <1>7
  <2>2. f \subseteq f2 /\ m \subseteq m2
    BY <1>3
  <2>3. QED
    BY <1>2, <1>5, <2>1, <2>2 DEF Grows
<1>14. QED
  BY <1>2, <1>3, <1>5, <1>7, <1>11, <1>12, <1>13 DEF Adds

\* What is added fits, and so does the whole.
LEMMA AddingFits ==
    ASSUME NEW b, BundleInv(b), NEW c, IsBundle(c), NEW e, NEW mentions, NEW flow,
           Adds(b, c, e, mentions, flow),
           EventFits(c, Here(b)),
           \A m \in mentions : MentionFits(c, m),
           \A f \in flow : FlowFits(c, f),
           \A p \in Polity : Remembered(c, p, Memory(c.held[p]))
    PROVE  BundleInv(c)
<1>1. Grows(b, c)
  BY DEF Adds
<1>2. \A i \in DOMAIN c.events : EventFits(c, i)
  BY <1>1, EventFitsGrows DEF BundleInv, Adds
<1>3. \A m \in c.mentions : MentionFits(c, m)
  BY <1>1, MentionFitsGrows DEF BundleInv, Adds
<1>4. \A f \in c.flow : FlowFits(c, f)
  BY <1>1, FlowFitsGrows DEF BundleInv, Adds
<1>5. QED
  BY <1>2, <1>3, <1>4 DEF BundleInv

LEMMA AddedTheirs ==
    ASSUME NEW b, NEW c, NEW e, NEW mentions, NEW flow, Adds(b, c, e, mentions, flow)
    PROVE  Theirs(c, Here(b), e.of) /\ Here(b) \in Nat \ {0}
  BY DEF Adds, Theirs

LEMMA AddedPayloads ==
    ASSUME NEW b, NEW c, NEW e, NEW mentions, NEW flow, Adds(b, c, e, mentions, flow)
    PROVE  /\ e.payload \in Payloads(c)
           /\ \A m \in mentions : m[1] \in Payloads(c) /\ m[2] \in Payloads(c)
<1>1. Here(b) \in DOMAIN c.events /\ c.events[Here(b)] = e /\ mentions \subseteq c.mentions
  BY DEF Adds
<1>2. e.payload \in Payloads(c)
  BY <1>1 DEF Payloads
<1>3. ASSUME NEW m \in mentions PROVE m[1] \in Payloads(c) /\ m[2] \in Payloads(c)
  BY <1>1 DEF Payloads
<1>4. QED
  BY <1>2, <1>3

LEMMA AddedPart ==
    ASSUME NEW b, NEW c, NEW e, NEW mentions, NEW flow, Adds(b, c, e, mentions, flow),
           EventFits(c, Here(b))
    PROVE  \A z \in Has(e) : z \in Part(c, e.of)
<1>1. Here(b) \in DOMAIN c.events /\ c.events[Here(b)] = e
  BY DEF Adds
<1>2. \A z \in Has(e) : z \in Payloads(c)
  BY <1>1, Zenon DEF EventFits
<1>3. QED
  BY <1>1, <1>2 DEF Part

LEMMA IndexIs ==
    ASSUME NEW k
    PROVE  /\ Payload("event", "", <<k>>, <<>>)[1] = "event"
           /\ Payload("available", "", <<k>>, <<>>)[1] = "available"
           /\ Payload("diagnostic", "", <<k>>, <<>>)[1] = "diagnostic"
           /\ Payload("isolation", "", <<k>>, <<>>)[1] = "isolation"
<1>1. Payload("event", "", <<k>>, <<>>)[1] = "event"
  BY DEF Payload
<1>2. Payload("available", "", <<k>>, <<>>)[1] = "available"
  BY DEF Payload
<1>3. Payload("diagnostic", "", <<k>>, <<>>)[1] = "diagnostic"
  BY DEF Payload
<1>4. Payload("isolation", "", <<k>>, <<>>)[1] = "isolation"
  BY DEF Payload
<1>5. QED
  BY <1>1, <1>2, <1>3, <1>4

LEMMA MemoryIs ==
    ASSUME NEW records \in Seq(Nat \X Nat)
    PROVE  LET m == Memory(records) IN
           /\ m[1] = "memory" /\ m[3] \in Seq(Nat) /\ m[4] \in Seq(Nat)
           /\ DOMAIN m[3] = DOMAIN records /\ DOMAIN m[4] = DOMAIN records
           /\ m[3] = <<>> <=> records = <<>>
           /\ \A i \in DOMAIN records : m[3][i] = records[i][1] /\ m[4][i] = records[i][2]
<1>1. PICK places, texts : /\ places = [i \in DOMAIN records |-> records[i][1]]
                           /\ texts = [i \in DOMAIN records |-> records[i][2]]
  OBVIOUS
<1>2. PICK m, kind, of : m = Memory(records) /\ m = Payload(kind, of, places, texts) /\ kind = "memory"
  BY <1>1, Zenon DEF Memory
<1>3. m[1] = "memory" /\ m[3] = places /\ m[4] = texts
  BY <1>2 DEF Payload
<1>4. DOMAIN records = 1..Len(records) /\ Len(records) \in Nat
      /\ \A i \in DOMAIN records : records[i] \in Nat \X Nat
  OBVIOUS
<1>5. \A i \in DOMAIN records : records[i][1] \in Nat /\ records[i][2] \in Nat
  BY <1>4
<1>6. places \in [1..Len(records) -> Nat] /\ texts \in [1..Len(records) -> Nat]
  BY <1>1, <1>4, <1>5
<1>7. places \in Seq(Nat) /\ texts \in Seq(Nat)
  <2>1. PICK n, s, u : /\ n \in Nat
                       /\ places = s /\ s \in [1..n -> Nat]
                       /\ texts = u /\ u \in [1..n -> Nat]
    BY <1>4, <1>6, Zenon
  <2>2. s \in Seq(Nat)
    BY <2>1, SeqDef
  <2>3. u \in Seq(Nat)
    BY <2>1, SeqDef
  <2>4. QED
    BY <2>1, <2>2, <2>3, Zenon
<1>8. places = <<>> <=> records = <<>>
  <2>1. places = <<>> <=> Len(places) = 0
    BY <1>7
  <2>2. records = <<>> <=> Len(records) = 0
    OBVIOUS
  <2>3. Len(places) = Len(records)
    BY <1>4, <1>6, <1>7
  <2>4. QED
    BY <2>1, <2>2, <2>3
<1>9. /\ DOMAIN places = DOMAIN records /\ DOMAIN texts = DOMAIN records
      /\ \A i \in DOMAIN records : places[i] = records[i][1] /\ texts[i] = records[i][2]
  BY <1>1
<1>10. QED
  BY <1>2, <1>3, <1>7, <1>8, <1>9, Zenon

-----------------------------------------------------------------------------
(* An operation of the memory.                                              *)

Used(b, p, request, inputs) == {Memory(b.held[p]), request} \cup inputs
ArchivedEvent(b, p, request, records, invocation, inputs) ==
    [type |-> "MemoryOperation", of |-> p, payload |-> EventPayload(b),
     parents |-> LastMemory(b, p), provenance |-> {},
     read |-> request[2] = "READ", invocation |-> invocation, inputs |-> Used(b, p, request, inputs),
     output |-> Memory(records), available |-> Payload("available", "", <<Here(b)>>, <<>>)]
ArchivedMentions(b, e, before, inputs) ==
    ({e.payload} \X (e.inputs \cup {e.output, e.available})) \cup ({e.available} \X ({before} \cup inputs))
ArchivedFlow(e, before, request) ==
    {<<x, e.output>> : x \in {before} \cup (IF e.read THEN {} ELSE {request})}

LEMMA ArchivedIs ==
    ASSUME NEW b, NEW p, NEW request, NEW records, NEW invocation, NEW inputs
    PROVE  \E e : /\ e = ArchivedEvent(b, p, request, records, invocation, inputs)
                  /\ Archived(b, p, request, records, invocation, inputs)
                       = [Recording(b, e, ArchivedMentions(b, e, Memory(b.held[p]), inputs),
                                    ArchivedFlow(e, Memory(b.held[p]), request))
                            EXCEPT !.held[p] = records]
<1> DEFINE d == ArchivedEvent(b, p, request, records, invocation, inputs)
           available == Payload("available", "", <<Here(b)>>, <<>>)
<1>1. d.inputs = Used(b, p, request, inputs)
  BY DEF ArchivedEvent
<1>2. d.output = Memory(records)
  BY DEF ArchivedEvent
<1>3. d.available = available
  BY DEF ArchivedEvent
<1>4. Archived(b, p, request, records, invocation, inputs)
        = [Recording(b, d, ({d.payload} \X (Used(b, p, request, inputs)
                                              \cup {Memory(records), available}))
                             \cup ({available} \X ({Memory(b.held[p])} \cup inputs)),
                     {<<x, Memory(records)>> :
                          x \in {Memory(b.held[p])} \cup (IF d.read THEN {} ELSE {request})})
             EXCEPT !.held[p] = records]
  BY Zenon DEF Archived, ArchivedEvent, Used
<1> HIDE DEF d, available
<1>5. ArchivedMentions(b, d, Memory(b.held[p]), inputs)
        = ({d.payload} \X (Used(b, p, request, inputs) \cup {Memory(records), available}))
            \cup ({available} \X ({Memory(b.held[p])} \cup inputs))
  BY <1>1, <1>2, <1>3, Zenon DEF ArchivedMentions
<1>6. ArchivedFlow(d, Memory(b.held[p]), request)
        = {<<x, Memory(records)>> :
               x \in {Memory(b.held[p])} \cup (IF d.read THEN {} ELSE {request})}
  BY <1>2, Zenon DEF ArchivedFlow
<1>7. Archived(b, p, request, records, invocation, inputs)
        = [Recording(b, d, ArchivedMentions(b, d, Memory(b.held[p]), inputs),
                     ArchivedFlow(d, Memory(b.held[p]), request)) EXCEPT !.held[p] = records]
  BY <1>4, <1>5, <1>6, Zenon
<1>8. d = ArchivedEvent(b, p, request, records, invocation, inputs)
  BY DEF d
<1>9. QED
  BY <1>7, <1>8, Zenon

LEMMA PairFinite ==
    ASSUME NEW x, NEW y
    PROVE  IsFiniteSet({x, y})
<1>1. {x, y} = {x} \cup {y}
  OBVIOUS
<1>2. IsFiniteSet({x}) /\ IsFiniteSet({y})
  BY FS_Singleton
<1>3. IsFiniteSet({x} \cup {y})
  BY <1>2, FS_Union
<1>4. QED
  BY <1>1, <1>3

LEMMA ArchivedAdds ==
    ASSUME NEW b, IsBundle(b), NEW p \in Polity, NEW request, NEW records \in Seq(Nat \X Nat),
           NEW invocation, NEW inputs, IsFiniteSet(inputs),
           NEW e, e = ArchivedEvent(b, p, request, records, invocation, inputs),
           NEW c, c = Archived(b, p, request, records, invocation, inputs)
    PROVE  /\ IsBundle(c) /\ c.held = [b.held EXCEPT ![p] = records]
           /\ Adds(b, c, e, ArchivedMentions(b, e, Memory(b.held[p]), inputs),
                   ArchivedFlow(e, Memory(b.held[p]), request))
<1>1. PICK before, mentions, flow :
          /\ before = Memory(b.held[p])
          /\ mentions = ArchivedMentions(b, e, before, inputs)
          /\ flow = ArchivedFlow(e, before, request)
  OBVIOUS
<1>2. e.inputs = {before, request} \cup inputs
  BY <1>1 DEF ArchivedEvent, Used
<1>3. IsFiniteSet(mentions)
  <2>1. IsFiniteSet(e.inputs \cup {e.output, e.available}) /\ IsFiniteSet({before} \cup inputs)
    <3>1. IsFiniteSet({before, request}) /\ IsFiniteSet({e.output, e.available}) /\ IsFiniteSet({before})
      BY PairFinite, FS_Singleton
    <3>2. IsFiniteSet({before, request} \cup inputs)
      BY <3>1, FS_Union
    <3>3. IsFiniteSet(e.inputs)
      BY <1>2, <3>2
    <3>4. QED
      BY <3>1, <3>3, FS_Union
  <2>2. /\ IsFiniteSet({e.payload} \X (e.inputs \cup {e.output, e.available}))
        /\ IsFiniteSet({e.available} \X ({before} \cup inputs))
    BY <2>1, FS_Singleton, FS_Product
  <2>3. QED
    BY <1>1, <2>2, FS_Union DEF ArchivedMentions
<1>4. IsFiniteSet(flow)
  <2>1. flow \subseteq {<<before, e.output>>} \cup {<<request, e.output>>}
    BY <1>1 DEF ArchivedFlow
  <2>2. IsFiniteSet({<<before, e.output>>} \cup {<<request, e.output>>})
    BY FS_Singleton, FS_Union
  <2>3. QED
    BY <2>1, <2>2, FS_Subset
<1>5. PICK a : a = Recording(b, e, mentions, flow)
  OBVIOUS
<1>6. IsBundle(a) /\ Adds(b, a, e, mentions, flow) /\ a.held = b.held
  BY <1>3, <1>4, <1>5, RecordingAdds
<1>7. c = [a EXCEPT !.held[p] = records]
  BY <1>1, <1>5, ArchivedIs
<1>8. PICK s, h, f, m : /\ s = a.events /\ h = a.held /\ f = a.flow /\ m = a.mentions
                        /\ a = [events |-> s, held |-> h, flow |-> f, mentions |-> m]
  BY <1>6 DEF IsBundle
<1>9. PICK h2 : h2 = [h EXCEPT ![p] = records]
  OBVIOUS
<1>10. c = [events |-> s, held |-> h2, flow |-> f, mentions |-> m]
  BY <1>7, <1>8, <1>9
<1>11. c.events = s /\ c.held = h2 /\ c.flow = f /\ c.mentions = m
  BY <1>10
<1>12. h \in [Polity -> Seq(Nat \X Nat)] /\ h2 \in [Polity -> Seq(Nat \X Nat)]
  BY <1>6, <1>8, <1>9 DEF IsBundle
<1>13. IsBundle(c)
  BY <1>6, <1>8, <1>10, <1>11, <1>12 DEF IsBundle
<1>14. Adds(b, c, e, mentions, flow)
  BY <1>6, <1>8, <1>11, Zenon DEF Adds, Grows
<1>15. QED
  BY <1>1, <1>6, <1>8, <1>9, <1>11, <1>13, <1>14

LEMMA ArchivedGrows ==
    ASSUME NEW b, IsBundle(b), NEW p \in Polity, NEW request, NEW records \in Seq(Nat \X Nat),
           NEW invocation, NEW inputs, IsFiniteSet(inputs),
           NEW c, c = Archived(b, p, request, records, invocation, inputs)
    PROVE  Grows(b, c)
<1>1. PICK e : e = ArchivedEvent(b, p, request, records, invocation, inputs)
  OBVIOUS
<1>2. PICK mentions, flow : /\ mentions = ArchivedMentions(b, e, Memory(b.held[p]), inputs)
                            /\ flow = ArchivedFlow(e, Memory(b.held[p]), request)
  OBVIOUS
<1>3. c.held = [b.held EXCEPT ![p] = records] /\ Adds(b, c, e, mentions, flow)
  BY <1>1, <1>2, ArchivedAdds
<1>4. QED
  BY <1>3 DEF Adds

\* What an operation of p may be given.
ArchivedGiven(c, p, request, records, invocation, inputs) ==
    /\ request[1] = "request" /\ \A z \in inputs : z[1] # "memory"
    /\ Marked(c, Memory(records), p) /\ Theirs(c, invocation, p)

LEMMA ArchivedFits ==
    ASSUME NEW b, BundleInv(b), NEW p \in Polity, NEW request, NEW records \in Seq(Nat \X Nat),
           NEW invocation, NEW inputs, IsFiniteSet(inputs),
           NEW c, c = Archived(b, p, request, records, invocation, inputs),
           ArchivedGiven(c, p, request, records, invocation, inputs)
    PROVE  BundleInv(c)
<1>1. PICK e : e = ArchivedEvent(b, p, request, records, invocation, inputs)
  OBVIOUS
<1>2. PICK before, available, mentions, flow :
          /\ before = Memory(b.held[p])
          /\ available = Payload("available", "", <<Here(b)>>, <<>>)
          /\ mentions = ArchivedMentions(b, e, before, inputs)
          /\ flow = ArchivedFlow(e, before, request)
  OBVIOUS
<1>3. /\ IsBundle(c) /\ c.held = [b.held EXCEPT ![p] = records] /\ Adds(b, c, e, mentions, flow)
      /\ Grows(b, c) /\ b.held \in [Polity -> Seq(Nat \X Nat)]
  <2>1. IsBundle(b)
    BY DEF BundleInv
  <2>2. IsBundle(c) /\ c.held = [b.held EXCEPT ![p] = records] /\ Adds(b, c, e, mentions, flow)
    <3>1. /\ IsBundle(c) /\ c.held = [b.held EXCEPT ![p] = records]
          /\ Adds(b, c, e, ArchivedMentions(b, e, Memory(b.held[p]), inputs),
                  ArchivedFlow(e, Memory(b.held[p]), request))
      BY <1>1, <2>1, ArchivedAdds
    <3>2. QED
      BY <1>2, <3>1, Zenon
  <2>3. QED
    BY <2>1, <2>2 DEF Adds, IsBundle
<1>4. /\ e.type = "MemoryOperation" /\ e.of = p /\ e.payload = EventPayload(b)
      /\ e.parents = LastMemory(b, p) /\ e.provenance = {}
      /\ e.invocation = invocation /\ e.inputs = {before, request} \cup inputs
      /\ e.output = Memory(records) /\ e.available = available
  BY <1>1, <1>2 DEF ArchivedEvent, Used
<1>5. Here(b) \in DOMAIN c.events /\ c.events[Here(b)] = e /\ Here(b) \in Nat
  BY <1>3 DEF Adds
<1>6. Has(e) = {e.payload, before, request, e.output, available} \cup inputs
  BY <1>4 DEF Has, OperationHas
<1>7. Remembered(c, p, before)
  BY <1>2, <1>3, RememberedGrows DEF BundleInv
<1>8. Remembered(c, p, e.output)
  <2>1. Known(c, e.output)
    BY <1>4, <1>5 DEF Known
  <2>2. QED
    BY <1>4, <2>1, MemoryIs DEF Remembered, ArchivedGiven
<1>10. \A z \in Has(e) \ {e.payload} : <<e.payload, z>> \in mentions
  BY <1>2, <1>4, <1>6 DEF ArchivedMentions
<1>12. e.payload[1] = "event" /\ available[1] = "available"
  BY <1>2, <1>4, IndexIs DEF EventPayload
<1>13. EventFits(c, Here(b))
  <2>1. \A z \in Has(e) : z \in Payloads(c)
    <3>1. ASSUME NEW z \in Has(e) \ {e.payload} PROVE z \in Payloads(c)
      <4>1. PICK m : m = <<e.payload, z>>
        OBVIOUS
      <4>2. m \in mentions /\ m[2] = z
        BY <1>10, <4>1
      <4>3. m[2] \in Payloads(c)
        BY <1>3, <4>2, AddedPayloads, Zenon
      <4>4. QED
        BY <4>2, <4>3
    <3>2. e.payload \in Payloads(c)
      BY <1>3, AddedPayloads
    <3>3. QED
      BY <3>1, <3>2
  <2>2. \A j \in e.parents : Theirs(c, j, p)
    <3>1. \A j \in e.parents : Theirs(b, j, p)
      BY <1>4 DEF LastMemory, Theirs
    <3>2. QED
      BY <1>3, <3>1, TheirsGrows
  <2>3. OperationFits(c, e)
    <3>1. \A z \in e.inputs : z[1] = "memory" => z = before
      BY <1>4 DEF ArchivedGiven
    <3>2. Marked(c, before, p) /\ Marked(c, e.output, p) /\ Theirs(c, invocation, p)
      BY <1>7, <1>8 DEF ArchivedGiven, Remembered
    <3>3. QED
      BY <1>4, <3>1, <3>2 DEF OperationFits
  <2>5. e.type \in Types /\ e.type # "ModelInvocation" /\ e.type # "InterviewResponse"
    BY <1>4 DEF Types
  <2>6. QED
    BY <1>4, <1>5, <2>1, <2>2, <2>3, <2>5, Zenon DEF EventFits
<1>14. \A z \in Has(e) : z \in Part(c, p)
  BY <1>3, <1>4, <1>13, AddedPart
<1>15. ASSUME NEW m \in mentions PROVE MentionFits(c, m)
  <2>1. m[1] \in {e.payload, available} /\ m[2] \in Has(e)
    BY <1>2, <1>4, <1>6 DEF ArchivedMentions
  <2>2. m[1] \in Part(c, p) /\ m[2] \in Part(c, p)
    BY <1>6, <1>14, <2>1
  <2>3. m[1][1] \in Indexed
    BY <1>12, <2>1 DEF Indexed
  <2>4. QED
    BY <2>2, <2>3 DEF MentionFits
<1>16. ASSUME NEW f \in flow PROVE FlowFits(c, f)
  <2>1. f[1] \in {before, request} /\ f[2] = e.output
    <3>1. flow \subseteq {<<x, e.output>> : x \in {before, request}}
      BY <1>2 DEF ArchivedFlow
    <3>2. QED
      BY <3>1
  <2>2. before[1] = "memory" /\ e.output[1] = "memory" /\ request[1] = "request"
    BY <1>7, <1>8 DEF Remembered, ArchivedGiven
  <2>3. f[1][1] # "visible"
    BY <2>1, <2>2
  <2>4. CASE f[1] # f[2]
    <3>1. f[1] # Empty /\ f[2] # Empty
      BY <2>1, <2>2, RawIs DEF Empty
    <3>2. f[1] \in e.inputs \cup {e.available}
      BY <1>4, <2>1
    <3>3. <<f[1], f[2]>> \in Link(e.inputs \cup {e.available}, {e.output})
      BY <2>1, <2>4, <3>1, <3>2, Links
    <3>4. e \in Of(c, "MemoryOperation")
      BY <1>4, <1>5 DEF Of
    <3>5. <<f[1], f[2]>> \in MemoryLinks(c)
      BY <3>3, <3>4, MemoryLinksHave
    <3>6. QED
      BY <2>3, <3>5, Zenon DEF FlowFits, Dependencies
  <2>5. CASE f[1] = f[2]
    BY <2>3, <2>5, Zenon DEF FlowFits
  <2>6. QED
    BY <2>4, <2>5
<1>17. \A q \in Polity : Remembered(c, q, Memory(c.held[q]))
  <2>1. ASSUME NEW q \in Polity, q # p PROVE Remembered(c, q, Memory(c.held[q]))
    <3>1. c.held[q] = b.held[q]
      BY <1>3, <2>1
    <3>2. QED
      BY <1>3, <2>1, <3>1, RememberedGrows DEF BundleInv
  <2>2. c.held[p] = records
    BY <1>3
  <2>3. QED
    BY <1>4, <1>8, <2>1, <2>2
<1>18. QED
  BY <1>3, <1>13, <1>15, <1>16, <1>17, AddingFits

-----------------------------------------------------------------------------
(* A record of an attempt.                                                  *)

LEMMA InvocationLinksHave ==
    ASSUME NEW b, NEW e \in Of(b, "ModelInvocation"),
           NEW x, NEW y, x # Empty, y # Empty, x # y,
           \/ /\ x \in ToSet(e.shown.contents) \cup {e.shown.visible}
              /\ y \in {e.shown.prompt, e.shown.body}
           \/ /\ x \in {e.shown.prompt, e.shown.body}
              /\ y \in {e.shown.body, e.answer.output, e.answer.response}
           \/ /\ x \in {e.answer.output, e.answer.response}
              /\ y \in e.answer.parsed
    PROVE  <<x, y>> \in Dependencies(b)
<1>1. PICK g : g = Group(b, e.invocation)
  OBVIOUS
<1>2. ToSet(e.shown.contents) \cup {e.shown.visible} \subseteq g.sources
  BY <1>1 DEF Group
<1>3. e.shown.prompt \in g.inputs /\ e.shown.body \in g.inputs
  BY <1>1 DEF Group
<1>4. {e.answer.output, e.answer.response} \cup e.answer.parsed \subseteq g.outputs
  BY <1>1 DEF Group
<1>5. \/ <<x, y>> \in Link(g.sources, g.inputs)
      \/ <<x, y>> \in Link(g.inputs, g.inputs \cup g.outputs)
      \/ <<x, y>> \in Link(g.outputs, g.outputs)
  BY <1>2, <1>3, <1>4, Links
<1> DEFINE links(h) == Link(h.sources, h.inputs) \cup Link(h.inputs, h.inputs \cup h.outputs)
                         \cup Link(h.outputs, h.outputs)
           ids == {d.invocation : d \in Of(b, "ModelInvocation")}
<1>6. InvocationLinks(b) = UNION {links(Group(b, id)) : id \in ids}
  BY Zenon DEF InvocationLinks
<1>7. e.invocation \in ids /\ <<x, y>> \in links(g)
  BY <1>5
<1>8. <<x, y>> \in InvocationLinks(b)
  <2> HIDE DEF links, ids
  <2>1. QED
    BY <1>1, <1>6, <1>7
<1>9. QED
  BY <1>8 DEF Dependencies

\* The texts that a model was shown, when what the polity held is remembered.
LEMMA ShownContents ==
    ASSUME NEW b, NEW p, NEW s, Shows(s, p, s.memory, s.phase), Remembered(b, p, s.memory)
    PROVE  /\ IsFiniteSet(ToSet(s.contents)) /\ \A z \in ToSet(s.contents) : z[1] = "raw"
           /\ \A k \in DOMAIN s.contents : s.contents[k][1] = "raw"
<1>1. PICK texts : texts = s.memory[4]
  OBVIOUS
<1>2. PICK f : f = s.contents /\ f = [i \in DOMAIN texts |-> Raw(texts[i])]
  BY <1>1 DEF Shows, Texts
<1>3. PICK n \in Nat : DOMAIN f = 1..n
  <2>1. texts \in Seq(Nat)
    BY <1>1 DEF Remembered
  <2>2. QED
    BY <1>2, <2>1
<1>4. f \in Surjection(1..n, ToSet(f))
  <2>1. f = [k \in DOMAIN f |-> f[k]]
    BY <1>2
  <2>2. QED
    BY <1>3, <2>1 DEF Surjection, ToSet
<1>5. IsFiniteSet(ToSet(f))
  BY <1>4, FS_Interval, FS_Surjection
<1>6. \A k \in DOMAIN f : f[k][1] = "raw"
  BY <1>2, RawIs
<1>7. \A z \in ToSet(f) : z[1] = "raw"
  BY <1>6 DEF ToSet
<1>8. QED
  BY <1>2, <1>5, <1>6, <1>7

LEMMA ShownKinds ==
    ASSUME NEW p, NEW s, Shows(s, p, s.memory, s.phase)
    PROVE  /\ s.projection[1] = "projection" /\ s.visible[1] = "visible"
           /\ s.prompt[1] = "prompt" /\ s.body[1] = "body"
  BY DEF Shows, Payload

Instruction(s) == Payload("instruction", s.phase, <<>>, <<>>)
Diagnostic(b) == Payload("diagnostic", "", <<Here(b)>>, <<>>)
RecordedEvent(b, p, s, invocation, parent, answer, context) ==
    [type |-> "ModelInvocation", of |-> p, payload |-> EventPayload(b), parents |-> {parent},
     provenance |-> {Diagnostic(b), s.body, answer.response} \cup context,
     shown |-> s, instruction |-> Instruction(s), invocation |-> invocation,
     diagnostic |-> Diagnostic(b), answer |-> answer]
RecordedNames(s, answer) ==
    ({Instruction(s), s.projection, s.visible, s.prompt, answer.output}
       \cup ToSet(s.contents) \cup (IF s.phase = "planning" THEN answer.parsed ELSE {}))
RecordedMentions(e, b, s, answer, context) ==
    ({e.payload} \X RecordedNames(s, answer))
      \cup ({Diagnostic(b)} \X ({s.body, answer.response} \cup answer.parsed \cup context))
RecordedFlow(s, answer) ==
    ShownFlow(s) \cup (({answer.response, answer.output} \ {Empty}) \X answer.parsed)
      \cup ({s.body} \X ({answer.response, answer.output} \ {Empty}))

LEMMA RecordedIs ==
    ASSUME NEW b, NEW p, NEW s, NEW stage, NEW invocation, NEW parent, NEW answer, NEW context
    PROVE  \E e : /\ e = RecordedEvent(b, p, s, invocation, parent, answer, context)
                  /\ Recorded(b, p, s, stage, invocation, parent, answer, context)
                       = Recording(b, e, RecordedMentions(e, b, s, answer, context),
                                   RecordedFlow(s, answer))
<1>1. Recorded(b, p, s, stage, invocation, parent, answer, context)
        = Recording(b, RecordedEvent(b, p, s, invocation, parent, answer, context),
              RecordedMentions(RecordedEvent(b, p, s, invocation, parent, answer, context),
                               b, s, answer, context),
              RecordedFlow(s, answer))
  BY Zenon DEF Recorded, RecordedEvent, RecordedMentions, RecordedNames, RecordedFlow,
               Instruction, Diagnostic
<1>2. QED
  BY <1>1, Zenon

\* What is known of an answer, and what a record may be given.
AnswerFits(answer) ==
    /\ IsFiniteSet(answer.parsed) /\ \A z \in answer.parsed : z[1] \in Parsed
    /\ answer.response[1] \in {"raw", "response"} /\ answer.output[1] = "raw"
RecordedGiven(b, p, s, invocation, parent, answer, context) ==
    /\ Shows(s, p, s.memory, s.phase) /\ Remembered(b, p, s.memory)
    /\ Theirs(b, parent, p) /\ (Theirs(b, invocation, p) \/ invocation = Here(b))
    /\ AnswerFits(answer) /\ IsFiniteSet(context)

LEMMA RecordedAdds ==
    ASSUME NEW b, IsBundle(b), NEW p, NEW s, NEW stage, NEW invocation, NEW parent,
           NEW answer, NEW context, RecordedGiven(b, p, s, invocation, parent, answer, context),
           NEW e, e = RecordedEvent(b, p, s, invocation, parent, answer, context),
           NEW c, c = Recorded(b, p, s, stage, invocation, parent, answer, context)
    PROVE  /\ IsBundle(c) /\ c.held = b.held
           /\ Adds(b, c, e, RecordedMentions(e, b, s, answer, context), RecordedFlow(s, answer))
<1>1. IsFiniteSet(ToSet(s.contents)) /\ IsFiniteSet(answer.parsed) /\ IsFiniteSet(context)
  BY ShownContents DEF RecordedGiven, AnswerFits
<1>2. IsFiniteSet(RecordedMentions(e, b, s, answer, context))
  <2>1. IsFiniteSet(RecordedNames(s, answer))
    <3>1. IsFiniteSet(ToSet(s.contents) \cup answer.parsed)
      BY <1>1, FS_Union
    <3>2. IsFiniteSet({Instruction(s), s.projection}) /\ IsFiniteSet({s.visible, s.prompt})
          /\ IsFiniteSet({answer.output})
      BY PairFinite, FS_Singleton
    <3>3. IsFiniteSet({Instruction(s), s.projection} \cup {s.visible, s.prompt})
      BY <3>2, FS_Union
    <3>4. IsFiniteSet(({Instruction(s), s.projection} \cup {s.visible, s.prompt}) \cup {answer.output})
      BY <3>2, <3>3, FS_Union
    <3>5. IsFiniteSet((({Instruction(s), s.projection} \cup {s.visible, s.prompt}) \cup {answer.output})
                         \cup (ToSet(s.contents) \cup answer.parsed))
      BY <3>1, <3>4, FS_Union
    <3>6. RecordedNames(s, answer)
            \subseteq (({Instruction(s), s.projection} \cup {s.visible, s.prompt}) \cup {answer.output})
                         \cup (ToSet(s.contents) \cup answer.parsed)
      BY DEF RecordedNames
    <3>7. QED
      BY <3>5, <3>6, FS_Subset
  <2>2. IsFiniteSet({s.body, answer.response} \cup answer.parsed \cup context)
    <3>1. IsFiniteSet({s.body, answer.response})
      BY PairFinite
    <3>2. IsFiniteSet({s.body, answer.response} \cup answer.parsed)
      BY <1>1, <3>1, FS_Union
    <3>3. QED
      BY <1>1, <3>2, FS_Union
  <2>3. /\ IsFiniteSet({e.payload} \X RecordedNames(s, answer))
        /\ IsFiniteSet({Diagnostic(b)} \X ({s.body, answer.response} \cup answer.parsed \cup context))
    BY <2>1, <2>2, FS_Singleton, FS_Product
  <2>4. QED
    BY <2>3, FS_Union DEF RecordedMentions
<1>3. IsFiniteSet(RecordedFlow(s, answer))
  <2>1. PICK parts : parts = ToSet(s.contents) \cup answer.parsed
    OBVIOUS
  <2>2. PICK views : views = {s.projection, s.visible} \cup {s.prompt, s.body}
    OBVIOUS
  <2>3. PICK others : others = {s.memory} \cup {answer.response, answer.output}
    OBVIOUS
  <2>4. IsFiniteSet(parts)
    BY <1>1, <2>1, FS_Union
  <2>5. IsFiniteSet(views)
    BY <2>2, PairFinite, FS_Union
  <2>6. IsFiniteSet(others)
    BY <2>3, PairFinite, FS_Singleton, FS_Union
  <2>7. IsFiniteSet(views \cup others)
    BY <2>5, <2>6, FS_Union
  <2>8. PICK all : all = parts \cup (views \cup others)
    OBVIOUS
  <2>9. IsFiniteSet(all)
    BY <2>4, <2>7, <2>8, FS_Union
  <2>10. IsFiniteSet(all \X all)
    BY <2>9, FS_Product
  <2>11. /\ ToSet(s.contents) \subseteq all /\ answer.parsed \subseteq all
         /\ {s.projection, s.visible, s.prompt, s.body, s.memory, answer.response, answer.output}
               \subseteq all
    BY <2>1, <2>2, <2>3, <2>8
  <2>12. ShownFlow(s) \subseteq all \X all
    BY <2>11 DEF ShownFlow
  <2>13. RecordedFlow(s, answer) \subseteq all \X all
    BY <2>11, <2>12 DEF RecordedFlow
  <2>14. QED
    BY <2>10, <2>13, FS_Subset
<1>4. c = Recording(b, e, RecordedMentions(e, b, s, answer, context), RecordedFlow(s, answer))
  BY RecordedIs
<1>5. QED
  BY <1>2, <1>3, <1>4, RecordingAdds

\* What was shown of the memory, and made of it, is dependent on it.
LEMMA ShownFlowFits ==
    ASSUME NEW b, NEW i \in DOMAIN b.events, NEW e, e = b.events[i],
           e.type = "ModelInvocation", NEW p,
           Shows(e.shown, p, e.shown.memory, e.shown.phase), Remembered(b, p, e.shown.memory)
    PROVE  \A f \in ShownFlow(e.shown) : FlowFits(b, f)
<1>1. PICK s : s = e.shown
  OBVIOUS
<1>2. e \in Of(b, "ModelInvocation")
  BY DEF Of
<1>3. /\ s.projection[1] = "projection" /\ s.visible[1] = "visible"
      /\ s.prompt[1] = "prompt" /\ s.body[1] = "body" /\ s.memory[1] = "memory"
      /\ \A k \in DOMAIN s.contents : s.contents[k][1] = "raw"
  <2>1. Shows(s, p, s.memory, s.phase) /\ Remembered(b, p, s.memory)
    BY <1>1
  <2>2. s.memory[1] = "memory"
    BY <2>1 DEF Remembered
  <2>3. QED
    BY <2>1, <2>2, ShownContents, ShownKinds
<1>4. Empty[1] = "raw"
  BY RawIs DEF Empty
<1>5. ASSUME NEW x, NEW y, <<x, y>> \in Dependencies(b), x[1] # "visible"
      PROVE  FlowFits(b, <<x, y>>)
  <2>1. PICK f : f = <<x, y>>
    OBVIOUS
  <2>2. f[1] = x /\ f[2] = y
    BY <2>1
  <2>3. QED
    BY <1>5, <2>1, <2>2, Zenon DEF FlowFits
<1>6. FlowFits(b, <<s.projection, s.visible>>)
  <2>1. <<s.projection, s.visible>> \in Link({s.projection}, {s.visible})
    BY <1>3, <1>4, Links
  <2>2. <<s.projection, s.visible>> \in Dependencies(b)
    BY <1>1, <1>2, <2>1, SegmentLinksHave DEF Dependencies
  <2>3. QED
    BY <1>3, <1>5, <2>2
<1>7. FlowFits(b, <<s.visible, s.prompt>>)
  <2>1. <<s.visible, s.prompt>> \in Dependencies(b)
    BY <1>1, <1>2, <1>3, <1>4, InvocationLinksHave
  <2>2. PICK f : f = <<s.visible, s.prompt>>
    OBVIOUS
  <2>3. f[1] = e.shown.visible /\ f[2] = e.shown.prompt /\ <<f[1], f[2]>> \in Dependencies(b)
    BY <1>1, <2>1, <2>2
  <2>4. QED
    BY <2>2, <2>3, Zenon DEF FlowFits
<1>8. FlowFits(b, <<s.prompt, s.body>>)
  <2>1. <<s.prompt, s.body>> \in Dependencies(b)
    BY <1>1, <1>2, <1>3, <1>4, InvocationLinksHave
  <2>2. QED
    BY <1>3, <1>5, <2>1
<1>9. ASSUME NEW x \in ToSet(s.contents), x # Empty
      PROVE  FlowFits(b, <<x, s.prompt>>) /\ FlowFits(b, <<s.memory, x>>)
  <2>1. PICK k \in DOMAIN s.contents : x = s.contents[k]
    BY <1>9 DEF ToSet
  <2>2. x[1] = "raw"
    BY <1>3, <2>1
  <2>3. <<x, s.prompt>> \in Dependencies(b)
    BY <1>1, <1>2, <1>3, <1>4, <1>9, <2>2, InvocationLinksHave
  <2>4. PICK m, handle, text : m = s.memory /\ handle = m[3][k] /\ text = m[4][k]
    BY Zenon
  <2>5. k \in DOMAIN m[3] /\ k \in DOMAIN m[4]
    BY <1>1, <2>1, <2>4 DEF Shows, Texts, Remembered
  <2>6. m \in Origins(b, handle, text)
    <3>1. Known(b, m)
      <4>1. m[3] # <<>>
        BY <2>5
      <4>2. QED
        BY <1>1, <2>4, <4>1 DEF Remembered
    <3>2. PICK j \in DOMAIN b.events : /\ b.events[j].type = "MemoryOperation"
                                       /\ m \in b.events[j].inputs \cup {b.events[j].output}
      BY <3>1 DEF Known
    <3>3. b.events[j] \in Of(b, "MemoryOperation")
      BY <3>2 DEF Of
    <3>4. s.memory = m
      BY <2>4, Zenon
    <3>5. m[3][k] = handle /\ m[4][k] = text
      BY <2>4, Zenon
    <3>6. QED
      BY <1>3, <2>5, <3>2, <3>3, <3>4, <3>5 DEF Origins
  <2>7. <<m, x>> \in Link(Origins(b, handle, text), {x})
    BY <1>3, <1>4, <1>9, <2>2, <2>4, <2>6, Links
  <2>8. <<m, x>> \in SegmentLinks(b)
    BY <1>1, <1>2, <2>1, <2>4, <2>7, SegmentLinksHave
  <2>9. <<s.memory, x>> \in Dependencies(b)
    BY <2>4, <2>8 DEF Dependencies
  <2>10. QED
    BY <1>3, <1>5, <2>2, <2>3, <2>9
<1>10. ASSUME NEW x \in ToSet(s.contents), x # Empty, s.phase = "memory_update"
       PROVE  FlowFits(b, <<s.memory, s.visible>>)
  <2>1. PICK k \in DOMAIN s.contents : s.contents[k] # Empty
    BY <1>10 DEF ToSet
  <2>2. PICK f : f = <<s.memory, s.visible>>
    OBVIOUS
  <2>3. f[1] = s.memory /\ f[2] = s.visible
    BY <2>2
  <2>4. Surfaces(b, f)
    BY <1>1, <1>10, <2>1, <2>3 DEF Surfaces
  <2>5. QED
    BY <1>3, <2>2, <2>3, <2>4, Zenon DEF FlowFits
<1> DEFINE told == {x \in ToSet(s.contents) : x # Empty}
<1>11. ASSUME NEW f \in ShownFlow(s)
       PROVE  \/ f \in {<<s.projection, s.visible>>, <<s.visible, s.prompt>>, <<s.prompt, s.body>>}
              \/ \E x \in told : f = <<x, s.prompt>> \/ f = <<s.memory, x>>
              \/ told # {} /\ s.phase = "memory_update" /\ f = <<s.memory, s.visible>>
  BY DEF ShownFlow
<1>12. ASSUME NEW f \in ShownFlow(s) PROVE FlowFits(b, f)
  <2>1. CASE f \in {<<s.projection, s.visible>>, <<s.visible, s.prompt>>, <<s.prompt, s.body>>}
    BY <1>6, <1>7, <1>8, <2>1
  <2>2. ASSUME NEW x \in told, f = <<x, s.prompt>> \/ f = <<s.memory, x>>
        PROVE  FlowFits(b, f)
    BY <1>9, <2>2
  <2>3. CASE told # {} /\ s.phase = "memory_update" /\ f = <<s.memory, s.visible>>
    BY <1>10, <2>3
  <2>4. QED
    BY <1>11, <2>1, <2>2, <2>3
<1>13. QED
  BY <1>1, <1>12

LEMMA RecordedFits ==
    ASSUME NEW b, BundleInv(b), NEW p \in Polity, NEW s, NEW stage, NEW invocation, NEW parent,
           NEW answer, NEW context, RecordedGiven(b, p, s, invocation, parent, answer, context),
           NEW c, c = Recorded(b, p, s, stage, invocation, parent, answer, context)
    PROVE  /\ BundleInv(c) /\ Grows(b, c) /\ c.held = b.held /\ Len(c.events) = Here(b)
           /\ c.events[Here(b)] = RecordedEvent(b, p, s, invocation, parent, answer, context)
           /\ Here(b) \in DOMAIN c.events
<1>1. PICK e : e = RecordedEvent(b, p, s, invocation, parent, answer, context)
  OBVIOUS
<1>2. PICK mentions, flow : /\ mentions = RecordedMentions(e, b, s, answer, context)
                            /\ flow = RecordedFlow(s, answer)
  OBVIOUS
<1>3. IsBundle(c) /\ c.held = b.held /\ Adds(b, c, e, mentions, flow) /\ Grows(b, c)
  <2>1. IsBundle(b)
    BY DEF BundleInv
  <2>2. /\ IsBundle(c) /\ c.held = b.held
        /\ Adds(b, c, e, RecordedMentions(e, b, s, answer, context), RecordedFlow(s, answer))
    BY <1>1, <2>1, RecordedAdds
  <2>3. QED
    BY <1>2, <2>2 DEF Adds
<1>4. /\ e.type = "ModelInvocation" /\ e.of = p /\ e.payload = EventPayload(b)
      /\ e.parents = {parent} /\ e.invocation = invocation
      /\ e.provenance = {Diagnostic(b), s.body, answer.response} \cup context
      /\ e.shown = s /\ e.instruction = Instruction(s) /\ e.diagnostic = Diagnostic(b)
      /\ e.answer = answer
  BY <1>1 DEF RecordedEvent
<1>5. Here(b) \in DOMAIN c.events /\ c.events[Here(b)] = e /\ Here(b) \in Nat
  BY <1>3 DEF Adds
<1>6. /\ Has(e) = {e.payload, Instruction(s), s.projection, s.visible, s.prompt, s.body,
                   Diagnostic(b), answer.response, answer.output}
                    \cup ToSet(s.contents) \cup answer.parsed \cup context
  BY <1>4 DEF Has, InvocationHas
<1>7. Shows(s, p, s.memory, s.phase) /\ Remembered(c, p, s.memory)
  BY <1>3, RememberedGrows DEF RecordedGiven
<1>8. s.body[1] = "body"
  BY <1>7, ShownKinds
<1>9. AnswerFits(answer)
  BY DEF RecordedGiven
<1>11. e.payload[1] = "event" /\ Diagnostic(b)[1] = "diagnostic"
  BY <1>4, IndexIs, Zenon DEF Diagnostic, EventPayload
<1>14. \A z \in RecordedNames(s, answer) : <<e.payload, z>> \in mentions
  BY <1>2 DEF RecordedMentions
<1>15. \A z \in {s.body, answer.response} \cup answer.parsed \cup context : <<Diagnostic(b), z>> \in mentions
  BY <1>2 DEF RecordedMentions
<1>16. \A z \in Has(e) : z \in Payloads(c)
  <2>1. ASSUME NEW m \in mentions PROVE m[1] \in Payloads(c) /\ m[2] \in Payloads(c)
    BY <1>3, AddedPayloads
  <2>2. ASSUME NEW x, NEW y, <<x, y>> \in mentions PROVE x \in Payloads(c) /\ y \in Payloads(c)
    BY <2>1, <2>2
  <2>3. e.payload \in Payloads(c)
    BY <1>3, AddedPayloads
  <2>4. \A z \in RecordedNames(s, answer) : z \in Payloads(c)
    BY <1>14, <2>2
  <2>5. \A z \in {s.body, answer.response} \cup answer.parsed \cup context : z \in Payloads(c)
    BY <1>15, <2>2
  <2>6. Diagnostic(b) \in Payloads(c)
    BY <1>15, <2>2
  <2>7. {Instruction(s), s.projection, s.visible, s.prompt, answer.output} \cup ToSet(s.contents)
          \subseteq RecordedNames(s, answer)
    BY DEF RecordedNames
  <2>8. QED
    BY <1>6, <2>3, <2>4, <2>5, <2>6, <2>7
<1>18. InvocationFits(c, e)
  <2>1. Theirs(c, invocation, p)
    <3>1. Theirs(b, invocation, p) \/ invocation = Here(b)
      BY DEF RecordedGiven
    <3>2. QED
      BY <1>3, <1>4, <1>5, <3>1, TheirsGrows DEF Theirs
  <2>2. Shows(e.shown, e.of, e.shown.memory, e.shown.phase) /\ Remembered(c, e.of, e.shown.memory)
    BY <1>4, <1>7
  <2>3. QED
    BY <1>4, <2>1, <2>2, Zenon DEF InvocationFits
<1>19. EventFits(c, Here(b))
  <2>1. \A j \in e.parents : Theirs(c, j, p)
    BY <1>3, <1>4, TheirsGrows DEF RecordedGiven
  <2>2. e.type \in Types /\ e.type # "MemoryOperation" /\ e.type # "InterviewResponse"
    BY <1>4 DEF Types
  <2>3. QED
    BY <1>4, <1>5, <1>16, <1>18, <2>1, <2>2, Zenon DEF EventFits
<1>20. \A z \in Has(e) : z \in Part(c, p)
  BY <1>3, <1>4, <1>19, AddedPart
<1>21. ASSUME NEW m \in mentions PROVE MentionFits(c, m)
  <2>1. \/ m[1] = e.payload /\ m[2] \in RecordedNames(s, answer)
        \/ m[1] = Diagnostic(b) /\ m[2] \in {s.body, answer.response} \cup answer.parsed \cup context
    BY <1>2 DEF RecordedMentions
  <2>2. RecordedNames(s, answer) \subseteq Has(e)
    BY <1>6 DEF RecordedNames
  <2>3. m[1] \in Part(c, p) /\ m[2] \in Part(c, p)
    BY <1>6, <1>20, <2>1, <2>2
  <2>4. m[1][1] \in Indexed
    BY <1>11, <2>1 DEF Indexed
  <2>5. QED
    BY <2>3, <2>4 DEF MentionFits
<1>22. ASSUME NEW f \in flow PROVE FlowFits(c, f)
  <2>1. CASE f \in ShownFlow(s)
    BY <1>4, <1>5, <1>7, <2>1, ShownFlowFits
  <2>2. ASSUME NEW x, NEW y, f = <<x, y>>,
               \/ x \in {answer.response, answer.output} \ {Empty} /\ y \in answer.parsed
               \/ x = s.body /\ y \in {answer.response, answer.output} \ {Empty}
        PROVE  FlowFits(c, f)
    <3>1. f[1] = x /\ f[2] = y
      BY <2>2
    <3>2. x[1] # "visible"
      BY <1>8, <1>9, <2>2 DEF AnswerFits
    <3>3. x # Empty /\ y # Empty /\ x # y
      <4>1. Empty[1] = "raw"
        BY RawIs DEF Empty
      <4>2. answer.response[1] \in {"raw", "response"} /\ answer.output[1] = "raw"
            /\ \A z \in answer.parsed : z[1] \in {"request", "action", "interview"}
        BY <1>9 DEF AnswerFits, Parsed
      <4>3. QED
        BY <1>8, <2>2, <4>1, <4>2
    <3>4. e \in Of(c, "ModelInvocation")
      BY <1>4, <1>5 DEF Of
    <3>5. <<x, y>> \in Dependencies(c)
      BY <1>4, <2>2, <3>3, <3>4, InvocationLinksHave
    <3>6. QED
      BY <3>1, <3>2, <3>5, Zenon DEF FlowFits
  <2>3. \/ f \in ShownFlow(s)
        \/ f \in ({answer.response, answer.output} \ {Empty}) \X answer.parsed
        \/ f \in {s.body} \X ({answer.response, answer.output} \ {Empty})
    BY <1>2 DEF RecordedFlow
  <2>4. QED
    BY <2>1, <2>2, <2>3
<1>23. \A q \in Polity : Remembered(c, q, Memory(c.held[q]))
  BY <1>3, RememberedGrows DEF BundleInv
<1>24. BundleInv(c)
  BY <1>3, <1>19, <1>21, <1>22, <1>23, AddingFits
<1>25. Len(c.events) = Here(b)
  BY <1>3 DEF Adds
<1>26. QED
  BY <1>1, <1>3, <1>5, <1>24, <1>25

-----------------------------------------------------------------------------
(* What a model answers.                                                    *)

\* An answer of whatever was asked for, one that a transport that failed has left,
\* what is said in an interview, and none yet.
LEMMA AnswerIs ==
    ASSUME NEW what, NEW places, NEW texts
    PROVE  AnswerFits(Answer(what, places, texts))
<1>1. PICK answer : answer = Answer(what, places, texts)
  OBVIOUS
<1>2. PICK z, kind, of : z = Payload(kind, of, places, texts) /\ kind \in {"action", "request"}
                         /\ answer.parsed = {z}
  <2>1. PICK kind : kind = "action"
    OBVIOUS
  <2>2. CASE what = kind
    BY <1>1, <2>1, <2>2 DEF Answer
  <2>3. CASE what # kind
    BY <1>1, <2>1, <2>3 DEF Answer, Request
  <2>4. QED
    BY <2>2, <2>3
<1>3. z[1] = kind
  BY <1>2, PayloadIs
<1>4. /\ answer.response = Payload("response", what, places, texts)
      /\ answer.output = Payload("raw", what, places, texts)
  BY <1>1 DEF Answer
<1>5. answer.response[1] = "response" /\ answer.output[1] = "raw"
  BY <1>4, PayloadIs
<1>6. IsFiniteSet(answer.parsed) /\ \A y \in answer.parsed : y[1] \in Parsed
  BY <1>2, <1>3, FS_Singleton DEF Parsed
<1>7. QED
  BY <1>1, <1>5, <1>6 DEF AnswerFits

LEMMA BrokenIs ==
    ASSUME NEW t
    PROVE  AnswerFits(Broken(t))
<1>1. PICK what, places, texts, answer :
          /\ what = "action" /\ places = <<>> /\ texts = <<t>>
          /\ answer = [Answer(what, places, texts) EXCEPT !.parsed = {}]
  OBVIOUS
<1>2. answer = Broken(t)
  BY <1>1, Zenon DEF Broken
<1>3. /\ answer.response = Payload("response", what, places, texts)
      /\ answer.output = Payload("raw", what, places, texts) /\ answer.parsed = {}
  BY <1>1 DEF Answer
<1>4. answer.response[1] = "response" /\ answer.output[1] = "raw"
  BY <1>3, PayloadIs
<1>5. QED
  BY <1>2, <1>3, <1>4, FS_EmptySet DEF AnswerFits

LEMMA SaidIs ==
    ASSUME NEW t
    PROVE  AnswerFits(Said(t))
<1>1. PICK none, texts, answer : none = <<>> /\ texts = <<t>> /\ answer = Said(t)
  OBVIOUS
<1>2. PICK z, kind, of : z = Payload(kind, of, none, texts) /\ kind = "interview" /\ of = ""
  OBVIOUS
<1>3. /\ answer.response = Payload("response", "interview", none, texts)
      /\ answer.output = Raw(t) /\ answer.parsed = {z}
  BY <1>1, <1>2 DEF Said
<1>4. answer.response[1] = "response"
  BY <1>3, PayloadIs
<1>5. z[1] = kind
  <2>1. PICK k, o, n, ts : k = kind /\ o = of /\ n = none /\ ts = texts
    OBVIOUS
  <2>2. z = Payload(k, o, n, ts)
    BY <1>2, <2>1, Zenon
  <2>3. Payload(k, o, n, ts)[1] = k
    BY PayloadIs
  <2>4. QED
    BY <2>1, <2>2, <2>3, Zenon
<1>6. answer.output[1] = "raw"
  BY <1>3, RawIs
<1>7. IsFiniteSet(answer.parsed) /\ \A y \in answer.parsed : y[1] \in Parsed
  <2>1. kind \in Parsed
    BY <1>2 DEF Parsed
  <2>2. QED
    BY <1>3, <1>5, <2>1, FS_Singleton
<1>8. QED
  BY <1>1, <1>4, <1>6, <1>7 DEF AnswerFits

LEMMA PendingIs == AnswerFits(Pending)
<1>1. Pending.response = Empty /\ Pending.output = Empty /\ Pending.parsed = {}
  BY DEF Pending
<1>2. QED
  BY <1>1, RawIs, FS_EmptySet DEF AnswerFits, Empty

-----------------------------------------------------------------------------
(* A call of a model.                                                       *)

\* What is held is remembered, as long as nothing else is held.
LEMMA HeldRemembered ==
    ASSUME NEW b, BundleInv(b), NEW c, Grows(b, c), NEW p \in Polity
    PROVE  Remembered(c, p, Memory(b.held[p])) /\ b.held[p] \in Seq(Nat \X Nat)
  BY RememberedGrows DEF BundleInv, IsBundle

LEMMA ShownIs ==
    ASSUME NEW b, NEW p, NEW phase
    PROVE  LET s == Shown(b, p, phase) IN
           s.memory = Memory(b.held[p]) /\ s.phase = phase /\ Shows(s, p, s.memory, s.phase)
<1> DEFINE m == Memory(b.held[p])
           places == IF phase = "memory_update" THEN m[3] ELSE <<>>
           texts == IF phase = "memory_update" THEN m[4] ELSE <<>>
           of(kind) == Payload(kind, <<p, phase>>, places, m[4])
<1>1. PICK s : s = Shown(b, p, phase)
  OBVIOUS
<1>2. s = [projection |-> Payload("projection", <<p, phase>>, <<>>, <<>>), memory |-> m,
           contents |-> Texts(m),
           visible |-> IF phase = "memory_update" THEN of("visible")
                       ELSE Payload("visible", <<p, phase>>, <<>>, <<>>),
           prompt |-> of("prompt"), body |-> of("body"), phase |-> phase]
  BY <1>1, Zenon DEF Shown, Texts
<1>3. s.visible = Payload("visible", <<p, phase>>, places, texts)
  <2>1. s.visible = IF phase = "memory_update" THEN of("visible")
                    ELSE Payload("visible", <<p, phase>>, <<>>, <<>>)
    BY <1>2
  <2>2. QED
    BY <2>1
<1>4. /\ s.projection = Payload("projection", <<p, phase>>, <<>>, <<>>) /\ s.memory = m
      /\ s.contents = Texts(m) /\ s.prompt = of("prompt") /\ s.body = of("body") /\ s.phase = phase
  BY <1>2
<1>5. Shows(s, p, m, phase)
  BY <1>3, <1>4, Zenon DEF Shows
<1>6. QED
  BY <1>1, <1>4, <1>5

IssuedEvent(p, s) ==
    [type |-> "ProjectionIssued", of |-> p, payload |-> s.projection,
     parents |-> {}, provenance |-> {}]

LEMMA IssuedFits ==
    ASSUME NEW b, BundleInv(b), NEW p \in Polity, NEW s,
           Shows(s, p, s.memory, s.phase), Remembered(b, p, s.memory),
           NEW c, c = Issued(b, p, s)
    PROVE  /\ BundleInv(c) /\ Grows(b, c) /\ c.held = b.held
           /\ Len(c.events) = Here(b) /\ Theirs(c, Here(b), p)
<1>1. PICK e, none : e = IssuedEvent(p, s) /\ none = {}
  OBVIOUS
<1>2. IsBundle(c) /\ c.held = b.held /\ Adds(b, c, e, none, none) /\ Grows(b, c)
  <2>1. c = Recording(b, e, none, none)
    BY <1>1, Zenon DEF Issued, IssuedEvent
  <2>2. IsBundle(b) /\ IsFiniteSet(none)
    BY <1>1, FS_EmptySet DEF BundleInv
  <2>3. IsBundle(c) /\ c.held = b.held /\ Adds(b, c, e, none, none)
    BY <2>1, <2>2, RecordingAdds
  <2>4. QED
    BY <2>3 DEF Adds
<1>3. /\ e.type = "ProjectionIssued" /\ e.of = p /\ e.payload = s.projection
      /\ e.parents = {} /\ e.provenance = {}
  BY <1>1 DEF IssuedEvent
<1>4. Here(b) \in DOMAIN c.events /\ c.events[Here(b)] = e /\ Len(c.events) = Here(b)
  BY <1>2 DEF Adds
<1>5. Has(e) = {e.payload}
  BY <1>3 DEF Has
<1>7. e.payload \in Payloads(c)
  BY <1>2, AddedPayloads
<1>8. EventFits(c, Here(b))
  <2>1. e.type \in Types /\ e.type # "MemoryOperation" /\ e.type # "ModelInvocation"
        /\ e.type # "InterviewResponse"
    BY <1>3 DEF Types
  <2>2. \A j \in e.parents : FALSE
    BY <1>3
  <2>3. \A z \in Has(e) : z \in Payloads(c)
    BY <1>5, <1>7
  <2>4. QED
    BY <1>3, <1>4, <2>1, <2>2, <2>3, Zenon DEF EventFits
<1>9. (\A x \in none : FALSE) /\ \A q \in Polity : Remembered(c, q, Memory(c.held[q]))
  BY <1>1, <1>2, HeldRemembered
<1>10. BundleInv(c)
  BY <1>2, <1>8, <1>9, AddingFits
<1>11. QED
  BY <1>2, <1>3, <1>4, <1>10 DEF Theirs

\* An attempt, and what its last event knows.
LEMMA AttemptedFits ==
    ASSUME NEW b, BundleInv(b), NEW p \in Polity, NEW s, NEW invocation, NEW parent,
           NEW answer, NEW context, RecordedGiven(b, p, s, invocation, parent, answer, context),
           NEW c, c = Attempted(b, p, s, invocation, parent, answer, context)
    PROVE  /\ BundleInv(c) /\ Grows(b, c) /\ c.held = b.held /\ Theirs(c, Len(c.events), p)
           /\ LET e == c.events[Len(c.events)] IN
              /\ e.type = "ModelInvocation" /\ e.of = p /\ e.invocation = invocation
              /\ e.shown = s /\ e.answer = answer /\ context \subseteq e.provenance
<1>1. PICK first, last : first = "dispatch" /\ last = "complete"
  OBVIOUS
<1>2. PICK sent : sent = Recorded(b, p, s, first, invocation, parent, Pending, context)
  OBVIOUS
<1>3. c = Recorded(sent, p, s, last, invocation, Len(sent.events), answer, context)
  BY <1>1, <1>2, Zenon DEF Attempted
<1>4. RecordedGiven(b, p, s, invocation, parent, Pending, context)
  BY PendingIs, Zenon DEF RecordedGiven
<1>5. /\ BundleInv(sent) /\ Grows(b, sent) /\ sent.held = b.held /\ Len(sent.events) = Here(b)
      /\ sent.events[Here(b)] = RecordedEvent(b, p, s, invocation, parent, Pending, context)
      /\ Here(b) \in DOMAIN sent.events
  BY <1>2, <1>4, RecordedFits
<1>7. Theirs(sent, Here(b), p)
  BY <1>5 DEF Theirs, RecordedEvent
<1>8. RecordedGiven(sent, p, s, invocation, Len(sent.events), answer, context)
  <2>1. Remembered(sent, p, s.memory)
    BY <1>5, RememberedGrows DEF RecordedGiven
  <2>2. Theirs(sent, invocation, p)
    BY <1>5, <1>7, TheirsGrows DEF RecordedGiven
  <2>3. Theirs(sent, Len(sent.events), p)
    BY <1>5, <1>7
  <2>4. QED
    BY <2>1, <2>2, <2>3, Zenon DEF RecordedGiven
<1>9. PICK e : e = RecordedEvent(sent, p, s, invocation, Len(sent.events), answer, context)
  OBVIOUS
<1>10. /\ BundleInv(c) /\ Grows(sent, c) /\ c.held = sent.held /\ Len(c.events) = Here(sent)
       /\ c.events[Here(sent)] = e /\ Here(sent) \in DOMAIN c.events
  BY <1>3, <1>5, <1>8, <1>9, RecordedFits
<1>12. /\ e.type = "ModelInvocation" /\ e.of = p /\ e.invocation = invocation
       /\ e.shown = s /\ e.answer = answer /\ context \subseteq e.provenance
  BY <1>9 DEF RecordedEvent
<1>13. Grows(b, c)
  BY <1>5, <1>10, GrowsOn
<1>14. QED
  BY <1>5, <1>10, <1>12, <1>13 DEF Theirs

\* The memory is read first.
LEMMA ReadFits ==
    ASSUME NEW b, BundleInv(b), NEW p \in Polity, NEW s, Shows(s, p, s.memory, s.phase),
           NEW read, read = Request("READ", <<>>, <<>>),
           NEW projections, projections = {s.projection},
           NEW c, c = Archived(b, p, read, b.held[p], Here(b), projections)
    PROVE  /\ BundleInv(c) /\ Grows(b, c) /\ c.held = b.held
           /\ Len(c.events) = Here(b) /\ Theirs(c, Here(b), p)
<1>1. PICK request, op, none : request = Request(op, none, none) /\ op = "READ" /\ none = <<>>
  OBVIOUS
<1>2. PICK records, inputs : records = b.held[p] /\ inputs = {s.projection}
  OBVIOUS
<1>3. c = Archived(b, p, request, records, Here(b), inputs)
  BY <1>1, <1>2
<1>4. /\ IsBundle(b) /\ Remembered(b, p, Memory(records)) /\ records \in Seq(Nat \X Nat)
      /\ b.held \in [Polity -> Seq(Nat \X Nat)]
  BY <1>2 DEF BundleInv, IsBundle
<1>5. IsFiniteSet(inputs)
  BY <1>2, FS_Singleton
<1>6. PICK e, mentions, flow :
          /\ e = ArchivedEvent(b, p, request, records, Here(b), inputs)
          /\ mentions = ArchivedMentions(b, e, Memory(b.held[p]), inputs)
          /\ flow = ArchivedFlow(e, Memory(b.held[p]), request)
  OBVIOUS
<1>7. c.held = [b.held EXCEPT ![p] = records] /\ Adds(b, c, e, mentions, flow)
  BY <1>3, <1>4, <1>5, <1>6, ArchivedAdds
<1>8. /\ Grows(b, c) /\ Len(c.events) = Here(b) /\ c.events[Here(b)] = e
      /\ Here(b) \in DOMAIN c.events
  BY <1>7 DEF Adds
<1>9. Theirs(c, Here(b), p)
  <2>1. e.of = p
    BY <1>6 DEF ArchivedEvent
  <2>2. QED
    BY <1>8, <2>1 DEF Theirs
<1>10. c.held = b.held
  <2>1. PICK h : h = b.held
    OBVIOUS
  <2>2. h \in [Polity -> Seq(Nat \X Nat)] /\ [h EXCEPT ![p] = h[p]] = h
    BY <1>4, <2>1
  <2>3. QED
    BY <1>2, <1>7, <2>1, <2>2
<1>11. ArchivedGiven(c, p, request, records, Here(b), inputs)
  <2>1. request[1] = "request"
    BY <1>1, PayloadIs DEF Request
  <2>2. Marked(c, Memory(records), p)
    BY <1>4, <1>8, MarkedGrows DEF Remembered
  <2>3. \A z \in inputs : z[1] # "memory"
    BY <1>2, ShownKinds
  <2>4. QED
    BY <1>9, <2>1, <2>2, <2>3 DEF ArchivedGiven
<1>12. BundleInv(c)
  BY <1>3, <1>4, <1>5, <1>11, ArchivedFits
<1>13. QED
  BY <1>8, <1>9, <1>10, <1>12

LastAnswer(answers) == IF Len(answers) = 1 THEN answers[1] ELSE answers[2]

LEMMA InvokedFits ==
    ASSUME NEW b, BundleInv(b), NEW p \in Polity, NEW phase,
           NEW answers, AnswerFits(answers[1]), Len(answers) # 1 => AnswerFits(answers[2]),
           NEW c, c = Invoked(b, p, phase, answers)
    PROVE  /\ BundleInv(c) /\ Grows(b, c) /\ Theirs(c, Here(b), p)
           /\ Theirs(c, Len(c.events), p)
           /\ LET e == c.events[Len(c.events)] IN
              /\ e.type = "ModelInvocation" /\ Theirs(c, e.invocation, p)
              /\ e.answer = LastAnswer(answers)
<1>1. PICK s, id : s = Shown(b, p, phase) /\ id = Here(b)
  OBVIOUS
<1>2. PICK read : read = Archived(b, p, Request("READ", <<>>, <<>>), b.held[p], id, {s.projection})
  OBVIOUS
<1>3. PICK issued, context : /\ issued = Issued(read, p, s)
                             /\ context = {Payload("configuration", "", <<>>, <<>>)}
  OBVIOUS
<1>4. PICK once : once = Attempted(issued, p, s, id, Len(issued.events), answers[1], context)
  OBVIOUS
<1>5. c = IF Len(answers) = 1 THEN once
          ELSE Attempted(once, p, s, Here(once), Len(once.events), answers[2], context)
  BY <1>1, <1>2, <1>3, <1>4, Zenon DEF Invoked
<1>6. Shows(s, p, s.memory, s.phase) /\ Remembered(b, p, s.memory)
  <2>1. s.memory = Memory(b.held[p]) /\ Shows(s, p, s.memory, s.phase)
    BY <1>1, ShownIs
  <2>2. QED
    BY <2>1 DEF BundleInv
<1>7. BundleInv(read) /\ Grows(b, read) /\ Theirs(read, Here(b), p)
  <2>1. PICK request, projections :
            request = Request("READ", <<>>, <<>>) /\ projections = {s.projection}
    OBVIOUS
  <2>2. read = Archived(b, p, request, b.held[p], Here(b), projections)
    BY <1>1, <1>2, <2>1, Zenon
  <2>3. QED
    BY <1>6, <2>1, <2>2, ReadFits
<1>8. /\ BundleInv(issued) /\ Grows(read, issued)
      /\ Len(issued.events) = Here(read) /\ Theirs(issued, Here(read), p)
  <2>1. Remembered(read, p, s.memory)
    BY <1>6, <1>7, RememberedGrows
  <2>2. QED
    BY <1>3, <1>6, <1>7, <2>1, IssuedFits
<1>9. Grows(b, issued) /\ Theirs(issued, Here(b), p)
  BY <1>7, <1>8, GrowsOn, TheirsGrows
<1>10. RecordedGiven(issued, p, s, id, Len(issued.events), answers[1], context)
  <2>1. Remembered(issued, p, s.memory)
    BY <1>6, <1>9, RememberedGrows
  <2>2. Theirs(issued, Len(issued.events), p) /\ Theirs(issued, id, p)
    BY <1>1, <1>8, <1>9
  <2>3. IsFiniteSet(context)
    BY <1>3, FS_Singleton
  <2>4. QED
    BY <1>6, <2>1, <2>2, <2>3, Zenon DEF RecordedGiven
<1>11. PICK f : f = once.events[Len(once.events)]
  OBVIOUS
<1>12. /\ BundleInv(once) /\ Grows(issued, once) /\ Theirs(once, Len(once.events), p)
       /\ f.type = "ModelInvocation" /\ f.invocation = id /\ f.answer = answers[1]
  BY <1>4, <1>8, <1>10, <1>11, AttemptedFits
<1>13. Grows(b, once) /\ Theirs(once, Here(b), p)
  BY <1>9, <1>12, GrowsOn, TheirsGrows
<1>14. CASE Len(answers) = 1
  <2>1. c = once /\ LastAnswer(answers) = answers[1]
    BY <1>5, <1>14 DEF LastAnswer
  <2>2. f = c.events[Len(c.events)] /\ Theirs(c, f.invocation, p)
    BY <1>1, <1>11, <1>12, <1>13, <2>1
  <2>3. QED
    BY <1>12, <1>13, <2>1, <2>2
<1>15. CASE Len(answers) # 1
  <2>1. PICK again, parent, last : again = Here(once) /\ parent = Len(once.events) /\ last = answers[2]
    OBVIOUS
  <2>2. c = Attempted(once, p, s, again, parent, last, context) /\ LastAnswer(answers) = last
    BY <1>5, <1>15, <2>1 DEF LastAnswer
  <2>3. RecordedGiven(once, p, s, again, parent, last, context)
    <3>1. Remembered(once, p, s.memory)
      BY <1>6, <1>13, RememberedGrows
    <3>2. Theirs(once, parent, p)
      BY <1>12, <2>1
    <3>3. IsFiniteSet(context) /\ AnswerFits(last)
      BY <1>10, <1>15, <2>1 DEF RecordedGiven
    <3>4. QED
      BY <1>6, <2>1, <3>1, <3>2, <3>3, Zenon DEF RecordedGiven
  <2>4. PICK e : e = c.events[Len(c.events)]
    OBVIOUS
  <2>5. /\ BundleInv(c) /\ Grows(once, c) /\ Theirs(c, Len(c.events), p)
        /\ e.type = "ModelInvocation" /\ e.of = p /\ e.invocation = again /\ e.answer = last
    BY <1>12, <2>2, <2>3, <2>4, AttemptedFits
  <2>6. Theirs(c, e.invocation, p)
    <3>1. e \in Of(c, "ModelInvocation")
      BY <2>4, <2>5 DEF Of, Theirs
    <3>2. QED
      BY <2>5, <3>1, InvocationOf DEF InvocationFits
  <2>7. Grows(b, c) /\ Theirs(c, Here(b), p)
    BY <1>13, <2>5, GrowsOn, TheirsGrows
  <2>8. QED
    BY <2>2, <2>4, <2>5, <2>6, <2>7
<1>16. QED
  BY <1>14, <1>15

-----------------------------------------------------------------------------
(* What is asked of the memory, and what that makes of the records.         *)

Holds(c, records, p) == \A i \in DOMAIN records : Theirs(c, records[i][1], p)

LEMMA MemoryMarked ==
    ASSUME NEW c, NEW p, NEW records \in Seq(Nat \X Nat)
    PROVE  Marked(c, Memory(records), p) <=> Holds(c, records, p)
<1>1. PICK m : m = Memory(records)
  OBVIOUS
<1>2. DOMAIN m[3] = DOMAIN records /\ \A i \in DOMAIN records : m[3][i] = records[i][1]
  BY <1>1, MemoryIs, Zenon
<1>3. QED
  BY <1>1, <1>2 DEF Holds, Marked

\* The records that an operation leaves have handles of the one who asks.
Asks(b, p, records) ==
    /\ records \in Seq(Nat \X Nat)
    /\ \A c : Grows(b, c) /\ Theirs(c, Here(b), p) => Holds(c, records, p)

LEMMA HeldHolds ==
    ASSUME NEW b, BundleInv(b), NEW c, Grows(b, c), NEW p \in Polity
    PROVE  Holds(c, b.held[p], p)
<1>1. PICK held : held = b.held[p]
  OBVIOUS
<1>2. held \in Seq(Nat \X Nat) /\ Remembered(c, p, Memory(held))
  BY <1>1, HeldRemembered
<1>3. QED
  BY <1>1, <1>2, MemoryMarked DEF Remembered

LEMMA OperationAsks ==
    ASSUME NEW b, BundleInv(b), NEW p \in Polity,
           NEW o \in Operations(b, p) \cup {<<Request("READ", <<>>, <<>>), b.held[p]>>}
    PROVE  o[1][1] = "request" /\ Asks(b, p, o[2])
<1>1. PICK held, k, none, all :
          /\ held = b.held[p] /\ k = Here(b) /\ none = <<>>
          /\ all = [i \in DOMAIN held |-> held[i][1]]
  OBVIOUS
<1>2. /\ held \in Seq(Nat \X Nat) /\ k \in Nat
      /\ none \in Seq(Nat \X Nat) /\ \A i \in DOMAIN none : FALSE
  <2>1. held \in Seq(Nat \X Nat) /\ b.events \in Seq({b.events[i] : i \in DOMAIN b.events})
    BY <1>1 DEF BundleInv, IsBundle
  <2>2. PICK s, T : s = b.events /\ s \in Seq(T)
    BY <2>1
  <2>3. k \in Nat
    BY <1>1, <2>2 DEF Here
  <2>4. QED
    BY <1>1, <2>1, <2>3
<1>3. Text \cup {0} \subseteq Nat
  BY TextsAreNumbers
<1>4. ASSUME NEW c, Grows(b, c), Theirs(c, k, p)
      PROVE  Holds(c, held, p)
  BY <1>1, <1>4, HeldHolds
<1>5. ASSUME NEW t \in Nat PROVE Asks(b, p, Append(held, <<k, t>>))
  <2>1. PICK R, record, records :
            R = Nat \X Nat /\ record = <<k, t>> /\ records = Append(held, record)
    OBVIOUS
  <2>2. record \in R /\ record[1] = k /\ held \in Seq(R)
    BY <1>2, <2>1
  <2>3. /\ records \in Seq(R)
        /\ \A i \in DOMAIN records : records[i] = record \/ (i \in DOMAIN held /\ records[i] = held[i])
    BY <2>1, <2>2
  <2>4. ASSUME NEW c, Grows(b, c), Theirs(c, k, p) PROVE Holds(c, records, p)
    BY <1>4, <2>2, <2>3, <2>4 DEF Holds
  <2>5. QED
    BY <1>1, <2>1, <2>3, <2>4 DEF Asks
<1>6. ASSUME NEW t \in Nat PROVE Asks(b, p, <<<<k, t>>>>)
  <2>1. PICK record, records : record = <<k, t>> /\ records = <<record>>
    OBVIOUS
  <2>2. record \in Nat \X Nat /\ record[1] = k
    BY <1>2, <2>1
  <2>3. records \in Seq(Nat \X Nat) /\ \A i \in DOMAIN records : records[i] = record
    BY <2>1, <2>2
  <2>4. ASSUME NEW c, Theirs(c, k, p) PROVE Holds(c, records, p)
    BY <2>2, <2>3, <2>4 DEF Holds
  <2>5. QED
    BY <1>1, <2>1, <2>3, <2>4 DEF Asks
<1>7. Asks(b, p, none) /\ Asks(b, p, held)
  BY <1>1, <1>2, <1>4 DEF Asks, Holds
<1>8. \/ \E t \in Text \cup {0} : o = <<Request("REMEMBER", none, <<t>>), Append(held, <<k, t>>)>>
      \/ \E t \in Text : o = <<Request("COMPRESS", all, <<t>>), <<<<k, t>>>>>>
      \/ o = <<Request("CLEAR", none, none), none>>
      \/ o = <<Request("READ", none, none), held>>
  <2>1. o \in Operations(b, p) \/ o = <<Request("READ", none, none), held>>
    BY <1>1, Zenon
  <2>2. Operations(b, p) =
            {<<Request("REMEMBER", none, <<t>>), Append(held, <<k, t>>)>> : t \in Text \cup {0}}
              \cup {<<Request("COMPRESS", all, <<t>>), <<<<k, t>>>>>> : t \in IF held = none THEN {} ELSE Text}
              \cup {<<Request("CLEAR", none, none), none>>}
    <3>1. Operations(b, p) =
            {<<Request("REMEMBER", <<>>, <<t>>), Append(b.held[p], <<Here(b), t>>)>> : t \in Text \cup {0}}
              \cup {<<Request("COMPRESS", [i \in DOMAIN b.held[p] |-> b.held[p][i][1]], <<t>>),
                      <<<<Here(b), t>>>>>> : t \in IF b.held[p] = <<>> THEN {} ELSE Text}
              \cup {<<Request("CLEAR", <<>>, <<>>), <<>>>>}
      BY Zenon DEF Operations
    <3>2. QED
      BY <1>1, <3>1
  <2>3. QED
    BY <2>1, <2>2
<1>9. \E request, records : /\ o = <<request, records>> /\ Asks(b, p, records)
                            /\ \E op, handles, texts : request = Request(op, handles, texts)
  <2>1. CASE \E t \in Text \cup {0} : o = <<Request("REMEMBER", none, <<t>>), Append(held, <<k, t>>)>>
    BY <1>3, <1>5, <2>1, Zenon
  <2>2. CASE \E t \in Text : o = <<Request("COMPRESS", all, <<t>>), <<<<k, t>>>>>>
    <3>1. PICK t \in Text : o = <<Request("COMPRESS", all, <<t>>), <<<<k, t>>>>>>
      BY <2>2
    <3>2. Asks(b, p, <<<<k, t>>>>)
      BY <1>3, <1>6
    <3>3. QED
      BY <3>1, <3>2, Zenon
  <2>3. CASE o = <<Request("CLEAR", none, none), none>>
    BY <1>7, <2>3, Zenon
  <2>4. CASE o = <<Request("READ", none, none), held>>
    BY <1>7, <2>4, Zenon
  <2>5. QED
    BY <1>8, <2>1, <2>2, <2>3, <2>4
<1>10. PICK request, records : /\ o = <<request, records>> /\ Asks(b, p, records)
                               /\ \E op, handles, texts : request = Request(op, handles, texts)
  BY <1>9
<1>11. request[1] = "request"
  BY <1>10, PayloadIs DEF Request
<1>12. QED
  BY <1>10, <1>11

\* The operation that a model has asked for.
LEMMA AppliedFits ==
    ASSUME NEW b, BundleInv(b), NEW p \in Polity, NEW request, NEW records \in Seq(Nat \X Nat),
           request[1] = "request", Marked(b, Memory(records), p), Theirs(b, Len(b.events), p),
           NEW e, e = b.events[Len(b.events)], e.type = "ModelInvocation", Theirs(b, e.invocation, p),
           e.answer.output[1] = "raw",
           NEW c, c = Applied(b, p, request, records)
    PROVE  BundleInv(c)
<1>1. PICK inputs : inputs = {e.shown.prompt, e.answer.output, e.shown.projection, request}
                                \cup ToSet(e.shown.contents)
  OBVIOUS
<1>2. PICK id : id = e.invocation /\ c = Archived(b, p, request, records, id, inputs)
  BY <1>1, Zenon DEF Applied
<1>3. e.of = p /\ e \in Of(b, "ModelInvocation")
  BY DEF Theirs, Of
<1>4. Shows(e.shown, p, e.shown.memory, e.shown.phase) /\ Remembered(b, p, e.shown.memory)
  BY <1>3, InvocationOf DEF InvocationFits
<1>5. \A z \in inputs : z[1] # "memory"
  <2>1. e.shown.prompt[1] = "prompt" /\ e.shown.projection[1] = "projection"
    BY <1>4, ShownKinds
  <2>2. \A z \in ToSet(e.shown.contents) : z[1] = "raw"
    BY <1>4, ShownContents
  <2>3. QED
    BY <1>1, <2>1, <2>2
<1>6. IsFiniteSet(inputs)
  <2>1. IsFiniteSet(ToSet(e.shown.contents))
    BY <1>4, ShownContents
  <2>2. IsFiniteSet({e.shown.prompt, e.answer.output} \cup {e.shown.projection, request})
    BY PairFinite, FS_Union
  <2>3. inputs = ({e.shown.prompt, e.answer.output} \cup {e.shown.projection, request})
                   \cup ToSet(e.shown.contents)
    BY <1>1
  <2>4. QED
    BY <2>1, <2>2, <2>3, FS_Union
<1>7. Grows(b, c)
  <2>1. IsBundle(b)
    BY DEF BundleInv
  <2>2. QED
    BY <1>2, <1>6, <2>1, ArchivedGrows
<1>8. ArchivedGiven(c, p, request, records, id, inputs)
  BY <1>2, <1>5, <1>7, MarkedGrows, TheirsGrows DEF ArchivedGiven
<1>9. QED
  BY <1>2, <1>6, <1>8, ArchivedFits

-----------------------------------------------------------------------------
(* An interview.                                                            *)

InterviewEvent(b, p, s, isolation, answer) ==
    [type |-> "InterviewResponse", of |-> p, payload |-> EventPayload(b),
     parents |-> {Len(b.events)}, provenance |-> {},
     projection |-> s.projection, isolation |-> isolation, response |-> answer.output]
InterviewMentions(e, context) ==
    ({e.payload} \X {e.projection, e.isolation, e.response})
      \cup {<<e.isolation, e.projection>>, <<context, e.isolation>>}

\* What was said stands in the evidence of its own.
LEMMA RespondedFits ==
    ASSUME NEW b, BundleInv(b), NEW p \in Polity, NEW s,
           Shows(s, p, s.memory, s.phase), Remembered(b, p, s.memory),
           Theirs(b, Len(b.events), p),
           NEW isolation, isolation[1] = "isolation", NEW answer,
           NEW context, context \in Part(b, p), context[1] = "configuration",
           NEW e, e = InterviewEvent(b, p, s, isolation, answer),
           NEW mentions, mentions = InterviewMentions(e, context), NEW none, none = {},
           NEW c, c = Recording(b, e, mentions, none)
    PROVE  BundleInv(c)
<1>1. mentions = InterviewMentions(e, context) /\ none = {}
  OBVIOUS
<1>2. /\ e.type = "InterviewResponse" /\ e.of = p /\ e.payload = EventPayload(b)
      /\ e.parents = {Len(b.events)} /\ e.provenance = {} /\ e.projection = s.projection
      /\ e.isolation = isolation /\ e.response = answer.output
  BY DEF InterviewEvent
<1>3. IsFiniteSet(mentions) /\ IsFiniteSet(none)
  <2>1. IsFiniteSet({e.projection, e.isolation} \cup {e.response})
    BY PairFinite, FS_Singleton, FS_Union
  <2>2. {e.projection, e.isolation} \cup {e.response} = {e.projection, e.isolation, e.response}
    OBVIOUS
  <2>3. IsFiniteSet({e.payload} \X {e.projection, e.isolation, e.response})
    BY <2>1, <2>2, FS_Singleton, FS_Product
  <2>4. IsFiniteSet({<<e.isolation, e.projection>>, <<context, e.isolation>>})
    BY PairFinite
  <2>5. mentions = ({e.payload} \X {e.projection, e.isolation, e.response})
                     \cup {<<e.isolation, e.projection>>, <<context, e.isolation>>}
    BY <1>1 DEF InterviewMentions
  <2>6. IsFiniteSet(mentions)
    <3>1. PICK A, B : /\ A = {e.payload} \X {e.projection, e.isolation, e.response}
                      /\ B = {<<e.isolation, e.projection>>, <<context, e.isolation>>}
      OBVIOUS
    <3>2. IsFiniteSet(A) /\ IsFiniteSet(B) /\ mentions = A \cup B
      BY <2>3, <2>4, <2>5, <3>1
    <3>3. QED
      BY <3>2, FS_Union
  <2>7. QED
    BY <1>1, <2>6, FS_EmptySet
<1>4. IsBundle(c) /\ c.held = b.held /\ Adds(b, c, e, mentions, none) /\ Grows(b, c)
  <2>1. IsBundle(b)
    BY DEF BundleInv
  <2>2. IsBundle(c) /\ c.held = b.held /\ Adds(b, c, e, mentions, none)
    BY <1>3, <2>1, RecordingAdds
  <2>3. QED
    BY <2>2 DEF Adds
<1>5. Here(b) \in DOMAIN c.events /\ c.events[Here(b)] = e /\ Here(b) \in Nat
  BY <1>4 DEF Adds
<1>6. Has(e) = {e.payload, s.projection, isolation, answer.output}
  BY <1>2 DEF Has, InterviewHas
<1>7. Theirs(c, Here(b), p) /\ Theirs(c, Len(b.events), p)
  <2>1. Theirs(c, Here(b), p)
    BY <1>2, <1>5 DEF Theirs
  <2>2. Theirs(c, Len(b.events), p)
    BY <1>4, TheirsGrows
  <2>3. QED
    BY <2>1, <2>2
<1>8. e.payload[1] = "event"
  BY <1>2, IndexIs, Zenon DEF EventPayload
<1>11. /\ <<e.payload, s.projection>> \in mentions /\ <<e.payload, isolation>> \in mentions
       /\ <<e.payload, answer.output>> \in mentions
  BY <1>1, <1>2 DEF InterviewMentions
<1>12. \A z \in Has(e) : z \in Payloads(c)
  <2>1. ASSUME NEW m \in mentions PROVE m[1] \in Payloads(c) /\ m[2] \in Payloads(c)
    BY <1>4, AddedPayloads
  <2>2. ASSUME NEW x, NEW y, <<x, y>> \in mentions PROVE x \in Payloads(c) /\ y \in Payloads(c)
    BY <2>1, <2>2
  <2>3. QED
    BY <1>6, <1>11, <2>2
<1>14. EventFits(c, Here(b))
  <2>1. e.type \in Types /\ e.type # "MemoryOperation" /\ e.type # "ModelInvocation"
    BY <1>2 DEF Types
  <2>2. \A j \in e.parents : Theirs(c, j, p)
    BY <1>2, <1>7
  <2>3. QED
    BY <1>2, <1>5, <1>12, <2>1, <2>2, Zenon DEF EventFits
<1>15. \A z \in Has(e) : z \in Part(c, p)
  BY <1>2, <1>4, <1>14, AddedPart
<1>16. context \in Part(c, p)
  BY <1>4, PartGrows
<1>17. ASSUME NEW m \in mentions PROVE MentionFits(c, m)
  <2>1. \/ m[1] = e.payload /\ m[2] \in {s.projection, isolation, answer.output}
        \/ m[1] = isolation /\ m[2] = s.projection
        \/ m[1] = context /\ m[2] = isolation
    BY <1>1, <1>2 DEF InterviewMentions
  <2>2. m[1] \in Part(c, p) /\ m[2] \in Part(c, p)
    BY <1>6, <1>15, <1>16, <2>1
  <2>3. m[1][1] \in Indexed \cup {"configuration"}
    BY <1>8, <2>1 DEF Indexed
  <2>4. QED
    BY <2>2, <2>3 DEF MentionFits
<1>18. (\A f \in none : FALSE) /\ \A q \in Polity : Remembered(c, q, Memory(c.held[q]))
  BY <1>1, <1>4, HeldRemembered
<1>19. QED
  BY <1>4, <1>14, <1>17, <1>18, AddingFits

LEMMA InterviewedFits ==
    ASSUME NEW b, BundleInv(b), NEW p \in Polity, NEW answer, AnswerFits(answer),
           NEW c, c = Interviewed(b, p, answer)
    PROVE  BundleInv(c)
<1>1. PICK k, s, isolation, context :
          /\ k = Here(b) /\ s = Shown(b, p, "interview")
          /\ isolation = Payload("isolation", "", <<k>>, <<>>)
          /\ context = Payload("configuration", "", <<k>>, <<>>)
  OBVIOUS
<1>2. PICK issued, contexts : issued = Issued(b, p, s) /\ contexts = {context}
  OBVIOUS
<1>3. PICK asked : asked = Attempted(issued, p, s, k, Len(issued.events), answer, contexts)
  OBVIOUS
<1>4. PICK e, mentions, none : /\ e = InterviewEvent(asked, p, s, isolation, answer)
                               /\ mentions = InterviewMentions(e, context) /\ none = {}
  OBVIOUS
<1>5. c = Recording(asked, e, mentions, none)
  <2>1. c = Recording(asked, e,
                ({e.payload} \X {s.projection, isolation, answer.output})
                  \cup {<<isolation, s.projection>>, <<context, isolation>>}, {})
    BY <1>1, <1>2, <1>3, <1>4, Zenon DEF Interviewed, InterviewEvent
  <2>2. e.projection = s.projection /\ e.isolation = isolation /\ e.response = answer.output
    BY <1>4 DEF InterviewEvent
  <2>3. mentions = ({e.payload} \X {s.projection, isolation, answer.output})
                      \cup {<<isolation, s.projection>>, <<context, isolation>>}
    BY <1>4, <2>2 DEF InterviewMentions
  <2>4. QED
    BY <1>4, <2>1, <2>3
<1>6. Shows(s, p, s.memory, s.phase) /\ Remembered(b, p, s.memory)
  <2>1. s.memory = Memory(b.held[p]) /\ Shows(s, p, s.memory, s.phase)
    BY <1>1, ShownIs
  <2>2. QED
    BY <2>1 DEF BundleInv
<1>7. BundleInv(issued) /\ Grows(b, issued) /\ Len(issued.events) = k /\ Theirs(issued, k, p)
  BY <1>1, <1>2, <1>6, IssuedFits
<1>8. RecordedGiven(issued, p, s, k, Len(issued.events), answer, contexts)
  <2>1. Remembered(issued, p, s.memory)
    BY <1>6, <1>7, RememberedGrows
  <2>2. Theirs(issued, Len(issued.events), p)
    BY <1>7
  <2>3. IsFiniteSet(contexts)
    BY <1>2, FS_Singleton
  <2>4. QED
    BY <1>6, <1>7, <2>1, <2>2, <2>3, Zenon DEF RecordedGiven
<1>9. PICK last : last = asked.events[Len(asked.events)]
  OBVIOUS
<1>10. /\ BundleInv(asked) /\ Grows(issued, asked) /\ Theirs(asked, Len(asked.events), p)
       /\ last.type = "ModelInvocation" /\ last.of = p /\ last.answer = answer
       /\ contexts \subseteq last.provenance
  BY <1>3, <1>7, <1>8, <1>9, AttemptedFits
<1>11. context \in Part(asked, p)
  <2>1. PICK i : i = Len(asked.events)
    OBVIOUS
  <2>2. i \in DOMAIN asked.events /\ last = asked.events[i]
    BY <1>9, <1>10, <2>1 DEF Theirs
  <2>3. context \in Has(last)
    BY <1>2, <1>10 DEF Has
  <2>4. QED
    BY <1>10, <2>2, <2>3, InPart
<1>12. isolation[1] = "isolation" /\ context[1] = "configuration"
  <2>1. isolation[1] = "isolation"
    BY <1>1, IndexIs, Zenon
  <2>2. context[1] = "configuration"
    BY <1>1 DEF Payload
  <2>3. QED
    BY <2>1, <2>2
<1>13. Remembered(asked, p, s.memory)
  BY <1>6, <1>7, <1>10, GrowsOn, RememberedGrows
<1>14. QED
  BY <1>4, <1>5, <1>6, <1>10, <1>11, <1>12, <1>13, RespondedFits

-----------------------------------------------------------------------------
(* The invariant, of every reachable state.                                 *)

LEMMA InitFits == Init => IInv
<1> SUFFICES ASSUME Init PROVE IInv
  OBVIOUS
<1>1. PICK b, none, nobody, h :
          /\ none = <<>> /\ nobody = {} /\ h = [p \in Polity |-> none]
          /\ b = [events |-> none, held |-> h, flow |-> nobody, mentions |-> nobody]
  OBVIOUS
<1>2. bundle = b
  BY <1>1, Zenon DEF Init
<1>3. b.events = none /\ b.held = h /\ b.flow = nobody /\ b.mentions = nobody
  BY <1>1
<1>4. /\ none \in Seq(Nat \X Nat) /\ none \in Seq(Nat) /\ none \in Seq({})
      /\ (\A i \in DOMAIN none : FALSE) /\ \A x \in nobody : FALSE
  BY <1>1
<1>5. IsBundle(b)
  <2>1. {b.events[i] : i \in DOMAIN b.events} = {}
    BY <1>3, <1>4
  <2>2. b.events \in Seq({b.events[i] : i \in DOMAIN b.events})
    BY <1>3, <1>4, <2>1
  <2>3. b.held \in [Polity -> Seq(Nat \X Nat)]
    BY <1>1, <1>3, <1>4
  <2>4. IsFiniteSet(b.flow) /\ IsFiniteSet(b.mentions)
    BY <1>1, <1>3, FS_EmptySet
  <2>5. b = [events |-> b.events, held |-> b.held, flow |-> b.flow, mentions |-> b.mentions]
    BY <1>1, <1>3
  <2>6. QED
    BY <2>2, <2>3, <2>4, <2>5 DEF IsBundle
<1>6. ASSUME NEW p \in Polity PROVE Remembered(b, p, Memory(b.held[p]))
  <2>1. b.held[p] = none
    BY <1>1, <1>3
  <2>2. PICK m : m = Memory(none)
    OBVIOUS
  <2>3. m[1] = "memory" /\ m[3] = none /\ m[4] \in Seq(Nat) /\ DOMAIN m[3] = DOMAIN m[4]
    BY <1>1, <1>4, <2>2, MemoryIs, Zenon
  <2>4. Marked(b, m, p)
    BY <1>4, <2>2, MemoryMarked DEF Holds
  <2>5. QED
    BY <1>1, <2>1, <2>2, <2>3, <2>4 DEF Remembered
<1>7. BundleInv(b)
  BY <1>3, <1>4, <1>5, <1>6 DEF BundleInv
<1>8. QED
  BY <1>2, <1>7 DEF IInv

LEMMA OperateFits ==
    ASSUME IInv, NEW p \in Polity, Operate(p)
    PROVE  BundleInv(bundle')
<1>1. PICK b, c, none : b = bundle /\ c = bundle' /\ none = {}
  OBVIOUS
<1>2. BundleInv(b) /\ IsBundle(b)
  BY <1>1 DEF IInv, BundleInv
<1>3. PICK o \in Operations(b, p) : c = Archived(b, p, o[1], o[2], Here(b), none)
  BY <1>1, Zenon DEF Operate
<1>4. PICK request, records : /\ request = o[1] /\ records = o[2]
                              /\ request[1] = "request" /\ Asks(b, p, records)
  BY <1>2, <1>3, OperationAsks
<1>5. c = Archived(b, p, request, records, Here(b), none) /\ records \in Seq(Nat \X Nat)
  BY <1>3, <1>4 DEF Asks
<1>6. IsFiniteSet(none) /\ \A z \in none : FALSE
  BY <1>1, FS_EmptySet
<1>7. PICK e, mentions, flow :
          /\ e = ArchivedEvent(b, p, request, records, Here(b), none)
          /\ mentions = ArchivedMentions(b, e, Memory(b.held[p]), none)
          /\ flow = ArchivedFlow(e, Memory(b.held[p]), request)
  OBVIOUS
<1>8. Adds(b, c, e, mentions, flow) /\ e.of = p
  BY <1>2, <1>5, <1>6, <1>7, ArchivedAdds DEF ArchivedEvent
<1>9. Grows(b, c) /\ Theirs(c, Here(b), p)
  BY <1>8, AddedTheirs DEF Adds
<1>10. ArchivedGiven(c, p, request, records, Here(b), none)
  BY <1>4, <1>5, <1>6, <1>9, MemoryMarked DEF ArchivedGiven, Asks
<1>11. QED
  BY <1>1, <1>2, <1>5, <1>6, <1>10, ArchivedFits

LEMMA TwoOf ==
    ASSUME NEW S, NEW x \in S, NEW y \in S, NEW s, s = <<x>>
    PROVE  Append(s, y)[1] = x /\ Append(s, y)[2] = y
<1>1. s \in Seq(S) /\ Len(s) = 1
  OBVIOUS
<1>2. QED
  BY <1>1

LEMMA DecideFits ==
    ASSUME IInv, NEW p \in Polity, Decide(p)
    PROVE  BundleInv(bundle')
<1>1. PICK b, c, none, phase, what : /\ b = bundle /\ c = bundle' /\ none = <<>>
                                     /\ phase = "planning" /\ what = "action"
  OBVIOUS
<1>2. BundleInv(b)
  BY <1>1 DEF IInv
<1>3. PICK t \in Text, before \in {<<>>} \cup {<<Broken(u)>> : u \in Text} :
          c = Invoked(b, p, phase, Append(before, Answer(what, none, <<t>>)))
  BY <1>1, Zenon DEF Decide
<1>4. PICK answer, answers : /\ answer = Answer(what, none, <<t>>) /\ answers = Append(before, answer)
  OBVIOUS
<1>5. AnswerFits(answer)
  BY <1>4, AnswerIs
<1>6. CASE before = <<>>
  <2>1. answers = <<answer>>
    BY <1>4, <1>6
  <2>2. Len(answers) = 1 /\ answers[1] = answer
    BY <2>1
  <2>3. QED
    BY <1>1, <1>2, <1>3, <1>4, <1>5, <2>2, InvokedFits
<1>7. CASE \E u \in Text : before = <<Broken(u)>>
  <2>1. PICK failed : before = <<failed>> /\ AnswerFits(failed)
    BY <1>7, BrokenIs
  <2>2. PICK S : failed \in S /\ answer \in S
    <3>1. failed \in {failed, answer} /\ answer \in {failed, answer}
      OBVIOUS
    <3>2. QED
      BY <3>1
  <2>3. answers[1] = failed /\ answers[2] = answer
    <3>1. before = <<failed>>
      BY <2>1
    <3>2. Append(before, answer)[1] = failed /\ Append(before, answer)[2] = answer
      BY <2>2, <3>1, TwoOf
    <3>3. QED
      BY <1>4, <3>2, Zenon
  <2>4. QED
    BY <1>1, <1>2, <1>3, <1>4, <1>5, <2>1, <2>3, InvokedFits
<1>8. QED
  BY <1>3, <1>6, <1>7

LEMMA UpdateFits ==
    ASSUME IInv, NEW p \in Polity, UpdateMemory(p)
    PROVE  BundleInv(bundle')
<1>1. PICK b, c, phase : b = bundle /\ c = bundle' /\ phase = "memory_update"
  OBVIOUS
<1>2. BundleInv(b)
  BY <1>1 DEF IInv
<1>3. PICK o \in Operations(b, p) \cup {<<Request("READ", <<>>, <<>>), b.held[p]>>} :
          c = Applied(Invoked(b, p, phase, <<Answer(o[1][2], o[1][3], o[1][4])>>), p, o[1], o[2])
  BY <1>1, Zenon DEF UpdateMemory
<1>4. PICK request, records : /\ request = o[1] /\ records = o[2]
                              /\ request[1] = "request" /\ Asks(b, p, records)
  BY <1>2, <1>3, OperationAsks
<1>5. PICK answer, answers : /\ answer = Answer(request[2], request[3], request[4])
                             /\ answers = <<answer>>
  OBVIOUS
<1>6. PICK called : called = Invoked(b, p, phase, answers) /\ c = Applied(called, p, request, records)
  BY <1>3, <1>4, <1>5
<1>7. Len(answers) = 1 /\ answers[1] = answer /\ LastAnswer(answers) = answer /\ AnswerFits(answer)
  BY <1>5, AnswerIs DEF LastAnswer
<1>8. PICK e : e = called.events[Len(called.events)]
  OBVIOUS
<1>9. /\ BundleInv(called) /\ Grows(b, called) /\ Theirs(called, Here(b), p)
      /\ Theirs(called, Len(called.events), p)
      /\ e.type = "ModelInvocation" /\ Theirs(called, e.invocation, p) /\ e.answer = answer
  BY <1>2, <1>6, <1>7, <1>8, InvokedFits
<1>10. records \in Seq(Nat \X Nat) /\ Marked(called, Memory(records), p)
  BY <1>4, <1>9, MemoryMarked DEF Asks
<1>11. e.answer.output[1] = "raw"
  BY <1>7, <1>9 DEF AnswerFits
<1>12. BundleInv(c)
  BY <1>4, <1>6, <1>8, <1>9, <1>10, <1>11, AppliedFits
<1>13. QED
  BY <1>1, <1>12

LEMMA InterviewFits ==
    ASSUME IInv, NEW p \in Polity, Interview(p)
    PROVE  BundleInv(bundle')
<1>1. PICK b, c : b = bundle /\ c = bundle'
  OBVIOUS
<1>2. PICK t \in Text : c = Interviewed(b, p, Said(t))
  BY <1>1, Zenon DEF Interview
<1>3. BundleInv(b) /\ AnswerFits(Said(t))
  BY <1>1, SaidIs DEF IInv
<1>4. QED
  BY <1>1, <1>2, <1>3, InterviewedFits

LEMMA NextFits == IInv /\ [Next]_vars => IInv'
<1> SUFFICES ASSUME IInv, [Next]_vars PROVE IInv'
  OBVIOUS
<1>1. CASE UNCHANGED vars
  <2>1. bundle' = bundle
    BY <1>1 DEF vars
  <2>2. QED
    BY <2>1 DEF IInv
<1>2. ASSUME NEW p \in Polity, Operate(p) \/ Decide(p) \/ UpdateMemory(p) \/ Interview(p)
      PROVE  IInv'
  <2>1. BundleInv(bundle')
    BY <1>2, OperateFits, DecideFits, UpdateFits, InterviewFits
  <2>2. QED
    BY <2>1 DEF IInv
<1>3. QED
  BY <1>1, <1>2 DEF Next

\* What is true of the evidence in every reachable state: what an event refers to
\* was recorded, by events of one polity; a mention joins two that stand in the
\* events of one polity, whoever else has them; and whatever was made of another
\* is a dependant of it, or a view of the memory phase (redactionDependencies of
\* src/forensics.js on the evidence of src/memory.js and src/agent.js).
THEOREM Invariant == Spec => []IInv
<1>1. Init => IInv
  BY InitFits
<1>2. IInv /\ [Next]_vars => IInv'
  BY NextFits
<1>3. QED
  BY <1>1, <1>2, PTL DEF Spec

\* Whatever is redacted, all that was in truth made of it is erased too, but for
\* what a memory phase showed next to the prompt (redactionDependencies and
\* redactBundle of src/forensics.js), for any number of polities and of steps.
THEOREM ContentIsFollowed == Spec => []ErasureFollowsContent
<1>1. IInv => ErasureFollowsContent
  <2> SUFFICES ASSUME IInv, NEW x \in Content(bundle)
               PROVE  Made(bundle, x) \ Interfaces(bundle)
                        \subseteq Removed(bundle, Spread(bundle), x, 0)
    BY Zenon DEF ErasureFollowsContent
  <2>1. BundleInv(bundle)
    BY DEF IInv
  <2>2. QED
    BY <2>1, ErasedWithAll
<1>2. QED
  BY <1>1, Invariant, PTL

\* What a redaction of the evidence of a polity erases of others, it erases
\* through payloads that both have: equal texts and answers may well be shared,
\* and nothing else is (redactBundle of src/forensics.js).
THEOREM AliasesOnly == Spec => []OnlyAliasesCross
<1>1. IInv => OnlyAliasesCross
  <2> SUFFICES ASSUME IInv, NEW p \in Polity, NEW x \in Own(bundle, p) \ {Empty}
               PROVE  LET gone == Removed(bundle, Spread(bundle), x, 0)
                          shared == (gone \cap Own(bundle, p) \cap Others(bundle, p)) \ {Empty}
                      IN gone \ Own(bundle, p) \subseteq Reach(Spread(bundle), shared)
    BY Zenon DEF OnlyAliasesCross
  <2>1. BundleInv(bundle)
    BY DEF IInv
  <2>2. PICK M, S : /\ M = Removed(bundle, Spread(bundle), x, 0)
                    /\ S = (M \cap Own(bundle, p) \cap Others(bundle, p)) \ {Empty}
    OBVIOUS
  <2>3. M \ Own(bundle, p) \subseteq Reach(Spread(bundle), S)
    BY <2>1, <2>2, AliasesLead
  <2>4. QED
    BY <2>2, <2>3, Zenon
<1>2. QED
  BY <1>1, Invariant, PTL
=============================================================================
