----------------------- MODULE EvidenceAuthorityProofs ------------------------
(* The safety invariants of EvidenceAuthority, for any processes, evidence   *)
(* and settings, as long as processes that are cut short and losses of the   *)
(* host do not come together.                                                *)
EXTENDS EvidenceAuthority, SequenceTheorems, TLAPS

-----------------------------------------------------------------------------
(* The inductive invariant: types *)

Store ==
    [intents : [Intent -> Request \cup {Unstated, None}], claims : [Intent -> Input \cup {None}],
     objects : [Bundle -> Bundle \cup {None}], pending : [Intent -> HeadRecord \cup {None}],
     heads : Seq(HeadRecord), finalizations : [Intent -> Input \cup {None}], anchor : Seq(Input)]
Operation ==
    [process : Process \cup {None}, call : Call \cup {None}, intent : Intent \cup {None},
     input : Input \cup Request \cup {Unstated, None}, at : Stage,
     unsynced : Directory \cup {None}, todo : SUBSET Intent, completing : Intent \cup {None}]
State4 == {"ABSENT", "INTENT_STORED", "FINALIZATION_PENDING", "FINALIZED"}

TypeOK ==
    /\ store \in Store
    /\ disk \in Store
    /\ initialized \subseteq Process
    /\ operation \in Operation
    /\ released \in [Intent -> Input \cup {None}]
    /\ observed \in [Intent -> State4]
    /\ setting \in Setting
    /\ failed \in [throws : Nat, deaths : Nat, crashes : Nat]

\* What an operation was asked for.
Asked(o) ==
    /\ o.process \in Process
    /\ o.at \in {"prior", "claim", "object", "stage"} => o.call = "finalize"
    /\ o.call = "finalize" => o.input \in Input /\ o.intent = o.input.intent
    /\ o.call = "put" => o.input \in Request \cup {Unstated}
    /\ o.call \in {"get", "observe", "put"} => o.intent \in Intent
    /\ o.at \in {"head", "finalization"} => o.completing \in Intent

-----------------------------------------------------------------------------
(* The inductive invariant: the store *)

\* The chain is as its heads say, and the anchor is in it.
ChainGood(s) ==
    /\ \A n \in 1..Len(s.heads) : s.heads[n].parent = Digest(SubSeq(s.heads, 1, n - 1))
    /\ Precedes(s.anchor, s.heads)
\* A head is vouched for, and is what it was staged as.
HeadsGood(s) ==
    \A n \in 1..Len(s.heads) :
        LET h == s.heads[n]
            i == h.input.intent
        IN  /\ s.claims[i] = h.input
            /\ s.objects[h.input.bundle] # None
            /\ s.finalizations[i] = h.input \/ s.pending[i] = h
            /\ \A m \in 1..Len(s.heads) : s.heads[m].input.intent = i => m = n
PendingsGood(s) ==
    \A i \in Intent : s.pending[i] # None =>
        /\ s.pending[i].input.intent = i
        /\ s.claims[i] = s.pending[i].input
        /\ s.objects[s.pending[i].input.bundle] # None
        /\ \A n \in 1..Len(s.heads) : s.heads[n].input.intent = i => s.heads[n] = s.pending[i]
RecordsGood(s) ==
    /\ \A i \in Intent : s.finalizations[i] # None =>
        \E n \in 1..Len(s.heads) : s.heads[n].input = s.finalizations[i]
    /\ \A b \in Bundle : s.objects[b] # None =>
        \E i \in Intent : s.claims[i] # None /\ s.claims[i].bundle = b
Good(s) == ChainGood(s) /\ HeadsGood(s) /\ PendingsGood(s) /\ RecordsGood(s)

\* What clients have been told is in the store.
Kept(s) ==
    \A i \in Intent :
        /\ released[i] # None => s.finalizations[i] = released[i]
        /\ observed[i] = "FINALIZED" => s.finalizations[i] # None
        /\ observed[i] = "FINALIZATION_PENDING" =>
               s.pending[i] # None \/ s.finalizations[i] # None
        /\ observed[i] = "INTENT_STORED" =>
               s.intents[i] # None \/ s.pending[i] # None \/ s.finalizations[i] # None

\* Where the operation is, the store is ready for its next step.
Prepared(o, s) ==
    /\ o.at \in {"claim", "object", "stage"} => s.finalizations[o.intent] = None
    /\ o.at \in {"object", "stage"} => s.claims[o.intent] = o.input
    /\ o.at = "stage" => s.objects[o.input.bundle] # None
    /\ o.at \in {"head", "finalization"} => s.pending[o.completing] # None
    /\ o.at = "finalization" =>
           \E n \in 1..Len(s.heads) : s.heads[n] = s.pending[o.completing]
    /\ \A i \in o.todo : s.pending[i] # None

-----------------------------------------------------------------------------
(* The inductive invariant: the disk *)

\* The disk lacks at most the record that the operation has linked last.
OneBehind ==
    \/ operation.unsynced = "intents" /\ \E i \in Intent :
           store = [disk EXCEPT !.intents[i] = store.intents[i]]
    \/ operation.unsynced = "claims" /\ \E i \in Intent :
           store = [disk EXCEPT !.claims[i] = store.claims[i]]
    \/ operation.unsynced = "objects" /\ \E b \in Bundle :
           store = [disk EXCEPT !.objects[b] = store.objects[b]]
    \/ operation.unsynced = "pending" /\ \E i \in Intent :
           store = [disk EXCEPT !.pending[i] = store.pending[i]]
    \/ operation.unsynced = "heads" /\ store.heads # <<>> /\
           store = [disk EXCEPT !.heads = Append(@, store.heads[Len(store.heads)])]
    \/ operation.unsynced = "finalizations" /\ \E i \in Intent :
           store = [disk EXCEPT !.finalizations[i] = store.finalizations[i]]
    \/ operation.unsynced = "anchor" /\ store = [disk EXCEPT !.anchor = store.anchor]

NothingCutShort == failed.throws = 0 /\ failed.deaths = 0
Safe ==
    /\ Good(store) /\ Kept(store)
    /\ NothingCutShort =>
        /\ Good(disk) /\ Kept(disk)
        /\ disk = store \/ OneBehind
        /\ operation.unsynced = None => disk = store

\* An operation that was cut short may leave a record that nobody syncs, and the
\* loss of the host may take that record away from under later ones.
Separate == NothingCutShort \/ failed.crashes = 0

Working == operation # Idle => Asked(operation) /\ Prepared(operation, store)
IInv == TypeOK /\ Working /\ (Separate => Safe)
-----------------------------------------------------------------------------
(* Chains *)

LEMMA HeadType ==
    ASSUME NEW h \in HeadRecord
    PROVE  /\ h.input \in Input /\ h.parent \in Seq(Input)
           /\ h.input.intent \in Intent /\ h.input.bundle \in Bundle
  BY DEF HeadRecord, Input

LEMMA StoreTypes ==
    ASSUME NEW s \in Store
    PROVE  /\ s.heads \in Seq(HeadRecord) /\ Len(s.heads) \in Nat /\ s.anchor \in Seq(Input)
           /\ \A n \in 1..Len(s.heads) :
               /\ s.heads[n] \in HeadRecord /\ s.heads[n].input \in Input
               /\ s.heads[n].input.intent \in Intent /\ s.heads[n].input.bundle \in Bundle
           /\ \A i \in Intent : s.pending[i] # None =>
               /\ s.pending[i] \in HeadRecord /\ s.pending[i].input \in Input
               /\ s.pending[i].input.bundle \in Bundle
<1>1. /\ s.heads \in Seq(HeadRecord) /\ Len(s.heads) \in Nat /\ s.anchor \in Seq(Input)
      /\ \A i \in Intent : s.pending[i] # None => s.pending[i] \in HeadRecord
  BY DEF Store
<1>2. \A n \in 1..Len(s.heads) : s.heads[n] \in HeadRecord
  BY <1>1
<1>3. QED
  BY <1>1, <1>2, HeadType

LEMMA DigestType ==
    ASSUME NEW heads \in Seq(HeadRecord)
    PROVE  /\ Digest(heads) \in Seq(Input) /\ Len(Digest(heads)) = Len(heads)
           /\ \A n \in 1..Len(heads) : Digest(heads)[n] = heads[n].input
<1>1. \A n \in 1..Len(heads) : heads[n].input \in Input
  <2>1. \A n \in 1..Len(heads) : heads[n] \in HeadRecord
    OBVIOUS
  <2>2. QED
    BY <2>1, HeadType
<1>2. Digest(heads) = [n \in 1..Len(heads) |-> heads[n].input]
  BY DEF Digest
<1>3. QED
  BY <1>1, <1>2

LEMMA SamePrefix ==
    ASSUME NEW heads \in Seq(HeadRecord), NEW h \in HeadRecord, NEW n \in 0..Len(heads)
    PROVE  SubSeq(Append(heads, h), 1, n) = SubSeq(heads, 1, n)
  OBVIOUS

LEMMA WholePrefix ==
    ASSUME NEW heads \in Seq(HeadRecord)
    PROVE  SubSeq(heads, 1, Len(heads)) = heads
  OBVIOUS

-----------------------------------------------------------------------------
(* What the store is when a record is added to it *)

\* A store that has the records of another.
Extends(t, s) ==
    \A i \in Intent :
        /\ s.finalizations[i] # None => t.finalizations[i] = s.finalizations[i]
        /\ s.pending[i] # None => t.pending[i] = s.pending[i]
        /\ s.intents[i] # None => t.intents[i] = s.intents[i]

LEMMA IntentAdded ==
    ASSUME NEW s \in Store, Good(s), NEW i \in Intent, NEW x \in Request \cup {Unstated},
           s.intents[i] = None
    PROVE  LET t == [s EXCEPT !.intents[i] = x]
           IN  t \in Store /\ Good(t) /\ Extends(t, s)
<1> DEFINE t == [s EXCEPT !.intents[i] = x]
<1>1. t \in Store
  BY DEF Store
<1>2. /\ t.claims = s.claims /\ t.objects = s.objects /\ t.pending = s.pending
      /\ t.heads = s.heads /\ t.finalizations = s.finalizations /\ t.anchor = s.anchor
      /\ \A j \in Intent : s.intents[j] # None => t.intents[j] = s.intents[j]
  BY DEF Store
<1> HIDE DEF t
<1>3. Good(t) /\ Extends(t, s)
  BY <1>2 DEF Good, ChainGood, HeadsGood, PendingsGood, RecordsGood, Extends
<1>4. QED
  BY <1>1, <1>3 DEF t

LEMMA ClaimAdded ==
    ASSUME NEW s \in Store, Good(s), NEW i \in Intent, NEW x \in Input, s.claims[i] = None
    PROVE  LET t == [s EXCEPT !.claims[i] = x]
           IN  t \in Store /\ Good(t) /\ Extends(t, s)
<1> DEFINE t == [s EXCEPT !.claims[i] = x]
<1>1. t \in Store
  BY DEF Store
<1>2. /\ t.objects = s.objects /\ t.pending = s.pending /\ t.intents = s.intents
      /\ t.heads = s.heads /\ t.finalizations = s.finalizations /\ t.anchor = s.anchor
      /\ \A j \in Intent : s.claims[j] # None => t.claims[j] = s.claims[j]
  BY DEF Store
<1>3. /\ \A n \in 1..Len(s.heads) : s.heads[n].input \in Input /\ s.heads[n].input.intent \in Intent
      /\ \A j \in Intent : s.pending[j] # None => s.pending[j].input \in Input
  BY StoreTypes
<1>4. None \notin Input
  BY SentinelsAreDistinct
<1> HIDE DEF t
<1>5. ChainGood(t) /\ Extends(t, s)
  BY <1>2 DEF Good, ChainGood, Extends
<1>6. HeadsGood(t)
  BY <1>2, <1>3, <1>4 DEF Good, HeadsGood
<1>7. PendingsGood(t)
  BY <1>2, <1>3, <1>4 DEF Good, PendingsGood
<1>8. RecordsGood(t)
  BY <1>2 DEF Good, RecordsGood
<1>9. QED
  BY <1>1, <1>5, <1>6, <1>7, <1>8 DEF t, Good

LEMMA ObjectAdded ==
    ASSUME NEW s \in Store, Good(s), NEW i \in Intent, NEW x \in Input, s.claims[i] = x,
           s.objects[x.bundle] = None
    PROVE  LET t == [s EXCEPT !.objects[x.bundle] = x.bundle]
           IN  t \in Store /\ Good(t) /\ Extends(t, s) /\ t.objects[x.bundle] # None
<1> DEFINE b == x.bundle
           t == [s EXCEPT !.objects[b] = b]
<1>1. b \in Bundle /\ b # None /\ s.claims[i] # None
  BY SentinelsAreDistinct DEF Input
<1>2. t \in Store
  BY <1>1 DEF Store
<1>3. /\ t.claims = s.claims /\ t.pending = s.pending /\ t.intents = s.intents
      /\ t.heads = s.heads /\ t.finalizations = s.finalizations /\ t.anchor = s.anchor
      /\ t.objects[b] = b /\ \A c \in Bundle \ {b} : t.objects[c] = s.objects[c]
  BY <1>1 DEF Store
<1>4. /\ \A n \in 1..Len(s.heads) : s.heads[n].input.bundle \in Bundle
      /\ \A j \in Intent : s.pending[j] # None => s.pending[j].input.bundle \in Bundle
  BY StoreTypes
<1> HIDE DEF t, b
<1>5. \A c \in Bundle : s.objects[c] # None => t.objects[c] # None
  BY <1>1, <1>3
<1>6. ChainGood(t) /\ Extends(t, s)
  BY <1>3 DEF Good, ChainGood, Extends
<1>7. HeadsGood(t) /\ PendingsGood(t)
  BY <1>3, <1>4, <1>5 DEF Good, HeadsGood, PendingsGood
<1>8. RecordsGood(t)
  BY <1>1, <1>3 DEF Good, RecordsGood, b
<1>9. QED
  BY <1>1, <1>2, <1>3, <1>6, <1>7, <1>8 DEF t, Good, b

LEMMA PendingAdded ==
    ASSUME NEW s \in Store, Good(s), NEW i \in Intent, NEW h \in HeadRecord,
           s.pending[i] = None, s.finalizations[i] = None, h.input.intent = i,
           s.claims[i] = h.input, s.objects[h.input.bundle] # None
    PROVE  LET t == [s EXCEPT !.pending[i] = h]
           IN  t \in Store /\ Good(t) /\ Extends(t, s)
<1> DEFINE t == [s EXCEPT !.pending[i] = h]
<1>1. t \in Store
  BY DEF Store
<1>2. /\ t.claims = s.claims /\ t.objects = s.objects /\ t.intents = s.intents
      /\ t.heads = s.heads /\ t.finalizations = s.finalizations /\ t.anchor = s.anchor
      /\ t.pending[i] = h /\ \A j \in Intent \ {i} : t.pending[j] = s.pending[j]
  BY DEF Store
<1>3. \A n \in 1..Len(s.heads) : s.heads[n] \in HeadRecord /\ s.heads[n].input \in Input
                                 /\ s.heads[n].input.intent \in Intent
  BY StoreTypes
<1>4. None \notin Input /\ None \notin HeadRecord
  BY SentinelsAreDistinct
<1>5. \A n \in 1..Len(s.heads) : s.heads[n].input.intent # i
  BY <1>3, <1>4 DEF Good, HeadsGood
<1> HIDE DEF t
<1>6. ChainGood(t) /\ Extends(t, s)
  BY <1>2 DEF Good, ChainGood, Extends
<1>7. HeadsGood(t)
  BY <1>2, <1>3, <1>5 DEF Good, HeadsGood
<1>8. PendingsGood(t)
  BY <1>2, <1>5 DEF Good, PendingsGood
<1>9. RecordsGood(t)
  BY <1>2 DEF Good, RecordsGood
<1>10. QED
  BY <1>1, <1>6, <1>7, <1>8, <1>9 DEF t, Good

LEMMA HeadAdded ==
    ASSUME NEW s \in Store, Good(s), NEW i \in Intent, NEW h \in HeadRecord,
           s.pending[i] = h, h.parent = Digest(s.heads)
    PROVE  LET t == [s EXCEPT !.heads = Append(@, h)]
           IN  t \in Store /\ Good(t) /\ Extends(t, s)
<1> DEFINE t == [s EXCEPT !.heads = Append(@, h)]
<1>0. s.heads \in Seq(HeadRecord) /\ Len(s.heads) \in Nat /\ s.anchor \in Seq(Input)
  BY StoreTypes
<1>1. t \in Store
  <2>1. Append(s.heads, h) \in Seq(HeadRecord)
    BY <1>0
  <2>2. QED
    BY <2>1 DEF Store
<1>2. /\ t.claims = s.claims /\ t.objects = s.objects /\ t.intents = s.intents
      /\ t.pending = s.pending /\ t.finalizations = s.finalizations /\ t.anchor = s.anchor
      /\ t.heads = Append(s.heads, h)
  BY DEF Store
<1>3. /\ Len(t.heads) = Len(s.heads) + 1 /\ t.heads[Len(s.heads) + 1] = h
      /\ \A n \in 1..Len(s.heads) : t.heads[n] = s.heads[n]
      /\ \A n \in 1..Len(t.heads) : n \in 1..Len(s.heads) \/ n = Len(s.heads) + 1
  BY <1>0, <1>2
<1>4. /\ h # None /\ h.input.intent = i /\ s.claims[i] = h.input
      /\ s.objects[h.input.bundle] # None
      /\ \A n \in 1..Len(s.heads) : s.heads[n].input.intent = i => s.heads[n] = h
  BY SentinelsAreDistinct DEF Good, PendingsGood
<1> HIDE DEF t
<1>5. \A n \in 1..Len(s.heads) : s.heads[n].input.intent # i
  <2>1. SUFFICES ASSUME NEW n \in 1..Len(s.heads), s.heads[n] = h PROVE FALSE
    BY <1>4
  <2>2. h.parent = Digest(SubSeq(s.heads, 1, n - 1))
    BY <2>1 DEF Good, ChainGood
  <2>3. /\ SubSeq(s.heads, 1, n - 1) \in Seq(HeadRecord)
        /\ Len(SubSeq(s.heads, 1, n - 1)) = n - 1
    BY <1>0
  <2>4. Len(h.parent) = Len(s.heads) /\ Len(h.parent) = n - 1
    BY <1>0, <2>2, <2>3, DigestType
  <2>5. QED
    BY <1>0, <2>4
<1>6. ChainGood(t)
  <2>1. ASSUME NEW n \in 1..Len(t.heads)
        PROVE  t.heads[n].parent = Digest(SubSeq(t.heads, 1, n - 1))
    <3>1. n - 1 \in 0..Len(s.heads)
      BY <1>0, <1>3
    <3>2. SubSeq(t.heads, 1, n - 1) = SubSeq(s.heads, 1, n - 1)
      BY <1>0, <1>2, <3>1, SamePrefix
    <3>3. CASE n \in 1..Len(s.heads)
      BY <1>3, <3>2, <3>3 DEF Good, ChainGood
    <3>4. CASE n = Len(s.heads) + 1
      <4>1. n - 1 = Len(s.heads)
        BY <1>0, <3>4
      <4>2. SubSeq(t.heads, 1, n - 1) = s.heads
        BY <1>0, <3>2, <4>1, WholePrefix
      <4>3. QED
        BY <1>3, <3>4, <4>2
    <3>5. QED
      BY <1>3, <3>3, <3>4
  <2>2. Precedes(t.anchor, t.heads)
    <3>1. Len(s.anchor) \in 0..Len(s.heads)
      BY <1>0 DEF Good, ChainGood, Precedes
    <3>2. SubSeq(t.heads, 1, Len(s.anchor)) = SubSeq(s.heads, 1, Len(s.anchor))
      BY <1>0, <1>2, <3>1, SamePrefix
    <3>3. s.anchor = Digest(SubSeq(s.heads, 1, Len(s.anchor)))
      BY DEF Good, ChainGood, Precedes
    <3>4. Len(s.anchor) <= Len(t.heads)
      BY <1>0, <1>3, <3>1
    <3>5. QED
      BY <1>2, <3>2, <3>3, <3>4 DEF Precedes
  <2>3. QED
    BY <2>1, <2>2 DEF ChainGood
<1>7. HeadsGood(t)
  BY <1>0, <1>2, <1>3, <1>4, <1>5 DEF Good, HeadsGood
<1>8. PendingsGood(t)
  BY <1>0, <1>2, <1>3, <1>4 DEF Good, PendingsGood
<1>9. RecordsGood(t)
  BY <1>0, <1>2, <1>3 DEF Good, RecordsGood
<1>10. QED
  BY <1>1, <1>2, <1>6, <1>7, <1>8, <1>9 DEF t, Good, Extends

LEMMA FinalizationAdded ==
    ASSUME NEW s \in Store, Good(s), NEW i \in Intent, s.pending[i] # None,
           s.finalizations[i] = None,
           NEW n \in 1..Len(s.heads), s.heads[n] = s.pending[i]
    PROVE  LET t == [s EXCEPT !.finalizations[i] = s.pending[i].input]
           IN  t \in Store /\ Good(t) /\ Extends(t, s)
<1> DEFINE x == s.pending[i].input
           t == [s EXCEPT !.finalizations[i] = x]
<1>1. s.pending[i] \in HeadRecord /\ x \in Input /\ x.intent = i
  BY DEF Store, HeadRecord, Good, PendingsGood
<1>2. t \in Store
  BY <1>1 DEF Store
<1>3. /\ t.claims = s.claims /\ t.objects = s.objects /\ t.intents = s.intents
      /\ t.pending = s.pending /\ t.heads = s.heads /\ t.anchor = s.anchor
      /\ t.finalizations[i] = x
      /\ \A j \in Intent \ {i} : t.finalizations[j] = s.finalizations[j]
  BY DEF Store
<1>4. \A m \in 1..Len(s.heads) : s.heads[m].input.intent \in Intent
  BY StoreTypes
<1> HIDE DEF t
<1>5. ChainGood(t) /\ PendingsGood(t) /\ Extends(t, s)
  BY <1>3 DEF Good, ChainGood, PendingsGood, Extends
<1>6. HeadsGood(t)
  BY <1>1, <1>3, <1>4, SMTT(40) DEF Good, HeadsGood
<1>7. RecordsGood(t)
  BY <1>3 DEF Good, RecordsGood
<1>8. QED
  BY <1>2, <1>5, <1>6, <1>7 DEF t, Good

LEMMA AnchorMoved ==
    ASSUME NEW s \in Store, Good(s)
    PROVE  LET t == [s EXCEPT !.anchor = Digest(s.heads)]
           IN  t \in Store /\ Good(t) /\ Extends(t, s)
<1> DEFINE t == [s EXCEPT !.anchor = Digest(s.heads)]
<1>1. s.heads \in Seq(HeadRecord) /\ Len(s.heads) \in Nat
  BY DEF Store
<1>2. Digest(s.heads) \in Seq(Input) /\ Len(Digest(s.heads)) = Len(s.heads)
  BY <1>1, DigestType
<1>3. t \in Store
  BY <1>2 DEF Store
<1>4. /\ t.claims = s.claims /\ t.objects = s.objects /\ t.intents = s.intents
      /\ t.pending = s.pending /\ t.heads = s.heads /\ t.finalizations = s.finalizations
      /\ t.anchor = Digest(s.heads)
  BY DEF Store
<1> HIDE DEF t
<1>5. ChainGood(t)
  <2>1. SubSeq(t.heads, 1, Len(t.anchor)) = t.heads
    BY <1>1, <1>2, <1>4, WholePrefix
  <2>2. Len(t.anchor) <= Len(t.heads)
    BY <1>1, <1>2, <1>4
  <2>3. Precedes(t.anchor, t.heads)
    BY <1>4, <2>1, <2>2 DEF Precedes
  <2>4. QED
    BY <1>4, <2>3 DEF Good, ChainGood
<1>6. QED
  BY <1>3, <1>4, <1>5 DEF t, Good, HeadsGood, PendingsGood, RecordsGood, Extends

-----------------------------------------------------------------------------
(* Steps that read, and steps that link *)

LEMMA Continued ==
    ASSUME operation \in Operation, NEW stage \in Stage, NEW d \in Directory \cup {None},
           Continue(stage, d)
    PROVE  /\ operation' \in Operation
           /\ operation'.at = stage /\ operation'.unsynced = d
           /\ operation'.process = operation.process
           /\ operation'.call = operation.call /\ operation'.intent = operation.intent
           /\ operation'.input = operation.input /\ operation'.todo = operation.todo
           /\ operation'.completing = operation.completing
  BY DEF Continue, Operation

LEMMA NoDirectory ==
    /\ None \notin Directory
    /\ \A d \in {"intents", "claims", "objects", "pending", "heads", "finalizations", "anchor"} :
           d \in Directory /\ d # None
  BY SentinelsAreDistinct DEF Directory

\* Clients keep what they were told while the store is extended.
LEMMA KeptStays ==
    ASSUME NEW s, NEW t, Kept(s), Extends(t, s), UNCHANGED client,
           released \in [Intent -> Input \cup {None}]
    PROVE  /\ \A i \in Intent :
               /\ released'[i] # None => t.finalizations[i] = released'[i]
               /\ observed'[i] = "FINALIZED" => t.finalizations[i] # None
               /\ observed'[i] = "FINALIZATION_PENDING" =>
                      t.pending[i] # None \/ t.finalizations[i] # None
               /\ observed'[i] = "INTENT_STORED" =>
                      t.intents[i] # None \/ t.pending[i] # None \/ t.finalizations[i] # None
  BY DEF Kept, Extends, client

LEMMA Itself == ASSUME NEW s PROVE Extends(s, s)
  BY DEF Extends

LEMMA ReadsOnly ==
    ASSUME TypeOK, Safe, UNCHANGED <<store, disk, client, failures>>,
           operation.unsynced = None, operation'.unsynced = None
    PROVE  Safe'
<1>1. Good(store)' /\ Kept(store)' /\ NothingCutShort' = NothingCutShort
  BY DEF Safe, Kept, client, failures, NothingCutShort
<1>2. NothingCutShort => disk = store
  BY DEF Safe
<1>3. QED
  BY <1>1, <1>2 DEF Safe, Kept

LEMMA LinksOne ==
    ASSUME TypeOK, Safe, UNCHANGED <<disk, client, failures>>,
           operation.unsynced = None, operation'.unsynced # None,
           Good(store)', Extends(store', store), disk = store => OneBehind'
    PROVE  Safe'
<1>1. Kept(store)' /\ NothingCutShort' = NothingCutShort
  BY KeptStays DEF TypeOK, Safe, Kept, failures, NothingCutShort
<1>2. NothingCutShort => disk = store
  BY DEF Safe
<1>3. NothingCutShort => Good(disk)' /\ Kept(disk)'
  BY <1>2 DEF Safe, Kept, client
<1>4. QED
  BY <1>1, <1>2, <1>3 DEF Safe

\* What an operation has still to complete stays pending.
LEMMA TodoStays ==
    ASSUME TypeOK, Prepared(operation, store), Extends(store', store),
           operation'.todo \subseteq operation.todo
    PROVE  \A i \in operation'.todo : store'.pending[i] # None
<1>1. operation.todo \subseteq Intent
  BY DEF TypeOK, Operation
<1>2. QED
  BY <1>1 DEF Prepared, Extends

-----------------------------------------------------------------------------
(* An operation begins *)

Stepped == TypeOK' /\ Working' /\ (Safe => Safe')

LEMMA IdleType == Idle \in Operation /\ Idle.unsynced = None
  BY DEF Idle, Operation, Stage

LEMMA StartStep ==
    ASSUME TypeOK, NEW p \in Process, NEW call \in Call, NEW i \in Intent \cup {None},
           NEW input \in Input \cup Request \cup {Unstated, None},
           Start(p, call, i, input),
           call = "finalize" => input \in Input /\ i = input.intent,
           call = "put" => input \in Request \cup {Unstated},
           call \in {"get", "observe", "put"} => i \in Intent
    PROVE  Stepped
<1>1. PICK at \in {"begin", "open"} :
          operation' = [Idle EXCEPT !.process = p, !.call = call, !.intent = i,
                                    !.input = input, !.at = at]
  BY DEF Start
<1>2. /\ operation'.process = p /\ operation'.call = call /\ operation'.intent = i /\ operation'.input = input
      /\ operation'.at = at /\ operation'.unsynced = None /\ operation'.todo = {}
  BY <1>1 DEF Idle
<1>3. operation' \in Operation
  BY <1>1 DEF Idle, Operation, Stage
<1>4. UNCHANGED <<store, disk, initialized, client, failures>> /\ operation.unsynced = None
  BY IdleType DEF Start
<1>5. TypeOK'
  BY <1>3, <1>4 DEF TypeOK, client, failures
<1>6. Working'
  BY <1>2 DEF Working, Asked, Prepared
<1>7. QED
  BY <1>2, <1>4, <1>5, <1>6, ReadsOnly DEF Stepped

LEMMA Begins ==
    ASSUME TypeOK, NEW p \in setting.processes,
           \/ Initialize(p)
           \/ \E i \in Intent : Get(p, i) \/ Observe(p, i)
           \/ \E i \in Intent, r \in Records : Put(p, i, r)
           \/ \E input \in setting.offered : Finalize(p, input)
    PROVE  Stepped
<1>1. p \in Process /\ setting.offered \subseteq Input
  BY DEF TypeOK, Setting
<1>2. \A x \in Input : x.intent \in Intent
  BY DEF Input
<1>3. CASE Initialize(p)
  BY <1>1, <1>3, StartStep DEF Initialize, Call
<1>4. ASSUME NEW i \in Intent, Get(p, i) \/ Observe(p, i) PROVE Stepped
  BY <1>1, <1>4, StartStep DEF Get, Observe, Call
<1>5. ASSUME NEW i \in Intent, NEW r \in Records, Put(p, i, r) PROVE Stepped
  BY <1>1, <1>5, StartStep, RecordsAreHashes DEF Put, Call
<1>6. ASSUME NEW input \in setting.offered, Finalize(p, input) PROVE Stepped
  BY <1>1, <1>2, <1>6, StartStep DEF Finalize, Call
<1>7. QED
  BY <1>3, <1>4, <1>5, <1>6

-----------------------------------------------------------------------------
(* An operation reads the store *)

LEMMA ReadStep ==
    ASSUME TypeOK, operation \in Operation, NEW stage, At(stage),
           UNCHANGED <<store, disk, client, failures>>, initialized' \subseteq Process,
           operation' \in Operation, operation'.unsynced = None,
           operation' # Idle => Asked(operation') /\ Prepared(operation', store)
    PROVE  Stepped
<1>1. operation.unsynced = None
  BY DEF At
<1>2. TypeOK' /\ Working'
  BY DEF TypeOK, Working, client, failures
<1>3. QED
  BY <1>1, <1>2, ReadsOnly DEF Stepped

LEMMA OpenStep == ASSUME TypeOK, Working, Open PROVE Stepped
<1>1. /\ At("open") /\ Asked(operation)
      /\ operation' = [operation EXCEPT !.at = "recover",
                          !.todo = {i \in Intent : store.pending[i] # None}]
  BY DEF Open, At, Working
<1>2. /\ operation'.at = "recover" /\ operation'.call = operation.call
      /\ operation'.process = operation.process
      /\ operation'.intent = operation.intent /\ operation'.input = operation.input
      /\ operation'.unsynced = None /\ operation' \in Operation
      /\ operation'.todo = {i \in Intent : store.pending[i] # None}
  BY <1>1 DEF TypeOK, Operation, Stage, At
<1>3. Asked(operation') /\ Prepared(operation', store)
  BY <1>1, <1>2 DEF Asked, Prepared
<1>4. QED
  BY <1>1, <1>2, <1>3, ReadStep DEF Open, Quiet, TypeOK

LEMMA RecoverStep == ASSUME TypeOK, Working, NEW i \in Intent, RecoverPending(i) PROVE Stepped
<1>1. /\ At("recover") /\ Asked(operation) /\ Prepared(operation, store)
      /\ i \in operation.todo
      /\ operation' = [operation EXCEPT !.at = "head", !.completing = i, !.todo = @ \ {i}]
  BY DEF RecoverPending, At, Working
<1>2. /\ operation'.at = "head" /\ operation'.call = operation.call
      /\ operation'.process = operation.process
      /\ operation'.intent = operation.intent /\ operation'.input = operation.input
      /\ operation'.unsynced = None /\ operation' \in Operation
      /\ operation'.todo \subseteq operation.todo /\ operation'.completing = i
  BY <1>1 DEF TypeOK, Operation, Stage, At
<1>3. Asked(operation') /\ Prepared(operation', store)
  BY <1>1, <1>2 DEF Asked, Prepared
<1>4. QED
  BY <1>1, <1>2, <1>3, ReadStep DEF RecoverPending, Quiet, TypeOK

LEMMA VerifyStep == ASSUME TypeOK, Working, Verify PROVE Stepped
<1>1. /\ At("recover") /\ Asked(operation) /\ Prepared(operation, store)
      /\ operation' = [operation EXCEPT !.at = "anchor", !.completing = None]
  BY DEF Verify, At, Working
<1>2. /\ operation'.at = "anchor" /\ operation'.call = operation.call
      /\ operation'.process = operation.process
      /\ operation'.intent = operation.intent /\ operation'.input = operation.input
      /\ operation'.unsynced = None /\ operation' \in Operation
      /\ operation'.todo = operation.todo
  BY <1>1, ZenonT(60) DEF TypeOK, Operation, Stage, At
<1>3. Asked(operation') /\ Prepared(operation', store)
  BY <1>1, <1>2 DEF Asked, Prepared
<1>4. QED
  BY <1>1, <1>2, <1>3, ReadStep DEF Verify, Quiet, TypeOK

LEMMA ContinueStep ==
    ASSUME TypeOK, Working, NEW from, At(from),
           NEW stage \in {"begin", "prior", "claim", "answer"},
           Continue(stage, None), UNCHANGED <<store, disk, client, failures>>,
           initialized' \subseteq Process,
           stage \in {"prior", "claim"} => operation.call = "finalize",
           stage = "claim" => store.finalizations[operation.intent] = None
    PROVE  Stepped
<1>1. Asked(operation) /\ Prepared(operation, store)
  BY DEF At, Working
<1>2. stage \in Stage
  BY DEF Stage
<1>3. /\ operation' \in Operation
      /\ operation'.at = stage /\ operation'.unsynced = None
      /\ operation'.process = operation.process
      /\ operation'.call = operation.call /\ operation'.intent = operation.intent
      /\ operation'.input = operation.input /\ operation'.todo = operation.todo
  BY <1>2, Continued DEF TypeOK
<1>4. Asked(operation') /\ Prepared(operation', store)
  BY <1>1, <1>3 DEF Asked, Prepared
<1>5. QED
  BY <1>3, <1>4, ReadStep DEF TypeOK

LEMMA ReadyStep == ASSUME TypeOK, Working, Ready PROVE Stepped
<1>1. At("ready") /\ operation.process \in Process
  BY DEF Ready, At, Working, Asked
<1>2. QED
  BY <1>1, ContinueStep DEF Ready, TypeOK

LEMMA BeginReadingStep == ASSUME TypeOK, Working, BeginReading PROVE Stepped
  BY ContinueStep DEF BeginReading, Quiet, TypeOK

LEMMA CheckPriorStep == ASSUME TypeOK, Working, CheckPrior PROVE Stepped
<1>1. At("prior") /\ operation.call = "finalize"
  BY DEF CheckPrior, At, Working, Asked
<1>2. QED
  BY <1>1, ContinueStep DEF CheckPrior, Quiet, TypeOK

LEMMA ObserveStep == ASSUME TypeOK, Working, ObservePending PROVE Stepped
<1>1. /\ At("begin") /\ Asked(operation) /\ Prepared(operation, store)
      /\ operation.call = "observe" /\ operation.intent \in Intent
      /\ State(operation.intent) = "FINALIZATION_PENDING"
      /\ operation' = [operation EXCEPT !.at = "head", !.completing = operation.intent]
  BY DEF ObservePending, Calls, At, Working, Asked
<1>2. /\ operation'.at = "head" /\ operation'.call = operation.call
      /\ operation'.process = operation.process
      /\ operation'.intent = operation.intent /\ operation'.input = operation.input
      /\ operation'.unsynced = None /\ operation' \in Operation
      /\ operation'.todo = operation.todo /\ operation'.completing = operation.intent
  BY <1>1 DEF TypeOK, Operation, Stage, At
<1>3. store.pending[operation.intent] # None
  BY <1>1 DEF State
<1>4. Asked(operation') /\ Prepared(operation', store)
  BY <1>1, <1>2, <1>3 DEF Asked, Prepared
<1>5. QED
  BY <1>1, <1>2, <1>4, ReadStep DEF ObservePending, Quiet, TypeOK

LEMMA RefuseStep == ASSUME TypeOK, Working, Refuse PROVE Stepped
<1>1. \E stage \in Stage : At(stage)
  BY DEF Refuse, Refused, Stage
<1>2. QED
  BY <1>1, IdleType, ReadStep DEF Refuse, TypeOK

\* A client is told what the store says, when all of it is synced.
LEMMA AnswerStep == ASSUME TypeOK, Working, Answer PROVE Stepped
<1>1. /\ operation.unsynced = None /\ operation' = Idle
      /\ UNCHANGED <<store, disk, initialized, failures>>
  BY DEF Answer, At
<1>2. PICK i \in Intent \cup {None} : i = operation.intent
  BY DEF TypeOK, Operation
<1>3. /\ \A j \in Intent : released'[j] = released[j] \/ released'[j] = store.finalizations[j]
      /\ released' \in [Intent -> Input \cup {None}]
      /\ \A j \in Intent : released'[j] # released[j] => released'[j] # None
  <2>1. store.finalizations \in [Intent -> Input \cup {None}]
    BY DEF TypeOK, Store
  <2>2. QED
    BY <1>2, <2>1 DEF Answer, TypeOK
<1>4. /\ \A j \in Intent : observed'[j] = observed[j] \/ observed'[j] = State(j)
      /\ observed' \in [Intent -> State4]
  <2>1. \A j \in Intent : State(j) \in State4
    BY DEF State, State4
  <2>2. operation.call = "observe" => operation.intent \in Intent
    BY DEF Answer, At, Working, Asked
  <2>3. QED
    BY <2>1, <2>2 DEF Answer, TypeOK
<1>5. TypeOK' /\ Working'
  BY <1>1, <1>3, <1>4, IdleType DEF TypeOK, Working, failures
<1>6. ASSUME Safe PROVE Safe'
  <2>1. Kept(store)'
    BY <1>1, <1>3, <1>4, <1>6 DEF Safe, Kept, State
  <2>2. NothingCutShort => disk = store
    BY <1>1, <1>6 DEF Safe
  <2>3. NothingCutShort' = NothingCutShort
    BY <1>1 DEF NothingCutShort, failures
  <2>4. QED
    BY <1>1, <1>6, <2>1, <2>2, <2>3 DEF Safe, Kept
<1>7. QED
  BY <1>5, <1>6 DEF Stepped

-----------------------------------------------------------------------------
(* An operation links a record *)

LEMMA LinkStep ==
    ASSUME TypeOK, Working, NEW from, At(from), UNCHANGED <<disk, initialized, client, failures>>,
           operation' \in Operation, store' \in Store,
           Asked(operation'), Prepared(operation', store'),
           operation'.unsynced # None, Safe => Good(store') /\ Extends(store', store),
           disk = store => OneBehind'
    PROVE  Stepped
<1>1. TypeOK' /\ Working'
  BY DEF TypeOK, Working, client, failures
<1>2. operation.unsynced = None
  BY DEF At
<1>3. QED
  BY <1>1, <1>2, LinksOne DEF Stepped

LEMMA PutStep == ASSUME TypeOK, Working, PutIntent PROVE Stepped
<1> DEFINE i == operation.intent
           x == operation.input
<1>1. /\ At("begin") /\ Asked(operation) /\ Prepared(operation, store)
      /\ i \in Intent /\ x \in Request \cup {Unstated} /\ operation.call = "put"
  BY DEF PutIntent, Calls, At, Working, Asked
<1>2. CASE store.intents[i] = x /\ UNCHANGED store /\ Continue("answer", None)
  BY <1>1, <1>2, ContinueStep DEF PutIntent, Quiet, TypeOK
<1>3. CASE /\ store.intents[i] = None /\ store' = [store EXCEPT !.intents[i] = x]
           /\ Continue("answer", "intents")
  <2>1. "answer" \in Stage /\ "intents" \in Directory /\ "intents" # None
    BY NoDirectory DEF Stage
  <2>2. /\ operation' \in Operation
        /\ operation'.at = "answer" /\ operation'.unsynced = "intents"
        /\ operation'.process = operation.process
        /\ operation'.call = operation.call /\ operation'.intent = operation.intent
        /\ operation'.input = operation.input /\ operation'.todo = operation.todo
    BY <1>3, <2>1, Continued DEF TypeOK
  <2>3. store' \in Store /\ Extends(store', store) /\ (Safe => Good(store'))
    <3>1. store' \in Store /\ Extends(store', store)
      BY <1>1, <1>3 DEF TypeOK, Store, Extends
    <3>2. QED
      BY <1>1, <1>3, <3>1, IntentAdded DEF TypeOK, Safe
  <2>4. Asked(operation') /\ Prepared(operation', store')
    BY <1>1, <2>2, <2>3, TodoStays DEF Asked, Prepared
  <2>5. disk = store => OneBehind'
    BY <1>1, <1>3, <2>2 DEF OneBehind, PutIntent, Quiet, TypeOK, Store
  <2>6. QED
    BY <1>1, <2>1, <2>2, <2>3, <2>4, <2>5, LinkStep DEF PutIntent, Quiet
<1>4. QED
  BY <1>2, <1>3 DEF PutIntent, Immutable

LEMMA BindStep == ASSUME TypeOK, Working, BindIntent PROVE Stepped
<1> DEFINE i == operation.intent
           x == operation.input.request
<1>1. /\ At("begin") /\ Asked(operation) /\ Prepared(operation, store)
      /\ operation.call = "finalize" /\ operation.input \in Input /\ i = operation.input.intent
  BY DEF BindIntent, Calls, At, Working, Asked
<1>2. i \in Intent /\ x \in Request
  BY <1>1 DEF Input
<1>3. CASE UNCHANGED store /\ Continue("prior", None)
  BY <1>1, <1>3, ContinueStep DEF BindIntent, Quiet, TypeOK
<1>4. CASE /\ store.intents[i] = None /\ store' = [store EXCEPT !.intents[i] = x]
           /\ Continue("prior", "intents")
  <2>1. "prior" \in Stage /\ "intents" \in Directory /\ "intents" # None
    BY NoDirectory DEF Stage
  <2>2. /\ operation' \in Operation
        /\ operation'.at = "prior" /\ operation'.unsynced = "intents"
        /\ operation'.process = operation.process
        /\ operation'.call = operation.call /\ operation'.intent = operation.intent
        /\ operation'.input = operation.input /\ operation'.todo = operation.todo
    BY <1>4, <2>1, Continued DEF TypeOK
  <2>3. store' \in Store /\ Extends(store', store) /\ (Safe => Good(store'))
    <3>1. store' \in Store /\ Extends(store', store)
      BY <1>2, <1>4 DEF TypeOK, Store, Extends
    <3>2. QED
      BY <1>2, <1>4, <3>1, IntentAdded DEF TypeOK, Safe
  <2>4. Asked(operation') /\ Prepared(operation', store')
    BY <1>1, <2>2, <2>3, TodoStays DEF Asked, Prepared
  <2>5. disk = store => OneBehind'
    BY <1>2, <1>4, <2>2, ZenonT(60) DEF OneBehind, BindIntent, Quiet, TypeOK, Store
  <2>6. QED
    BY <1>1, <2>1, <2>2, <2>3, <2>4, <2>5, LinkStep DEF BindIntent, Quiet
<1>5. QED
  BY <1>3, <1>4 DEF BindIntent, Immutable

LEMMA ClaimStep == ASSUME TypeOK, Working, Claim PROVE Stepped
<1> DEFINE i == operation.intent
           x == operation.input
<1>1. /\ At("claim") /\ Asked(operation) /\ Prepared(operation, store)
      /\ operation.call = "finalize" /\ x \in Input /\ i = x.intent
      /\ store.finalizations[i] = None
  BY DEF Claim, At, Working, Asked, Prepared
<1>2. i \in Intent
  BY <1>1 DEF Input
<1>3. PICK d \in {"claims", None} :
          /\ Continue("object", d)
          /\ \/ d = "claims" /\ store.claims[i] = None /\ store' = [store EXCEPT !.claims[i] = x]
             \/ d = None /\ store.claims[i] = x /\ store' = store
  BY DEF Claim, Immutable
<1>4. "object" \in Stage /\ "claims" \in Directory /\ "claims" # None
  BY NoDirectory DEF Stage
<1>5. /\ operation' \in Operation
      /\ operation'.at = "object" /\ operation'.unsynced = d
      /\ operation'.process = operation.process
      /\ operation'.call = operation.call /\ operation'.intent = operation.intent
      /\ operation'.input = operation.input /\ operation'.todo = operation.todo
  BY <1>3, <1>4, Continued DEF TypeOK
<1>6. /\ store' \in Store /\ Extends(store', store)
      /\ store'.claims[i] = x /\ store'.finalizations = store.finalizations
  <2>1. CASE store' = store /\ store.claims[i] = x
    BY <2>1, Itself DEF TypeOK
  <2>2. CASE store' = [store EXCEPT !.claims[i] = x]
    BY <1>1, <1>2, <2>2 DEF TypeOK, Store, Extends
  <2>3. QED
    BY <1>3, <2>1, <2>2
<1>7. Asked(operation') /\ Prepared(operation', store')
  BY <1>1, <1>5, <1>6, TodoStays DEF Asked, Prepared
<1>8. CASE d = None
  BY <1>1, <1>3, <1>4, <1>5, <1>7, <1>8, ReadStep DEF Claim, Quiet, TypeOK
<1>9. CASE d = "claims"
  <2>1. store.claims[i] = None /\ store' = [store EXCEPT !.claims[i] = x]
    BY <1>3, <1>4, <1>9
  <2>2. Safe => Good(store')
    BY <1>1, <1>2, <2>1, ClaimAdded DEF TypeOK, Safe
  <2>3. disk = store => OneBehind'
    BY <1>2, <1>5, <1>9, <2>1 DEF OneBehind, Claim, Quiet, TypeOK, Store
  <2>4. QED
    BY <1>1, <1>4, <1>5, <1>6, <1>7, <1>9, <2>2, <2>3, LinkStep DEF Claim, Quiet
<1>10. QED
  BY <1>3, <1>8, <1>9

LEMMA ObjectStep == ASSUME TypeOK, Working, CommitObject PROVE Stepped
<1> DEFINE i == operation.intent
           x == operation.input
           b == x.bundle
<1>1. /\ At("object") /\ Asked(operation) /\ Prepared(operation, store)
      /\ operation.call = "finalize" /\ x \in Input /\ i = x.intent
      /\ store.finalizations[i] = None /\ store.claims[i] = x
  BY DEF CommitObject, At, Working, Asked, Prepared
<1>2. i \in Intent /\ b \in Bundle /\ b # None
  BY <1>1, SentinelsAreDistinct DEF Input
<1>3. PICK d \in {"objects", None} :
          /\ Continue("stage", d)
          /\ \/ d = "objects" /\ store.objects[b] = None /\ store' = [store EXCEPT !.objects[b] = b]
             \/ d = None /\ store.objects[b] = b /\ store' = store
  BY DEF CommitObject, Immutable
<1>4. "stage" \in Stage /\ "objects" \in Directory /\ "objects" # None
  BY NoDirectory DEF Stage
<1>5. /\ operation' \in Operation
      /\ operation'.at = "stage" /\ operation'.unsynced = d
      /\ operation'.process = operation.process
      /\ operation'.call = operation.call /\ operation'.intent = operation.intent
      /\ operation'.input = operation.input /\ operation'.todo = operation.todo
  BY <1>3, <1>4, Continued DEF TypeOK
<1>6. /\ store' \in Store /\ Extends(store', store) /\ store'.objects[b] # None
      /\ store'.claims[i] = x /\ store'.finalizations = store.finalizations
  <2>1. CASE store' = store /\ store.objects[b] = b
    BY <1>1, <1>2, <2>1, Itself DEF TypeOK
  <2>2. CASE store' = [store EXCEPT !.objects[b] = b]
    BY <1>1, <1>2, <2>2 DEF TypeOK, Store, Extends
  <2>3. QED
    BY <1>3, <2>1, <2>2
<1>7. Asked(operation') /\ Prepared(operation', store')
  BY <1>1, <1>5, <1>6, TodoStays DEF Asked, Prepared
<1>8. CASE d = None
  BY <1>1, <1>3, <1>4, <1>5, <1>7, <1>8, ReadStep DEF CommitObject, Quiet, TypeOK
<1>9. CASE d = "objects"
  <2>1. store.objects[b] = None /\ store' = [store EXCEPT !.objects[b] = b]
    BY <1>3, <1>4, <1>9
  <2>2. Safe => Good(store')
    BY <1>1, <1>2, <2>1, ObjectAdded DEF TypeOK, Safe
  <2>3. disk = store => OneBehind'
    BY <1>2, <1>5, <1>9, <2>1, ZenonT(60) DEF OneBehind, CommitObject, Quiet, TypeOK, Store
  <2>4. QED
    BY <1>1, <1>4, <1>5, <1>6, <1>7, <1>9, <2>2, <2>3, LinkStep DEF CommitObject, Quiet
<1>10. QED
  BY <1>3, <1>8, <1>9

LEMMA StageStep == ASSUME TypeOK, Working, StageFinalization PROVE Stepped
<1> DEFINE i == operation.intent
           x == operation.input
           h == NextHead
<1>1. /\ At("stage") /\ Asked(operation) /\ Prepared(operation, store)
      /\ operation.call = "finalize" /\ x \in Input /\ i = x.intent
      /\ store.finalizations[i] = None /\ store.claims[i] = x /\ store.objects[x.bundle] # None
  BY DEF StageFinalization, At, Working, Asked, Prepared
<1>2. i \in Intent
  BY <1>1 DEF Input
<1>3. h \in HeadRecord /\ h.input = x /\ h # None
  <2>1. Digest(store.heads) \in Seq(Input)
    BY StoreTypes, DigestType DEF TypeOK
  <2>2. QED
    BY <1>1, <2>1, SentinelsAreDistinct DEF NextHead, HeadRecord
<1> HIDE DEF h
<1>4. /\ store.pending[i] \in {None, h} /\ store' = [store EXCEPT !.pending[i] = h]
      /\ operation' = [operation EXCEPT !.at = "head", !.completing = i,
             !.unsynced = IF store.pending[i] = None THEN "pending" ELSE None]
  BY DEF StageFinalization, Agrees, h
<1>5. "pending" \in Directory /\ "pending" # None
  BY NoDirectory
<1>6. /\ operation' \in Operation
      /\ operation'.at = "head" /\ operation'.completing = i
      /\ operation'.unsynced = IF store.pending[i] = None THEN "pending" ELSE None
      /\ operation'.process = operation.process
      /\ operation'.call = operation.call /\ operation'.intent = operation.intent
      /\ operation'.input = operation.input /\ operation'.todo = operation.todo
  BY <1>2, <1>4, <1>5 DEF TypeOK, Operation, Stage
<1>7. store' \in Store /\ Extends(store', store) /\ store'.pending[i] = h
  BY <1>2, <1>3, <1>4 DEF TypeOK, Store, Extends
<1>8. Asked(operation') /\ Prepared(operation', store')
  BY <1>1, <1>2, <1>3, <1>6, <1>7, TodoStays DEF Asked, Prepared
<1>9. CASE store.pending[i] = h
  <2>1. store' = store
    BY <1>2, <1>4, <1>9 DEF TypeOK, Store
  <2>2. QED
    BY <1>1, <1>3, <1>6, <1>8, <1>9, <2>1, ReadStep DEF StageFinalization, Quiet, TypeOK
<1>10. CASE store.pending[i] = None
  <2>1. Safe => Good(store')
    BY <1>1, <1>2, <1>3, <1>4, <1>10, PendingAdded DEF TypeOK, Safe
  <2>2. disk = store => OneBehind'
    BY <1>2, <1>4, <1>6, <1>7, <1>10 DEF OneBehind, StageFinalization, Quiet, TypeOK, Store
  <2>3. QED
    BY <1>1, <1>5, <1>6, <1>7, <1>8, <1>10, <2>1, <2>2, LinkStep DEF StageFinalization, Quiet
<1>11. QED
  BY <1>4, <1>9, <1>10

LEMMA AdvanceStep == ASSUME TypeOK, Working, AdvanceHead PROVE Stepped
<1> DEFINE i == operation.completing
<1>1. /\ At("head") /\ Asked(operation) /\ Prepared(operation, store)
      /\ i \in Intent /\ store.pending[i] # None
  BY DEF AdvanceHead, At, Working, Asked, Prepared
<1>2. PICK h : h = store.pending[i]
  OBVIOUS
<1>3. h \in HeadRecord /\ Completed = h
  BY <1>1, <1>2 DEF TypeOK, Store, Completed
<1>4. /\ store.heads \in Seq(HeadRecord) /\ Len(store.heads) \in Nat
      /\ h.parent \in Seq(Input)
  BY <1>3, StoreTypes, HeadType DEF TypeOK
<1>5. PICK d \in {"heads", None} :
          /\ Continue("finalization", d)
          /\ \/ /\ d = "heads" /\ h.parent = Digest(store.heads)
                /\ store' = [store EXCEPT !.heads = Append(@, h)]
             \/ /\ d = None /\ Fits(h, store.heads) /\ Position(h) <= Len(store.heads)
                /\ store' = store
  BY <1>3 DEF AdvanceHead
<1>6. "finalization" \in Stage /\ "heads" \in Directory /\ "heads" # None
  BY NoDirectory DEF Stage
<1>7. /\ operation' \in Operation
      /\ operation'.at = "finalization" /\ operation'.unsynced = d
      /\ operation'.process = operation.process /\ operation'.completing = i
      /\ operation'.call = operation.call /\ operation'.intent = operation.intent
      /\ operation'.input = operation.input /\ operation'.todo = operation.todo
  BY <1>5, <1>6, Continued DEF TypeOK
<1>8. CASE d = None
  <2>1. Fits(h, store.heads) /\ Position(h) <= Len(store.heads) /\ store' = store
    BY <1>5, <1>6, <1>8
  <2>2. h.parent # Digest(store.heads)
    BY <1>4, <2>1, DigestType DEF Position
  <2>3. Position(h) \in 1..Len(store.heads) /\ store.heads[Position(h)] = h
    BY <1>4, <2>1, <2>2 DEF Fits, Position
  <2>4. Asked(operation') /\ Prepared(operation', store)
    BY <1>1, <1>2, <1>7, <2>3 DEF Asked, Prepared
  <2>5. QED
    BY <1>1, <1>7, <1>8, <2>1, <2>4, ReadStep DEF AdvanceHead, Quiet, TypeOK
<1>9. CASE d = "heads"
  <2>1. h.parent = Digest(store.heads) /\ store' = [store EXCEPT !.heads = Append(@, h)]
    BY <1>5, <1>6, <1>9
  <2>2. /\ store'.heads = Append(store.heads, h) /\ store'.pending = store.pending
        /\ store'.finalizations = store.finalizations /\ store'.intents = store.intents
    BY <2>1 DEF TypeOK, Store
  <2>3. Append(store.heads, h) \in Seq(HeadRecord)
    BY <1>3, <1>4
  <2>4. store' \in Store /\ Extends(store', store)
    BY <2>1, <2>2, <2>3 DEF TypeOK, Store, Extends
  <2>5. /\ Len(store'.heads) = Len(store.heads) + 1 /\ store'.heads[Len(store'.heads)] = h
        /\ Len(store'.heads) \in 1..Len(store'.heads)
    BY <1>3, <1>4, <2>2
  <2>6. Asked(operation') /\ Prepared(operation', store')
    BY <1>1, <1>2, <1>7, <2>2, <2>5 DEF Asked, Prepared
  <2>7. Safe => Good(store')
    BY <1>1, <1>2, <1>3, <2>1, HeadAdded DEF TypeOK, Safe
  <2>8. disk = store => OneBehind'
    <3>1. store'.heads # <<>>
      BY <1>4, <2>5
    <3>2. QED
      BY <1>7, <1>9, <2>1, <2>5, <3>1 DEF OneBehind, AdvanceHead, Quiet
  <2>9. QED
    BY <1>1, <1>6, <1>7, <1>9, <2>4, <2>6, <2>7, <2>8, LinkStep DEF AdvanceHead, Quiet
<1>10. QED
  BY <1>5, <1>8, <1>9

LEMMA FinalizationStep == ASSUME TypeOK, Working, PublishFinalization PROVE Stepped
<1> DEFINE i == operation.completing
<1>1. /\ At("finalization") /\ Asked(operation) /\ Prepared(operation, store)
      /\ i \in Intent /\ store.pending[i] # None
  BY DEF PublishFinalization, At, Working, Asked, Prepared
<1>2. PICK n \in 1..Len(store.heads) : store.heads[n] = store.pending[i]
  BY <1>1 DEF Prepared, At
<1>3. PICK x \in Input : x = store.pending[i].input
  BY <1>1, StoreTypes DEF TypeOK
<1>4. PICK d \in {"finalizations", None} :
          /\ Continue("anchor", d)
          /\ \/ /\ d = "finalizations" /\ store.finalizations[i] = None
                /\ store' = [store EXCEPT !.finalizations[i] = x]
             \/ d = None /\ store' = store
  BY <1>3 DEF PublishFinalization, Immutable, Completed
<1>5. "anchor" \in Stage /\ "finalizations" \in Directory /\ "finalizations" # None
  BY NoDirectory DEF Stage
<1>6. /\ operation' \in Operation
      /\ operation'.at = "anchor" /\ operation'.unsynced = d
      /\ operation'.process = operation.process
      /\ operation'.call = operation.call /\ operation'.intent = operation.intent
      /\ operation'.input = operation.input /\ operation'.todo = operation.todo
  BY <1>4, <1>5, Continued DEF TypeOK
<1>7. store' \in Store /\ Extends(store', store)
  <2>1. CASE store' = store
    BY <2>1, Itself DEF TypeOK
  <2>2. CASE store.finalizations[i] = None /\ store' = [store EXCEPT !.finalizations[i] = x]
    BY <1>1, <2>2 DEF TypeOK, Store, Extends
  <2>3. QED
    BY <1>4, <2>1, <2>2
<1>8. Asked(operation') /\ Prepared(operation', store')
  BY <1>1, <1>6, <1>7, TodoStays DEF Asked, Prepared
<1>9. CASE d = None
  BY <1>1, <1>4, <1>5, <1>6, <1>8, <1>9, ReadStep DEF PublishFinalization, Quiet, TypeOK
<1>10. CASE d = "finalizations"
  <2>1. store.finalizations[i] = None /\ store' = [store EXCEPT !.finalizations[i] = x]
    BY <1>4, <1>5, <1>10
  <2>2. Safe => Good(store')
    BY <1>1, <1>2, <1>3, <2>1, FinalizationAdded DEF TypeOK, Safe
  <2>3. disk = store => OneBehind'
    BY <1>1, <1>6, <1>10, <2>1 DEF OneBehind, PublishFinalization, Quiet, TypeOK, Store
  <2>4. QED
    BY <1>1, <1>5, <1>6, <1>7, <1>8, <1>10, <2>2, <2>3, LinkStep DEF PublishFinalization, Quiet
<1>11. QED
  BY <1>4, <1>9, <1>10

LEMMA AnchorStep == ASSUME TypeOK, Working, ReconcileAnchor PROVE Stepped
<1>1. At("anchor") /\ Asked(operation) /\ Prepared(operation, store)
  BY DEF ReconcileAnchor, At, Working
<1>2. PICK d \in {"anchor", None} :
          /\ Continue(AfterAnchor, d)
          /\ store' = [store EXCEPT !.anchor = Digest(store.heads)]
          /\ d = None => store.anchor = Digest(store.heads)
  <2>1. CASE store.anchor = Digest(store.heads)
    BY <2>1 DEF ReconcileAnchor
  <2>2. CASE store.anchor # Digest(store.heads)
    BY <2>2, NoDirectory DEF ReconcileAnchor
  <2>3. QED
    BY <2>1, <2>2
<1>3. /\ AfterAnchor \in {"answer", "ready", "recover"} /\ AfterAnchor \in Stage
      /\ "anchor" \in Directory /\ "anchor" # None
  BY NoDirectory DEF AfterAnchor, Stage
<1>4. /\ operation' \in Operation
      /\ operation'.at = AfterAnchor /\ operation'.unsynced = d
      /\ operation'.process = operation.process
      /\ operation'.call = operation.call /\ operation'.intent = operation.intent
      /\ operation'.input = operation.input /\ operation'.todo = operation.todo
  BY <1>2, <1>3, Continued DEF TypeOK
<1>5. store' \in Store /\ Extends(store', store)
  <2>1. Digest(store.heads) \in Seq(Input)
    BY StoreTypes, DigestType DEF TypeOK
  <2>2. QED
    BY <1>2, <2>1 DEF TypeOK, Store, Extends
<1>6. Asked(operation') /\ Prepared(operation', store')
  BY <1>1, <1>3, <1>4, <1>5, TodoStays DEF Asked, Prepared
<1>7. CASE d = None
  <2>1. store' = store
    BY <1>2, <1>7 DEF TypeOK, Store
  <2>2. QED
    BY <1>1, <1>4, <1>6, <1>7, <2>1, ReadStep DEF ReconcileAnchor, Quiet, TypeOK
<1>8. CASE d = "anchor"
  <2>1. Safe => Good(store')
    BY <1>2, AnchorMoved DEF TypeOK, Safe
  <2>2. disk = store => OneBehind'
    BY <1>2, <1>4, <1>8 DEF OneBehind, ReconcileAnchor, Quiet, TypeOK, Store
  <2>3. QED
    BY <1>1, <1>3, <1>4, <1>5, <1>6, <1>8, <2>1, <2>2, LinkStep DEF ReconcileAnchor, Quiet
<1>9. QED
  BY <1>7, <1>8

-----------------------------------------------------------------------------
(* A directory is synced *)

LEMMA SyncType ==
    ASSUME NEW s \in Store, NEW t \in Store, NEW d \in Directory
    PROVE  [s EXCEPT ![d] = t[d]] \in Store
<1>1. CASE d = "intents"
  BY <1>1 DEF Store
<1>2. CASE d = "claims"
  BY <1>2 DEF Store
<1>3. CASE d = "objects"
  BY <1>3 DEF Store
<1>4. CASE d = "pending"
  BY <1>4 DEF Store
<1>5. CASE d = "heads"
  BY <1>5 DEF Store
<1>6. CASE d = "finalizations"
  BY <1>6 DEF Store
<1>7. CASE d = "anchor"
  BY <1>7 DEF Store
<1>8. QED
  BY <1>1, <1>2, <1>3, <1>4, <1>5, <1>6, <1>7 DEF Directory

\* The sync of the directory that was changed brings the disk up to date.
LEMMA SyncWhole ==
    ASSUME TypeOK, disk = store \/ OneBehind, operation.unsynced \in Directory
    PROVE  [disk EXCEPT ![operation.unsynced] = store[operation.unsynced]] = store
<1> USE DEF TypeOK, Store, OneBehind
<1>0. CASE disk = store
  <2>1. \A d \in Directory : [store EXCEPT ![d] = store[d]] = store
    OBVIOUS
  <2>2. QED
    BY <1>0, <2>1
<1>1. CASE operation.unsynced = "intents" /\ ~(disk = store)
  BY <1>1
<1>2. CASE operation.unsynced = "claims" /\ ~(disk = store)
  BY <1>2
<1>3. CASE operation.unsynced = "objects" /\ ~(disk = store)
  BY <1>3
<1>4. CASE operation.unsynced = "pending" /\ ~(disk = store)
  BY <1>4
<1>5. CASE operation.unsynced = "heads" /\ ~(disk = store)
  BY <1>5
<1>6. CASE operation.unsynced = "finalizations" /\ ~(disk = store)
  BY <1>6
<1>7. CASE operation.unsynced = "anchor" /\ ~(disk = store)
  BY <1>7
<1>8. QED
  BY <1>0, <1>1, <1>2, <1>3, <1>4, <1>5, <1>6, <1>7 DEF Directory

LEMMA SyncStep == ASSUME TypeOK, Working, SyncDirectory PROVE Stepped
<1>1. /\ operation.unsynced \in Directory /\ operation' = [operation EXCEPT !.unsynced = None]
      /\ disk' = [disk EXCEPT ![operation.unsynced] = store[operation.unsynced]]
      /\ UNCHANGED <<store, initialized, client, failures>>
  BY DEF SyncDirectory, TypeOK, Operation
<1>2. /\ operation' \in Operation /\ operation'.at = operation.at
      /\ operation'.process = operation.process /\ operation'.completing = operation.completing
      /\ operation'.call = operation.call /\ operation'.intent = operation.intent
      /\ operation'.input = operation.input /\ operation'.todo = operation.todo
      /\ operation'.unsynced = None /\ operation # Idle
  BY <1>1, NoDirectory, IdleType DEF TypeOK, Operation
<1>3. TypeOK'
  BY <1>1, <1>2, SyncType DEF TypeOK, client, failures
<1>4. Working'
  BY <1>1, <1>2 DEF Working, Asked, Prepared
<1>5. ASSUME Safe PROVE Safe'
  <2>1. NothingCutShort => disk' = store
    BY <1>1, <1>5, SyncWhole DEF Safe
  <2>2. Good(store)' /\ Kept(store)' /\ NothingCutShort' = NothingCutShort
    BY <1>1, <1>5 DEF Safe, Kept, client, failures, NothingCutShort
  <2>3. QED
    BY <1>1, <2>1, <2>2 DEF Safe, Kept
<1>6. QED
  BY <1>3, <1>4, <1>5 DEF Stepped

-----------------------------------------------------------------------------
(* Failures *)

LEMMA Cut ==
    ASSUME TypeOK, Working, Throw \/ \E p \in setting.processes : Die(p)
    PROVE  /\ TypeOK' /\ Working' /\ ~NothingCutShort' /\ failed'.crashes = failed.crashes
           /\ Safe => Safe'
<1>1. /\ UNCHANGED <<store, disk, client, setting>> /\ initialized' \subseteq Process
      /\ operation' \in {Idle, operation}
      /\ \/ failed' = [failed EXCEPT !["throws"] = @ + 1]
         \/ failed' = [failed EXCEPT !["deaths"] = @ + 1]
  BY DEF Throw, Die, Endure, TypeOK
<1>2. /\ failed' \in [throws : Nat, deaths : Nat, crashes : Nat]
      /\ failed'.crashes = failed.crashes /\ ~NothingCutShort'
  BY <1>1 DEF TypeOK, NothingCutShort
<1>3. TypeOK' /\ Working'
  BY <1>1, <1>2, IdleType DEF TypeOK, Working, client
<1>4. Safe => Safe'
  BY <1>1, <1>2 DEF Safe, Kept, client
<1>5. QED
  BY <1>2, <1>3, <1>4

LEMMA MixedIsEither ==
    ASSUME NEW S, NEW T, NEW f \in [S -> T], NEW g \in [S -> T], NEW k \in S,
           f = [g EXCEPT ![k] = f[k]], NEW lost \in SUBSET S
    PROVE  [j \in S |-> IF j \in lost THEN g[j] ELSE f[j]] \in {f, g}
<1> DEFINE m == [j \in S |-> IF j \in lost THEN g[j] ELSE f[j]]
<1>1. \A j \in S \ {k} : m[j] = f[j] /\ m[j] = g[j]
  OBVIOUS
<1>2. CASE k \in lost
  BY <1>1, <1>2
<1>3. CASE k \notin lost
  BY <1>1, <1>3
<1>4. QED
  BY <1>2, <1>3

\* What is found of a directory after the loss of the host is of its type.
LEMMA FoundOf ==
    ASSUME NEW d \in {"intents", "claims", "objects", "pending", "finalizations"},
           NEW S, NEW T, store[d] \in [S -> T], disk[d] \in [S -> T],
           NEW m \in Between(d)
    PROVE  m \in [S -> T]
<1>1. DOMAIN store[d] = S
  OBVIOUS
<1>2. PICK lost \in SUBSET S :
          m = [k \in S |-> IF k \in lost THEN disk[d][k] ELSE store[d][k]]
  BY <1>1 DEF Between
<1>3. QED
  BY <1>2

LEMMA SameStore ==
    ASSUME NEW s \in Store, NEW t \in Store,
           s.intents = t.intents, s.claims = t.claims, s.objects = t.objects,
           s.pending = t.pending, s.heads = t.heads, s.finalizations = t.finalizations,
           s.anchor = t.anchor
    PROVE  s = t
<1> DEFINE Fields(r) ==
      [intents |-> r.intents, claims |-> r.claims, objects |-> r.objects, pending |-> r.pending,
       heads |-> r.heads, finalizations |-> r.finalizations, anchor |-> r.anchor]
<1>1. s = Fields(s)
  BY DEF Store
<1>2. t = Fields(t)
  BY DEF Store
<1>3. Fields(s) = Fields(t)
  BY Zenon
<1> HIDE DEF Fields
<1>4. QED
  BY <1>1, <1>2, <1>3, Zenon

\* The directories that are found after the loss of the host.
LEMMA Found ==
    ASSUME TypeOK, store' \in Survivors
    PROVE  /\ store'.intents \in Between("intents") /\ store'.claims \in Between("claims")
           /\ store'.objects \in Between("objects") /\ store'.pending \in Between("pending")
           /\ store'.finalizations \in Between("finalizations")
           /\ store'.anchor \in {disk.anchor, store.anchor}
           /\ \E n \in Len(disk.heads)..Len(store.heads) :
                  store'.heads = SubSeq(store.heads, 1, n)
           /\ store' \in Store
<1>1. PICK r \in Survivors : r = store'
  OBVIOUS
<1>2. /\ r.intents \in Between("intents") /\ r.claims \in Between("claims")
      /\ r.objects \in Between("objects") /\ r.pending \in Between("pending")
      /\ r.finalizations \in Between("finalizations")
      /\ r.anchor \in {disk.anchor, store.anchor}
      /\ \E n \in Len(disk.heads)..Len(store.heads) : r.heads = SubSeq(store.heads, 1, n)
      /\ r = [intents |-> r.intents, claims |-> r.claims, objects |-> r.objects,
              pending |-> r.pending, heads |-> r.heads,
              finalizations |-> r.finalizations, anchor |-> r.anchor]
  BY DEF Survivors
<1>3. /\ r.intents \in [Intent -> Request \cup {Unstated, None}]
      /\ r.claims \in [Intent -> Input \cup {None}]
      /\ r.objects \in [Bundle -> Bundle \cup {None}]
      /\ r.pending \in [Intent -> HeadRecord \cup {None}]
      /\ r.finalizations \in [Intent -> Input \cup {None}]
  <2>1. \A s \in {store, disk} :
            /\ s["intents"] \in [Intent -> Request \cup {Unstated, None}]
            /\ s["claims"] \in [Intent -> Input \cup {None}]
            /\ s["objects"] \in [Bundle -> Bundle \cup {None}]
            /\ s["pending"] \in [Intent -> HeadRecord \cup {None}]
            /\ s["finalizations"] \in [Intent -> Input \cup {None}]
    BY DEF TypeOK, Store
  <2>2. QED
    BY <1>2, <2>1, FoundOf
<1>4. r.heads \in Seq(HeadRecord) /\ r.anchor \in Seq(Input)
  <2>1. /\ store.heads \in Seq(HeadRecord) /\ disk.heads \in Seq(HeadRecord)
        /\ store.anchor \in Seq(Input) /\ disk.anchor \in Seq(Input)
    BY StoreTypes DEF TypeOK
  <2>2. \A n \in Len(disk.heads)..Len(store.heads) : SubSeq(store.heads, 1, n) \in Seq(HeadRecord)
    BY <2>1
  <2>3. QED
    BY <1>2, <2>1, <2>2
<1>5. r \in Store
  BY <1>2, <1>3, <1>4 DEF Store
<1>6. QED
  BY <1>1, <1>2, <1>5

\* The loss of the host leaves a directory as it was if it was synced, and loses
\* at most its last record if it was one record behind.
LEMMA FoundIn ==
    ASSUME TypeOK, store' \in Survivors,
           NEW d \in {"intents", "claims", "objects", "pending", "finalizations"}
    PROVE  /\ store[d] = disk[d] => store'[d] = store[d]
           /\ \A k \in DOMAIN store[d] :
                  store[d] = [disk[d] EXCEPT ![k] = store[d][k]]
                      => store'[d] \in {store[d], disk[d]}
<1>1. PICK m : m = store'[d]
  OBVIOUS
<1>2. /\ store'.intents = store'["intents"] /\ store'.claims = store'["claims"]
      /\ store'.objects = store'["objects"] /\ store'.pending = store'["pending"]
      /\ store'.finalizations = store'["finalizations"]
  OBVIOUS
<1>3. m \in Between(d)
  BY <1>1, <1>2, Found
<1>4. PICK S, T : store[d] \in [S -> T] /\ disk[d] \in [S -> T]
  <2>1. CASE d = "intents"
    BY <2>1 DEF TypeOK, Store
  <2>2. CASE d = "claims"
    BY <2>2 DEF TypeOK, Store
  <2>3. CASE d = "objects"
    BY <2>3 DEF TypeOK, Store
  <2>4. CASE d = "pending"
    BY <2>4 DEF TypeOK, Store
  <2>5. CASE d = "finalizations"
    BY <2>5 DEF TypeOK, Store
  <2>6. QED
    BY <2>1, <2>2, <2>3, <2>4, <2>5
<1>5. DOMAIN store[d] = S
  BY <1>4
<1>6. PICK f, g : f = store[d] /\ g = disk[d]
  OBVIOUS
<1>7. f \in [S -> T] /\ g \in [S -> T]
  BY <1>4, <1>6
<1>8. PICK lost \in SUBSET S : m = [k \in S |-> IF k \in lost THEN g[k] ELSE f[k]]
  BY <1>3, <1>5, <1>6 DEF Between
<1>9. f = g => m = f
  BY <1>7, <1>8
<1>10. ASSUME NEW k \in S, f = [g EXCEPT ![k] = f[k]] PROVE m \in {f, g}
  BY <1>7, <1>8, <1>10, MixedIsEither
<1>11. QED
  BY <1>1, <1>5, <1>6, <1>9, <1>10

\* A disk that is one record behind the store leaves the one or the other.
LEMMA Survivor ==
    ASSUME TypeOK, disk = store \/ OneBehind, store' \in Survivors
    PROVE  store' \in {store, disk}
<1>1. /\ store \in Store /\ disk \in Store /\ store' \in Store
      /\ Len(store.heads) \in Nat /\ Len(disk.heads) \in Nat
      /\ store.heads \in Seq(HeadRecord) /\ disk.heads \in Seq(HeadRecord)
  BY Found, StoreTypes DEF TypeOK
<1>2. PICK n \in Len(disk.heads)..Len(store.heads) : store'.heads = SubSeq(store.heads, 1, n)
  BY Found
<1>3. store.heads = disk.heads => store'.heads = store.heads
  <2>1. ASSUME store.heads = disk.heads PROVE n = Len(store.heads)
    BY <1>1, <2>1
  <2>2. QED
    BY <1>1, <1>2, <2>1, WholePrefix
<1>4. /\ store.anchor = disk.anchor => store'.anchor = store.anchor
      /\ store'.anchor \in {disk.anchor, store.anchor}
  BY Found
<1>5. /\ DOMAIN store["intents"] = Intent /\ DOMAIN store["claims"] = Intent
      /\ DOMAIN store["objects"] = Bundle /\ DOMAIN store["pending"] = Intent
      /\ DOMAIN store["finalizations"] = Intent
  BY <1>1 DEF Store
<1>6. /\ store.intents = disk.intents => store'.intents = store.intents
      /\ store.claims = disk.claims => store'.claims = store.claims
      /\ store.objects = disk.objects => store'.objects = store.objects
      /\ store.pending = disk.pending => store'.pending = store.pending
      /\ store.finalizations = disk.finalizations => store'.finalizations = store.finalizations
  BY FoundIn
<1>7. CASE disk = store
  BY <1>1, <1>3, <1>4, <1>6, <1>7, SameStore
<1>8. CASE \E i \in Intent : store = [disk EXCEPT !.intents[i] = store.intents[i]]
  <2>1. PICK i \in Intent : store = [disk EXCEPT !.intents[i] = store.intents[i]]
    BY <1>8
  <2>2. /\ store.claims = disk.claims /\ store.objects = disk.objects
        /\ store.pending = disk.pending /\ store.heads = disk.heads
        /\ store.finalizations = disk.finalizations /\ store.anchor = disk.anchor
        /\ store["intents"] = [disk["intents"] EXCEPT ![i] = store["intents"][i]]
    BY <1>1, <2>1 DEF Store
  <2>3. store'.intents \in {store.intents, disk.intents}
    BY <1>5, <2>2, FoundIn
  <2>4. QED
    BY <1>1, <1>3, <1>4, <1>6, <2>2, <2>3, SameStore
<1>9. CASE \E i \in Intent : store = [disk EXCEPT !.claims[i] = store.claims[i]]
  <2>1. PICK i \in Intent : store = [disk EXCEPT !.claims[i] = store.claims[i]]
    BY <1>9
  <2>2. /\ store.intents = disk.intents /\ store.objects = disk.objects
        /\ store.pending = disk.pending /\ store.heads = disk.heads
        /\ store.finalizations = disk.finalizations /\ store.anchor = disk.anchor
        /\ store["claims"] = [disk["claims"] EXCEPT ![i] = store["claims"][i]]
    BY <1>1, <2>1 DEF Store
  <2>3. store'.claims \in {store.claims, disk.claims}
    BY <1>5, <2>2, FoundIn
  <2>4. QED
    BY <1>1, <1>3, <1>4, <1>6, <2>2, <2>3, SameStore
<1>10. CASE \E b \in Bundle : store = [disk EXCEPT !.objects[b] = store.objects[b]]
  <2>1. PICK b \in Bundle : store = [disk EXCEPT !.objects[b] = store.objects[b]]
    BY <1>10
  <2>2. /\ store.intents = disk.intents /\ store.claims = disk.claims
        /\ store.pending = disk.pending /\ store.heads = disk.heads
        /\ store.finalizations = disk.finalizations /\ store.anchor = disk.anchor
        /\ store["objects"] = [disk["objects"] EXCEPT ![b] = store["objects"][b]]
    BY <1>1, <2>1 DEF Store
  <2>3. store'.objects \in {store.objects, disk.objects}
    BY <1>5, <2>2, FoundIn
  <2>4. QED
    BY <1>1, <1>3, <1>4, <1>6, <2>2, <2>3, SameStore
<1>11. CASE \E i \in Intent : store = [disk EXCEPT !.pending[i] = store.pending[i]]
  <2>1. PICK i \in Intent : store = [disk EXCEPT !.pending[i] = store.pending[i]]
    BY <1>11
  <2>2. /\ store.intents = disk.intents /\ store.claims = disk.claims
        /\ store.objects = disk.objects /\ store.heads = disk.heads
        /\ store.finalizations = disk.finalizations /\ store.anchor = disk.anchor
        /\ store["pending"] = [disk["pending"] EXCEPT ![i] = store["pending"][i]]
    BY <1>1, <2>1 DEF Store
  <2>3. store'.pending \in {store.pending, disk.pending}
    BY <1>5, <2>2, FoundIn
  <2>4. QED
    BY <1>1, <1>3, <1>4, <1>6, <2>2, <2>3, SameStore
<1>12. CASE \E i \in Intent : store = [disk EXCEPT !.finalizations[i] = store.finalizations[i]]
  <2>1. PICK i \in Intent : store = [disk EXCEPT !.finalizations[i] = store.finalizations[i]]
    BY <1>12
  <2>2. /\ store.intents = disk.intents /\ store.claims = disk.claims
        /\ store.objects = disk.objects /\ store.heads = disk.heads
        /\ store.pending = disk.pending /\ store.anchor = disk.anchor
        /\ store["finalizations"] =
               [disk["finalizations"] EXCEPT ![i] = store["finalizations"][i]]
    BY <1>1, <2>1 DEF Store
  <2>3. store'.finalizations \in {store.finalizations, disk.finalizations}
    BY <1>5, <2>2, FoundIn
  <2>4. QED
    BY <1>1, <1>3, <1>4, <1>6, <2>2, <2>3, SameStore
<1>13. CASE store.heads # <<>> /\
            store = [disk EXCEPT !.heads = Append(@, store.heads[Len(store.heads)])]
  <2>1. PICK h \in HeadRecord : h = store.heads[Len(store.heads)]
    BY <1>1, <1>13
  <2>2. /\ store.intents = disk.intents /\ store.claims = disk.claims
        /\ store.objects = disk.objects /\ store.finalizations = disk.finalizations
        /\ store.pending = disk.pending /\ store.anchor = disk.anchor
        /\ store.heads = Append(disk.heads, h)
    BY <1>1, <1>13, <2>1 DEF Store
  <2>3. n = Len(disk.heads) \/ n = Len(store.heads)
    BY <1>1, <2>1, <2>2
  <2>4. store'.heads \in {store.heads, disk.heads}
    BY <1>1, <1>2, <2>1, <2>2, <2>3, WholePrefix, SamePrefix
  <2>5. QED
    BY <1>1, <1>4, <1>6, <2>2, <2>4, SameStore
<1>14. CASE store = [disk EXCEPT !.anchor = store.anchor]
  <2>1. /\ store.intents = disk.intents /\ store.claims = disk.claims
        /\ store.objects = disk.objects /\ store.finalizations = disk.finalizations
        /\ store.pending = disk.pending /\ store.heads = disk.heads
    BY <1>1, <1>14 DEF Store
  <2>2. QED
    BY <1>1, <1>3, <1>4, <1>6, <2>1, SameStore
<1>15. QED
  BY <1>7, <1>8, <1>9, <1>10, <1>11, <1>12, <1>13, <1>14 DEF OneBehind

LEMMA CrashStep ==
    ASSUME TypeOK, Working, Separate => Safe, HostCrashes
    PROVE  TypeOK' /\ Working' /\ (Separate' => Safe')
<1>1. /\ failed' = [failed EXCEPT !["crashes"] = @ + 1] /\ UNCHANGED <<setting, client>>
      /\ disk' = store' /\ initialized' = {} /\ operation' = Idle /\ store' \in Survivors
  BY DEF HostCrashes, Endure
<1>2. /\ failed' \in [throws : Nat, deaths : Nat, crashes : Nat]
      /\ failed'.crashes # 0
      /\ failed'.throws = failed.throws /\ failed'.deaths = failed.deaths
  BY <1>1 DEF TypeOK
<1>3. TypeOK' /\ Working'
  BY <1>1, <1>2, Found, IdleType DEF TypeOK, Working, client
<1>4. ASSUME Separate' PROVE Safe'
  <2>1. NothingCutShort
    BY <1>2, <1>4 DEF Separate, NothingCutShort
  <2>2. Good(store) /\ Kept(store) /\ Good(disk) /\ Kept(disk) /\ (disk = store \/ OneBehind)
    BY <2>1 DEF Separate, Safe
  <2>3. store' \in {store, disk}
    BY <1>1, <2>2, Survivor
  <2>4. Good(store') /\ Kept(store)'
    BY <1>1, <2>2, <2>3 DEF Kept, client
  <2>5. QED
    BY <1>1, <2>4 DEF Safe, Kept
<1>5. QED
  BY <1>3, <1>4

-----------------------------------------------------------------------------
(* The theorems *)

LEMMA Initially == Init => IInv
<1> SUFFICES ASSUME Init PROVE IInv
  OBVIOUS
<1>1. Provisioned \in Store
  BY DEF Provisioned, Store
<1>2. TypeOK
  BY <1>1, IdleType, SettingsAreSettings DEF Init, TypeOK, State4
<1>3. Working
  BY DEF Init, Working
<1>4. Good(store)
  <2>1. /\ store.heads = <<>> /\ Len(store.heads) = 0 /\ store.anchor = <<>>
        /\ \A i \in Intent : store.pending[i] = None /\ store.finalizations[i] = None
        /\ \A b \in Bundle : store.objects[b] = None
    BY DEF Init, Provisioned
  <2>2. Precedes(store.anchor, store.heads)
    <3>1. SubSeq(<<>>, 1, 0) \in Seq(HeadRecord) /\ Len(SubSeq(<<>>, 1, 0)) = 0
      OBVIOUS
    <3>2. Digest(SubSeq(<<>>, 1, 0)) \in Seq(Input) /\ Len(Digest(SubSeq(<<>>, 1, 0))) = 0
      BY <3>1, DigestType
    <3>3. Digest(SubSeq(<<>>, 1, 0)) = <<>>
      BY <3>2
    <3>4. QED
      BY <2>1, <3>3 DEF Precedes
  <2>3. QED
    BY <2>1, <2>2 DEF Good, ChainGood, HeadsGood, PendingsGood, RecordsGood
<1>5. Kept(store) /\ disk = store
  BY DEF Init, Kept
<1>6. QED
  BY <1>2, <1>3, <1>4, <1>5 DEF IInv, Safe

LEMMA ProceedStep == ASSUME TypeOK, Working, Proceed PROVE Stepped /\ UNCHANGED failures
<1>1. CASE SyncDirectory
  BY <1>1, SyncStep DEF SyncDirectory
<1>2. CASE Open
  BY <1>2, OpenStep DEF Open, Quiet
<1>3. ASSUME NEW i \in Intent, RecoverPending(i) PROVE Stepped /\ UNCHANGED failures
  BY <1>3, RecoverStep DEF RecoverPending, Quiet
<1>4. CASE Verify
  BY <1>4, VerifyStep DEF Verify, Quiet
<1>5. CASE Ready
  BY <1>5, ReadyStep DEF Ready
<1>6. CASE AdvanceHead
  BY <1>6, AdvanceStep DEF AdvanceHead, Quiet
<1>7. CASE PublishFinalization
  BY <1>7, FinalizationStep DEF PublishFinalization, Quiet
<1>8. CASE ReconcileAnchor
  BY <1>8, AnchorStep DEF ReconcileAnchor, Quiet
<1>9. CASE BeginReading
  BY <1>9, BeginReadingStep DEF BeginReading, Quiet
<1>10. CASE ObservePending
  BY <1>10, ObserveStep DEF ObservePending, Quiet
<1>11. CASE PutIntent
  BY <1>11, PutStep DEF PutIntent, Quiet
<1>12. CASE BindIntent
  BY <1>12, BindStep DEF BindIntent, Quiet
<1>13. CASE CheckPrior
  BY <1>13, CheckPriorStep DEF CheckPrior, Quiet
<1>14. CASE Claim
  BY <1>14, ClaimStep DEF Claim, Quiet
<1>15. CASE CommitObject
  BY <1>15, ObjectStep DEF CommitObject, Quiet
<1>16. CASE StageFinalization
  BY <1>16, StageStep DEF StageFinalization, Quiet
<1>17. CASE Answer
  BY <1>17, AnswerStep DEF Answer
<1>18. CASE Refuse
  BY <1>18, RefuseStep DEF Refuse
<1>19. QED
  BY <1>1, <1>2, <1>3, <1>4, <1>5, <1>6, <1>7, <1>8, <1>9, <1>10, <1>11, <1>12, <1>13,
     <1>14, <1>15, <1>16, <1>17, <1>18 DEF Proceed

\* A step that is no failure leaves the failures as they are.
LEMMA KeepsSeparate == ASSUME UNCHANGED failures PROVE Separate' = Separate
  BY DEF failures, Separate, NothingCutShort

LEMMA Preserved == IInv /\ [Next]_vars => IInv'
<1> SUFFICES ASSUME IInv, [Next]_vars PROVE IInv'
  OBVIOUS
<1>0. TypeOK /\ Working /\ (Separate => Safe)
  BY DEF IInv
<1>1. CASE UNCHANGED vars
  <2>1. TypeOK'
    BY <1>0, <1>1 DEF TypeOK, vars, client, failures
  <2>2. Working'
    BY <1>0, <1>1 DEF Working, vars
  <2>3. Safe => Safe'
    BY <1>1 DEF Safe, Kept, OneBehind, NothingCutShort, vars, client, failures
  <2>4. QED
    BY <1>0, <1>1, <2>1, <2>2, <2>3, KeepsSeparate DEF IInv, vars
<1>2. ASSUME NEW p \in setting.processes,
             \/ Initialize(p)
             \/ \E i \in Intent : Get(p, i) \/ Observe(p, i)
             \/ \E i \in Intent, r \in Records : Put(p, i, r)
             \/ \E input \in setting.offered : Finalize(p, input)
      PROVE  IInv'
  <2>1. UNCHANGED failures
    BY <1>2 DEF Initialize, Get, Observe, Put, Finalize, Start
  <2>2. QED
    BY <1>0, <1>2, <2>1, Begins, KeepsSeparate, SMTT(40) DEF IInv, Stepped
<1>3. CASE Proceed
  BY <1>0, <1>3, ProceedStep, KeepsSeparate DEF IInv, Stepped
<1>4. CASE Throw \/ \E p \in setting.processes : Die(p)
  BY <1>0, <1>4, Cut DEF IInv, Separate
<1>5. CASE HostCrashes
  BY <1>0, <1>5, CrashStep DEF IInv
<1>6. QED
  BY <1>1, <1>2, <1>3, <1>4, <1>5 DEF Next

\* What an operation that has the lock has written and read before its stage,
\* and, as long as stops of a process and losses of the host do not meet, how the
\* records of the seven directories vouch for each other, seen and on disk
\* (initialize, put and finalize of calibration-evidence-authority-service.js).
THEOREM Invariant == Spec => []IInv
  BY Initially, Preserved, PTL DEF Spec

\* Every directory holds records of its own kind and the lock is held by one
\* operation of a process, whatever fails.
THEOREM TypeCorrect == Spec => []TypeOK
<1>1. IInv => TypeOK
  BY DEF IInv
<1>2. QED
  BY <1>1, Invariant, PTL

LEMMA Accepted == ASSUME TypeOK, Good(store) PROVE HistoryAccepted
<1>1. DOMAIN store.heads = 1..Len(store.heads)
  BY StoreTypes DEF TypeOK
<1>2. QED
  BY <1>1 DEF Good, ChainGood, HeadsGood, RecordsGood, HistoryAccepted

\* However operations interleave, and whatever cuts them short or loses the
\* host, but not both: every head in the chain is vouched for by its claim and
\* its object and has its finalization, or the transaction that will publish
\* it, and the anchor is not ahead of the chain: a restart accepts the history.
THEOREM HistoryIsAccepted == Spec => [](Separate => HistoryAccepted)
<1>1. IInv => (Separate => HistoryAccepted)
  BY Accepted DEF IInv, Safe
<1>2. QED
  BY <1>1, Invariant, PTL

LEMMA Ranks ==
    /\ Rank("ABSENT") = 1 /\ Rank("INTENT_STORED") = 2
    /\ Rank("FINALIZATION_PENDING") = 3 /\ Rank("FINALIZED") = 4
  BY DEF Rank, Ranked

LEMMA KeptIsKept == ASSUME TypeOK, Kept(store) PROVE ResultsKept
<1> SUFFICES ASSUME NEW i \in Intent
             PROVE  /\ Rank(observed[i]) <= Rank(State(i))
                    /\ released[i] # None => store.finalizations[i] = released[i]
  BY DEF ResultsKept
<1>1. released[i] # None => store.finalizations[i] = released[i]
  BY DEF Kept
<1>2. observed[i] \in State4
  BY DEF TypeOK
<1>3. Rank(observed[i]) <= Rank(State(i))
  <2>1. CASE observed[i] = "ABSENT"
    BY <2>1, Ranks DEF State
  <2>2. CASE observed[i] = "INTENT_STORED"
    BY <2>2, Ranks DEF State, Kept
  <2>3. CASE observed[i] = "FINALIZATION_PENDING"
    BY <2>3, Ranks DEF State, Kept
  <2>4. CASE observed[i] = "FINALIZED"
    BY <2>4, Ranks DEF State, Kept
  <2>5. QED
    BY <1>2, <2>1, <2>2, <2>3, <2>4 DEF State4
<1>4. QED
  BY <1>1, <1>3

\* Under the same condition a result that a client has received is neither lost
\* nor replaced, and no observed state of an intent is taken back.
THEOREM ResultsAreKept == Spec => [](Separate => ResultsKept)
<1>1. IInv => (Separate => ResultsKept)
  BY KeptIsKept DEF IInv, Safe
<1>2. QED
  BY <1>1, Invariant, PTL
=============================================================================
