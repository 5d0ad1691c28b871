---------------------------- MODULE ArchiveProofs ----------------------------
(* The safety invariants of Archive, proved for every value of its constants; *)
(* that it implements RunHistory, and that what its processes know of the     *)
(* chain never accuses an honest archive.                                     *)
EXTENDS Archive, SequenceTheorems, TLAPS

-----------------------------------------------------------------------------
(* The inductive invariant *)

Newest(c) == c[Len(c)].object

\* A process is inside an operation only while it holds the lock.
Locked == \A p \in Proc : pc[p] # "idle" => lock = p

\* What a process has drafted, by where it is.
Drafting == {"stage", "linked", "written", "seal", "journal"}
Finishing == {"privacy", "privacySlot", "purge", "clear"}
DraftAt(p) ==
    /\ pc[p] \in {"idle", "check"} => draft[p] = Nothing
    /\ pc[p] \in Drafting =>
        draft[p] # Nothing /\ draft[p] = Append(slots, Last(draft[p]))
    /\ pc[p] = "journal" => journal = draft[p]
    /\ pc[p] \in Finishing => draft[p] \in {Nothing, journal}
    /\ pc[p] = "cleared" => draft[p] \in {Nothing, slots}
    /\ pc[p] \in {"slot", "return"} => draft[p] # Nothing /\ slots = draft[p]
    /\ pc[p] = "return" => slotsOnDisk = slots
Drafts == \A p \in Proc : DraftAt(p)

\* Where the privacy journal is while a process executes.
Unjournaled == {"check", "stage", "linked", "written", "seal", "slot", "return"}
JournalAt(p) ==
    /\ pc[p] \in Unjournaled => journal = NoJournal /\ journalOnDisk = NoJournal
    /\ pc[p] \in Finishing => journalOnDisk = journal
    /\ pc[p] \in {"privacySlot", "purge", "clear"} =>
        journal # NoJournal /\ slots = journal
    /\ pc[p] \in {"purge", "clear", "cleared"} => slotsOnDisk = slots
    /\ pc[p] = "clear" =>
        /\ entries \subseteq {File(Newest(journal))}
        /\ entriesOnDisk \subseteq {File(Newest(journal))}
    /\ pc[p] = "cleared" => journal = NoJournal
Journals == \A p \in Proc : JournalAt(p)

\* A chain erases more and more; complete evidence has erased nothing, and
\* redacted evidence carries no service state and no analysis.
Redacted(m) == m.object.service = None /\ m.object.analysis = None
WellFormed(c) ==
    /\ \A i \in 1..Len(c) :
        /\ c[i].status = "COMPLETE" => c[i].object.erased = {}
        /\ c[i].status # "COMPLETE" => Redacted(c[i])
    /\ \A i, j \in 1..Len(c) : i <= j => c[i].object.erased \subseteq c[j].object.erased
Chains ==
    /\ WellFormed(slots) /\ WellFormed(journal) /\ WellFormed(journalOnDisk)
    /\ journal # NoJournal => Redacted(Last(journal))
    /\ journalOnDisk # NoJournal => Redacted(Last(journalOnDisk))
    /\ \A p \in Proc : WellFormed(draft[p])
    /\ \A p \in Proc : pc[p] \in Drafting =>
        \/ call[p] = "redact" /\ Redacted(Last(draft[p]))
        \/ call[p] = "publish" /\ Staged(p).erased = {}

\* Nothing stored gives away what the newest generation of c has erased.
Clean(c) ==
    c # Nothing => \A e \in entries \cup entriesOnDisk :
                       Discloses(e.content) \cap Newest(c).erased = {}
Purged == journal = NoJournal \/ journalOnDisk = NoJournal => Clean(slots)

\* Every head a crash can leave behind names an object that is on disk.
Kept(o) == File(o) \in entries /\ File(o) \in entriesOnDisk
Present ==
    /\ \A n \in 1..Len(slots) : Len(slotsOnDisk) <= n => Kept(slots[n].object)
    /\ journal # NoJournal => Kept(Newest(journal))
    /\ journalOnDisk # NoJournal => Kept(Newest(journalOnDisk))
    /\ \A p \in Proc :
        /\ pc[p] \in {"linked", "written"} => File(Staged(p)) \in entries
        /\ pc[p] = "seal" => Kept(Staged(p))

Durable == Extends(slots, slotsOnDisk) /\ Extends(slotsOnDisk, acked)

IInv == /\ TypeOK /\ Locked /\ Drafts /\ Journals /\ Chains /\ Purged
        /\ Present /\ Durable

-----------------------------------------------------------------------------
(* Types *)

LEMMA AppendType ==
    ASSUME NEW S, NEW c \in Seq(S), NEW m \in S
    PROVE  /\ Append(c, m) \in Seq(S)
           /\ Len(Append(c, m)) = Len(c) + 1
           /\ Append(c, m)[Len(c) + 1] = m
           /\ \A i \in 1..Len(c) : Append(c, m)[i] = c[i]
           /\ Append(c, m) # <<>>
  OBVIOUS

LEMMA LastAppend ==
    ASSUME NEW S, NEW c \in Seq(S), NEW m \in S
    PROVE  Append(c, m) # <<>> /\ Last(Append(c, m)) = m
  BY AppendType DEF Last

LEMMA PrefixType ==
    ASSUME NEW S, NEW c \in Seq(S), NEW n \in 0..Len(c)
    PROVE  /\ SubSeq(c, 1, n) \in Seq(S)
           /\ Len(SubSeq(c, 1, n)) = n
           /\ \A i \in 1..n : SubSeq(c, 1, n)[i] = c[i]
  BY SubSeqProperties

LEMMA NewestType ==
    ASSUME NEW S, NEW c \in Seq(S), c # <<>>
    PROVE  Len(c) \in 1..Len(c) /\ c[Len(c)] \in S
  OBVIOUS

LEMMA PublishedType ==
    ASSUME TypeOK, NEW r \in Publication
    PROVE  PublishedManifest(r) \in Manifest
<1>1. r.events \in Seq(Event \cup {Tombstone})
  BY DEF Publication, Bundles
<1>2. InheritedAnalysis(r) \in Analysis \cup {None}
  <2>1. r.analysis \in Analysis \cup {None}
    BY DEF Publication
  <2>2. slots # Nothing => Prior \in Manifest
    BY NewestType DEF Prior, Last, Nothing, TypeOK, Chain
  <2>3. QED
    BY <2>1, <2>2 DEF InheritedAnalysis, Manifest, Object
<1>3. QED
  BY <1>1, <1>2 DEF PublishedManifest, Manifest, Object, Status, Publication

LEMMA RedactedType ==
    ASSUME TypeOK, slots # Nothing, NEW r \in Redaction
    PROVE  RedactedManifest(r) \in Manifest
<1>1. Prior \in Manifest
  BY NewestType DEF Prior, Last, Nothing, TypeOK, Chain
<1>2. Append(Prior.object.events, Tombstone) \in Seq(Event \cup {Tombstone})
  BY <1>1, AppendType DEF Manifest, Object
<1>3. QED
  BY <1>1, <1>2 DEF RedactedManifest, Manifest, Object, Status, Redaction

\* Every step keeps the types, given where drafts are (Drafts).
LEMMA StepType == ASSUME TypeOK, Drafts, Next PROVE TypeOK'
<1> USE DEF TypeOK, Nothing, NoJournal, PC, Call
<1>1. CASE HostCrashes
  <2>1. slots' \in Chain
    <3>1. PICK n \in Len(slotsOnDisk)..Len(slots) : slots' = SubSeq(slots, 1, n)
      BY <1>1 DEF HostCrashes
    <3>2. n \in 0..Len(slots)
      BY DEF Chain
    <3>3. QED
      BY <3>1, <3>2, PrefixType DEF Chain
  <2>2. /\ hostCrashes' \in 0..MaxHostCrashes
        /\ journal' \in Chain
        /\ entries' \in SUBSET Entry
    BY <1>1, BoundsAreNaturals DEF HostCrashes, Survives
  <2>3. QED
    BY <1>1, <2>1, <2>2 DEF HostCrashes, Chain
<1>2. ASSUME NEW p \in Proc,
             Publish(p) \/ Redact(p) \/ Read(p)
      PROVE  TypeOK'
  BY <1>2 DEF Publish, Redact, Read, Acquire, Step, Goto, generationsDir,
     objectsDir, failures
<1>3. ASSUME NEW p \in Proc, FinishPrivacy(p) PROVE TypeOK'
  <2> USE DEF Step, Goto, generationsDir, objectsDir, rootDir, local, failures
  <2>1. CASE SkipPrivacy(p) BY <2>1 DEF SkipPrivacy
  <2>2. CASE LinkRedactedSlot(p) BY <2>2 DEF LinkRedactedSlot
  <2>3. CASE SyncRedactedSlot(p) BY <2>3 DEF SyncRedactedSlot
  <2>4. CASE PurgeEntry(p) BY <2>4 DEF PurgeEntry
  <2>5. CASE SyncPurge(p) BY <2>5 DEF SyncPurge
  <2>6. CASE UnlinkJournal(p) BY <2>6 DEF UnlinkJournal, Chain
  <2>7. CASE SyncCleared(p) BY <2>7 DEF SyncCleared
  <2>8. QED BY <1>3, <2>1, <2>2, <2>3, <2>4, <2>5, <2>6, <2>7 DEF FinishPrivacy
<1>4. ASSUME NEW p \in Proc, NEW m \in Manifest, Stage(p, m) PROVE TypeOK'
  <2>1. Append(slots, m) \in Chain
    BY AppendType DEF Chain
  <2>2. Temporary(m.object) \in Entry
    BY DEF Temporary, Entry, Manifest
  <2>3. QED
    BY <1>4, <2>1, <2>2 DEF Stage, Step, Goto, generationsDir, rootDir, failures
<1>5. ASSUME NEW p \in Proc, StagePublish(p) \/ StageRedact(p) PROVE TypeOK'
  BY <1>4, <1>5, PublishedType, RedactedType
     DEF StagePublish, StageRedact, RedactAdmitted
<1>6. ASSUME NEW p \in Proc, pc[p] \in Drafting
      PROVE  Staged(p) \in Object /\ Last(draft[p]) \in Manifest
  <2>1. draft[p] # Nothing
    BY <1>6 DEF Drafts, DraftAt
  <2>2. draft[p] \in Seq(Manifest)
    BY DEF Chain
  <2>3. Last(draft[p]) \in Manifest
    BY <2>1, <2>2, NewestType DEF Last
  <2>4. QED
    BY <2>3 DEF Staged, Manifest
<1>7. ASSUME NEW p \in Proc,
             LinkObject(p) \/ UnlinkTemporary(p) \/ SyncObject(p)
      PROVE  TypeOK'
  <2>1. pc[p] \in Drafting /\ File(Staged(p)) \in Entry
    BY <1>6, <1>7 DEF LinkObject, UnlinkTemporary, SyncObject, Step, Drafting,
       File, Entry
  <2>2. QED
    BY <1>7, <2>1 DEF LinkObject, UnlinkTemporary, SyncObject, Step, Goto,
       generationsDir, objectsDir, rootDir, failures
<1>8. ASSUME NEW p \in Proc,
             LinkSlot(p) \/ SyncSlot(p) \/ LinkJournal(p) \/ SyncJournal(p)
      PROVE  TypeOK'
  <2>1. pc[p] = "seal" => Append(slots, Last(draft[p])) \in Chain
    BY <1>6, AppendType DEF Chain, Drafting
  <2> USE DEF Step, Goto, generationsDir, objectsDir, rootDir, failures
  <2>2. CASE LinkSlot(p) BY <2>1, <2>2 DEF LinkSlot
  <2>3. CASE SyncSlot(p) BY <2>3 DEF SyncSlot
  <2>4. CASE LinkJournal(p) BY <2>4 DEF LinkJournal
  <2>5. CASE SyncJournal(p) BY <2>5 DEF SyncJournal
  <2>6. QED BY <1>8, <2>2, <2>3, <2>4, <2>5
<1>9. ASSUME NEW p \in Proc,
             \/ Return(p) \/ ReturnHead(p) \/ Refuse(p) \/ Exhausted(p)
      PROVE  TypeOK'
  <2> USE DEF Release, generationsDir, objectsDir, rootDir, failures
  <2>1. <<>> \in Chain
    BY DEF Chain
  <2>2. CASE Return(p) BY <2>1, <2>2 DEF Return
  <2>3. CASE ReturnHead(p) BY <2>1, <2>3 DEF ReturnHead
  <2>4. CASE Refuse(p)
    <3>1. anchor' \in [Proc -> Chain]
      BY <2>4 DEF Refuse, HistoryRead
    <3>2. QED
      BY <2>1, <2>4, <3>1 DEF Refuse
  <2>5. CASE Exhausted(p) BY <2>1, <2>5 DEF Exhausted
  <2>6. QED BY <1>9, <2>2, <2>3, <2>4, <2>5
<1>10. ASSUME NEW p \in Proc, Throw(p) \/ ProcessDies(p) PROVE TypeOK'
  <2>1. faults' \in 0..MaxFaults
    BY <1>10, BoundsAreNaturals DEF Throw, ProcessDies
  <2>2. <<>> \in Chain
    BY DEF Chain
  <2> USE DEF Release, generationsDir, objectsDir, rootDir
  <2>3. CASE Throw(p)
    <3>1. entries' \in SUBSET Entry
      BY <2>3 DEF Throw
    <3>2. anchor' \in [Proc -> Chain]
      BY <2>3 DEF Throw, HistoryRead
    <3>3. QED
      BY <2>1, <2>2, <2>3, <3>1, <3>2 DEF Throw
  <2>4. CASE ProcessDies(p) BY <2>1, <2>2, <2>4 DEF ProcessDies
  <2>5. QED BY <1>10, <2>3, <2>4
<1>11. QED
  BY <1>1, <1>2, <1>3, <1>5, <1>7, <1>8, <1>9, <1>10 DEF Next, Progress

-----------------------------------------------------------------------------
(* Control: the lock, the drafts and the journal *)

\* Steps are taken by the lock holder alone, apart from taking the free lock.
Own(p) ==
    \/ FinishPrivacy(p) \/ StagePublish(p) \/ StageRedact(p)
    \/ LinkObject(p) \/ UnlinkTemporary(p) \/ SyncObject(p)
    \/ LinkSlot(p) \/ SyncSlot(p) \/ LinkJournal(p) \/ SyncJournal(p)

LEMMA OwnStep ==
    ASSUME TypeOK, NEW p \in Proc, Own(p)
    PROVE  /\ pc[p] # "idle"
           /\ lock' = lock
           /\ \A q \in Proc \ {p} : pc'[q] = pc[q] /\ draft'[q] = draft[q]
<1> USE DEF TypeOK, Step, Goto, local
<1>1. CASE FinishPrivacy(p)
  BY <1>1 DEF FinishPrivacy, SkipPrivacy, LinkRedactedSlot, SyncRedactedSlot,
     PurgeEntry, SyncPurge, UnlinkJournal, SyncCleared
<1>2. CASE StagePublish(p) \/ StageRedact(p)
  BY <1>2 DEF StagePublish, StageRedact, Stage
<1>3. CASE LinkObject(p) \/ UnlinkTemporary(p) \/ SyncObject(p)
  BY <1>3 DEF LinkObject, UnlinkTemporary, SyncObject
<1>4. CASE LinkSlot(p) \/ SyncSlot(p) \/ LinkJournal(p) \/ SyncJournal(p)
  BY <1>4 DEF LinkSlot, SyncSlot, LinkJournal, SyncJournal
<1>5. QED BY <1>1, <1>2, <1>3, <1>4 DEF Own

\* Steps that end an operation leave every process's draft empty or as it was.
Ending(p) ==
    \/ Return(p) \/ ReturnHead(p) \/ Refuse(p) \/ Exhausted(p)
    \/ Throw(p) \/ ProcessDies(p)

LEMMA EndingStep ==
    ASSUME TypeOK, NEW p \in Proc, Ending(p)
    PROVE  /\ pc[p] # "idle" /\ Release(p)
           /\ slots' = slots /\ slotsOnDisk' = slotsOnDisk
           /\ journal' = journal /\ journalOnDisk' = journalOnDisk
           /\ entries' \subseteq entries /\ entriesOnDisk' = entriesOnDisk
           /\ \A o : File(o) \in entries => File(o) \in entries'
           /\ acked' = acked \/ (pc[p] = "return" /\ acked' = draft[p])
<1> USE DEF generationsDir, objectsDir, rootDir, File
<1>1. CASE Return(p) BY <1>1 DEF Return
<1>2. CASE ReturnHead(p) BY <1>2 DEF ReturnHead
<1>3. CASE Refuse(p) BY <1>3 DEF Refuse
<1>4. CASE Exhausted(p) BY <1>4 DEF Exhausted
<1>5. CASE Throw(p) BY <1>5 DEF Throw, Temporary
<1>6. CASE ProcessDies(p) BY <1>6 DEF ProcessDies
<1>7. QED BY <1>1, <1>2, <1>3, <1>4, <1>5, <1>6 DEF Ending

LEMMA Steps ==
    ASSUME Next
    PROVE  \/ HostCrashes
           \/ \E p \in Proc : \/ Publish(p) \/ Redact(p) \/ Read(p)
                             \/ Own(p) \/ Ending(p)
  BY DEF Next, Progress, Own, Ending

LEMMA LockedStep == ASSUME TypeOK, Locked, Next PROVE Locked'
<1> USE DEF Locked, TypeOK
<1>1. CASE HostCrashes
  BY <1>1 DEF HostCrashes
<1>2. ASSUME NEW p \in Proc, Publish(p) \/ Redact(p) \/ Read(p) PROVE Locked'
  <2>1. \A q \in Proc : pc[q] = "idle"
    BY <1>2, ConstantsAreDistinct DEF Publish, Redact, Read, Acquire
  <2>2. QED
    BY <1>2, <2>1 DEF Publish, Redact, Read, Acquire, Step, Goto
<1>3. ASSUME NEW p \in Proc, Own(p) PROVE Locked'
  BY <1>3, OwnStep
<1>4. ASSUME NEW p \in Proc, Ending(p) PROVE Locked'
  <2>1. \A q \in Proc \ {p} : pc[q] = "idle"
    BY <1>4, EndingStep
  <2>2. QED
    BY <1>4, <2>1, EndingStep DEF Release
<1>5. QED BY <1>1, <1>2, <1>3, <1>4, Steps

\* An idle process has no draft and asks nothing of the journal, so a step of p
\* keeps Drafts and Journals when it keeps them for p and leaves the rest idle.
LEMMA AtEnough ==
    ASSUME Drafts, NEW p \in Proc, DraftAt(p)', JournalAt(p)',
           \A q \in Proc \ {p} :
               pc[q] = "idle" /\ pc'[q] = "idle" /\ draft'[q] = draft[q]
    PROVE  Drafts' /\ Journals'
<1>1. ASSUME NEW q \in Proc \ {p} PROVE DraftAt(q)' /\ JournalAt(q)'
  BY <1>1 DEF Drafts, DraftAt, JournalAt, Drafting, Finishing, Unjournaled
<1>2. QED
  BY <1>1 DEF Drafts, Journals

LEMMA OwnControl ==
    ASSUME TypeOK, Locked, Drafts, Journals, NEW p \in Proc, Own(p)
    PROVE  DraftAt(p)' /\ JournalAt(p)'
<1> USE DEF TypeOK, Step, Goto, Nothing, NoJournal, DraftAt, JournalAt,
        Drafting, Finishing, Unjournaled, generationsDir, objectsDir, rootDir,
        local
<1>1. DraftAt(p) /\ JournalAt(p)
  BY DEF Drafts, Journals
<1>2. CASE SkipPrivacy(p)
  BY <1>1, <1>2 DEF SkipPrivacy
<1>3. CASE LinkRedactedSlot(p)
  BY <1>1, <1>3 DEF LinkRedactedSlot
<1>4. CASE SyncRedactedSlot(p)
  BY <1>1, <1>4 DEF SyncRedactedSlot
<1>5. CASE PurgeEntry(p)
  BY <1>1, <1>5 DEF PurgeEntry
<1>6. CASE SyncPurge(p)
  BY <1>1, <1>6 DEF SyncPurge, Doomed, Newest, Last
<1>7. CASE UnlinkJournal(p)
  BY <1>1, <1>7 DEF UnlinkJournal
<1>8. CASE SyncCleared(p)
  BY <1>1, <1>8 DEF SyncCleared
<1>9. ASSUME NEW m \in Manifest, Stage(p, m) PROVE DraftAt(p)' /\ JournalAt(p)'
  <2>1. /\ Append(slots, m) # <<>>
        /\ Last(Append(slots, m)) = m
    BY LastAppend DEF Chain
  <2>2. draft'[p] = Append(slots, m) /\ slots' = slots
    BY <1>9 DEF Stage
  <2>3. draft'[p] # <<>> /\ draft'[p] = Append(slots', Last(draft'[p]))
    BY <2>1, <2>2
  <2>4. pc' = [pc EXCEPT ![p] = "stage"] /\ pc[p] = "check"
    BY <1>9 DEF Stage
  <2>5. journal' = journal /\ journalOnDisk' = journalOnDisk
    BY <1>9 DEF Stage
  <2>6. QED
    BY <1>1, <2>3, <2>4, <2>5
<1>10. CASE StagePublish(p) \/ StageRedact(p)
  BY <1>9, <1>10, PublishedType, RedactedType
     DEF StagePublish, StageRedact, RedactAdmitted
<1>11. CASE LinkObject(p)
  BY <1>1, <1>11 DEF LinkObject
<1>12. CASE UnlinkTemporary(p)
  BY <1>1, <1>12 DEF UnlinkTemporary
<1>13. CASE SyncObject(p)
  BY <1>1, <1>13 DEF SyncObject
<1>14. CASE LinkSlot(p)
  BY <1>1, <1>14 DEF LinkSlot
<1>15. CASE SyncSlot(p)
  BY <1>1, <1>15 DEF SyncSlot
<1>16. CASE LinkJournal(p)
  BY <1>1, <1>16 DEF LinkJournal
<1>17. CASE SyncJournal(p)
  BY <1>1, <1>17 DEF SyncJournal
<1>18. QED
  BY <1>2, <1>3, <1>4, <1>5, <1>6, <1>7, <1>8, <1>10, <1>11, <1>12, <1>13,
     <1>14, <1>15, <1>16, <1>17 DEF Own, FinishPrivacy

LEMMA ControlStep ==
    ASSUME TypeOK, Locked, Drafts, Journals, Next
    PROVE  Drafts' /\ Journals'
<1>1. CASE HostCrashes
  BY <1>1 DEF HostCrashes, Drafts, Journals, DraftAt, JournalAt, Drafting,
     Finishing, Unjournaled
<1>2. ASSUME NEW p \in Proc, Publish(p) \/ Redact(p) \/ Read(p)
      PROVE  Drafts' /\ Journals'
  <2>1. \A q \in Proc : pc[q] = "idle"
    BY <1>2, ConstantsAreDistinct DEF Publish, Redact, Read, Acquire, Locked
  <2>2. /\ pc' = [pc EXCEPT ![p] = "privacy"] /\ draft' = draft
        /\ journal' = journal /\ journalOnDisk' = journal
    BY <1>2 DEF Publish, Redact, Read, Acquire, Step, Goto
  <2>3. DraftAt(p)' /\ JournalAt(p)'
    BY <2>1, <2>2 DEF Drafts, DraftAt, JournalAt, Drafting, Finishing,
       Unjournaled, TypeOK
  <2>4. QED
    BY <2>1, <2>2, <2>3, AtEnough DEF TypeOK
<1>3. ASSUME NEW p \in Proc, Own(p) PROVE Drafts' /\ Journals'
  <2>1. \A q \in Proc \ {p} : pc[q] = "idle"
    BY <1>3, OwnStep DEF Locked
  <2>2. QED
    BY <1>3, <2>1, OwnStep, OwnControl, AtEnough
<1>4. ASSUME NEW p \in Proc, Ending(p) PROVE Drafts' /\ Journals'
  <2>1. \A q \in Proc \ {p} : pc[q] = "idle"
    BY <1>4, EndingStep DEF Locked
  <2>2. Release(p)
    BY <1>4, EndingStep
  <2>3. DraftAt(p)' /\ JournalAt(p)'
    BY <2>2 DEF Release, DraftAt, JournalAt, Drafting, Finishing, Unjournaled,
       TypeOK
  <2>4. QED
    BY <2>1, <2>2, <2>3, AtEnough DEF Release, TypeOK
<1>5. QED BY <1>1, <1>2, <1>3, <1>4, Steps

-----------------------------------------------------------------------------
(* Durability: acknowledged generations are on disk *)

LEMMA ExtendsTransitive ==
    ASSUME NEW a \in Chain, NEW b \in Chain, NEW c \in Chain,
           Extends(a, b), Extends(b, c)
    PROVE  Extends(a, c)
  BY DEF Extends, Chain

LEMMA ExtendsReflexive == ASSUME NEW c \in Chain PROVE Extends(c, c)
  BY DEF Extends, Chain

LEMMA ExtendsAppend ==
    ASSUME NEW c \in Chain, NEW m \in Manifest
    PROVE  Extends(Append(c, m), c)
  BY AppendType DEF Extends, Chain

LEMMA ExtendsPrefix ==
    ASSUME NEW c \in Chain, NEW d \in Chain, Extends(c, d),
           NEW n \in Len(d)..Len(c)
    PROVE  SubSeq(c, 1, n) \in Chain /\ Extends(SubSeq(c, 1, n), d)
  BY PrefixType DEF Extends, Chain

\* How one step moves the generations directory.
LEMMA SlotsMove ==
    ASSUME TypeOK, Drafts, Journals, Next
    PROVE  \/ slots' = slots /\ slotsOnDisk' = slotsOnDisk
           \/ slots' = slots /\ slotsOnDisk' = slots
           \/ /\ \E m \in Manifest : slots' = Append(slots, m)
              /\ slotsOnDisk' = slotsOnDisk
           \/ /\ \E n \in Len(slotsOnDisk)..Len(slots) : slots' = SubSeq(slots, 1, n)
              /\ slotsOnDisk' = slots'
<1> USE DEF generationsDir
<1>1. CASE HostCrashes
  BY <1>1 DEF HostCrashes
<1>2. ASSUME NEW p \in Proc, Publish(p) \/ Redact(p) \/ Read(p)
      PROVE  slots' = slots /\ slotsOnDisk' = slotsOnDisk
  BY <1>2 DEF Publish, Redact, Read, Acquire
<1>3. ASSUME NEW p \in Proc, LinkRedactedSlot(p)
      PROVE  /\ slots' = slots \/ \E m \in Manifest : slots' = Append(slots, m)
             /\ slotsOnDisk' = slotsOnDisk
  <2>1. journal \in Seq(Manifest) /\ journal # <<>>
    BY <1>3 DEF LinkRedactedSlot, NoJournal, Nothing, TypeOK, Chain
  <2>2. Last(journal) \in Manifest
    BY <2>1, NewestType DEF Last
  <2>3. QED
    BY <1>3, <2>2 DEF LinkRedactedSlot, JournalFits, Continues
<1>4. ASSUME NEW p \in Proc, LinkSlot(p)
      PROVE  /\ \E m \in Manifest : slots' = Append(slots, m)
             /\ slotsOnDisk' = slotsOnDisk
  <2>1. draft[p] \in Seq(Manifest) /\ draft[p] # <<>>
    BY <1>4 DEF LinkSlot, Step, Drafts, DraftAt, Drafting, Nothing, TypeOK, Chain
  <2>2. Last(draft[p]) \in Manifest
    BY <2>1, NewestType DEF Last
  <2>3. QED
    BY <1>4, <2>2 DEF LinkSlot
<1>5. ASSUME NEW p \in Proc, Own(p), ~LinkRedactedSlot(p), ~LinkSlot(p)
      PROVE  slots' = slots /\ slotsOnDisk' \in {slotsOnDisk, slots}
  BY <1>5 DEF Own, FinishPrivacy, SkipPrivacy, SyncRedactedSlot, PurgeEntry,
     SyncPurge, UnlinkJournal, SyncCleared, StagePublish, StageRedact, Stage,
     LinkObject, UnlinkTemporary, SyncObject, SyncSlot, LinkJournal, SyncJournal
<1>6. ASSUME NEW p \in Proc, Ending(p)
      PROVE  slots' = slots /\ slotsOnDisk' = slotsOnDisk
  BY <1>6, EndingStep
<1>7. QED BY <1>1, <1>2, <1>3, <1>4, <1>5, <1>6, Steps

\* Only Return acknowledges, and it acknowledges what is on disk.
LEMMA AckedMove ==
    ASSUME TypeOK, Drafts, Next
    PROVE  \/ acked' = acked
           \/ acked' = slotsOnDisk /\ slotsOnDisk' = slotsOnDisk
<1>1. CASE HostCrashes
  BY <1>1 DEF HostCrashes
<1>2. ASSUME NEW p \in Proc, Publish(p) \/ Redact(p) \/ Read(p) PROVE acked' = acked
  BY <1>2 DEF Publish, Redact, Read, Acquire
<1>3. ASSUME NEW p \in Proc, Own(p) PROVE acked' = acked
  BY <1>3 DEF Own, FinishPrivacy, SkipPrivacy, LinkRedactedSlot,
     SyncRedactedSlot, PurgeEntry, SyncPurge, UnlinkJournal, SyncCleared,
     StagePublish, StageRedact, Stage, LinkObject, UnlinkTemporary, SyncObject,
     LinkSlot, SyncSlot, LinkJournal, SyncJournal
<1>4. ASSUME NEW p \in Proc, Ending(p)
      PROVE  acked' = acked \/ (acked' = slotsOnDisk /\ slotsOnDisk' = slotsOnDisk)
  BY <1>4, EndingStep DEF Drafts, DraftAt
<1>5. QED BY <1>1, <1>2, <1>3, <1>4, Steps

LEMMA DurableStep ==
    ASSUME TypeOK, Drafts, Journals, Durable, Next
    PROVE  Durable'
<1> USE DEF TypeOK, Durable
<1>1. Extends(slots, slotsOnDisk)' /\ Extends(slotsOnDisk', slotsOnDisk)
  <2>1. CASE slots' = slots /\ slotsOnDisk' \in {slotsOnDisk, slots}
    BY <2>1, ExtendsReflexive
  <2>2. CASE /\ \E m \in Manifest : slots' = Append(slots, m)
             /\ slotsOnDisk' = slotsOnDisk
    <3>1. PICK m \in Manifest : slots' = Append(slots, m)
      BY <2>2
    <3>2. Extends(slots', slots) /\ slots' \in Chain
      BY <3>1, ExtendsAppend, AppendType DEF Chain
    <3>3. QED
      BY <2>2, <3>2, ExtendsTransitive, ExtendsReflexive
  <2>3. CASE /\ \E n \in Len(slotsOnDisk)..Len(slots) : slots' = SubSeq(slots, 1, n)
             /\ slotsOnDisk' = slots'
    BY <2>3, ExtendsPrefix, ExtendsReflexive
  <2>4. QED
    BY <2>1, <2>2, <2>3, SlotsMove
<1>2. TypeOK'
  BY StepType
<1>3. Extends(slotsOnDisk, acked)'
  <2>1. CASE acked' = acked
    BY <1>1, <1>2, <2>1, ExtendsTransitive
  <2>2. CASE acked' = slotsOnDisk /\ slotsOnDisk' = slotsOnDisk
    BY <2>2, ExtendsReflexive
  <2>3. QED
    BY <2>1, <2>2, AckedMove
<1>4. QED BY <1>1, <1>3

-----------------------------------------------------------------------------
(* Content: what the chains erase and carry *)

LEMMA WellFormedEmpty == WellFormed(<<>>)
  BY DEF WellFormed

LEMMA WellFormedPrefix ==
    ASSUME NEW c \in Chain, WellFormed(c), NEW n \in 0..Len(c)
    PROVE  WellFormed(SubSeq(c, 1, n))
  BY PrefixType DEF WellFormed, Chain, Redacted

LEMMA WellFormedAppend ==
    ASSUME NEW c \in Chain, WellFormed(c), NEW m \in Manifest,
           m.status = "COMPLETE" => m.object.erased = {},
           m.status # "COMPLETE" => Redacted(m),
           c # <<>> => Last(c).object.erased \subseteq m.object.erased
    PROVE  WellFormed(Append(c, m))
<1> DEFINE d == Append(c, m)
<1>1. /\ Len(d) = Len(c) + 1 /\ d[Len(c) + 1] = m
      /\ \A i \in 1..Len(c) : d[i] = c[i]
      /\ Len(c) \in Nat
  BY AppendType DEF Chain
<1>2. ASSUME NEW i \in 1..Len(d)
      PROVE  /\ d[i].status = "COMPLETE" => d[i].object.erased = {}
             /\ d[i].status # "COMPLETE" => Redacted(d[i])
  <2>1. i \in 1..Len(c) \/ i = Len(c) + 1
    BY <1>1
  <2>2. QED
    BY <1>1, <2>1 DEF WellFormed, Redacted
<1>3. ASSUME NEW i \in 1..Len(d), NEW j \in 1..Len(d), i <= j
      PROVE  d[i].object.erased \subseteq d[j].object.erased
  <2>1. CASE j \in 1..Len(c)
    BY <1>1, <1>3, <2>1 DEF WellFormed
  <2>2. CASE j = Len(c) + 1 /\ i \in 1..Len(c)
    <3>1. c # <<>> /\ Len(c) \in 1..Len(c) /\ i <= Len(c)
      BY <1>1, <2>2
    <3>2. c[i].object.erased \subseteq c[Len(c)].object.erased
      BY <2>2, <3>1 DEF WellFormed
    <3>3. QED
      BY <1>1, <2>2, <3>1, <3>2 DEF Last
  <2>3. CASE j = Len(c) + 1 /\ i = Len(c) + 1
    BY <1>1, <2>3
  <2>4. QED
    BY <1>1, <2>1, <2>2, <2>3
<1>4. QED
  BY <1>2, <1>3 DEF WellFormed

LEMMA StagedWellFormed ==
    ASSUME TypeOK, Chains, NEW p \in Proc
    PROVE  /\ \A r \in Publication : PublishAdmitted(p, r) =>
                  WellFormed(Append(slots, PublishedManifest(r)))
           /\ \A r \in Redaction : RedactAdmitted(p, r) =>
                  WellFormed(Append(slots, RedactedManifest(r)))
<1>1. slots \in Chain /\ WellFormed(slots)
  BY DEF TypeOK, Chains
<1>2. slots # Nothing => Len(slots) \in 1..Len(slots)
  BY <1>1 DEF Chain, Nothing
<1>3. ASSUME NEW r \in Publication, PublishAdmitted(p, r)
      PROVE  WellFormed(Append(slots, PublishedManifest(r)))
  <2>1. slots # <<>> => Last(slots).object.erased = {}
    BY <1>1, <1>2, <1>3 DEF PublishAdmitted, Prior, Last, Nothing, WellFormed
  <2>2. /\ PublishedManifest(r).status = "COMPLETE"
        /\ PublishedManifest(r).object.erased = {}
    BY DEF PublishedManifest
  <2>3. QED
    BY <1>1, <2>1, <2>2, PublishedType, WellFormedAppend
<1>4. ASSUME NEW r \in Redaction, RedactAdmitted(p, r)
      PROVE  WellFormed(Append(slots, RedactedManifest(r)))
  <2>1. slots # Nothing
    BY <1>4 DEF RedactAdmitted
  <2>2. /\ RedactedManifest(r).status # "COMPLETE"
        /\ Redacted(RedactedManifest(r))
        /\ Last(slots).object.erased \subseteq RedactedManifest(r).object.erased
    BY DEF RedactedManifest, Redacted, Prior
  <2>3. QED
    BY <1>1, <2>1, <2>2, RedactedType, WellFormedAppend
<1>5. QED BY <1>3, <1>4

\* Where the chains of the next state come from.
LEMMA SlotsFrom ==
    ASSUME TypeOK, Drafts, Next
    PROVE  \/ slots' = slots
           \/ slots' = journal /\ journal # NoJournal
           \/ \E p \in Proc : LinkSlot(p) /\ slots' = draft[p]
           \/ \E n \in 0..Len(slots) : slots' = SubSeq(slots, 1, n)
<1> USE DEF generationsDir
<1>1. CASE HostCrashes
  BY <1>1 DEF HostCrashes, TypeOK, Chain
<1>2. ASSUME NEW p \in Proc, Publish(p) \/ Redact(p) \/ Read(p) PROVE slots' = slots
  BY <1>2 DEF Publish, Redact, Read, Acquire
<1>3. ASSUME NEW p \in Proc, LinkRedactedSlot(p)
      PROVE  slots' = journal /\ journal # NoJournal
  BY <1>3 DEF LinkRedactedSlot
<1>4. ASSUME NEW p \in Proc, LinkSlot(p) PROVE slots' = draft[p]
  BY <1>4 DEF LinkSlot, Step, Drafts, DraftAt, Drafting
<1>5. ASSUME NEW p \in Proc, Own(p), ~LinkRedactedSlot(p), ~LinkSlot(p)
      PROVE  slots' = slots
  BY <1>5 DEF Own, FinishPrivacy, SkipPrivacy, SyncRedactedSlot, PurgeEntry,
     SyncPurge, UnlinkJournal, SyncCleared, StagePublish, StageRedact, Stage,
     LinkObject, UnlinkTemporary, SyncObject, SyncSlot, LinkJournal, SyncJournal
<1>6. ASSUME NEW p \in Proc, Ending(p) PROVE slots' = slots
  BY <1>6, EndingStep
<1>7. QED BY <1>1, <1>2, <1>3, <1>4, <1>5, <1>6, Steps

LEMMA JournalFrom ==
    ASSUME TypeOK, Next
    PROVE  /\ \/ journal' \in {NoJournal, journal, journalOnDisk}
              \/ \E p \in Proc : LinkJournal(p) /\ journal' = draft[p]
           /\ journalOnDisk' \in {journalOnDisk, journal}
<1> USE DEF rootDir
<1>1. CASE HostCrashes
  BY <1>1 DEF HostCrashes
<1>2. ASSUME NEW p \in Proc, Publish(p) \/ Redact(p) \/ Read(p)
      PROVE  journal' = journal /\ journalOnDisk' = journal
  BY <1>2 DEF Publish, Redact, Read, Acquire
<1>3. ASSUME NEW p \in Proc, LinkJournal(p)
      PROVE  journal' = draft[p] /\ journalOnDisk' = journalOnDisk
  BY <1>3 DEF LinkJournal
<1>4. ASSUME NEW p \in Proc, Own(p), ~LinkJournal(p)
      PROVE  journal' \in {NoJournal, journal} /\ journalOnDisk' \in {journalOnDisk, journal}
  BY <1>4 DEF Own, FinishPrivacy, SkipPrivacy, LinkRedactedSlot,
     SyncRedactedSlot, PurgeEntry, SyncPurge, UnlinkJournal, SyncCleared,
     StagePublish, StageRedact, Stage, LinkObject, UnlinkTemporary, SyncObject,
     LinkSlot, SyncSlot, SyncJournal
<1>5. ASSUME NEW p \in Proc, Ending(p)
      PROVE  journal' = journal /\ journalOnDisk' = journalOnDisk
  BY <1>5, EndingStep
<1>6. QED BY <1>1, <1>2, <1>3, <1>4, <1>5, Steps

\* A draft is new when it is staged, and stays as it is until it is dropped.
LEMMA DraftFrom ==
    ASSUME TypeOK, Drafts, Next, NEW p \in Proc
    PROVE  \/ draft'[p] = Nothing /\ pc'[p] \notin Drafting
           \/ /\ draft'[p] = draft[p] /\ call'[p] = call[p]
              /\ pc'[p] \in Drafting => pc[p] \in Drafting
           \/ draft'[p] = draft[p] /\ pc'[p] \notin Drafting
           \/ StagePublish(p) \/ StageRedact(p)
<1> USE DEF Drafting, TypeOK, Step, Goto, local, Nothing
<1>1. CASE HostCrashes
  BY <1>1 DEF HostCrashes
<1>2. ASSUME NEW q \in Proc, Publish(q) \/ Redact(q) \/ Read(q)
      PROVE  draft' = draft /\ (q # p => pc'[p] = pc[p] /\ call'[p] = call[p])
             /\ (q = p => pc'[p] \notin Drafting)
  BY <1>2 DEF Publish, Redact, Read, Acquire
<1>3. ASSUME NEW q \in Proc, Own(q), ~StagePublish(q), ~StageRedact(q)
      PROVE  /\ draft' = draft /\ call' = call
             /\ pc'[p] \in Drafting => pc[p] \in Drafting
  BY <1>3 DEF Own, FinishPrivacy, SkipPrivacy, LinkRedactedSlot,
     SyncRedactedSlot, PurgeEntry, SyncPurge, UnlinkJournal, SyncCleared,
     LinkObject, UnlinkTemporary, SyncObject, LinkSlot, SyncSlot, LinkJournal,
     SyncJournal
<1>4. ASSUME NEW q \in Proc, StagePublish(q) \/ StageRedact(q)
      PROVE  /\ call' = call
             /\ q # p => draft'[p] = draft[p] /\ pc'[p] = pc[p]
  BY <1>4 DEF StagePublish, StageRedact, Stage
<1>5. ASSUME NEW q \in Proc, Ending(q)
      PROVE  /\ q # p => draft'[p] = draft[p] /\ pc'[p] = pc[p] /\ call'[p] = call[p]
             /\ q = p => draft'[p] = Nothing /\ pc'[p] \notin Drafting
  BY <1>5, EndingStep DEF Release
<1>6. QED BY <1>1, <1>2, <1>3, <1>4, <1>5, Steps

LEMMA ChainsStep ==
    ASSUME TypeOK, Drafts, Chains, Next
    PROVE  Chains'
<1> USE DEF TypeOK
<1>1. WellFormed(slots)'
  BY SlotsFrom, WellFormedPrefix DEF Chains
<1>2. WellFormed(journal)' /\ WellFormed(journalOnDisk)'
  BY JournalFrom, WellFormedEmpty DEF Chains, NoJournal, Nothing
<1>3. ASSUME NEW p \in Proc, LinkJournal(p), journal' = draft[p]
      PROVE  Redacted(Last(journal'))
  BY <1>3 DEF LinkJournal, Step, Drafting, Chains
<1>4. /\ journal' # NoJournal => Redacted(Last(journal'))
      /\ journalOnDisk' # NoJournal => Redacted(Last(journalOnDisk'))
  BY <1>3, JournalFrom DEF Chains
<1>5. ASSUME NEW p \in Proc
      PROVE  /\ WellFormed(draft'[p])
             /\ pc'[p] \in Drafting =>
                 \/ call'[p] = "redact" /\ Redacted(Last(draft'[p]))
                 \/ call'[p] = "publish" /\ Staged(p)'.erased = {}
  <2>1. CASE StagePublish(p)
    <3>1. PICK r \in Publication : PublishAdmitted(p, r) /\ Stage(p, PublishedManifest(r))
      BY <2>1 DEF StagePublish
    <3>2. draft'[p] = Append(slots, PublishedManifest(r)) /\ call'[p] = "publish"
      BY <2>1, <3>1 DEF StagePublish, Stage
    <3>3. Last(draft'[p]) = PublishedManifest(r)
      BY <3>2, PublishedType, LastAppend DEF Chain
    <3>4. Staged(p)'.erased = {}
      BY <3>3 DEF Staged, PublishedManifest
    <3>5. QED
      BY <3>1, <3>2, <3>4, StagedWellFormed
  <2>2. CASE StageRedact(p)
    <3>1. PICK r \in Redaction : RedactAdmitted(p, r) /\ Stage(p, RedactedManifest(r))
      BY <2>2 DEF StageRedact
    <3>2. /\ draft'[p] = Append(slots, RedactedManifest(r)) /\ slots # Nothing
          /\ call'[p] = "redact"
      BY <2>2, <3>1 DEF Stage, StageRedact, RedactAdmitted
    <3>3. Last(draft'[p]) = RedactedManifest(r)
      BY <3>2, RedactedType, LastAppend DEF Chain
    <3>4. Redacted(RedactedManifest(r))
      BY DEF Redacted, RedactedManifest
    <3>5. QED
      BY <3>1, <3>2, <3>3, <3>4, StagedWellFormed
  <2>3. CASE ~StagePublish(p) /\ ~StageRedact(p)
    BY <2>3, DraftFrom, WellFormedEmpty DEF Chains, Nothing, Staged
  <2>4. QED BY <2>1, <2>2, <2>3
<1>6. QED BY <1>1, <1>2, <1>4, <1>5 DEF Chains

-----------------------------------------------------------------------------
(* Privacy: nothing stored gives away an erased payload *)

\* What is being written gives away nothing the newest generation has erased.
LEMMA DraftHarmless ==
    ASSUME TypeOK, Drafts, Chains, NEW p \in Proc, pc[p] \in Drafting,
           slots # Nothing
    PROVE  Discloses(Staged(p)) \cap Newest(slots).erased = {}
<1> DEFINE d == draft[p]
           n == Len(slots)
<1>1. slots \in Seq(Manifest) /\ d \in Seq(Manifest) /\ d # <<>> /\ slots # <<>>
  BY DEF TypeOK, Chain, Drafts, DraftAt, Nothing
<1>2. Last(d) \in Manifest
  BY <1>1, NewestType DEF Last
<1>3. d = Append(slots, Last(d))
  BY DEF Drafts, DraftAt
<1>4. /\ Len(d) = n + 1 /\ n \in 1..n
      /\ d[n] = slots[n] /\ d[n + 1] = Last(d)
  BY <1>1, <1>2, <1>3, AppendType, NewestType
<1>5. Newest(slots).erased \subseteq Staged(p).erased
  <2>1. d[n].object.erased \subseteq d[n + 1].object.erased
    BY <1>4 DEF Chains, WellFormed
  <2>2. QED
    BY <1>4, <2>1 DEF Newest, Staged
<1>6. CASE Staged(p).erased = {}
  BY <1>5, <1>6
<1>7. CASE Redacted(Last(d))
  BY <1>5, <1>7 DEF Redacted, Staged, Discloses
<1>8. QED
  BY <1>6, <1>7 DEF Chains

\* A redacted object alone gives away nothing that it has erased.
LEMMA RedactedHarmless ==
    ASSUME TypeOK, Chains, journal # NoJournal, slots = journal,
           NEW e \in {File(Newest(journal))}
    PROVE  Discloses(e.content) \cap Newest(slots).erased = {}
  BY DEF Chains, Redacted, Newest, Last, File, Discloses

\* A new file that gives away nothing leaves the archive clean.
LEMMA StillClean ==
    ASSUME Clean(slots), slots' = slots, NEW e,
           entries' \cup entriesOnDisk' \subseteq entries \cup entriesOnDisk \cup {e},
           slots # Nothing => Discloses(e.content) \cap Newest(slots).erased = {}
    PROVE  Clean(slots)'
  BY DEF Clean, Newest

\* An earlier generation has erased less.
LEMMA PrefixClean ==
    ASSUME TypeOK, Chains, Clean(slots), NEW n \in 0..Len(slots),
           slots' = SubSeq(slots, 1, n),
           entries' \cup entriesOnDisk' \subseteq entries \cup entriesOnDisk
    PROVE  Clean(slots)'
<1>1. CASE n = 0
  <2>1. slots' = Nothing
    BY <1>1, PrefixType DEF TypeOK, Chain, Nothing
  <2>2. QED
    BY <2>1 DEF Clean
<1>2. CASE n # 0
  <2>1. slots \in Seq(Manifest)
    BY DEF TypeOK, Chain
  <2>2. n \in 1..Len(slots) /\ Len(slots) \in 1..Len(slots) /\ n <= Len(slots) /\ slots # <<>>
    BY <1>2, <2>1
  <2>3. Newest(slots)' = slots[n].object
    BY <2>1, <2>2, PrefixType DEF Newest
  <2>4. Newest(slots)'.erased \subseteq Newest(slots).erased
    BY <2>2, <2>3 DEF Chains, WellFormed, Newest
  <2>5. QED
    BY <2>2, <2>4 DEF Clean, Nothing, Discloses, Events
<1>3. QED BY <1>1, <1>2

LEMMA OwnPurged ==
    ASSUME TypeOK, Drafts, Journals, Chains, Purged, NEW p \in Proc, Own(p)
    PROVE  Purged'
<1> USE DEF Step, Goto, Purged, generationsDir, objectsDir, rootDir, local
<1>1. DraftAt(p) /\ JournalAt(p)
  BY DEF Drafts, Journals
<1>2. CASE SkipPrivacy(p) \/ SyncRedactedSlot(p) \/ PurgeEntry(p) \/ SyncObject(p)
           \/ UnlinkTemporary(p) \/ SyncSlot(p) \/ SyncPurge(p) \/ SyncCleared(p)
           \/ SyncJournal(p) \/ LinkJournal(p)
  <2>1. /\ slots' = slots
        /\ entries' \cup entriesOnDisk' \subseteq entries \cup entriesOnDisk
    BY <1>2 DEF SkipPrivacy, SyncRedactedSlot, PurgeEntry, SyncPurge, SyncCleared,
       SyncObject, UnlinkTemporary, SyncSlot, SyncJournal, LinkJournal
  <2>2. journal' = NoJournal \/ journalOnDisk' = NoJournal =>
            journal = NoJournal \/ journalOnDisk = NoJournal
    BY <1>1, <1>2 DEF SkipPrivacy, SyncRedactedSlot, PurgeEntry, SyncPurge, SyncCleared,
       SyncObject, UnlinkTemporary, SyncSlot, SyncJournal, LinkJournal, JournalAt,
       Unjournaled
  <2>3. QED
    BY <2>1, <2>2 DEF Clean, Newest
<1>3. CASE LinkRedactedSlot(p)
  BY <1>1, <1>3 DEF LinkRedactedSlot, JournalAt, Finishing
<1>4. CASE UnlinkJournal(p)
  <2>1. /\ slots = journal /\ journal # NoJournal
        /\ entries \cup entriesOnDisk \subseteq {File(Newest(journal))}
        /\ slots' = slots /\ entries' = entries /\ entriesOnDisk' = entriesOnDisk
    BY <1>1, <1>4 DEF UnlinkJournal, JournalAt
  <2>2. Clean(slots)
    BY <2>1, RedactedHarmless DEF Clean
  <2>3. QED
    BY <2>1, <2>2 DEF Clean, Newest
<1>5. CASE StagePublish(p)
  <2>1. PICK r \in Publication : PublishAdmitted(p, r) /\ Stage(p, PublishedManifest(r))
    BY <1>5 DEF StagePublish
  <2>2. slots # Nothing => Newest(slots).erased = {}
    BY <2>1, NewestType
       DEF PublishAdmitted, Prior, Last, Chains, WellFormed, Newest, TypeOK, Chain, Nothing
  <2>3. slots' = slots
    BY <2>1 DEF Stage
  <2>4. QED
    BY <2>2, <2>3 DEF Clean, Newest
<1>6. CASE StageRedact(p)
  <2>1. PICK r \in Redaction : RedactAdmitted(p, r) /\ Stage(p, RedactedManifest(r))
    BY <1>6 DEF StageRedact
  <2> DEFINE e == Temporary(RedactedManifest(r).object)
  <2>2. slots # Nothing => Discloses(e.content) \cap Newest(slots).erased = {}
    BY DEF RedactedManifest, Discloses, Newest, Prior, Last, Temporary
  <2>3. /\ slots' = slots
        /\ entries' \cup entriesOnDisk' \subseteq
               entries \cup entriesOnDisk \cup {e}
    BY <2>1 DEF Stage
  <2>4. Clean(slots)
    BY <1>1, <2>1 DEF Stage, JournalAt, Unjournaled
  <2>5. QED
    BY <2>2, <2>3, <2>4, StillClean
<1>7. CASE LinkObject(p)
  <2> DEFINE e == File(Staged(p))
  <2>1. slots # Nothing => Discloses(e.content) \cap Newest(slots).erased = {}
    BY <1>7, DraftHarmless DEF LinkObject, Drafting, File
  <2>2. /\ slots' = slots
        /\ entries' \cup entriesOnDisk' \subseteq
               entries \cup entriesOnDisk \cup {e}
    BY <1>7 DEF LinkObject
  <2>3. Clean(slots)
    BY <1>1, <1>7 DEF LinkObject, JournalAt, Unjournaled
  <2>4. QED
    BY <2>1, <2>2, <2>3, StillClean
<1>8. CASE LinkSlot(p)
  <2>1. slots' = draft[p] /\ pc[p] \in Drafting /\ call[p] = "publish"
    BY <1>1, <1>8 DEF LinkSlot, DraftAt, Drafting
  <2>2. Newest(draft[p]).erased = {}
    BY <2>1 DEF Chains, Newest, Staged, Last
  <2>3. QED
    BY <2>1, <2>2 DEF Clean, Newest
<1>9. QED
  BY <1>2, <1>3, <1>4, <1>5, <1>6, <1>7, <1>8 DEF Own, FinishPrivacy

LEMMA PurgedStep ==
    ASSUME TypeOK, Drafts, Journals, Chains, Purged, Durable, Next
    PROVE  Purged'
<1>1. CASE HostCrashes
  <2>1. PICK n \in Len(slotsOnDisk)..Len(slots) : slots' = SubSeq(slots, 1, n)
    BY <1>1 DEF HostCrashes
  <2>2. n \in 0..Len(slots)
    BY DEF TypeOK, Chain
  <2>3. /\ entries' \cup entriesOnDisk' \subseteq entries \cup entriesOnDisk
        /\ journal' \in {journal, journalOnDisk} /\ journalOnDisk' = journal'
    BY <1>1 DEF HostCrashes, Survives
  <2>4. QED
    BY <2>1, <2>2, <2>3, PrefixClean DEF Purged
<1>2. ASSUME NEW p \in Proc, Publish(p) \/ Redact(p) \/ Read(p) PROVE Purged'
  <2>1. /\ slots' = slots /\ entries' = entries /\ entriesOnDisk' = entriesOnDisk
        /\ journal' = journal /\ journalOnDisk' = journal
    BY <1>2 DEF Publish, Redact, Read, Acquire, generationsDir, objectsDir
  <2>2. QED
    BY <2>1 DEF Purged, Clean, Newest
<1>3. ASSUME NEW p \in Proc, Own(p) PROVE Purged'
  BY <1>3, OwnPurged
<1>4. ASSUME NEW p \in Proc, Ending(p) PROVE Purged'
  <2>1. /\ slots' = slots /\ entries' \subseteq entries /\ entriesOnDisk' = entriesOnDisk
        /\ journal' = journal /\ journalOnDisk' = journalOnDisk
    BY <1>4, EndingStep
  <2>2. QED
    BY <2>1 DEF Purged, Clean, Newest
<1>5. QED BY <1>1, <1>2, <1>3, <1>4, Steps

-----------------------------------------------------------------------------
(* Presence: what a head names can be loaded *)

\* Only the purge deletes content files, and it spares the redacted object.
LEMMA KeptMove ==
    ASSUME TypeOK, Journals, Next, NEW o, Kept(o),
           (\E p \in Proc : PurgeEntry(p)) => o = Newest(journal)
    PROVE  Kept(o)'
<1> USE DEF Kept, objectsDir
<1>1. CASE HostCrashes
  BY <1>1 DEF HostCrashes, Survives
<1>2. ASSUME NEW p \in Proc, Publish(p) \/ Redact(p) \/ Read(p)
      PROVE  Kept(o)'
  BY <1>2 DEF Publish, Redact, Read, Acquire
<1>3. ASSUME NEW p \in Proc, PurgeEntry(p) PROVE Kept(o)'
  BY <1>3 DEF PurgeEntry, Doomed, Newest, Last
<1>4. ASSUME NEW p \in Proc, Own(p), ~PurgeEntry(p) PROVE Kept(o)'
  BY <1>4 DEF Own, FinishPrivacy, SkipPrivacy, LinkRedactedSlot,
     SyncRedactedSlot, SyncPurge, UnlinkJournal, SyncCleared,
     StagePublish, StageRedact, Stage, LinkObject, UnlinkTemporary, SyncObject,
     LinkSlot, SyncSlot, LinkJournal, SyncJournal, File, Temporary
<1>5. ASSUME NEW p \in Proc, Ending(p) PROVE Kept(o)'
  BY <1>5, EndingStep
<1>6. QED BY <1>1, <1>2, <1>3, <1>4, <1>5, Steps

\* Purging happens when the journal is the newest generation, on disk too.
LEMMA AtPurge ==
    ASSUME Journals, NEW p \in Proc, PurgeEntry(p)
    PROVE  /\ slots = journal /\ slotsOnDisk = journal /\ journalOnDisk = journal
           /\ journal # NoJournal
           /\ slots' = slots /\ slotsOnDisk' = slotsOnDisk
           /\ journal' = journal /\ journalOnDisk' = journalOnDisk
  BY DEF PurgeEntry, Journals, JournalAt, Finishing, generationsDir, rootDir
\* The heads that a crash can leave behind after the step.
HeadsKept == \A n \in 1..Len(slots) : Len(slotsOnDisk) <= n => Kept(slots[n].object)

LEMMA HeadsKeptStep ==
    ASSUME TypeOK, Drafts, Journals, Durable, Present, Next
    PROVE  HeadsKept'
<1> USE DEF generationsDir
<1>1. /\ slots \in Seq(Manifest) /\ slotsOnDisk \in Seq(Manifest)
      /\ Len(slots) \in Nat /\ Len(slotsOnDisk) \in Nat
      /\ Len(slotsOnDisk) <= Len(slots)
  BY DEF TypeOK, Chain, Durable, Extends
<1>2. CASE \E p \in Proc : PurgeEntry(p)
  <2>1. /\ slots = journal /\ slotsOnDisk = journal
        /\ slots' = slots /\ slotsOnDisk' = slotsOnDisk
    BY <1>2, AtPurge
  <2>2. slots # <<>> => Kept(slots[Len(slots)].object)'
    BY <1>1, <2>1, KeptMove DEF Present, Newest, NoJournal, Nothing
  <2>3. QED
    BY <1>1, <2>1, <2>2 DEF HeadsKept, Kept
<1> SUFFICES ASSUME \A p \in Proc : ~PurgeEntry(p)
    PROVE  HeadsKept'
  BY <1>2
<1>3. \A o : Kept(o) => Kept(o)'
  BY KeptMove
<1>4. HeadsKept
  BY DEF HeadsKept, Present
<1>5. CASE slots' = slots /\ slotsOnDisk' \in {slotsOnDisk, slots}
  BY <1>1, <1>3, <1>4, <1>5 DEF HeadsKept, Kept
<1>6. ASSUME NEW m \in Manifest, slots' = Append(slots, m), slotsOnDisk' = slotsOnDisk,
             Kept(m.object)'
      PROVE  HeadsKept'
  <2>1. /\ Len(slots') = Len(slots) + 1 /\ slots'[Len(slots) + 1] = m
        /\ \A i \in 1..Len(slots) : slots'[i] = slots[i]
    BY <1>1, <1>6, AppendType
  <2>2. \A n \in 1..Len(slots') : n \in 1..Len(slots) \/ n = Len(slots) + 1
    BY <1>1, <2>1
  <2>3. QED
    BY <1>3, <1>4, <1>6, <2>1, <2>2 DEF HeadsKept, Kept
<1>7. ASSUME NEW p \in Proc, LinkRedactedSlot(p) PROVE HeadsKept'
  <2>1. journal # <<>> /\ journal \in Seq(Manifest)
    BY <1>7 DEF LinkRedactedSlot, NoJournal, Nothing, TypeOK, Chain
  <2>2. PICK m \in Manifest : m = Last(journal) /\ Kept(m.object)
    BY <2>1, NewestType DEF Present, Newest, Last, NoJournal, Nothing
  <2>3. /\ slots' = slots \/ slots' = Append(slots, m)
        /\ slotsOnDisk' = slotsOnDisk
    BY <1>7, <2>2 DEF LinkRedactedSlot, JournalFits, Continues
  <2>4. QED
    BY <1>3, <1>5, <1>6, <2>2, <2>3
<1>8. ASSUME NEW p \in Proc, LinkSlot(p) PROVE HeadsKept'
  <2>1. draft[p] # <<>> /\ draft[p] \in Seq(Manifest) /\ pc[p] = "seal"
    BY <1>8 DEF LinkSlot, Step, Drafts, DraftAt, Drafting, TypeOK, Chain, Nothing
  <2>2. PICK m \in Manifest : m = Last(draft[p]) /\ Kept(m.object)
    BY <2>1, NewestType DEF Present, Staged, Last
  <2>3. slots' = Append(slots, m) /\ slotsOnDisk' = slotsOnDisk
    BY <1>8, <2>2 DEF LinkSlot
  <2>4. QED
    BY <1>3, <1>6, <2>2, <2>3
<1>9. ASSUME NEW p \in Proc, Own(p), ~LinkRedactedSlot(p), ~LinkSlot(p)
      PROVE  slots' = slots /\ slotsOnDisk' \in {slotsOnDisk, slots}
  BY <1>9 DEF Own, FinishPrivacy, SkipPrivacy, SyncRedactedSlot, PurgeEntry,
     SyncPurge, UnlinkJournal, SyncCleared, StagePublish, StageRedact, Stage,
     LinkObject, UnlinkTemporary, SyncObject, SyncSlot, LinkJournal, SyncJournal
<1>10. ASSUME NEW p \in Proc,
              Publish(p) \/ Redact(p) \/ Read(p) \/ Ending(p)
      PROVE  slots' = slots /\ slotsOnDisk' = slotsOnDisk
  BY <1>10, EndingStep DEF Publish, Redact, Read, Acquire
<1>11. CASE HostCrashes
  <2>1. PICK n \in Len(slotsOnDisk)..Len(slots) :
            slots' = SubSeq(slots, 1, n) /\ slotsOnDisk' = slots'
    BY <1>11 DEF HostCrashes
  <2>2. /\ Len(slots') = n /\ Len(slotsOnDisk') = n /\ n \in 0..Len(slots)
        /\ \A i \in 1..n : slots'[i] = slots[i]
    BY <1>1, <2>1, PrefixType
  <2>3. n \in 1..Len(slots) => Kept(slots[n].object)'
    BY <1>1, <1>3, <1>4, <2>1 DEF HeadsKept
  <2>4. \A i \in 1..n : n <= i => i = n
    BY <2>2
  <2>5. QED
    BY <2>2, <2>3, <2>4 DEF HeadsKept, Kept
<1>12. QED
  BY <1>5, <1>7, <1>8, <1>9, <1>10, <1>11, Steps

LEMMA PresentStep ==
    ASSUME TypeOK, Locked, Drafts, Journals, Durable, Present, Next
    PROVE  Present'
<1>1. HeadsKept'
  BY HeadsKeptStep
<1>2. /\ journal' # NoJournal => Kept(Newest(journal))'
      /\ journalOnDisk' # NoJournal => Kept(Newest(journalOnDisk))'
  <2>1. CASE \E p \in Proc : PurgeEntry(p)
    BY <2>1, AtPurge, KeptMove DEF Present, Newest
  <2>2. CASE \A p \in Proc : ~PurgeEntry(p)
    <3>1. \A o : Kept(o) => Kept(o)'
      BY <2>2, KeptMove
    <3>2. \A p \in Proc : LinkJournal(p) => Kept(Newest(draft[p]))
      BY DEF LinkJournal, Step, Present, Staged, Newest, Last
    <3>3. QED
      BY <3>1, <3>2, JournalFrom DEF Present, Newest, Kept
  <2>3. QED
    BY <2>1, <2>2
<1>3. ASSUME NEW p \in Proc
      PROVE  /\ pc'[p] \in {"linked", "written"} => File(Staged(p))' \in entries'
             /\ pc'[p] = "seal" => Kept(Staged(p))'
  <2> USE DEF TypeOK
  <2>1. CASE HostCrashes
    BY <2>1 DEF HostCrashes
  <2>2. ASSUME NEW q \in Proc, Publish(q) \/ Redact(q) \/ Read(q)
        PROVE  pc'[p] \notin {"linked", "written", "seal"}
    <3>1. pc[p] = "idle"
      BY <2>2, ConstantsAreDistinct DEF Publish, Redact, Read, Acquire, Locked
    <3>2. QED
      BY <2>2, <3>1 DEF Publish, Redact, Read, Acquire, Step, Goto
  <2>3. ASSUME NEW q \in Proc, Ending(q)
        PROVE  pc'[p] \notin {"linked", "written", "seal"}
    BY <2>3, EndingStep DEF Release, Locked
  <2>4. ASSUME NEW q \in Proc, Own(q), q # p
        PROVE  pc'[p] \notin {"linked", "written", "seal"}
    BY <2>4, OwnStep DEF Locked
  <2> USE DEF Step, Goto, generationsDir, objectsDir, rootDir, local, Staged
  <2>5. CASE LinkObject(p)
    BY <2>5 DEF LinkObject
  <2>6. CASE UnlinkTemporary(p)
    BY <2>6 DEF UnlinkTemporary, Present, File, Temporary
  <2>7. CASE SyncObject(p)
    BY <2>7 DEF SyncObject, Present, Kept
  <2>8. CASE StagePublish(p) \/ StageRedact(p)
    BY <2>8 DEF StagePublish, StageRedact, Stage
  <2>9. CASE LinkSlot(p) \/ SyncSlot(p) \/ LinkJournal(p) \/ SyncJournal(p)
    BY <2>9 DEF LinkSlot, SyncSlot, LinkJournal, SyncJournal
  <2>10. CASE FinishPrivacy(p)
    BY <2>10 DEF FinishPrivacy, SkipPrivacy, LinkRedactedSlot, SyncRedactedSlot,
       PurgeEntry, SyncPurge, UnlinkJournal, SyncCleared
  <2>11. QED
    BY <2>1, <2>2, <2>3, <2>4, <2>5, <2>6, <2>7, <2>8, <2>9, <2>10, Steps DEF Own
<1>4. QED
  BY <1>1, <1>2, <1>3 DEF Present, HeadsKept

-----------------------------------------------------------------------------
(* The theorems *)

LEMMA Initially == Init => IInv
<1> SUFFICES ASSUME Init PROVE IInv
  OBVIOUS
<1> USE DEF Init, Nothing, NoJournal
<1>1. TypeOK
  BY BoundsAreNaturals DEF TypeOK, Chain, PC, Call
<1>2. Locked /\ Drafts /\ Journals
  BY DEF Locked, Drafts, DraftAt, Journals, JournalAt, Drafting, Finishing, Unjournaled
<1>3. Chains
  BY WellFormedEmpty DEF Chains, Drafting
<1>4. Purged /\ Present
  BY DEF Purged, Clean, Present
<1>5. Durable
  BY DEF Durable, Extends
<1>6. QED BY <1>1, <1>2, <1>3, <1>4, <1>5 DEF IInv

LEMMA Preserved == IInv /\ [Next]_vars => IInv'
<1> SUFFICES ASSUME IInv, [Next]_vars PROVE IInv'
  OBVIOUS
<1>1. CASE Next
  BY <1>1, StepType, LockedStep, ControlStep, ChainsStep, PurgedStep, PresentStep,
     DurableStep DEF IInv
<1>2. CASE UNCHANGED vars
  <2> USE <1>2 DEF IInv, vars, generationsDir, objectsDir, rootDir, local, failures
  <2>1. TypeOK'
    BY DEF TypeOK
  <2>2. Locked' /\ Drafts' /\ Journals'
    BY DEF Locked, Drafts, DraftAt, Journals, JournalAt
  <2>3. Chains'
    BY DEF Chains, Staged
  <2>4. Purged' /\ Durable'
    BY DEF Purged, Clean, Durable
  <2>5. Present'
    BY DEF Present, Kept, Staged
  <2>6. QED
    BY <2>1, <2>2, <2>3, <2>4, <2>5
<1>3. QED BY <1>1, <1>2

\* Every reachable state satisfies the inductive invariant.
THEOREM Invariant == Spec => []IInv
  BY Initially, Preserved, PTL DEF Spec

\* The files, the processes' memory and the bounds keep their types.
THEOREM TypeCorrect == Spec => []TypeOK
<1>1. IInv => TypeOK
  BY DEF IInv
<1>2. QED BY <1>1, Invariant, PTL

\* Whatever publish or redact returned survives every crash: immutable() and
\* #finishPrivacy sync the generations directory before the call returns.
THEOREM AcknowledgedIsDurable == Spec => []AckedDurable
<1>1. IInv => AckedDurable
  BY DEF IInv, Durable, AckedDurable
<1>2. QED BY <1>1, Invariant, PTL

\* After #finishPrivacy nothing in the object directory repeats an erased
\* payload, whichever operations and crashes came before.
THEOREM ErasedIsGone == Spec => []PrivacyPurged
<1>1. IInv => PrivacyPurged
  BY DEF IInv, Purged, Clean, PrivacyPurged, Newest, Prior, Last
<1>2. QED BY <1>1, Invariant, PTL

\* The newest generation's object can be loaded in every state that publish,
\* redact, #finishPrivacy and their crashes lead to.
THEOREM HeadIsReadable == Spec => []HeadReadable
<1>1. IInv => HeadReadable
  <2>1. IInv /\ slots # Nothing => Len(slots) \in 1..Len(slots) /\ Len(slotsOnDisk) <= Len(slots)
    BY DEF IInv, TypeOK, Chain, Nothing, Durable, Extends
  <2>2. QED
    BY <2>1 DEF IInv, Present, Kept, HeadReadable, PriorIsReadable, Readable, Prior, Last
<1>2. QED BY <1>1, Invariant, PTL

-----------------------------------------------------------------------------
(* Whole histories: the inductive invariant, beside IInv *)

\* How the evidence of one generation continues that of the one before.
Published(m) == m.status = "COMPLETE" /\ m.object.erased = {}
ContinuesEvidence(m, n) ==
    /\ m.status = "COMPLETE"
    /\ Extends(n.object.events, m.object.events)
    /\ m.object.analysis \in {None, n.object.analysis}
RedactsEvidence(m, n) ==
    /\ n.status = "REPLAY_INCOMPLETE_REDACTED"
    /\ n.object.events = Append(m.object.events, Tombstone)
    /\ n.object.erased \subseteq Events(m.object.events)
    /\ m.object.erased \subseteq n.object.erased
    /\ m.object.erased # n.object.erased
    /\ Redacted(n)
Follows(m, n) ==
    (Published(n) /\ ContinuesEvidence(m, n)) \/ RedactsEvidence(m, n)

\* Every chain that is stored or drafted has a history behind it.
Lawful(c) ==
    /\ c # <<>> => Published(c[1])
    /\ \A i \in 1..Len(c) : c[i].object.erased \subseteq Events(c[i].object.events)
    /\ \A i \in 1..Len(c) : i + 1 \in 1..Len(c) => Follows(c[i], c[i + 1])
AllLawful ==
    /\ Lawful(slots) /\ Lawful(journal) /\ Lawful(journalOnDisk)
    /\ \A p \in Proc : Lawful(draft[p])

\* Before the first loss of the host a journal continues the newest generation.
JournalContinues == journal # NoJournal /\ hostCrashes = 0 => Continues(journal)

HInv == IInv /\ AllLawful /\ JournalContinues /\ AnchorsHonest

-----------------------------------------------------------------------------
(* Lawful chains *)

LEMMA LawfulEmpty == Lawful(<<>>)
  BY DEF Lawful

LEMMA LawfulPrefix ==
    ASSUME NEW c \in Chain, Lawful(c), NEW n \in 0..Len(c)
    PROVE  Lawful(SubSeq(c, 1, n))
<1> DEFINE d == SubSeq(c, 1, n)
<1>1. Len(d) = n /\ (\A i \in 1..n : d[i] = c[i]) /\ Len(c) \in Nat
  BY PrefixType DEF Chain
<1>2. d # <<>> => n \in 1..n /\ 1 \in 1..n /\ c # <<>>
  BY <1>1
<1> HIDE DEF d
<1>3. d # <<>> => Published(d[1])
  BY <1>1, <1>2 DEF Lawful
<1>4. \A i \in 1..Len(d) : d[i].object.erased \subseteq Events(d[i].object.events)
  BY <1>1 DEF Lawful
<1>5. \A i \in 1..Len(d) : i + 1 \in 1..Len(d) => Follows(d[i], d[i + 1])
  BY <1>1 DEF Lawful
<1>6. Lawful(d)
  BY <1>3, <1>4, <1>5 DEF Lawful
<1>7. QED BY <1>6 DEF d

LEMMA LawfulAppend ==
    ASSUME NEW c \in Chain, Lawful(c), NEW m \in Manifest,
           m.object.erased \subseteq Events(m.object.events),
           c = <<>> => Published(m),
           c # <<>> => Follows(Last(c), m)
    PROVE  Lawful(Append(c, m))
<1> DEFINE d == Append(c, m)
<1>1. /\ Len(d) = Len(c) + 1 /\ d[Len(c) + 1] = m
      /\ \A i \in 1..Len(c) : d[i] = c[i]
      /\ Len(c) \in Nat /\ (c = <<>> <=> Len(c) = 0)
  BY AppendType DEF Chain
<1> HIDE DEF d
<1>2. Published(d[1])
  BY <1>1 DEF Lawful
<1>3. ASSUME NEW i \in 1..Len(d)
      PROVE  /\ d[i].object.erased \subseteq Events(d[i].object.events)
             /\ i + 1 \in 1..Len(d) => Follows(d[i], d[i + 1])
  <2>1. CASE i \in 1..Len(c) /\ i + 1 \in 1..Len(c)
    BY <1>1, <2>1 DEF Lawful
  <2>2. CASE i = Len(c) /\ Len(c) # 0
    BY <1>1, <2>2 DEF Lawful, Last
  <2>3. CASE i = Len(c) + 1
    BY <1>1, <2>3
  <2>4. QED
    BY <1>1, <2>1, <2>2, <2>3
<1>4. Lawful(d)
  BY <1>2, <1>3 DEF Lawful
<1>5. QED BY <1>4 DEF d

LEMMA StagedLawful ==
    ASSUME TypeOK, Chains, Lawful(slots), NEW p \in Proc
    PROVE  /\ \A r \in Publication : PublishAdmitted(p, r) =>
                  Lawful(Append(slots, PublishedManifest(r)))
           /\ \A r \in Redaction : RedactAdmitted(p, r) =>
                  Lawful(Append(slots, RedactedManifest(r)))
<1>1. slots \in Chain
  BY DEF TypeOK
<1>2. slots # <<>> => Len(slots) \in 1..Len(slots) /\ Prior \in Manifest
  BY <1>1, NewestType DEF Chain, Prior, Last
<1>3. ASSUME NEW r \in Publication, PublishAdmitted(p, r)
      PROVE  Lawful(Append(slots, PublishedManifest(r)))
  <2> DEFINE m == PublishedManifest(r)
  <2>1. /\ Published(m) /\ m.object.events = r.events
        /\ m.object.erased = {} /\ m.object.analysis = InheritedAnalysis(r)
    BY DEF PublishedManifest, Published
  <2>2. slots # <<>> => ContinuesEvidence(Prior, m)
    BY <1>3, <2>1 DEF PublishAdmitted, ContinuesEvidence, InheritedAnalysis, Nothing
  <2>3. QED
    BY <1>1, <2>1, <2>2, PublishedType, LawfulAppend DEF Follows, Prior
<1>4. ASSUME NEW r \in Redaction, RedactAdmitted(p, r)
      PROVE  Lawful(Append(slots, RedactedManifest(r)))
  <2> DEFINE m == RedactedManifest(r)
             o == Prior.object
  <2>1. /\ m.status = "REPLAY_INCOMPLETE_REDACTED" /\ Redacted(m)
        /\ m.object.events = Append(o.events, Tombstone)
        /\ m.object.erased = o.erased \cup r.erase
    BY DEF RedactedManifest, Redacted
  <2>2. /\ slots # <<>> /\ r.erase # {}
        /\ r.erase \subseteq Events(o.events) \ o.erased
    BY <1>4 DEF RedactAdmitted, Redaction, Nothing
  <2>3. o.erased \subseteq Events(o.events)
    BY <1>2, <2>2 DEF Lawful, Prior, Last
  <2>4. o.events \in Seq(Event \cup {Tombstone})
    BY <1>2, <2>2 DEF Manifest, Object
  <2>5. Events(o.events) \subseteq Events(Append(o.events, Tombstone))
    <3>1. \A i \in 1..Len(o.events) :
            /\ Append(o.events, Tombstone)[i] = o.events[i]
            /\ i \in 1..Len(Append(o.events, Tombstone))
      BY <2>4, AppendType
    <3>2. QED
      BY <3>1 DEF Events
  <2>6. RedactsEvidence(Prior, m) /\ m.object.erased \subseteq Events(m.object.events)
    BY <2>1, <2>2, <2>3, <2>5 DEF RedactsEvidence
  <2>7. QED
    BY <1>1, <2>2, <2>6, RedactedType, LawfulAppend DEF Follows, Prior, Nothing
<1>5. QED BY <1>3, <1>4

LEMMA LawfulStep ==
    ASSUME TypeOK, Drafts, Chains, AllLawful, Next
    PROVE  AllLawful'
<1> USE DEF TypeOK
<1>1. Lawful(slots)'
  BY SlotsFrom, LawfulPrefix DEF AllLawful
<1>2. Lawful(journal)' /\ Lawful(journalOnDisk)'
  BY JournalFrom, LawfulEmpty DEF AllLawful, NoJournal, Nothing
<1>3. ASSUME NEW p \in Proc PROVE Lawful(draft'[p])
  <2>1. CASE StagePublish(p)
    BY <2>1, StagedLawful DEF StagePublish, Stage, AllLawful
  <2>2. CASE StageRedact(p)
    BY <2>2, StagedLawful DEF StageRedact, Stage, AllLawful
  <2>3. CASE ~StagePublish(p) /\ ~StageRedact(p)
    BY <2>3, DraftFrom, LawfulEmpty DEF AllLawful, Nothing
  <2>4. QED BY <2>1, <2>2, <2>3
<1>4. QED BY <1>1, <1>2, <1>3 DEF AllLawful

-----------------------------------------------------------------------------
(* The pending journal and the rollback anchors *)

LEMMA JournalContinuesStep ==
    ASSUME TypeOK, Drafts, Journals, JournalContinues, Next
    PROVE  JournalContinues'
<1> USE DEF JournalContinues, TypeOK, Continues, generationsDir, rootDir, failures,
        NoJournal, Nothing
<1>1. CASE HostCrashes
  BY <1>1, BoundsAreNaturals DEF HostCrashes
<1>2. ASSUME NEW p \in Proc, Publish(p) \/ Redact(p) \/ Read(p)
      PROVE  JournalContinues'
  BY <1>2 DEF Publish, Redact, Read, Acquire
<1>3. ASSUME NEW p \in Proc, LinkJournal(p) PROVE JournalContinues'
  <2>1. draft[p] = Append(slots, Last(draft[p]))
    BY <1>3 DEF LinkJournal, Step, Drafts, DraftAt, Drafting
  <2>2. QED
    BY <1>3, <2>1 DEF LinkJournal
<1>4. ASSUME NEW p \in Proc, LinkRedactedSlot(p) \/ LinkSlot(p)
             \/ UnlinkJournal(p)
      PROVE  JournalContinues'
  BY <1>4 DEF LinkRedactedSlot, LinkSlot, UnlinkJournal
<1>5. ASSUME NEW p \in Proc, Own(p), ~LinkJournal(p), ~LinkRedactedSlot(p),
             ~LinkSlot(p), ~UnlinkJournal(p)
      PROVE  slots' = slots /\ journal' = journal /\ hostCrashes' = hostCrashes
  BY <1>5 DEF Own, FinishPrivacy, SkipPrivacy, SyncRedactedSlot, PurgeEntry,
     SyncPurge, SyncCleared, StagePublish, StageRedact, Stage, LinkObject,
     UnlinkTemporary, SyncObject, SyncSlot, SyncJournal
<1>6. ASSUME NEW p \in Proc, Ending(p)
      PROVE  slots' = slots /\ journal' = journal /\ hostCrashes' = hostCrashes
  BY <1>6, EndingStep DEF Ending, Return, ReturnHead, Refuse, Exhausted, Throw, ProcessDies
<1>7. QED BY <1>1, <1>2, <1>3, <1>4, <1>5, <1>6, Steps

\* An anchor is what it was, nothing, or the newest head when it was read.
LEMMA AnchorFrom ==
    ASSUME TypeOK, Next, NEW q \in Proc
    PROVE  \/ anchor'[q] = anchor[q] /\ ~HostCrashes
           \/ anchor'[q] = Nothing
           \/ anchor'[q] = slots /\ ~HostCrashes
<1> USE DEF TypeOK
<1>1. CASE HostCrashes
  BY <1>1 DEF HostCrashes
<1>2. ASSUME NEW p \in Proc, Publish(p) \/ Redact(p) \/ Read(p)
      PROVE  anchor' = anchor
  BY <1>2 DEF Publish, Redact, Read, Acquire
<1>3. ASSUME NEW p \in Proc, Own(p)
      PROVE  anchor' \in {anchor, [anchor EXCEPT ![p] = slots]}
  BY <1>3 DEF Own, FinishPrivacy, SkipPrivacy, LinkRedactedSlot,
     SyncRedactedSlot, PurgeEntry, SyncPurge, UnlinkJournal, SyncCleared,
     StagePublish, StageRedact, Stage, LinkObject, UnlinkTemporary, SyncObject,
     LinkSlot, SyncSlot, LinkJournal, SyncJournal
<1>4. ASSUME NEW p \in Proc, Ending(p)
      PROVE  anchor' \in {anchor, [anchor EXCEPT ![p] = slots],
                          [anchor EXCEPT ![p] = Nothing]}
  BY <1>4 DEF Ending, Return, ReturnHead, Refuse, Exhausted, Throw, ProcessDies,
     HistoryRead
<1>5. CASE ~HostCrashes
  BY <1>2, <1>3, <1>4, <1>5, Steps
<1>6. QED BY <1>1, <1>5

\* Short of the loss of the host the chain only grows, by one generation.
LEMMA SlotsGrow ==
    ASSUME TypeOK, Drafts, Next, ~HostCrashes
    PROVE  slots' = slots \/ \E m \in Manifest : slots' = Append(slots, m)
<1> USE DEF TypeOK
<1>1. ASSUME NEW p \in Proc, Publish(p) \/ Redact(p) \/ Read(p) \/ Ending(p)
      PROVE  slots' = slots
  BY <1>1, EndingStep DEF Publish, Redact, Read, Acquire, generationsDir
<1>2. ASSUME NEW p \in Proc, Own(p), ~LinkRedactedSlot(p), ~LinkSlot(p)
      PROVE  slots' = slots
  BY <1>2 DEF Own, FinishPrivacy, SkipPrivacy, SyncRedactedSlot, PurgeEntry,
     SyncPurge, UnlinkJournal, SyncCleared, StagePublish, StageRedact, Stage,
     LinkObject, UnlinkTemporary, SyncObject, SyncSlot, LinkJournal, SyncJournal,
     generationsDir
<1>3. ASSUME NEW p \in Proc, LinkRedactedSlot(p)
      PROVE  slots' = slots \/ \E m \in Manifest : slots' = Append(slots, m)
  <2>1. journal \in Seq(Manifest) /\ journal # <<>>
    BY <1>3 DEF LinkRedactedSlot, NoJournal, Nothing, Chain
  <2>2. Last(journal) \in Manifest
    BY <2>1, NewestType DEF Last
  <2>3. QED
    BY <1>3, <2>2 DEF LinkRedactedSlot, JournalFits, Continues
<1>4. ASSUME NEW p \in Proc, LinkSlot(p)
      PROVE  \E m \in Manifest : slots' = Append(slots, m)
  <2>1. draft[p] \in Seq(Manifest) /\ draft[p] # <<>>
    BY <1>4 DEF LinkSlot, Step, Drafts, DraftAt, Drafting, Nothing, Chain
  <2>2. Last(draft[p]) \in Manifest
    BY <2>1, NewestType DEF Last
  <2>3. QED
    BY <1>4, <2>2 DEF LinkSlot
<1>5. QED
  BY <1>1, <1>2, <1>3, <1>4, Steps

LEMMA AnchorsStep ==
    ASSUME TypeOK, Drafts, Journals, AnchorsHonest, Next
    PROVE  AnchorsHonest'
<1> SUFFICES ASSUME NEW q \in Proc PROVE Extends(slots', anchor'[q])
  BY DEF AnchorsHonest, Anchored
<1> USE DEF TypeOK
<1>1. slots' \in Chain /\ anchor'[q] \in Chain
  BY StepType
<1>2. Extends(slots', Nothing)
  BY <1>1 DEF Extends, Nothing, Chain
<1>3. ~HostCrashes => Extends(slots', slots)
  BY SlotsGrow, ExtendsAppend, ExtendsReflexive
<1>4. Extends(slots, anchor[q])
  BY DEF AnchorsHonest, Anchored
<1>5. QED
  BY <1>1, <1>2, <1>3, <1>4, AnchorFrom, ExtendsTransitive

-----------------------------------------------------------------------------
(* The invariants *)

LEMMA HInitially == Init => HInv
<1> SUFFICES ASSUME Init PROVE HInv
  OBVIOUS
<1>1. AllLawful
  BY LawfulEmpty DEF Init, AllLawful, Nothing, NoJournal
<1>2. JournalContinues /\ AnchorsHonest
  BY DEF Init, JournalContinues, AnchorsHonest, Anchored, Extends, Nothing, NoJournal
<1>3. QED BY <1>1, <1>2, Initially DEF HInv

LEMMA HPreserved == HInv /\ [Next]_vars => HInv'
<1> SUFFICES ASSUME HInv, [Next]_vars PROVE HInv'
  OBVIOUS
<1>1. IInv'
  BY Preserved DEF HInv
<1>2. CASE Next
  BY <1>1, <1>2, LawfulStep, JournalContinuesStep, AnchorsStep DEF HInv, IInv
<1>3. CASE UNCHANGED vars
  BY <1>1, <1>3 DEF HInv, vars, generationsDir, rootDir, local, failures, AllLawful,
     JournalContinues, Continues, AnchorsHonest, Anchored
<1>4. QED BY <1>2, <1>3

\* Every reachable state satisfies the inductive invariant.
THEOREM HistoryInvariant == Spec => []HInv
  BY HInitially, HPreserved, PTL DEF Spec

\* #history never takes an honest archive for one that was rolled back: the
\* trustedHead of a live process is the head of an earlier generation.
THEOREM HonestAnchors == Spec => []AnchorsHonest
<1>1. HInv => AnchorsHonest
  BY DEF HInv
<1>2. QED BY <1>1, HistoryInvariant, PTL

\* Whichever process finds a PRIVACY_PENDING journal, and wherever the one that
\* wrote it died, #finishPrivacy can carry it out, short of a loss of the host.
THEOREM JournalIsCompletable == Spec => []JournalCompletable
<1>1. HInv => JournalCompletable
  BY DEF HInv, IInv, JournalContinues, JournalCompletable, Present, Kept, Newest,
     Readable, Last
<1>2. QED BY <1>1, HistoryInvariant, PTL

-----------------------------------------------------------------------------
(* The refinement *)

LEMMA ExtendsIsPrefix ==
    ASSUME NEW S, NEW s \in Seq(S), NEW t \in Seq(S), Extends(t, s)
    PROVE  History!IsPrefixOf(s, t)
<1>1. Len(s) \in 0..Len(t) /\ \A i \in 1..Len(s) : t[i] = s[i]
  BY DEF Extends
<1>2. /\ SubSeq(t, 1, Len(s)) \in Seq(S) /\ Len(SubSeq(t, 1, Len(s))) = Len(s)
      /\ \A i \in 1..Len(s) : SubSeq(t, 1, Len(s))[i] = t[i]
  BY <1>1, PrefixType
<1>3. s = SubSeq(t, 1, Len(s))
  BY <1>1, <1>2, SeqEqual
<1>4. QED BY <1>1, <1>3 DEF History!IsPrefixOf

LEMMA PayloadsAreEvents == \A s : History!Payloads(s) = Events(s)
  BY DEF History!Payloads, Events

\* A generation that is added to the chain extends or redacts the newest one.
LEMMA AddedFollows ==
    ASSUME TypeOK, NEW m \in Manifest, slots' = Append(slots, m), acked' = acked,
           Lawful(slots')
    PROVE  History!Extend \/ History!Redact
<1>0. slots \in Seq(Manifest) /\ Len(slots) \in Nat /\ (slots = <<>> => Len(slots) = 0)
  BY DEF TypeOK, Chain
<1>1. /\ slots' \in Seq(Manifest) /\ slots' # <<>>
      /\ Len(slots') = Len(slots) + 1
      /\ slots'[Len(slots')] = m
      /\ \A i \in 1..Len(slots) : slots'[i] = slots[i]
  <2>1. slots' = Append(slots, m)
    OBVIOUS
  <2>2. QED
    BY <1>0, <2>1, AppendType
<1>2. History!Grows
  BY <1>0, <1>1, ExtendsAppend, ExtendsIsPrefix DEF History!Grows, Chain
<1>3. History!Added = m /\ History!Newest = slots[Len(slots)]
  BY <1>0, <1>1 DEF History!Added, History!Newest
<1>4. CASE slots = <<>>
  <2>1. Published(m)
    BY <1>0, <1>1, <1>4 DEF Lawful
  <2>2. QED
    BY <1>2, <1>3, <1>4, <2>1 DEF History!Extend, Published
<1>5. CASE slots # <<>>
  <2> DEFINE n == slots[Len(slots)]
  <2>1. n \in Manifest /\ Follows(n, m)
    BY <1>0, <1>1, <1>5 DEF Lawful
  <2>2. CASE Published(m) /\ ContinuesEvidence(n, m)
    <3>1. History!IsPrefixOf(n.object.events, m.object.events)
      BY <2>1, <2>2, ExtendsIsPrefix DEF ContinuesEvidence, Manifest, Object
    <3>2. QED
      BY <1>2, <1>3, <2>2, <3>1 DEF History!Extend, Published, ContinuesEvidence
  <2>3. CASE RedactsEvidence(n, m)
    BY <1>2, <1>3, <1>5, <2>3, PayloadsAreEvents
       DEF History!Redact, RedactsEvidence, Redacted
  <2>4. QED
    BY <2>1, <2>2, <2>3 DEF Follows
<1>6. QED BY <1>4, <1>5

LEMMA StepsOfHistory ==
    ASSUME HInv, HInv', [Next]_vars
    PROVE  [History!Next]_History!vars
<1> USE DEF HInv, IInv, History!vars
<1>1. CASE UNCHANGED vars
  BY <1>1 DEF vars, generationsDir
<1> SUFFICES ASSUME Next PROVE History!Next \/ UNCHANGED History!vars
  BY <1>1
<1>2. /\ slots \in Seq(Manifest) /\ slotsOnDisk \in Seq(Manifest) /\ acked \in Seq(Manifest)
      /\ Extends(slots, slotsOnDisk) /\ Extends(slotsOnDisk, acked) /\ Extends(slots, acked)
  BY ExtendsTransitive DEF TypeOK, Chain, Durable
<1>3. CASE slots' = slots
  <2>1. CASE acked' = acked
    BY <1>3, <2>1
  <2>2. CASE acked' = slotsOnDisk
    BY <1>2, <1>3, <2>2, ExtendsIsPrefix DEF History!Next, History!Acknowledge
  <2>3. QED
    BY <2>1, <2>2, AckedMove
<1>4. ASSUME NEW m \in Manifest, slots' = Append(slots, m)
      PROVE  History!Extend \/ History!Redact
  <2>1. acked' = acked
    <3>1. slots' # slots
      BY <1>2, <1>4, AppendType
    <3>2. \A p \in Proc : ~Return(p)
      BY <3>1 DEF Return, generationsDir
    <3>3. ASSUME NEW p \in Proc, Own(p) PROVE acked' = acked
      BY <3>3 DEF Own, FinishPrivacy, SkipPrivacy, LinkRedactedSlot,
         SyncRedactedSlot, PurgeEntry, SyncPurge, UnlinkJournal, SyncCleared,
         StagePublish, StageRedact, Stage, LinkObject, UnlinkTemporary, SyncObject,
         LinkSlot, SyncSlot, LinkJournal, SyncJournal
    <3>4. ASSUME NEW p \in Proc, Publish(p) \/ Redact(p) \/ Read(p) PROVE slots' = slots
      BY <3>4 DEF Publish, Redact, Read, Acquire, generationsDir
    <3>5. ASSUME NEW p \in Proc, Ending(p) PROVE slots' = slots
      BY <3>5, EndingStep
    <3>6. HostCrashes => acked' = acked
      BY DEF HostCrashes
    <3>7. QED BY <3>1, <3>3, <3>4, <3>5, <3>6, Steps
  <2>2. QED
    BY <1>4, <2>1, AddedFollows DEF AllLawful
<1>5. ASSUME NEW n \in Len(slotsOnDisk)..Len(slots), slots' = SubSeq(slots, 1, n),
             HostCrashes
      PROVE  History!Forget
  <2>1. slots' \in Chain /\ Extends(slots', slotsOnDisk) /\ Extends(slots, slots')
    BY <1>2, <1>5, ExtendsPrefix, PrefixType DEF Chain, Extends
  <2>2. Extends(slots', acked)
    BY <1>2, <2>1, ExtendsTransitive DEF Chain
  <2>3. acked' = acked
    BY <1>5 DEF HostCrashes
  <2>4. QED
    BY <1>2, <2>1, <2>2, <2>3, ExtendsIsPrefix DEF History!Forget, Chain
<1>6. CASE HostCrashes
  BY <1>5, <1>6 DEF HostCrashes, History!Next
<1>7. CASE ~HostCrashes
  BY <1>3, <1>4, <1>7, SlotsGrow DEF History!Next
<1>8. QED BY <1>6, <1>7

\* What publish, redact and the crashes between their steps do to the files is,
\* seen by the callers, a history that grows, is redacted and is acknowledged.
THEOREM ArchiveImplementsHistory == Spec => ImplementsHistory
<1>1. Init => History!Init
  BY DEF Init, History!Init, Nothing
<1>2. HInv /\ HInv' /\ [Next]_vars => [History!Next]_History!vars
  BY StepsOfHistory
<1>3. QED
  BY <1>1, <1>2, HistoryInvariant, PTL DEF Spec, ImplementsHistory, History!Spec
=============================================================================
