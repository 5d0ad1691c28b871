------------------------------- MODULE Archive -------------------------------
(***************************************************************************)
(* The signed run archive of src/archive.js (class SignedArchive).         *)
(*                                                                         *)
(* A run's evidence is kept in a private directory holding immutable       *)
(* objects/ (the evidence bundle with the service state), immutable        *)
(* numbered generations/ (signed manifests that name an object and their   *)
(* parent), and at most one PRIVACY_PENDING journal.  Every operation runs *)
(* under an SQLite lock that the operating system releases when the        *)
(* process dies.  Files are linked into place first and their directory    *)
(* is synced afterwards, so each directory has a visible content, which    *)
(* survives the death of a process, and a content on disk, which survives  *)
(* the loss of the host.                                                   *)
(*                                                                         *)
(* A manifest's digest covers its parent's digest, so the digest of a      *)
(* generation is modelled by the whole chain of manifests that ends in it. *)
(***************************************************************************)
EXTENDS Naturals, Sequences, FiniteSets

CONSTANTS
    Proc,             \* processes that open the archive directory
    Event,            \* canonical evidence events a run may append
    Tombstone,        \* the RedactionTombstone event
    Service,          \* service states (call and invocation caches)
    Analysis,         \* endpoint analysis packages
    None,             \* JavaScript's null
    MaxEvents,        \* bound on the events of a published bundle
    MaxGenerations,   \* bound on the generations of the archive
    MaxFaults,        \* bound on exceptions and process deaths
    MaxHostCrashes    \* bound on losses of the host

ASSUME ConstantsAreDistinct ==
    /\ Tombstone \notin Event
    /\ None \notin Proc \cup Service \cup Analysis
ASSUME BoundsAreNaturals ==
    /\ MaxEvents \in Nat
    /\ MaxGenerations \in Nat
    /\ MaxFaults \in Nat
    /\ MaxHostCrashes \in Nat

VARIABLES
    slots, slotsOnDisk,        \* generations/: the chain of manifests
    entries, entriesOnDisk,    \* objects/: content files and their temporaries
    journal, journalOnDisk,    \* PRIVACY_PENDING: a chain, or NoJournal
    lock,                      \* holder of publication-lock.sqlite
    pc, call, draft,           \* the operation each process is executing
    anchor,                    \* trustedHead of each process's SignedArchive
    acked,                     \* last head returned by publish or redact
    faults, hostCrashes        \* how many failures have happened

generationsDir == <<slots, slotsOnDisk>>
objectsDir == <<entries, entriesOnDisk>>
rootDir == <<journal, journalOnDisk>>
local == <<pc, call, draft>>
failures == <<faults, hostCrashes>>
vars == <<generationsDir, objectsDir, rootDir, lock, local, anchor, acked,
          failures>>

-----------------------------------------------------------------------------
(* Data *)

Object == [events: Seq(Event \cup {Tombstone}), erased: SUBSET Event,
           service: Service \cup {None}, analysis: Analysis \cup {None}]
Status == {"COMPLETE", "REPLAY_INCOMPLETE_REDACTED"}
Manifest == [object: Object, status: Status]
Chain == Seq(Manifest)
Entry == [kind: {"object", "temporary"}, content: Object]
Nothing == <<>>
NoJournal == Nothing

Call == {"publish", "redact", "read", "none"}

Last(s) == s[Len(s)]
Events(s) == {s[i] : i \in 1..Len(s)}
Extends(long, short) ==
    /\ Len(short) <= Len(long)
    /\ \A i \in 1..Len(short) : long[i] = short[i]
File(o) == [kind |-> "object", content |-> o]
Temporary(o) == [kind |-> "temporary", content |-> o]
Readable(o) == File(o) \in entries

\* What a file gives away: its unredacted payloads; a service state or an
\* analysis package may repeat the bytes of any payload.
Discloses(o) ==
    IF o.service # None \/ o.analysis # None THEN Event
    ELSE (Events(o.events) \ o.erased) \ {Tombstone}

-----------------------------------------------------------------------------
Init ==
    /\ slots = Nothing /\ slotsOnDisk = Nothing
    /\ entries = {} /\ entriesOnDisk = {}
    /\ journal = NoJournal /\ journalOnDisk = NoJournal
    /\ lock = None
    /\ pc = [p \in Proc |-> "idle"]
    /\ call = [p \in Proc |-> "none"]
    /\ draft = [p \in Proc |-> Nothing]
    /\ anchor = [p \in Proc |-> Nothing]
    /\ acked = Nothing
    /\ faults = 0 /\ hostCrashes = 0

Goto(p, label) == pc' = [pc EXCEPT ![p] = label]
Step(p, from, to) == pc[p] = from /\ Goto(p, to)

\* The end of #exclusive: ROLLBACK releases the lock, the call returns.
Release(p) ==
    /\ lock' = None
    /\ pc' = [pc EXCEPT ![p] = "idle"]
    /\ call' = [call EXCEPT ![p] = "none"]
    /\ draft' = [draft EXCEPT ![p] = Nothing]

\* Mutant of Acquire: the root directory is not synced.
AcquireUnsynced(p, c) ==
    /\ lock = None
    /\ Step(p, "idle", "privacy")
    /\ lock' = p
    /\ call' = [call EXCEPT ![p] = c]
    /\ UNCHANGED <<generationsDir, objectsDir, rootDir, draft, anchor, acked,
                   failures>>
\* #exclusive: a caller whose coordinator is free syncs the root directory
\* (#initialize) and takes the SQLite lock.  A caller that finds the lock busy
\* gets an error and starts nothing.
Acquire(p, c) ==
    /\ lock = None
    /\ Step(p, "idle", "privacy")
    /\ lock' = p
    /\ call' = [call EXCEPT ![p] = c]
    /\ journalOnDisk' = journal
    /\ UNCHANGED <<generationsDir, objectsDir, journal, draft, anchor, acked,
                   failures>>

Publish(p) == Acquire(p, "publish")
Redact(p) == Acquire(p, "redact")
Read(p) == Acquire(p, "read")

-----------------------------------------------------------------------------
(* #finishPrivacy, run first by every operation and last by redact.        *)

\* #history's rollback check: the anchored head is a prefix of the chain.
Anchored(p) == Extends(slots, anchor[p])

\* #history anchors the newest generation, whatever the caller then makes of it.
HistoryRead(p) == IF Anchored(p) THEN [anchor EXCEPT ![p] = slots] ELSE anchor

SkipPrivacy(p) ==
    /\ journal = NoJournal
    /\ Step(p, "privacy", "check")
    /\ UNCHANGED <<generationsDir, objectsDir, rootDir, lock, call, draft,
                   anchor, acked, failures>>

\* The journal is the next generation, or it is the newest one already.
Continues(chain) == chain = slots \/ chain = Append(slots, Last(chain))

\* Mutant of JournalFits: completing a journal twice is refused as a fork.
JournalFitsOnce(p) ==
    /\ Anchored(p)
    /\ journal = Append(slots, Last(journal))
    /\ Readable(Last(journal).object)
JournalFits(p) ==
    /\ Anchored(p)
    /\ Continues(journal)
    /\ Readable(Last(journal).object)

LinkRedactedSlot(p) ==
    /\ journal # NoJournal
    /\ JournalFits(p)
    /\ Step(p, "privacy", "privacySlot")
    /\ slots' = journal
    /\ anchor' = [anchor EXCEPT ![p] = slots]
    /\ UNCHANGED <<slotsOnDisk, objectsDir, rootDir, lock, call, draft,
                   acked, failures>>

SyncRedactedSlot(p) ==
    /\ Step(p, "privacySlot", "purge")
    /\ slotsOnDisk' = slots
    /\ UNCHANGED <<slots, objectsDir, rootDir, lock, call, draft, anchor,
                   acked, failures>>

\* Mutant of Doomed: the purge does not spare the redacted object.
DoomedWithRedacted == entries
Doomed == entries \ {File(Last(journal).object)}

PurgeEntry(p) ==
    /\ pc[p] = "purge"
    /\ \E e \in Doomed : entries' = entries \ {e}
    /\ UNCHANGED <<generationsDir, entriesOnDisk, rootDir, lock, local, anchor,
                   acked, failures>>

SyncPurge(p) ==
    /\ Step(p, "purge", "clear")
    /\ Doomed = {}
    /\ entriesOnDisk' = entries
    /\ UNCHANGED <<generationsDir, entries, rootDir, lock, call, draft,
                   anchor, acked, failures>>

UnlinkJournal(p) ==
    /\ Step(p, "clear", "cleared")
    /\ journal' = NoJournal
    /\ UNCHANGED <<generationsDir, objectsDir, journalOnDisk, lock, call,
                   draft, anchor, acked, failures>>

\* Only redact's own call of #finishPrivacy has a draft of its own to return.
SyncCleared(p) ==
    /\ Step(p, "cleared", IF draft[p] = Nothing THEN "check" ELSE "return")
    /\ journalOnDisk' = journal
    /\ UNCHANGED <<generationsDir, objectsDir, journal, lock, call, draft,
                   anchor, acked, failures>>

-----------------------------------------------------------------------------
(* publish, redact, head/load/export after #finishPrivacy.                 *)

Prior == Last(slots)
PriorIsReadable == slots # Nothing => Readable(Prior.object)

\* What a caller may pass.  The arguments are first used by the checks below,
\* so that is where they are chosen: the head of any earlier generation as the
\* expected head, any bundle of distinct events.
Heads == {SubSeq(slots, 1, n) : n \in 0..Len(slots)}
Injective(s) == \A i, j \in 1..Len(s) : s[i] = s[j] => i = j
Bundles == {b \in UNION {[1..n -> Event] : n \in 1..MaxEvents} : Injective(b)}
Publication == [expected: Heads, events: Bundles, service: Service,
                analysis: Analysis \cup {None}]
Redaction == [expected: Heads, erase: (SUBSET Event) \ {{}}]

\* Mutant of PublishAdmitted: a redacted run may resume.
PublishAdmittedAfterRedaction(p, r) ==
    /\ Anchored(p)
    /\ r.expected = slots
    /\ PriorIsReadable
PublishAdmitted(p, r) ==
    /\ Anchored(p)
    /\ r.expected = slots
    /\ PriorIsReadable
    /\ slots # Nothing =>
        /\ Prior.status = "COMPLETE"
        /\ Extends(r.events, Prior.object.events)
        /\ Prior.object.analysis # None =>
              r.analysis \in {None, Prior.object.analysis}

RedactAdmitted(p, r) ==
    /\ Anchored(p)
    /\ slots # Nothing
    /\ r.expected = slots
    /\ PriorIsReadable
    /\ r.erase \subseteq Events(Prior.object.events) \ Prior.object.erased

\* load and export read the newest object, head only the manifests.
ReadAdmitted(p) == Anchored(p)
LoadAdmitted(p) == Anchored(p) /\ slots # Nothing /\ PriorIsReadable

InheritedAnalysis(r) ==
    IF r.analysis = None /\ slots # Nothing
    THEN Prior.object.analysis ELSE r.analysis

PublishedManifest(r) ==
    [object |-> [events |-> r.events, erased |-> {}, service |-> r.service,
                 analysis |-> InheritedAnalysis(r)],
     status |-> "COMPLETE"]

RedactedManifest(r) ==
    [object |-> [events |-> Append(Prior.object.events, Tombstone),
                 erased |-> Prior.object.erased \cup r.erase,
                 service |-> None, analysis |-> None],
     status |-> "REPLAY_INCOMPLETE_REDACTED"]

\* Mutant of Stage: the anchor moves to the generation being written.
StageAnchored(p, manifest) ==
    /\ Len(slots) < MaxGenerations
    /\ Step(p, "check", "stage")
    /\ draft' = [draft EXCEPT ![p] = Append(slots, manifest)]
    /\ entries' = entries \cup {Temporary(manifest.object)}
    /\ anchor' = [anchor EXCEPT ![p] = Append(slots, manifest)]
    /\ UNCHANGED <<generationsDir, entriesOnDisk, rootDir, lock, call, acked,
                   failures>>
\* immutable(): the content is written and synced under a temporary name ...
Stage(p, manifest) ==
    /\ Len(slots) < MaxGenerations
    /\ Step(p, "check", "stage")
    /\ draft' = [draft EXCEPT ![p] = Append(slots, manifest)]
    /\ entries' = entries \cup {Temporary(manifest.object)}
    /\ anchor' = [anchor EXCEPT ![p] = slots]
    /\ UNCHANGED <<generationsDir, entriesOnDisk, rootDir, lock, call,
                   acked, failures>>

StagePublish(p) ==
    /\ call[p] = "publish"
    /\ \E r \in Publication :
        PublishAdmitted(p, r) /\ Stage(p, PublishedManifest(r))

StageRedact(p) ==
    /\ call[p] = "redact"
    /\ \E r \in Redaction :
        RedactAdmitted(p, r) /\ Stage(p, RedactedManifest(r))

Staged(p) == Last(draft[p]).object

\* ... then linked to its final name (an equal file may already exist) ...
LinkObject(p) ==
    /\ Step(p, "stage", "linked")
    /\ entries' = entries \cup {File(Staged(p))}
    /\ UNCHANGED <<generationsDir, entriesOnDisk, rootDir, lock, call, draft,
                   anchor, acked, failures>>

\* ... the temporary name is removed, and the directory is synced.
UnlinkTemporary(p) ==
    /\ Step(p, "linked", "written")
    /\ entries' = entries \ {Temporary(Staged(p))}
    /\ UNCHANGED <<generationsDir, entriesOnDisk, rootDir, lock, call, draft,
                   anchor, acked, failures>>

\* Mutant of SyncObject: the objects directory is not synced.
SyncObjectForgotten(p) ==
    /\ Step(p, "written", "seal")
    /\ UNCHANGED <<generationsDir, objectsDir, rootDir, lock, call, draft,
                   anchor, acked, failures>>
SyncObject(p) ==
    /\ Step(p, "written", "seal")
    /\ entriesOnDisk' = entries
    /\ UNCHANGED <<generationsDir, entries, rootDir, lock, call, draft,
                   anchor, acked, failures>>

\* The signed manifest claims its numbered slot, which must not exist.
LinkSlot(p) ==
    /\ call[p] = "publish"
    /\ journal = NoJournal
    /\ Len(slots) = Len(draft[p]) - 1
    /\ Step(p, "seal", "slot")
    /\ slots' = Append(slots, Last(draft[p]))
    /\ UNCHANGED <<slotsOnDisk, objectsDir, rootDir, lock, call, draft,
                   anchor, acked, failures>>

\* Mutant of SyncSlot: the generations directory is not synced.
SyncSlotForgotten(p) ==
    /\ Step(p, "slot", "return")
    /\ UNCHANGED <<generationsDir, objectsDir, rootDir, lock, call, draft,
                   anchor, acked, failures>>
SyncSlot(p) ==
    /\ Step(p, "slot", "return")
    /\ slotsOnDisk' = slots
    /\ UNCHANGED <<slots, objectsDir, rootDir, lock, call, draft, anchor,
                   acked, failures>>

\* A redaction is journaled before anything is destroyed.
LinkJournal(p) ==
    /\ call[p] = "redact"
    /\ journal \in {NoJournal, draft[p]}
    /\ Step(p, "seal", "journal")
    /\ journal' = draft[p]
    /\ UNCHANGED <<generationsDir, objectsDir, journalOnDisk, lock, call,
                   draft, anchor, acked, failures>>

SyncJournal(p) ==
    /\ Step(p, "journal", "privacy")
    /\ journalOnDisk' = journal
    /\ UNCHANGED <<generationsDir, objectsDir, journal, lock, call, draft,
                   anchor, acked, failures>>

Return(p) ==
    /\ pc[p] = "return"
    /\ acked' = draft[p]
    /\ Release(p)
    /\ UNCHANGED <<generationsDir, objectsDir, rootDir, anchor, failures>>

\* head, load and export return the newest head.
ReturnHead(p) ==
    /\ pc[p] = "check"
    /\ call[p] = "read"
    /\ ReadAdmitted(p)
    /\ anchor' = [anchor EXCEPT ![p] = slots]
    /\ Release(p)
    /\ UNCHANGED <<generationsDir, objectsDir, rootDir, acked, failures>>

-----------------------------------------------------------------------------
(* Refusals and failures *)

Refusable(p) ==
    \/ call[p] = "publish" /\ \E r \in Publication : ~PublishAdmitted(p, r)
    \/ call[p] = "redact" /\ \E r \in Redaction : ~RedactAdmitted(p, r)
    \/ call[p] = "read" /\ ~LoadAdmitted(p)

\* An assertion of #finishPrivacy, of the checks or of the slot claim throws.
Refuse(p) ==
    /\ \/ pc[p] = "privacy" /\ journal # NoJournal /\ ~JournalFits(p)
       \/ pc[p] = "check" /\ Refusable(p)
       \/ pc[p] = "seal" /\ call[p] = "publish"
            /\ (journal # NoJournal \/ Len(slots) # Len(draft[p]) - 1)
    /\ Release(p)
    /\ anchor' = HistoryRead(p)
    /\ UNCHANGED <<generationsDir, objectsDir, rootDir, acked, failures>>

\* The archive has as many generations as the model allows.
Exhausted(p) ==
    /\ pc[p] = "check"
    /\ call[p] # "read"
    /\ Len(slots) = MaxGenerations
    /\ Release(p)
    /\ UNCHANGED <<generationsDir, objectsDir, rootDir, anchor, acked, failures>>

\* An I/O error or an injected fault unwinds the call in a live process.
\* immutable() removes its temporary, unless writing it is what failed.
Throw(p) ==
    /\ faults < MaxFaults
    /\ pc[p] # "idle"
    /\ Release(p)
    /\ entries' \in IF pc[p] \in {"stage", "linked"}
                    THEN {entries, entries \ {Temporary(Staged(p))}}
                    ELSE {entries}
    /\ anchor' \in IF pc[p] \in {"privacy", "check"} THEN {anchor, HistoryRead(p)}
                   ELSE {anchor}
    /\ faults' = faults + 1
    /\ UNCHANGED <<generationsDir, entriesOnDisk, rootDir, acked, hostCrashes>>

\* The process dies: the files it made visible stay, its memory is lost and
\* the operating system releases its lock.
ProcessDies(p) ==
    /\ faults < MaxFaults
    /\ pc[p] # "idle"
    /\ Release(p)
    /\ anchor' = [anchor EXCEPT ![p] = Nothing]
    /\ faults' = faults + 1
    /\ UNCHANGED <<generationsDir, objectsDir, rootDir, acked, hostCrashes>>

\* The host is lost: every process dies, and each change of a directory that
\* was not synced may or may not have reached the disk.  Slots reach it in the
\* order in which they were linked.
Survives(visible, onDisk) ==
    {D \in SUBSET (visible \cup onDisk) : visible \cap onDisk \subseteq D}

HostCrashes ==
    /\ hostCrashes < MaxHostCrashes
    /\ hostCrashes' = hostCrashes + 1
    /\ slots' \in {SubSeq(slots, 1, n) : n \in Len(slotsOnDisk)..Len(slots)}
    /\ slotsOnDisk' = slots'
    /\ journal' \in {journal, journalOnDisk} /\ journalOnDisk' = journal'
    /\ entries' \in Survives(entries, entriesOnDisk) /\ entriesOnDisk' = entries'
    /\ lock' = None
    /\ pc' = [p \in Proc |-> "idle"]
    /\ call' = [p \in Proc |-> "none"]
    /\ draft' = [p \in Proc |-> Nothing]
    /\ anchor' = [p \in Proc |-> Nothing]
    /\ UNCHANGED <<acked, faults>>

-----------------------------------------------------------------------------
FinishPrivacy(p) ==
    \/ SkipPrivacy(p) \/ LinkRedactedSlot(p) \/ SyncRedactedSlot(p)
    \/ PurgeEntry(p) \/ SyncPurge(p) \/ UnlinkJournal(p) \/ SyncCleared(p)
Progress(p) ==
    \/ FinishPrivacy(p)
    \/ StagePublish(p) \/ StageRedact(p)
    \/ LinkObject(p) \/ UnlinkTemporary(p) \/ SyncObject(p)
    \/ LinkSlot(p) \/ SyncSlot(p) \/ LinkJournal(p) \/ SyncJournal(p)
    \/ Return(p) \/ ReturnHead(p) \/ Refuse(p) \/ Exhausted(p)

Next ==
    \/ \E p \in Proc : \/ Publish(p) \/ Redact(p) \/ Read(p)
                       \/ Progress(p) \/ Throw(p) \/ ProcessDies(p)
    \/ HostCrashes

Spec == Init /\ [][Next]_vars

\* Node runs an operation it has started to its end, and the run service
\* reads the head at the start of every transaction it serves.
Fairness == \A p \in Proc : WF_vars(Progress(p)) /\ SF_vars(Read(p))
LiveSpec == Spec /\ Fairness

-----------------------------------------------------------------------------
(* Properties *)

PC == {"idle", "privacy", "privacySlot", "purge", "clear", "cleared", "check",
       "stage", "linked", "written", "seal", "slot", "journal", "return"}

\* Types of the files, of the processes' memory and of the bounds.
TypeOK ==
    /\ slots \in Chain /\ slotsOnDisk \in Chain
    /\ journal \in Chain /\ journalOnDisk \in Chain
    /\ acked \in Chain
    /\ entries \in SUBSET Entry /\ entriesOnDisk \in SUBSET Entry
    /\ lock \in Proc \cup {None}
    /\ pc \in [Proc -> PC]
    /\ call \in [Proc -> Call]
    /\ draft \in [Proc -> Chain]
    /\ anchor \in [Proc -> Chain]
    /\ faults \in 0..MaxFaults
    /\ hostCrashes \in 0..MaxHostCrashes

\* Wherever processes and the host stop, the newest manifest names an object
\* that is there to be loaded: the order of the writes, syncs and deletes of
\* publish, redact and #finishPrivacy never leaves a head without content.
HeadReadable == PriorIsReadable

\* A head that publish or redact returned to its caller is on disk.
AckedDurable == Extends(slotsOnDisk, acked)

\* While no privacy journal is pending, no file of the object directory, be it
\* an old generation, a crash remnant or a temporary, gives away a payload that
\* the newest generation has erased; nor does the disk.
PrivacyPurged ==
    journal = NoJournal /\ slots # Nothing =>
        \A e \in entries \cup entriesOnDisk :
            Discloses(e.content) \cap Prior.object.erased = {}

\* A pending privacy journal can be completed by whichever process comes next:
\* it continues the newest generation, or is it, and its object is readable.
\* The loss of the host may take the generation that it continues, if the
\* process that linked that one died before it was synced.
JournalCompletable ==
    journal # NoJournal /\ hostCrashes = 0 =>
        /\ Continues(journal)
        /\ Readable(Last(journal).object)

\* The rollback anchor of a live process never accuses an honest archive.
AnchorsHonest == \A p \in Proc : Anchored(p)

\* A journaled redaction is eventually carried out, short of that loss.
RedactionCompletes == journal # NoJournal ~> journal = NoJournal \/ hostCrashes > 0

History == INSTANCE RunHistory WITH history <- slots, acknowledged <- acked

\* The archive implements the history it promises.
ImplementsHistory == History!Spec
=============================================================================
