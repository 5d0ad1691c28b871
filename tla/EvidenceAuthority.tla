-------------------------- MODULE EvidenceAuthority ---------------------------
(***************************************************************************)
(* The external evidence authority of                                      *)
(* src/calibration-evidence-authority-service.js: it turns the evidence of *)
(* a calibration run into one finalization and one head of a monotonic     *)
(* chain, whatever retries, failures and restarts come between.            *)
(*                                                                         *)
(* Several processes may serve one directory; an SQLite write lock admits  *)
(* one operation at a time and dies with its process (a process that finds *)
(* it taken answers BUSY and does nothing, which is a stuttering step).    *)
(* So at most one operation is under way, and what makes the protocol hard *)
(* is an operation that stops in the middle: by an exception, by the death *)
(* of its process, or by the loss of the host, which also loses the        *)
(* directory entries that nobody has synced.                               *)
(*                                                                         *)
(* Every record is canonical and signed with Ed25519, which is             *)
(* deterministic: a record is determined by the finalization input it was  *)
(* made from, and a digest of the head of a chain by the inputs up to it.  *)
(***************************************************************************)
EXTENDS Integers, Sequences, FiniteSets

CONSTANTS
    Process,          \* authority processes
    Intent,           \* execution intent ids
    Request,          \* hashes of execution requests
    Bundle,           \* evidence bundles
    None,             \* a file that is not there, JavaScript's null
    Unstated,         \* an intent record without a request_hash
    Records,          \* what clients put as the record of an intent
    Settings          \* bound: what is considered together, see Setting

Input == [intent : Intent, request : Request, bundle : Bundle]

\* A head is its input and the inputs before it.  Heads are numbered from 0 in the
\* code, so a chain of n heads ends at generation n - 1; here a head is at its
\* position 1..n.
HeadRecord == [input : Input, parent : Seq(Input)]
Directory ==
    {"intents", "claims", "objects", "pending", "heads", "finalizations", "anchor"}

ASSUME SentinelsAreDistinct ==
    /\ None \notin Process \cup Intent \cup Request \cup Bundle \cup {Unstated}
    /\ None \notin Input \cup HeadRecord \cup Directory
    /\ Unstated \notin Request
ASSUME RecordsAreHashes == Records \subseteq Request \cup {Unstated}

\* The processes of the host, the finalization inputs that clients send, and how
\* many exceptions (I/O errors), deaths of a process and losses of the host.
Setting == [processes : SUBSET Process, offered : SUBSET Input,
            throws : Nat, deaths : Nat, crashes : Nat]
ASSUME SettingsAreSettings == Settings \subseteq Setting

VARIABLES
    store,            \* the directories as the processes see them
    disk,             \* the directories as the host would find them after a crash
    initialized,      \* the processes that have verified the store
    operation,        \* the operation that holds the lock
    released,         \* the result last given to a client, per intent
    observed,         \* the state last observed by a client, per intent
    setting,          \* the setting: never changes, bounds the failures
    failed            \* how many failures of each kind there have been

client == <<released, observed>>
failures == <<setting, failed>>
vars == <<store, disk, initialized, operation, client, failures>>

-----------------------------------------------------------------------------
(* Data *)

\* Provisioning created the directories and a signed null anchor.
Provisioned ==
    [intents |-> [i \in Intent |-> None], claims |-> [i \in Intent |-> None],
     objects |-> [b \in Bundle |-> None], pending |-> [i \in Intent |-> None], heads |-> <<>>,
     finalizations |-> [i \in Intent |-> None], anchor |-> <<>>]

\* latestHead: the digest of the newest head stands for the whole chain, as
\* each head names the digest of its parent.
Digest(heads) == [n \in DOMAIN heads |-> heads[n].input]
Position(head) == Len(head.parent) + 1

Call == {"initialize", "get", "put", "observe", "finalize"}
Stage == {"open", "recover", "begin", "prior", "claim", "object", "stage",
          "head", "finalization", "anchor", "ready", "answer"}
Idle ==
    [process |-> None, call |-> None, intent |-> None, input |-> None,
     at |-> "answer", unsynced |-> None, todo |-> {}, completing |-> None]

Ranked == <<"ABSENT", "INTENT_STORED", "FINALIZATION_PENDING", "FINALIZED">>
Rank(state) == CHOOSE n \in 1..4 : Ranked[n] = state

\* What observeIntent reports of the store.
State(i) ==
    IF store.finalizations[i] # None THEN "FINALIZED"
    ELSE IF store.pending[i] # None THEN "FINALIZATION_PENDING"
    ELSE IF store.intents[i] # None THEN "INTENT_STORED"
    ELSE "ABSENT"
-----------------------------------------------------------------------------
Init ==
    /\ store = Provisioned
    /\ disk = Provisioned
    /\ initialized = {}
    /\ operation = Idle
    /\ released = [i \in Intent |-> None]
    /\ observed = [i \in Intent |-> "ABSENT"]
    /\ setting \in Settings
    /\ failed = [throws |-> 0, deaths |-> 0, crashes |-> 0]

(***************************************************************************)
(* serialized(): an operation takes the lock, verifies the store if its    *)
(* process has not done so yet, and goes on to its work.                   *)
(***************************************************************************)
Start(p, call, i, input) ==
    /\ operation = Idle
    /\ operation' =
        [Idle EXCEPT !.process = p, !.call = call, !.intent = i, !.input = input,
                     !.at = IF p \in initialized THEN "begin" ELSE "open"]
    /\ UNCHANGED <<store, disk, initialized, client, failures>>

\* start() of a server calls initialize(); the other calls come from clients.
Initialize(p) == p \notin initialized /\ Start(p, "initialize", None, None)
Get(p, i) == Start(p, "get", i, None)
Observe(p, i) == Start(p, "observe", i, None)
Put(p, i, record) == Start(p, "put", i, record)
Finalize(p, input) == Start(p, "finalize", input.intent, input)

\* The operation is at a stage and has synced what it linked before.
At(stage) ==
    /\ operation # Idle
    /\ operation.at = stage
    /\ operation.unsynced = None

\* The next stage, with directory d to be synced first (None: nothing linked).
Continue(stage, d) == operation' = [operation EXCEPT !.at = stage, !.unsynced = d]

\* immutable(): the record `key' of directory d is linked, or is there already
\* with the same bytes; another content is an error.
Agrees(d, key, value) == store[d][key] \in {None, value}
Immutable(d, key, value, stage) ==
    \/ /\ store[d][key] = None
       /\ store' = [store EXCEPT ![d][key] = value]
       /\ Continue(stage, d)
    \/ /\ store[d][key] = value
       /\ UNCHANGED store
       /\ Continue(stage, None)

\* Mutant: the sync of the directory fails unnoticed.
SyncIgnored ==
    /\ operation.unsynced # None
    /\ operation' = [operation EXCEPT !.unsynced = None]
    /\ UNCHANGED <<store, disk, initialized, client, failures>>

\* The sync of the directory into which immutable() has linked a record.  A
\* record that was already there is not synced again.
SyncDirectory ==
    /\ operation.unsynced # None
    /\ disk' = [disk EXCEPT ![operation.unsynced] = store[operation.unsynced]]
    /\ operation' = [operation EXCEPT !.unsynced = None]
    /\ UNCHANGED <<store, initialized, client, failures>>

Quiet == UNCHANGED <<disk, initialized, client, failures>>
-----------------------------------------------------------------------------
(***************************************************************************)
(* completePending: the pending transaction `operation.completing' gets    *)
(* its head, its finalization and then the anchor.                         *)
(***************************************************************************)
Completed == store.pending[operation.completing]

\* Mutant: a head that is in its slot already is refused.
FitsNext(head, heads) == head.parent = Digest(heads)

\* The head is next in the chain, or it is in its slot already.
Fits(head, heads) ==
    \/ head.parent = Digest(heads)
    \/ /\ Position(head) <= Len(heads)
       /\ heads[Position(head)] = head

AdvanceHead ==
    /\ At("head")
    /\ \/ /\ Completed.parent = Digest(store.heads)
          /\ store' = [store EXCEPT !.heads = Append(@, Completed)]
          /\ Continue("finalization", "heads")
       \/ /\ Fits(Completed, store.heads)
          /\ Position(Completed) <= Len(store.heads)
          /\ UNCHANGED store
          /\ Continue("finalization", None)
    /\ Quiet

PublishFinalization ==
    /\ At("finalization")
    /\ Immutable("finalizations", operation.completing, Completed.input, "anchor")
    /\ Quiet

\* reconcileAnchor: the anchor only ever moves forward along the chain.
Precedes(anchor, heads) ==
    /\ Len(anchor) <= Len(heads)
    /\ anchor = Digest(SubSeq(heads, 1, Len(anchor)))

AfterAnchor ==
    IF operation.process \in initialized THEN "answer"
    ELSE IF operation.completing = None THEN "ready"
    ELSE "recover"

ReconcileAnchor ==
    /\ At("anchor")
    /\ Precedes(store.anchor, store.heads)
    /\ store' = [store EXCEPT !.anchor = Digest(store.heads)]
    /\ Continue(AfterAnchor, IF store.anchor = Digest(store.heads) THEN None ELSE "anchor")
    /\ Quiet
-----------------------------------------------------------------------------
(***************************************************************************)
(* initialize(): complete every pending transaction, in the order of the   *)
(* names that clients chose (any order here), then verify the whole store. *)
(* The sync of the parent directory and the walk of the chain by           *)
(* latestHead change nothing and are left out: a chain only grows by       *)
(* AdvanceHead and only loses a tail.                                      *)
(***************************************************************************)
Open ==
    /\ At("open")
    /\ operation' = [operation EXCEPT !.at = "recover",
                        !.todo = {i \in Intent : store.pending[i] # None}]
    /\ UNCHANGED store
    /\ Quiet

RecoverPending(i) ==
    /\ At("recover")
    /\ i \in operation.todo
    /\ operation' = [operation EXCEPT !.at = "head", !.completing = i, !.todo = @ \ {i}]
    /\ UNCHANGED store
    /\ Quiet

\* verifyCalibrationEvidenceAuthority on the store s.
Vouched(head, s) ==
    LET x == head.input IN
    /\ s.finalizations[x.intent] = x
    /\ s.claims[x.intent] = x
    /\ s.objects[x.bundle] # None
Verified(s) ==
    /\ \A n \in DOMAIN s.heads : Vouched(s.heads[n], s)
    /\ Cardinality({i \in Intent : s.finalizations[i] # None}) = Len(s.heads)
    /\ \A b \in Bundle : s.objects[b] # None =>
        \E i \in Intent : s.claims[i] # None /\ s.claims[i].bundle = b

Verify ==
    /\ At("recover")
    /\ operation.todo = {}
    /\ Verified(store)
    /\ operation' = [operation EXCEPT !.at = "anchor", !.completing = None]
    /\ UNCHANGED store
    /\ Quiet

Ready ==
    /\ At("ready")
    /\ initialized' = initialized \cup {operation.process}
    /\ Continue("begin", None)
    /\ UNCHANGED <<store, disk, client, failures>>
-----------------------------------------------------------------------------
(* The operations *)

Calls(call, stage) == At(stage) /\ operation.call = call

BeginReading ==
    /\ At("begin")
    /\ \/ operation.call \in {"initialize", "get"}
       \/ /\ operation.call = "observe"
          /\ State(operation.intent) # "FINALIZATION_PENDING"
    /\ Continue("answer", None)
    /\ UNCHANGED store
    /\ Quiet

\* observeIntent drives a pending transaction that has no finalization.
ObservePending ==
    /\ Calls("observe", "begin")
    /\ State(operation.intent) = "FINALIZATION_PENDING"
    /\ operation' = [operation EXCEPT !.at = "head", !.completing = operation.intent]
    /\ UNCHANGED store
    /\ Quiet

PutIntent ==
    /\ Calls("put", "begin")
    /\ Immutable("intents", operation.intent, operation.input, "answer")
    /\ Quiet

\* finalize(): the intent record, which may exist without a request_hash.
RequestAgrees ==
    store.intents[operation.intent] \in {None, Unstated, operation.input.request}

BindIntent ==
    /\ Calls("finalize", "begin")
    /\ RequestAgrees
    /\ \/ Immutable("intents", operation.intent, operation.input.request, "prior")
       \/ /\ store.intents[operation.intent] = Unstated
          /\ UNCHANGED store
          /\ Continue("prior", None)
    /\ Quiet

\* The prior finalization of the same input is the answer.
CheckPrior ==
    /\ At("prior")
    /\ Agrees("finalizations", operation.intent, operation.input)
    /\ Continue(IF store.finalizations[operation.intent] = None THEN "claim" ELSE "answer", None)
    /\ UNCHANGED store
    /\ Quiet

\* Mutant: a retry with other evidence replaces the claim.
ClaimAnew ==
    /\ At("claim")
    /\ store' = [store EXCEPT !.claims[operation.intent] = operation.input]
    /\ Continue("object", "claims")
    /\ Quiet

Claim ==
    /\ At("claim")
    /\ Immutable("claims", operation.intent, operation.input, "object")
    /\ Quiet

CommitObject ==
    /\ At("object")
    /\ Immutable("objects", operation.input.bundle, operation.input.bundle, "stage")
    /\ Quiet

\* The head that the finalization would have is computed before it is staged.
NextHead == [input |-> operation.input, parent |-> Digest(store.heads)]

StageFinalization ==
    /\ At("stage")
    /\ Agrees("pending", operation.intent, NextHead)
    /\ store' = [store EXCEPT !.pending[operation.intent] = NextHead]
    /\ operation' = [operation EXCEPT !.at = "head", !.completing = operation.intent,
            !.unsynced = IF store.pending[operation.intent] = None THEN "pending" ELSE None]
    /\ Quiet

\* The reply to the client: the finalized result, or the state of the intent.
Answer ==
    /\ At("answer")
    /\ operation' = Idle
    /\ IF operation.call \in {"get", "observe", "finalize"}
          /\ store.finalizations[operation.intent] # None
       THEN released' = [released EXCEPT ![operation.intent] =
                            store.finalizations[operation.intent]]
       ELSE UNCHANGED released
    /\ IF operation.call = "observe"
       THEN observed' = [observed EXCEPT ![operation.intent] = State(operation.intent)]
       ELSE UNCHANGED observed
    /\ UNCHANGED <<store, disk, initialized, failures>>
-----------------------------------------------------------------------------
(* Failures *)

\* An assertion of the code fails.
Refused ==
    LET i == operation.intent
        x == operation.input
        put == operation.call = "put"
    IN
    \/ At("begin") /\ put /\ ~Agrees("intents", i, x)
    \/ At("begin") /\ operation.call = "finalize" /\ ~RequestAgrees
    \/ At("prior") /\ ~Agrees("finalizations", i, x)
    \/ At("claim") /\ ~Agrees("claims", i, x)
    \/ At("stage") /\ ~Agrees("pending", i, NextHead)
    \/ At("head") /\ ~Fits(Completed, store.heads)
    \/ At("finalization") /\ ~Agrees("finalizations", operation.completing, Completed.input)
    \/ At("anchor") /\ ~Precedes(store.anchor, store.heads)
    \/ At("recover") /\ operation.todo = {} /\ ~Verified(store)

Refuse ==
    /\ Refused
    /\ operation' = Idle
    /\ UNCHANGED <<store, disk, initialized, client, failures>>

Endure(kind) ==
    /\ failed[kind] < setting[kind]
    /\ failed' = [failed EXCEPT ![kind] = @ + 1]
    /\ UNCHANGED setting

\* Any call into the file system may fail and end the operation.
Throw ==
    /\ operation # Idle
    /\ operation' = Idle
    /\ Endure("throws")
    /\ UNCHANGED <<store, disk, initialized, client>>

\* SIGKILL: the lock is released by the operating system.
Die(p) ==
    /\ p \in initialized \/ operation.process = p
    /\ operation' = IF operation.process = p THEN Idle ELSE operation
    /\ initialized' = initialized \ {p}
    /\ Endure("deaths")
    /\ UNCHANGED <<store, disk, client>>

\* The host goes down: of the entries that nobody has synced any may be lost.
Between(d) ==
    {[k \in DOMAIN store[d] |-> IF k \in lost THEN disk[d][k] ELSE store[d][k]] :
        lost \in SUBSET DOMAIN store[d]}

Survivors ==
    [intents : Between("intents"), claims : Between("claims"),
     objects : Between("objects"), pending : Between("pending"),
     heads : {SubSeq(store.heads, 1, n) : n \in Len(disk.heads)..Len(store.heads)},
     finalizations : Between("finalizations"), anchor : {disk.anchor, store.anchor}]

HostCrashes ==
    /\ Endure("crashes")
    /\ store' \in Survivors
    /\ disk' = store'
    /\ initialized' = {}
    /\ operation' = Idle
    /\ UNCHANGED client
-----------------------------------------------------------------------------
Proceed ==
    \/ SyncDirectory
    \/ Open
    \/ \E i \in Intent : RecoverPending(i)
    \/ Verify \/ Ready
    \/ AdvanceHead \/ PublishFinalization \/ ReconcileAnchor
    \/ BeginReading \/ ObservePending \/ PutIntent
    \/ BindIntent \/ CheckPrior \/ Claim \/ CommitObject \/ StageFinalization
    \/ Answer
    \/ Refuse

Next ==
    \/ \E p \in setting.processes :
        \/ Initialize(p)
        \/ \E i \in Intent : Get(p, i) \/ Observe(p, i)
        \/ \E i \in Intent, r \in Records : Put(p, i, r)
        \/ \E input \in setting.offered : Finalize(p, input)
        \/ Die(p)
    \/ Proceed
    \/ Throw
    \/ HostCrashes

Spec == Init /\ [][Next]_vars

\* An operation that has the lock goes on, and a server that is not up is
\* started again: start() of the HTTPS server calls initialize().
Fairness ==
    /\ WF_vars(Proceed)
    /\ \A p \in Process : WF_vars(p \in setting.processes /\ Initialize(p))
LiveSpec == Spec /\ Fairness
-----------------------------------------------------------------------------
(* Properties *)

\* A transaction that has been staged can still be given its head: a restart,
\* an observation and a retry all start by doing so.
PendingsSettle ==
    \A i \in Intent : store.pending[i] # None => Fits(store.pending[i], store.heads)

\* A restart accepts the history: whatever has been interrupted, every head is
\* the only one of its intent, is vouched for by its claim and its object, and
\* has its finalization or the transaction that will publish it; there is no
\* finalization without a head and no object without a claim; and the external
\* anchor is not ahead of the chain, which a start would take for a rollback.
HistoryAccepted ==
    /\ Precedes(store.anchor, store.heads)
    /\ \A n \in DOMAIN store.heads :
        LET h == store.heads[n]
            i == h.input.intent
        IN  /\ store.claims[i] = h.input
            /\ store.objects[h.input.bundle] # None
            /\ store.finalizations[i] = h.input \/ store.pending[i] = h
            /\ \A m \in DOMAIN store.heads : store.heads[m].input.intent = i => m = n
    /\ \A i \in Intent : store.finalizations[i] # None =>
        \E n \in DOMAIN store.heads : store.heads[n].input = store.finalizations[i]
    /\ \A b \in Bundle : store.objects[b] # None =>
        \E i \in Intent : store.claims[i] # None /\ store.claims[i].bundle = b

\* A result that a client has received is never lost or replaced, neither by a
\* retry with other evidence nor by the loss of processes or of the host; and
\* the state in which a client has observed an intent is never taken back.
ResultsKept ==
    \A i \in Intent :
        /\ Rank(observed[i]) <= Rank(State(i))
        /\ released[i] # None =>
            \/ store.finalizations[i] = released[i]
            \/ /\ store.pending[i] # None
               /\ store.pending[i].input = released[i]
               /\ Fits(store.pending[i], store.heads)

\* A transaction that is durably staged by the only process is finalized in the
\* end (authority_wedged shows why a second process is another matter).
StagedSettles ==
    \A i \in Intent :
        (disk.pending[i] # None /\ Cardinality(setting.processes) = 1)
            ~> (store.finalizations[i] # None)
=============================================================================
