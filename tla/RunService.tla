----------------------------- MODULE RunService ------------------------------
(***************************************************************************)
(* The run service of src/run-service.js (class RunService): durable,      *)
(* idempotent commands on a run, and external model calls that are never   *)
(* repeated, on top of the signed archive.                                 *)
(*                                                                         *)
(* Several services (worker processes) may hold the same archive.  Each    *)
(* keeps a copy of the newest generation it knows in memory and serializes *)
(* its own commands; the archive's compare-and-swap on the expected head   *)
(* is all that orders two services.  The archive is taken as Archive and   *)
(* RunHistory describe it: a chain of generations, of which the first      *)
(* `durable' are known to be on disk.  A chain is never rewritten while a  *)
(* service lives, so the number of a generation stands for its digest.     *)
(*                                                                         *)
(* Commands are those of a run without phase state (submit, validate,      *)
(* commit, resolve, checkpoint, invokeModel, reconcileInvocation, redact). *)
(***************************************************************************)
EXTENDS Naturals, Sequences, FiniteSets

CONSTANTS
    Server,           \* services
    Actor,            \* living polities
    Request,          \* request ids that clients choose
    Invocation,       \* model invocation ids
    None,             \* JavaScript's null
    MaxTurns,         \* bound on the turns clients address
    Workloads         \* what may be asked of the services, and the bounds of it

ASSUME NoneIsDistinct == None \notin Server \cup Actor \cup Request \cup Invocation
ASSUME MaxTurnsIsNatural == MaxTurns \in Nat

VARIABLES
    chain,             \* the archive's generations
    durable,           \* how many of them are known to be on disk
    condition,         \* down, creating, running, failed or blocked
    head, memory,      \* what a service knows: this.head, #recovered and #state
    task, step,        \* the command its coordinator is executing, and where
    candidate,         \* the generation that command would publish
    model, modelStep,  \* the invocation its model coordinator is executing
    calls,             \* external calls made per invocation
    delivered,         \* replies that clients have received
    faults, hostCrashes,
    workload           \* the one of this behaviour; it never changes

archive == <<chain, durable>>
known == <<head, memory>>
work == <<task, step, candidate>>
invoking == <<model, modelStep>>
failures == <<faults, hostCrashes, workload>>
vars == <<archive, condition, known, work, invoking, calls, delivered, failures>>

-----------------------------------------------------------------------------
(* Data *)

\* invokeModel derives the ids of its two transactions from its request id.
Id == [request : Request, part : {"whole", "dispatch", "complete"}]
Subject == Actor \cup Invocation \cup {None}
Kind == {"submission", "validation", "commit", "resolution", "memory",
         "security", "model_dispatch", "model_completion"}
Command == [kind : Kind, of : Subject, turn : 0..MaxTurns]

\* The request ids and commands that clients send, the invocations they ask
\* for, the services there are, and how many generations, exceptions and deaths
\* of processes, and losses of the host there may be.  Only invokeModel
\* dispatches; a command names what it is about.
ASSUME WorkloadsAreClients == \A w \in Workloads :
    /\ w.asked \subseteq [request : Request, command : Command]
    /\ w.invoked \subseteq [request : Request, invocation : Invocation]
    /\ w.servers \subseteq Server
    /\ w.generations \in Nat /\ w.faults \in Nat /\ w.hostCrashes \in Nat
    /\ \A a \in w.asked :
        /\ a.command.kind # "model_dispatch"
        /\ a.command.kind \in {"submission", "validation"} => a.command.of \in Actor
        /\ a.command.kind = "model_completion" => a.command.of \in Invocation
        /\ a.command.kind = "resolution" => a.command.turn < MaxTurns

\* A reply is identified by the generation that its command produced.
Reply == [id : Id, command : Command, at : Nat]
Invoking == [status : {"none", "outcome_unknown", "completed"},
             request : Request \cup {None}]

\* open: the submission of each actor in this turn; rejected: the actors whose
\* opportunity is consumed; pending: committed but not resolved.
Open == {"none", "submitted", "validated", "accepted"}
Generation ==
    [turn : 0..MaxTurns, open : [Actor -> Open], rejected : SUBSET Actor,
     pending : BOOLEAN, stopped : BOOLEAN, requests : SUBSET Reply,
     invocations : [Invocation -> Invoking],
     status : {"COMPLETE", "REPLAY_INCOMPLETE_REDACTED"}]

Genesis ==
    [turn |-> 0, open |-> [a \in Actor |-> "none"], rejected |-> {},
     pending |-> FALSE, stopped |-> FALSE, requests |-> {},
     invocations |-> [i \in Invocation |-> [status |-> "none", request |-> None]],
     status |-> "COMPLETE"]

\* archive.redact drops the service journal with the bundle it may repeat.
RedactedFrom(g) ==
    [g EXCEPT !.requests = {}, !.status = "REPLAY_INCOMPLETE_REDACTED",
              !.invocations = Genesis.invocations]

Newest == chain[Len(chain)]
Unresolved(g) == {i \in Invocation : g.invocations[i].status = "outcome_unknown"}
Validated(g) == {a \in Actor : g.open[a] = "validated"}
-----------------------------------------------------------------------------
NoTask == [caller |-> None, id |-> None, command |-> None]
NoModel == [request |-> None, invocation |-> None]
NoMemory == RedactedFrom(Genesis)

Init ==
    /\ chain = <<>> /\ durable = 0
    /\ condition = [s \in Server |-> "down"]
    /\ head = [s \in Server |-> 0]
    /\ memory = [s \in Server |-> NoMemory]
    /\ task = [s \in Server |-> NoTask]
    /\ step = [s \in Server |-> "free"]
    /\ candidate = [s \in Server |-> NoMemory]
    /\ model = [s \in Server |-> NoModel]
    /\ modelStep = [s \in Server |-> "free"]
    /\ calls = [i \in Invocation |-> 0]
    /\ delivered = {}
    /\ faults = 0 /\ hostCrashes = 0
    /\ workload \in Workloads

\* A generation is being written: the archive's lock is held until it is
\* synced or its writer dies, and every other access is refused meanwhile.
Unlocked == \A s \in Server : step[s] # "linked" /\ condition[s] # "creating"

\* archive.head() answers with the head the service knows.
Fresh(s) == condition[s] = "running" /\ Unlocked /\ head[s] = Len(chain)

Serving(s, number, g) ==
    /\ head' = [head EXCEPT ![s] = number]
    /\ memory' = [memory EXCEPT ![s] = g]
Enter(s, label) == step' = [step EXCEPT ![s] = label]
Become(s, label) == condition' = [condition EXCEPT ![s] = label]
InvocationEnds(s) ==
    /\ model' = [model EXCEPT ![s] = NoModel]
    /\ modelStep' = [modelStep EXCEPT ![s] = "free"]

\* RunService.create publishes the first generation.
Create(s) ==
    /\ condition[s] = "down" /\ s \in workload.servers
    /\ Unlocked /\ chain = <<>>
    /\ chain' = <<Genesis>>
    /\ Become(s, "creating")
    /\ UNCHANGED <<durable, known, work, invoking, calls, delivered, failures>>

Created(s) ==
    /\ condition[s] = "creating"
    /\ durable' = Len(chain)
    /\ Serving(s, 1, Genesis)
    /\ Become(s, "running")
    /\ UNCHANGED <<chain, work, invoking, calls, delivered, failures>>

\* RunService.recover loads the newest generation, unless it is redacted.
Recover(s) ==
    /\ condition[s] = "down" /\ s \in workload.servers
    /\ Unlocked
    /\ chain # <<>> /\ Newest.status = "COMPLETE"
    /\ Serving(s, Len(chain), Newest)
    /\ Become(s, "running")
    /\ UNCHANGED <<archive, work, invoking, calls, delivered, failures>>

-----------------------------------------------------------------------------
(* #transaction: one command at a time per service *)

\* The coordinator takes a command up; its first act is to compare heads.
Begin(s, caller, id, c) ==
    /\ step[s] = "free"
    /\ Fresh(s)
    /\ task' = [task EXCEPT ![s] = [caller |-> caller, id |-> id, command |-> c]]
    /\ Enter(s, "fresh")
    /\ UNCHANGED <<archive, condition, known, candidate, invoking, calls,
                   delivered, failures>>

\* submit, validate, commit, resolve, checkpoint or reconcileInvocation.
ClientCommand(s) ==
    \E a \in workload.asked :
        Begin(s, "client", [request |-> a.request, part |-> "whole"], a.command)

\* The transaction is over.  A client has its answer; invokeModel goes from its
\* dispatch to the call, or is over too.
Finish(s, succeeded) ==
    /\ task' = [task EXCEPT ![s] = NoTask]
    /\ candidate' = [candidate EXCEPT ![s] = NoMemory]
    /\ Enter(s, "free")
    /\ IF task[s].caller # "model" THEN UNCHANGED invoking
       ELSE IF succeeded /\ modelStep[s] = "dispatch"
       THEN modelStep' = [modelStep EXCEPT ![s] = "call"] /\ UNCHANGED model
       ELSE InvocationEnds(s)

Carried(s) == {r \in memory[s].requests : r.id = task[s].id}

\* A request that was carried out before gets the same reply again.
ReplyAgain(s) ==
    /\ step[s] = "fresh"
    /\ \E r \in Carried(s) :
        /\ r.command = task[s].command
        /\ delivered' = delivered \cup {r}
    /\ Finish(s, TRUE)
    /\ UNCHANGED <<archive, condition, known, calls, failures>>

\* Mutant of CertainEnough: an unknown outcome blocks its reconciliation too.
NeverUncertain(s) == Unresolved(memory[s]) = {}
\* MODEL_OUTCOME_UNKNOWN blocks everything but reconciliation and security.
CertainEnough(s) ==
    \/ task[s].command.kind \in {"security", "model_completion"}
    \/ Unresolved(memory[s]) = {}

\* Mutant of Permitted: requests that were carried out are not looked up.
PermittedAnew(s) == step[s] = "fresh" /\ CertainEnough(s)
Permitted(s) == step[s] = "fresh" /\ Carried(s) = {} /\ CertainEnough(s)

ReplyTo(s) == [id |-> task[s].id, command |-> task[s].command, at |-> head[s] + 1]

\* The command has turned a copy of the memory into g; an independent replay
\* accepts it, and the request is recorded in it.
Stage(s, g) ==
    /\ Permitted(s)
    /\ candidate' = [candidate EXCEPT ![s] = [g EXCEPT !.requests = @ \cup {ReplyTo(s)}]]
    /\ Enter(s, "candidate")
    /\ UNCHANGED <<archive, condition, known, task, invoking, calls, delivered,
                   failures>>

\* What the assertions of each command ask of the generation it starts from.
OpenTo(g, c) == ~g.stopped /\ ~g.pending /\ c.turn = g.turn

\* Mutant of MaySubmit: a sealed turn still takes submissions.
MaySubmitLate(g, c) ==
    c.kind = "submission" /\ ~g.stopped /\ c.turn = g.turn /\ g.open[c.of] = "none"
\* One submission per actor and turn; a rejected one may only be repeated
\* unchanged, by a corrective retry that names it.
MaySubmit(g, c) ==
    c.kind = "submission" /\ OpenTo(g, c) /\ g.open[c.of] = "none"
MayValidate(g, c) ==
    c.kind = "validation" /\ OpenTo(g, c) /\ g.open[c.of] = "submitted"

\* The accepted set accounts for every actor whose opportunity is not consumed.
MayCommit(g, c) ==
    c.kind = "commit" /\ OpenTo(g, c) /\ Validated(g) \cup g.rejected = Actor
MayResolve(g, c) ==
    c.kind = "resolution" /\ ~g.stopped /\ g.pending /\ c.turn = g.turn
MayDispatch(g, c) ==
    /\ c.kind = "model_dispatch" /\ ~g.stopped
    /\ g.invocations[c.of].status = "none"
MayComplete(g, c) ==
    /\ c.kind = "model_completion"
    /\ g.invocations[c.of].status = "outcome_unknown"

Admissible(g, c) ==
    \/ MaySubmit(g, c) \/ MayValidate(g, c) \/ MayCommit(g, c)
    \/ MayResolve(g, c) \/ MayDispatch(g, c) \/ MayComplete(g, c)
    \/ c.kind \in {"memory", "security"}

Submit(s) == \E c \in {task[s].command}, g \in {memory[s]} :
    /\ MaySubmit(g, c)
    /\ Stage(s, [g EXCEPT !.open[c.of] = "submitted"])

\* The verdict depends on the actions; the same actions get the same verdict.
Validate(s) == \E c \in {task[s].command}, g \in {memory[s]} :
    /\ MayValidate(g, c)
    /\ \/ c.of \notin g.rejected /\ Stage(s, [g EXCEPT !.open[c.of] = "validated"])
       \/ Stage(s, [g EXCEPT !.open[c.of] = "none", !.rejected = @ \cup {c.of}])

Commit(s) == \E c \in {task[s].command}, g \in {memory[s]} :
    /\ MayCommit(g, c)
    /\ Stage(s, [g EXCEPT !.pending = TRUE,
                          !.open = [a \in Actor |-> IF @[a] = "validated"
                                                    THEN "accepted" ELSE @[a]]])

Resolve(s) == \E c \in {task[s].command}, g \in {memory[s]} :
    /\ MayResolve(g, c)
    /\ Stage(s, [g EXCEPT !.turn = @ + 1, !.pending = FALSE, !.rejected = {},
                          !.open = Genesis.open])

\* A memory, interview, projection or snapshot record leaves the turn alone; a
\* security record may be the disposition that stops the run.
Checkpoint(s) ==
    /\ task[s].command.kind \in {"memory", "security"}
    /\ \/ Stage(s, memory[s])
       \/ /\ task[s].command.kind = "security"
          /\ Stage(s, [memory[s] EXCEPT !.stopped = TRUE])

\* The invocation is journaled, its outcome unknown, before the call is made.
Dispatch(s) == \E c \in {task[s].command}, g \in {memory[s]} :
    /\ MayDispatch(g, c)
    /\ Stage(s, [g EXCEPT !.invocations[c.of] =
                    [status |-> "outcome_unknown", request |-> task[s].id.request]])

Complete(s) == \E c \in {task[s].command}, g \in {memory[s]} :
    MayComplete(g, c) /\ Stage(s, [g EXCEPT !.invocations[c.of].status = "completed"])

\* An assertion fails before anything was published: nothing has happened.
\* commitTurn also refuses accepted actions in which a unit acts twice.
Refuse(s) ==
    /\ step[s] = "fresh"
    /\ IF Carried(s) # {} THEN \A r \in Carried(s) : r.command # task[s].command
       ELSE \/ ~(CertainEnough(s) /\ Admissible(memory[s], task[s].command))
            \/ task[s].command.kind = "commit"
    /\ Finish(s, FALSE)
    /\ UNCHANGED <<archive, condition, known, calls, delivered, failures>>

-----------------------------------------------------------------------------
(* Publication of the candidate *)

\* Mutant of Admitted: the archive does not compare the expected head.
AdmittedAnyway(s) == Unlocked
\* archive.publish and archive.redact compare the expected head; only
\* a redaction is accepted after a redaction.
Admitted(s) ==
    /\ Unlocked
    /\ head[s] = Len(chain)
    /\ task[s].caller # "redact" => Newest.status = "COMPLETE"

Redacting(s) == task[s].caller = "redact"

\* The generation becomes visible ...
LinkGeneration(s) ==
    /\ step[s] = "candidate"
    /\ Admitted(s) /\ Len(chain) < workload.generations
    /\ chain' = Append(chain, IF Redacting(s) THEN RedactedFrom(Newest) ELSE candidate[s])
    /\ Enter(s, "linked")
    /\ UNCHANGED <<durable, condition, known, task, candidate, invoking, calls,
                   delivered, failures>>

\* Mutant of SyncGeneration: the reply does not wait for the disk.
SyncForgotten(s) ==
    /\ step[s] = "linked"
    /\ Enter(s, "published")
    /\ UNCHANGED <<archive, condition, known, task, candidate, invoking, calls,
                   delivered, failures>>
\* ... and is on disk, with every earlier one, before publish returns.
SyncGeneration(s) ==
    /\ step[s] = "linked"
    /\ durable' = Len(chain)
    /\ Enter(s, "published")
    /\ UNCHANGED <<chain, condition, known, task, candidate, invoking, calls,
                   delivered, failures>>

\* The service moves to the generation it published and replies.
ReplyPublished(s) ==
    /\ step[s] = "published" /\ ~Redacting(s)
    /\ Serving(s, head[s] + 1, candidate[s])
    /\ delivered' = delivered \cup {ReplyTo(s)}
    /\ Finish(s, TRUE)
    /\ UNCHANGED <<archive, condition, calls, failures>>

\* A publication that throws leaves its outcome open: the service has to be
\* restarted.  A redaction that throws leaves it quarantined.
Fails(s) ==
    /\ IF Redacting(s)
       THEN Serving(s, head[s], NoMemory) /\ UNCHANGED condition
       ELSE Become(s, "failed") /\ UNCHANGED known
    /\ Finish(s, FALSE)

\* The archive refuses: stale head, redacted run, or locked.
PublicationRefused(s) ==
    /\ step[s] = "candidate"
    /\ ~Admitted(s) \/ Len(chain) = workload.generations
    /\ Fails(s)
    /\ UNCHANGED <<archive, calls, delivered, failures>>

-----------------------------------------------------------------------------
(* redact: the service is quarantined whatever becomes of the redaction.   *)

Redact(s) ==
    /\ condition[s] \in {"running", "failed", "blocked"}
    /\ step[s] = "free"
    /\ Become(s, "blocked")
    /\ task' = [task EXCEPT ![s] = [NoTask EXCEPT !.caller = "redact"]]
    /\ Enter(s, "candidate")
    /\ UNCHANGED <<archive, known, candidate, invoking, calls, delivered, failures>>

RedactReturns(s) ==
    /\ step[s] = "published" /\ Redacting(s)
    /\ Serving(s, head[s] + 1, NoMemory)
    /\ Finish(s, TRUE)
    /\ UNCHANGED <<archive, condition, calls, delivered, failures>>

-----------------------------------------------------------------------------
(* invokeModel: one invocation at a time per service *)

InvokeModel(s) ==
    /\ modelStep[s] = "free"
    /\ Fresh(s)
    /\ \E call \in workload.invoked : model' = [model EXCEPT ![s] = call]
    /\ modelStep' = [modelStep EXCEPT ![s] = "lookup"]
    /\ UNCHANGED <<archive, condition, known, work, calls, delivered, failures>>

Invoked(s) == memory[s].invocations[model[s].invocation]

\* Mutant of NeverJournaled: an unknown outcome is no obstacle.
NotCompleted(s) == memory[s] # NoMemory /\ Invoked(s).status # "completed"
NeverJournaled(s) == memory[s] # NoMemory /\ Invoked(s).status = "none"

\* Only an invocation that was never journaled goes on to be dispatched.
LookUp(s) ==
    /\ modelStep[s] = "lookup"
    /\ NeverJournaled(s)
    /\ modelStep' = [modelStep EXCEPT ![s] = "dispatch"]
    /\ UNCHANGED <<archive, condition, known, work, model, calls, delivered, failures>>

\* A completed invocation is answered from the journal.
AnswerJournaled(s) ==
    /\ modelStep[s] = "lookup"
    /\ Invoked(s) = [status |-> "completed", request |-> model[s].request]
    /\ \E r \in memory[s].requests :
        /\ r.command.kind = "model_completion"
        /\ r.command.of = model[s].invocation
        /\ delivered' = delivered \cup {r}
    /\ InvocationEnds(s)
    /\ UNCHANGED <<archive, condition, known, work, calls, failures>>

\* The dispatch and the completion are transactions like any other.
ModelCommand(s) ==
    /\ modelStep[s] \in {"dispatch", "complete"}
    /\ Begin(s, "model",
             [request |-> model[s].request, part |-> modelStep[s]],
             [kind |-> IF modelStep[s] = "dispatch" THEN "model_dispatch" ELSE "model_completion",
              of |-> model[s].invocation, turn |-> 0])

\* The external call cannot be taken back; it may throw.
Call(s) ==
    /\ modelStep[s] = "call"
    /\ calls' = [calls EXCEPT ![model[s].invocation] = @ + 1]
    /\ \/ modelStep' = [modelStep EXCEPT ![s] = "complete"] /\ UNCHANGED model
       \/ InvocationEnds(s)
    /\ UNCHANGED <<archive, condition, known, work, delivered, failures>>

\* invokeModel throws: the outcome is unknown or belongs to another request, or
\* the service is stale, failed or quarantined.
InvocationRefused(s) ==
    /\ \/ /\ modelStep[s] = "lookup"
          /\ ~NeverJournaled(s)
          /\ Invoked(s) # [status |-> "completed", request |-> model[s].request]
       \/ modelStep[s] \in {"dispatch", "complete"} /\ step[s] = "free" /\ ~Fresh(s)
    /\ InvocationEnds(s)
    /\ UNCHANGED <<archive, condition, known, work, calls, delivered, failures>>

-----------------------------------------------------------------------------
(* Failures *)

\* An exception in a live service: before publication it undoes the command,
\* during publication it leaves the outcome open, after it the reply is lost.
Throw(s) ==
    /\ faults < workload.faults
    /\ faults' = faults + 1
    /\ \/ /\ step[s] \in {"fresh", "candidate"} /\ ~Redacting(s)
          /\ Finish(s, FALSE)
          /\ UNCHANGED <<condition, known>>
       \/ step[s] \in {"candidate", "linked"} /\ Fails(s)
       \/ step[s] = "published" /\ Redacting(s) /\ Fails(s)
       \/ /\ step[s] = "published" /\ ~Redacting(s)
          /\ Serving(s, head[s] + 1, candidate[s])
          /\ Become(s, "failed")
          /\ Finish(s, FALSE)
    /\ UNCHANGED <<archive, calls, delivered, hostCrashes, workload>>

Forgets(s) ==
    /\ Become(s, "down")
    /\ Serving(s, 0, NoMemory)
    /\ task' = [task EXCEPT ![s] = NoTask]
    /\ candidate' = [candidate EXCEPT ![s] = NoMemory]
    /\ Enter(s, "free")
    /\ InvocationEnds(s)

\* A service that has failed, is quarantined or is stale is stopped.
Stop(s) ==
    /\ \/ condition[s] \in {"failed", "blocked"}
       \/ condition[s] = "running" /\ head[s] # Len(chain)
    /\ step[s] = "free" /\ modelStep[s] = "free"
    /\ Forgets(s)
    /\ UNCHANGED <<archive, calls, delivered, failures>>

\* The process dies: what it linked stays visible.
Die(s) ==
    /\ faults < workload.faults
    /\ faults' = faults + 1
    /\ condition[s] # "down"
    /\ Forgets(s)
    /\ UNCHANGED <<archive, calls, delivered, hostCrashes, workload>>

\* The host is lost: newest generations that were not synced may be gone.
HostCrashes ==
    /\ hostCrashes < workload.hostCrashes
    /\ hostCrashes' = hostCrashes + 1
    /\ \E n \in durable..Len(chain) :
        chain' = SubSeq(chain, 1, n) /\ durable' = n
    /\ condition' = [s \in Server |-> "down"]
    /\ head' = [s \in Server |-> 0]
    /\ memory' = [s \in Server |-> NoMemory]
    /\ task' = [s \in Server |-> NoTask]
    /\ step' = [s \in Server |-> "free"]
    /\ candidate' = [s \in Server |-> NoMemory]
    /\ model' = [s \in Server |-> NoModel]
    /\ modelStep' = [s \in Server |-> "free"]
    /\ UNCHANGED <<calls, delivered, faults, workload>>

-----------------------------------------------------------------------------
Apply(s) ==
    /\ step[s] = "fresh"
    /\ \/ Submit(s) \/ Validate(s) \/ Commit(s) \/ Resolve(s)
       \/ Checkpoint(s) \/ Dispatch(s) \/ Complete(s)
\* What a service does by itself once it has taken a command up.
Proceed(s) ==
    \/ Created(s) \/ ReplyAgain(s) \/ Apply(s) \/ Refuse(s)
    \/ LinkGeneration(s) \/ SyncGeneration(s) \/ ReplyPublished(s)
    \/ PublicationRefused(s) \/ RedactReturns(s)
ProceedModel(s) ==
    \/ LookUp(s) \/ AnswerJournaled(s) \/ ModelCommand(s) \/ Call(s)
    \/ InvocationRefused(s)

Next ==
    \/ \E s \in Server :
        \/ Create(s) \/ Recover(s) \/ Stop(s)
        \/ ClientCommand(s) \/ InvokeModel(s) \/ Redact(s)
        \/ Proceed(s) \/ ProceedModel(s) \/ Throw(s) \/ Die(s)
    \/ HostCrashes

Spec == Init /\ [][Next]_vars

\* Services run on, are restarted when they must be, and an operator reconciles
\* invocations of unknown outcome, under a request id that is not used yet,
\* whenever a service can be asked to.
Used(id) == \E r \in Newest.requests : r.id = id
Reconcile(s) ==
    ClientCommand(s) /\ task'[s].command.kind = "model_completion" /\ ~Used(task'[s].id)
Fairness == \A s \in Server :
    /\ WF_vars(Proceed(s)) /\ WF_vars(ProceedModel(s))
    /\ SF_vars(Stop(s)) /\ WF_vars(Recover(s))
    /\ SF_vars(Reconcile(s))
LiveSpec == Spec /\ Fairness

-----------------------------------------------------------------------------
(* Properties *)

\* An external model call is made at most once per invocation, whatever crashes,
\* retries and recoveries happen around it and whichever service makes it.
CalledOnce == \A i \in Invocation : calls[i] <= 1

\* A call that was made is journaled on disk before: no crash forgets that its
\* outcome is unknown, short of a redaction, which ends the run.
CallsJournaled ==
    \A i \in Invocation : calls[i] > 0 =>
        \E n \in 1..durable : chain[n].invocations[i].status # "none"

\* A request id has one effect and one reply, however often it is retried on
\* whichever service: no generation records two, and replies agree.  The loss of
\* the host may take back a reply that was repeated from a generation which its
\* publisher had not synced when it stopped.
EffectOnce ==
    /\ \A n \in 1..Len(chain) : \A q, r \in chain[n].requests : q.id = r.id => q = r
    /\ hostCrashes = 0 => \A q, r \in delivered : q.id = r.id => q = r

\* No service publishes over what another has published: a generation keeps the
\* journal of the one before and moves its invocations and its turn forward only.
NothingLost ==
    \A n \in 1..Len(chain) - 1 :
        LET g == chain[n]
            h == chain[n + 1]
        IN  h.status = "COMPLETE" =>
            /\ g.status = "COMPLETE"
            /\ g.requests \subseteq h.requests
            /\ \A i \in Invocation :
                /\ g.invocations[i].status # "none" => h.invocations[i].status # "none"
                /\ g.invocations[i].status = "completed" => h.invocations[i] = g.invocations[i]
            /\ g.turn <= h.turn /\ (g.stopped => h.stopped)

\* A turn is committed with every actor accounted for, and stays as committed
\* until it is resolved.
TurnsSealed ==
    \A n \in 1..Len(chain) : chain[n].pending =>
        /\ \A a \in Actor : chain[n].open[a] = "accepted" \/ a \in chain[n].rejected
        /\ n < Len(chain) /\ chain[n + 1].turn = chain[n].turn =>
            /\ chain[n + 1].pending
            /\ chain[n + 1].open = chain[n].open
            /\ chain[n + 1].rejected = chain[n].rejected

\* An invocation of unknown outcome is eventually reconciled, unless the bounds
\* of the workload leave no id or no generation for it.
Spent ==
    \/ Len(chain) = workload.generations
    \/ \A a \in workload.asked : a.command.kind = "model_completion" =>
            Used([request |-> a.request, part |-> "whole"])
OutcomesReconciled ==
    \A i \in Invocation :
        (chain # <<>> /\ i \in Unresolved(Newest))
            ~> (chain = <<>> \/ i \notin Unresolved(Newest) \/ Spent)
=============================================================================
