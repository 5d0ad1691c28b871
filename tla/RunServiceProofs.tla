--------------------------- MODULE RunServiceProofs ---------------------------
(* The safety invariants of RunService, for any services, requests,          *)
(* invocations, workloads and bounds.                                        *)
EXTENDS RunService, SequenceTheorems, TLAPS

-----------------------------------------------------------------------------
(* The inductive invariant: types *)

Condition == {"down", "creating", "running", "failed", "blocked"}
Label == {"free", "fresh", "candidate", "linked", "published"}
ModelLabel == {"free", "lookup", "dispatch", "call", "complete"}
Task == [caller : {"client", "model", "redact", None},
         id : Id \cup {None}, command : Command \cup {None}]
Model == [request : Request \cup {None}, invocation : Invocation \cup {None}]

TypeOK ==
    /\ chain \in Seq(Generation)
    /\ durable \in 0..Len(chain)
    /\ condition \in [Server -> Condition]
    /\ head \in [Server -> Nat]
    /\ memory \in [Server -> Generation]
    /\ task \in [Server -> Task]
    /\ step \in [Server -> Label]
    /\ candidate \in [Server -> Generation]
    /\ model \in [Server -> Model]
    /\ modelStep \in [Server -> ModelLabel]
    /\ calls \in [Invocation -> Nat]
    /\ delivered \subseteq Reply
    /\ faults \in Nat /\ hostCrashes \in Nat
    /\ workload \in Workloads

-----------------------------------------------------------------------------
(* The inductive invariant: the chain *)

Accounted(g) == \A a \in Actor : g.open[a] = "accepted" \/ a \in g.rejected

\* A generation by itself.  Whoever was dispatched is journaled.
Sound(g) ==
    /\ g.status # "COMPLETE" => g.requests = {}
    /\ \A q, r \in g.requests : q.id = r.id => q = r
    /\ \A r \in g.requests : r.command.kind = "model_dispatch" =>
           /\ r.command.of \in Invocation
           /\ g.invocations[r.command.of].status # "none"
    /\ g.pending => Accounted(g)

\* A generation and any later one.
KeepsTurn(g, h) ==
    /\ g.turn <= h.turn
    /\ g.pending /\ h.turn = g.turn =>
           h.pending /\ h.open = g.open /\ h.rejected = g.rejected
KeepsInvocations(g, h) ==
    \A i \in Invocation :
        /\ g.invocations[i].status # "none" => h.invocations[i].status # "none"
        /\ g.invocations[i].status = "completed" => h.invocations[i] = g.invocations[i]
Keeps(g, h) ==
    /\ KeepsTurn(g, h)
    /\ h.status = "COMPLETE" =>
        /\ g.status = "COMPLETE"
        /\ g.requests \subseteq h.requests
        /\ KeepsInvocations(g, h)
        /\ g.stopped => h.stopped

Chained ==
    /\ \A n \in 1..Len(chain) : Sound(chain[n])
    /\ \A m, n \in 1..Len(chain) : m <= n => Keeps(chain[m], chain[n])

-----------------------------------------------------------------------------
(* The inductive invariant: the services *)

\* The archive's lock has one holder.
Holds(s) == step[s] = "linked" \/ condition[s] = "creating"
Locking ==
    /\ \A s, t \in Server : Holds(s) /\ Holds(t) => s = t
    /\ \A s \in Server : condition[s] = "creating" => chain = <<Genesis>>

\* What a service knows is a generation of the chain, or nothing.
KnownAt(s) ==
    /\ condition[s] \in {"down", "creating"} =>
           /\ step[s] = "free" /\ modelStep[s] = "free"
           /\ memory[s] = NoMemory
    /\ condition[s] \in {"running", "failed", "blocked"} => head[s] \in 1..Len(chain)
    /\ condition[s] \in {"running", "failed"} => memory[s] = chain[head[s]]
    /\ condition[s] = "blocked" => memory[s] \in {NoMemory, chain[head[s]]}

\* Commands are as the clients and invokeModel make them.
Proper(c) ==
    /\ c \in Command
    /\ c.kind \in {"submission", "validation"} => c.of \in Actor
    /\ c.kind \in {"model_dispatch", "model_completion"} => c.of \in Invocation
    /\ c.kind = "resolution" => c.turn < MaxTurns
Dispatching(s) == task[s].caller = "model" /\ modelStep[s] = "dispatch"
TaskAt(s) ==
    /\ step[s] # "free" => task[s].caller \in {"client", "model", "redact"}
    /\ step[s] # "free" /\ ~Redacting(s) =>
           condition[s] = "running" /\ task[s].id \in Id /\ Proper(task[s].command)
    /\ step[s] # "free" /\ Redacting(s) => condition[s] = "blocked" /\ step[s] # "fresh"
    /\ step[s] # "free" /\ ~Redacting(s) =>
           (task[s].command.kind = "model_dispatch" <=> Dispatching(s))
    /\ step[s] # "free" /\ task[s].caller = "model" =>
           modelStep[s] \in {"dispatch", "complete"}
    /\ step[s] # "free" /\ Dispatching(s) => task[s].command.of = model[s].invocation

\* The candidate is made from what the service knows, by the command.
Moves(g, c, h) ==
    /\ h.status = g.status
    /\ KeepsTurn(g, h) /\ KeepsInvocations(g, h)
    /\ g.stopped => h.stopped
    /\ h.pending => g.pending \/ Accounted(h)
    /\ g.pending /\ h.pending => h.open = g.open /\ h.rejected = g.rejected
    /\ \A i \in Invocation :
        IF c.kind = "model_dispatch" /\ c.of = i
        THEN g.invocations[i].status = "none" /\ h.invocations[i].status # "none"
        ELSE g.invocations[i].status = "none" => h.invocations[i].status = "none"
Makes(g, c, r, h) ==
    /\ h.requests = g.requests \cup {r}
    /\ \A q \in g.requests : q.id # r.id
    /\ Moves(g, c, h)
PublicationAt(s) ==
    /\ step[s] \in {"candidate", "linked", "published"} /\ ~Redacting(s) =>
           Makes(memory[s], task[s].command, ReplyTo(s), candidate[s])
    /\ step[s] \in {"linked", "published"} =>
           /\ head[s] + 1 \in 1..Len(chain)
           /\ ~Redacting(s) => chain[head[s] + 1] = candidate[s]
    /\ step[s] = "linked" => Len(chain) = head[s] + 1
    /\ step[s] = "published" => head[s] + 1 <= durable

InvocationAt(s) ==
    /\ modelStep[s] # "free" =>
           model[s].request \in Request /\ model[s].invocation \in Invocation
    /\ modelStep[s] = "dispatch" /\ condition[s] = "running" =>
           Invoked(s).status = "none"

ServiceAt(s) == KnownAt(s) /\ TaskAt(s) /\ PublicationAt(s) /\ InvocationAt(s)
Services == \A s \in Server : ServiceAt(s)

-----------------------------------------------------------------------------
(* The inductive invariant: calls and replies *)

Journaled(i, n) == \E k \in 1..n : chain[k].invocations[i].status # "none"
\* Who has the right to make the call of an invocation, and the only one.
Claims(s, i) ==
    /\ model[s].invocation = i
    /\ \/ modelStep[s] = "call"
       \/ step[s] \in {"linked", "published"} /\ Dispatching(s)
Claimed ==
    /\ \A i \in Invocation : calls[i] <= 1 /\ (calls[i] = 1 => Journaled(i, durable))
    /\ \A s \in Server, i \in Invocation : Claims(s, i) =>
        /\ calls[i] = 0
        /\ Journaled(i, Len(chain))
        /\ modelStep[s] = "call" => Journaled(i, durable)
    /\ \A s, t \in Server, i \in Invocation : Claims(s, i) /\ Claims(t, i) => s = t

Replied == hostCrashes = 0 =>
    \A r \in delivered : \E n \in 1..Len(chain) : r \in chain[n].requests

IInv == TypeOK /\ Chained /\ Locking /\ Services /\ Claimed /\ Replied

-----------------------------------------------------------------------------
(* Generations *)

LEMMA GenesisType == Genesis \in Generation /\ NoMemory \in Generation
<1>1. Genesis.invocations \in [Invocation -> Invoking] /\ Genesis.open \in [Actor -> Open]
  BY DEF Genesis, Invoking, Open
<1>2. Genesis \in Generation
  BY <1>1, MaxTurnsIsNatural DEF Genesis, Generation
<1>3. QED
  BY <1>1, <1>2 DEF NoMemory, RedactedFrom, Generation

LEMMA RedactedType ==
    ASSUME NEW g \in Generation
    PROVE  /\ RedactedFrom(g) \in Generation
           /\ RedactedFrom(g).requests = {}
           /\ RedactedFrom(g).status = "REPLAY_INCOMPLETE_REDACTED"
           /\ RedactedFrom(g).turn = g.turn /\ RedactedFrom(g).pending = g.pending
           /\ RedactedFrom(g).open = g.open /\ RedactedFrom(g).rejected = g.rejected
           /\ RedactedFrom(g).stopped = g.stopped
  BY DEF Genesis, RedactedFrom, Generation, Invoking

LEMMA NoMemoryIsEmpty ==
    /\ NoMemory.requests = {}
    /\ \A i \in Invocation : NoMemory.invocations[i].status = "none"
  BY DEF NoMemory, RedactedFrom, Genesis

LEMMA GenesisSound == Sound(Genesis) /\ Keeps(Genesis, Genesis)
  BY MaxTurnsIsNatural DEF Genesis, Sound, Keeps, KeepsTurn, KeepsInvocations

LEMMA KeepsReflexive == ASSUME NEW g \in Generation PROVE Keeps(g, g)
  BY MaxTurnsIsNatural DEF Generation, Keeps, KeepsTurn, KeepsInvocations

LEMMA KeepsTransitive ==
    ASSUME NEW f \in Generation, NEW g \in Generation, NEW h \in Generation,
           Keeps(f, g), Keeps(g, h)
    PROVE  Keeps(f, h)
<1>1. f.turn \in Nat /\ g.turn \in Nat /\ h.turn \in Nat
  BY MaxTurnsIsNatural DEF Generation
<1>2. KeepsTurn(f, h)
  BY <1>1 DEF Keeps, KeepsTurn
<1>3. h.status = "COMPLETE" => KeepsInvocations(f, h)
  BY DEF Keeps, KeepsInvocations
<1>4. QED
  BY <1>2, <1>3 DEF Keeps

LEMMA RedactedKeeps ==
    ASSUME NEW g \in Generation, Sound(g)
    PROVE  Sound(RedactedFrom(g)) /\ Keeps(g, RedactedFrom(g))
<1>1. g.turn \in Nat
  BY MaxTurnsIsNatural DEF Generation
<1>2. QED
  BY <1>1, RedactedType DEF Sound, Keeps, KeepsTurn, Accounted

LEMMA MadeKeeps ==
    ASSUME NEW g \in Generation, NEW h \in Generation, NEW c, NEW r,
           Sound(g), g.status = "COMPLETE", Makes(g, c, r, h), r.command = c,
           c.kind = "model_dispatch" => c.of \in Invocation
    PROVE  Sound(h) /\ Keeps(g, h)
<1>1. Keeps(g, h)
  BY DEF Makes, Moves, Keeps
<1>2. \A p, q \in h.requests : p.id = q.id => p = q
  BY DEF Makes, Sound
<1>3. \A q \in h.requests : q.command.kind = "model_dispatch" =>
          q.command.of \in Invocation /\ h.invocations[q.command.of].status # "none"
  BY DEF Makes, Moves, KeepsInvocations, Sound
<1>4. h.pending => Accounted(h)
  BY DEF Makes, Moves, Sound, Accounted
<1>5. Sound(h)
  BY <1>2, <1>3, <1>4 DEF Makes, Moves, Sound
<1>6. QED BY <1>1, <1>5

LEMMA ChainedAppend ==
    ASSUME chain \in Seq(Generation), Chained, NEW g \in Generation, Sound(g),
           chain # <<>> => Keeps(Newest, g), chain' = Append(chain, g)
    PROVE  Chained'
<1>1. /\ Len(chain) \in Nat /\ Len(chain') = Len(chain) + 1
      /\ chain'[Len(chain) + 1] = g
      /\ \A n \in 1..Len(chain) : chain'[n] = chain[n] /\ chain[n] \in Generation
  OBVIOUS
<1>2. \A n \in 1..Len(chain') : n \in 1..Len(chain) \/ n = Len(chain) + 1
  BY <1>1
<1>3. \A n \in 1..Len(chain') : Sound(chain'[n])
  BY <1>1, <1>2 DEF Chained
<1>4. ASSUME NEW m \in 1..Len(chain'), NEW n \in 1..Len(chain'), m <= n
      PROVE  Keeps(chain'[m], chain'[n])
  <2>1. CASE n \in 1..Len(chain)
    <3>1. m \in 1..Len(chain)
      BY <1>1, <1>4, <2>1
    <3>2. QED
      BY <1>1, <1>4, <2>1, <3>1 DEF Chained
  <2>2. CASE n = Len(chain) + 1 /\ m \in 1..Len(chain)
    <3>1. Len(chain) \in 1..Len(chain) /\ m <= Len(chain) /\ chain # <<>>
      BY <1>1, <2>2
    <3>2. Keeps(chain[m], Newest) /\ Newest \in Generation
      BY <1>1, <2>2, <3>1 DEF Chained, Newest
    <3>3. QED
      BY <1>1, <2>2, <3>1, <3>2, KeepsTransitive
  <2>3. CASE n = Len(chain) + 1 /\ m = Len(chain) + 1
    BY <1>1, <2>3, KeepsReflexive
  <2>4. QED
    BY <1>2, <2>1, <2>2, <2>3
<1>5. QED
  BY <1>3, <1>4 DEF Chained

LEMMA ChainedPrefix ==
    ASSUME chain \in Seq(Generation), Chained, NEW n \in 0..Len(chain),
           chain' = SubSeq(chain, 1, n)
    PROVE  /\ chain' \in Seq(Generation) /\ Len(chain') = n
           /\ \A k \in 1..n : chain'[k] = chain[k]
           /\ Chained'
<1>1. /\ chain' \in Seq(Generation) /\ Len(chain') = n
      /\ \A k \in 1..n : chain'[k] = chain[k] /\ k \in 1..Len(chain)
  BY SubSeqProperties
<1>2. QED
  BY <1>1 DEF Chained

-----------------------------------------------------------------------------
(* What a command makes of the memory *)

LEMMA StageMoves ==
    ASSUME TypeOK, NEW s \in Server, task[s].id \in Id, Proper(task[s].command), Apply(s)
    PROVE  \E h \in Generation :
               /\ Stage(s, h) /\ h.requests = memory[s].requests
               /\ Moves(memory[s], task[s].command, h)
<1> DEFINE g == memory[s]
           c == task[s].command
<1>1. /\ g \in Generation /\ c \in Command /\ g.turn \in Nat /\ c.turn \in Nat
      /\ g.open \in [Actor -> Open] /\ g.rejected \subseteq Actor
      /\ g.invocations \in [Invocation -> Invoking]
  BY MaxTurnsIsNatural DEF TypeOK, Proper, Command, Generation
<1> USE DEF Moves, KeepsTurn, KeepsInvocations
<1>2. CASE Submit(s)
  <2> DEFINE h == [g EXCEPT !.open[c.of] = "submitted"]
  <2>1. MaySubmit(g, c) /\ Stage(s, h)
    BY <1>2 DEF Submit
  <2>2. h \in Generation
    BY <1>1 DEF Generation, Open
  <2>3. /\ ~g.pending /\ h.pending = g.pending /\ h.turn = g.turn /\ h.stopped = g.stopped
        /\ h.requests = g.requests /\ h.status = g.status /\ h.invocations = g.invocations
        /\ c.kind # "model_dispatch"
    BY <2>1, <1>1 DEF MaySubmit, OpenTo, Generation
  <2> HIDE DEF h
  <2>4. QED
    BY <1>1, <2>1, <2>2, <2>3
<1>3. CASE Validate(s)
  <2>1. MayValidate(g, c)
    BY <1>3 DEF Validate
  <2>2. PICK h \in {[g EXCEPT !.open[c.of] = "validated"],
                    [g EXCEPT !.open[c.of] = "none", !.rejected = @ \cup {c.of}]} :
            Stage(s, h)
    BY <1>3 DEF Validate
  <2>3. c.of \in Actor
    BY <2>1 DEF MayValidate, Proper
  <2>4. h \in Generation
    <3>1. [g EXCEPT !.open[c.of] = "validated"] \in Generation
      BY <1>1 DEF Generation, Open
    <3>2. g.rejected \cup {c.of} \in SUBSET Actor
      BY <1>1, <2>3
    <3>3. [g EXCEPT !.open[c.of] = "none", !.rejected = @ \cup {c.of}] \in Generation
      BY <1>1, <3>2 DEF Generation, Open
    <3>4. QED
      BY <2>2, <3>1, <3>3
  <2>5. /\ ~g.pending /\ h.pending = g.pending /\ h.turn = g.turn /\ h.stopped = g.stopped
        /\ h.requests = g.requests /\ h.status = g.status /\ h.invocations = g.invocations
        /\ c.kind # "model_dispatch"
    BY <2>1, <2>2, <1>1 DEF MayValidate, OpenTo, Generation
  <2>6. QED
    BY <1>1, <2>2, <2>4, <2>5
<1>4. CASE Commit(s)
  <2> DEFINE h == [g EXCEPT !.pending = TRUE,
                            !.open = [a \in Actor |-> IF @[a] = "validated"
                                                      THEN "accepted" ELSE @[a]]]
  <2>1. MayCommit(g, c) /\ Stage(s, h)
    BY <1>4 DEF Commit
  <2>2. h \in Generation
    BY <1>1 DEF Generation, Open
  <2>3. /\ ~g.pending /\ h.pending /\ h.turn = g.turn /\ h.stopped = g.stopped
        /\ h.requests = g.requests /\ h.status = g.status /\ h.invocations = g.invocations
        /\ h.rejected = g.rejected /\ c.kind # "model_dispatch"
        /\ \A a \in Actor : g.open[a] = "validated" => h.open[a] = "accepted"
    BY <2>1, <1>1 DEF MayCommit, OpenTo, Generation
  <2>4. \A a \in Actor : g.open[a] = "validated" \/ a \in g.rejected
    BY <2>1 DEF MayCommit, Validated
  <2> HIDE DEF h
  <2>5. Accounted(h)
    BY <2>3, <2>4 DEF Accounted
  <2>6. QED
    BY <1>1, <2>1, <2>2, <2>3, <2>5
<1>5. CASE Resolve(s)
  <2> DEFINE h == [g EXCEPT !.turn = @ + 1, !.pending = FALSE, !.rejected = {},
                            !.open = Genesis.open]
  <2>1. MayResolve(g, c) /\ Stage(s, h)
    BY <1>5 DEF Resolve
  <2>2. g.turn + 1 \in 0..MaxTurns /\ Genesis.open \in [Actor -> Open]
    BY <1>1, <2>1, MaxTurnsIsNatural DEF MayResolve, Proper, Command, Genesis, Open
  <2>3. h \in Generation
    BY <1>1, <2>2 DEF Generation
  <2>4. /\ ~h.pending /\ h.turn = g.turn + 1 /\ h.stopped = g.stopped
        /\ h.requests = g.requests /\ h.status = g.status /\ h.invocations = g.invocations
        /\ c.kind # "model_dispatch"
    BY <2>1, <1>1 DEF MayResolve, Generation
  <2> HIDE DEF h
  <2>5. QED
    BY <1>1, <2>1, <2>3, <2>4
<1>6. CASE Checkpoint(s)
  <2>1. PICK h \in {g, [g EXCEPT !.stopped = TRUE]} : Stage(s, h)
    BY <1>6 DEF Checkpoint
  <2>2. h \in Generation
    BY <1>1, <2>1 DEF Generation
  <2>3. /\ h.pending = g.pending /\ h.turn = g.turn /\ (g.stopped => h.stopped)
        /\ h.requests = g.requests /\ h.status = g.status /\ h.invocations = g.invocations
        /\ h.open = g.open /\ h.rejected = g.rejected /\ c.kind # "model_dispatch"
    BY <1>6, <2>1, <1>1 DEF Checkpoint, Generation
  <2>4. QED
    BY <1>1, <2>1, <2>2, <2>3
<1>7. CASE Dispatch(s)
  <2> DEFINE v == [status |-> "outcome_unknown", request |-> task[s].id.request]
             h == [g EXCEPT !.invocations[c.of] = v]
  <2>1. MayDispatch(g, c) /\ Stage(s, h)
    BY <1>7 DEF Dispatch
  <2>2. c.of \in Invocation
    BY <2>1 DEF MayDispatch, Proper
  <2>3. h \in Generation
    BY <1>1, <2>2 DEF Generation, Invoking, Id
  <2>4. /\ h.pending = g.pending /\ h.turn = g.turn /\ h.stopped = g.stopped
        /\ h.requests = g.requests /\ h.status = g.status
        /\ h.open = g.open /\ h.rejected = g.rejected /\ c.kind = "model_dispatch"
        /\ g.invocations[c.of].status = "none"
        /\ h.invocations[c.of].status = "outcome_unknown"
        /\ \A i \in Invocation \ {c.of} : h.invocations[i] = g.invocations[i]
    BY <2>1, <2>2, <1>1 DEF MayDispatch, Generation, Invoking
  <2> HIDE DEF h
  <2>5. QED
    BY <1>1, <2>1, <2>2, <2>3, <2>4
<1>8. CASE Complete(s)
  <2> DEFINE h == [g EXCEPT !.invocations[c.of].status = "completed"]
  <2>1. MayComplete(g, c) /\ Stage(s, h)
    BY <1>8 DEF Complete
  <2>2. c.of \in Invocation
    BY <2>1, SMTT(40) DEF MayComplete, Proper
  <2>3. h \in Generation
    BY <1>1, <2>2, SMTT(40) DEF Generation, Invoking
  <2>4. /\ h.pending = g.pending /\ h.turn = g.turn /\ h.stopped = g.stopped
        /\ h.requests = g.requests /\ h.status = g.status
        /\ h.open = g.open /\ h.rejected = g.rejected /\ c.kind # "model_dispatch"
        /\ g.invocations[c.of].status = "outcome_unknown"
        /\ h.invocations[c.of].status = "completed"
        /\ \A i \in Invocation \ {c.of} : h.invocations[i] = g.invocations[i]
    BY <2>1, <2>2, <1>1 DEF MayComplete, Generation, Invoking
  <2> HIDE DEF h
  <2>5. QED
    BY <1>1, <2>1, <2>2, <2>3, <2>4
<1>9. QED
  BY <1>2, <1>3, <1>4, <1>5, <1>6, <1>7, <1>8 DEF Apply

-----------------------------------------------------------------------------
(* One service acts at a time *)

\* The steps of a service, by what they do to its task.
Plain(s) ==
    \/ Create(s) \/ Created(s) \/ Recover(s) \/ InvokeModel(s) \/ LookUp(s)
    \/ AnswerJournaled(s) \/ Call(s) \/ InvocationRefused(s)
Starts(s) == ClientCommand(s) \/ ModelCommand(s) \/ Redact(s)
Publishes(s) == Apply(s) \/ LinkGeneration(s) \/ SyncGeneration(s)
Finishes(s) ==
    \/ ReplyAgain(s) \/ Refuse(s) \/ ReplyPublished(s) \/ PublicationRefused(s)
    \/ RedactReturns(s) \/ Throw(s)
Acts(s) == Plain(s) \/ Starts(s) \/ Publishes(s) \/ Finishes(s) \/ Stop(s) \/ Die(s)

LEMMA Steps == Next => HostCrashes \/ \E s \in Server : Acts(s)
  BY DEF Next, Acts, Plain, Starts, Publishes, Finishes, Proceed, ProceedModel

Untouched(t) ==
    /\ condition'[t] = condition[t] /\ head'[t] = head[t] /\ memory'[t] = memory[t]
    /\ task'[t] = task[t] /\ step'[t] = step[t] /\ candidate'[t] = candidate[t]
    /\ model'[t] = model[t] /\ modelStep'[t] = modelStep[t]

LEMMA Frame ==
    ASSUME TypeOK, NEW s \in Server, Acts(s), NEW t \in Server \ {s}
    PROVE  Untouched(t)
<1> USE DEF TypeOK, Untouched, known, work, invoking, Serving, Enter, Become, InvocationEnds
<1>1. CASE Plain(s)
  BY <1>1 DEF Plain, Create, Created, Recover, InvokeModel, LookUp, AnswerJournaled,
     Call, InvocationRefused
<1>2. CASE Starts(s)
  BY <1>2 DEF Starts, ClientCommand, ModelCommand, Begin, Redact
<1>3. CASE Apply(s)
  BY <1>3 DEF Apply, Submit, Validate, Commit, Resolve, Checkpoint, Dispatch, Complete, Stage
<1>4. CASE LinkGeneration(s) \/ SyncGeneration(s)
  BY <1>4 DEF LinkGeneration, SyncGeneration
<1>5. CASE ReplyAgain(s) \/ Refuse(s) \/ ReplyPublished(s) \/ RedactReturns(s)
  BY <1>5 DEF ReplyAgain, Refuse, ReplyPublished, RedactReturns, Finish
<1>6. CASE PublicationRefused(s) \/ Throw(s)
  BY <1>6 DEF PublicationRefused, Throw, Fails, Finish
<1>7. CASE Stop(s) \/ Die(s)
  BY <1>7 DEF Stop, Die, Forgets
<1>8. QED
  BY <1>1, <1>2, <1>3, <1>4, <1>5, <1>6, <1>7 DEF Acts, Publishes, Finishes

\* The generation that a publication adds continues the newest one.
LEMMA LinkedKeeps ==
    ASSUME TypeOK, Chained, Services, NEW s \in Server, LinkGeneration(s)
    PROVE  \E g \in Generation :
               /\ chain' = Append(chain, g) /\ Sound(g) /\ chain # <<>> /\ Keeps(Newest, g)
               /\ IF Redacting(s) THEN g = RedactedFrom(Newest)
                  ELSE g = candidate[s] /\ memory[s] = Newest /\ Newest.status = "COMPLETE"
<1>1. /\ step[s] = "candidate" /\ head[s] = Len(chain)
      /\ ~Redacting(s) => Newest.status = "COMPLETE"
      /\ chain' = Append(chain, IF Redacting(s) THEN RedactedFrom(Newest) ELSE candidate[s])
  BY DEF LinkGeneration, Admitted, Redacting
<1>2. KnownAt(s) /\ TaskAt(s) /\ PublicationAt(s)
  BY DEF Services, ServiceAt
<1>3. head[s] \in 1..Len(chain) /\ chain # <<>>
  BY <1>1, <1>2 DEF TypeOK, KnownAt, TaskAt
<1>4. Newest \in Generation /\ Sound(Newest)
  BY <1>1, <1>3 DEF TypeOK, Newest, Chained
<1>5. CASE Redacting(s)
  BY <1>1, <1>3, <1>4, <1>5, RedactedType, RedactedKeeps
<1>6. CASE ~Redacting(s)
  <2>1. memory[s] = Newest
    BY <1>1, <1>2, <1>6 DEF KnownAt, TaskAt, Newest
  <2>2. /\ Proper(task[s].command)
        /\ Makes(Newest, task[s].command, ReplyTo(s), candidate[s])
    BY <1>1, <1>2, <1>6, <2>1 DEF TaskAt, PublicationAt
  <2>3. candidate[s] \in Generation
    BY DEF TypeOK
  <2>4. QED
    BY <1>1, <1>3, <1>4, <1>6, <2>1, <2>2, <2>3, MadeKeeps DEF ReplyTo, Proper
<1>7. QED BY <1>5, <1>6

-----------------------------------------------------------------------------
(* Types *)

LEMMA WorkloadType ==
    ASSUME workload \in Workloads
    PROVE  /\ \A a \in workload.asked :
               /\ a.request \in Request /\ Proper(a.command)
               /\ a.command.kind # "model_dispatch"
           /\ \A i \in workload.invoked : i.request \in Request /\ i.invocation \in Invocation
           /\ workload.invoked \subseteq Model
<1>1. workload.asked \subseteq [request : Request, command : Command]
  BY WorkloadsAreClients
<1>2. workload.invoked \subseteq [request : Request, invocation : Invocation]
  BY WorkloadsAreClients
<1>3. QED
  BY <1>1, <1>2, WorkloadsAreClients DEF Proper, Model

LEMMA NothingType == NoTask \in Task /\ [NoTask EXCEPT !.caller = "redact"] \in Task /\ NoModel \in Model
  BY DEF NoTask, Task, NoModel, Model

LEMMA ReplyType ==
    ASSUME TypeOK, Services, NEW s \in Server, step[s] # "free", ~Redacting(s)
    PROVE  /\ ReplyTo(s) \in Reply /\ ReplyTo(s).id = task[s].id
           /\ ReplyTo(s).command = task[s].command
  BY DEF ReplyTo, Reply, TypeOK, Services, ServiceAt, TaskAt, Proper

LEMMA TypeStep ==
    ASSUME TypeOK, Chained, Services, Next
    PROVE  TypeOK'
<1>0. Genesis \in Generation /\ NoMemory \in Generation /\ Len(chain) \in Nat
  BY GenesisType DEF TypeOK
<1> USE NothingType, <1>0
<1>1. ASSUME NEW s \in Server, Create(s) \/ Created(s) PROVE TypeOK'
  <2>1. CASE Create(s)
    <3>1. chain' \in Seq(Generation) /\ durable' \in 0..Len(chain')
      BY <2>1 DEF TypeOK, Create
    <3>2. QED
      BY <2>1, <3>1 DEF TypeOK, Create, Become, Condition, known, work, invoking, failures
  <2>2. CASE Created(s)
    BY <2>2 DEF TypeOK, Created, Become, Condition, Serving, work, invoking, failures
  <2>3. QED
    BY <1>1, <2>1, <2>2
<1>2. ASSUME NEW s \in Server, Recover(s) PROVE TypeOK'
  <2>1. Newest \in Generation
    BY <1>2 DEF TypeOK, Recover, Newest
  <2>2. QED
    BY <1>2, <2>1 DEF TypeOK, Recover, Become, Condition, Serving, archive, work, invoking,
       failures
<1>3. ASSUME NEW s \in Server,
             InvokeModel(s) \/ LookUp(s) \/ Call(s) \/ InvocationRefused(s)
      PROVE  TypeOK'
  <2> USE DEF TypeOK, InvocationEnds, ModelLabel, archive, known, work, failures
  <2>1. CASE InvokeModel(s)
    <3>1. PICK i \in workload.invoked : model' = [model EXCEPT ![s] = i]
      BY <2>1 DEF InvokeModel
    <3>2. i \in Model
      BY WorkloadType
    <3>3. QED
      BY <2>1, <3>1, <3>2 DEF InvokeModel
  <2>2. CASE LookUp(s)
    BY <2>2 DEF LookUp
  <2>3. CASE Call(s)
    <3>1. model[s].invocation \in Invocation
      BY <2>3 DEF Call, Services, ServiceAt, InvocationAt
    <3>2. calls' \in [Invocation -> Nat]
      BY <2>3, <3>1 DEF Call
    <3>3. QED
      BY <2>3, <3>2 DEF Call
  <2>4. CASE InvocationRefused(s)
    BY <2>4 DEF InvocationRefused
  <2>5. QED
    BY <1>3, <2>1, <2>2, <2>3, <2>4
<1>4. ASSUME NEW s \in Server, AnswerJournaled(s) PROVE TypeOK'
  <2>1. memory[s].requests \subseteq Reply
    BY DEF TypeOK, Generation
  <2>2. QED
    BY <1>4, <2>1 DEF TypeOK, AnswerJournaled, InvocationEnds, ModelLabel, archive, known,
       work, failures
<1>5. ASSUME NEW s \in Server, NEW caller \in {"client", "model"}, NEW id \in Id,
             NEW c \in Command, Begin(s, caller, id, c)
      PROVE  TypeOK'
  <2>1. [caller |-> caller, id |-> id, command |-> c] \in Task
    BY DEF Task
  <2>2. QED
    BY <1>5, <2>1 DEF TypeOK, Begin, Enter, Label, archive, known, invoking, failures
<1>6. ASSUME NEW s \in Server, ClientCommand(s) PROVE TypeOK'
  <2>1. PICK a \in workload.asked :
            Begin(s, "client", [request |-> a.request, part |-> "whole"], a.command)
    BY <1>6 DEF ClientCommand
  <2>2. [request |-> a.request, part |-> "whole"] \in Id /\ a.command \in Command
    BY WorkloadType DEF TypeOK, Id, Proper
  <2>3. QED
    BY <1>5, <2>1, <2>2
<1>7. ASSUME NEW s \in Server, ModelCommand(s) PROVE TypeOK'
  <2>1. modelStep[s] \in {"dispatch", "complete"}
    BY <1>7 DEF ModelCommand
  <2>2. model[s].request \in Request /\ model[s].invocation \in Invocation
    BY <2>1 DEF Services, ServiceAt, InvocationAt
  <2>3. [request |-> model[s].request, part |-> modelStep[s]] \in Id
    BY <2>1, <2>2 DEF Id
  <2>4. [kind |-> IF modelStep[s] = "dispatch" THEN "model_dispatch" ELSE "model_completion",
         of |-> model[s].invocation, turn |-> 0] \in Command
    BY <2>2, MaxTurnsIsNatural DEF Command, Kind, Subject
  <2>5. QED
    BY <1>5, <1>7, <2>3, <2>4 DEF ModelCommand
<1>8. ASSUME NEW s \in Server, Redact(s) PROVE TypeOK'
  BY <1>8 DEF TypeOK, Redact, Become, Condition, Enter, Label, archive, known, invoking, failures
<1>9. ASSUME NEW s \in Server, Apply(s) PROVE TypeOK'
  <2>1. TaskAt(s) /\ step[s] = "fresh"
    BY <1>9 DEF Apply, Services, ServiceAt
  <2>2. PICK h \in Generation : Stage(s, h)
    BY <1>9, <2>1, StageMoves DEF TaskAt
  <2>3. h.requests \subseteq Reply /\ ReplyTo(s) \in Reply
    BY <2>1, ReplyType DEF Generation, TaskAt
  <2>4. [h EXCEPT !.requests = @ \cup {ReplyTo(s)}] \in Generation
    BY <2>3 DEF Generation
  <2>5. QED
    BY <2>2, <2>4 DEF TypeOK, Stage, Enter, Label, archive, known, invoking, failures
<1>10. ASSUME NEW s \in Server, LinkGeneration(s) PROVE TypeOK'
  <2>1. PICK g \in Generation : chain' = Append(chain, g)
    BY <1>10, LinkedKeeps
  <2>2. chain' \in Seq(Generation) /\ durable \in 0..Len(chain')
    BY <2>1 DEF TypeOK
  <2>3. QED
    BY <1>10, <2>2 DEF TypeOK, LinkGeneration, Enter, Label, known, invoking, failures
<1>11. ASSUME NEW s \in Server, SyncGeneration(s) PROVE TypeOK'
  BY <1>11 DEF TypeOK, SyncGeneration, Enter, Label, known, invoking, failures
<1>12. ASSUME NEW s \in Server, NEW done \in BOOLEAN, Finish(s, done)
       PROVE  /\ task' \in [Server -> Task] /\ candidate' \in [Server -> Generation]
              /\ step' \in [Server -> Label]
              /\ model' \in [Server -> Model] /\ modelStep' \in [Server -> ModelLabel]
  BY <1>12, ZenonT(60) DEF TypeOK, Finish, Enter, Label, InvocationEnds, ModelLabel, invoking
<1>13. ASSUME NEW s \in Server, ReplyAgain(s) \/ Refuse(s) PROVE TypeOK'
  <2>1. memory[s].requests \subseteq Reply
    BY DEF TypeOK, Generation
  <2>2. QED
    BY <1>12, <1>13, <2>1 DEF TypeOK, ReplyAgain, Refuse, Carried, archive, known, failures
<1>14. ASSUME NEW s \in Server, ReplyPublished(s) \/ RedactReturns(s) PROVE TypeOK'
  <2>1. ReplyPublished(s) => ReplyTo(s) \in Reply
    BY ReplyType DEF ReplyPublished
  <2> USE DEF TypeOK, Serving
  <2>2. /\ task' \in [Server -> Task] /\ candidate' \in [Server -> Generation]
        /\ step' \in [Server -> Label]
        /\ model' \in [Server -> Model] /\ modelStep' \in [Server -> ModelLabel]
    BY <1>12, <1>14 DEF ReplyPublished, RedactReturns
  <2>3. head' \in [Server -> Nat] /\ memory' \in [Server -> Generation]
    <3>1. head[s] + 1 \in Nat /\ candidate[s] \in Generation
      OBVIOUS
    <3>2. QED
      BY <1>14, <3>1 DEF ReplyPublished, RedactReturns
  <2>4. QED
    BY <1>14, <2>1, <2>2, <2>3 DEF ReplyPublished, RedactReturns, archive, failures
<1>15. ASSUME NEW s \in Server, Fails(s)
       PROVE  /\ condition' \in [Server -> Condition] /\ head' \in [Server -> Nat]
              /\ memory' \in [Server -> Generation]
  BY <1>15 DEF TypeOK, Fails, Serving, Become, Condition, known
<1>16. ASSUME NEW s \in Server, PublicationRefused(s) PROVE TypeOK'
  BY <1>12, <1>15, <1>16 DEF TypeOK, PublicationRefused, Fails, archive, failures
<1>17. ASSUME NEW s \in Server, Throw(s) PROVE TypeOK'
  <2>1. /\ task' \in [Server -> Task] /\ candidate' \in [Server -> Generation]
        /\ step' \in [Server -> Label]
        /\ model' \in [Server -> Model] /\ modelStep' \in [Server -> ModelLabel]
    BY <1>12, <1>17 DEF Throw, Fails
  <2>2. /\ condition' \in [Server -> Condition] /\ head' \in [Server -> Nat]
        /\ memory' \in [Server -> Generation]
    <3>1. CASE Fails(s)
      BY <1>15, <3>1
    <3>2. CASE UNCHANGED <<condition, known>>
      BY <3>2 DEF TypeOK, known
    <3>3. CASE Serving(s, head[s] + 1, candidate[s]) /\ Become(s, "failed")
      BY <3>3 DEF TypeOK, Serving, Become, Condition
    <3>4. QED
      BY <1>17, <3>1, <3>2, <3>3 DEF Throw
  <2>3. QED
    BY <1>17, <2>1, <2>2 DEF TypeOK, Throw, archive
<1>18. ASSUME NEW s \in Server, Stop(s) \/ Die(s) PROVE TypeOK'
  <2>1. Forgets(s)
    BY <1>18 DEF Stop, Die
  <2>2. /\ condition' \in [Server -> Condition] /\ head' \in [Server -> Nat]
        /\ memory' \in [Server -> Generation]
        /\ task' \in [Server -> Task] /\ candidate' \in [Server -> Generation]
        /\ step' \in [Server -> Label]
        /\ model' \in [Server -> Model] /\ modelStep' \in [Server -> ModelLabel]
    BY <2>1 DEF TypeOK, Forgets, Serving, Enter, Become, InvocationEnds,
       Condition, Label, ModelLabel
  <2>3. QED
    BY <1>18, <2>2 DEF TypeOK, Stop, Die, archive, failures
<1>19. CASE HostCrashes
  <2>1. PICK n \in durable..Len(chain) : chain' = SubSeq(chain, 1, n) /\ durable' = n
    BY <1>19 DEF HostCrashes
  <2>2. chain' \in Seq(Generation) /\ durable' \in 0..Len(chain')
    BY <2>1, ChainedPrefix DEF TypeOK
  <2>3. QED
    BY <1>19, <2>2 DEF TypeOK, HostCrashes, Condition, Label, ModelLabel
<1>20. QED
  BY <1>1, <1>2, <1>3, <1>4, <1>6, <1>7, <1>8, <1>9, <1>10, <1>11, <1>13, <1>14, <1>16,
     <1>17, <1>18, <1>19, Steps DEF Acts, Plain, Starts, Publishes, Finishes

-----------------------------------------------------------------------------
(* The chain *)

\* Short of the loss of the host, the chain grows only at its end, while nobody
\* holds the lock, and what is on disk stays there.
Grown ==
    /\ Len(chain) <= Len(chain') /\ \A n \in 1..Len(chain) : chain'[n] = chain[n]
    /\ durable <= durable'
    /\ chain' # chain => Unlocked

LEMMA ChainMoves ==
    ASSUME TypeOK, Chained, Services, NEW s \in Server, Acts(s)
    PROVE  \/ chain' = chain /\ durable' \in {durable, Len(chain)}
           \/ /\ Create(s) \/ LinkGeneration(s)
              /\ Unlocked /\ durable' = durable
              /\ \E g \in Generation : /\ chain' = Append(chain, g) /\ Sound(g)
                                       /\ chain # <<>> => Keeps(Newest, g)
<1> USE DEF archive
<1>1. CASE Create(s)
  <2>1. chain' = Append(chain, Genesis) /\ chain = <<>> /\ Unlocked /\ durable' = durable
    BY <1>1 DEF Create
  <2>2. QED
    BY <1>1, <2>1, GenesisType, GenesisSound
<1>2. CASE LinkGeneration(s)
  BY <1>2, LinkedKeeps DEF LinkGeneration, Admitted
<1>3. CASE Plain(s) /\ ~Create(s)
  BY <1>3 DEF Plain, Created, Recover, InvokeModel, LookUp, AnswerJournaled,
     Call, InvocationRefused
<1>4. CASE Starts(s)
  BY <1>4 DEF Starts, ClientCommand, ModelCommand, Begin, Redact
<1>5. CASE Apply(s)
  BY <1>5 DEF Apply, Submit, Validate, Commit, Resolve, Checkpoint, Dispatch, Complete, Stage
<1>6. CASE SyncGeneration(s)
  BY <1>6 DEF SyncGeneration
<1>7. CASE Finishes(s)
  BY <1>7 DEF Finishes, ReplyAgain, Refuse, ReplyPublished, PublicationRefused,
     RedactReturns, Throw
<1>8. CASE Stop(s) \/ Die(s)
  BY <1>8 DEF Stop, Die
<1>9. QED
  BY <1>1, <1>2, <1>3, <1>4, <1>5, <1>6, <1>7, <1>8 DEF Acts, Publishes

LEMMA Growing ==
    ASSUME TypeOK, Chained, Services, NEW s \in Server, Acts(s)
    PROVE  Grown /\ Chained' /\ Len(chain) \in Nat /\ Len(chain') \in Nat
<1>1. Len(chain) \in Nat /\ durable \in 0..Len(chain) /\ chain \in Seq(Generation)
  BY DEF TypeOK
<1>2. CASE chain' = chain /\ durable' \in {durable, Len(chain)}
  BY <1>1, <1>2 DEF Grown, Chained
<1>3. ASSUME Unlocked, durable' = durable, NEW g \in Generation,
             chain' = Append(chain, g), Sound(g), chain # <<>> => Keeps(Newest, g)
      PROVE  Grown /\ Chained' /\ Len(chain') \in Nat
  <2>1. Chained'
    BY <1>1, <1>3, ChainedAppend
  <2>2. /\ Len(chain') = Len(chain) + 1
        /\ \A n \in 1..Len(chain) : chain'[n] = chain[n]
    BY <1>1, <1>3
  <2>3. QED
    BY <1>1, <1>3, <2>1, <2>2 DEF Grown
<1>4. CASE /\ Unlocked /\ durable' = durable
           /\ \E g \in Generation : /\ chain' = Append(chain, g) /\ Sound(g)
                                    /\ chain # <<>> => Keeps(Newest, g)
  BY <1>3, <1>4
<1>5. \/ chain' = chain /\ durable' \in {durable, Len(chain)}
      \/ /\ Unlocked /\ durable' = durable
         /\ \E g \in Generation : /\ chain' = Append(chain, g) /\ Sound(g)
                                  /\ chain # <<>> => Keeps(Newest, g)
  BY ChainMoves
<1>6. QED
  BY <1>1, <1>2, <1>4, <1>5

\* The loss of the host leaves the services down and what was synced in place.
LEMMA Crashed ==
    ASSUME TypeOK, Chained, HostCrashes
    PROVE  /\ Chained'
           /\ durable <= Len(chain') /\ durable <= durable'
           /\ \A n \in 1..durable : chain'[n] = chain[n]
           /\ durable \in Nat /\ Len(chain) \in Nat /\ Len(chain') \in Nat
<1>1. PICK n \in durable..Len(chain) : chain' = SubSeq(chain, 1, n) /\ durable' = n
  BY DEF HostCrashes
<1>2. n \in 0..Len(chain) /\ durable \in 0..Len(chain) /\ Len(chain) \in Nat
  BY DEF TypeOK
<1>3. QED
  BY <1>1, <1>2, ChainedPrefix DEF TypeOK

LEMMA ChainedStep == ASSUME TypeOK, Chained, Services, Next PROVE Chained'
  BY Steps, Growing, Crashed

-----------------------------------------------------------------------------
(* The lock *)

LEMMA LockingStep ==
    ASSUME TypeOK, Chained, Services, Locking, Next
    PROVE  Locking'
<1>1. CASE HostCrashes
  BY <1>1 DEF HostCrashes, Locking, Holds
<1>2. ASSUME NEW s \in Server, Acts(s) PROVE Locking'
  <2>1. \A t \in Server \ {s} : Holds(t)' <=> Holds(t)
    BY <1>2, Frame DEF Untouched, Holds
  <2>2. CASE Create(s) \/ LinkGeneration(s)
    <3>1. \A t \in Server : ~Holds(t)
      BY <2>2 DEF Create, LinkGeneration, Admitted, Unlocked, Holds
    <3>2. LinkGeneration(s) => condition'[s] # "creating"
      BY <3>1 DEF LinkGeneration, Holds
    <3>3. Create(s) => chain' = <<Genesis>>
      BY DEF Create
    <3>4. \A t \in Server \ {s} : condition'[t] # "creating"
      BY <2>1, <3>1 DEF Holds
    <3>5. QED
      BY <2>1, <2>2, <3>1, <3>2, <3>3, <3>4 DEF Locking
  <2>3. CASE ~Create(s) /\ ~LinkGeneration(s)
    <3>1. chain' = chain
      BY <1>2, <2>3, ChainMoves
    <3>2. Holds(s)' => Holds(s) /\ (condition'[s] = "creating" => condition[s] = "creating")
      <4> USE DEF TypeOK, Holds, known, work, invoking, Serving, Enter, Become, InvocationEnds
      <4>1. CASE Plain(s)
        BY <2>3, <4>1 DEF Plain, Created, Recover, InvokeModel, LookUp,
           AnswerJournaled, Call, InvocationRefused
      <4>2. CASE Starts(s)
        BY <4>2 DEF Starts, ClientCommand, ModelCommand, Begin, Redact
      <4>3. CASE Apply(s)
        BY <4>3 DEF Apply, Submit, Validate, Commit, Resolve, Checkpoint, Dispatch,
           Complete, Stage
      <4>4. CASE SyncGeneration(s)
        BY <4>4 DEF SyncGeneration
      <4>5. CASE Finishes(s)
        BY <4>5 DEF Finishes, ReplyAgain, Refuse, ReplyPublished, PublicationRefused,
           RedactReturns, Throw, Fails, Finish
      <4>6. CASE Stop(s) \/ Die(s)
        BY <4>6 DEF Stop, Die, Forgets
      <4>7. QED
        BY <1>2, <2>3, <4>1, <4>2, <4>3, <4>4, <4>5, <4>6 DEF Acts, Publishes
    <3>3. QED
      <4>1. \A t \in Server : Holds(t)' => Holds(t)
        BY <2>1, <3>2
      <4>2. \A t \in Server : condition'[t] = "creating" => condition[t] = "creating"
        BY <1>2, <3>2, Frame DEF Untouched, Holds
      <4>3. QED
        BY <3>1, <4>1, <4>2 DEF Locking
  <2>4. QED
    BY <2>2, <2>3
<1>3. QED
  BY <1>1, <1>2, Steps

-----------------------------------------------------------------------------
(* The services *)

\* Who does not act keeps what it has to know, whatever happens to the chain.
LEMMA OthersStay ==
    ASSUME TypeOK, Chained, Services, Locking, NEW s \in Server, Acts(s),
           NEW t \in Server \ {s}
    PROVE  ServiceAt(t)'
<1>1. Untouched(t) /\ ServiceAt(t) /\ Grown
  BY Frame, Growing DEF Services
<1>2. Len(chain) \in Nat /\ Len(chain') \in Nat /\ head[t] \in Nat /\ durable \in Nat
      /\ durable' \in Nat
  BY Growing, ChainMoves DEF TypeOK
<1> USE DEF Untouched, ServiceAt
<1>3. KnownAt(t)'
  BY <1>1, <1>2 DEF KnownAt, Grown
<1>4. TaskAt(t)'
  BY <1>1 DEF TaskAt, Redacting, Dispatching
<1>5. PublicationAt(t)'
  <2>1. step[t] = "linked" => chain' = chain
    BY <1>1 DEF Grown, Unlocked
  <2>2. QED
    BY <1>1, <1>2, <2>1 DEF PublicationAt, Redacting, ReplyTo, Grown
<1>6. InvocationAt(t)'
  BY <1>1 DEF InvocationAt, Invoked
<1>7. QED BY <1>3, <1>4, <1>5, <1>6

\* A step of its invocation, while no transaction of the invocation is under way.
LEMMA InvocationMoves ==
    ASSUME TypeOK, Services, NEW s \in Server,
           step[s] = "free" \/ modelStep[s] \notin {"dispatch", "complete"},
           UNCHANGED <<archive, condition, known, work>>,
           modelStep'[s] # "free" => modelStep[s] # "free" \/ condition[s] = "running"
    PROVE  KnownAt(s)' /\ TaskAt(s)' /\ PublicationAt(s)'
<1>1. ServiceAt(s)
  BY DEF Services
<1> USE DEF archive, known, work
<1>2. KnownAt(s)'
  BY <1>1 DEF ServiceAt, KnownAt
<1>3. step[s] # "free" => task[s].caller # "model"
  BY <1>1 DEF ServiceAt, TaskAt
<1>4. TaskAt(s)'
  BY <1>1, <1>3 DEF ServiceAt, TaskAt, Redacting, Dispatching
<1>5. PublicationAt(s)'
  BY <1>1 DEF ServiceAt, PublicationAt, Redacting, ReplyTo
<1>6. QED
  BY <1>2, <1>4, <1>5

\* What the end of a transaction does to the invocation it belongs to.
LEMMA FinishMoves ==
    ASSUME TypeOK, NEW s \in Server, NEW done \in BOOLEAN, Finish(s, done)
    PROVE  /\ step'[s] = "free" /\ TaskAt(s)' /\ PublicationAt(s)'
           /\ modelStep'[s] # "free" => model'[s] = model[s]
           /\ \/ modelStep'[s] = modelStep[s] /\ task[s].caller # "model"
              \/ modelStep'[s] = "call" /\ Dispatching(s) /\ done
              \/ modelStep'[s] = "free"
<1>1. step'[s] = "free"
  BY DEF TypeOK, Finish, Enter
<1>2. TaskAt(s)' /\ PublicationAt(s)'
  BY <1>1 DEF TaskAt, PublicationAt
<1>3. QED
  BY <1>1, <1>2 DEF TypeOK, Finish, Dispatching, invoking, InvocationEnds

LEMMA PlainStays ==
    ASSUME TypeOK, Chained, Services, Locking, NEW s \in Server, Plain(s)
    PROVE  ServiceAt(s)'
<1>1. KnownAt(s) /\ TaskAt(s) /\ PublicationAt(s) /\ InvocationAt(s)
  BY DEF Services, ServiceAt
<1> USE DEF ServiceAt
<1>2. CASE Create(s)
  <2>1. condition'[s] = "creating" /\ UNCHANGED <<head, memory, task, step, model, modelStep>>
    BY <1>2 DEF TypeOK, Create, Become, known, work, invoking
  <2>2. step[s] = "free" /\ modelStep[s] = "free" /\ memory[s] = NoMemory
    BY <1>1, <1>2 DEF Create, KnownAt
  <2>3. QED
    BY <2>1, <2>2 DEF KnownAt, TaskAt, PublicationAt, InvocationAt
<1>3. CASE Created(s)
  <2>1. /\ condition'[s] = "running" /\ head'[s] = 1 /\ memory'[s] = Genesis
        /\ UNCHANGED <<chain, task, step, model, modelStep>>
    BY <1>3 DEF TypeOK, Created, Become, Serving, work, invoking
  <2>2. step[s] = "free" /\ modelStep[s] = "free" /\ chain = <<Genesis>>
    BY <1>1, <1>3 DEF Created, KnownAt, Locking
  <2>3. QED
    BY <2>1, <2>2 DEF KnownAt, TaskAt, PublicationAt, InvocationAt
<1>4. CASE Recover(s)
  <2>1. /\ condition'[s] = "running" /\ head'[s] = Len(chain) /\ memory'[s] = Newest
        /\ UNCHANGED <<chain, task, step, model, modelStep>>
    BY <1>4 DEF TypeOK, Recover, Become, Serving, archive, work, invoking
  <2>2. step[s] = "free" /\ modelStep[s] = "free" /\ Len(chain) \in 1..Len(chain)
    BY <1>1, <1>4 DEF Recover, KnownAt, TypeOK
  <2>3. QED
    BY <2>1, <2>2 DEF KnownAt, TaskAt, PublicationAt, InvocationAt, Newest
<1>5. CASE InvokeModel(s)
  <2>1. PICK call \in workload.invoked : model' = [model EXCEPT ![s] = call]
    BY <1>5 DEF InvokeModel
  <2>2. /\ model'[s].request \in Request /\ model'[s].invocation \in Invocation
        /\ modelStep'[s] = "lookup" /\ modelStep[s] = "free" /\ condition[s] = "running"
    BY <1>5, <2>1, WorkloadType DEF TypeOK, InvokeModel, Fresh
  <2>3. KnownAt(s)' /\ TaskAt(s)' /\ PublicationAt(s)'
    BY <1>5, <2>2, InvocationMoves DEF InvokeModel
  <2>4. QED
    BY <2>2, <2>3 DEF InvocationAt
<1>6. CASE LookUp(s)
  <2>1. /\ modelStep[s] = "lookup" /\ modelStep'[s] = "dispatch" /\ Invoked(s).status = "none"
        /\ UNCHANGED <<memory, model>>
    BY <1>6 DEF TypeOK, LookUp, NeverJournaled, known
  <2>2. KnownAt(s)' /\ TaskAt(s)' /\ PublicationAt(s)'
    BY <1>6, <2>1, InvocationMoves DEF LookUp
  <2>3. QED
    BY <1>1, <2>1, <2>2 DEF InvocationAt, Invoked
<1>7. CASE AnswerJournaled(s)
  <2>1. modelStep[s] = "lookup" /\ modelStep'[s] = "free"
    BY <1>7 DEF TypeOK, AnswerJournaled, InvocationEnds
  <2>2. KnownAt(s)' /\ TaskAt(s)' /\ PublicationAt(s)'
    BY <1>7, <2>1, InvocationMoves DEF AnswerJournaled
  <2>3. QED
    BY <2>1, <2>2 DEF InvocationAt
<1>8. CASE Call(s)
  <2>1. /\ modelStep[s] = "call" /\ modelStep'[s] \in {"free", "complete"}
        /\ modelStep'[s] = "complete" => model' = model
    BY <1>8 DEF TypeOK, Call, InvocationEnds
  <2>2. KnownAt(s)' /\ TaskAt(s)' /\ PublicationAt(s)'
    BY <1>8, <2>1, InvocationMoves DEF Call
  <2>3. QED
    BY <1>1, <2>1, <2>2 DEF InvocationAt
<1>9. CASE InvocationRefused(s)
  <2>1. modelStep'[s] = "free" /\ (step[s] = "free" \/ modelStep[s] = "lookup")
    BY <1>9 DEF TypeOK, InvocationRefused, InvocationEnds
  <2>2. KnownAt(s)' /\ TaskAt(s)' /\ PublicationAt(s)'
    BY <1>9, <2>1, InvocationMoves DEF InvocationRefused
  <2>3. QED
    BY <2>1, <2>2 DEF InvocationAt
<1>10. QED
  BY <1>2, <1>3, <1>4, <1>5, <1>6, <1>7, <1>8, <1>9 DEF Plain

LEMMA StartsStays ==
    ASSUME TypeOK, Chained, Services, Locking, NEW s \in Server, Starts(s)
    PROVE  ServiceAt(s)'
<1>1. KnownAt(s) /\ TaskAt(s) /\ PublicationAt(s) /\ InvocationAt(s)
  BY DEF Services, ServiceAt
<1> USE DEF ServiceAt
<1>2. ASSUME NEW caller \in {"client", "model"}, NEW id \in Id, NEW c,
             Proper(c), Begin(s, caller, id, c),
             c.kind = "model_dispatch" <=> caller = "model" /\ modelStep[s] = "dispatch",
             caller = "model" =>
                 modelStep[s] \in {"dispatch", "complete"} /\ c.of = model[s].invocation
      PROVE  ServiceAt(s)'
  <2>1. /\ UNCHANGED <<chain, condition, head, memory, model, modelStep>>
        /\ condition[s] = "running" /\ step'[s] = "fresh"
        /\ task'[s] = [caller |-> caller, id |-> id, command |-> c]
    BY <1>2 DEF TypeOK, Begin, Enter, Fresh, archive, known, invoking
  <2>2. KnownAt(s)' /\ InvocationAt(s)'
    BY <1>1, <2>1 DEF KnownAt, InvocationAt, Invoked
  <2>3. TaskAt(s)'
    BY <1>2, <2>1 DEF TaskAt, Redacting, Dispatching
  <2>4. PublicationAt(s)'
    BY <2>1 DEF PublicationAt
  <2>5. QED
    BY <2>2, <2>3, <2>4
<1>3. CASE ClientCommand(s)
  <2>1. PICK a \in workload.asked :
            Begin(s, "client", [request |-> a.request, part |-> "whole"], a.command)
    BY <1>3 DEF ClientCommand
  <2>2. /\ [request |-> a.request, part |-> "whole"] \in Id /\ Proper(a.command)
        /\ a.command.kind # "model_dispatch"
    BY WorkloadType DEF TypeOK, Id
  <2>3. QED
    BY <1>2, <2>1, <2>2
<1>4. CASE ModelCommand(s)
  <2> DEFINE c == [kind |-> IF modelStep[s] = "dispatch" THEN "model_dispatch"
                            ELSE "model_completion",
                   of |-> model[s].invocation, turn |-> 0]
             id == [request |-> model[s].request, part |-> modelStep[s]]
  <2>1. modelStep[s] \in {"dispatch", "complete"} /\ Begin(s, "model", id, c)
    BY <1>4 DEF ModelCommand
  <2>2. model[s].request \in Request /\ model[s].invocation \in Invocation
    BY <1>1, <2>1 DEF InvocationAt
  <2>3. id \in Id
    BY <2>1, <2>2 DEF Id
  <2>4. c \in Command
    BY <2>2, MaxTurnsIsNatural DEF Command, Kind, Subject
  <2>5. Proper(c)
    BY <2>2, <2>4 DEF Proper
  <2>6. /\ c.kind = "model_dispatch" <=> modelStep[s] = "dispatch"
        /\ c.of = model[s].invocation
    BY <2>1
  <2> HIDE DEF c, id
  <2>7. QED
    BY <1>2, <2>1, <2>3, <2>5, <2>6
<1>5. CASE Redact(s)
  <2>1. /\ UNCHANGED <<chain, head, memory, model, modelStep>>
        /\ condition[s] \in {"running", "failed", "blocked"} /\ condition'[s] = "blocked"
        /\ step'[s] = "candidate" /\ task'[s].caller = "redact"
    BY <1>5 DEF TypeOK, Redact, Become, Enter, archive, known, invoking, NoTask
  <2>2. KnownAt(s)' /\ InvocationAt(s)'
    BY <1>1, <2>1 DEF KnownAt, InvocationAt
  <2>3. TaskAt(s)' /\ PublicationAt(s)'
    BY <2>1 DEF TaskAt, PublicationAt, Redacting, Dispatching
  <2>4. QED
    BY <2>2, <2>3
<1>6. QED
  BY <1>3, <1>4, <1>5 DEF Starts

LEMMA PublishesStays ==
    ASSUME TypeOK, Chained, Services, Locking, NEW s \in Server, Publishes(s)
    PROVE  ServiceAt(s)'
<1>1. KnownAt(s) /\ TaskAt(s) /\ PublicationAt(s) /\ InvocationAt(s)
  BY DEF Services, ServiceAt
<1> USE DEF ServiceAt
<1>2. CASE Apply(s)
  <2>1. step[s] = "fresh" /\ ~Redacting(s) /\ task[s].id \in Id /\ Proper(task[s].command)
    BY <1>1, <1>2 DEF Apply, TaskAt
  <2>2. PICK h \in Generation :
            /\ Stage(s, h) /\ h.requests = memory[s].requests
            /\ Moves(memory[s], task[s].command, h)
    BY <1>2, <2>1, StageMoves
  <2>3. /\ UNCHANGED <<chain, condition, head, memory, task, model, modelStep>>
        /\ step'[s] = "candidate" /\ Carried(s) = {}
        /\ candidate'[s] = [h EXCEPT !.requests = @ \cup {ReplyTo(s)}]
    BY <2>2 DEF TypeOK, Stage, Permitted, Enter, archive, known, invoking
  <2>4. KnownAt(s)' /\ TaskAt(s)' /\ InvocationAt(s)'
    BY <1>1, <2>1, <2>3 DEF KnownAt, TaskAt, InvocationAt, Invoked, Redacting, Dispatching
  <2>5. /\ candidate'[s].requests = memory[s].requests \cup {ReplyTo(s)}
        /\ candidate'[s].status = h.status /\ candidate'[s].turn = h.turn
        /\ candidate'[s].pending = h.pending /\ candidate'[s].open = h.open
        /\ candidate'[s].rejected = h.rejected /\ candidate'[s].stopped = h.stopped
        /\ candidate'[s].invocations = h.invocations
    BY <2>2, <2>3 DEF Generation
  <2>6. \A q \in memory[s].requests : q.id # ReplyTo(s).id
    BY <2>3 DEF Carried, ReplyTo
  <2>7. Moves(memory[s], task[s].command, candidate'[s])
    BY <2>2, <2>5 DEF Moves, KeepsTurn, KeepsInvocations, Accounted
  <2>8. ReplyTo(s)' = ReplyTo(s)
    BY <2>3 DEF ReplyTo
  <2>9. PublicationAt(s)'
    BY <2>3, <2>5, <2>6, <2>7, <2>8 DEF PublicationAt, Makes
  <2>10. QED
    BY <2>4, <2>9
<1>3. CASE LinkGeneration(s)
  <2>1. PICK g \in Generation :
            /\ chain' = Append(chain, g)
            /\ ~Redacting(s) => g = candidate[s]
    BY <1>3, LinkedKeeps
  <2>2. /\ UNCHANGED <<condition, head, memory, task, candidate, model, modelStep>>
        /\ step[s] = "candidate" /\ step'[s] = "linked" /\ head[s] = Len(chain)
    BY <1>3 DEF TypeOK, LinkGeneration, Admitted, Enter, known, invoking
  <2>3. /\ Len(chain) \in Nat /\ Len(chain') = Len(chain) + 1
        /\ chain'[Len(chain) + 1] = g
        /\ \A n \in 1..Len(chain) : chain'[n] = chain[n]
    BY <2>1 DEF TypeOK
  <2>4. condition[s] \in {"running", "blocked"}
    BY <1>1, <2>2 DEF TaskAt
  <2>5. KnownAt(s)'
    BY <1>1, <2>2, <2>3, <2>4 DEF KnownAt
  <2>6. TaskAt(s)' /\ InvocationAt(s)'
    BY <1>1, <2>2 DEF TaskAt, InvocationAt, Invoked, Redacting, Dispatching
  <2>7. PublicationAt(s)'
    BY <1>1, <2>1, <2>2, <2>3 DEF PublicationAt, Redacting, ReplyTo
  <2>8. QED
    BY <2>5, <2>6, <2>7
<1>4. CASE SyncGeneration(s)
  <2>1. /\ UNCHANGED <<chain, condition, head, memory, task, candidate, model, modelStep>>
        /\ step[s] = "linked" /\ step'[s] = "published" /\ durable' = Len(chain)
    BY <1>4 DEF TypeOK, SyncGeneration, Enter, known, invoking
  <2>2. KnownAt(s)' /\ TaskAt(s)' /\ InvocationAt(s)'
    BY <1>1, <2>1 DEF KnownAt, TaskAt, InvocationAt, Invoked, Redacting, Dispatching
  <2>3. Len(chain) \in Nat
    BY DEF TypeOK
  <2>4. PublicationAt(s)'
    BY <1>1, <2>1, <2>3 DEF PublicationAt, Redacting, ReplyTo
  <2>5. QED
    BY <2>2, <2>4
<1>5. QED
  BY <1>2, <1>3, <1>4 DEF Publishes

LEMMA FinishesStays ==
    ASSUME TypeOK, Chained, Services, Locking, NEW s \in Server, Finishes(s)
    PROVE  ServiceAt(s)'
<1>1. KnownAt(s) /\ TaskAt(s) /\ PublicationAt(s) /\ InvocationAt(s)
  BY DEF Services, ServiceAt
<1> USE DEF ServiceAt
<1>2. step[s] # "free" /\ chain' = chain /\ \E done \in BOOLEAN : Finish(s, done)
  BY DEF Finishes, ReplyAgain, Refuse, ReplyPublished, PublicationRefused,
     RedactReturns, Throw, Fails, archive
<1>3. /\ TaskAt(s)' /\ PublicationAt(s)'
      /\ modelStep'[s] # "free" => model'[s] = model[s]
      /\ modelStep'[s] \in {modelStep[s], "call", "free"}
      /\ modelStep'[s] = "call" => modelStep[s] \in {"call", "dispatch"}
      /\ modelStep'[s] = "dispatch" => task[s].caller # "model"
  BY <1>2, FinishMoves DEF Dispatching
<1>4. condition[s] \in {"running", "blocked"}
  BY <1>1, <1>2 DEF TaskAt
<1>5. ASSUME UNCHANGED <<condition, known>>
      PROVE  ServiceAt(s)'
  <2>1. KnownAt(s)'
    BY <1>1, <1>2, <1>4, <1>5 DEF KnownAt, known
  <2>2. InvocationAt(s)'
    BY <1>1, <1>3, <1>5 DEF InvocationAt, Invoked, known
  <2>3. QED
    BY <1>3, <2>1, <2>2
<1>6. ASSUME Fails(s)
      PROVE  ServiceAt(s)'
  <2>1. \/ /\ condition[s] = "blocked" /\ condition'[s] = "blocked"
           /\ head'[s] = head[s] /\ memory'[s] = NoMemory
        \/ condition[s] = "running" /\ condition'[s] = "failed" /\ UNCHANGED <<head, memory>>
    BY <1>1, <1>2, <1>6 DEF TypeOK, TaskAt, Fails, Serving, Become, known
  <2>2. KnownAt(s)'
    BY <1>1, <1>2, <2>1 DEF KnownAt
  <2>3. InvocationAt(s)'
    BY <1>1, <1>3, <2>1 DEF InvocationAt
  <2>4. QED
    BY <1>3, <2>2, <2>3
<1>7. ASSUME step[s] = "published", ~Redacting(s), Serving(s, head[s] + 1, candidate[s]),
             condition'[s] \in {"running", "failed"}
      PROVE  ServiceAt(s)'
  <2>1. head'[s] = head[s] + 1 /\ memory'[s] = candidate[s]
    BY <1>7 DEF TypeOK, Serving
  <2>2. head[s] + 1 \in 1..Len(chain) /\ chain[head[s] + 1] = candidate[s]
    BY <1>1, <1>7 DEF PublicationAt
  <2>3. KnownAt(s)'
    BY <1>2, <1>7, <2>1, <2>2 DEF KnownAt
  <2>4. ASSUME modelStep'[s] = "dispatch"
        PROVE  /\ model'[s].request \in Request /\ model'[s].invocation \in Invocation
               /\ Invoked(s)'.status = "none"
    <3>1. /\ modelStep[s] = "dispatch" /\ model'[s] = model[s]
          /\ task[s].command.kind # "model_dispatch"
      BY <1>1, <1>2, <1>3, <1>7, <2>4 DEF TaskAt, Dispatching
    <3>2. model[s].invocation \in Invocation /\ Invoked(s).status = "none"
      BY <1>1, <1>2, <1>7, <3>1 DEF InvocationAt, TaskAt
    <3>3. Moves(memory[s], task[s].command, candidate[s])
      BY <1>1, <1>7 DEF PublicationAt, Makes
    <3>4. QED
      BY <1>1, <2>1, <3>1, <3>2, <3>3 DEF Moves, Invoked, InvocationAt
  <2>5. InvocationAt(s)'
    BY <1>1, <1>3, <2>4 DEF InvocationAt
  <2>6. QED
    BY <1>3, <2>3, <2>5
<1>8. CASE ReplyAgain(s) \/ Refuse(s)
  BY <1>5, <1>8 DEF ReplyAgain, Refuse
<1>9. CASE ReplyPublished(s)
  <2>1. condition'[s] = condition[s] /\ condition[s] = "running"
    BY <1>1, <1>9 DEF ReplyPublished, TaskAt
  <2>2. QED
    BY <1>7, <1>9, <2>1 DEF ReplyPublished
<1>10. CASE PublicationRefused(s)
  BY <1>6, <1>10 DEF PublicationRefused
<1>11. CASE RedactReturns(s)
  <2>1. /\ head'[s] = head[s] + 1 /\ memory'[s] = NoMemory
        /\ condition'[s] = condition[s] /\ condition[s] = "blocked"
    BY <1>1, <1>11 DEF TypeOK, RedactReturns, Serving, TaskAt
  <2>2. head[s] + 1 \in 1..Len(chain)
    BY <1>1, <1>11 DEF RedactReturns, PublicationAt
  <2>3. KnownAt(s)' /\ InvocationAt(s)'
    BY <1>1, <1>2, <1>3, <2>1, <2>2 DEF KnownAt, InvocationAt
  <2>4. QED
    BY <1>3, <2>3
<1>12. CASE Throw(s)
  <2>1. \/ UNCHANGED <<condition, known>>
        \/ Fails(s)
        \/ /\ step[s] = "published" /\ ~Redacting(s)
           /\ Serving(s, head[s] + 1, candidate[s]) /\ Become(s, "failed")
    BY <1>12 DEF Throw
  <2>2. Become(s, "failed") => condition'[s] = "failed"
    BY DEF TypeOK, Become
  <2>3. QED
    BY <1>5, <1>6, <1>7, <2>1, <2>2
<1>13. QED
  BY <1>8, <1>9, <1>10, <1>11, <1>12 DEF Finishes

LEMMA ForgetsStays ==
    ASSUME TypeOK, NEW s \in Server, Stop(s) \/ Die(s)
    PROVE  ServiceAt(s)' /\ step'[s] = "free" /\ modelStep'[s] = "free"
<1>1. /\ condition'[s] = "down" /\ memory'[s] = NoMemory
      /\ step'[s] = "free" /\ modelStep'[s] = "free"
  BY DEF TypeOK, Stop, Die, Forgets, Serving, Become, Enter, InvocationEnds
<1>2. QED
  BY <1>1 DEF ServiceAt, KnownAt, TaskAt, PublicationAt, InvocationAt

LEMMA CrashStays == ASSUME HostCrashes PROVE Services'
<1> SUFFICES ASSUME NEW s \in Server PROVE ServiceAt(s)'
  BY DEF Services
<1>1. /\ condition'[s] = "down" /\ memory'[s] = NoMemory
      /\ step'[s] = "free" /\ modelStep'[s] = "free"
  BY DEF HostCrashes
<1>2. QED
  BY <1>1 DEF ServiceAt, KnownAt, TaskAt, PublicationAt, InvocationAt

LEMMA ServicesStep ==
    ASSUME TypeOK, Chained, Services, Locking, Next
    PROVE  Services'
<1>1. ASSUME NEW s \in Server, Acts(s) PROVE Services'
  <2>1. ServiceAt(s)'
    BY <1>1, PlainStays, StartsStays, PublishesStays, FinishesStays, ForgetsStays DEF Acts
  <2>2. \A t \in Server \ {s} : ServiceAt(t)'
    BY <1>1, OthersStay
  <2>3. QED
    BY <2>1, <2>2 DEF Services
<1>2. QED
  BY <1>1, CrashStays, Steps

-----------------------------------------------------------------------------
(* Calls *)

\* A claim is made by the publication of the dispatch; it becomes the right to
\* call when the dispatch is on disk.
LEMMA ClaimsMove ==
    ASSUME TypeOK, Chained, Services, NEW s \in Server, Acts(s), ~LinkGeneration(s),
           NEW i \in Invocation, Claims(s, i)'
    PROVE  /\ Claims(s, i)
           /\ modelStep'[s] = "call" =>
                  modelStep[s] = "call" \/ (step[s] = "published" /\ Dispatching(s))
           /\ calls' = calls
<1>1. KnownAt(s) /\ TaskAt(s) /\ PublicationAt(s) /\ InvocationAt(s)
  BY DEF Services, ServiceAt
<1> USE DEF TypeOK, Claims, known, work, invoking, archive
<1>2. CASE Plain(s)
  <2>1. CASE Create(s) \/ Created(s) \/ Recover(s)
    BY <2>1 DEF Create, Created, Recover, Dispatching
  <2>2. CASE InvokeModel(s) \/ LookUp(s) \/ AnswerJournaled(s) \/ Call(s) \/ InvocationRefused(s)
    <3>1. /\ task' = task /\ step' = step
          /\ modelStep'[s] \in {"lookup", "dispatch", "complete", "free"}
          /\ step[s] = "free" \/ modelStep[s] \notin {"dispatch", "complete"}
      BY <2>2 DEF InvokeModel, LookUp, AnswerJournaled, Call, InvocationRefused, InvocationEnds
    <3>2. step[s] # "free" => task[s].caller # "model"
      BY <1>1, <3>1 DEF TaskAt
    <3>3. QED
      BY <3>1, <3>2 DEF Dispatching
  <2>3. QED
    BY <1>2, <2>1, <2>2 DEF Plain
<1>3. CASE Starts(s)
  <2>1. /\ step'[s] \in {"fresh", "candidate"}
        /\ UNCHANGED <<model, modelStep, calls>>
    BY <1>3 DEF Starts, ClientCommand, ModelCommand, Begin, Redact, Enter
  <2>2. QED
    BY <2>1
<1>4. CASE Apply(s)
  <2>1. step'[s] = "candidate" /\ UNCHANGED <<model, modelStep, calls>>
    BY <1>4 DEF Apply, Submit, Validate, Commit, Resolve, Checkpoint, Dispatch, Complete,
       Stage, Enter
  <2>2. QED
    BY <2>1
<1>5. CASE SyncGeneration(s)
  BY <1>5 DEF SyncGeneration, Enter, Dispatching
<1>6. CASE Finishes(s)
  <2>1. PICK done \in BOOLEAN :
            /\ Finish(s, done) /\ calls' = calls /\ step[s] # "free"
            /\ done => \/ ReplyAgain(s)
                       \/ step[s] = "published"
    BY <1>6 DEF Finishes, ReplyAgain, Refuse, ReplyPublished, PublicationRefused,
       RedactReturns, Throw, Fails
  <2>2. step'[s] = "free" /\ modelStep'[s] = "call" /\ model'[s] = model[s]
    BY <2>1, FinishMoves
  <2>3. CASE modelStep[s] = "call"
    BY <2>1, <2>2, <2>3
  <2>4. CASE modelStep[s] # "call"
    <3>1. Dispatching(s) /\ done
      BY <2>1, <2>2, <2>4, FinishMoves
    <3>2. ~ReplyAgain(s)
      <4>1. SUFFICES ASSUME ReplyAgain(s) PROVE FALSE
        OBVIOUS
      <4>2. PICK r \in memory[s].requests : r.command = task[s].command
        BY <4>1 DEF ReplyAgain, Carried
      <4>3. condition[s] = "running" /\ task[s].command.kind = "model_dispatch"
            /\ task[s].command.of = model[s].invocation
        BY <1>1, <2>1, <3>1 DEF TaskAt, Redacting, Dispatching
      <4>4. memory[s] = chain[head[s]] /\ head[s] \in 1..Len(chain)
        BY <1>1, <4>3 DEF KnownAt
      <4>5. Invoked(s).status # "none"
        BY <4>2, <4>3, <4>4 DEF Chained, Sound, Invoked
      <4>6. QED
        BY <1>1, <3>1, <4>3, <4>5 DEF InvocationAt, Dispatching
    <3>3. step[s] = "published"
      BY <2>1, <3>1, <3>2
    <3>4. QED
      BY <2>1, <2>2, <3>1, <3>3
  <2>5. QED
    BY <2>3, <2>4
<1>7. CASE Stop(s) \/ Die(s)
  BY <1>7, ForgetsStays
<1>8. QED
  BY <1>2, <1>3, <1>4, <1>5, <1>6, <1>7 DEF Acts, Publishes

\* The dispatch that is linked claims an invocation which no generation knows.
LEMMA LinkClaims ==
    ASSUME TypeOK, Chained, Services, NEW s \in Server, LinkGeneration(s),
           NEW i \in Invocation, Claims(s, i)'
    PROVE  \/ Claims(s, i) /\ modelStep[s] = "call"
           \/ /\ modelStep[s] = "dispatch"
              /\ ~Journaled(i, Len(chain)) /\ Journaled(i, Len(chain))'
<1>1. TaskAt(s) /\ PublicationAt(s)
  BY DEF Services, ServiceAt
<1>2. /\ UNCHANGED <<task, model, modelStep>> /\ step[s] = "candidate"
  BY DEF LinkGeneration, invoking
<1>3. CASE modelStep[s] = "call"
  BY <1>2, <1>3 DEF Claims
<1>4. CASE modelStep[s] # "call"
  <2>1. Dispatching(s) /\ model[s].invocation = i
    BY <1>2, <1>4 DEF Claims, Dispatching
  <2>2. /\ ~Redacting(s) /\ task[s].command.kind = "model_dispatch"
        /\ task[s].command.of = i
    BY <1>1, <1>2, <2>1 DEF TaskAt, Redacting, Dispatching
  <2>3. PICK g \in Generation :
            /\ chain' = Append(chain, g) /\ chain # <<>>
            /\ g = candidate[s] /\ memory[s] = Newest /\ Newest.status = "COMPLETE"
    BY <2>2, LinkedKeeps
  <2>4. Newest.invocations[i].status = "none" /\ g.invocations[i].status # "none"
    BY <1>1, <1>2, <2>2, <2>3 DEF PublicationAt, Makes, Moves
  <2>5. Len(chain) \in Nat /\ Len(chain) \in 1..Len(chain)
    BY <2>3 DEF TypeOK
  <2>6. \A k \in 1..Len(chain) : chain[k].invocations[i].status = "none"
    <3>1. \A k \in 1..Len(chain) : Keeps(chain[k], Newest)
      BY <2>5 DEF Chained, Newest
    <3>2. QED
      BY <2>3, <2>4, <3>1 DEF Keeps, KeepsInvocations
  <2>7. Len(chain') = Len(chain) + 1 /\ chain'[Len(chain) + 1] = g
    BY <2>3 DEF TypeOK
  <2>8. Len(chain') \in 1..Len(chain')
    BY <2>5, <2>7
  <2>9. QED
    BY <2>1, <2>4, <2>6, <2>7, <2>8 DEF Journaled, Dispatching
<1>5. QED
  BY <1>3, <1>4

\* What is journaled stays so, and on disk it survives the host.
LEMMA JournaledStays ==
    ASSUME NEW i, NEW m \in Nat, NEW n \in Nat, m <= n, Journaled(i, m),
           \A k \in 1..m : chain'[k] = chain[k]
    PROVE  \E k \in 1..n : chain'[k].invocations[i].status # "none"
<1>1. PICK k \in 1..m : chain[k].invocations[i].status # "none"
  BY DEF Journaled
<1>2. k \in 1..n /\ chain'[k] = chain[k]
  BY <1>1
<1>3. QED
  BY <1>1, <1>2

LEMMA ClaimedStep ==
    ASSUME TypeOK, Chained, Services, Locking, Claimed, Next, TypeOK'
    PROVE  Claimed'
<1>0. /\ durable \in Nat /\ durable' \in Nat /\ Len(chain) \in Nat /\ Len(chain') \in Nat
      /\ durable <= Len(chain)
      /\ \A i \in Invocation : calls[i] \in Nat
  BY DEF TypeOK
<1>1. CASE HostCrashes
  <2>1. /\ \A s \in Server : step'[s] = "free" /\ modelStep'[s] = "free"
        /\ calls' = calls
    BY <1>1 DEF HostCrashes
  <2>2. \A s \in Server, i \in Invocation : ~Claims(s, i)'
    BY <2>1 DEF Claims
  <2>3. \A i \in Invocation : calls[i] = 1 => Journaled(i, durable)'
    BY <1>0, <1>1, Crashed, JournaledStays DEF Claimed, Journaled
  <2>4. QED
    BY <2>1, <2>2, <2>3 DEF Claimed
<1>2. ASSUME NEW s \in Server, Acts(s) PROVE Claimed'
  <2>1. Grown
    BY <1>2, Growing
  <2>2. \A t \in Server \ {s}, i \in Invocation :
            /\ Claims(t, i)' <=> Claims(t, i)
            /\ modelStep'[t] = modelStep[t]
    BY <1>2, Frame DEF Untouched, Claims, Dispatching
  <2>3. \A i \in Invocation :
            /\ Journaled(i, durable) => Journaled(i, durable)'
            /\ Journaled(i, Len(chain)) => Journaled(i, Len(chain))'
    <3>1. \A k \in 1..durable : chain'[k] = chain[k]
      BY <1>0, <2>1 DEF Grown
    <3>2. QED
      BY <1>0, <2>1, <3>1, JournaledStays DEF Grown, Journaled
  <2>4. CASE LinkGeneration(s)
    <3>1. calls' = calls /\ modelStep' = modelStep
      BY <2>4 DEF LinkGeneration, invoking
    <3>2. \A i \in Invocation :
              /\ calls[i] = 1 => Journaled(i, Len(chain))
              /\ \A t \in Server : Claims(t, i) => Journaled(i, Len(chain))
      BY <1>0 DEF Claimed, Journaled
    <3>3. \A i \in Invocation : Claims(s, i)' =>
              \/ Claims(s, i)
              \/ /\ modelStep[s] = "dispatch" /\ calls[i] = 0
                 /\ Journaled(i, Len(chain))' /\ \A t \in Server : ~Claims(t, i)
      BY <1>0, <2>4, <3>2, LinkClaims DEF Claimed
    <3>4. \A i \in Invocation : calls'[i] <= 1 /\ (calls'[i] = 1 => Journaled(i, durable)')
      BY <2>3, <3>1 DEF Claimed
    <3>5. \A t \in Server, i \in Invocation : Claims(t, i)' =>
              /\ calls'[i] = 0 /\ Journaled(i, Len(chain))'
              /\ modelStep'[t] = "call" => Journaled(i, durable)'
      BY <2>2, <2>3, <3>1, <3>3 DEF Claimed
    <3>6. \A t, u \in Server, i \in Invocation : Claims(t, i)' /\ Claims(u, i)' => t = u
      BY <2>2, <3>3 DEF Claimed
    <3>7. QED
      BY <3>4, <3>5, <3>6 DEF Claimed
  <2>5. CASE ~LinkGeneration(s)
    <3>1. \A i \in Invocation : Claims(s, i)' =>
              /\ Claims(s, i) /\ calls' = calls
              /\ modelStep'[s] = "call" =>
                     modelStep[s] = "call" \/ (step[s] = "published" /\ Dispatching(s))
      BY <1>2, <2>5, ClaimsMove
    <3>2. ASSUME NEW i \in Invocation, Claims(s, i), step[s] = "published", Dispatching(s)
          PROVE  Journaled(i, durable)
      <4>1. TaskAt(s) /\ PublicationAt(s) /\ model[s].invocation = i
        BY <3>2 DEF Services, ServiceAt, Claims
      <4>2. /\ ~Redacting(s) /\ task[s].command.kind = "model_dispatch"
            /\ task[s].command.of = i
        BY <3>2, <4>1 DEF TaskAt, Redacting, Dispatching
      <4>3. candidate[s].invocations[i].status # "none"
        BY <3>2, <4>1, <4>2 DEF PublicationAt, Makes, Moves
      <4>4. head[s] + 1 \in 1..durable /\ chain[head[s] + 1] = candidate[s]
        BY <1>0, <3>2, <4>1, <4>2 DEF PublicationAt
      <4>5. QED
        BY <4>3, <4>4 DEF Journaled
    <3>3. \A t, u \in Server, i \in Invocation : Claims(t, i)' /\ Claims(u, i)' => t = u
      BY <2>2, <3>1 DEF Claimed
    <3>4. CASE Call(s)
      <4>1. modelStep[s] = "call"
        BY <3>4 DEF Call
      <4>2. PICK j \in Invocation : j = model[s].invocation
        BY <4>1 DEF Services, ServiceAt, InvocationAt
      <4>3. Claims(s, j) /\ calls[j] = 0 /\ Journaled(j, durable)
        BY <4>1, <4>2 DEF Claims, Claimed
      <4>4. calls'[j] = 1 /\ \A i \in Invocation \ {j} : calls'[i] = calls[i]
        BY <3>4, <4>2, <4>3 DEF TypeOK, Call
      <4>5. \A i \in Invocation : ~Claims(s, i)'
        <5>1. calls' # calls
          BY <4>2, <4>3, <4>4
        <5>2. QED
          BY <3>1, <5>1
      <4>6. \A t \in Server : ~Claims(t, j)'
        <5>1. SUFFICES ASSUME NEW t \in Server, Claims(t, j)' PROVE FALSE
          OBVIOUS
        <5>2. t # s
          BY <4>2, <4>5, <5>1
        <5>3. Claims(t, j)
          BY <2>2, <4>2, <5>1, <5>2
        <5>4. QED
          BY <4>2, <4>3, <5>2, <5>3 DEF Claimed
      <4>7. \A i \in Invocation : calls'[i] <= 1 /\ (calls'[i] = 1 => Journaled(i, durable)')
        BY <2>3, <4>2, <4>3, <4>4 DEF Claimed
      <4>8. \A t \in Server, i \in Invocation : Claims(t, i)' =>
                /\ calls'[i] = 0 /\ Journaled(i, Len(chain))'
                /\ modelStep'[t] = "call" => Journaled(i, durable)'
        <5>1. SUFFICES ASSUME NEW t \in Server, NEW i \in Invocation, Claims(t, i)'
                       PROVE  /\ calls'[i] = 0 /\ Journaled(i, Len(chain))'
                              /\ modelStep'[t] = "call" => Journaled(i, durable)'
          OBVIOUS
        <5>2. t # s /\ i # j
          BY <4>5, <4>6, <5>1
        <5>3. Claims(t, i) /\ modelStep'[t] = modelStep[t]
          BY <2>2, <5>1, <5>2
        <5>4. /\ calls[i] = 0 /\ Journaled(i, Len(chain))
              /\ modelStep[t] = "call" => Journaled(i, durable)
          BY <5>3 DEF Claimed
        <5>5. QED
          BY <2>3, <4>4, <5>2, <5>3, <5>4
      <4>9. QED
        BY <3>3, <4>7, <4>8 DEF Claimed
    <3>5. CASE ~Call(s)
      <4>1. calls' = calls
        <5> USE DEF archive, failures
        <5>1. CASE Plain(s) \/ Starts(s)
          BY <3>5, <5>1 DEF Plain, Create, Created, Recover, InvokeModel, LookUp,
             AnswerJournaled, InvocationRefused, Starts, ClientCommand, ModelCommand, Begin, Redact
        <5>2. CASE Publishes(s)
          BY <5>2 DEF Publishes, Apply, Submit, Validate, Commit, Resolve, Checkpoint,
             Dispatch, Complete, Stage, LinkGeneration, SyncGeneration
        <5>3. CASE Finishes(s) \/ Stop(s) \/ Die(s)
          BY <5>3 DEF Finishes, ReplyAgain, Refuse, ReplyPublished, PublicationRefused,
             RedactReturns, Throw, Stop, Die
        <5>4. QED
          BY <1>2, <5>1, <5>2, <5>3 DEF Acts
      <4>2. \A i \in Invocation : calls'[i] <= 1 /\ (calls'[i] = 1 => Journaled(i, durable)')
        BY <2>3, <4>1 DEF Claimed
      <4>3. \A t \in Server \ {s}, i \in Invocation : Claims(t, i)' =>
                /\ calls'[i] = 0 /\ Journaled(i, Len(chain))'
                /\ modelStep'[t] = "call" => Journaled(i, durable)'
        BY <2>2, <2>3, <4>1 DEF Claimed
      <4>4. \A i \in Invocation : Claims(s, i)' =>
                /\ calls'[i] = 0 /\ Journaled(i, Len(chain))'
                /\ modelStep'[s] = "call" => Journaled(i, durable)'
        BY <2>3, <3>1, <3>2, <4>1 DEF Claimed
      <4>5. QED
        BY <3>3, <4>2, <4>3, <4>4 DEF Claimed
    <3>6. QED
      BY <3>4, <3>5
  <2>6. QED
    BY <2>4, <2>5
<1>3. QED
  BY <1>1, <1>2, Steps

-----------------------------------------------------------------------------
(* Replies *)

\* A reply is read from a generation of the archive, or recorded in one.
LEMMA RepliesMove ==
    ASSUME TypeOK, Chained, Services, NEW s \in Server, Acts(s)
    PROVE  /\ hostCrashes' = hostCrashes
           /\ \A r \in delivered' : r \in delivered \/
                  \E n \in 1..Len(chain) : r \in chain[n].requests
<1>1. KnownAt(s) /\ TaskAt(s) /\ PublicationAt(s) /\ InvocationAt(s)
  BY DEF Services, ServiceAt
<1>2. \A r \in memory[s].requests : \E n \in 1..Len(chain) : r \in chain[n].requests
  BY <1>1, NoMemoryIsEmpty DEF TypeOK, KnownAt, Condition
<1> USE DEF failures
<1>3. CASE AnswerJournaled(s) \/ ReplyAgain(s)
  BY <1>2, <1>3 DEF AnswerJournaled, ReplyAgain, Carried
<1>4. CASE ReplyPublished(s)
  <2>1. /\ hostCrashes' = hostCrashes /\ delivered' = delivered \cup {ReplyTo(s)}
        /\ step[s] = "published" /\ ~Redacting(s)
    BY <1>4 DEF ReplyPublished
  <2>2. /\ head[s] + 1 \in 1..Len(chain) /\ chain[head[s] + 1] = candidate[s]
        /\ ReplyTo(s) \in candidate[s].requests
    BY <1>1, <2>1 DEF PublicationAt, Makes
  <2>3. QED
    BY <2>1, <2>2
<1>5. CASE Plain(s) /\ ~AnswerJournaled(s)
  BY <1>5 DEF Plain, Create, Created, Recover, InvokeModel, LookUp, Call, InvocationRefused
<1>6. CASE Starts(s)
  BY <1>6 DEF Starts, ClientCommand, ModelCommand, Begin, Redact
<1>7. CASE Publishes(s)
  BY <1>7 DEF Publishes, Apply, Submit, Validate, Commit, Resolve, Checkpoint,
     Dispatch, Complete, Stage, LinkGeneration, SyncGeneration
<1>8. CASE Refuse(s) \/ PublicationRefused(s) \/ RedactReturns(s) \/ Throw(s) \/ Stop(s) \/ Die(s)
  BY <1>8 DEF Refuse, PublicationRefused, RedactReturns, Throw, Stop, Die
<1>9. QED
  BY <1>3, <1>4, <1>5, <1>6, <1>7, <1>8 DEF Acts, Finishes

LEMMA RepliedStep ==
    ASSUME TypeOK, Chained, Services, Replied, Next
    PROVE  Replied'
<1>1. CASE HostCrashes
  <2>1. hostCrashes' # 0
    BY <1>1 DEF HostCrashes, TypeOK
  <2>2. QED
    BY <2>1 DEF Replied
<1>2. ASSUME NEW s \in Server, Acts(s) PROVE Replied'
  <2>1. \A n \in 1..Len(chain) : n \in 1..Len(chain') /\ chain'[n] = chain[n]
    BY <1>2, Growing DEF Grown
  <2>2. /\ hostCrashes' = hostCrashes
        /\ \A r \in delivered' : r \in delivered \/
               \E n \in 1..Len(chain) : r \in chain[n].requests
    BY <1>2, RepliesMove
  <2>3. QED
    BY <2>1, <2>2 DEF Replied
<1>3. QED
  BY <1>1, <1>2, Steps

-----------------------------------------------------------------------------
(* The theorems *)

LEMMA Initially == Init => IInv
<1> SUFFICES ASSUME Init PROVE IInv
  OBVIOUS
<1>1. TypeOK
  BY GenesisType, NothingType
     DEF Init, TypeOK, Condition, Label, ModelLabel
<1>2. Chained /\ Locking
  BY DEF Init, Chained, Locking, Holds
<1>3. Services
  BY DEF Init, Services, ServiceAt, KnownAt, TaskAt, PublicationAt, InvocationAt
<1>4. Claimed /\ Replied
  BY DEF Init, Claimed, Claims, Replied
<1>5. QED
  BY <1>1, <1>2, <1>3, <1>4 DEF IInv

LEMMA Preserved == IInv /\ [Next]_vars => IInv'
<1>1. ASSUME IInv, Next PROVE IInv'
  BY <1>1, TypeStep, ChainedStep, LockingStep, ServicesStep, ClaimedStep, RepliedStep
     DEF IInv
<1>2. ASSUME IInv, UNCHANGED vars PROVE IInv'
  <2> USE <1>2 DEF vars, archive, known, work, invoking, failures
  <2>1. TypeOK' /\ Chained' /\ Locking'
    BY DEF IInv, TypeOK, Chained, Locking, Holds
  <2>2. Services'
    BY DEF IInv, Services, ServiceAt, KnownAt, TaskAt, PublicationAt, InvocationAt, Redacting,
       Dispatching, ReplyTo, Invoked
  <2>3. Claimed' /\ Replied'
    BY DEF IInv, Claimed, Claims, Dispatching, Journaled, Replied
  <2>4. QED
    BY <2>1, <2>2, <2>3 DEF IInv
<1>3. QED
  BY <1>1, <1>2

\* The chain is one of sound generations that keep what came before, the lock is
\* held by at most one service, and every coordinator's step agrees with what is
\* journaled in the chain (transactions of src/run-service.js).
THEOREM Invariant == Spec => []IInv
  BY Initially, Preserved, PTL DEF Spec

\* Whatever services do to the archive and to one another, the archive, their
\* memories and the replies stay of their kinds.
THEOREM TypeCorrect == Spec => []TypeOK
<1>1. IInv => TypeOK
  BY DEF IInv
<1>2. QED
  BY <1>1, Invariant, PTL

\* An external model call is made at most once per invocation: invokeModel of any
\* number of services, with any crashes and retries between them.
THEOREM NoCallTwice == Spec => []CalledOnce
<1>1. IInv => CalledOnce
  BY DEF IInv, Claimed, CalledOnce
<1>2. QED
  BY <1>1, Invariant, PTL

\* Every external call that was made has its invocation in a generation that is
\* on disk: the archive is synced before invokeModel makes the call.
THEOREM NoCallForgotten == Spec => []CallsJournaled
<1>1. IInv => CallsJournaled
  <2> SUFFICES ASSUME IInv, NEW i \in Invocation, calls[i] > 0
               PROVE  Journaled(i, durable)
    BY DEF CallsJournaled, Journaled
  <2>1. calls[i] \in Nat /\ calls[i] <= 1
    BY DEF IInv, TypeOK, Claimed
  <2>2. calls[i] = 1
    BY <2>1
  <2>3. QED
    BY <2>2 DEF IInv, Claimed
<1>2. QED
  BY <1>1, Invariant, PTL

\* A request id has one effect in every generation, and one reply as long as the
\* host stays up, on whichever service it is retried.
THEOREM NoEffectTwice == Spec => []EffectOnce
<1>1. IInv => EffectOnce
  <2> SUFFICES ASSUME IInv PROVE EffectOnce
    OBVIOUS
  <2>1. \A n \in 1..Len(chain) : \A q, r \in chain[n].requests : q.id = r.id => q = r
    BY DEF IInv, Chained, Sound
  <2>2. ASSUME hostCrashes = 0, NEW q \in delivered, NEW r \in delivered, q.id = r.id
        PROVE  q = r
    <3>1. PICK m \in 1..Len(chain), n \in 1..Len(chain) :
              q \in chain[m].requests /\ r \in chain[n].requests
      BY <2>2 DEF IInv, Replied
    <3>2. ASSUME NEW j \in 1..Len(chain), NEW k \in 1..Len(chain), j <= k,
                 NEW p \in chain[j].requests, chain[k].requests # {}
          PROVE  p \in chain[k].requests
      BY <3>2 DEF IInv, Chained, Sound, Keeps
    <3>3. CASE m <= n
      BY <2>1, <2>2, <3>1, <3>2, <3>3
    <3>4. CASE n <= m
      BY <2>1, <2>2, <3>1, <3>2, <3>4
    <3>5. QED
      BY <3>3, <3>4
  <2>3. QED
    BY <2>1, <2>2 DEF EffectOnce
<1>2. QED
  BY <1>1, Invariant, PTL

\* No service publishes over what another has published.
THEOREM NoPublicationLost == Spec => []NothingLost
<1>1. IInv => NothingLost
  <2> SUFFICES ASSUME IInv, NEW n \in 1..Len(chain) - 1
               PROVE  Keeps(chain[n], chain[n + 1])
    BY DEF NothingLost, Keeps, KeepsTurn, KeepsInvocations
  <2>1. Len(chain) \in Nat
    BY DEF IInv, TypeOK
  <2>2. n \in 1..Len(chain) /\ n + 1 \in 1..Len(chain) /\ n <= n + 1
    BY <2>1
  <2>3. QED
    BY <2>2 DEF IInv, Chained
<1>2. QED
  BY <1>1, Invariant, PTL

\* A committed turn accounts for every actor and stays as it is until it is
\* resolved, a redaction of the run included.
THEOREM CommittedStays == Spec => []TurnsSealed
<1>1. IInv => TurnsSealed
  <2> SUFFICES ASSUME IInv, NEW n \in 1..Len(chain), chain[n].pending
               PROVE  /\ Accounted(chain[n])
                      /\ n < Len(chain) => KeepsTurn(chain[n], chain[n + 1])
    BY DEF TurnsSealed, Accounted, KeepsTurn
  <2>1. Len(chain) \in Nat
    BY DEF IInv, TypeOK
  <2>2. Accounted(chain[n])
    BY DEF IInv, Chained, Sound
  <2>3. ASSUME n < Len(chain) PROVE KeepsTurn(chain[n], chain[n + 1])
    <3>1. n + 1 \in 1..Len(chain) /\ n <= n + 1
      BY <2>1, <2>3
    <3>2. QED
      BY <3>1 DEF IInv, Chained, Keeps
  <2>4. QED
    BY <2>2, <2>3
<1>2. QED
  BY <1>1, Invariant, PTL
=============================================================================
