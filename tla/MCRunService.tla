---------------------------- MODULE MCRunService -----------------------------
(***************************************************************************)
(* RunService for TLC: three workloads.  Model calls by two services that  *)
(* also reconcile them; records and reconciliations under request ids that *)
(* are used again; and a whole turn of two actors on one service.          *)
(***************************************************************************)
EXTENDS RunService

CONSTANTS s1, s2, r1, r2, i1, a1, a2

On(kind, subject) == [kind |-> kind, of |-> subject, turn |-> 0]
Reconcile1(r) == [request |-> r, command |-> On("model_completion", i1)]
Record(r) == [request |-> r, command |-> On("memory", None)]

Load(asked, invoked, servers, generations, faulty, hostLosses) ==
    [asked |-> asked, invoked |-> invoked, servers |-> servers,
     generations |-> generations, faults |-> faulty, hostCrashes |-> hostLosses]

Calls ==
    Load({Reconcile1(r1)}, [request : {r1}, invocation : {i1}], {s1, s2}, 5, 1, 1)
Reuse ==
    Load({Record(r1), Record(r2), Reconcile1(r2)},
         [request : {r1}, invocation : {i1}], {s1, s2}, 3, 0, 0)

\* Each command under an id of its own; one actor may submit twice and an
\* operator may stop the run.
TurnCommands ==
    {On(k, a) : k \in {"submission", "validation"}, a \in Actor}
        \cup {On(k, None) : k \in {"commit", "resolution", "security"}}
Named(c, n) == [request |-> <<c.kind, c.of, n>>, command |-> c]
Turn ==
    Load({Named(c, 1) : c \in TurnCommands}
            \cup {Named(On("submission", a1), 2)},
         {}, {s1}, 7, 0, 0)

MCRequest == {r1, r2} \cup {a.request : a \in Turn.asked}
MCWorkloads == {Calls, Reuse, Turn}
=============================================================================
