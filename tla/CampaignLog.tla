----------------------------- MODULE CampaignLog -----------------------------
(***************************************************************************)
(* What the calibration archive promises its callers, without files, locks *)
(* or journals: one sequence of signed states.  A handle that has seen     *)
(* some length of it may add one state, and only when it has seen all of   *)
(* it; the state it adds keeps what the newest one retains.                *)
(***************************************************************************)
EXTENDS Naturals, Sequences

CONSTANTS Handle, Retains(_, _)

VARIABLES log, seen      \* seen[h]: how many states h has seen, 0 for none

vars == <<log, seen>>

Init == log = <<>> /\ seen = [h \in Handle |-> 0]

Add(h) ==
    /\ seen[h] = Len(log)
    /\ Len(log') = Len(log) + 1
    /\ log = SubSeq(log', 1, Len(log))
    /\ log # <<>> => Retains(log[Len(log)], log'[Len(log')])
    /\ UNCHANGED seen

See(h) == seen' = [seen EXCEPT ![h] = Len(log)] /\ UNCHANGED log

Forget(h) == seen' = [seen EXCEPT ![h] = 0] /\ UNCHANGED log

Next == \E h \in Handle : Add(h) \/ See(h) \/ Forget(h)

Spec == Init /\ [][Next]_vars
=============================================================================
