------------------------- MODULE MCEvidenceAuthority --------------------------
(* EvidenceAuthority for TLC: what clients send, and which failures occur. *)
EXTENDS EvidenceAuthority

One == {CHOOSE p \in Process : TRUE}

\* Both intents have the same evidence, and no other.
SameEvidence == {x \in Input : x.bundle = CHOOSE b \in Bundle : TRUE}

\* Both have the same evidence, and one of them other evidence as well.
SharedEvidence == SameEvidence \cup {x \in Input : x.intent = CHOOSE i \in Intent : TRUE}

In(processes, offered, throws, deaths, crashes) ==
    [processes |-> processes, offered |-> offered,
     throws |-> throws, deaths |-> deaths, crashes |-> crashes]

\* A process alone dies or loses its host; of two processes, one has an
\* operation cut short by an exception.
AloneOrTogether ==
    {In(One, SharedEvidence, 0, 1, 0), In(One, SharedEvidence, 0, 0, 1),
     In(Process, SameEvidence, 1, 0, 0)}

\* Of two processes one dies.
OneDies == {In(Process, SameEvidence, 0, 1, 0)}
=============================================================================
