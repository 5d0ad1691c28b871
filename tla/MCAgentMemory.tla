---------------------------- MODULE MCAgentMemory ----------------------------
(* Small instances of AgentMemory for TLC. *)
EXTENDS AgentMemory, TLC

\* Behaviours are followed while they have met one trouble: a restart, a retry,
\* a fall, an interview, or a write of the host.
OneTrouble ==
    restarts + (IF clock.lives THEN 0 ELSE 1)
      + Cardinality({i \in DOMAIN log :
            \/ log[i].invocation[1] = "host"
            \/ /\ log[i].kind = "model" /\ log[i].stage = "dispatch"
               /\ log[i].retryOf # None \/ log[i].phase = "interview"}) <= 1

Symmetry == Permutations(Runtime)
=============================================================================
