------------------------------ MODULE MCArchive ------------------------------
(* Archive for TLC: two processes on one directory, with one of each thing  *)
(* a bundle may hold.  No symmetry is declared: the run also checks         *)
(* RedactionCompletes, which is a liveness property.                        *)
EXTENDS Archive

CONSTANTS p1, p2, e1, s1, a1

Openers == {p1, p2}
OneEvent == {e1}
OneServiceState == {s1}
OneAnalysis == {a1}
=============================================================================
