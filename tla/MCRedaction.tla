---------------------------- MODULE MCRedaction -----------------------------
(* Redaction for TLC: two polities, interchangeable; and one of them alone. *)
EXTENDS Redaction

Symmetry == Permutations(Polity)
=============================================================================
