---------------------------- MODULE MCTurnPhases -----------------------------
(* TurnPhases for TLC: a participant without memory and a model with it. *)
EXTENDS TurnPhases

CONSTANTS human, agent, q1

AnOffer == {[actor |-> agent, request |-> q1]}
AllPhases == Phase
=============================================================================
