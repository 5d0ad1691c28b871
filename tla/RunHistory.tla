----------------------------- MODULE RunHistory ------------------------------
(***************************************************************************)
(* What the signed run archive promises its callers, without files, locks  *)
(* or journals: a history of generations that grows at its end by one      *)
(* generation at a time; each generation extends the evidence of the one   *)
(* before; a redaction replaces payloads by a tombstone and closes the     *)
(* history to new evidence; a generation whose return a caller has seen is *)
(* never taken back, although the loss of the host may take back a         *)
(* generation nobody was told of.                                          *)
(***************************************************************************)
EXTENDS Naturals, Sequences

CONSTANTS Tombstone, None

VARIABLES history, acknowledged

vars == <<history, acknowledged>>

Newest == history[Len(history)]
IsPrefixOf(s, t) == Len(s) <= Len(t) /\ s = SubSeq(t, 1, Len(s))
Payloads(s) == {s[i] : i \in 1..Len(s)}

Init == history = <<>> /\ acknowledged = <<>>

\* One generation is added; it is called Added.
Grows == Len(history') = Len(history) + 1 /\ IsPrefixOf(history, history')
Added == Newest'

\* A caller's next evidence: it extends the newest evidence, which has not
\* been redacted, and keeps its endpoint analysis once there is one.
Extend ==
    /\ Grows
    /\ Added.status = "COMPLETE"
    /\ Added.object.erased = {}
    /\ history # <<>> =>
        /\ Newest.status = "COMPLETE"
        /\ IsPrefixOf(Newest.object.events, Added.object.events)
        /\ Newest.object.analysis \in {None, Added.object.analysis}
    /\ UNCHANGED acknowledged

\* An authorised redaction adds a tombstone, erases more of the payloads and
\* drops the service state and the analysis, which may repeat their bytes.
Redact ==
    /\ history # <<>>
    /\ Grows
    /\ Added.status = "REPLAY_INCOMPLETE_REDACTED"
    /\ Added.object.events = Append(Newest.object.events, Tombstone)
    /\ Added.object.erased \subseteq Payloads(Newest.object.events)
    /\ Newest.object.erased \subseteq Added.object.erased
    /\ Newest.object.erased # Added.object.erased
    /\ Added.object.service = None /\ Added.object.analysis = None
    /\ UNCHANGED acknowledged

Acknowledge ==
    /\ IsPrefixOf(acknowledged, acknowledged')
    /\ IsPrefixOf(acknowledged', history)
    /\ UNCHANGED history

\* The host is lost with newest generations nobody was told of.
Forget ==
    /\ IsPrefixOf(history', history)
    /\ IsPrefixOf(acknowledged, history')
    /\ UNCHANGED acknowledged

Next == Extend \/ Redact \/ Acknowledge \/ Forget

Spec == Init /\ [][Next]_vars
=============================================================================
