------------------------- MODULE MCCalibrationRunner -------------------------
(***************************************************************************)
(* Four parameter sets and an operation of each kind, over landscapes that *)
(* make the search end in every way it can.                                *)
(***************************************************************************)
EXTENDS CalibrationRunner

MCVector == {"a", "b", "c", "d"}
MCStart == "a"

\* Two operations beside the baseline, given as <<from a, from b, from c, from d>>.
Moves(second, third) ==
    [v \in MCVector, o \in {2, 3} |->
        (IF o = 2 THEN second ELSE third)[CASE v = "a" -> 1 [] v = "b" -> 2
                                            [] v = "c" -> 3 [] OTHER -> 4]]
Land(second, third, violations, discloses) ==
    [apply |-> Moves(second, third),
     violation |-> [v \in MCVector |-> violations[v]],
     score |-> [v \in MCVector |-> CASE v = "a" -> 1 [] v = "b" -> 3
                                     [] v = "c" -> 2 [] OTHER -> 4],
     discloses |-> discloses]

Violations(a, b, c, d) == [a |-> a, b |-> b, c |-> c, d |-> d]

\* Accepted in a later round; two accepted sets in the first one; what is
\* better by the first metric fails one that passed; better all the time.
MCLandscapes ==
    {Land(second, third, violations, discloses) :
        second \in {<<"b", "c", "b", "a">>, <<"b", "d", "d", "a">>},
        third \in {<<"a", "d", "d", "a">>, <<"c", "c", "a", "a">>,
                   <<"b", "b", "c", "b">>},
        violations \in {
            Violations(<<2, 1>>, <<1, 1>>, <<0, 0>>, <<0, 1>>),
            Violations(<<1, 0>>, <<0, 0>>, <<0, 0>>, <<1, 1>>),
            Violations(<<1, 0>>, <<0, 1>>, <<2, 0>>, <<0, 0>>),
            Violations(<<3, 1>>, <<2, 1>>, <<1, 1>>, <<0, 0>>)},
        discloses \in {{}, {"c"}}}
=============================================================================
