------------------------------- MODULE MCWorld -------------------------------
(* Small instances of World for TLC: three polities with a home each, a sea *)
(* and an isle that is out of reach.                                        *)
EXTENDS World

CONSTANTS p1, p2, p3, h1, h2, h3, sea, isle

Homes == (p1 :> h1) @@ (p2 :> h2) @@ (p3 :> h3)
HomeOf(t) == CHOOSE p \in Polity : Homes[p] = t
Alone == [h \in Hex |-> h]
Coastal == [h \in Hex |-> IF h = sea THEN h1 ELSE h]
Apart == [x \in Hex \X Hex |->
            IF x[1] = x[2] THEN 0
            ELSE IF isle \in {x[1], x[2]} \/ {x[1], x[2]} = {h3, sea} THEN 2 ELSE 1]

I(n) == <<"start", 0, n>>
C(n) == <<"crew", I(0), I(n)>>
People1(p, n, job, h) ==
    [owner |-> p, count |-> n, job |-> job, hex |-> h, aboard |-> None,
     training |-> None, since |-> 0, hurt |-> 0, given |-> FALSE]
Part1(n, hurt) == [count |-> n, hurt |-> hurt]
Unit1(p, type, h, health, crew) ==
    [owner |-> p, type |-> type, hex |-> h, health |-> health, crew |-> crew,
     aboard |-> None, given |-> FALSE]
Facility1(p, h) == [owner |-> p, hex |-> h, condition |-> Condition, given |-> FALSE]

Peace ==
    [alive |-> [p \in Polity |-> TRUE],
     credits |-> [p \in Polity |-> IF p = p2 THEN 2 ELSE 1], food |-> [p \in Polity |-> 3],
     shortage |-> [p \in Polity |-> 0], growth |-> [p \in Polity |-> 0],
     takeover |-> [p \in Polity |-> NoTakeover],
     territory |-> [t \in Territory |->
        IF t \in {sea, isle} THEN Under(None) ELSE Under(HomeOf(t))],
     group |-> (I(1) :> People1(p1, 1, "Soldier", h1))
            @@ (I(13) :> [People1(p1, 1, "Soldier", h1) EXCEPT !.hurt = 2])
            @@ (I(2) :> People1(p2, 2, "Farmer", h2))
            @@ (I(3) :> People1(p3, 2, "Soldier", h3)) @@ (I(12) :> People1(p3, 2, "Civilian", h2))
            @@ (I(4) :> People1(None, 2, "Civilian", h3)),
     unit |-> (I(5) :> Unit1(p1, "infantry", h2, 50, C(51) :> Part1(1, 0) @@ C(52) :> Part1(1, 2)))
           @@ (I(6) :> Unit1(p2, "infantry", h2, 100, C(61) :> Part1(2, 0)))
           @@ (I(7) :> Unit1(p1, "transport", sea, 100, C(71) :> Part1(2, 0)))
           @@ (I(8) :> Unit1(None, "infantry", h3, 50, <<>>)),
     facility |-> (I(9) :> Facility1(p1, h1)) @@ (I(10) :> Facility1(p2, h2))
               @@ (I(11) :> Facility1(None, h3))]

\* Two fleets at sea, one of them loaded, and hunger.
Fleets ==
    [Peace EXCEPT
        !.food = [p \in Polity |-> 0], !.shortage = [p \in Polity |-> 1],
        !.group = (I(1) :> People1(p1, 1, "Soldier", h1))
               @@ (I(2) :> [People1(p2, 2, "Farmer", h2) EXCEPT !.training = I(10)])
               @@ (I(3) :> [People1(p1, 1, "Civilian", sea) EXCEPT !.aboard = I(7)]),
        !.territory[h3] = [owner |-> None, controller |-> p1, contested |-> TRUE],
        !.unit = (I(7) :> Peace.unit[I(7)])
              @@ (I(6) :> Unit1(p2, "transport", sea, 50, C(61) :> Part1(2, 0)))
              @@ (I(5) :> [Peace.unit[I(5)] EXCEPT !.hex = sea, !.aboard = I(7)])]
OrderStarts == {[world |-> w, turn |-> 1, orders |-> 2] : w \in {Peace, Fleets}}

\* Capitals held by others, and the turn before the last of the holding; people
\* and equipment of a third polity are on an isle of somebody's.
Siege(held, lord) ==
    [Peace EXCEPT
        !.territory = [t \in Territory |-> CASE t = sea -> @[t]
                                             [] t = isle -> Under(lord)
                                             [] OTHER -> Under(held[HomeOf(t)])],
        !.takeover = [p \in Polity |->
            IF held[p] = p THEN NoTakeover ELSE [by |-> held[p], held |-> Hold - 1]],
        !.food = [p \in Polity |-> 0],
        !.group = (I(1) :> People1(p1, 1, "Soldier", h2))
               @@ (I(2) :> [People1(p1, 1, "Civilian", sea) EXCEPT !.aboard = I(7)])
               @@ (I(3) :> People1(p3, 2, "Farmer", isle))
               @@ (I(4) :> People1(p2, 1, "Farmer", h1)),
        !.unit = (I(5) :> @[I(5)]) @@ (I(7) :> @[I(7)])
              @@ (I(6) :> Unit1(p3, "infantry", isle, 100, C(61) :> Part1(2, 0))),
        !.facility[I(11)] = Facility1(p3, isle)]
SuccessionStarts ==
    {[world |-> Siege(held, lord), turn |-> 1, orders |-> 1] :
        held \in [Polity -> Polity], lord \in Polity}

AllStarts == OrderStarts \cup SuccessionStarts

\* Two polities conquered by a third, and people of one at its facility on the
\* isle of the other.
PeersStart ==
    {[world |-> Siege([p \in Polity |-> p1], p2), turn |-> 1, orders |-> 1]}

\* Two polities that hold each other's capital; one has a facility and soldiers
\* of two groups in it, one of which has starved before.
LevyStart ==
    {[world |->
        [Siege((p1 :> p2) @@ (p2 :> p1) @@ (p3 :> p3), p3) EXCEPT
            !.group = (I(1) :> People1(p1, 1, "Soldier", h2))
                   @@ (I(2) :> [People1(p1, 1, "Soldier", h2) EXCEPT !.hurt = 2]),
            !.unit = <<>>, !.facility = I(9) :> Facility1(p1, h2)],
      turn |-> 1, orders |-> 1]}

\* Two empty transports of one polity at sea.
ConvoyStart ==
    {[world |->
        [Peace EXCEPT !.unit = (I(7) :> @[I(7)])
             @@ (I(8) :> Unit1(p1, "transport", sea, 100, C(81) :> Part1(2, 0)))],
      turn |-> 1, orders |-> 2]}

\* One transport aboard another, with people aboard, at sea off their home.
FlotillaStart ==
    {[world |->
        [Peace EXCEPT
            !.unit = (I(7) :> @[I(7)])
                  @@ (I(8) :> [Unit1(p1, "transport", sea, 100, C(81) :> Part1(2, 0))
                                 EXCEPT !.aboard = I(7)]),
            !.group[I(1)] = [@ EXCEPT !.hex = sea, !.aboard = I(8)]],
      turn |-> 1, orders |-> 1]}
=============================================================================
