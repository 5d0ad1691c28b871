------------------------------ MODULE WorldRules -----------------------------
(***************************************************************************)
(* The rules of the world of src/world-resolution.js and of the validation *)
(* in src/world-actions.js, as operators from worlds to worlds: what       *)
(* orders reserve, the local effects, combat, claims and capture, the      *)
(* economy and the takeover of capitals.  World.tla makes turns of them.   *)
(*                                                                         *)
(* A group of citizens has a number of people and one assignment; the crew *)
(* of a unit is made of groups, by their IDs, with a number of people and  *)
(* a progress of starvation each.  Types of facilities, technologies,      *)
(* projects, messages and what each polity knows are left out.             *)
(***************************************************************************)
EXTENDS Integers, Sequences, FiniteSets, FiniteSetsExt, SequencesExt

CONSTANTS
    Polity, Hex, Territory,
    None,                     \* JavaScript's null
    TerritoryOf, CapitalOf,   \* the territory of a hex, the capital of a polity
    Distance,                 \* hexDistance, of pairs of hexes
    Water,                    \* the hexes of water
    Crew, Capacity,           \* citizens of a unit, cargo space of a transport
    Room,                     \* capacity of a facility
    Price,                    \* credits for a unit, and for a training
    Hold,                     \* capitalHoldTurns
    Yield,                    \* food a farmer grows
    Scale                     \* numericScale

\* Registry values whose exact size does not matter to the properties.
Health == 100
CombatDamage == 50
RetaliationDamage == 38
RetreatHealth == 25
Condition == 2
MortalityRate == Scale \div 2
MaximumShortage == 2
GrowthRate == Scale \div 4
GrowthReserve == 2

Least(a, b) == IF a < b THEN a ELSE b
Most(a, b) == IF a < b THEN b ELSE a
Total(S, f(_)) == FoldSet(LAMBDA x, n : f(x) + n, 0, S)


\* mulDiv: round-half-even of a * b / d.
MulDiv(a, b, d) ==
    LET q == (a * b) \div d
        r == (a * b) % d
    IN  IF 2 * r > d \/ (2 * r = d /\ q % 2 = 1) THEN q + 1 ELSE q

-----------------------------------------------------------------------------
(* Worlds: what belongs to whom.  An owner None is nobody: the group is    *)
(* unaffiliated, the unit neutral, the facility unclaimed.                 *)

GroupsOf(w, p) == {g \in DOMAIN w.group : w.group[g].owner = p}
UnitsOf(w, p) == {u \in DOMAIN w.unit : w.unit[u].owner = p}
FacilitiesOf(w, p) == {f \in DOMAIN w.facility : w.facility[f].owner = p}
TerritoriesOf(w, p) == {t \in Territory : w.territory[t].owner = p}
Population(w, p) == Total(GroupsOf(w, p), LAMBDA g : w.group[g].count)
Hands(crew) == Total(DOMAIN crew, LAMBDA c : crew[c].count)
CrewsOf(w, p) == Total(UnitsOf(w, p), LAMBDA u : Hands(w.unit[u].crew))
Near(h, k) == Distance[h, k] <= 1
Sails(u) == u.type = "transport"

\* owned: what is at a hex may only be used under undisputed ownership.
Owned(w, p, h) ==
    LET t == w.territory[TerritoryOf[h]] IN
    ~t.contested /\ t.owner = p /\ t.controller = p

\* activeFacility and facilityPermitted.
Permitted(w, p, f) ==
    /\ f \in FacilitiesOf(w, p) /\ w.facility[f].condition > 0
    /\ ~w.territory[TerritoryOf[w.facility[f].hex]].contested

\* embarkedCargo: what its owner has aboard a unit, directly or not.
Aboard(w, u) ==
    LET p == w.unit[u].owner
        in[n \in Nat] ==
          IF n = 0 THEN {u}
          ELSE in[n - 1] \cup {v \in UnitsOf(w, p) : w.unit[v].aboard \in in[n - 1]}
        all == in[Cardinality(UnitsOf(w, p))]
    IN  [units |-> {v \in UnitsOf(w, p) : w.unit[v].aboard \in all},
         groups |-> {g \in GroupsOf(w, p) : w.group[g].aboard \in all}]

\* embarkationIndex: what is aboard is aboard a carrier of its owner, and no
\* unit is, through its carriers, aboard itself.
Stowed(w) ==
    /\ \A u \in DOMAIN w.unit : u \notin Aboard(w, u).units
    /\ \A p \in Polity :
        /\ \A u \in UnitsOf(w, p) : w.unit[u].aboard \in UnitsOf(w, p) \cup {None}
        /\ \A g \in GroupsOf(w, p) : w.group[g].aboard \in UnitsOf(w, p) \cup {None}

\* Whatever is aboard a unit goes where the unit is.
Placed(w, u, hex) ==
    LET cargo == Aboard(w, u) IN
    [w EXCEPT !.unit = [v \in DOMAIN @ |-> IF v = u \/ v \in cargo.units
                                           THEN [@[v] EXCEPT !.hex = hex] ELSE @[v]],
              !.group = [g \in DOMAIN @ |-> IF g \in cargo.groups
                                            THEN [@[g] EXCEPT !.hex = hex] ELSE @[g]]]
Carriers(w) ==
    {u \in DOMAIN w.unit : w.unit[u].owner # None /\ w.unit[u].aboard = None}
Aligned(w) ==
    FoldSet(LAMBDA u, v : Placed(v, u, v.unit[u].hex), w, Carriers(w))

With(f, x, v) == [y \in DOMAIN f \cup {x} |-> IF y = x THEN v ELSE f[y]]
Without(f, S) == [y \in DOMAIN f \ S |-> f[y]]

\* syncPopulation drops the groups that have nobody left.
Settled(w) ==
    [w EXCEPT !.group = Without(@, {g \in DOMAIN @ : @[g].count = 0})]
Taken(w, g, n) == Settled([w EXCEPT !.group[g].count = @ - n])

-----------------------------------------------------------------------------
(* reservePlans: orders that ask together for more than there is all fail. *)

Reserve(kind, of, n, capacity) == [key |-> <<kind, of>>, n |-> n, of |-> capacity]
Whole(w, g) == Reserve("citizen", g, w.group[g].count, w.group[g].count)
Part(w, g, n) == Reserve("citizen", g, n, w.group[g].count)
Unit(u) == Reserve("unit", u, 1, 1)

Asking(orders, key) ==
    {<<o, r>> \in orders \X UNION {o.reserve : o \in orders} :
        r \in o.reserve /\ r.key = key}
Overcommitted(orders, key) ==
    LET asking == Asking(orders, key) IN
    Total(asking, LAMBDA a : a[2].n) > Min({a[2].of : a \in asking})
Overspent(w, orders, p) ==
    LET own == {o \in orders : o.by = p} IN
    \/ Total(own, LAMBDA o : o.credits) > w.credits[p]
    \/ Total(own, LAMBDA o : o.food) > w.food[p]
\* Mutant of Refused: each order is compared with the balance by itself.
RefusedSeverally(w, orders) ==
    {o \in orders :
        \/ \E r \in o.reserve : Overcommitted(orders, r.key)
        \/ Overspent(w, {o}, o.by)}
Refused(w, orders) ==
    {o \in orders :
        \/ \E r \in o.reserve : Overcommitted(orders, r.key)
        \/ Overspent(w, orders, o.by) /\ o.credits + o.food > 0}

-----------------------------------------------------------------------------
(* resolveLocal: the effect of one order on the world w, where pre is the  *)
(* world the turn was committed in.                                        *)

Paid(w, o) == [w EXCEPT !.credits[o.by] = @ - o.credits, !.food[o.by] = @ - o.food]

MoveUnit(w, o) == Placed(w, o.unit, o.hex)

\* Of a recruit and of a neutral unit that gets a crew: each group that is
\* drawn on gives a part of the crew, with its progress of starvation.
Manned(w, o) ==
    With(w.unit, o.unit,
         [owner |-> o.by, type |-> o.kind, hex |-> o.hex, health |-> o.health,
          crew |-> [c \in {<<"crew", o.new, g>> : g \in DOMAIN o.workers} |->
                       [count |-> o.workers[c[3]], hurt |-> w.group[c[3]].hurt]],
          aboard |-> None, given |-> FALSE])
Recruit(w, o) ==
    Settled([w EXCEPT
        !.unit = Manned(w, o),
        !.group = [g \in DOMAIN @ |-> IF g \in DOMAIN o.workers
                                      THEN [@[g] EXCEPT !.count = @ - o.workers[g]]
                                      ELSE @[g]]])

\* A part of a crew as a group of citizens, where its unit is.
Ashore(unit, part, owner) ==
    [owner |-> owner, count |-> part.count, job |-> "Soldier", hex |-> unit.hex,
     aboard |-> None, training |-> None, since |-> 0, hurt |-> part.hurt,
     given |-> FALSE]
Demobilize(w, o) ==
    LET u == w.unit[o.unit]
        back == [g \in {<<"citizens", o.new, c>> : c \in DOMAIN u.crew} |->
                    Ashore(u, u.crew[g[3]], o.by)]
    IN  Settled([w EXCEPT !.unit = Without(@, {o.unit}), !.group = back @@ @])

\* Part of a group becomes a group of its own.
Split(w, o, part) == Taken([w EXCEPT !.group = With(@, o.new, part)], o.group, o.count)
Train(w, o) ==
    Split(w, o, [w.group[o.group] EXCEPT !.count = o.count, !.training = o.facility,
                                         !.since = o.turn])
TransferPopulation(w, o) ==
    Split(w, o, [w.group[o.group] EXCEPT !.count = o.count, !.owner = o.to,
                                         !.given = TRUE])
IncorporatePopulation(w, o) ==
    IF o.count = w.group[o.group].count
    THEN [w EXCEPT !.group[o.group].owner = o.by]
    ELSE Split(w, o, [w.group[o.group] EXCEPT !.count = o.count, !.owner = o.by])

Transfer(w, o) ==
    [w EXCEPT !.credits[o.to] = @ + o.credits, !.food[o.to] = @ + o.food]
\* Mutant of TransferUnit: the cargo stays with the one who gave the carrier.
TransferCarrierOnly(w, o) ==
    [w EXCEPT !.unit[o.unit].owner = o.to, !.unit[o.unit].given = TRUE]
TransferUnit(w, o) ==
    LET cargo == Aboard(w, o.unit)
        handed(e) == [e EXCEPT !.owner = o.to, !.given = TRUE]
    IN  [w EXCEPT !.unit = [u \in DOMAIN @ |->
                              IF u = o.unit \/ u \in cargo.units
                              THEN handed(@[u]) ELSE @[u]],
                  !.group = [g \in DOMAIN @ |->
                              IF g \in cargo.groups THEN handed(@[g]) ELSE @[g]]]

Embark(w, pre, o) ==
    IF o.group # None
    THEN [w EXCEPT !.group[o.group].aboard = o.carrier,
                   !.group[o.group].hex = pre.unit[o.carrier].hex]
    ELSE [w EXCEPT !.unit[o.unit].aboard = o.carrier,
                   !.unit[o.unit].hex = pre.unit[o.carrier].hex]
Disembark(w, o) ==
    IF o.group # None
    THEN [w EXCEPT !.group[o.group].aboard = None, !.group[o.group].hex = o.hex]
    ELSE [w EXCEPT !.unit[o.unit].aboard = None, !.unit[o.unit].hex = o.hex]

Local(w, pre, o) ==
    LET v == Paid(w, o) IN
    CASE o.type = "move" -> MoveUnit(v, o)
      [] o.type = "move_population" -> [v EXCEPT !.group[o.group].hex = o.hex]
      [] o.type \in {"recruit", "reactivate_unit"} -> Recruit(v, o)
      [] o.type = "train" -> Train(v, o)
      [] o.type = "destroy" -> [v EXCEPT !.facility = Without(@, {o.facility})]
      [] o.type = "transfer" -> Transfer(v, o)
      [] o.type = "transfer_unit" -> TransferUnit(v, o)
      [] o.type = "transfer_population" -> TransferPopulation(v, o)
      [] o.type = "transfer_facility" ->
            [v EXCEPT !.facility[o.facility].owner = o.to,
                      !.facility[o.facility].given = TRUE]
      [] o.type = "incorporate_population" -> IncorporatePopulation(v, o)
      [] o.type = "acquire_facility" -> [v EXCEPT !.facility[o.facility].owner = o.by]
      [] o.type = "embark" -> Embark(v, pre, o)
      [] o.type = "disembark" -> Disembark(v, o)
      [] OTHER -> v

\* The orders that are left, one after the other.
Effects(w, pre, orders) ==
    FoldSeq(LAMBDA o, v : Local(v, pre, o), w, orders)
=============================================================================
