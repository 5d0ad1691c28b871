--------------------------- MODULE WorldResolution ---------------------------
(***************************************************************************)
(* The rest of src/world-resolution.js: what follows the local effects of  *)
(* a turn's orders.  pre is always the world the turn was committed in.    *)
(***************************************************************************)
EXTENDS WorldRules

(* battles: all decisions read the committed forces.                       *)

Attacks(orders) == {o \in orders : o.type = "attack"}
Damage(u, hits, answers) ==
    CombatDamage * Cardinality({a \in hits : a.target = u})
    + RetaliationDamage * Cardinality({a \in answers : a.unit = u})

\* A unit that is left with little health goes to the one friendly hex next to
\* where it stood that is nearest to the capital, when there is one.
Refuges(pre, u) ==
    LET unit == pre.unit[u]
        open == {h \in Hex : /\ Distance[h, unit.hex] = 1
                             /\ pre.territory[TerritoryOf[h]].controller = unit.owner
                             /\ h \in Water <=> Sails(unit)}
        capital == CapitalOf[unit.owner]
    IN  {h \in open : \A k \in open : Distance[h, capital] <= Distance[k, capital]}

Fighting(attacks) == {a.unit : a \in attacks} \cup {a.target : a \in attacks}
Left(pre, u, hits, answers) == Most(0, pre.unit[u].health - Damage(u, hits, answers))
Destroyed(pre, attacks, hits, answers) ==
    {u \in Fighting(attacks) : Left(pre, u, hits, answers) = 0}

Fought(w, pre, attacks, hits, answers) ==
    LET fighting == Fighting(attacks)
        loss(u) == Damage(u, hits, answers)
        left(u) == Left(pre, u, hits, answers)
        destroyed == Destroyed(pre, attacks, hits, answers)
        lost == UNION {Aboard(w, u).units : u \in destroyed} \cup destroyed
        drowned == UNION {Aboard(w, u).groups : u \in destroyed}
        retreats(u) == /\ u \in fighting /\ loss(u) > 0 /\ left(u) <= RetreatHealth
                       /\ Cardinality(Refuges(pre, u)) = 1
        after(u) ==
            [w.unit[u] EXCEPT
                !.health = IF u \in fighting THEN left(u) ELSE @,
                !.hex = IF retreats(u) THEN CHOOSE h \in Refuges(pre, u) : TRUE ELSE @]
        remain == DOMAIN w.unit \ lost
    IN  Aligned([w EXCEPT !.unit = [u \in remain |-> after(u)],
                          !.group = Without(@, drowned)])

\* battleControl: a territory where one attacker destroyed a unit is under its
\* control when only its own units are left there.
BattleControl(w, pre, attacks, destroyed) ==
    LET attackers(u) == {a.by : a \in {b \in attacks : b.target = u}}
        holding(t) == {w.unit[u].owner : u \in {v \in Carriers(w) :
                                            TerritoryOf[w.unit[v].hex] = t}}
        takes(p, t) == /\ holding(t) = {p}
                       /\ \E u \in destroyed : /\ TerritoryOf[pre.unit[u].hex] = t
                                               /\ attackers(u) = {p}
    IN  [t \in Territory |-> IF \E p \in Polity : takes(p, t)
                             THEN CHOOSE p \in Polity : takes(p, t) ELSE None]

-----------------------------------------------------------------------------
(* setTerritory, captureResidents and territories. *)

Under(owner) == [owner |-> owner, controller |-> owner, contested |-> FALSE]

\* Who and what is in the territory goes with it, unless it was given away this
\* turn; a carrier takes what is directly aboard along.
Captured(w, t, new) ==
    LET here(e) == TerritoryOf[e.hex] = t
        foreign(e) == e.owner \notin {new, None}
        falls(e) == foreign(e) /\ here(e) /\ e.aboard = None /\ ~e.given
        units == {u \in DOMAIN w.unit : falls(w.unit[u])}
        taken(e) == falls(e) \/ (foreign(e) /\ e.aboard \in units)
    IN  [w EXCEPT
          !.unit = [u \in DOMAIN @ |-> IF taken(@[u])
                      THEN [@[u] EXCEPT !.owner = new] ELSE @[u]],
          !.group = [g \in DOMAIN @ |-> CASE falls(@[g]) ->
                                               [@[g] EXCEPT !.owner = new, !.training = None]
                                          [] taken(@[g]) -> [@[g] EXCEPT !.owner = new]
                                          [] OTHER -> @[g]],
          !.facility = [f \in DOMAIN @ |->
                          IF here(@[f]) /\ ~@[f].given /\ w.territory[t].controller = new
                          THEN [@[f] EXCEPT !.owner = new] ELSE @[f]]]

Handed(w, t, new) ==
    LET v == [w EXCEPT !.territory[t] = Under(new)] IN
    IF new = None THEN v ELSE Captured(v, t, new)

Claiming == {"claim", "annex"}
OnTerritory(orders, t) ==
    {o \in orders : o.type \in Claiming \cup {"abandon", "exchange_territory"}
                    /\ o.territory = t}
Presence(pre, p, t) ==
    Total({g \in GroupsOf(pre, p) : /\ TerritoryOf[pre.group[g].hex] = t
                                    /\ pre.group[g].aboard = None},
          LAMBDA g : pre.group[g].count)

\* Several candidates with the most citizens are no winner; an incumbent that
\* fights back is displaced only by who controls the battlefield.
Claimed(w, pre, orders, control, t) ==
    LET old == pre.territory[t]
        claimants == {o.by : o \in {c \in OnTerritory(orders, t) : c.type \in Claiming}}
        candidates == claimants \cup ({old.owner} \ {None})
        leaders == {p \in candidates :
                      \A q \in candidates : Presence(pre, q, t) <= Presence(pre, p, t)}
        resists == \E a \in Attacks(orders) :
                      /\ a.by = old.owner
                      /\ TerritoryOf[pre.unit[a.unit].hex] = t
        wins(p) == /\ leaders = {p} /\ p \in claimants
                   /\ resists => control[t] = p
    IN
    IF claimants = {}
    THEN LET o == CHOOSE o \in OnTerritory(orders, t) : TRUE IN Handed(w, t, o.to)
    ELSE IF \E p \in Polity : wins(p)
    THEN LET p == CHOOSE p \in Polity : wins(p) IN
         IF p = old.owner THEN [w EXCEPT !.territory[t] = Under(p)]
         ELSE Handed(w, t, p)
    ELSE IF leaders = {old.owner} /\ ~resists THEN w
    ELSE [w EXCEPT !.territory[t] =
              [owner |-> None, controller |-> control[t], contested |-> TRUE]]

Disputed(orders) == {t \in Territory : OnTerritory(orders, t) # {}}
Territories(w, pre, orders, control, ids) ==
    FoldSeq(LAMBDA t, v : Claimed(v, pre, orders, control, t), w, ids)

-----------------------------------------------------------------------------
(* completeProjects, of the training of citizens. *)

Trained(w, turn) ==
    LET done(g) == /\ g.owner # None /\ g.training \in DOMAIN w.facility
                   /\ g.since < turn
                   /\ Permitted(w, g.owner, g.training)
                   /\ w.facility[g.training].hex = g.hex
    IN  [w EXCEPT !.group = [g \in DOMAIN @ |->
            IF done(@[g]) THEN [@[g] EXCEPT !.job = "Soldier", !.training = None]
            ELSE @[g]]]

-----------------------------------------------------------------------------
(* economy: production on undisputed ground, consumption, death, growth. *)

Working(w, p) ==
    {g \in GroupsOf(w, p) : /\ w.group[g].aboard = None /\ w.group[g].training = None
                            /\ Owned(w, p, w.group[g].hex)}
Credits(w, p) ==
    Total({g \in Working(w, p) : w.group[g].job # "Civilian"}, LAMBDA g : w.group[g].count)
Harvest(w, p) ==
    Yield * Total({g \in Working(w, p) : w.group[g].job = "Farmer"},
                  LAMBDA g : w.group[g].count)

\* Who starves: the fraction of each group adds up until it is a person.
Starved(count, hurt, mortality) ==
    LET n == hurt + count * mortality IN
    [count |-> count - Least(count, n \div Scale), hurt |-> n % Scale]

Starve(w, p, mortality) ==
    LET of(g) == Starved(w.group[g].count, w.group[g].hurt, mortality)
        part(c) == Starved(c.count, c.hurt, mortality)
        crew(u) == [c \in DOMAIN w.unit[u].crew |-> part(w.unit[u].crew[c])]
        own == UnitsOf(w, p)
        deserted == {u \in own : Hands(crew(u)) = 0}
        gone == deserted \cup {u \in own : w.unit[u].aboard \in deserted}
        stranded == {g \in GroupsOf(w, p) : w.group[g].aboard \in deserted}
        fed(u) == [w.unit[u] EXCEPT !.crew = crew(u)]
        alive(g) == [w.group[g] EXCEPT !.count = of(g).count, !.hurt = of(g).hurt]
    IN  Settled([w EXCEPT
          !.unit = [u \in DOMAIN @ \ gone |-> IF u \in own THEN fed(u) ELSE @[u]],
          !.group = [g \in DOMAIN @ \ stranded |->
                        IF g \in GroupsOf(w, p) THEN alive(g) ELSE @[g]]])

Grown(w, p, turn) ==
    LET civilians == {g \in GroupsOf(w, p) : /\ w.group[g].job = "Civilian"
                                             /\ w.group[g].training = None
                                             /\ w.group[g].aboard = None}
        n == w.growth[p] + GrowthRate * Total(civilians, LAMBDA g : w.group[g].count)
        born == [owner |-> p, count |-> n \div Scale, job |-> "Civilian",
                 hex |-> CapitalOf[p], aboard |-> None, training |-> None,
                 since |-> 0, hurt |-> 0, given |-> FALSE]
        v == [w EXCEPT !.growth[p] = n % Scale]
    IN
    IF w.shortage[p] > 0 \/ w.food[p] < Population(w, p) * GrowthReserve THEN w
    ELSE IF n >= Scale /\ civilians # {}
    THEN [v EXCEPT !.group = With(@, <<"births", turn, p>>, born)]
    ELSE v

Consumed(w, input, p, turn) ==
    LET need == Population(w, p) + CrewsOf(w, p)
        available == w.food[p] + Harvest(input, p)
        deficit == Most(0, need - available)
        shortage == IF deficit > 0 THEN Least(MaximumShortage, w.shortage[p] + 1)
                    ELSE Most(0, w.shortage[p] - 1)
        mortality == Least(Scale, MulDiv(MulDiv(deficit, Scale, Most(1, need)),
                                         shortage * MortalityRate, Scale))
        v == [w EXCEPT !.food[p] = Most(0, available - need),
                       !.credits[p] = @ + Credits(input, p),
                       !.shortage[p] = shortage]
    IN  IF ~w.alive[p] THEN w
        ELSE Grown(IF deficit > 0 THEN Starve(v, p, mortality) ELSE v, p, turn)

Economy(w, turn) == FoldSet(LAMBDA p, v : Consumed(v, w, p, turn), w, Polity)

-----------------------------------------------------------------------------
(* takeover: every decision is taken on the same world; a victim's estate  *)
(* goes to its captor before the captor's does; a circle of captors has no *)
(* beneficiary.                                                            *)

NoTakeover == [by |-> None, held |-> 0]
Occupier(w, p) ==
    LET t == w.territory[TerritoryOf[CapitalOf[p]]] IN
    IF t.contested \/ t.controller = p THEN None ELSE t.controller
NextTakeover(w, p) ==
    LET q == Occupier(w, p) IN
    IF q = None THEN NoTakeover
    ELSE [by |-> q, held |-> IF w.takeover[p].by = q THEN w.takeover[p].held + 1 ELSE 1]
Conquered(w) == {p \in Polity : w.alive[p] /\ NextTakeover(w, p).held >= Hold}
Deserted(w) ==
    {p \in Polity \ Conquered(w) :
        /\ w.alive[p] /\ GroupsOf(w, p) = {} /\ UnitsOf(w, p) = {}
        /\ Occupier(w, p) = None}

\* The victims that nobody still pending is to receive anything from; the
\* others, which is left when there are none, are the circles.
\* Mutant of Ready: whoever is conquered may go first.
AnyOf(w, pending) == pending
Ready(w, pending) == pending \ {Occupier(w, p) : p \in pending}

Besieged(w) ==
    LET sieges(f) == Cardinality({p \in Polity :
                        /\ w.alive[p] /\ Occupier(w, p) # None
                        /\ w.facility[f].hex = CapitalOf[p]})
    IN  [w EXCEPT !.facility = [f \in DOMAIN @ |->
            [@[f] EXCEPT !.condition = Most(0, @ - sieges(f))]]]

Decided(w) ==
    [Besieged(w) EXCEPT
        !.takeover = [p \in Polity |-> IF w.alive[p] THEN NextTakeover(w, p) ELSE @[p]],
        !.alive = [p \in Polity |-> @[p] /\ p \notin Conquered(w) \cup Deserted(w)]]

Inherited(w, p, captor) ==
    LET v == FoldSet(LAMBDA t, x : Handed(x, t, captor), w, TerritoriesOf(w, p))
        left(e) == IF e.owner = p THEN [e EXCEPT !.owner = captor] ELSE e
    IN  [v EXCEPT !.group = [g \in DOMAIN @ |-> left(@[g])],
                  !.unit = [u \in DOMAIN @ |-> left(@[u])]]

\* Mutant of Landed: the crews leave the world with their units.
NoneLanded(w, units) == [c \in {} |-> None]
\* Every part of a crew, one of which nobody is left, too.
Landed(w, units) ==
    [c \in UNION {DOMAIN w.unit[u].crew : u \in units} |->
        LET u == CHOOSE v \in units : c \in DOMAIN w.unit[v].crew IN
        Ashore(w.unit[u], w.unit[u].crew[c], None)]

\* disposeNoBeneficiaryEstate.
Disposed(w, members) ==
    LET units == UNION {UnitsOf(w, p) : p \in members}
        rest(q) == IF q \notin members /\ q # None /\ w.alive[q] THEN q ELSE None
    IN
    [w EXCEPT
      !.territory = [t \in Territory |->
          IF @[t].owner \in members
          THEN [Under(None) EXCEPT !.controller = rest(w.territory[t].controller)]
          ELSE @[t]],
      !.facility = [f \in DOMAIN @ |->
          IF @[f].owner \in members THEN [@[f] EXCEPT !.owner = None] ELSE @[f]],
      !.group = [g \in DOMAIN @ |->
          IF @[g].owner \in members
          THEN [@[g] EXCEPT !.owner = None, !.aboard = None] ELSE @[g]] @@ Landed(w, units),
      !.unit = [u \in DOMAIN @ |->
          IF u \in units
          THEN [@[u] EXCEPT !.owner = None, !.crew = <<>>,
                            !.aboard = IF @ \in UnitsOf(w, w.unit[u].owner) THEN @
                                       ELSE None]
          ELSE @[u]],
      !.credits = [p \in Polity |-> IF p \in members THEN 0 ELSE @[p]],
      !.food = [p \in Polity |-> IF p \in members THEN 0 ELSE @[p]]]
=============================================================================
