-------------------------------- MODULE World --------------------------------
(***************************************************************************)
(* The turns of a world: orders are validated one by one against the       *)
(* published world (planAction of src/world-actions.js), the committed set *)
(* is resolved on a staged copy (resolveApparatus of                       *)
(* src/world-resolution.js), and the copy is published at the end          *)
(* (resolveTurn of src/world.js).  A resolution that throws leaves the     *)
(* published world as it was and may be tried again.                       *)
(***************************************************************************)
EXTENDS WorldResolution

CONSTANTS
    Starts,        \* worlds, with their turn and the number of orders to give
    Recruits,      \* the types of units that may be recruited
    MaxTurns,      \* config.maxTurns
    MaxAmount      \* bound on what one transfer moves

ASSUME WorldBounds ==
    MaxTurns \in Nat /\ MaxAmount \in Nat /\ Crew \in Nat \ {0} /\ Hold \in Nat \ {0}

VARIABLES
    world,         \* the published world
    turn,          \* its turn
    phase,         \* how far the resolution of the turn has come
    orders,        \* the orders accepted, in the order of their action IDs
    left,          \* how many more orders this behaviour may give
    stage,         \* the staged world
    control,       \* battleControl
    frozen,        \* the world the takeover decides on
    pending,       \* conquered polities whose estate is still to be dealt with
    layer          \* those of them whose turn it is

inputs == <<world, turn, orders, left>>
succession == <<frozen, pending, layer>>
vars == <<inputs, phase, stage, control, succession>>

NoControl == [t \in Territory |-> None]

Init ==
    /\ \E s \in Starts : world = s.world /\ turn = s.turn /\ left = s.orders
    /\ phase = "orders" /\ orders = <<>>
    /\ stage = world /\ control = NoControl
    /\ frozen = world /\ pending = {} /\ layer = {}

-----------------------------------------------------------------------------
(* planAction: what each order asks for and reserves. *)

Id == <<"order", turn, Len(orders) + 1>>
Blank == [type |-> None, by |-> None, to |-> None, unit |-> None, group |-> None,
          target |-> None, carrier |-> None, hex |-> None, facility |-> None,
          territory |-> None, kind |-> None, count |-> 0, health |-> 0,
          credits |-> 0, food |-> 0, workers |-> <<>>, new |-> Id, turn |-> turn,
          reserve |-> {}]
Order(p, type) == [Blank EXCEPT !.by = p, !.type = type]

Accept(o) ==
    /\ phase = "orders" /\ left > 0 /\ turn < MaxTurns /\ world.alive[o.by]
    /\ o.credits <= world.credits[o.by] /\ o.food <= world.food[o.by]
    /\ orders' = Append(orders, o) /\ left' = left - 1
    /\ UNCHANGED <<world, turn, phase, stage, control, succession>>

\* Own groups and units that are at hand.
Groups(p) == {g \in GroupsOf(world, p) :
                world.group[g].aboard = None /\ world.group[g].training = None}
Units(p) == {u \in UnitsOf(world, p) : world.unit[u].aboard = None}
SoldiersAt(p, h) == {g \in Groups(p) : /\ world.group[g].job = "Soldier"
                                       /\ world.group[g].hex = h}
\* useWorkers: the groups an order names are drawn on one after the other in the
\* order of their IDs, which may be any, so that only the last one keeps people.
Workers(named) ==
    {taken \in [named -> 1..Crew] :
        LET kept == {g \in named : taken[g] < world.group[g].count} IN
        /\ \A g \in named : taken[g] <= world.group[g].count
        /\ Total(named, LAMBDA g : taken[g]) = Crew
        /\ Cardinality(kept) <= 1}
Drawn(taken) == {Part(world, g, taken[g]) : g \in DOMAIN taken}
At(p, place(_)) == \E g \in GroupsOf(world, p) :
                      world.group[g].aboard = None /\ place(world.group[g].hex)
HexOf(f) == world.facility[f].hex

\* findPath, for a budget of two steps.
Reach(from, to, sails) ==
    LET passable(h) == h \in Water <=> sails IN
    \E k \in Hex : /\ k = from \/ passable(k)
                   /\ passable(to) /\ Near(from, k) /\ Near(k, to)

Move(p) == \E u \in Units(p) : \E h \in Hex \ {world.unit[u].hex} :
    /\ Reach(world.unit[u].hex, h, Sails(world.unit[u]))
    /\ Accept([Order(p, "move") EXCEPT !.unit = u, !.hex = h, !.reserve = {Unit(u)}])

MovePopulation(p) == \E g \in Groups(p) : \E h \in Hex \ {world.group[g].hex} :
    /\ Reach(world.group[g].hex, h, FALSE)
    /\ Accept([Order(p, "move_population") EXCEPT !.group = g, !.hex = h,
                                                  !.reserve = {Whole(world, g)}])

Attack(p) == \E u \in Units(p) : \E v \in Carriers(world) :
    LET a == world.unit[u]  b == world.unit[v] IN
    /\ b.owner # p /\ Sails(a) = Sails(b) /\ Near(a.hex, b.hex)
    /\ Accept([Order(p, "attack") EXCEPT !.unit = u, !.target = v,
                                         !.reserve = {Unit(u)}])

\* Ships are launched on the water next to their facility.
RecruitUnit(p) == \E f \in DOMAIN world.facility : \E h \in Hex : \E kind \in Recruits :
    /\ Permitted(world, p, f) /\ Owned(world, p, HexOf(f))
    /\ IF kind = "transport" THEN h \in Water /\ Near(h, HexOf(f)) ELSE h = HexOf(f)
    /\ \E named \in SUBSET SoldiersAt(p, HexOf(f)) : \E taken \in Workers(named) :
          Accept([Order(p, "recruit") EXCEPT
                    !.unit = Id, !.kind = kind, !.hex = h, !.workers = taken,
                    !.health = Health, !.credits = Price,
                    !.reserve = Drawn(taken)
                                \cup {Reserve("facility-capacity", f, 1, Room)}])

DemobilizeUnit(p) == \E u \in Units(p) :
    /\ \E f \in DOMAIN world.facility :
          Permitted(world, p, f) /\ HexOf(f) = world.unit[u].hex
    /\ Accept([Order(p, "demobilize") EXCEPT !.unit = u, !.reserve = {Unit(u)}])

TrainSoldiers(p) ==
    \E g \in Groups(p) : \E f \in DOMAIN world.facility : \E n \in 1..world.group[g].count :
    /\ world.group[g].job # "Soldier"
    /\ Permitted(world, p, f) /\ HexOf(f) = world.group[g].hex
    /\ Accept([Order(p, "train") EXCEPT
                 !.group = g, !.facility = f, !.count = n, !.credits = Price * n,
                 !.reserve = {Part(world, g, n),
                              Reserve("facility-capacity", f, n, Room)}])

DestroyFacility(p) == \E f \in FacilitiesOf(world, p) :
    /\ Owned(world, p, HexOf(f))
    /\ Accept([Order(p, "destroy") EXCEPT
                 !.facility = f, !.reserve = {Reserve("facility", f, 1, 1)}])

\* Recipients are polities one knows; whether they are still alive is not asked.
TransferCredits(p) == \E q \in Polity \ {p} : \E n \in 1..MaxAmount :
    Accept([Order(p, "transfer") EXCEPT !.to = q, !.credits = n])
TransferFood(p) == \E q \in Polity \ {p} : \E n \in 1..MaxAmount :
    Accept([Order(p, "transfer") EXCEPT !.to = q, !.food = n])

\* Mutant of CargoSpace: the room on the carrier is not reserved.
NoCargoSpace(u) == {}
\* A carrier is given with all that it carries and with all its cargo space.
CargoSpace(u) ==
    IF Sails(world.unit[u]) THEN {Reserve("cargo", u, Capacity, Capacity)} ELSE {}
GiveUnit(p) == \E q \in Polity \ {p} : \E u \in Units(p) :
    LET cargo == Aboard(world, u) IN
    Accept([Order(p, "transfer_unit") EXCEPT
              !.unit = u, !.to = q,
              !.reserve = {Unit(v) : v \in cargo.units \cup {u}} \cup CargoSpace(u)
                          \cup {Whole(world, g) : g \in cargo.groups}])

GivePopulation(p) ==
    \E q \in Polity \ {p} : \E g \in Groups(p) : \E n \in 1..world.group[g].count :
    Accept([Order(p, "transfer_population") EXCEPT
              !.to = q, !.group = g, !.count = n, !.reserve = {Part(world, g, n)}])

GiveFacility(p) == \E q \in Polity \ {p} : \E f \in FacilitiesOf(world, p) :
    /\ Owned(world, p, HexOf(f))
    /\ Accept([Order(p, "transfer_facility") EXCEPT
                 !.to = q, !.facility = f, !.reserve = {Reserve("facility", f, 1, 1)}])

Incorporate(p) == \E g \in GroupsOf(world, None) : \E n \in 1..world.group[g].count :
    LET h == world.group[g].hex IN
    /\ Owned(world, p, h) /\ At(p, LAMBDA k : k = h)
    /\ Accept([Order(p, "incorporate_population") EXCEPT
                 !.group = g, !.count = n,
                 !.reserve = {Reserve("unaffiliated_population", g, 1, 1)}])

Reactivate(p) == \E u \in UnitsOf(world, None) :
    LET unit == world.unit[u] IN
    /\ unit.aboard = None /\ Owned(world, p, unit.hex)
    /\ \E named \in SUBSET SoldiersAt(p, unit.hex) : \E taken \in Workers(named) :
          Accept([Order(p, "reactivate_unit") EXCEPT
                    !.unit = u, !.kind = unit.type, !.hex = unit.hex,
                    !.workers = taken, !.health = unit.health,
                    !.reserve = Drawn(taken) \cup {Reserve("neutral_unit", u, 1, 1)}])

Acquire(p) == \E f \in FacilitiesOf(world, None) :
    /\ Owned(world, p, HexOf(f)) /\ At(p, LAMBDA k : k = HexOf(f))
    /\ Accept([Order(p, "acquire_facility") EXCEPT
                 !.facility = f, !.reserve = {Reserve("unclaimed_facility", f, 1, 1)}])

Claim(p) == \E t \in Territory :
    /\ At(p, LAMBDA k : TerritoryOf[k] = t)
    /\ Accept([Order(p, "claim") EXCEPT
                 !.territory = t, !.reserve = {Reserve("claim", <<p, t>>, 1, 1)}])

Abandon(p) == \E t \in Territory :
    /\ world.territory[t] = Under(p)
    /\ Accept([Order(p, "abandon") EXCEPT
                 !.territory = t, !.reserve = {Reserve("ownership", t, 1, 1)}])

Exchange(p) == \E q \in Polity \ {p} : \E t \in Territory :
    /\ world.territory[t] = Under(p)
    /\ Accept([Order(p, "exchange_territory") EXCEPT
                 !.territory = t, !.to = q, !.reserve = {Reserve("ownership", t, 1, 1)}])

\* What a carrier has room for is looked at when all orders are known.
Load(u) ==
    Total({g \in DOMAIN world.group : world.group[g].aboard = u},
          LAMBDA g : world.group[g].count)
    + Crew * Cardinality({v \in DOMAIN world.unit : world.unit[v].aboard = u})
Loading(p, c, entity, order, weight, own) ==
    /\ Sails(world.unit[c]) /\ Near(entity.hex, world.unit[c].hex)
    /\ Accept([order EXCEPT
                 !.carrier = c,
                 !.reserve = {own, Reserve("cargo", c, weight, Capacity - Load(c))}])
EmbarkGroup(p) == \E c \in Units(p) : \E g \in Groups(p) :
    Loading(p, c, world.group[g], [Order(p, "embark") EXCEPT !.group = g],
            world.group[g].count, Whole(world, g))
EmbarkUnit(p) == \E c \in Units(p) : \E u \in Units(p) \ {c} :
    Loading(p, c, world.unit[u], [Order(p, "embark") EXCEPT !.unit = u], Crew, Unit(u))

DisembarkGroup(p) == \E g \in GroupsOf(world, p) : \E h \in Hex \ Water :
    LET c == world.group[g].aboard IN
    /\ c # None /\ Near(world.unit[c].hex, h)
    /\ Accept([Order(p, "disembark") EXCEPT !.group = g, !.carrier = c, !.hex = h,
                                            !.reserve = {Whole(world, g)}])
DisembarkUnit(p) == \E u \in UnitsOf(world, p) : \E h \in Hex :
    LET c == world.unit[u].aboard IN
    /\ c # None /\ Near(world.unit[c].hex, h)
    /\ Sails(world.unit[u]) \/ h \notin Water
    /\ Accept([Order(p, "disembark") EXCEPT !.unit = u, !.carrier = c, !.hex = h,
                                            !.reserve = {Unit(u)}])

-----------------------------------------------------------------------------
(* resolveTurn and resolveApparatus, a phase at a time on the stage. *)

Given == {orders[i] : i \in 1..Len(orders)}
Valid == SelectSeq(orders, LAMBDA o : o \notin Refused(world, Given))
Standing == {Valid[i] : i \in 1..Len(Valid)}

Phase(from, to) == phase = from /\ phase' = to

Commit ==
    /\ Phase("orders", "effects") /\ turn < MaxTurns
    /\ stage' = world
    /\ UNCHANGED <<inputs, control, succession>>

LocalEffects ==
    /\ Phase("effects", "battles")
    /\ stage' = Effects(stage, world, SelectSeq(Valid, LAMBDA o : o.type # "demobilize"))
    /\ UNCHANGED <<inputs, control, succession>>

\* Every attack and every answer hits or misses.
Battles ==
    /\ Phase("battles", "demobilization")
    /\ \E hits \in SUBSET Attacks(Standing) : \E answers \in SUBSET Attacks(Standing) :
          /\ stage' = Fought(stage, world, Attacks(Standing), hits, answers)
          /\ control' = BattleControl(stage', world, Attacks(Standing),
                            Destroyed(world, Attacks(Standing), hits, answers))
    /\ UNCHANGED <<inputs, succession>>

\* Only crews that survived the battles return.
Demobilization ==
    LET survives(o) == o.type = "demobilize" /\ o.unit \in UnitsOf(stage, o.by) IN
    /\ Phase("demobilization", "territories")
    /\ stage' = FoldSeq(LAMBDA o, w : Demobilize(w, o), stage, SelectSeq(Valid, survives))
    /\ UNCHANGED <<inputs, control, succession>>

ClaimTerritories ==
    /\ Phase("territories", "economy")
    /\ \E ids \in SetToSeqs(Disputed(Standing)) :
          stage' = Territories(stage, world, Standing, control, ids)
    /\ UNCHANGED <<inputs, control, succession>>

\* completeProjects, then the economy.
Tick ==
    /\ Phase("economy", "takeover")
    /\ stage' = Economy(Trained(stage, turn), turn)
    /\ UNCHANGED <<inputs, control, succession>>

Takeover ==
    /\ Phase("takeover", "succession")
    /\ stage' = Decided(stage) /\ frozen' = stage
    /\ pending' = Conquered(stage) /\ layer' = Ready(stage, pending')
    /\ UNCHANGED <<inputs, control>>

Inherit == \E p \in layer :
    /\ phase = "succession"
    /\ stage' = Inherited(stage, p, Occupier(frozen, p))
    /\ pending' = pending \ {p}
    /\ layer' = IF layer = {p} THEN Ready(frozen, pending') ELSE layer \ {p}
    /\ UNCHANGED <<inputs, phase, control, frozen>>

\* The captors one comes to from p, and those of them one comes back to.
Captors(p) ==
    LET reached[n \in Nat] ==
          IF n = 0 THEN {Occupier(frozen, p)}
          ELSE reached[n - 1] \cup {Occupier(frozen, q) : q \in reached[n - 1] \cap pending}
    IN  reached[Cardinality(pending)]
Circle(p) == {q \in Captors(p) \cap pending : q \in Captors(q)}

DisposeCircle == \E p \in pending :
    /\ phase = "succession" /\ layer = {}
    /\ stage' = Disposed(stage, Circle(p))
    /\ pending' = pending \ (Circle(p) \cup {q \in pending : Circle(q) = Circle(p)})
    /\ UNCHANGED <<inputs, phase, control, frozen, layer>>

DisposeDeserted ==
    /\ Phase("succession", "publish") /\ pending = {}
    /\ stage' = FoldSet(LAMBDA p, w : Disposed(w, {p}), stage, Deserted(frozen))
    /\ UNCHANGED <<inputs, control, succession>>

\* assertWorldState.
Peopled(w) == \A g \in DOMAIN w.group : w.group[g].count > 0
Crewed(w) == \A u \in DOMAIN w.unit :
                IF w.unit[u].owner = None THEN DOMAIN w.unit[u].crew = {}
                ELSE Hands(w.unit[u].crew) > 0 /\ w.unit[u].health > 0
WorldState(w) ==
    /\ Peopled(w) /\ Crewed(w)
    /\ Stowed(w) /\ Aligned(w) = w
    /\ \A t \in Territory : w.territory[t].contested => w.territory[t].owner = None

Unmarked(f) == [x \in DOMAIN f |-> [f[x] EXCEPT !.given = FALSE]]
Publish ==
    /\ Phase("publish", "orders") /\ WorldState(stage)
    /\ world' = [stage EXCEPT !.group = Unmarked(@), !.unit = Unmarked(@),
                              !.facility = Unmarked(@)]
    /\ stage' = world' /\ turn' = turn + 1 /\ orders' = <<>>
    /\ control' = NoControl /\ frozen' = world' /\ pending' = {} /\ layer' = {}
    /\ UNCHANGED left

\* An exception anywhere in between: the stage is dropped.
Throw ==
    /\ phase \notin {"orders", "effects"} /\ phase' = "effects"
    /\ stage' = world /\ control' = NoControl
    /\ frozen' = world /\ pending' = {} /\ layer' = {}
    /\ UNCHANGED inputs

-----------------------------------------------------------------------------
Give(p) ==
    \/ Move(p) \/ MovePopulation(p) \/ Attack(p) \/ RecruitUnit(p)
    \/ DemobilizeUnit(p) \/ TrainSoldiers(p) \/ DestroyFacility(p)
    \/ TransferCredits(p) \/ TransferFood(p) \/ GiveUnit(p) \/ GivePopulation(p)
    \/ GiveFacility(p) \/ Incorporate(p) \/ Reactivate(p) \/ Acquire(p)
    \/ Claim(p) \/ Abandon(p) \/ Exchange(p)
    \/ EmbarkGroup(p) \/ EmbarkUnit(p) \/ DisembarkGroup(p) \/ DisembarkUnit(p)

Next ==
    \/ \E p \in Polity : Give(p)
    \/ Commit \/ LocalEffects \/ Battles \/ Demobilization \/ ClaimTerritories
    \/ Tick \/ Takeover \/ Inherit \/ DisposeCircle \/ DisposeDeserted
    \/ Publish \/ Throw

Spec == Init /\ [][Next]_vars

-----------------------------------------------------------------------------
(* Properties *)

Owner == Polity \cup {None}
GroupOK(g) ==
    /\ g.owner \in Owner /\ g.count \in Nat /\ g.job \in {"Civilian", "Farmer", "Soldier"}
    /\ g.hex \in Hex /\ g.hurt \in 0..(Scale - 1) /\ g.since \in Nat /\ g.given \in BOOLEAN
UnitOK(u) ==
    /\ u.owner \in Owner /\ u.type \in {"infantry", "transport"} /\ u.hex \in Hex
    /\ u.health \in 0..Health /\ u.given \in BOOLEAN
    /\ \A c \in DOMAIN u.crew : /\ u.crew[c].count \in 0..Crew
                                /\ u.crew[c].hurt \in 0..(Scale - 1)
WorldOK(w) ==
    /\ w.alive \in [Polity -> BOOLEAN]
    /\ w.credits \in [Polity -> Nat] /\ w.food \in [Polity -> Nat]
    /\ w.shortage \in [Polity -> 0..MaximumShortage]
    /\ w.growth \in [Polity -> 0..(Scale - 1)]
    /\ w.takeover \in [Polity -> [by: Owner, held: Nat]]
    /\ w.territory \in [Territory -> [owner: Owner, controller: Owner, contested: BOOLEAN]]
    /\ \A g \in DOMAIN w.group : GroupOK(w.group[g])
    /\ \A u \in DOMAIN w.unit : UnitOK(w.unit[u])
    /\ \A f \in DOMAIN w.facility :
          /\ w.facility[f].owner \in Owner /\ w.facility[f].hex \in Hex
          /\ w.facility[f].condition \in 0..Condition

\* No combination of orders that were accepted one by one overdraws a balance, a
\* group or a unit, at any step of the turn they are committed in, and the
\* assertion at the end of its resolution (assertWorldState) never fails.
Balanced == WorldOK(world) /\ WorldOK(stage) /\ WorldOK(frozen)
Resolvable == Balanced /\ (phase = "publish" => WorldState(stage))

\* The same of all turns but those that it does not hold of: no carrier is or
\* embarks aboard another one, and what is landed of a crew with nobody left of
\* it is passed over.
Towing ==
    \/ \E u \in DOMAIN world.unit : Sails(world.unit[u]) /\ world.unit[u].aboard # None
    \/ \E o \in Standing : /\ o.type = "embark" /\ o.unit # None
                           /\ Sails(world.unit[o.unit])
EmptyLanded == {g \in DOMAIN stage.group \ DOMAIN frozen.group :
                  stage.group[g].owner = None /\ stage.group[g].count = 0}
ResolvableOtherwise ==
    /\ Balanced
    /\ phase = "publish" /\ ~Towing =>
          WorldState([stage EXCEPT !.group = Without(@, EmptyLanded)])

\* Simultaneous orders: the action IDs and the territory IDs order the work but
\* not its result.
EffectsInAnyOrder == phase = "effects" =>
    \A s \in SetToSeqs(Standing) :
        Aligned(Effects(world, world, s)) = Aligned(Effects(world, world, Valid))
ClaimsInAnyOrder == phase = "territories" =>
    \A s, t \in SetToSeqs(Disputed(Standing)) :
        Territories(stage, world, Standing, control, s)
        = Territories(stage, world, Standing, control, t)
OrderFree == EffectsInAnyOrder /\ ClaimsInAnyOrder

\* Of polities that fall in one turn and of which none inherits from the other,
\* the IDs order the transfers but not their result (takeover).
InOrder(p, q) ==
    LET after(w, r) == Inherited(w, r, Occupier(frozen, r)) IN after(after(stage, p), q)
PeersInAnyOrder == phase = "succession" =>
    \A p, q \in layer : p # q => InOrder(p, q) = InOrder(q, p)

\* The same but for who is still in training: who owns what, where everybody is
\* and how many are the same.
Dismissed(w) ==
    [w EXCEPT !.group = [g \in DOMAIN @ |-> [@[g] EXCEPT !.training = None]]]
PeersAgree == phase = "succession" =>
    \A p, q \in layer : p # q => Dismissed(InOrder(p, q)) = Dismissed(InOrder(q, p))

\* People only change hands: outside of battles and of the economy nobody
\* appears or disappears, in groups or in crews, whatever becomes of their polity.
People(w) ==
    Total(DOMAIN w.group, LAMBDA g : w.group[g].count)
    + Total(DOMAIN w.unit, LAMBDA u : Hands(w.unit[u].crew))
PeopleConserved == [][
    (/\ phase \in {"effects", "demobilization", "territories", "takeover", "succession"}
     /\ phase' # "effects") => People(stage') = People(stage)]_vars

\* Who inherits: the end of the chain of captors, unless it is a circle or ends
\* at a polity that is itself given up for lack of people.
Heir(p) ==
    LET along[n \in Nat] ==
          IF n = 0 THEN p
          ELSE IF along[n - 1] \in Conquered(frozen) THEN Occupier(frozen, along[n - 1])
          ELSE along[n - 1]
        last == along[Cardinality(Polity)]
    IN  IF last \in Conquered(frozen) \cup Deserted(frozen) THEN None ELSE last
Circular(p) ==
    LET along[n \in Nat] == IF n = 0 THEN {Occupier(frozen, p)}
                            ELSE along[n - 1] \cup {Occupier(frozen, q) :
                                    q \in along[n - 1] \cap Conquered(frozen)}
    IN  p \in Conquered(frozen) \cap along[Cardinality(Polity)]

\* After a takeover every territory belongs to the heir of who owned it, and so
\* do the people that were in the territory of a victim; the people of a polity
\* that ends elsewhere go to its own heir.  In a circle nobody inherits.
Falls(t) == t \in Conquered(frozen) /\ ~Circular(t)
EstateOf(e) ==
    LET host == frozen.territory[TerritoryOf[e.hex]].owner IN
    IF e.owner = None THEN None
    ELSE IF e.aboard = None /\ ~e.given /\ host # None /\ host # e.owner /\ Falls(host)
    THEN Heir(host)
    ELSE Heir(e.owner)
EstatesGoToHeirs == phase = "publish" =>
    /\ \A t \in Territory :
          stage.territory[t].owner =
              IF frozen.territory[t].owner = None THEN None
              ELSE Heir(frozen.territory[t].owner)
    /\ \A g \in DOMAIN frozen.group :
          frozen.group[g].aboard = None =>
              stage.group[g].owner = EstateOf(frozen.group[g])
    /\ \A u \in DOMAIN frozen.unit :
          frozen.unit[u].aboard = None =>
              stage.unit[u].owner = EstateOf(frozen.unit[u])
=============================================================================
