SPECIFICATION Spec
CONSTANTS
  p1 = p1
  p2 = p2
  p3 = p3
  h1 = h1
  h2 = h2
  h3 = h3
  sea = sea
  isle = isle
  Polity = {p1, p2, p3}
  Hex = {h1, h2, h3, sea, isle}
  Territory = {h1, h2, h3, sea, isle}
  None = None
  TerritoryOf <- Alone
  CapitalOf <- Homes
  Distance <- Apart
  Water = {sea}
  Crew = 2
  Capacity = 4
  Room = 1
  Price = 1
  Hold = 2
  Yield = 2
  Scale = 4
  Starts <- AllStarts
  Recruits = {"infantry"}
  MaxTurns = 3
  MaxAmount = 1
INVARIANTS ResolvableOtherwise OrderFree PeersAgree EstatesGoToHeirs
PROPERTY PeopleConserved
CHECK_DEADLOCK FALSE
