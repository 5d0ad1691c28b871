SPECIFICATION LiveSpec
CONSTANTS
    human = human
    agent = agent
    q1 = q1
    None = None
    Actor = {human, agent}
    StateOnly = {human}
    Participant = {human}
    Message <- AnOffer
    Batch = {"fit", "unfit", "clashing"}
    MaxTurns = 2
    Predicates = {"insufficient_surviving_distinct_participants"}
    Expiring <- AllPhases
    MaxCalls = 1
    MaxSetBacks = 1
CHECK_DEADLOCK FALSE
INVARIANTS EverySubmissionCounts AbsencesTrue CallPinsPhase RecordsComplete
PROPERTIES TurnCloses
