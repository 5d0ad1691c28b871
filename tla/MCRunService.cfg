SPECIFICATION LiveSpec
CONSTANTS
    s1 = s1
    s2 = s2
    r1 = r1
    r2 = r2
    i1 = i1
    a1 = a1
    a2 = a2
    None = None
    Server = {s1, s2}
    Actor = {a1, a2}
    Request <- MCRequest
    Invocation = {i1}
    MaxTurns = 1
    Workloads <- MCWorkloads
CHECK_DEADLOCK FALSE
INVARIANTS CalledOnce CallsJournaled EffectOnce NothingLost TurnsSealed
PROPERTIES OutcomesReconciled
