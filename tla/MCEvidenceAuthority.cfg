SPECIFICATION LiveSpec
CONSTANTS
    p1 = p1
    p2 = p2
    i1 = i1
    i2 = i2
    r1 = r1
    b1 = b1
    b2 = b2
    None = None
    Unstated = Unstated
    Process = {p1, p2}
    Intent = {i1, i2}
    Request = {r1}
    Bundle = {b1, b2}
    Records = {Unstated}
    Settings <- AloneOrTogether
INVARIANTS HistoryAccepted ResultsKept
PROPERTY StagedSettles
