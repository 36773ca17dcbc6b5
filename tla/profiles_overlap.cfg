SPECIFICATION Spec
CONSTANTS
    h1 = h1
    h2 = h2
    h3 = h3
    c1 = c1
    c2 = c2
    d1 = d1
    d2 = d2
    Handler = {h1, h2}
    Client = {c1}
    Domain = {d1, d2}
    MaxRequest = 4
INVARIANTS
    UpdatesKept
CHECK_DEADLOCK FALSE
