SPECIFICATION Spec
CONSTANTS
    doh = doh
    udp = udp
    loop1 = loop1
    loop2 = loop2
    h1 = h1
    h2 = h2
    reload = reload
    u1 = u1
    u2 = u2
    None = None
    Dashboard = doh
    Owner <- MCOwner
    Process <- TwoProcess
    Loop = {loop1, loop2}
    Handler = {h1}
    Reloader = {reload}
    Url = {u1, u2}
    TaggedUrl = {u1, u2}
    Commands = {"add", "remove"}
    DiskFaults = TRUE
    DbFaults = TRUE
    MaxId = 2
    MaxVersion = 1
    MaxCommand = 3
    MaxCrash = 0
INVARIANTS
    
    UniqueUrls
    
PROPERTIES
    FailOpen
SYMMETRY Interchangeable
CHECK_DEADLOCK FALSE
