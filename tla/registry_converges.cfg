SPECIFICATION FairSpec
CONSTANTS
    doh = doh
    udp = udp
    loop1 = loop1
    loop2 = loop2
    h1 = h1
    h2 = h2
    reload = reload
    u1 = u1
    u2 = u2
    None = None
    Dashboard = doh
    Owner <- MCOwner
    Process <- TwoProcess
    Loop = {loop1, loop2}
    Handler = {h1}
    Reloader = {}
    Url = {u1}
    TaggedUrl = {}
    Commands = {"add", "remove", "toggle"}
    DiskFaults = TRUE
    DbFaults = TRUE
    MaxId = 1
    MaxVersion = 2
    MaxCommand = 2
    MaxCrash = 1
PROPERTIES
    RegistryReachesLoops
    ContentConverges
CHECK_DEADLOCK FALSE
