SPECIFICATION FairSpec
CONSTANTS
    doh = doh
    udp = udp
    loop1 = loop1
    loop2 = loop2
    h1 = h1
    h2 = h2
    reload = reload
    u1 = u1
    u2 = u2
    None = None
    Dashboard = doh
    Owner <- MCOwner
    Process <- TwoProcess
    Loop = {loop1, loop2}
    Handler = {h1}
    Reloader = {}
    Url = {u1}
    TaggedUrl = {u1}
    Commands = {"add"}
    DiskFaults = FALSE
    DbFaults = FALSE
    MaxId = 1
    MaxVersion = 1
    MaxCommand = 1
    MaxCrash = 0
PROPERTIES
    ContentConverges
