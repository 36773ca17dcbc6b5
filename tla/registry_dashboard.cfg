SPECIFICATION Spec
CONSTANTS
    doh = doh
    udp = udp
    loop1 = loop1
    loop2 = loop2
    h1 = h1
    h2 = h2
    reload = reload
    u1 = u1
    u2 = u2
    None = None
    Dashboard = doh
    Owner <- MCOwner
    Process <- OneProcess
    Loop = {loop1}
    Handler = {h1, h2}
    Reloader = {}
    Url = {u1, u2}
    TaggedUrl = {u1}
    Commands = {"add", "remove", "toggle", "refresh", "refresh_all"}
    DiskFaults = FALSE
    DbFaults = TRUE
    MaxId = 2
    MaxVersion = 2
    MaxCommand = 3
    MaxCrash = 1
INVARIANTS
    TypeOK
    LockDiscipline
    IndexCurrent
    DashboardCoherent
    UniqueUrls
PROPERTIES
    TagsStayHonest
    StaysServed
CHECK_DEADLOCK FALSE
