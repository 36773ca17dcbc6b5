SPECIFICATION Spec
CONSTANTS
    r1 = r1
    r2 = r2
    c1 = c1
    l1 = l1
    l2 = l2
    NoClient = NoClient
    Denylist = Denylist
    Resolver = {r1, r2}
    Client = {c1}
    List = {l1, l2}
    Name <- MCName
    Localhost <- MCLocalhost
    Row <- MCRow
    Registry <- MCRegistry
    MaxChange = 2
INVARIANTS
    TypeOK
    AnswerIsLawful
SYMMETRY Interchangeable
