\* The retention sweep of persons against what its comment says of it.
CONSTANTS
    admin = admin
    leader = leader
    chapter = chapter
    Person = {admin, leader}
    Worker = {w1, w2}
    Founder = admin
    Dormant = {leader}
    Chapter = {chapter}
    Grantable <- AskedFor
    Registrant = {leader}
    Asked = {"newsletter"}
    Facts <- PolicyFacts
    DataSubject = {leader}
    SelfService = {leader}
    RowId = {i1, i2}
    MaxRows = 3
    MaxRequests = 2
    MaxEvents = 2
    DefinitionId = {d1}
    Rate = {1, 2}
SPECIFICATION Spec
INVARIANT SweepCanErase
CHECK_DEADLOCK FALSE
