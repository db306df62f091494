\* One request at a time: three applicants and four applications for one slot.
CONSTANTS
    Worker = {w1}
    NoWorker = NoWorker
    Person = {p1, p2, p3}
    NoPerson = NoPerson
    Trained = {p1, p2}
    Capacity = 1
    MaxApps = 4
    w1 = w1
    w2 = w2
    p1 = p1
    p2 = p2
    p3 = p3
SPECIFICATION Spec
INVARIANTS SlotsAccounted
PROPERTIES BookingSpec
