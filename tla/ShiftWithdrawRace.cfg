\* Two requests at a time on a shift of one slot: the counter may leak a slot.
CONSTANTS
    Worker = {w1, w2}
    NoWorker = NoWorker
    Person = {p1, p2}
    NoPerson = NoPerson
    Trained = {p1}
    Capacity = 1
    MaxApps = 3
    w1 = w1
    w2 = w2
    p1 = p1
    p2 = p2
    p3 = p3
SPECIFICATION Spec
INVARIANTS SlotsAccounted
SYMMETRY WorkerSymmetry
