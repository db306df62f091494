\* Two requests at a time on a shift of one slot, under fairness (so no
\* symmetry) and with two applications.
CONSTANTS
    Worker = {w1, w2}
    NoWorker = NoWorker
    Person = {p1, p2}
    NoPerson = NoPerson
    Trained = {p1}
    Capacity = 1
    MaxApps = 2
    w1 = w1
    w2 = w2
    p1 = p1
    p2 = p2
    p3 = p3
SPECIFICATION FairSpec
INVARIANTS TypeOK SlotsWithinCapacity OneActiveApplication EventMatchesStatus SlotsAccountedUntilWithdrawal
PROPERTIES TerminalStaysTerminal AcceptanceTakesSlot RequestsEnd
