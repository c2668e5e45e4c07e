CONSTANTS
    Capacity = 2
    None = None
    NoOne = NoOne
    Consumer = Consumer
    Producers = {p1, p2}
    Item = {v1, v2, v3}
SPECIFICATION FairSpec
INVARIANTS
    CurrentIsOldest
    SurplusKeepsResidents
    IInv
PROPERTIES
    ImplementsQueue
    EveryItemLeaves
