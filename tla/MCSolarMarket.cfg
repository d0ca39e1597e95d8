SPECIFICATION FairSpec
CONSTANTS
    b1 = b1
    b2 = b2
    p1 = p1
    p2 = p2
    p3 = p3
    NoBattery = NoBattery
    Battery = {b1, b2}
    Panel = {p1, p2}
    Amount = {2, 3}
    RoomOfAll = 2
    Room <- MCRoom
    Mortal = {b1}
INVARIANTS
    IndInv
    Agreement
    OfferOpen
PROPERTIES
    Served
CHECK_DEADLOCK FALSE
