SPECIFICATION FairSpec
CONSTANTS
    Callers = {c1, c2, c3, c4}
    c1 = c1
    c2 = c2
    c3 = c3
    c4 = c4
    Slots = 2
INVARIANT SlotAccounting
INVARIANT NoIdleSlot
PROPERTY ServesInOrder
PROPERTY EveryWaiterServed
