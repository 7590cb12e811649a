SPECIFICATION Spec
CONSTANTS
    AclHandles = {a}
    LeHandles = {b}
    AclTotal = 2
    LeTotals = {0, 1}
    MaxFragments = 2
    MaxEvents = 2
    MaxConnects = 2
    MaxSends = 3
    MaxReserved = 1
INVARIANTS HciTypeOK SlotsConserved 
PROPERTIES FragmentsInOrder 
CHECK_DEADLOCK FALSE
