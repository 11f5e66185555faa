\* One order, two riders, one loss.
CONSTANTS
    Riders = {r1, r2}
    Orders = {o1}
    Cap = 1
    MaxOffers = 2
    MaxLost = 1
SPECIFICATION Spec
SYMMETRY Symmetry
INVARIANTS CapRespected
PROPERTIES PickupIsFinal
