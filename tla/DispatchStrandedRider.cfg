\* A cancel lands while an offer is being made.
CONSTANTS
    Riders = {r1}
    Orders = {o1}
    Cap = 1
    MaxOffers = 1
    MaxLost = 0
SPECIFICATION Spec
INVARIANT CancelFreesRiders
