\* An accept lands in the middle of an expiry.
CONSTANTS
    Riders = {r1}
    Orders = {o1}
    Cap = 1
    MaxOffers = 1
    MaxLost = 0
SPECIFICATION Spec
INVARIANT NoCourierOverlooked
