\* The cascade of one order.
CONSTANTS
    Riders = {r1}
    Orders = {o1}
    Cap = 1
    MaxOffers = 2
    MaxLost = 1
SPECIFICATION FairSpec
PROPERTIES CascadeEnds DeliveryIsMarked
