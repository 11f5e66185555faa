\* What a rider who accepts is told.
CONSTANTS
    Riders = {r1}
    Orders = {o1}
    Cap = 1
    MaxOffers = 1
    MaxLost = 0
SPECIFICATION Spec
INVARIANT AcceptAnswersSuccess
