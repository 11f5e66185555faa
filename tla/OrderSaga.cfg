SPECIFICATION FairSpec
CONSTANTS MaxStrays = 1
          Moments = {0, 700}
INVARIANTS MoneyFollowsFood MoneySentenceIsTrue
PROPERTIES FailsOnlyOnUnheardMove ImplementsLifecycle CompensationCompletes
CHECK_DEADLOCK FALSE
