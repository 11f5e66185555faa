SPECIFICATION Spec
CONSTANTS MaxStrays = 0
          Moments = {0, 700}
INVARIANT AcceptedOrderHasWorkflow
CHECK_DEADLOCK FALSE
