CONSTANTS
  Event = {e1, e2, e3}
  window_size = 3
  Delays = {1, 3}
SPECIFICATION Spec
INVARIANT SlotOfTheCycleIsEmpty
