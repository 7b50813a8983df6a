CONSTANTS
  Event = {e1, e2, e3}
  window_size = 3
  Delays = {0, 1, 2, 4, 5}
SPECIFICATION Spec
INVARIANTS TypeOK SlotOfTheCycleIsEmpty MarkIsTrue SameCycleInOrder
PROPERTY FiresOnTime
