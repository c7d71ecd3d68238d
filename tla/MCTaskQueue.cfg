CONSTANTS
  size_ = 3
  Item = {a, b}
  NoItem = NoItem
  Raw = Raw
  Moved = Moved
SPECIFICATION MCSpec
INVARIANTS TQIInv SlotLifetime
PROPERTIES ImplementsBlockingFifo TaskTakenIfHeard WriteReturnsIfHeard
