CONSTANTS
  size_ = 4
  Item = {a, b}
  NoItem = NoItem
  Raw = Raw
  Moved = Moved
SPECIFICATION Spec
INVARIANTS SlotLifetime PopFrontAssert NoLeak GuessBounds IInv
PROPERTIES AnswersStick FrontStable ImplementsFifo
