CONSTANTS
  size_ = 3
  Item = {a}
  NoItem = NoItem
  Raw = Raw
  Moved = Moved
SPECIFICATION MCSpec
PROPERTY TaskTaken
