CONSTANTS
  Threads = {t1, t2, t3}
  Item = {a, b}
  NoItem = NoItem
  NoThread = NoThread
  cap = 2
SPECIFICATION FairSpec
INVARIANTS NoStranded IInv
PROPERTIES ImplementsFifo NoStandstill Served
