\* A ring of 4 slots (3 usable), requested as 3 so that rounding happens.
SPECIFICATION FairSpec
CONSTANTS
  Items = {a, b, c}
  NoItem = NoItem
  Requested = 3
INVARIANTS
  TypeOK
  NoDataRace
  ViewsAgree
PROPERTIES
  ImplementsFifo
  ImplementsViews
  EventuallyPopped
