SPECIFICATION MCSpec
CONSTANTS
  b1 = b1
  b2 = b2
  Merges = {m1, m2}
  Mortal = {m1}
  Parents = {b1, b2, b3}
  Kind = "college"
  Slots = {1}
  Texts = {x}
  Empty = Empty
  None = None
  MaxAsks = 3
INVARIANTS IInv
PROPERTIES FamiliesKept MergesAnnounced MergesRecorded
CHECK_DEADLOCK FALSE
