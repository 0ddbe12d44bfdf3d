SPECIFICATION Spec
CONSTANTS
  b1 = b1
  b2 = b2
  Merges = {m1}
  Mortal = {m1}
  Parents = {b1, b2}
  Kind = "building"
  Slots = {1}
  Texts = {x, y}
  Empty = Empty
  None = None
  MaxAsks = 2
SYMMETRY Symmetry
PROPERTY KeepsTargetEdits
CHECK_DEADLOCK FALSE
