SPECIFICATION Spec
CONSTANTS
  Refreshes = {r1, r2}
  Ids = {i1, i2}
  Tables = {"events", "jeepney_routes", "announcements", "buildings"}
  Overlapping = {"events"}
  Evictable = {"events"}
  None = None
  MaxChanges = 2
  MaxAsks = 3
SYMMETRY Symmetry
INVARIANTS TypeOK TrustedIsFresh IInv
CHECK_DEADLOCK FALSE
