CONSTANTS
    Pins = {p1, e1}
    Events = {e1}
    Places = {x, y, hall}
    Anchors = {hall}
    origin = x
    Calls = {c1, c2}
    None = None
    MaxAsks = 4
SPECIFICATION MCSpec
INVARIANTS IInv UndoReady
PROPERTIES UndoExact ButtonsReturn
CHECK_DEADLOCK FALSE
