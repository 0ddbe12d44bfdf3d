CONSTANTS
    r1 = r1
    r2 = r2
    b1 = b1
    b2 = b2
    c1 = c1
    c2 = c2
    Rooms = {r1, r2}
    Lists = {b1, b2, c1, c2}
    KindOf <- MCKindOf
    Order <- MCOrder
    Kinds = {"building", "college"}
    Clearing = {"building"}
    Start <- MCStart
    Worlds <- MCWorlds
    Loads = {d1, d2}
    Download = Download
    None = None
    MaxAsks = 3
    MaxOverlap = 2
    MaxFailures = 1
SPECIFICATION Spec
INVARIANT IInv
INVARIANT ShownOfSelection
INVARIANT ShownFresh
INVARIANT DirectorySaved
PROPERTY LoadsEnd
CHECK_DEADLOCK FALSE
