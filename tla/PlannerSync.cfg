CONSTANTS
    Tabs = {a, b}
    Browsers = {x, y, z}
    Private = {z}
    a = a
    x = x
    Placements <- MCPlacements
    p1 = p1
    p2 = p2
    p3 = p3
    t1 = t1
    t2 = t2
    Ids = {p1, p2, p3}
    Terms = {t1, t2}
    TermOf <- MCTermOf
    None = None
    Waiting = Waiting
    MaxAsks = 4
SPECIFICATION Spec
INVARIANT PointersSound
INVARIANT ChangesPushed
INVARIANT IInv
PROPERTY PlansKept
PROPERTY TermsKept
PROPERTY PlansSent
CHECK_DEADLOCK FALSE
