CONSTANTS
    Requests = {r1, r2}
    Mortal = {}
    Proposals = {p1}
    Entities = {e1}
    NewEntry = NewEntry
    Users = {u1}
    Anonymous = Anonymous
    Fields = {f1, f2}
    None = None
    Unset = Unset
    MaxAsks = 4
SPECIFICATION Spec
INVARIANT PublishIsAtomic
CHECK_DEADLOCK FALSE
