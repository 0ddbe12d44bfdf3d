CONSTANTS
    Requests = {r1, r2}
    Mortal = {r1, r2}
    Proposals = {p1, p2}
    Entities = {e1}
    NewEntry = NewEntry
    Users = {u1}
    Anonymous = Anonymous
    Fields = {f1}
    None = None
    Unset = Unset
    MaxAsks = 4
SPECIFICATION Spec
INVARIANT ApprovedMeansPublished
INVARIANT CompetingSuggestionsExclusive
INVARIANT ReviewFieldsConsistent
INVARIANT CreditsBacked
INVARIANT IInv
PROPERTY PublishesAsClaimed
PROPERTY ClaimResolved
CHECK_DEADLOCK FALSE
