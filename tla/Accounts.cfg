SPECIFICATION Spec
CONSTANTS
    Handlers = {h1, h2}
    Accounts = {a1, a2}
    Googles = {g1}
    None = None
    MaxAsks = 3
INVARIANTS IInv AdminRemains CanSignIn
PROPERTIES FollowsRules ManageAnswered
CHECK_DEADLOCK FALSE
