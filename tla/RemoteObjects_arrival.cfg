\* One object that matches, stops matching and matches again; no timer expires
SPECIFICATION Spec
CONSTANTS
    None = None
    o1 = o1
    i1 = i1
    Objects = {o1}
    Interests = {i1}
    MaxCommits = 3
    MaxSubscriptions = 1
    MaxTimeouts = 0
INVARIANTS ArrivalCarriesState
\* the bounds on commits and subscriptions end every behaviour
CHECK_DEADLOCK FALSE
