\* every sequence of calls that hooks and the component's own code make
SPECIFICATION Spec
CONSTANTS
    x = x
    y = y
    z = z
    p = p
    q = q
    None = None
    Objects = {x, y, z}
    Owners = {p, q}
    AddedBy <- MCAddedBy
    MaxCalls = 4
    MaxBatch = 2
    MaxNumber = 5
SYMMETRY MCSymmetry
INVARIANTS RunnerIsConsistent WalksReachAll PublishedAreDriven
\* a stopped runner does nothing
CHECK_DEADLOCK FALSE
