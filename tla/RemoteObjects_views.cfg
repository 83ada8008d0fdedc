\* One object, subscribed to up to three times (the second to a provider that has
\* outlived its manager); the two sides learn of each other in either order, the
\* object's state and what it matches change up to three times, one resolution
\* timer may expire at any moment it runs.
SPECIFICATION FairSpec
CONSTANTS
    None = None
    o1 = o1
    i1 = i1
    Objects = {o1}
    Interests = {i1}
    MaxCommits = 3
    MaxSubscriptions = 3
    MaxTimeouts = 1
INVARIANTS RemoteViewsAreSound AppearsPopulated
PROPERTIES MatchingAppear
\* the bounds on commits and subscriptions end every behaviour
CHECK_DEADLOCK FALSE
