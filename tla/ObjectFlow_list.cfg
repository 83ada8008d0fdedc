\* One object whose property stops and resumes matching the condition of the
\* interest between two drains of the subscriber. The runners' cycles are left
\* free to stop.
SPECIFICATION Spec
CONSTANTS
  o1 = o1
  all = all
  where = where
  Objects = {o1}
  Interests = {where}
  Conditional = {where}
  ViewObjects = {o1}
  ViewInterests = {where}
  MaxCalls = 1
  MaxFlips = 3
  MaxRejections = 0
  MaxSubscriptions = 1
INVARIANT ListedArePresent
\* an owner that has left and a subscriber without subscriptions do nothing
CHECK_DEADLOCK FALSE
