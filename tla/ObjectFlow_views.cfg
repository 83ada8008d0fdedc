\* One object, an interest without and one with a condition: calls between
\* commits and from callbacks, a rejection at any moment, a subscription dropped
\* and made again, the publisher's departure. The bounds on calls, changes and
\* subscriptions end every behaviour but the cycles of the two runners.
SPECIFICATION FairSpec
CONSTANTS
  o1 = o1
  all = all
  where = where
  Objects = {o1}
  Interests = {all, where}
  Conditional = {where}
  ViewObjects = {o1}
  ViewInterests = {all, where}
  MaxCalls = 3
  MaxFlips = 1
  MaxRejections = 1
  MaxSubscriptions = 2
INVARIANTS FlowIsSound ShownArePresent PresentAreListed MuxCountsInterests
PROPERTIES PublishedAreSeen
\* an owner that has left and a subscriber without subscriptions do nothing
CHECK_DEADLOCK FALSE
