\* two producers, a queue of one with either policy, drains within drains, a stop at any time
SPECIFICATION FairSpec
CONSTANTS
    other = other
    component = component
    Producers = {other, component}
    Component = component
    MaxSize = 1
    BulkSize = 2
    MaxCalls <- MCMaxCalls
    MaxDepth = 2
INVARIANTS QueueIsSound OrderKept
PROPERTIES CallsAreSettled LedgerKept
\* a stopped queue with no producer left does nothing
CHECK_DEADLOCK FALSE
