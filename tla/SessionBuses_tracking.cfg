\* one process with two participants that join, leave, send and are lost with it, two workers
SPECIFICATION Spec
CONSTANTS
    r1 = r1
    r2 = r2
    p = p
    b = b
    l = l
    i = i
    w1 = w1
    w2 = w2
    Remotes = {r1, r2}
    ProcessOf <- MCProcessOf
    Buses = {b}
    BusOf <- MCBusOf
    Locals = {l}
    Providers = {i}
    Workers = {w1, w2}
    BulkSize = 2
    PressureCutoff = 1
    MaxEvents = 4
INVARIANTS BusesAreSound KnownAreThere SubscribersListen ProvidersAreTold
\* the bound on what the transport says ends every behaviour
CHECK_DEADLOCK FALSE
