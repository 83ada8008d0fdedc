\* two components, one of which may watch, and two remote processes
SPECIFICATION SessionsSpec
CONSTANTS
    a = a
    b = b
    Nobody = Nobody
    Ether = ether
    Components = {a, b}
    Processes = {p1, p2}
    WatcherSets <- MCWatcherSets
INVARIANTS SessionsTypeOK AnnouncementsAreRight ListFollowsAnnouncements
\* with a watcher every thread may end up waiting for another: see the README on source_info.cpp
CHECK_DEADLOCK FALSE
