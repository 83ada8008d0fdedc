\* two embedder threads and a component ask for the stop while a component may fail
SPECIFICATION Spec
CONSTANTS
    k = k
    a = a
    b = b
    None = None
    Runners = {k, a, b}
    Callers = {main}
    Requesters = {q1, q2}
    Askers = {a}
    BlockModes = {"doBlock", "doNotBlock"}
    RunModes = {"realTime", "startAndStop"}
    Scenarios = {{"run", "ask"}}
    MaxFaults = 1
    MaxGroup = 2
    Group <- MCGroup
SYMMETRY RequesterSymmetry
INVARIANTS TypeOK ComponentsNeverStopKernel LowerGroupsOutlive UnloadedIsQuiet
PROPERTIES FirstExitCodeStands
\* a kernel that nobody asks to stop, or that has stopped, takes no more steps
CHECK_DEADLOCK FALSE
