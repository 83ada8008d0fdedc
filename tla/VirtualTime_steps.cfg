\* two components in both stepped run modes, stop requests and failures at any time
SPECIFICATION Spec
CONSTANTS
    u = u
    v = v
    None = None
    Workers = {u, v}
    Period <- MCPeriod
    Grain = 2
    MaxTime = 12
    MaxThrows = 2
    Modes = {"virtualTime", "virtualTimeRunning"}
    Scenarios = {{}, {"stop"}, {"stop", "fail"}}
INVARIANTS TypeOK PhasesAreSeparate StepsAreComplete NoCycleSkipped
PROPERTIES StepsEnd RunningKernelStops
\* no step begins after MaxTime, and a stopped kernel does nothing
CHECK_DEADLOCK FALSE
