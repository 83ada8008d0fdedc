\* a failing component, a stop request or a failing start-up, each by itself
SPECIFICATION FairSpec
CONSTANTS
    k = k
    a = a
    b = b
    None = None
    Runners = {k, a, b}
    Callers = {main}
    Requesters = {q1}
    Askers = {a}
    BlockModes = {"doBlock", "doNotBlock"}
    RunModes = {"realTime"}
    Scenarios = {{"run"}, {"ask"}, {"preload", "load", "init", "thread"}}
    MaxFaults = 1
    MaxGroup = 2
    Group <- MCGroup
INVARIANTS FailedStartupUnwinds
PROPERTIES RequestedStopHappens FailureEndsRun
\* a kernel that nobody asks to stop, or that has stopped, takes no more steps
CHECK_DEADLOCK FALSE
