\* two kernels, one participant that may join on either side, and one fault of any kind
SPECIFICATION FairSpec
CONSTANTS
    high = high
    low = low
    Kernels = {high, low}
    Initiator = high
    Participants = {1}
    MaxConns = 2
    MaxFaults = 1
    MaxJoins = 1
INVARIANTS ConnectionsAreSound ParticipantsAgree
PROPERTIES MeetOrOutlived GoneIsForgotten
\* kernels that are connected and idle, or down, do nothing
CHECK_DEADLOCK FALSE
