SPECIFICATION TimelordSpec
CONSTANTS
    Client = {1, 2, 3}
    FailKinds = {"eof"}
    MaxStates = 1
    MaxAllows = 2
    InfusedAt = {2}
    PeakIps = {0}
    MaxEvents = 1
INVARIANT ProofsSound
 
CHECK_DEADLOCK FALSE
