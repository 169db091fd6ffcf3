CONSTANTS
    Producers = {p1}
    MaxThreads = 2
    MaxSends = 3
    Commands <- MCCommands
    MaxCalls = 2
    Owner = owner
    None = none
    Contexts = {owner}
SPECIFICATION DataSpec
INVARIANTS PlaneInv
PROPERTIES CommandsHandled StopTerminates
CHECK_DEADLOCK FALSE
