CONSTANTS
    Addrs <- MCAddrs
    Self <- MCSelf
    NoFile = NoFile
    Files <- MCFiles
    AssertsOn = FALSE
    MaxSocks = 3
    MaxAllocFailures = 0
    MaxCopyFailures = 0
    MaxRouteFailures = 0
    MaxEpollFailures = 0
SPECIFICATION Spec
INVARIANT ConnectionKeepsRoute
