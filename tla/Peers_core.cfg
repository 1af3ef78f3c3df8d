\* A build with asserts; copy, route and epoll failures injected once, and a
\* peer file that may be missing.  Failed captures (io.c 574) are not injected.
CONSTANTS
    Addrs <- MCAddrs
    Self <- MCSelf
    NoFile = NoFile
    Files <- MCFilesMissing
    AssertsOn = TRUE
    MaxSocks = 3
    MaxAllocFailures = 0
    MaxCopyFailures = 1
    MaxRouteFailures = 1
    MaxEpollFailures = 1
SPECIFICATION Spec
INVARIANT DisconnectedListExact
PROPERTY ReloadAppliesFile
