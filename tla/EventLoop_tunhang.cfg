CONSTANTS
    Tun = Tun
    Lstn = Lstn
    Conns <- MCConns
    MaxEnv <- MCMaxEnv
    AssertsOn = TRUE
    TunDrainsConnTx = TRUE
    WBuffCapacity <- MCWBuffCapacity
    WBuffLen <- MCWBuffLen
    WBuffCur <- MCWBuffCur
SPECIFICATION Spec
CHECK_DEADLOCK FALSE
PROPERTY BatchDispatched
