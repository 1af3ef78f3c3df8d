CONSTANTS
    Tun = Tun
    Lstn = Lstn
    Conns <- MCConns
    MaxEnv <- MCMaxEnv
    AssertsOn = TRUE
    TunDrainsConnTx = FALSE
    WBuffCapacity <- MCWBuffCapacity
    WBuffLen <- MCWBuffLen
    WBuffCur <- MCWBuffCur
SPECIFICATION Spec
CHECK_DEADLOCK FALSE
PROPERTY StopHonouredWhenBlocked
