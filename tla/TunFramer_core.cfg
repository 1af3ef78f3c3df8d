CONSTANTS
    Radix <- MCRadix
    VerByte <- MCVerByte
    Lens <- MCLens
    MaxPkts <- MCMaxPkts
    Sz <- MCSz
    TunSz <- MCTunSz
    MaxTunErrors = 1
    AssertsOn = TRUE
    RecvAdvancesEnd = TRUE
SPECIFICATION Spec
CHECK_DEADLOCK FALSE
INVARIANT TypeOK
INVARIANT FramesWholePacketsUntilMisread
INVARIANT BytesConserved
