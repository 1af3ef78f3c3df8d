CONSTANTS
    Sz <- MCSz
    Lens <- MCLens
    ReadCap <- MCReadCap
    MaxPkts <- MCMaxPkts
    Window <- MCWindow
    MaxWire <- MCMaxWire
    SendAdvances = TRUE
SPECIFICATION Spec
INVARIANT TypeOK
INVARIANT WireInOrderOnce
INVARIANT PacketsAccounted
PROPERTY ForwardedEventuallySent
