CONSTANTS
    Sz <- MCSz
    MaxBytes <- MCMaxBytes
SPECIFICATION Spec
INVARIANT TypeOK
PROPERTY FifoRefinement
PROPERTY DrainTerminates
