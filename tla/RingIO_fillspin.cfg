CONSTANTS
    Sz <- MCSz
    MaxBytes <- MCMaxBytes
SPECIFICATION Spec
PROPERTY FillTerminates
