SPECIFICATION Spec
CONSTANTS
    Vocabulary <- MCWriteOnly
    OnErrorModes <- MCAllModes
    Wraps <- MCSingle
    StepModes <- MCRun
    ElseLast = "yes"
    MaxLines = 4
    MaxDepth = 1
    Nil = Nil
INVARIANT
    SuccessMeansCommitted
