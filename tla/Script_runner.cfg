SPECIFICATION Spec
CONSTANTS
    Vocabulary <- MCPlain
    OnErrorModes <- MCAllModes
    Wraps <- MCSingle
    StepModes <- MCStepOrRun
    ElseLast = "yes"
    MaxLines = 5
    MaxDepth = 2
    Nil = Nil
INVARIANTS
    AllOrNothing
    ConditionalsNest
PROPERTY
    ImplementsAtomic
