SPECIFICATION FairSpec
CONSTANTS
    Lines <- MCFewLines
    MetaLines <- MCFewMetaLines
    Databases = {db1}
    CancelDelivery = {"reliable", "lossy", "blocked"}
    MaxCancels = 1
    Nil = Nil
PROPERTIES
    ReturnsToPrompt
    InterruptReturns
