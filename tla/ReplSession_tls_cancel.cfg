SPECIFICATION FairSpec
CONSTANTS
    Lines <- MCFewLines
    MetaLines <- MCNoLines
    Databases = {db1}
    CancelDelivery = {"blocked"}
    MaxCancels = 1
    Nil = Nil
PROPERTY
    CtrlCReturns
