SPECIFICATION HSpec
CONSTANTS
    Lines <- MCLines
    MetaLines <- MCMetaLines
    Databases = {db1, db2}
    CancelDelivery = {"lossy"}
    MaxCancels = 2
    Nil = Nil
INVARIANTS
    StarMeansBlock
    ClientMatchesConfig
    LastSqlIsLocal
    SubmittedOnce
    OneStatementAtATime
    GuessCoversBlock
    IndicatorComplete
SYMMETRY MCSymmetry
