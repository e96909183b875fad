SPECIFICATION TextsSpec
CONSTANTS
    Letters <- MCLetters
    Wide <- MCWide
    Keyboards <- MCKeyboards
    Environments <- MCEnvironments
    MaxTyped = 5
    Shapes <- MCShapes
    Options <- MCOptions
    Formats <- MCFormats
    DigitsUsed <- MCDigits
    MaxInt = 6
    MaxFrac = 8
    MicrosPerSecond = 10
    Micros <- MCMicros
    Days <- MCDays
    Months <- MCMonths
    Durations <- MCDurations
    Buckets = 4
    Samples <- MCSamples
    MaxRuns = 4
INVARIANTS
    ReadersAgree
    StatementsAreTheText
    VariablesAreData
    
    FiguresAreRight
CHECK_DEADLOCK FALSE
