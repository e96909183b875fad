SPECIFICATION ProgramSpec
CONSTANTS
    Inputs <- MCInputs
    Pgpass <- MCPgpass
    Tasks <- MCTasks
INVARIANTS
    
    ShownIsTrue
    ExitCodeTells
CHECK_DEADLOCK FALSE
