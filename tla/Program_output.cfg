SPECIFICATION ProgramSpec
CONSTANTS
    Inputs <- MCInputs
    Pgpass <- MCPgpass
    Tasks <- MCTasks
INVARIANT OutputHoldsAll
CHECK_DEADLOCK FALSE
