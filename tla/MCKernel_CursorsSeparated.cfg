CONSTANTS
    MAX_PROCESSES <- MCFewProcesses
    NUM_TERMS <- MCNumTerms
SPECIFICATION Spec
INVARIANTS
    CursorsSeparated
