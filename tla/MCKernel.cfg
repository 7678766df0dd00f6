CONSTANTS
    MAX_PROCESSES <- MCMaxProcesses
    NUM_TERMS <- MCNumTerms
SPECIFICATION Spec
INVARIANTS
    TypeOK
    RunningLeafOwnsCpu
    SuspendedResumable
    ChainsConsistent
VIEW ControlView
