CONSTANTS
    MAX_PROCESSES <- MCFewProcesses
    NUM_TERMS <- MCNumTerms
SPECIFICATION Spec
INVARIANTS
    VidmapIsolation
PROPERTIES
    EveryLeafRuns
    SlotLifecycleRefined
VIEW VidmapView
