CONSTANTS
    NUM_TERMS <- MCNumTerms
    MAX_FAULTS <- MCMaxFaults
SPECIFICATION Spec
INVARIANTS
    TypeOK
    HandlersExclusive
PROPERTIES
    RtcReadReturns
    RtcWaitRefined
VIEW ControlView
