CONSTANTS
    NUM_TERMS <- MCNumTerms
    MAX_FAULTS <- MCMaxFaults
SPECIFICATION Spec
INVARIANTS
    CursorsPreserved
