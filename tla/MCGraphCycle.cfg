CONSTANTS
    N = 4

SPECIFICATION Spec

INVARIANT FindsCycleIffCyclic
