CONSTANTS
    Tests <- MCTests
    MaxFailures = 2

SPECIFICATION Spec

INVARIANT NeverMisattributed
