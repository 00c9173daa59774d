CONSTANT Versions <- MCVersions

SPECIFICATION Spec

INVARIANT CMakeVerdict
