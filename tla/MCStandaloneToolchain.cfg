CONSTANTS
    Arches = {"arm", "arm64", "x86", "x86_64"}
    Apis = {14, 16, 21, 23, 24}
    None = None

SPECIFICATION Spec

INVARIANT ClangTargetFlags
INVARIANT InstallDirSafety
