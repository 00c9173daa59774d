CONSTANTS
    ConfigAbi <- MCConfigAbi
    RunAbis = {"arm64-v8a"}
    DeviceTestBaseDir = DeviceTestBaseDir
    DistTrees <- MCDistTrees
    Filters = {"*", "libc++", "s1"}

SPECIFICATION Spec

INVARIANT NoVacuousPass
INVARIANT DiscoveredAsPushed
PROPERTY ResultsUsedOnce

\* The process exits: "exited" has no successor.
CHECK_DEADLOCK FALSE
