CONSTANTS
    d1 = d1
    d2 = d2
    d3 = d3
    t1 = t1
    t2 = t2
    t3 = t3
    t4 = t4
    TaskError = TaskError
    Idle = Idle
    MaxHangs = 0
    Devices <- MCDevices
    Version <- MCVersion
    DeviceAbis <- MCDeviceAbis
    Requested <- MCRequestedPresent
    TestCases <- MCTestCasesUnmatched
    TestConfig <- MCTestConfig
    ConfigAbis = {"arm64"}
    Unsupported <- MCUnsupported
    Broken <- MCBroken
    ThreadTests <- MCThreadTests
    ProcsPerDevice = 1

SPECIFICATION Spec



CHECK_DEADLOCK FALSE
INVARIANT EveryTestRunAtLeastOnce
