CONSTANTS
    Abis = {"armeabi-v7a", "arm64-v8a"}
    MinApi <- MCMinApi
    UserApis = {19}
    Decimal <- MCDecimal
    Lines <- MCLines
    None = None
    ValueError = ValueError
    Flags <- MCFlags
    Cpus = {1, 8}

SPECIFICATION Spec

INVARIANT BuildHandsTestConfig
INVARIANT PlatformChoice
