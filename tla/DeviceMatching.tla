--------------------------- MODULE DeviceMatching ---------------------------
(***************************************************************************)
(* Test discovery by configuration, fleet grouping and the pairing of      *)
(* test cases with device groups, as pure operators over the fleet and the *)
(* built tests.                                                            *)
(*                                                                         *)
(* src/ndk/run_tests.py: enumerate_tests with ConfigFilter,                *)
(* match_configs_to_device_groups, find_configs_with_no_device,            *)
(* pair_test_runs, verify_have_all_requested_devices.  Device discovery    *)
(* and Device.can_run_build_config live in ndk.test.devices, which is not  *)
(* under src/; they are modelled from spec.md sections 3 and 4.1.          *)
(***************************************************************************)
EXTENDS Naturals, FiniteSets

CONSTANTS Devices,     \* the attached devices
          Version,     \* device -> API level
          DeviceAbis,  \* device -> set of supported ABIs
          Requested,   \* device configurations named by the config file: [version, abi]
          TestCases,   \* the built test cases found under the dist directory
          TestConfig,  \* test case -> its BuildConfiguration [abi, api]
          ConfigAbis   \* the ABIs of the run profile (ConfigFilter.config_abis)

\* Device.can_run_build_config: the ABI is supported and the device is at
\* least the configuration's API level.
CanRunBuildConfig(d, config) ==
    /\ config.abi \in DeviceAbis[d]
    /\ config.api <= Version[d]

\* find_devices: devices with identical (API level, ABI set) form one group.
FleetGroups ==
    { {e \in Devices : Version[e] = Version[d] /\ DeviceAbis[e] = DeviceAbis[d]}
        : d \in Devices }

\* fleet.get_missing(): requested configurations no attached device provides.
Missing ==
    { q \in Requested :
        ~\E d \in Devices : Version[d] = q.version /\ q.abi \in DeviceAbis[d] }

\* verify_have_all_requested_devices.
VerifyHaveAllRequestedDevices == Missing = {}

\* ConfigFilter.filter: the configuration's ABI is in the run profile.
ConfigFilter(config) == config.abi \in ConfigAbis

\* enumerate_tests: {BuildConfiguration: [TestCase]} for the configurations
\* the filter accepts.
EnumerateTests ==
    [c \in {cfg \in {TestConfig[t] : t \in TestCases} : ConfigFilter(cfg)}
        |-> {t \in TestCases : TestConfig[t] = c}]

\* Mutant: the can_run_build_config check of the matching loop dropped.
MatchConfigsToAllGroups(configs) == [c \in configs |-> FleetGroups]

\* match_configs_to_device_groups: a group serves a configuration when its
\* first device can run it (all devices of a group are identical).
MatchConfigsToDeviceGroups(configs) ==
    [c \in configs |->
        {g \in FleetGroups : CanRunBuildConfig(CHOOSE d \in g : TRUE, c)}]

\* find_configs_with_no_device.
FindConfigsWithNoDevice(groupsForConfig) ==
    {c \in DOMAIN groupsForConfig : groupsForConfig[c] = {}}

\* pair_test_runs: one TestRun per (test case, eligible group).
PairTestRuns(testGroups, groupsForConfig) ==
    UNION { {<<t, g>> : t \in testGroups[c], g \in groupsForConfig[c]}
              : c \in DOMAIN testGroups }
=============================================================================
