---------------------------- MODULE TestDiscovery ----------------------------
(***************************************************************************)
(* Test discovery of src/ndk/run_tests.py: enumerate_tests with            *)
(* ConfigFilter, enumerate_basic_tests, enumerate_libcxx_tests, and the    *)
(* names, configurations and device directories that BasicTestCase and     *)
(* LibcxxTestCase give the tests they find.                                *)
(*                                                                         *)
(* The dist directory is a set of files.  A file is the sequence of the    *)
(* directory names from the dist directory down to it, and its name as a  *)
(* stem and an extension (".so", ".exe", or "" for none), so endswith and  *)
(* [:-4] act on the extension.  A path or a test name is a sequence of     *)
(* tokens: names and the separators "/", "." and the host's os.sep.        *)
(***************************************************************************)
EXTENDS Naturals, Sequences, SequencesExt, FiniteSets

CONSTANTS ConfigAbi,        \* BuildConfiguration.from_string(dir).abi of each configuration directory
          RunAbis,          \* ConfigFilter.config_abis: the ABIs of the run's test spec
          DeviceTestBaseDir \* DEVICE_TEST_BASE_DIR

\* The tokens of a file name, extension included.
FileName(f) == IF f.ext = "" THEN <<f.stem>> ELSE <<f.stem, f.ext>>

\* sep.join(parts) on tokens.
JoinPath(parts, sep) == [i \in 1..(2 * Len(parts) - 1) |-> IF i % 2 = 1 THEN parts[(i + 1) \div 2] ELSE sep]

\* The entries of os.listdir(dir) that are directories, and the files in it.
SubDirs(tree, dir) == {f.dir[Len(dir) + 1] : f \in {g \in tree : Len(g.dir) > Len(dir) /\ IsPrefix(dir, g.dir)}}
FilesIn(tree, dir) == {f \in tree : f.dir = dir}
IsDir(tree, dir) == \E f \in tree : IsPrefix(dir, f.dir)

\* TestFilter.filter (ndk.test.filters, not under src/): a pattern is "*"
\* or a suite name, which selects the names "<suite>.<anything>".
Accept(pattern, name) == pattern = "*" \/ name[1] = pattern

\* ConfigFilter.filter: the configuration's ABI is one the run builds.
ConfigAccepted(cfg) == ConfigAbi[cfg] \in RunAbis

\* BasicTestCase.__init__: the name is '<suite>.<executable>'.
BasicTestCase(suite, f, cfg, system, deviceDir) ==
    [name |-> <<suite, ".">> \o FileName(f), config |-> cfg, system |-> system,
     deviceDir |-> deviceDir, exe |-> f]

\* Mutant: device_dir taken relative to tests_dir instead of the dist dir.
EnumerateBasicTestsRelToTestsDir(tree, cfg, system, p) ==
    LET testsDir == <<cfg, system>>
        outDir(sub) == testsDir \o <<sub, ConfigAbi[cfg]>>
    IN [raised |-> \E sub \in SubDirs(tree, testsDir) : ~IsDir(tree, outDir(sub)),
        tests  |-> UNION {{BasicTestCase(sub, f, cfg, system, <<DeviceTestBaseDir, sub, ConfigAbi[cfg]>>) :
                             f \in {g \in FilesIn(tree, outDir(sub)) :
                                      g.ext \notin {".so", ".sh"} /\ Accept(p, <<sub, ".">> \o FileName(g))}}
                          : sub \in SubDirs(tree, testsDir)}]

(* enumerate_basic_tests: every file of <cfg>/<system>/<suite>/<abi> but  *)
(* the .so and .sh files, whose '<suite>.<file>' passes the filter; the   *)
(* device directory is that directory under DEVICE_TEST_BASE_DIR.  A       *)
(* suite without a directory for the ABI makes os.listdir raise.           *)
EnumerateBasicTests(tree, cfg, system, p) ==
    LET testsDir == <<cfg, system>>
        outDir(sub) == testsDir \o <<sub, ConfigAbi[cfg]>>
    IN [raised |-> \E sub \in SubDirs(tree, testsDir) : ~IsDir(tree, outDir(sub)),
        tests  |-> UNION {{BasicTestCase(sub, f, cfg, system, <<DeviceTestBaseDir>> \o outDir(sub)) :
                             f \in {g \in FilesIn(tree, outDir(sub)) :
                                      g.ext \notin {".so", ".sh"} /\ Accept(p, <<sub, ".">> \o FileName(g))}}
                          : sub \in SubDirs(tree, testsDir)}]

(* LibcxxTestCase.__init__: the name is 'libc++.' and the path below       *)
(* libc++/ joined to the executable by os.path.join (the host's os.sep),   *)
(* without its .exe.                                                       *)
LibcxxTestCase(suite, f, cfg, deviceDir, sep) ==
    LET filterName == IF suite = <<"libc++">> THEN FileName(f)
                      ELSE JoinPath(Tail(suite), "/") \o <<sep>> \o FileName(f)
    IN [name |-> <<"libc++", ".">> \o Front(filterName), config |-> cfg, system |-> "libc++",
        deviceDir |-> deviceDir, exe |-> f]

(* enumerate_libcxx_tests: every .exe below <cfg>/<system> (os.walk); its *)
(* suite is its directory relative to <cfg>/<system>, which must be libc++ *)
(* or below it (ValueError otherwise), and its filter name is 'libc++.'   *)
(* and the path below libc++/ joined by '/' to the name without .exe.      *)
EnumerateLibcxxTests(tree, cfg, system, p, sep) ==
    LET testsDir == <<cfg, system>>
        exes == {f \in tree : IsPrefix(testsDir, f.dir) /\ f.ext = ".exe"}
        suite(f) == SubSeq(f.dir, 3, Len(f.dir))
        testName(f) == IF suite(f) = <<"libc++">> THEN <<f.stem>>
                       ELSE JoinPath(Tail(suite(f)), "/") \o <<"/", f.stem>>
    IN [raised |-> \E f \in exes : suite(f) = <<>> \/ suite(f)[1] # "libc++",
        tests  |-> {LibcxxTestCase(suite(f), f, cfg, <<DeviceTestBaseDir>> \o f.dir, sep) :
                      f \in {g \in exes : Accept(p, <<"libc++", ".">> \o testName(g))}}]

(* enumerate_tests: for each configuration directory ConfigFilter accepts, *)
(* the cmake, libcxx and ndk-build scans; a raise in any scan leaves       *)
(* run_tests.  groups maps each accepted configuration to its tests (a     *)
(* configuration without tests keeps an empty list).                       *)
EnumerateTests(tree, p, sep) ==
    LET cfgs == {c \in SubDirs(tree, <<>>) : ConfigAccepted(c)}
        scans(c) == {EnumerateBasicTests(tree, c, "cmake", p),
                     EnumerateLibcxxTests(tree, c, "libcxx", p, sep),
                     EnumerateBasicTests(tree, c, "ndk-build", p)}
    IN [raised |-> \E c \in cfgs : \E s \in scans(c) : s.raised,
        groups |-> [c \in cfgs |-> UNION {s.tests : s \in scans(c)}]]

\* sum([len(tests) for tests in test_groups.values()])
NumTests(groups) == Cardinality(UNION {groups[c] : c \in DOMAIN groups})

----------------------------------------------------------------------------
\* The reference for the checks: spec.md 4.4's layout read directly.  A
\* test's name is '<suite>.<file>', or 'libc++.' and the path below libc++/
\* joined by '/' to the executable's stem.  The runnable files are the
\* executables (not .so or .sh) of <cfg>/<cmake or ndk-build>/<suite>/<abi
\* of cfg>, and the .exe files at or below <cfg>/libcxx/libc++, of
\* configurations whose ABI the run builds, whose name passes the filter.
RefName(f) ==
    IF f.dir[2] = "libcxx"
    THEN <<"libc++", ".">> \o JoinPath(SubSeq(f.dir, 4, Len(f.dir)) \o <<f.stem>>, "/")
    ELSE <<f.dir[3], ".">> \o FileName(f)

Runnable(tree, p) ==
    {f \in tree :
        /\ ConfigAccepted(f.dir[1])
        /\ \/ /\ Len(f.dir) = 4 /\ f.dir[2] \in {"cmake", "ndk-build"}
              /\ f.dir[4] = ConfigAbi[f.dir[1]] /\ f.ext \notin {".so", ".sh"}
           \/ /\ Len(f.dir) >= 3 /\ f.dir[2] = "libcxx" /\ f.dir[3] = "libc++" /\ f.ext = ".exe"
        /\ Accept(p, RefName(f))}

\* Where push_tests_to_devices puts a dist file: it pushes dist/<cfg> into
\* DEVICE_TEST_BASE_DIR, which makes it DEVICE_TEST_BASE_DIR/<cfg>/...
PushedTo(f) == <<DeviceTestBaseDir>> \o f.dir
=============================================================================
