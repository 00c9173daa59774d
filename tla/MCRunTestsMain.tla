--------------------------- MODULE MCRunTestsMain ---------------------------
EXTENDS RunTestsMain

\* Two configuration directories; the run builds only the first's ABI.
MCConfigAbi == [c \in {"arm64-v8a-21", "x86-16"} |-> IF c = "arm64-v8a-21" THEN "arm64-v8a" ELSE "x86"]

(* Files a build can leave in dist: an ndk-build executable with its       *)
(* shared library, a cmake test's helper script, a libc++ test at the top *)
(* and one below it with its data file, a test of the configuration the   *)
(* run does not build, and a build.sh test's output, which is not scanned. *)
MCDistFiles ==
    { [dir |-> <<"arm64-v8a-21", "ndk-build", "s1", "arm64-v8a">>, stem |-> "t", ext |-> ""],
      [dir |-> <<"arm64-v8a-21", "ndk-build", "s1", "arm64-v8a">>, stem |-> "libs1", ext |-> ".so"],
      [dir |-> <<"arm64-v8a-21", "cmake", "s2", "arm64-v8a">>, stem |-> "run", ext |-> ".sh"],
      [dir |-> <<"arm64-v8a-21", "libcxx", "libc++">>, stem |-> "x.pass.cpp", ext |-> ".exe"],
      [dir |-> <<"arm64-v8a-21", "libcxx", "libc++", "d">>, stem |-> "y.pass.cpp", ext |-> ".exe"],
      [dir |-> <<"arm64-v8a-21", "libcxx", "libc++", "d">>, stem |-> "y", ext |-> ".dat"],
      [dir |-> <<"x86-16", "ndk-build", "s1", "x86">>, stem |-> "t", ext |-> ""],
      [dir |-> <<"arm64-v8a-21", "build.sh", "s3", "arm64-v8a">>, stem |-> "t", ext |-> ""] }

MCDistTrees == SUBSET MCDistFiles
=============================================================================
