--------------------------- MODULE CMakeBuildTest ---------------------------
(***************************************************************************)
(* _run_cmake_build_test of src/ndk/test/types.py: the chain of tool       *)
(* checks and the two cmake invocations that decide whether a CMake build  *)
(* test passes.  The environment the function meets (which tools are on   *)
(* PATH, what they print, what they exit with) is the input; directory     *)
(* preparation and the argument lists are left out, they decide nothing.   *)
(*                                                                         *)
(* `cmake --version` prints "cmake version M.m.p..."; the output is given  *)
(* as the sequence of its dot-separated numbers, and the pattern           *)
(* 'cmake version (\d+)\.(\d+)\.' matches when there are at least three.   *)
(***************************************************************************)
EXTENDS Naturals, Sequences

CONSTANTS Versions  \* the `cmake --version` outputs to try, as number sequences

VARIABLE env  \* what the tools on PATH do

Env ==
    [cmake: BOOLEAN,          \* which('cmake') finds one
     versionRc: {0, 1},       \* exit status of cmake --version
     version: Versions,
     ninja: BOOLEAN,          \* which('ninja') finds one
     ninjaRc: {0, 1},         \* exit status of ninja --version
     configureRc: {0, 1},     \* exit status of the cmake configure step
     buildRc: {0, 1}]         \* exit status of cmake --build

\* Python's ordering of lists of ints: lexicographic, a proper prefix first.
RECURSIVE ListLess(_, _)
ListLess(a, b) ==
    IF a = <<>> \/ b = <<>> THEN a = <<>> /\ b # <<>>
    ELSE \/ Head(a) < Head(b)
         \/ Head(a) = Head(b) /\ ListLess(Tail(a), Tail(b))

\* re.match(version_pattern, out): None without a third component.
VersionMatch(out) == Len(out) >= 3

\* Mutant: the version check compares the minor number only.
OldCMakeMinorOnly(version) == version[2] < 6

\* version < [3, 6] over the two matched groups.
OldCMake(version) == ListLess(<<version[1], version[2]>>, <<3, 6>>)

(* The function's outcome: "Success", a Failure with the step that failed, *)
(* or "raise" when check_output raises CalledProcessError (non-zero exit)  *)
(* or the pattern does not match (None.groups() raises AttributeError).    *)
RunCMakeBuildTest(e) ==
    CASE ~e.cmake                    -> "no cmake"
      [] e.versionRc # 0             -> "raise"
      [] ~VersionMatch(e.version)    -> "raise"
      [] OldCMake(e.version)         -> "old cmake"
      [] ~e.ninja                    -> "no ninja"
      [] e.ninjaRc # 0               -> "ninja broken"
      [] e.configureRc # 0           -> "configure"
      [] e.buildRc # 0               -> "build"
      [] OTHER                       -> "Success"

\* The first build test meets a working toolchain.
Init == env = [cmake |-> TRUE, versionRc |-> 0, version |-> CHOOSE v \in Versions : Len(v) = 3,
               ninja |-> TRUE, ninjaRc |-> 0, configureRc |-> 0, buildRc |-> 0]

\* Another build test meets another environment.
NextEnv == env' \in Env

Spec == Init /\ [][NextEnv]_env

----------------------------------------------------------------------------

\* "cmake 3.6 or above required", read as numbers.
AtLeast36(v) == v[1] > 3 \/ (v[1] = 3 /\ v[2] >= 6)

(* A CMake build test passes exactly when cmake and ninja are found, both  *)
(* answer --version, cmake is at least 3.6 by number (3.10 and 4.0 are new *)
(* enough, 2.8 is not), and both cmake steps succeed; whenever cmake is   *)
(* new enough but a later step fails the test is a Failure, not a crash.   *)
CMakeVerdict ==
    LET ok == env.cmake /\ env.versionRc = 0 /\ VersionMatch(env.version)
    IN /\ (RunCMakeBuildTest(env) = "Success") <=>
            /\ ok /\ AtLeast36(env.version)
            /\ env.ninja /\ env.ninjaRc = 0 /\ env.configureRc = 0 /\ env.buildRc = 0
       /\ (ok /\ ~AtLeast36(env.version)) => RunCMakeBuildTest(env) = "old cmake"
=============================================================================
