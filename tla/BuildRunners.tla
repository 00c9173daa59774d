----------------------------- MODULE BuildRunners -----------------------------
(***************************************************************************)
(* How a build test is handed to the build system: ShellBuildTest and      *)
(* NdkBuildTest of src/ndk/test/types.py, the BuildTest properties they    *)
(* share (ndk_build_flags, the ValueError on a missing level), the runners *)
(* _run_build_sh_test and _run_ndk_build_test, _get_jobs_args, and         *)
(* ndk.ndkbuild.build (src/ndk/ndkbuild.py).  The level of an ndk-build    *)
(* test comes from _get_or_infer_app_platform, taken from AppPlatform.     *)
(*                                                                         *)
(* A command-line argument is a tuple: <<"=", VAR, value>> for VAR=value,  *)
(* <<"-j", n>> and <<"-l", n>> for the job options, <<word>> otherwise.    *)
(* The strings 'android-{}'.format(api) are <<"android", api>>.  The       *)
(* process's output and the directory copying are left out.                *)
(***************************************************************************)
EXTENDS Naturals, Sequences, SequencesExt

CONSTANTS Abis, MinApi, UserApis, Decimal, Lines, None, ValueError,
          Flags,  \* extra ndk-build flag lists a configuration or test may give
          Cpus    \* values multiprocessing.cpu_count() may return

VARIABLES abi, userPlatform, applicationMk,  \* the BuildConfiguration and the test's Application.mk
          kind,         \* "build.sh" or "ndk-build": the test's class
          osName,       \* os.name
          configFlags,  \* config.get_extra_ndk_build_flags(): None or a list
          testFlags,    \* the test config's extra_ndk_build_flags()
          dist,         \* NdkBuildTest.dist
          cpus,
          rc            \* the build command's exit status

vars == <<abi, userPlatform, applicationMk, kind, osName, configFlags, testFlags, dist, cpus, rc>>

AP == INSTANCE AppPlatform

\* ShellBuildTest.__init__ (the ABI's minimum when no level is configured)
\* and NdkBuildTest.__init__ (_get_or_infer_app_platform): BuildTest.api.
Api ==
    IF kind = "build.sh"
    THEN IF userPlatform = None THEN MinApi[abi] ELSE userPlatform
    ELSE AP!GetOrInferAppPlatform(userPlatform, applicationMk, abi)

\* BuildTest.ndk_build_flags.
NdkBuildFlags == (IF configFlags = None THEN <<>> ELSE configFlags) \o testFlags

\* _get_jobs_args.
JobsArgs == <<<<"-j", cpus>>, <<"-l", cpus>>>>

\* NdkBuildTest.get_dist_dir: the dist tree, or a dist/ under the build dir.
DistDir == IF dist THEN "dist_dir/test" ELSE "obj_dir/test/dist"

\* Mutant: the Windows branch passes no build flags.
BuildDropsFlagsOnNt(buildFlags) ==
    IF osName = "nt" THEN <<<<"cmd">>, <<"/c">>, <<"ndk-build">>>>
    ELSE <<<<"ndk-build">>>> \o buildFlags

\* ndk.ndkbuild.build: the argv of the ndk-build process, through cmd /c on
\* Windows.
Build(buildFlags) ==
    IF osName = "nt" THEN <<<<"cmd">>, <<"/c">>, <<"ndk-build">>>> \o buildFlags
    ELSE <<<<"ndk-build">>>> \o buildFlags

\* _run_ndk_build_test: the command line; the environment is inherited.
RunNdkBuildTest ==
    LET args == <<<<"=", "APP_ABI", abi>>, <<"=", "NDK_LIBS_OUT", DistDir>>>>
                \o JobsArgs
                \o (IF Api # None THEN <<<<"=", "APP_PLATFORM", <<"android", Api>>>>>> ELSE <<>>)
    IN [argv |-> Build(args \o NdkBuildFlags), env |-> [v \in {} |-> None]]

\* _run_build_sh_test: bash build.sh with NDK, APP_ABI and APP_PLATFORM set
\* in its environment.
RunBuildShTest ==
    [argv |-> <<<<"bash">>, <<"build.sh">>>> \o JobsArgs \o NdkBuildFlags,
     env  |-> [v \in {"NDK", "APP_ABI", "APP_PLATFORM"} |->
                 CASE v = "NDK"     -> "ndk_path"
                   [] v = "APP_ABI" -> abi
                   [] OTHER         -> <<"android", Api>>]]

(* The test's run(): the constructor raises ValueError without a level    *)
(* (BuildTest.__init__) or on a bad Application.mk; build.sh tests are    *)
(* Skipped on Windows; otherwise Success exactly when the command exits 0. *)
Outcome ==
    CASE Api \in {None, ValueError}           -> [result |-> "ValueError", cmd |-> None]
      [] kind = "build.sh" /\ osName = "nt"   -> [result |-> "Skipped", cmd |-> None]
      [] OTHER ->
           [result |-> IF rc = 0 THEN "Success" ELSE "Failure",
            cmd    |-> IF kind = "build.sh" THEN RunBuildShTest ELSE RunNdkBuildTest]

\* Any test of either class, configured for any ABI and level, on either
\* host, before its build has run (rc = 0 until the build says otherwise).
Init ==
    /\ abi \in Abis /\ userPlatform \in {None} \cup UserApis
    /\ applicationMk \in AP!Files
    /\ kind \in {"build.sh", "ndk-build"} /\ osName \in {"posix", "nt"}
    /\ configFlags \in {None} \cup Flags /\ testFlags \in Flags
    /\ dist \in BOOLEAN /\ cpus \in Cpus /\ rc = 0

\* The build command runs again and exits with another status.
Rebuild ==
    /\ rc' \in {0, 1}
    /\ UNCHANGED <<abi, userPlatform, applicationMk, kind, osName, configFlags, testFlags, dist, cpus>>

Spec == Init /\ [][Rebuild]_vars

----------------------------------------------------------------------------
\* What a VAR=value argument or the environment hands the build: the last
\* assignment on the command line wins, as in make.
Handed(cmd, v) ==
    LET sets == SelectSeq(cmd.argv, LAMBDA a : Len(a) = 3 /\ a[1] = "=" /\ a[2] = v) IN
    IF sets # <<>> THEN Last(sets)[3]
    ELSE IF v \in DOMAIN cmd.env THEN cmd.env[v] ELSE None

(* The level every ndk-build test of these configurations is classified   *)
(* with follows _get_or_infer_app_platform's rules (AppPlatform's          *)
(* PlatformChoice): the user's level, else the first APP_PLATFORM line's   *)
(* when valid and not below the ABI's minimum, else that minimum, and a    *)
(* ValueError for a malformed line.                                        *)
PlatformChoice == AP!PlatformChoice

\* No extra flag of the configuration or the test assigns make variable v.
NotOverridden(v) == \A f \in Range(NdkBuildFlags) : ~(Len(f) = 3 /\ f[1] = "=" /\ f[2] = v)

(* Every build that runs targets the ABI and the level the test is        *)
(* classified with (BuildTest.abi and .platform, which check_broken and    *)
(* check_unsupported read), whichever runner and host, as long as no      *)
(* extra flag of the configuration or the test sets APP_ABI or            *)
(* APP_PLATFORM itself (such a flag, passed later, is what make uses); it *)
(* gets every extra flag last and in order, and its result is Success     *)
(* exactly when the build command exits 0.                                *)
BuildHandsTestConfig ==
    LET o == Outcome IN
    o.result \in {"Success", "Failure"} =>
        /\ NotOverridden("APP_ABI") => Handed(o.cmd, "APP_ABI") = abi
        /\ NotOverridden("APP_PLATFORM") => Handed(o.cmd, "APP_PLATFORM") = <<"android", Api>>
        /\ IsSuffix(NdkBuildFlags, o.cmd.argv)
        /\ (o.result = "Success") <=> rc = 0
=============================================================================
