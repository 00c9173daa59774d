------------------------- MODULE StandaloneToolchain -------------------------
(***************************************************************************)
(* main() of src/build/tools/make_standalone_toolchain.py and what it      *)
(* decides: the API level, whether an existing installation directory is  *)
(* removed or the run exits, the -target and flags baked into the clang    *)
(* wrapper (make_clang_scripts), the gcc wrapper names                     *)
(* (replace_gcc_wrappers) and the package format.  File copying, the      *)
(* clang version suffix and the wrapper text are left out.                 *)
(*                                                                         *)
(* A triple is the sequence of its dash-separated parts, so triple.split   *)
(* ('-') and '-'.join act on it directly.                                  *)
(***************************************************************************)
EXTENDS Naturals, Sequences

CONSTANTS Arches,  \* the --arch choices
          Apis,    \* --api values to try
          None

VARIABLE args  \* the command line and the host: what main() is run with

Args ==
    [arch: Arches, api: {None} \cup Apis, installDir: {None, "new", "existing"},
     force: BOOLEAN, windows: BOOLEAN, ndkOk: BOOLEAN, toolchainOk: BOOLEAN]

\* get_triple.
GetTriple(arch) ==
    CASE arch = "arm"    -> <<"arm", "linux", "androideabi">>
      [] arch = "arm64"  -> <<"aarch64", "linux", "android">>
      [] arch = "x86"    -> <<"i686", "linux", "android">>
      [] arch = "x86_64" -> <<"x86_64", "linux", "android">>

\* main: 16 for the 32-bit architectures, 21 otherwise.
MinApi(arch) == IF arch \in {"arm", "x86"} THEN 16 ELSE 21

\* main: the requested level, or the minimum when none was given.
ChosenApi(a) == IF a.api = None THEN MinApi(a.arch) ELSE a.api

\* Mutant: -mstackrealign tested against the --arch name, not the triple's.
MakeClangFlagsArchName(triple, api) ==
    LET arch == IF triple[1] = "arm" THEN "armv7a" ELSE triple[1] IN
    [target |-> <<arch, "none", triple[2], triple[3]>>, api |-> api,
     stackrealign |-> arch = "x86" /\ api < 24]

(* make_clang_scripts: -target <arch>-none-<os>-<env><api> -stdlib=libc++, *)
(* armv7a for arm, and -mstackrealign for 32-bit x86 below API 24.         *)
MakeClangFlags(triple, api) ==
    LET arch == IF triple[1] = "arm" THEN "armv7a" ELSE triple[1] IN
    [target |-> <<arch, "none", triple[2], triple[3]>>, api |-> api,
     stackrealign |-> arch = "i686" /\ api < 24]

\* replace_gcc_wrappers: <triple>-gcc and <triple>-g++, .cmd on Windows.
GccWrappers(triple, windows) ==
    {<<triple, tool, IF windows THEN ".cmd" ELSE "">> : tool \in {"gcc", "g++"}}

(* main: an existing --install-dir is removed (shutil.rmtree) under       *)
(* --force, else the run exits; without --install-dir a fresh temporary   *)
(* directory is used.                                                     *)
InstallDir(a) ==
    CASE a.installDir = "existing" /\ a.force -> "cleaned"
      [] a.installDir = "existing"            -> "directory exists"
      [] OTHER                                -> "pass"

\* create_toolchain: the wrappers made for the architecture's triple.
CreateToolchain(arch, api, windows) ==
    [flags |-> MakeClangFlags(GetTriple(arch), api),
     gcc   |-> GccWrappers(GetTriple(arch), windows)]

(* What each check of main does: "pass", an exit with its reason, or the  *)
(* removal of the installation directory.                                 *)
CheckOutcome(a, check) ==
    CASE check = "ndk"        -> IF a.ndkOk THEN "pass" ELSE "sanity check"
      [] check = "api"        -> IF ChosenApi(a) < MinApi(a.arch) THEN "below minimum" ELSE "pass"
      [] check = "toolchain"  -> IF a.toolchainOk THEN "pass" ELSE "no toolchain"
      [] check = "installDir" -> InstallDir(a)

\* Mutant: the installation directory handled before the API check.
ChecksDirFirst == <<"ndk", "installDir", "api", "toolchain">>

(* main: check_ndk_or_die, the API minimum, get_toolchain_path_or_die and *)
(* the installation directory, in this order; the first that exits ends   *)
(* the run.                                                               *)
Checks == <<"ndk", "api", "toolchain", "installDir">>

NoResult == [exit |-> "none", cleaned |-> FALSE, flags |-> None, gcc |-> {}, package |-> "none"]

(* main: the checks in order, an rmtree done by a check before the one    *)
(* that exits staying done; then create_toolchain and, for a temporary    *)
(* directory, the archive: zip on Windows hosts, bztar elsewhere.          *)
Main(a) ==
    LET out(i)  == CheckOutcome(a, Checks[i])
        exits   == {i \in 1..Len(Checks) : out(i) \notin {"pass", "cleaned"}}
        stop    == IF exits = {} THEN Len(Checks) + 1
                   ELSE CHOOSE i \in exits : \A j \in exits : i <= j
        cleaned == \E i \in 1..(stop - 1) : out(i) = "cleaned"
        tc      == CreateToolchain(a.arch, ChosenApi(a), a.windows)
    IN IF stop <= Len(Checks)
       THEN [NoResult EXCEPT !.exit = out(stop), !.cleaned = cleaned]
       ELSE [exit    |-> "none",
             cleaned |-> cleaned,
             flags   |-> tc.flags,
             gcc     |-> tc.gcc,
             package |-> CASE a.installDir # None -> "none"
                           [] a.windows          -> "zip"
                           [] OTHER              -> "bztar"]

\* A first invocation: default arch and level, a temporary directory.
Init == args = [arch |-> "arm", api |-> None, installDir |-> None,
                force |-> FALSE, windows |-> FALSE, ndkOk |-> TRUE, toolchainOk |-> TRUE]

\* Another invocation.
NextArgs == args' \in Args

Spec == Init /\ [][NextArgs]_args

----------------------------------------------------------------------------
(* The clang wrapper a successful run installs targets what was asked:     *)
(* the requested level, or the architecture's minimum when none was given, *)
(* never a level below that minimum; armv7a rather than the armv5 "arm"   *)
(* for 32-bit ARM; the OS and environment of the gcc triple; and           *)
(* -mstackrealign exactly for 32-bit x86 below API 24 (issue 693).         *)
ClangTargetFlags ==
    LET r == Main(args) IN
    r.exit = "none" =>
        /\ r.flags.api = IF args.api = None THEN MinApi(args.arch) ELSE args.api
        /\ r.flags.api >= MinApi(args.arch)
        /\ r.flags.target[1] = IF args.arch = "arm" THEN "armv7a" ELSE GetTriple(args.arch)[1]
        /\ SubSeq(r.flags.target, 3, 4) = SubSeq(GetTriple(args.arch), 2, 3)
        /\ r.flags.stackrealign <=> (args.arch = "x86" /\ r.flags.api < 24)

(* A user's existing installation directory is removed only under        *)
(* --force and only by a run that then creates the toolchain in its      *)
(* place: no check that comes after the rmtree (a too-low --api, a        *)
(* missing toolchain) can exit and leave the directory deleted with       *)
(* nothing installed.                                                     *)
InstallDirSafety ==
    LET r == Main(args) IN
    r.cleaned => /\ args.installDir = "existing" /\ args.force
                 /\ r.exit = "none"
=============================================================================
