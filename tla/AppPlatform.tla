----------------------------- MODULE AppPlatform -----------------------------
(***************************************************************************)
(* _get_or_infer_app_platform and _platform_from_application_mk of        *)
(* src/ndk/test/types.py: the API level an ndk-build test builds against.  *)
(* ndk.abis.min_api_for_abi is not under src/; it is the constant MinApi.  *)
(*                                                                         *)
(* A line of jni/Application.mk is a sequence of tokens: a variable name,  *)
(* an assignment operator, and the value's words, dashes and digits, so    *)
(* split(':='), startswith('android-'), split('-') and int() act on tokens *)
(* as they act on the characters they stand for.                           *)
(***************************************************************************)
EXTENDS Naturals, Sequences, SequencesExt

CONSTANTS Abis,      \* the ABIs tests are built for
          MinApi,    \* ndk.abis.min_api_for_abi
          UserApis,  \* platform levels a user may pass
          Decimal,   \* decimal tokens -> their value: what int() accepts
          Lines,     \* candidate Application.mk lines, token sequences
          None,      \* Python's None
          ValueError \* what the function raises on a malformed APP_PLATFORM

\* The test being built; BuildRunners enumerates them.
VARIABLES abi, userPlatform, applicationMk  \* applicationMk: None when missing

Files == {None} \cup {<<>>} \cup {<<l>> : l \in Lines} \cup {<<l, m>> : l, m \in Lines}

\* str.split(sep) on tokens: the pieces between the separators.
Split(s, sep) ==
    LET cuts == <<0>> \o SelectSeq([i \in DOMAIN s |-> IF s[i] = sep THEN i ELSE 0],
                                   LAMBDA i : i # 0) \o <<Len(s) + 1>>
    IN [k \in 1..Len(cuts) - 1 |-> SubSeq(s, cuts[k] + 1, cuts[k + 1] - 1)]

StartsWith(s, prefix) == Len(s) >= Len(prefix) /\ SubSeq(s, 1, Len(prefix)) = prefix

\* int(s): one decimal token; anything else raises.
IsInt(s) == Len(s) = 1 /\ s[1] \in DOMAIN Decimal

\* Mutant: a malformed APP_PLATFORM read as no APP_PLATFORM at all.
PlatformFromApplicationMkFallback(mk) ==
    LET hits == SelectSeq(mk, LAMBDA l : StartsWith(l, <<"APP_PLATFORM">>)) IN
    IF mk = None \/ hits = <<>> THEN None
    ELSE LET parts == Split(hits[1], ":=") IN
         IF Len(parts) # 2 THEN None
         ELSE LET str == parts[2] IN
              IF ~StartsWith(str, <<"android", "-">>) THEN None
              ELSE LET lv == Split(str, "-") IN
                   IF Len(lv) # 2 \/ ~IsInt(lv[2]) THEN None
                   ELSE Decimal[lv[2][1]]

\* _platform_from_application_mk: None, an API level, or ValueError.
PlatformFromApplicationMk(mk) ==
    LET hits == SelectSeq(mk, LAMBDA l : StartsWith(l, <<"APP_PLATFORM">>)) IN
    IF mk = None \/ hits = <<>> THEN None
    ELSE LET parts == Split(hits[1], ":=") IN
         IF Len(parts) # 2 THEN ValueError
         ELSE LET str == parts[2] IN
              IF ~StartsWith(str, <<"android", "-">>) THEN ValueError
              ELSE LET lv == Split(str, "-") IN
                   IF Len(lv) # 2 \/ ~IsInt(lv[2]) THEN ValueError
                   ELSE Decimal[lv[2][1]]

\* Mutant: APP_PLATFORM taken whatever the ABI's minimum.
GetOrInferNoMinimum(user, mk, a) ==
    IF user # None THEN user
    ELSE LET p == PlatformFromApplicationMk(mk) IN
         IF p # None THEN p ELSE MinApi[a]

\* _get_or_infer_app_platform: the user's level, else APP_PLATFORM when it
\* is at least the ABI's minimum, else the minimum.
GetOrInferAppPlatform(user, mk, a) ==
    IF user # None THEN user
    ELSE LET p == PlatformFromApplicationMk(mk) IN
         CASE p = ValueError            -> ValueError
           [] p # None /\ p >= MinApi[a]  -> p
           [] OTHER                       -> MinApi[a]


----------------------------------------------------------------------------
\* The reference for the check, from the Application.mk syntax the tests
\* use: a well-formed line is exactly APP_PLATFORM := android-<number>.
WellFormedPlatformLine(l) ==
    \E d \in DOMAIN Decimal : l = <<"APP_PLATFORM", ":=", "android", "-", d>>

\* The first line of the file that sets APP_PLATFORM, if any.
PlatformLines(mk) == {i \in DOMAIN mk : mk[i][1] = "APP_PLATFORM"}
FirstPlatformLine(mk) ==
    mk[CHOOSE i \in PlatformLines(mk) : \A j \in PlatformLines(mk) : i <= j]

(* The level an ndk-build test builds against: the user's when given;      *)
(* otherwise never below the ABI's minimum, equal to the first APP_PLATFORM *)
(* line's android-N when N is at least that minimum, and a ValueError      *)
(* (not a silent default) when that line is malformed: another operator   *)
(* than :=, no android- prefix, or a level that is not a number.           *)
PlatformChoice ==
    LET res == GetOrInferAppPlatform(userPlatform, applicationMk, abi)
        p   == PlatformFromApplicationMk(applicationMk)
    IN /\ userPlatform # None => res = userPlatform
       /\ userPlatform = None /\ p \notin {None, ValueError} => res = IF p >= MinApi[abi] THEN p ELSE MinApi[abi]
       /\ userPlatform = None /\ res # ValueError => res >= MinApi[abi]
       /\ userPlatform = None /\ p = None => res = MinApi[abi]
       /\ userPlatform = None /\ applicationMk # None /\ PlatformLines(applicationMk) # {} =>
              (res = ValueError <=> ~WellFormedPlatformLine(FirstPlatformLine(applicationMk)))
=============================================================================
