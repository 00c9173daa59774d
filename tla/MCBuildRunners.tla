---------------------------- MODULE MCBuildRunners ----------------------------
EXTENDS BuildRunners

MCMinApi == [a \in {"armeabi-v7a", "arm64-v8a"} |-> IF a = "arm64-v8a" THEN 21 ELSE 16]
MCDecimal == [t \in {"19", "24"} |-> IF t = "19" THEN 19 ELSE 24]

\* Lines that set another variable, valid levels below and above the arm64
\* minimum, the ?= operator, a symbolic level, and a level without prefix.
MCLines ==
    { <<"APP_ABI", ":=", "all">>,
      <<"APP_PLATFORM", ":=", "android", "-", "19">>,
      <<"APP_PLATFORM", ":=", "android", "-", "24">>,
      <<"APP_PLATFORM", "?=", "android", "-", "24">>,
      <<"APP_PLATFORM", ":=", "android", "-", "latest">>,
      <<"APP_PLATFORM", ":=", "24">> }

\* No extra flags, another make variable, an option before a variable, and
\* flags that set APP_PLATFORM or APP_ABI themselves.
MCFlags ==
    { <<>>,
      <<<<"=", "APP_STL", "c++_shared">>>>,
      <<<<"-B">>, <<"=", "V", "1">>>>,
      <<<<"=", "APP_PLATFORM", <<"android", 24>>>>>>,
      <<<<"=", "APP_ABI", "x86">>>> }
=============================================================================
