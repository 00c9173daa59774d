-------------------------- MODULE MCCMakeBuildTest --------------------------
EXTENDS CMakeBuildTest

\* Versions on both sides of 3.6, a two-digit minor, a new major, and an
\* output without a patch number.
MCVersions == {<<2, 8, 12>>, <<3, 5, 1>>, <<3, 6, 0>>, <<3, 10, 2>>, <<4, 0, 1>>, <<3, 6>>}
=============================================================================
