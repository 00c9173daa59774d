---------------------------- MODULE XunitReports ----------------------------
(***************************************************************************)
(* get_xunit_reports and find_original_libcxx_test of                      *)
(* src/ndk/test/types.py: turning the xunit XML that lit writes into one   *)
(* XunitSuccess or XunitFailure per <testcase>.  lit names a test by its   *)
(* directory with every '.' replaced by '_', then '/', then its file name; *)
(* the code finds the original test by replacing every '_' of that name   *)
(* with the fnmatch wildcard '?' and matching all scanned libc++ tests.    *)
(*                                                                         *)
(* A test path is a directory and a file name, each a sequence of          *)
(* characters from a small alphabet; the "libc++." prefix, which the code  *)
(* strips and puts back, is left out.                                      *)
(***************************************************************************)
EXTENDS Naturals, Sequences, SequencesExt

CONSTANTS Tests,        \* the libc++ tests there could be: [dir, file]
          MaxFailures   \* bound on <failure> nodes in one <testcase>

VARIABLES allTests,  \* LibcxxTestScanner.ALL_TESTS
          cases      \* the <testcase> elements: [test, failures] in document order

Path(t) == t.dir \o <<"/">> \o t.file

\* What lit writes as classname/name: '.' in the directory becomes '_'.
Mangle(t) == [i \in DOMAIN t.dir |-> IF t.dir[i] = "." THEN "_" ELSE t.dir[i]]
                 \o <<"/">> \o t.file

\* fnmatch of name.replace('_', '?'): '_' matches any one character.
FnMatch(path, mangled) ==
    /\ Len(path) = Len(mangled)
    /\ \A i \in DOMAIN path : mangled[i] = "_" \/ mangled[i] = path[i]

\* find_original_libcxx_test: every scanned test the pattern matches, in
\* the scanner's order (the order of a directory walk: some fixed order).
FindOriginalLibcxxTest(mangled) ==
    SelectSeq(SetToSeq(allTests), LAMBDA t : FnMatch(Path(t), mangled))

\* One <testcase>: its report, or raised when the parse raises on it.
CaseReport(c, m) ==
    [raised |-> Len(m) # 1 \/ c.failures > 1,
     test   |-> IF m = <<>> THEN c.test ELSE m[1],
     kind   |-> IF c.failures = 0 THEN "Success" ELSE "Failure"]

\* The loop: the first raise ends the parse, else the reports in order.
Collect(rs) ==
    [raised  |-> \E i \in DOMAIN rs : rs[i].raised,
     reports |-> [i \in DOMAIN rs |-> [test |-> rs[i].test, kind |-> rs[i].kind]]]

\* Mutant: the "Found multiple matches" check dropped; the first is taken.
GetXunitReportsFirstMatch(cs) ==
    Collect([i \in DOMAIN cs |->
               LET m == FindOriginalLibcxxTest(Mangle(cs[i].test)) IN
               [CaseReport(cs[i], m) EXCEPT !.raised = m = <<>> \/ cs[i].failures > 1]])

(* get_xunit_reports: per <testcase>, no match or several matches raise a  *)
(* RuntimeError, no <failure> gives XunitSuccess, one gives XunitFailure   *)
(* with its text, several raise; the first raise ends the whole parse.     *)
GetXunitReports(cs) ==
    Collect([i \in DOMAIN cs |-> CaseReport(cs[i], FindOriginalLibcxxTest(Mangle(cs[i].test)))])

CasesOver(S) ==
    {<<>>} \cup {<<c>> : c \in [test: S, failures: 0..MaxFailures]}
           \cup {<<c, d>> : c, d \in [test: S, failures: 0..MaxFailures]}

\* Before lit has run: the scanned tests, no report.
Init ==
    /\ allTests \in SUBSET Tests
    /\ cases = <<>>

\* lit runs another selection of the scanned tests.
NewCases == cases' \in CasesOver(allTests) /\ UNCHANGED allTests

\* Another checkout: another set of scanned tests, lit's output kept when
\* its tests are all still there.
NewTests ==
    /\ allTests' \in {S \in SUBSET Tests : \A i \in DOMAIN cases : cases[i].test \in S}
    /\ UNCHANGED cases

vars == <<allTests, cases>>
Spec == Init /\ [][NewCases \/ NewTests]_vars

----------------------------------------------------------------------------

(* A libc++ result is never attributed to another test than the one lit    *)
(* ran: when the parse succeeds, the i-th report names the i-th case's     *)
(* test, and it is a Failure exactly when that case had a <failure> node.  *)
NeverMisattributed ==
    LET res == GetXunitReports(cases)
        rs  == res.reports
    IN ~res.raised =>
        /\ Len(rs) = Len(cases)
        /\ \A i \in DOMAIN cases :
              /\ rs[i].test = cases[i].test
              /\ (rs[i].kind = "Failure") <=> cases[i].failures = 1

(* spec.md 6: every <testcase> of the report becomes a synthetic Result.   *)
(* When no two scanned tests have the same lit name, and no case has more  *)
(* than one <failure>, the parse yields a result for every case.           *)
EveryCaseReported ==
    ( /\ \A t, u \in allTests : t # u => Mangle(t) # Mangle(u)
      /\ \A i \in DOMAIN cases : cases[i].failures <= 1 )
    => ~GetXunitReports(cases).raised
=============================================================================
