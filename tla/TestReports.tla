----------------------------- MODULE TestReports -----------------------------
(***************************************************************************)
(* The facts of a pytest JUnit report (test_reports.py): how one report is *)
(* parsed, and how the final report of a test-repair run is compared with  *)
(* its baseline.  A raw report is a record                                 *)
(*   [exit |-> exit code, suiteCounts |-> the suite counts are right,      *)
(*    cases |-> <<[key |-> node key, outcomes |-> its outcome elements]>>] *)
(* and a parsed one a function from node keys to TestNodeStatus.  XML,     *)
(* labels, messages and size limits are left out: a report that breaks one *)
(* of those rules is one without cases here, refused in the same way.      *)
(***************************************************************************)
EXTENDS Naturals, Sequences, FiniteSets

TestNodeStatus ==
    {"PASSED", "FAILED", "ERROR", "SKIPPED", "XFAIL", "XPASS", "UNKNOWN"}

Failing == {"FAILED", "ERROR"}

NotRun == {"SKIPPED", "XFAIL", "XPASS", "UNKNOWN"}

\* The elements that decide the status of a test case.  A skip is read more
\* closely: its text tells an xfail and an xpass from a plain skip.
StatusOf ==
    [failure |-> "FAILED", error |-> "ERROR", rerun |-> "UNKNOWN",
     skipped |-> "SKIPPED", xfail |-> "XFAIL", xpass |-> "XPASS"]

\* The report of a file that could not be parsed: no node at all.
NoNodes == [k \in {} |-> "PASSED"]

\* _classify_testcase, for a case with at most one outcome
ClassifyTestcase(outcomes) ==
    IF outcomes = {} THEN "PASSED"
                     ELSE StatusOf[CHOOSE o \in outcomes : TRUE]

Keys(raw) == {raw.cases[i].key : i \in DOMAIN raw.cases}

\* What parse_junit_report refuses: no case, a case with two outcomes, two
\* cases with one key, suite counts that are not those of the cases.
WellFormed(raw) ==
    /\ raw.cases # <<>>
    /\ raw.suiteCounts
    /\ \A i \in DOMAIN raw.cases : Cardinality(raw.cases[i].outcomes) <= 1
    /\ Cardinality(Keys(raw)) = Len(raw.cases)

\* parse_junit_report
ParseJunitReport(raw) ==
    IF WellFormed(raw)
    THEN [k \in Keys(raw) |->
            ClassifyTestcase(
                (CHOOSE c \in {raw.cases[i] : i \in DOMAIN raw.cases} : c.key = k).outcomes)]
    ELSE NoNodes

\* compare_test_nodes
CompareTestNodes(baseline, final) ==
    LET before == DOMAIN baseline
        after  == DOMAIN final
        both   == before \cap after
    IN [missing           |-> before \ after,
        remainingFailures |-> {k \in both : /\ baseline[k] \in Failing
                                            /\ final[k] # "PASSED"},
        newFailed         |-> {k \in after : final[k] \in Failing},
        newSkipped        |->
            {k \in both : IF baseline[k] \in {"SKIPPED", "XFAIL"}
                          THEN final[k] = "UNKNOWN"
                          ELSE final[k] \in NotRun}
            \cup {k \in after \ before : final[k] \in NotRun}]

\* The reference: what the four lists mean together.  Every baseline test is
\* still there, and every final test passes or was skipped before as well.
RepairedInFull(baseline, final) ==
    /\ DOMAIN baseline \subseteq DOMAIN final
    /\ \A k \in DOMAIN final :
          \/ final[k] = "PASSED"
          \/ /\ k \in DOMAIN baseline
             /\ baseline[k] \in {"SKIPPED", "XFAIL"}
             /\ final[k] \in {"SKIPPED", "XFAIL", "XPASS"}
===============================================================================
