----------------------------- MODULE MCCompletion -----------------------------
(* A small instance of Completion: two tests, final reports that show them     *)
(* repaired (with either exit code), lose one or cannot be parsed, and a       *)
(* document that cites two lines.                                              *)
EXTENDS Completion

Case(k, outcomes) == [key |-> k, outcomes |-> outcomes]

Report(exit, cases) == [exit |-> exit, suiteCounts |-> TRUE, cases |-> cases]

AllPass == <<Case("n1", {}), Case("n2", {})>>

MCReports ==
    [BASELINE |-> {Report(1, <<Case("n1", {"failure"}), Case("n2", {})>>),
                   Report(0, AllPass)},
     FINAL    |-> {Report(0, AllPass),
                   Report(1, AllPass),
                   Report(0, <<Case("n1", {})>>),
                   Report(0, <<Case("n1", {}), Case("n1", {})>>)}]

Workspace(work, other, head) == [work |-> work, other |-> other, head |-> head]

MCWorkspaces ==
    {Workspace("v0", "v0", FALSE), Workspace("v1", "v0", FALSE),
     Workspace("gone", "gone", FALSE), Workspace("v1", "v1", TRUE)}

MCCalls  == {"BASELINE", "FINAL", "INSPECT"}
MCCited  == <<1, 2>>
MCRanges == {<<1, 1>>, <<2, 2>>}

(* Pure algorithms against their references, over all small inputs. *)

NodeSets == UNION {[s -> TestNodeStatus] : s \in SUBSET {"n1", "n2"}}

\* compare_test_nodes finds nothing exactly when the baseline is repaired in full.
ASSUME ComparisonIsSound ==
    \A b \in NodeSets : \A f \in NodeSets :
        LET c == CompareTestNodes(b, f)
        IN (c.missing \cup c.remainingFailures \cup c.newFailed \cup c.newSkipped = {})
              <=> RepairedInFull(b, f)

SmallRanges == {r \in (1..4) \X (1..4) : r[1] <= r[2]}

\* _ranges_cover answers whether every required line is in one of the ranges.
ASSUME SweepIsSound ==
    /\ SweepSound
    /\ \A required \in SmallRanges :
        \A a \in SmallRanges : \A b \in SmallRanges : \A c \in SmallRanges :
            RangesCover(required, {a, b, c}) <=> EveryLineRead(required, {a, b, c})
===============================================================================
