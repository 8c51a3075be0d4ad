------------------------------ MODULE Acceptance ------------------------------
(***************************************************************************)
(* What completion checking promises to the rest of the harness: each of   *)
(* the two verification commands starts at most once in the life of a run, *)
(* and the run gets at most one verdict, given once and never revised.  An *)
(* accepting verdict of a test repair comes after both commands have run.  *)
(* A command of a process that has lost the run may still start after      *)
(* another process gave the (then negative) verdict.                       *)
(***************************************************************************)
EXTENDS Domain, Naturals

VARIABLES
    kind,       \* the task: test_repair or code_understanding
    ran,        \* how often each verification command has been started
    verdict     \* the acceptance status of the run

vars == <<kind, ran, verdict>>

Phases == {"BASELINE", "FINAL"}

Init ==
    /\ kind \in {"test_repair", "code_understanding"}
    /\ ran = [p \in Phases |-> 0]
    /\ verdict = "NOT_EVALUATED"

RunTests(p) ==
    /\ kind = "test_repair"
    /\ ran[p] = 0
    /\ ran' = [ran EXCEPT ![p] = 1]
    /\ UNCHANGED <<kind, verdict>>

Decide(v) ==
    /\ verdict = "NOT_EVALUATED"
    /\ v = "ACCEPTED" /\ kind = "test_repair" => \A p \in Phases : ran[p] = 1
    /\ verdict' = v
    /\ UNCHANGED <<kind, ran>>

Next ==
    \/ \E p \in Phases : RunTests(p)
    \/ \E v \in TerminalAcceptance : Decide(v)

Spec == Init /\ [][Next]_vars
===============================================================================
