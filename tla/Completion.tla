------------------------------ MODULE Completion ------------------------------
(***************************************************************************)
(* The completion checker (completion.py) with the internal entry of the   *)
(* Gate (gate.py, invoke_internal and invoke_test_verification) and the    *)
(* store methods they use.                                                 *)
(*                                                                         *)
(* A checker is a harness process with a lease token.  In a RUNNING run it *)
(* captures the test baseline; in a VERIFYING run it evaluates the task    *)
(* and records the verdict.  Every capture of the workspace, unit of work  *)
(* and command is a step of its own: in between files are edited, the      *)
(* process stops, or its lease runs out and another process starts over.   *)
(*                                                                         *)
(* The workspace has a file the task may write (work: the code with the    *)
(* tests of a test repair, the deliverable of a code understanding), one   *)
(* it may not (other: the source a document cites), and head, which says   *)
(* that HEAD, the index or a path outside the workspace has changed.  A    *)
(* digest of the workspace is the workspace.  The three internal calls     *)
(* have fixed ids (_internal_call_id: step, tool and arguments), so a call *)
(* is named by what it does.  They are not charged to the budget.          *)
(***************************************************************************)
EXTENDS StateStore, TestReports, ReadRanges

CONSTANTS
    Checkers,       \* harness processes
    Creator,        \* the one that creates the run
    Contents,       \* what a file may hold
    Original,       \* what both files hold when the run starts
    Gone,           \* the content of a file that does not exist
    Workspaces,     \* the states of the workspace that are considered
    Documents,      \* the contents parse_code_understanding_document accepts
    Cited,          \* the range of other that such a document cites
    Ranges,         \* the ranges an agent may read
    Reports,        \* the reports a test command may write, by phase
    MaxEdits,       \* bound: changes of the workspace
    MaxReads,       \* bound: reads of the agent
    MaxFaults       \* bound: failures of storage, and broken audit chains

ASSUME CompletionAssumption ==
    /\ Creator \in Checkers
    /\ {Original, Gone} \subseteq Contents /\ Original # Gone
    /\ Workspaces \subseteq [work : Contents, other : Contents, head : BOOLEAN]
    /\ [work |-> Original, other |-> Original, head |-> FALSE] \in Workspaces
    /\ Documents \subseteq Contents \ {Gone}
    /\ Calls = {"BASELINE", "FINAL", "INSPECT"} /\ Intents = Calls
    /\ \A p \in {"BASELINE", "FINAL"} : \A raw \in Reports[p] :
          \A i \in DOMAIN raw.cases : raw.cases[i].outcomes \subseteq DOMAIN StatusOf
    /\ MaxEdits \in Nat /\ MaxReads \in Nat /\ MaxFaults \in Nat

VARIABLES
    kind,           \* task.kind
    ws,             \* the workspace on disk
    reads,          \* evidence: ranges of other the agent has read, with content
    steps,          \* steps rows the checker has created, by summary
    report,         \* evidence: the TEST_REPORT row of each phase
    tests,          \* test_executions with its nodes, by phase
    completion,     \* completion_results
    ran,            \* history: commands started, by phase
    edits, faults,  \* counters of the bounds
    token,          \* the lease token of each checker
    pc,             \* the step each checker takes next
    mem             \* what each checker holds in memory

factVars    == <<reads, steps, report, tests, completion>>
worldVars   == <<kind, ws, ran, edits, faults>>
checkerVars == <<token, pc, mem>>
vars        == <<storeVars, factVars, worldVars, checkerVars>>

Phases == {"BASELINE", "FINAL"}

NoWorkspace == [work |-> "NONE", other |-> "NONE", head |-> FALSE]

NoReport == [exit |-> 0, suiteCounts |-> FALSE, cases |-> <<>>]

NoExecution == [pre |-> NoWorkspace, post |-> NoWorkspace, exit |-> 0, nodes |-> NoNodes]

NoCompletion == [status |-> "NOT_EVALUATED", on |-> NoWorkspace, doc |-> "NONE",
                 inspected |-> "NONE"]

\* A failed check; the items told apart are evidence_current, which the last
\* step may replace, and all the others.
Failure(item, unverifiable) == [item |-> item, unverifiable |-> unverifiable]

Failures == {Failure(i, u) : i \in {"evidence_current", "other"}, u \in BOOLEAN}

\* The memory of a checker: the internal call it is about, the workspace before
\* and after it, its report, result and observation, whether the snapshot shows
\* the final report as valid, the checks that failed, the document it read and
\* the content it inspected.
Blank ==
    [job |-> "NONE", pre |-> NoWorkspace, post |-> NoWorkspace, raw |-> NoReport,
     result |-> "NONE", valid |-> FALSE, failing |-> {}, doc |-> "NONE",
     inspected |-> "NONE"]

Steps == {"idle", "ensure", "load", "capture", "admit", "prepare", "start", "exec",
          "store", "confirm", "record", "judge", "invalidate", "read",
          "deliverable", "scope", "audit", "verdict"}

Recorded(p) == tests[p] # NoExecution

Holds(w) == VerifyLease(token[w])

Init ==
    /\ StoreInit
    /\ kind \in {"test_repair", "code_understanding"}
    /\ ws = [work |-> Original, other |-> Original, head |-> FALSE]
    /\ reads = {} /\ steps = {}
    /\ report = [p \in Phases |-> "NONE"]
    /\ tests = [p \in Phases |-> NoExecution]
    /\ completion = NoCompletion
    /\ ran = [p \in Phases |-> 0]
    /\ edits = 0 /\ faults = 0
    /\ token = [w \in Checkers |-> IF w = Creator THEN 1 ELSE 0]
    /\ pc = [w \in Checkers |-> "idle"]
    /\ mem = [w \in Checkers |-> Blank]

\* The step of w ends: it goes on at step `to` with memory m.
Goto(w, to, m) ==
    /\ pc' = [pc EXCEPT ![w] = to]
    /\ mem' = [mem EXCEPT ![w] = m]
    /\ UNCHANGED token

\* The operation raises, or returns.
Leave(w) == Goto(w, "idle", Blank)

Add(m, failures) == [m EXCEPT !.failing = @ \cup failures]

\* What an evaluation of the final tests still uses once they are behind it.
Kept(m) == [Blank EXCEPT !.job = m.job, !.valid = m.valid, !.failing = m.failing]

-------------------------------------------------------------------------------
(* Starting an operation *)

\* capture_test_baseline up to the internal step
BeginCapture(w) ==
    /\ pc[w] = "idle" /\ Holds(w)
    /\ kind = "test_repair" /\ runStatus = "RUNNING"
    /\ ~Recorded("BASELINE")
    /\ Goto(w, "ensure", [Blank EXCEPT !.job = "BASELINE"])
    /\ UNCHANGED <<storeVars, factVars, worldVars>>

\* What both evaluations ask for first (_load_preflight)
Preflight(w) == pc[w] = "idle" /\ Holds(w) /\ runStatus = "VERIFYING"

\* evaluate_test_repair up to the internal step: a verdict that is already there
\* is returned.
BeginTestRepair(w) ==
    /\ Preflight(w) /\ kind = "test_repair"
    /\ completion = NoCompletion
    /\ Goto(w, "ensure", [Blank EXCEPT !.job = "FINAL"])
    /\ UNCHANGED <<storeVars, factVars, worldVars>>

\* evaluate_code_understanding up to the internal step: it does not look for a
\* verdict.
BeginCodeUnderstanding(w) ==
    /\ Preflight(w) /\ kind = "code_understanding"
    /\ Goto(w, "ensure", [Blank EXCEPT !.job = "INSPECT"])
    /\ UNCHANGED <<storeVars, factVars, worldVars>>

BeginEvaluation(w) == BeginTestRepair(w) \/ BeginCodeUnderstanding(w)

StepOf(job) == IF job = "BASELINE" THEN "Test baseline capture"
                                   ELSE "Completion verification"

\* create_step
CreateStep(summary) ==
    /\ runStatus \notin TerminalRun
    /\ steps' = steps \cup {summary}

\* _ensure_internal_step: create_step unless there is one with the summary
EnsureInternalStep(w) ==
    LET job == mem[w].job IN
    /\ pc[w] = "ensure" /\ Holds(w)
    /\ IF StepOf(job) \in steps THEN UNCHANGED steps ELSE CreateStep(StepOf(job))
    /\ Goto(w, CASE job = "BASELINE" -> "capture"
                 [] job = "FINAL"    -> "load"
                 [] job = "INSPECT"  -> "read", mem[w])
    /\ UNCHANGED <<storeVars, reads, report, tests, completion, worldVars>>

\* evaluate_test_repair from the baseline to the final execution.  The baseline
\* recorded is stable and of this configuration: the run would not have got it
\* otherwise, and a run of another configuration is refused at the start.
LoadEvaluation(w) ==
    LET failing == \E k \in DOMAIN tests["BASELINE"].nodes :
                        tests["BASELINE"].nodes[k] \in Failing
        loaded  == [mem[w] EXCEPT
                      !.valid   = report["FINAL"] = "VALID",
                      !.failing = IF report["BASELINE"] = "VALID" THEN {}
                                  ELSE {Failure("other", FALSE)}]
    IN
    /\ pc[w] = "load"
    /\ \/ /\ ~Recorded("BASELINE")
          /\ Goto(w, "verdict", Add(mem[w], {Failure("other", TRUE)}))
       \/ /\ Recorded("BASELINE") /\ ~failing
          /\ Goto(w, "verdict", Add(loaded, {Failure("other", FALSE)}))
       \/ /\ Recorded("BASELINE") /\ failing
          /\ Goto(w, IF Recorded("FINAL") THEN "judge" ELSE "capture", loaded)
    /\ UNCHANGED <<storeVars, factVars, worldVars>>

\* capture_checkpoint_workspace before the command
CaptureWorkspace(w) ==
    /\ pc[w] = "capture"
    /\ Goto(w, "admit", [mem[w] EXCEPT !.pre = ws])
    /\ UNCHANGED <<storeVars, factVars, worldVars>>

-------------------------------------------------------------------------------
(* The internal entry of the Gate *)

\* Mutant: any read of the file counts, whatever it held then.
EvidenceReadOnce(content) == RangesCover(Cited, {r.range : r \in reads})

\* The parts of _document_and_evidence_checks about the evidence: the agent has
\* read all of the cited range in the content that was inspected.
EvidenceRead(content) ==
    RangesCover(Cited, {r.range : r \in {q \in reads : q.content = content}})

\* What the checker does with the observation of its call: a baseline that could
\* not be run raises, a final execution decides what kind of verdict is left, and
\* a cited file that could not be inspected is not covered by evidence.
ObservedBaseline(w, obs) ==
    /\ mem[w].job = "BASELINE"
    /\ IF obs = "ALLOWED" THEN Goto(w, "confirm", mem[w]) ELSE Leave(w)

ObservedFinal(w, obs) ==
    /\ mem[w].job = "FINAL"
    /\ IF obs = "ALLOWED"
       THEN Goto(w, "confirm", mem[w])
       ELSE Goto(w, "verdict",
                 Add(Kept(mem[w]), {Failure("other", obs \in {"UNKNOWN_RESULT", "DENIED"})}))

ObservedInspection(w, obs) ==
    /\ mem[w].job = "INSPECT"
    /\ Goto(w, "scope",
            IF obs = "ALLOWED" /\ EvidenceRead(mem[w].inspected)
            THEN mem[w] ELSE Add(mem[w], {Failure("evidence_current", FALSE)}))

Observed(w, obs) ==
    ObservedBaseline(w, obs) \/ ObservedFinal(w, obs) \/ ObservedInspection(w, obs)

\* allowed_statuses of the three calls
MayRun(job) == runStatus = IF job = "BASELINE" THEN "RUNNING" ELSE "VERIFYING"

\* Mutant: a call that was made before ends the evaluation with an error.
AdmitOrRaise(w) ==
    /\ pc[w] = "admit" /\ Holds(w)
    /\ IF MayRun(mem[w].job) /\ callStatus[mem[w].job] \in {"NONE", "PREPARED"}
       THEN Goto(w, "prepare", mem[w])
       ELSE Leave(w)
    /\ UNCHANGED <<storeVars, factVars, worldVars>>

\* _invoke_internal_entry and _invoke_internal_locked up to the intent: a call
\* that has started or ended is never made again.
AdmitInternal(w) ==
    /\ pc[w] = "admit" /\ Holds(w)
    /\ IF MayRun(mem[w].job) /\ callStatus[mem[w].job] \in {"NONE", "PREPARED"}
       THEN Goto(w, "prepare", mem[w])
       ELSE Observed(w, "DENIED")
    /\ UNCHANGED <<storeVars, factVars, worldVars>>

\* _prepare_internal_and_allow
PrepareInternal(w) ==
    /\ pc[w] = "prepare" /\ Holds(w)
    /\ CreateInvocation(mem[w].job, mem[w].job)
    /\ Goto(w, "start", mem[w])
    /\ UNCHANGED <<runStatus, budgetVars, leaseVars, factVars, worldVars>>

\* _mark_started
MarkStarted(w) ==
    /\ pc[w] = "start" /\ Holds(w)
    /\ TransitionInvocation(mem[w].job, "PREPARED", "STARTED")
    /\ Goto(w, "exec", mem[w])
    /\ UNCHANGED <<runStatus, budgetVars, leaseVars, factVars, worldVars>>

\* _TestVerificationExecutor.handler: the command runs to its end and leaves a
\* report, or it cannot be started, or its outcome is not known (killed, no
\* usable report, over the time limit of the tool).  What the tests themselves
\* write is an Edit.
RunTestCommand(w) ==
    LET job == mem[w].job IN
    /\ pc[w] = "exec" /\ job \in Phases
    /\ \/ /\ ran' = [ran EXCEPT ![job] = @ + 1]
          /\ \/ \E raw \in Reports[job] :
                   Goto(w, "store", [mem[w] EXCEPT !.result = "SUCCEEDED", !.raw = raw])
             \/ Goto(w, "store", [mem[w] EXCEPT !.result = "UNKNOWN_RESULT"])
       \/ /\ Goto(w, "store", [mem[w] EXCEPT !.result = "FAILED"])
          /\ UNCHANGED ran
    /\ UNCHANGED <<storeVars, factVars, kind, ws, edits, faults>>

\* The handler of completion_inspect_file, or its time limit passed
InspectFile(w) ==
    /\ pc[w] = "exec" /\ mem[w].job = "INSPECT"
    /\ \/ Goto(w, "store", IF ws.other = Gone
                           THEN [mem[w] EXCEPT !.result = "FAILED"]
                           ELSE [mem[w] EXCEPT !.result = "SUCCEEDED",
                                               !.inspected = ws.other])
       \/ Goto(w, "store", [mem[w] EXCEPT !.result = "UNKNOWN_RESULT"])
    /\ UNCHANGED <<storeVars, factVars, worldVars>>

\* _map_handler_result, the observation of a result
ObservationOf(result) == IF result = "SUCCEEDED" THEN "ALLOWED" ELSE result

\* add_evidence: the test handler hands over its report, and only with a result
\* that is certain.
AddEvidence(m) ==
    report' = IF m.job \in Phases /\ m.result = "SUCCEEDED"
              THEN [report EXCEPT ![m.job] = "VALID"] ELSE report

\* _persist_result: the evidence of the report and the result in one unit
PersistResult(w) ==
    LET m == mem[w] IN
    /\ pc[w] = "store" /\ Holds(w)
    /\ TransitionInvocation(m.job, "STARTED", m.result)
    /\ AddEvidence(m)
    /\ Observed(w, ObservationOf(m.result))
    /\ UNCHANGED <<runStatus, budgetVars, leaseVars, reads, steps, tests, completion,
                   worldVars>>

-------------------------------------------------------------------------------
(* The facts of a test execution *)

\* take, parse_junit_report and the second capture in capture_test_baseline: the
\* command must not have changed the workspace.
ConfirmBaseline(w) ==
    /\ pc[w] = "confirm" /\ mem[w].job = "BASELINE"
    /\ IF ParseJunitReport(mem[w].raw) # NoNodes /\ mem[w].pre = ws
       THEN Goto(w, "record", [mem[w] EXCEPT !.post = ws])
       ELSE Leave(w)
    /\ UNCHANGED <<storeVars, factVars, worldVars>>

\* The memory with the second capture and the snapshot that follows it
Confirmed(m) == [m EXCEPT !.post = ws, !.valid = report["FINAL"] = "VALID"]

\* Mutant: a report that cannot be parsed is taken for one without tests.
ConfirmUnparsed(w) ==
    /\ pc[w] = "confirm" /\ mem[w].job = "FINAL"
    /\ Goto(w, "record", Confirmed(mem[w]))
    /\ UNCHANGED <<storeVars, factVars, worldVars>>

\* The same in evaluate_test_repair, where a change is judged later
ConfirmFinal(w) ==
    /\ pc[w] = "confirm" /\ mem[w].job = "FINAL"
    /\ IF ParseJunitReport(mem[w].raw) # NoNodes
       THEN Goto(w, "record", Confirmed(mem[w]))
       ELSE Goto(w, "verdict", Add(Kept(mem[w]), {Failure("other", TRUE)}))
    /\ UNCHANGED <<storeVars, factVars, worldVars>>

\* record_test_execution.  A second one has another id, so it is never the same
\* record and always refused.
RecordTestExecution(m) ==
    /\ ~Recorded(m.job)
    /\ report[m.job] # "NONE"
    /\ tests' = [tests EXCEPT ![m.job] =
                    [pre |-> m.pre, post |-> m.post, exit |-> m.raw.exit,
                     nodes |-> ParseJunitReport(m.raw)]]

\* record_test_baseline.  The row comes in the same unit as its execution, which
\* stands for both.
RecordTestBaseline == ~Recorded("BASELINE") /\ tests'["BASELINE"] # NoExecution

RecordBaseline(w) ==
    /\ pc[w] = "record" /\ mem[w].job = "BASELINE" /\ Holds(w)
    /\ RecordTestExecution(mem[w])
    /\ RecordTestBaseline
    /\ Leave(w)
    /\ UNCHANGED <<storeVars, reads, steps, report, completion, worldVars>>

RecordFinal(w) ==
    /\ pc[w] = "record" /\ mem[w].job = "FINAL" /\ Holds(w)
    /\ RecordTestExecution(mem[w])
    /\ Goto(w, "judge", Kept(mem[w]))
    /\ UNCHANGED <<storeVars, reads, steps, report, completion, worldVars>>

-------------------------------------------------------------------------------
(* The verdict on a test repair *)

\* Mutant: tests that are no longer there are not missed.
NodesRepairedLoosely ==
    LET c == CompareTestNodes(tests["BASELINE"].nodes, tests["FINAL"].nodes)
    IN c.remainingFailures \cup c.newFailed \cup c.newSkipped = {}

\* The four checks on the comparison
NodesRepaired ==
    LET c == CompareTestNodes(tests["BASELINE"].nodes, tests["FINAL"].nodes)
    IN c.missing \cup c.remainingFailures \cup c.newFailed \cup c.newSkipped = {}

\* _test_workspace_scope: nothing changed outside allow_write, and no file with
\* baseline tests is gone.  HEAD, the index and outer paths are not compared.
TestScope(current) == current.other = Original /\ current.work # Gone

\* Mutant: only the content decides whether the report is current.
ReportMatches(m) == ws = tests["FINAL"].post

\* The report is of the workspace as it is now and has not been invalidated.
ReportCurrent(m) == ws = tests["FINAL"].post /\ m.valid

\* evaluate_test_repair from the final execution to the workspace scope, on one
\* more capture of the workspace
Judge(w) ==
    LET final == tests["FINAL"]
        other == /\ final.exit = 0
                 /\ NodesRepaired
                 /\ final.pre = final.post
                 /\ TestScope(ws)
        checked == Add(mem[w],
                       (IF other THEN {} ELSE {Failure("other", FALSE)})
                       \cup (IF ReportCurrent(mem[w]) THEN {}
                             ELSE {Failure("evidence_current", FALSE)}))
    IN
    /\ pc[w] = "judge"
    /\ Goto(w, IF ReportCurrent(mem[w]) THEN "audit" ELSE "invalidate", checked)
    /\ UNCHANGED <<storeVars, factVars, worldVars>>

\* invalidate_evidence of the final report
InvalidateEvidence ==
    /\ runStatus \notin TerminalRun
    /\ report' = [report EXCEPT !["FINAL"] = "INVALID"]

\* The same in a unit of its own
InvalidateStaleReport(w) ==
    /\ pc[w] = "invalidate" /\ Holds(w)
    /\ InvalidateEvidence
    /\ Goto(w, "audit", mem[w])
    /\ UNCHANGED <<storeVars, reads, steps, tests, completion, worldVars>>

\* verify_chain; that it finds the chain broken is one of the faults
VerifyChain(w) ==
    /\ pc[w] = "audit"
    /\ \/ Goto(w, "verdict", mem[w]) /\ UNCHANGED faults
       \/ /\ faults < MaxFaults
          /\ faults' = faults + 1
          /\ Goto(w, "verdict", Add(mem[w], {Failure("other", TRUE)}))
    /\ UNCHANGED <<storeVars, factVars, kind, ws, ran, edits>>

\* _acceptance_status (_collapse_checks merges by item and keeps every failure)
AcceptanceStatus(failing) ==
    IF failing = {} THEN "ACCEPTED"
    ELSE IF \E f \in failing : f.unverifiable THEN "UNVERIFIABLE" ELSE "REJECTED"

\* Mutant: a later verdict replaces the one recorded.
RecordCompletionAnew(c) ==
    /\ runStatus = "VERIFYING"
    /\ completion' = c

\* record_completion.  A second verdict has another time, so it is never the
\* same record and always refused.
RecordCompletion(c) ==
    /\ completion = NoCompletion
    /\ runStatus = "VERIFYING"
    /\ completion' = c

\* Mutant: the workspace is not captured again.
TestChecksAsJudged(m) == m.failing

\* _replace_check in _persist_test_completion: the workspace is captured once
\* more inside the unit, and a change since the tests fails evidence_current.
FinalChecks(m) ==
    IF Recorded("FINAL") /\ ws # tests["FINAL"].post
    THEN {f \in m.failing : f.item # "evidence_current"}
         \cup {Failure("evidence_current", FALSE)}
    ELSE m.failing

\* _persist_test_completion
PersistTestCompletion(w) ==
    LET stale == Recorded("FINAL") /\ ws # tests["FINAL"].post IN
    /\ pc[w] = "verdict" /\ mem[w].job = "FINAL"
    /\ Holds(w)
    /\ IF stale THEN InvalidateEvidence ELSE UNCHANGED report
    /\ RecordCompletion([status |-> AcceptanceStatus(FinalChecks(mem[w])), on |-> ws,
                         doc |-> "NONE", inspected |-> "NONE"])
    /\ Leave(w)
    /\ UNCHANGED <<storeVars, reads, steps, tests, worldVars>>

-------------------------------------------------------------------------------
(* The verdict on a code understanding *)

\* evaluate_code_understanding: the deliverable exists, is not empty and parses
ReadDeliverable(w) ==
    /\ pc[w] = "read"
    /\ Goto(w, "deliverable",
            Add([mem[w] EXCEPT !.doc = ws.work],
                IF ws.work \in Documents THEN {} ELSE {Failure("other", FALSE)}))
    /\ UNCHANGED <<storeVars, factVars, worldVars>>

\* _deliverable_checks, on a second read of the deliverable, and what decides in
\* _document_and_evidence_checks whether the cited file is inspected
DeliverableChecks(w) ==
    /\ pc[w] = "deliverable"
    /\ Goto(w, IF mem[w].doc \in Documents THEN "admit" ELSE "scope",
            Add(mem[w], IF ws.work \notin {Gone, Original} THEN {}
                        ELSE {Failure("other", FALSE)}))
    /\ UNCHANGED <<storeVars, factVars, worldVars>>

\* _workspace_checks
WorkspaceChecks(w) ==
    /\ pc[w] = "scope"
    /\ Goto(w, "audit", Add(mem[w], IF ~ws.head /\ ws.other = Original THEN {}
                                    ELSE {Failure("other", FALSE)}))
    /\ UNCHANGED <<storeVars, factVars, worldVars>>

\* _persist_completion: what was checked is recorded as it was found then
PersistCompletion(w) ==
    /\ pc[w] = "verdict" /\ mem[w].job = "INSPECT"
    /\ Holds(w)
    /\ RecordCompletion([status |-> AcceptanceStatus(mem[w].failing), on |-> ws,
                         doc |-> mem[w].doc, inspected |-> mem[w].inspected])
    /\ Leave(w)
    /\ UNCHANGED <<storeVars, reads, steps, report, tests, worldVars>>

-------------------------------------------------------------------------------
(* Failures *)

\* A unit of work is refused by the store although the lease is held.
Refused(w) ==
    LET job == mem[w].job IN
    \/ /\ pc[w] = "prepare"
       /\ callStatus[job] # "NONE" \/ runStatus \in TerminalRun
    \/ pc[w] = "start" /\ callStatus[job] # "PREPARED"
    \/ pc[w] = "store" /\ callStatus[job] # "STARTED"
    \/ pc[w] = "record" /\ Recorded(job)
    \/ pc[w] = "verdict" /\ (completion # NoCompletion \/ runStatus # "VERIFYING")

\* The exception handlers around the units: the operation raises, the Gate
\* denies the call, or the checker goes on with a failed check.
UnitAborts(w) ==
    LET m == mem[w] IN
    \/ /\ pc[w] \in {"ensure", "admit", "verdict"}
       /\ Leave(w)
    \/ /\ pc[w] \in {"prepare", "start", "store"}
       /\ Observed(w, "DENIED")
    \/ /\ pc[w] = "record" /\ m.job = "BASELINE"
       /\ Leave(w)
    \/ /\ pc[w] = "record" /\ m.job = "FINAL"
       /\ Goto(w, "verdict", Add(Kept(m), {Failure("other", TRUE)}))
    \/ /\ pc[w] = "invalidate"
       /\ Goto(w, "audit", Add(m, {Failure("evidence_current", TRUE)}))

\* The lease is lost or the store refuses.
UnitFails(w) ==
    /\ ~Holds(w) \/ Refused(w)
    /\ UnitAborts(w)
    /\ UNCHANGED <<storeVars, factVars, worldVars>>

\* The database or the disk fails.
UnitFaults(w) ==
    /\ faults < MaxFaults
    /\ faults' = faults + 1
    /\ UnitAborts(w)
    /\ UNCHANGED <<storeVars, factVars, kind, ws, ran, edits>>

-------------------------------------------------------------------------------
(* The harness around the checker *)

\* The driver of the run moves it on (transition_run); a COMPLETED run needs a
\* verdict.  Of the moves that end a run FAILED stands for all.
MoveRun(w, to) ==
    /\ pc[w] = "idle" /\ Holds(w)
    /\ to \in {"RUNNING", "VERIFYING", "COMPLETED", "FAILED"}
    /\ to = "COMPLETED" => completion.status \in TerminalAcceptance
    /\ TransitionRun(runStatus, to)
    /\ UNCHANGED <<callVars, budgetVars, leaseVars, factVars, worldVars, checkerVars>>

\* The agent reads a range of the cited file through the Gate.
AgentReads(range) ==
    /\ kind = "code_understanding" /\ runStatus = "RUNNING"
    /\ ws.other # Gone
    /\ Cardinality(reads) < MaxReads
    /\ reads' = reads \cup {[content |-> ws.other, range |-> range]}
    /\ UNCHANGED <<storeVars, steps, report, tests, completion, worldVars, checkerVars>>

\* The agent, the tests or anyone else changes files or the repository.  After
\* the verdict nothing reads the workspace any more for another one.
Edit(new) ==
    /\ edits < MaxEdits
    /\ runStatus \in {"RUNNING", "VERIFYING"} /\ completion = NoCompletion
    /\ ws # new
    /\ edits' = edits + 1
    /\ ws' = new
    /\ UNCHANGED <<storeVars, factVars, kind, ran, faults, checkerVars>>

\* The process stops and comes back without memory or token.  Like Expire it is
\* bounded by the leases that are left for somebody to go on with.
Crash(w) ==
    /\ leasesIssued < MaxLeases
    /\ token[w] # 0
    /\ token' = [token EXCEPT ![w] = 0]
    /\ pc' = [pc EXCEPT ![w] = "idle"]
    /\ mem' = [mem EXCEPT ![w] = Blank]
    /\ UNCHANGED <<storeVars, factVars, worldVars>>

\* acquire_lease
Acquire(w) ==
    /\ pc[w] = "idle" /\ runStatus \notin TerminalRun
    /\ AcquireLease(leasesIssued + 1)
    /\ token' = [token EXCEPT ![w] = leasesIssued']
    /\ UNCHANGED <<runStatus, callVars, budgetVars, factVars, worldVars, pc, mem>>

Expire ==
    /\ leasesIssued < MaxLeases
    /\ LeaseExpires
    /\ UNCHANGED <<runStatus, callVars, budgetVars, factVars, worldVars, checkerVars>>

\* The lease of a process that has stopped is not renewed.
OrphanedLeaseExpires == (\A w \in Checkers : token[w] # leaseToken) /\ Expire

-------------------------------------------------------------------------------
\* A step of an operation under way
Work(w) ==
    \/ EnsureInternalStep(w) \/ LoadEvaluation(w) \/ CaptureWorkspace(w)
    \/ AdmitInternal(w) \/ PrepareInternal(w) \/ MarkStarted(w)
    \/ RunTestCommand(w) \/ InspectFile(w) \/ PersistResult(w)
    \/ ConfirmBaseline(w) \/ RecordBaseline(w)
    \/ ConfirmFinal(w) \/ RecordFinal(w)
    \/ Judge(w) \/ InvalidateStaleReport(w) \/ VerifyChain(w)
    \/ PersistTestCompletion(w)
    \/ ReadDeliverable(w) \/ DeliverableChecks(w) \/ WorkspaceChecks(w)
    \/ PersistCompletion(w)
    \/ UnitFails(w)

Next ==
    \/ \E w \in Checkers :
          \/ BeginCapture(w) \/ BeginEvaluation(w) \/ Work(w) \/ UnitFaults(w)
          \/ Crash(w) \/ Acquire(w)
          \/ \E to \in RunStatus : MoveRun(w, to)
    \/ \E r \in Ranges : AgentReads(r)
    \/ \E new \in Workspaces : Edit(new)
    \/ Expire

\* An operation that has begun goes on, a process keeps trying to take an
\* abandoned run over and to evaluate it, and a lease nobody renews runs out.
Fairness ==
    /\ \A w \in Checkers : /\ WF_vars(Work(w))
                           /\ WF_vars(BeginEvaluation(w))
                           /\ WF_vars(Acquire(w))
    /\ WF_vars(OrphanedLeaseExpires)

Spec == Init /\ [][Next]_vars /\ Fairness

-------------------------------------------------------------------------------
(* Properties *)

\* Type invariant of the completion records and of every checker's memory.
CompletionTypeOK ==
    /\ StoreTypeOK
    /\ kind \in {"test_repair", "code_understanding"}
    /\ ws \in Workspaces
    /\ reads \subseteq [content : Contents, range : Ranges]
    /\ steps \subseteq {StepOf(j) : j \in Calls}
    /\ report \in [Phases -> {"NONE", "VALID", "INVALID"}]
    /\ DOMAIN tests = Phases
    /\ \A p \in Phases : Recorded(p) =>
          /\ tests[p].pre \in Workspaces /\ tests[p].post \in Workspaces
          /\ tests[p].nodes # NoNodes
          /\ report[p] # "NONE"
    /\ completion.status \in TerminalAcceptance \cup {"NOT_EVALUATED"}
    /\ ran \in [Phases -> Nat]
    /\ edits \in 0..MaxEdits /\ faults \in 0..MaxFaults
    /\ token \in [Checkers -> {0} \cup Tokens]
    /\ pc \in [Checkers -> Steps]
    /\ \A w \in Checkers :
          /\ mem[w].job \in Calls \cup {"NONE"}
          /\ mem[w].failing \subseteq Failures
          /\ pc[w] # "idle" => mem[w].job # "NONE"
          /\ pc[w] = "judge" => Recorded("BASELINE") /\ Recorded("FINAL")

AcceptedRepair == kind = "test_repair" /\ completion.status = "ACCEPTED"

\* A test repair is accepted for the very workspace the final tests ran on: what
\* was there before them, after them and when the verdict was written is the
\* same, within the scope the task may write.  (The verdict comes several steps
\* after the tests, and re-uses a recorded execution after a crash.)
AcceptedAsTested ==
    AcceptedRepair =>
        /\ completion.on = tests["FINAL"].pre
        /\ completion.on = tests["FINAL"].post
        /\ completion.on.other = Original /\ completion.on.work # Gone

\* An accepted test repair had something to repair and repaired it in full, by
\* the reference definition: no baseline test was lost, and every final test
\* passes unless it was skipped from the start.
AcceptedRepairIsComplete ==
    AcceptedRepair =>
        /\ \E k \in DOMAIN tests["BASELINE"].nodes : tests["BASELINE"].nodes[k] \in Failing
        /\ RepairedInFull(tests["BASELINE"].nodes, tests["FINAL"].nodes)

\* An accepted test repair rests on a report that no evaluation, also not one
\* that crashed before its verdict, has ever found stale: invalidation is for
\* good even if the workspace returns to what the report was about.
AcceptedEvidenceStands == AcceptedRepair => report["FINAL"] = "VALID"

\* An accepted code understanding cites only lines that the agent has read, in
\* the content the checker inspected.
AcceptedDocumentWasRead ==
    kind = "code_understanding" /\ completion.status = "ACCEPTED" =>
        \A l \in Lines(Cited) :
            \E r \in reads : r.content = completion.inspected /\ l \in Lines(r.range)

\* _ranges_cover says yes only if every cited line is in one of the ranges.  It
\* folds over a sorted sequence, so this is evaluated by TLC and not proved.
SweepSound ==
    \A S \in SUBSET Ranges : RangesCover(Cited, S) => EveryLineRead(Cited, S)

\* The checker implements Acceptance: each command starts at most once, one
\* verdict is given and never changes, and acceptance comes after both commands.
AcceptanceSpec == INSTANCE Acceptance WITH verdict <- completion.status

ImplementsAcceptance == AcceptanceSpec!Spec

\* A run that is being verified gets a verdict unless it is moved on: no crash,
\* lost lease or failed unit leaves it unverified for ever.
VerdictReached ==
    runStatus = "VERIFYING" ~>
        (completion.status \in TerminalAcceptance \/ runStatus # "VERIFYING")

===============================================================================
