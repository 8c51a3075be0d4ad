--------------------------- MODULE CompletionProofs ---------------------------
(***************************************************************************)
(* Proofs about Completion, for every set of checkers, workspaces and      *)
(* reports and every number of leases, edits and faults.  The invariant    *)
(* says what each checker may rely on at the step it has come to, and that *)
(* what it relies on (a recorded execution, a command that has run, a read *)
(* of the agent) is never taken back while it is under way.                *)
(***************************************************************************)
EXTENDS Completion, TLAPS

Space == Workspaces \cup {NoWorkspace}

RawReports == {NoReport} \cup UNION {Reports[p] : p \in Phases}

Parsed == {NoNodes} \cup {ParseJunitReport(raw) : raw \in RawReports}

Execution ==
    [pre : Space, post : Space, exit : {raw.exit : raw \in RawReports}, nodes : Parsed]

Text == Contents \cup {"NONE"}

Memory ==
    [job : Calls \cup {"NONE"}, pre : Space, post : Space, raw : RawReports,
     result : TerminalInvocation \cup {"NONE"}, valid : BOOLEAN,
     failing : SUBSET Failures, doc : Text, inspected : Text]

Verdict == [status : TerminalAcceptance \cup {"NOT_EVALUATED"}, on : Space, doc : Text,
            inspected : Text]

Typed ==
    /\ StoreTypeOK
    /\ kind \in {"test_repair", "code_understanding"}
    /\ ws \in Workspaces
    /\ reads \subseteq [content : Contents, range : Ranges]
    /\ steps \subseteq {StepOf(j) : j \in Calls}
    /\ report \in [Phases -> {"NONE", "VALID", "INVALID"}]
    /\ tests \in [Phases -> Execution]
    /\ completion \in Verdict
    /\ ran \in [Phases -> Nat]
    /\ edits \in 0..MaxEdits /\ faults \in 0..MaxFaults
    /\ token \in [Checkers -> {0} \cup Tokens]
    /\ pc \in [Checkers -> Steps]
    /\ mem \in [Checkers -> Memory]

\* The token of the lease row, live or not
Leads(w) == token[w] # 0 /\ token[w] = leaseToken

\* A token is given to one checker, and no later one is out yet.
TokensAreUnique ==
    /\ leaseToken <= leasesIssued
    /\ \A w \in Checkers : token[w] <= leasesIssued
    /\ \A v, w \in Checkers : token[v] = token[w] /\ token[v] # 0 => v = w

\* Where a checker can be with each of the three jobs
CallSteps == {"admit", "prepare", "start", "exec", "store"}

StepsOf(job) ==
    IF job = "BASELINE" THEN {"ensure", "capture", "confirm", "record"} \cup CallSteps
    ELSE IF job = "FINAL"
         THEN {"ensure", "load", "capture", "confirm", "record", "judge", "invalidate", "audit",
               "verdict"} \cup CallSteps
    ELSE IF job = "INSPECT"
         THEN {"ensure", "read", "deliverable", "scope", "audit", "verdict"} \cup CallSteps
    ELSE {"idle"}

KindOf(job) == IF job = "INSPECT" THEN "code_understanding" ELSE "test_repair"

BaselineFails ==
    /\ Recorded("BASELINE")
    /\ \E k \in DOMAIN tests["BASELINE"].nodes : tests["BASELINE"].nodes[k] \in Failing

\* What an accepting judgement has found
Repaired ==
    /\ BaselineFails /\ Recorded("FINAL")
    /\ NodesRepaired
    /\ tests["FINAL"].pre = tests["FINAL"].post
    /\ TestScope(tests["FINAL"].post)

\* As far as the sweep is sound, every cited line was read in this content.
DocumentRead(content) ==
    SweepSound =>
       \A l \in Lines(Cited) : \E r \in reads : r.content = content /\ l \in Lines(r.range)

\* What a checker at step p knows of its command.
CommandKnown(p, m) ==
    m.job \in Phases =>
       /\ p = "exec" => ran[m.job] = 0 /\ callStatus[m.job] \notin {"NONE", "PREPARED"}
       /\ p \in {"confirm", "record"} \/ (p = "store" /\ m.result = "SUCCEEDED") =>
             ran[m.job] = 1
       /\ p \in CallSteps \cup {"confirm", "record"} => m.pre \in Workspaces
       /\ p = "record" => m.post \in Workspaces /\ ParseJunitReport(m.raw) # NoNodes

\* What it knows of the tests when it is about the final ones.
RepairKnown(p, m) ==
    m.job = "FINAL" =>
       /\ p \in CallSteps \cup {"capture", "confirm", "record", "judge"} => BaselineFails
       /\ p = "judge" => Recorded("FINAL")
       /\ p = "invalidate" => m.failing # {}
       /\ p \in {"audit", "verdict"} /\ m.failing = {} => Repaired /\ m.valid

\* What it knows of the document.
DocumentKnown(p, m) ==
    m.job = "INSPECT" /\ m.failing = {} =>
       /\ p = "deliverable" => m.doc \in Documents
       /\ p \in {"scope", "audit", "verdict"} => DocumentRead(m.inspected)

Sound(p, m) ==
    /\ p \in StepsOf(m.job)
    /\ p = "idle" => m = Blank
    /\ m.job # "NONE" => kind = KindOf(m.job)
    /\ CommandKnown(p, m) /\ RepairKnown(p, m) /\ DocumentKnown(p, m)

\* Nothing a checker may rely on is taken back.
Grows ==
    /\ kind' = kind /\ reads \subseteq reads'
    /\ \A p \in Phases :
          /\ Recorded(p) => tests'[p] = tests[p]
          /\ ran[p] = 1 => ran'[p] = 1
          /\ callStatus[p] \notin {"NONE", "PREPARED"} =>
                callStatus'[p] \notin {"NONE", "PREPARED"}

\* A command starts once: it has not while its call has not, and one checker is
\* about to start it.
RanOnce ==
    \A p \in Phases :
       /\ ran[p] \in {0, 1}
       /\ callStatus[p] \in {"NONE", "PREPARED"} => ran[p] = 0
       /\ Recorded(p) => ran[p] = 1

OneStarts ==
    \A v, w \in Checkers :
       /\ pc[v] = "exec" /\ pc[w] = "exec"
       /\ mem[v].job = mem[w].job /\ mem[v].job \in Phases
       => v = w

\* A recorded execution has nodes and an evidence row.
RecordsAreComplete ==
    \A p \in Phases : Recorded(p) =>
       /\ tests[p].pre \in Workspaces /\ tests[p].post \in Workspaces
       /\ tests[p].nodes # NoNodes
       /\ report[p] # "NONE"

\* The checker with the lease has not missed an invalidation of the report.
ValidityIsCurrent ==
    \A w \in Checkers : Leads(w) /\ mem[w].valid /\ mem[w].failing = {} =>
       report["FINAL"] = "VALID"

\* Nobody with the lease judges a repair that has its verdict.
VerdictEndsJudging ==
    completion # NoCompletion =>
       \A w \in Checkers : Leads(w) => mem[w].job # "FINAL"

\* The verdict rests on what was judged.
VerdictIsFounded ==
    /\ completion.status = "NOT_EVALUATED" => completion = NoCompletion
    /\ completion.status = "ACCEPTED" /\ kind = "test_repair" =>
          Repaired /\ completion.on = tests["FINAL"].post /\ report["FINAL"] = "VALID"
    /\ completion.status = "ACCEPTED" /\ kind = "code_understanding" =>
          DocumentRead(completion.inspected)

CompletionInv ==
    /\ Typed /\ TokensAreUnique
    /\ \A w \in Checkers : Sound(pc[w], mem[w])
    /\ RanOnce /\ OneStarts /\ RecordsAreComplete
    /\ ValidityIsCurrent /\ VerdictEndsJudging /\ VerdictIsFounded

-------------------------------------------------------------------------------
(* Reports *)

\* _classify_testcase gives one of the statuses.
LEMMA ClassifyTyped ==
    ASSUME NEW outcomes \in SUBSET DOMAIN StatusOf
    PROVE  ClassifyTestcase(outcomes) \in TestNodeStatus
<1>1. \A o \in DOMAIN StatusOf : StatusOf[o] \in TestNodeStatus
  BY DEF StatusOf, TestNodeStatus
<1>2. CASE outcomes = {}
  BY <1>2 DEF ClassifyTestcase, TestNodeStatus
<1>3. CASE outcomes # {}
  BY <1>1, <1>3 DEF ClassifyTestcase
<1> QED
  BY <1>2, <1>3

\* Every node of a parsed report has a status.
LEMMA ParsedTyped ==
    ASSUME NEW nodes \in Parsed, NEW k \in DOMAIN nodes
    PROVE  nodes[k] \in TestNodeStatus
<1>1. CASE nodes = NoNodes
  BY <1>1 DEF NoNodes
<1>2. CASE nodes # NoNodes
  <2>1. PICK raw \in RawReports : nodes = ParseJunitReport(raw)
    BY <1>2 DEF Parsed
  <2>2. WellFormed(raw)
    BY <1>2, <2>1 DEF ParseJunitReport
  <2>3. raw # NoReport
    BY <2>2 DEF WellFormed, NoReport
  <2>4. \A i \in DOMAIN raw.cases : raw.cases[i].outcomes \subseteq DOMAIN StatusOf
    BY <2>3, CompletionAssumption DEF RawReports, Phases
  <2> DEFINE cases == {raw.cases[i] : i \in DOMAIN raw.cases}
             c(j) == CHOOSE x \in cases : x.key = j
  <2>5. nodes = [j \in Keys(raw) |-> ClassifyTestcase(c(j).outcomes)]
    BY <2>1, <2>2 DEF ParseJunitReport
  <2>6. k \in Keys(raw)
    BY <2>5
  <2>7. \E x \in cases : x.key = k
    BY <2>6 DEF Keys
  <2>8. c(k) \in cases
    BY <2>7
  <2>9. c(k).outcomes \in SUBSET DOMAIN StatusOf
    BY <2>4, <2>8
  <2> HIDE DEF c
  <2>10. ClassifyTestcase(c(k).outcomes) \in TestNodeStatus
    BY <2>9, ClassifyTyped
  <2> QED
    BY <2>5, <2>6, <2>10
<1> QED
  BY <1>1, <1>2

\* compare_test_nodes finds nothing only if the baseline is repaired in full.
LEMMA ComparisonSound ==
    ASSUME NEW baseline, NEW final \in Parsed,
           LET c == CompareTestNodes(baseline, final)
           IN c.missing \cup c.remainingFailures \cup c.newFailed \cup c.newSkipped = {}
    PROVE  RepairedInFull(baseline, final)
<1> DEFINE c == CompareTestNodes(baseline, final)
<1>1. c.missing = {} /\ c.newFailed = {} /\ c.newSkipped = {}
  OBVIOUS
<1>2. DOMAIN baseline \subseteq DOMAIN final
  BY <1>1 DEF CompareTestNodes
<1>3. ASSUME NEW k \in DOMAIN final
      PROVE  \/ final[k] = "PASSED"
             \/ /\ k \in DOMAIN baseline
                /\ baseline[k] \in {"SKIPPED", "XFAIL"}
                /\ final[k] \in {"SKIPPED", "XFAIL", "XPASS"}
  <2>1. final[k] \in TestNodeStatus
    BY ParsedTyped
  <2>2. final[k] \notin Failing
    BY <1>1 DEF CompareTestNodes
  <2>3. CASE k \in DOMAIN baseline
    <3>1. ~(IF baseline[k] \in {"SKIPPED", "XFAIL"} THEN final[k] = "UNKNOWN"
            ELSE final[k] \in NotRun)
      BY <1>1, <2>3 DEF CompareTestNodes
    <3> QED
      BY <2>1, <2>2, <2>3, <3>1 DEF TestNodeStatus, Failing, NotRun
  <2>4. CASE k \notin DOMAIN baseline
    <3>1. final[k] \notin NotRun
      BY <1>1, <2>4 DEF CompareTestNodes
    <3> QED
      BY <2>1, <2>2, <3>1 DEF TestNodeStatus, Failing, NotRun
  <2> QED
    BY <2>3, <2>4
<1> QED
  BY <1>2, <1>3 DEF RepairedInFull

\* compare_test_nodes, for all parsed reports: the four lists are empty exactly when
\* every baseline test is still there and every final test passes or was skipped before.
THEOREM ComparisonIsExact ==
    ASSUME NEW baseline \in Parsed, NEW final \in Parsed
    PROVE  LET c == CompareTestNodes(baseline, final)
           IN c.missing \cup c.remainingFailures \cup c.newFailed \cup c.newSkipped = {}
                <=> RepairedInFull(baseline, final)
<1> DEFINE c == CompareTestNodes(baseline, final)
<1>1. ASSUME RepairedInFull(baseline, final)
      PROVE  /\ c.missing = {} /\ c.remainingFailures = {}
             /\ c.newFailed = {} /\ c.newSkipped = {}
  BY <1>1 DEF CompareTestNodes, RepairedInFull, Failing, NotRun
<1> QED
  BY <1>1, ComparisonSound

-------------------------------------------------------------------------------
(* The memory of a checker *)

\* An operation begins with a blank memory and its job.
LEMMA BlankTyped ==
    /\ Blank \in Memory /\ Blank.job = "NONE" /\ Blank.failing = {} /\ Blank.valid = FALSE
    /\ \A j \in Calls : /\ [Blank EXCEPT !.job = j] \in Memory
                        /\ [Blank EXCEPT !.job = j].job = j
                        /\ [Blank EXCEPT !.job = j].failing = {}
                        /\ [Blank EXCEPT !.job = j].valid = FALSE
<1>1. NoReport \in RawReports /\ NoWorkspace \in Space /\ "NONE" \in Text
  BY DEF RawReports, Space, Text
<1>2. Blank \in Memory
  BY <1>1 DEF Blank, Memory
<1> QED
  BY <1>1, <1>2 DEF Blank, Memory

\* A check is added, and all the rest is kept.
LEMMA AddTyped ==
    ASSUME NEW m \in Memory, NEW F \in SUBSET Failures
    PROVE  /\ Add(m, F) \in Memory
           /\ Add(m, F).failing = m.failing \cup F
           /\ Add(m, F).job = m.job /\ Add(m, F).valid = m.valid
           /\ Add(m, F).doc = m.doc /\ Add(m, F).inspected = m.inspected
           /\ Add(m, F).pre = m.pre /\ Add(m, F).post = m.post
           /\ Add(m, F).raw = m.raw /\ Add(m, F).result = m.result
  BY DEF Add, Memory

\* What is kept of the final tests.
LEMMA KeptTyped ==
    ASSUME NEW m \in Memory
    PROVE  /\ Kept(m) \in Memory /\ Kept(m).job = m.job /\ Kept(m).valid = m.valid
           /\ Kept(m).failing = m.failing
  BY BlankTyped, ZenonT(40) DEF Kept, Memory, Blank, RawReports, Space, Text

\* A failed check is one.
LEMMA FailureTyped ==
    \A u \in BOOLEAN : Failure("other", u) \in Failures /\ Failure("evidence_current", u) \in Failures
  BY DEF Failures

\* An evaluation of the final tests that has failed keeps its job and the failure.
LEMMA FailedTyped ==
    ASSUME NEW n \in Memory, NEW u \in BOOLEAN
    PROVE  /\ Add(Kept(n), {Failure("other", u)}) \in Memory
           /\ Add(Kept(n), {Failure("other", u)}).job = n.job
           /\ Add(Kept(n), {Failure("other", u)}).failing # {}
<1> DEFINE F == {Failure("other", u)}
           k == Kept(n)
<1>1. F \in SUBSET Failures /\ F # {}
  BY FailureTyped
<1>2. k \in Memory /\ k.job = n.job
  BY KeptTyped
<1> HIDE DEF F, k
<1>3. Add(k, F) \in Memory /\ Add(k, F).job = n.job /\ Add(k, F).failing # {}
  BY <1>1, <1>2, AddTyped
<1> QED
  BY <1>3 DEF F, k

\* A checker's step changes its own place and memory.
LEMMA GotoTyped ==
    ASSUME Typed, NEW w \in Checkers, NEW to \in Steps, NEW m \in Memory, Goto(w, to, m)
    PROVE  /\ pc' \in [Checkers -> Steps] /\ mem' \in [Checkers -> Memory]
           /\ token' = token /\ pc'[w] = to /\ mem'[w] = m
           /\ \A v \in Checkers \ {w} : pc'[v] = pc[v] /\ mem'[v] = mem[v]
  BY DEF Typed, Goto

-------------------------------------------------------------------------------
(* What is never taken back *)

\* A judgement stands.
LEMMA RepairedGrows ==
    ASSUME Grows
    PROVE  /\ BaselineFails => BaselineFails'
           /\ Recorded("FINAL") => Recorded("FINAL")'
           /\ Repaired => Repaired'
<1>1. \A p \in Phases : Recorded(p) => tests'[p] = tests[p] /\ tests'[p] # NoExecution
  BY DEF Grows, Recorded
<1>2. /\ Recorded("BASELINE") => tests'["BASELINE"] = tests["BASELINE"]
                                 /\ tests'["BASELINE"] # NoExecution
      /\ Recorded("FINAL") => tests'["FINAL"] = tests["FINAL"] /\ tests'["FINAL"] # NoExecution
  BY <1>1 DEF Phases
<1> QED
  BY <1>2 DEF Repaired, BaselineFails, NodesRepaired, TestScope, Recorded

\* What the agent has read stays read.
LEMMA DocumentGrows ==
    ASSUME Grows, NEW content, DocumentRead(content)
    PROVE  DocumentRead(content)'
  BY DEF Grows, DocumentRead

\* A checker that is at step p with memory m relies on nothing that goes away.
LEMMA SoundGrows ==
    ASSUME Grows, NEW w \in Checkers, NEW p, NEW m, pc'[w] = p, mem'[w] = m, Sound(p, m),
           p = "exec" /\ m.job \in Phases => ran'[m.job] = 0
    PROVE  Sound(pc[w], mem[w])'
<1>1. CommandKnown(pc[w], mem[w])'
  BY DEF Sound, CommandKnown, Grows
<1>2. RepairKnown(pc[w], mem[w])'
  BY RepairedGrows DEF Sound, RepairKnown
<1>3. DocumentKnown(pc[w], mem[w])'
  BY DEF Sound, DocumentKnown, DocumentRead, Grows
<1> QED
  BY <1>1, <1>2, <1>3 DEF Sound, Grows

\* A step of one checker keeps the invariant if nothing is taken back, the checker
\* knows what it must at its next step, and the facts agree.
LEMMA StepInv ==
    ASSUME CompletionInv, Grows, Typed',
           NEW w \in Checkers, NEW to \in Steps, NEW m \in Memory, Goto(w, to, m),
           Sound(pc[w], mem[w])', UNCHANGED leaseVars,
           \A v \in Checkers \ {w} :
              pc[v] = "exec" /\ mem[v].job \in Phases => ran'[mem[v].job] = 0,
           RanOnce', OneStarts', RecordsAreComplete', ValidityIsCurrent', VerdictEndsJudging',
           VerdictIsFounded'
    PROVE  CompletionInv'
<1>1. /\ token' = token
      /\ \A v \in Checkers \ {w} : pc'[v] = pc[v] /\ mem'[v] = mem[v]
  BY GotoTyped DEF CompletionInv
<1>2. ASSUME NEW v \in Checkers \ {w} PROVE Sound(pc[v], mem[v])'
  <2>1. Sound(pc[v], mem[v]) /\ pc'[v] = pc[v] /\ mem'[v] = mem[v]
    BY <1>1, <1>2 DEF CompletionInv
  <2> QED
    BY <2>1, SoundGrows
<1>3. TokensAreUnique'
  BY <1>1 DEF CompletionInv, TokensAreUnique, leaseVars
<1> QED
  BY <1>2, <1>3 DEF CompletionInv

\* The same for a checker that knows now what it needs next and is not about to
\* start a command.
LEMMA StepKeeps ==
    ASSUME CompletionInv, Grows, Typed',
           NEW w \in Checkers, NEW to \in Steps, NEW m \in Memory, Goto(w, to, m),
           Sound(to, m), to # "exec", UNCHANGED leaseVars,
           \A v \in Checkers \ {w} :
              pc[v] = "exec" /\ mem[v].job \in Phases => ran'[mem[v].job] = 0,
           RanOnce', RecordsAreComplete', ValidityIsCurrent', VerdictEndsJudging',
           VerdictIsFounded'
    PROVE  CompletionInv'
<1>1. /\ token' = token /\ pc'[w] = to /\ mem'[w] = m
      /\ \A v \in Checkers \ {w} : pc'[v] = pc[v] /\ mem'[v] = mem[v]
  BY GotoTyped DEF CompletionInv
<1>2. Sound(pc[w], mem[w])'
  BY <1>1, SoundGrows
<1>3. OneStarts'
  BY <1>1 DEF CompletionInv, OneStarts
<1> QED
  BY <1>2, <1>3, StepInv

\* A step that changes nothing but the place and memory of a checker, and perhaps
\* the rows of steps.
LEMMA MoveKeeps ==
    ASSUME CompletionInv, NEW w \in Checkers, NEW to \in Steps, NEW m \in Memory,
           Goto(w, to, m), Sound(to, m), to # "exec",
           UNCHANGED <<storeVars, reads, report, tests, completion, kind, ws, ran, edits>>,
           steps' \subseteq {StepOf(j) : j \in Calls}, faults' \in 0..MaxFaults,
           m.valid /\ m.failing = {} =>
              (mem[w].valid /\ mem[w].failing = {}) \/ report["FINAL"] = "VALID",
           m.job = "FINAL" => mem[w].job = "FINAL" \/ completion = NoCompletion
    PROVE  CompletionInv'
<1>1. /\ pc' \in [Checkers -> Steps] /\ mem' \in [Checkers -> Memory]
      /\ token' = token /\ pc'[w] = to /\ mem'[w] = m
      /\ \A v \in Checkers \ {w} : pc'[v] = pc[v] /\ mem'[v] = mem[v]
  BY GotoTyped DEF CompletionInv
<1>2. Typed'
  BY <1>1 DEF CompletionInv, Typed, StoreTypeOK, storeVars, callVars, budgetVars, leaseVars
<1>3. Grows
  BY DEF Grows, storeVars, callVars
<1>4. RanOnce' /\ RecordsAreComplete'
  BY DEF CompletionInv, RanOnce, RecordsAreComplete, Recorded, storeVars, callVars
<1>5. \A v \in Checkers : Leads(v)' <=> Leads(v)
  BY <1>1 DEF Leads, storeVars, leaseVars
<1>6. ValidityIsCurrent'
  BY <1>1, <1>5 DEF CompletionInv, ValidityIsCurrent
<1>7. VerdictEndsJudging'
  BY <1>1, <1>5 DEF CompletionInv, VerdictEndsJudging
<1>8. VerdictIsFounded'
  BY <1>3, RepairedGrows DEF CompletionInv, VerdictIsFounded, DocumentRead
<1>9. \A v \in Checkers \ {w} :
         pc[v] = "exec" /\ mem[v].job \in Phases => ran'[mem[v].job] = 0
  BY DEF CompletionInv, Sound, CommandKnown
<1> QED
  BY <1>2, <1>3, <1>4, <1>6, <1>7, <1>8, <1>9, StepKeeps DEF storeVars

-------------------------------------------------------------------------------
(* Steps that change nothing durable *)

\* A checker with nothing to do knows nothing.
LEMMA IdleSound == Sound("idle", Blank) /\ "idle" \in Steps /\ Blank \in Memory
  BY BlankTyped
     DEF Sound, StepsOf, CommandKnown, RepairKnown, DocumentKnown, Phases, Steps

\* The steps have the places of the jobs.
LEMMA PlacesTyped ==
    /\ \A j : StepsOf(j) \subseteq Steps
    /\ CallSteps \subseteq Steps
  BY DEF StepsOf, Steps, CallSteps

\* What _ranges_cover answers is evidence, as far as the sweep is sound.
LEMMA EvidenceSound ==
    ASSUME Typed, NEW content, EvidenceRead(content)
    PROVE  DocumentRead(content)
<1> SUFFICES ASSUME SweepSound, NEW l \in Lines(Cited)
             PROVE  \E r \in reads : r.content = content /\ l \in Lines(r.range)
  BY DEF DocumentRead
<1> DEFINE S == {r.range : r \in {q \in reads : q.content = content}}
<1>1. S \in SUBSET Ranges
  BY DEF Typed
<1>2. EveryLineRead(Cited, S)
  BY <1>1 DEF SweepSound, EvidenceRead
<1>3. PICK x \in S : l \in Lines(x)
  BY <1>2 DEF EveryLineRead
<1> QED
  BY <1>3

\* What the checker does with the observation of its call.
LEMMA ObservedMoves ==
    ASSUME CompletionInv, NEW w \in Checkers, pc[w] \in CallSteps, NEW obs, Observed(w, obs),
           obs = "ALLOWED" => pc[w] = "store" /\ mem[w].result = "SUCCEEDED"
    PROVE  \E to \in Steps \ {"exec"}, m \in Memory :
              /\ Goto(w, to, m) /\ Sound(to, m)
              /\ m.valid /\ m.failing = {} => mem[w].valid /\ mem[w].failing = {}
              /\ m.job \in {mem[w].job, "NONE"}
<1>0. /\ mem[w] \in Memory /\ Sound(pc[w], mem[w]) /\ Typed
      /\ mem[w].failing \in SUBSET Failures
  BY DEF CompletionInv, Typed, Memory
<1>1. CASE mem[w].job = "BASELINE" /\ obs = "ALLOWED"
  <2>1. Goto(w, "confirm", mem[w])
    BY <1>1 DEF Observed, ObservedBaseline, ObservedFinal, ObservedInspection
  <2>2. Sound("confirm", mem[w])
    BY <1>0, <1>1
       DEF Sound, StepsOf, CommandKnown, RepairKnown, DocumentKnown, Phases, CallSteps
  <2> QED
    BY <1>0, <2>1, <2>2 DEF Steps
<1>2. CASE mem[w].job = "BASELINE" /\ obs # "ALLOWED"
  <2>1. Goto(w, "idle", Blank)
    BY <1>2 DEF Observed, ObservedBaseline, ObservedFinal, ObservedInspection, Leave
  <2> QED
    BY <2>1, IdleSound, BlankTyped
<1>3. CASE mem[w].job = "FINAL" /\ obs = "ALLOWED"
  <2>1. Goto(w, "confirm", mem[w])
    BY <1>3 DEF Observed, ObservedBaseline, ObservedFinal, ObservedInspection
  <2>2. Sound("confirm", mem[w])
    BY <1>0, <1>3
       DEF Sound, StepsOf, CommandKnown, RepairKnown, DocumentKnown, Phases, CallSteps
  <2> QED
    BY <1>0, <2>1, <2>2 DEF Steps
<1>4. CASE mem[w].job = "FINAL" /\ obs # "ALLOWED"
  <2> DEFINE u == obs \in {"UNKNOWN_RESULT", "DENIED"}
             m == Add(Kept(mem[w]), {Failure("other", u)})
  <2>1. Goto(w, "verdict", m)
    BY <1>4 DEF Observed, ObservedBaseline, ObservedFinal, ObservedInspection
  <2>2. u \in BOOLEAN
    OBVIOUS
  <2> HIDE DEF u
  <2>3. m \in Memory /\ m.job = "FINAL" /\ m.failing # {}
    BY <1>0, <1>4, <2>2, FailedTyped
  <2> HIDE DEF m
  <2>4. Sound("verdict", m)
    BY <1>0, <1>4, <2>3
       DEF Sound, StepsOf, CommandKnown, RepairKnown, DocumentKnown, Phases, CallSteps, KindOf
  <2> QED
    BY <1>4, <2>1, <2>3, <2>4 DEF Steps
<1>5. CASE mem[w].job = "INSPECT" /\ obs = "ALLOWED" /\ EvidenceRead(mem[w].inspected)
  <2>1. Goto(w, "scope", mem[w])
    BY <1>5 DEF Observed, ObservedBaseline, ObservedFinal, ObservedInspection
  <2>2. DocumentRead(mem[w].inspected)
    BY <1>0, <1>5, EvidenceSound
  <2>3. Sound("scope", mem[w])
    BY <1>0, <1>5, <2>2
       DEF Sound, StepsOf, CommandKnown, RepairKnown, DocumentKnown, Phases, CallSteps
  <2> QED
    BY <1>0, <2>1, <2>3 DEF Steps
<1>6. CASE mem[w].job = "INSPECT" /\ ~(obs = "ALLOWED" /\ EvidenceRead(mem[w].inspected))
  <2> DEFINE F == {Failure("evidence_current", FALSE)}
             m == Add(mem[w], F)
  <2>1. Goto(w, "scope", m)
    BY <1>6 DEF Observed, ObservedBaseline, ObservedFinal, ObservedInspection
  <2>2. F \in SUBSET Failures /\ F # {}
    BY FailureTyped
  <2> HIDE DEF F
  <2>3. m \in Memory /\ m.job = "INSPECT" /\ m.failing # {}
    BY <1>0, <1>6, <2>2, AddTyped
  <2> HIDE DEF m
  <2>4. Sound("scope", m)
    BY <1>0, <1>6, <2>3
       DEF Sound, StepsOf, CommandKnown, RepairKnown, DocumentKnown, Phases, CallSteps, KindOf
  <2> QED
    BY <1>6, <2>1, <2>3, <2>4 DEF Steps
<1> QED
  BY <1>1, <1>2, <1>3, <1>4, <1>5, <1>6
     DEF Observed, ObservedBaseline, ObservedFinal, ObservedInspection

\* An operation begins.
LEMMA BeginStep ==
    ASSUME CompletionInv, NEW w \in Checkers, BeginCapture(w) \/ BeginEvaluation(w)
    PROVE  CompletionInv'
<1>1. PICK j \in Calls : /\ Goto(w, "ensure", [Blank EXCEPT !.job = j])
                         /\ kind = KindOf(j)
                         /\ j = "FINAL" => completion = NoCompletion
  BY CompletionAssumption
     DEF BeginCapture, BeginEvaluation, BeginTestRepair, BeginCodeUnderstanding, Preflight, KindOf
<1> DEFINE m == [Blank EXCEPT !.job = j]
<1>2. m \in Memory /\ m.job = j /\ m.failing = {} /\ m.valid = FALSE
  BY BlankTyped
<1> HIDE DEF m
<1>3. Sound("ensure", m)
  BY <1>1, <1>2, CompletionAssumption
     DEF Sound, StepsOf, CommandKnown, RepairKnown, DocumentKnown, Phases, CallSteps
<1>4. UNCHANGED <<storeVars, factVars, worldVars>>
  BY DEF BeginCapture, BeginEvaluation, BeginTestRepair, BeginCodeUnderstanding
<1>5. /\ UNCHANGED <<storeVars, reads, report, tests, completion, kind, ws, ran, edits>>
      /\ steps' \subseteq {StepOf(i) : i \in Calls} /\ faults' \in 0..MaxFaults
  BY <1>4 DEF factVars, worldVars, CompletionInv, Typed
<1>6. Goto(w, "ensure", m)
  BY <1>1 DEF m
<1> QED
  BY <1>1, <1>2, <1>3, <1>5, <1>6, MoveKeeps DEF Steps

\* The internal step is there.
LEMMA EnsureStep ==
    ASSUME CompletionInv, NEW w \in Checkers, EnsureInternalStep(w)
    PROVE  CompletionInv'
<1>0. /\ mem[w] \in Memory /\ Sound("ensure", mem[w]) /\ Typed
      /\ UNCHANGED <<storeVars, reads, report, tests, completion, kind, ws, ran, edits, faults>>
  BY DEF CompletionInv, Typed, EnsureInternalStep, worldVars
<1>1. mem[w].job \in Calls
  BY <1>0, CompletionAssumption DEF Sound, StepsOf
<1>2. steps' \subseteq {StepOf(i) : i \in Calls} /\ faults' \in 0..MaxFaults
  BY <1>0, <1>1 DEF Typed, EnsureInternalStep, CreateStep
<1>3. PICK to \in {"capture", "load", "read"} : Goto(w, to, mem[w]) /\ to \in StepsOf(mem[w].job)
  BY <1>1, CompletionAssumption DEF EnsureInternalStep, StepsOf
<1>4. CASE mem[w].job = "FINAL" /\ to = "load"
  <2>1. Sound(to, mem[w])
    BY <1>0, <1>3, <1>4 DEF Sound, CommandKnown, RepairKnown, DocumentKnown, CallSteps
  <2> QED
    BY <1>0, <1>2, <1>3, <2>1, MoveKeeps DEF Steps
<1>5. CASE mem[w].job # "FINAL"
  <2>1. Sound(to, mem[w])
    BY <1>0, <1>3, <1>5 DEF Sound, CommandKnown, RepairKnown, DocumentKnown, CallSteps
  <2> QED
    BY <1>0, <1>2, <1>3, <2>1, MoveKeeps DEF Steps
<1>6. mem[w].job = "FINAL" => to = "load"
  BY <1>3 DEF EnsureInternalStep, Goto, CompletionInv, Typed
<1> QED
  BY <1>4, <1>5, <1>6

\* The evaluation loads what there is of the tests.
LEMMA LoadStep ==
    ASSUME CompletionInv, NEW w \in Checkers, LoadEvaluation(w)
    PROVE  CompletionInv'
<1>0. /\ mem[w] \in Memory /\ Sound("load", mem[w]) /\ Typed
      /\ UNCHANGED <<storeVars, reads, report, tests, completion, kind, ws, ran, edits>>
      /\ steps' \subseteq {StepOf(i) : i \in Calls} /\ faults' \in 0..MaxFaults
  BY DEF CompletionInv, Typed, LoadEvaluation, worldVars, factVars
<1>1. mem[w].job = "FINAL" /\ kind = "test_repair"
  BY <1>0 DEF Sound, StepsOf, CallSteps, KindOf
<1> DEFINE failing == \E k \in DOMAIN tests["BASELINE"].nodes :
                         tests["BASELINE"].nodes[k] \in Failing
           F == IF report["BASELINE"] = "VALID" THEN {} ELSE {Failure("other", FALSE)}
           loaded == [mem[w] EXCEPT !.valid = report["FINAL"] = "VALID", !.failing = F]
<1>2. F \in SUBSET Failures
  BY FailureTyped
<1>3. \/ ~Recorded("BASELINE") /\ Goto(w, "verdict", Add(mem[w], {Failure("other", TRUE)}))
      \/ Goto(w, "verdict", Add(loaded, {Failure("other", FALSE)}))
      \/ /\ Recorded("BASELINE") /\ failing
         /\ Goto(w, IF Recorded("FINAL") THEN "judge" ELSE "capture", loaded)
  BY DEF LoadEvaluation
<1>4. BaselineFails <=> Recorded("BASELINE") /\ failing
  BY DEF BaselineFails
<1> HIDE DEF F, failing
<1>5. loaded \in Memory /\ loaded.job = "FINAL" /\ (loaded.valid => report["FINAL"] = "VALID")
  BY <1>0, <1>1, <1>2 DEF Memory
<1> HIDE DEF loaded
<1>6. ASSUME NEW n \in Memory, NEW u \in BOOLEAN, n.job = "FINAL",
             Goto(w, "verdict", Add(n, {Failure("other", u)}))
      PROVE  CompletionInv'
  <2> DEFINE m == Add(n, {Failure("other", u)})
  <2>1. m \in Memory /\ m.job = "FINAL" /\ m.failing # {}
    BY <1>6, FailureTyped, AddTyped
  <2>2. Goto(w, "verdict", m)
    BY <1>6
  <2> HIDE DEF m
  <2>3. Sound("verdict", m)
    BY <1>1, <2>1
       DEF Sound, StepsOf, CommandKnown, RepairKnown, DocumentKnown, CallSteps, KindOf
  <2> QED
    BY <1>0, <1>1, <2>1, <2>2, <2>3, MoveKeeps DEF Steps
<1>7. ASSUME BaselineFails,
             Goto(w, IF Recorded("FINAL") THEN "judge" ELSE "capture", loaded)
      PROVE  CompletionInv'
  <2>1. PICK to \in {"judge", "capture"} :
           Goto(w, to, loaded) /\ (to = "judge" => Recorded("FINAL"))
    BY <1>7
  <2>2. Sound(to, loaded)
    BY <1>1, <1>5, <1>7, <2>1
       DEF Sound, StepsOf, CommandKnown, RepairKnown, DocumentKnown, CallSteps, KindOf
  <2> QED
    BY <1>0, <1>1, <1>5, <2>1, <2>2, MoveKeeps DEF Steps
<1> QED
  BY <1>0, <1>1, <1>3, <1>4, <1>5, <1>6, <1>7

\* The workspace is captured before the command.
LEMMA CaptureStep ==
    ASSUME CompletionInv, NEW w \in Checkers, CaptureWorkspace(w)
    PROVE  CompletionInv'
<1>0. /\ mem[w] \in Memory /\ Sound("capture", mem[w]) /\ Typed /\ ws \in Workspaces
      /\ UNCHANGED <<storeVars, reads, report, tests, completion, kind, ws, ran, edits>>
      /\ steps' \subseteq {StepOf(i) : i \in Calls} /\ faults' \in 0..MaxFaults
  BY DEF CompletionInv, Typed, CaptureWorkspace, worldVars, factVars
<1> DEFINE m == [mem[w] EXCEPT !.pre = ws]
<1>1. /\ m \in Memory /\ m.job = mem[w].job /\ m.pre \in Workspaces /\ m.valid = mem[w].valid
      /\ m.failing = mem[w].failing
  BY <1>0 DEF Memory, Space
<1>2. Goto(w, "admit", m)
  BY DEF CaptureWorkspace
<1> HIDE DEF m
<1>3. Sound("admit", m)
  BY <1>0, <1>1
     DEF Sound, StepsOf, CommandKnown, RepairKnown, DocumentKnown, CallSteps, KindOf
<1> QED
  BY <1>0, <1>1, <1>2, <1>3, MoveKeeps DEF Steps

\* The call is admitted or answered without being made.
LEMMA AdmitStep ==
    ASSUME CompletionInv, NEW w \in Checkers, AdmitInternal(w)
    PROVE  CompletionInv'
<1>0. /\ mem[w] \in Memory /\ Sound("admit", mem[w]) /\ Typed /\ pc[w] = "admit"
      /\ UNCHANGED <<storeVars, reads, report, tests, completion, kind, ws, ran, edits>>
      /\ steps' \subseteq {StepOf(i) : i \in Calls} /\ faults' \in 0..MaxFaults
  BY DEF CompletionInv, Typed, AdmitInternal, worldVars, factVars
<1>1. CASE Goto(w, "prepare", mem[w])
  <2>1. Sound("prepare", mem[w])
    BY <1>0 DEF Sound, StepsOf, CommandKnown, RepairKnown, DocumentKnown, CallSteps
  <2> QED
    BY <1>0, <1>1, <2>1, MoveKeeps DEF Steps
<1>2. CASE Observed(w, "DENIED")
  <2>1. PICK to \in Steps \ {"exec"}, m \in Memory :
           /\ Goto(w, to, m) /\ Sound(to, m)
           /\ m.valid /\ m.failing = {} => mem[w].valid /\ mem[w].failing = {}
           /\ m.job \in {mem[w].job, "NONE"}
    BY <1>0, <1>2, ObservedMoves DEF CallSteps
  <2> QED
    BY <1>0, <2>1, MoveKeeps
<1> QED
  BY <1>1, <1>2 DEF AdmitInternal

\* The cited file is inspected.
LEMMA InspectStep ==
    ASSUME CompletionInv, NEW w \in Checkers, InspectFile(w)
    PROVE  CompletionInv'
<1>0. /\ mem[w] \in Memory /\ Sound("exec", mem[w]) /\ Typed /\ mem[w].job = "INSPECT"
      /\ UNCHANGED <<storeVars, reads, report, tests, completion, kind, ws, ran, edits>>
      /\ steps' \subseteq {StepOf(i) : i \in Calls} /\ faults' \in 0..MaxFaults
  BY DEF CompletionInv, Typed, InspectFile, worldVars, factVars
<1>1. ws.other \in Text
  BY <1>0, CompletionAssumption DEF Typed, Text
<1>2. PICK r \in {"FAILED", "SUCCEEDED", "UNKNOWN_RESULT"}, t \in {mem[w].inspected, ws.other} :
         Goto(w, "store", [mem[w] EXCEPT !.result = r, !.inspected = t])
  <2>1. \A r : [mem[w] EXCEPT !.result = r]
                 = [mem[w] EXCEPT !.result = r, !.inspected = mem[w].inspected]
    BY <1>0 DEF Memory
  <2> QED
    BY <2>1 DEF InspectFile
<1> DEFINE m == [mem[w] EXCEPT !.result = r, !.inspected = t]
<1>3. t \in Text
  BY <1>0, <1>1, <1>2 DEF Memory
<1>4. r \in TerminalInvocation
  BY <1>2 DEF TerminalInvocation, DeterministicResult
<1>5. /\ m \in Memory /\ m.job = "INSPECT" /\ m.valid = mem[w].valid
      /\ m.failing = mem[w].failing
  BY <1>0, <1>3, <1>4 DEF Memory
<1>6. Goto(w, "store", m)
  BY <1>2
<1> HIDE DEF m
<1>7. Sound("store", m)
  BY <1>0, <1>5
     DEF Sound, StepsOf, CommandKnown, RepairKnown, DocumentKnown, CallSteps, Phases, KindOf
<1> QED
  BY <1>0, <1>5, <1>6, <1>7, MoveKeeps DEF Steps

\* The workspace is compared after a baseline command.
LEMMA ConfirmBaselineStep ==
    ASSUME CompletionInv, NEW w \in Checkers, ConfirmBaseline(w)
    PROVE  CompletionInv'
<1>0. /\ mem[w] \in Memory /\ Sound("confirm", mem[w]) /\ Typed /\ ws \in Workspaces
      /\ mem[w].job = "BASELINE"
      /\ UNCHANGED <<storeVars, reads, report, tests, completion, kind, ws, ran, edits>>
      /\ steps' \subseteq {StepOf(i) : i \in Calls} /\ faults' \in 0..MaxFaults
  BY DEF CompletionInv, Typed, ConfirmBaseline, worldVars, factVars
<1>1. CASE Goto(w, "idle", Blank)
  BY <1>0, <1>1, IdleSound, BlankTyped, MoveKeeps
<1>2. CASE ParseJunitReport(mem[w].raw) # NoNodes /\ Goto(w, "record", [mem[w] EXCEPT !.post = ws])
  <2> DEFINE m == [mem[w] EXCEPT !.post = ws]
  <2>1. /\ m \in Memory /\ m.job = "BASELINE" /\ m.post \in Workspaces /\ m.valid = mem[w].valid
        /\ m.failing = mem[w].failing /\ m.pre = mem[w].pre /\ m.raw = mem[w].raw
    BY <1>0 DEF Memory, Space
  <2>2. Goto(w, "record", m)
    BY <1>2
  <2> HIDE DEF m
  <2>3. Sound("record", m)
    BY <1>0, <1>2, <2>1
       DEF Sound, StepsOf, CommandKnown, RepairKnown, DocumentKnown, CallSteps, Phases, KindOf
  <2> QED
    BY <1>0, <2>1, <2>2, <2>3, MoveKeeps DEF Steps
<1> QED
  BY <1>1, <1>2 DEF ConfirmBaseline, Leave

\* The second capture of an evaluation, or a report without nodes.
LEMMA ConfirmFinalStep ==
    ASSUME CompletionInv, NEW w \in Checkers, ConfirmFinal(w)
    PROVE  CompletionInv'
<1>0. /\ mem[w] \in Memory /\ Sound("confirm", mem[w]) /\ Typed /\ ws \in Workspaces
      /\ mem[w].job = "FINAL"
      /\ UNCHANGED <<storeVars, reads, report, tests, completion, kind, ws, ran, edits>>
      /\ steps' \subseteq {StepOf(i) : i \in Calls} /\ faults' \in 0..MaxFaults
  BY DEF CompletionInv, Typed, ConfirmFinal, worldVars, factVars
<1>1. CASE Goto(w, "verdict", Add(Kept(mem[w]), {Failure("other", TRUE)}))
  <2> DEFINE m == Add(Kept(mem[w]), {Failure("other", TRUE)})
  <2>1. m \in Memory /\ m.job = "FINAL" /\ m.failing # {}
    BY <1>0, FailedTyped
  <2>2. Goto(w, "verdict", m)
    BY <1>1
  <2> HIDE DEF m
  <2>3. Sound("verdict", m)
    BY <1>0, <2>1
       DEF Sound, StepsOf, CommandKnown, RepairKnown, DocumentKnown, CallSteps, Phases, KindOf
  <2> QED
    BY <1>0, <2>1, <2>2, <2>3, MoveKeeps DEF Steps
<1>2. CASE ParseJunitReport(mem[w].raw) # NoNodes /\ Goto(w, "record", Confirmed(mem[w]))
  <2> DEFINE m == Confirmed(mem[w])
  <2>1. /\ m \in Memory /\ m.job = "FINAL" /\ m.post \in Workspaces
        /\ m.valid => report["FINAL"] = "VALID"
        /\ m.failing = mem[w].failing /\ m.pre = mem[w].pre /\ m.raw = mem[w].raw
    BY <1>0 DEF Memory, Space, Confirmed
  <2>2. Goto(w, "record", m)
    BY <1>2
  <2> HIDE DEF m
  <2>3. Sound("record", m)
    BY <1>0, <1>2, <2>1
       DEF Sound, StepsOf, CommandKnown, RepairKnown, DocumentKnown, CallSteps, Phases, KindOf
  <2> QED
    BY <1>0, <2>1, <2>2, <2>3, MoveKeeps DEF Steps
<1> QED
  BY <1>1, <1>2 DEF ConfirmFinal

\* The judgement of the final tests.
LEMMA JudgeStep ==
    ASSUME CompletionInv, NEW w \in Checkers, Judge(w)
    PROVE  CompletionInv'
<1>0. /\ mem[w] \in Memory /\ Sound("judge", mem[w]) /\ Typed
      /\ UNCHANGED <<storeVars, reads, report, tests, completion, kind, ws, ran, edits>>
      /\ steps' \subseteq {StepOf(i) : i \in Calls} /\ faults' \in 0..MaxFaults
  BY DEF CompletionInv, Typed, Judge, worldVars, factVars
<1>1. mem[w].job = "FINAL" /\ kind = "test_repair" /\ BaselineFails /\ Recorded("FINAL")
  BY <1>0 DEF Sound, StepsOf, CallSteps, KindOf, RepairKnown
<1> DEFINE other == /\ tests["FINAL"].exit = 0
                    /\ NodesRepaired
                    /\ tests["FINAL"].pre = tests["FINAL"].post
                    /\ TestScope(ws)
           F == (IF other THEN {} ELSE {Failure("other", FALSE)})
                \cup (IF ReportCurrent(mem[w]) THEN {} ELSE {Failure("evidence_current", FALSE)})
           m == Add(mem[w], F)
<1>2. Goto(w, IF ReportCurrent(mem[w]) THEN "audit" ELSE "invalidate", m)
  BY DEF Judge
<1>3. /\ F \in SUBSET Failures /\ (~ReportCurrent(mem[w]) => F # {})
      /\ F = {} => other /\ ReportCurrent(mem[w])
  BY FailureTyped
<1>4. other /\ ReportCurrent(mem[w]) => Repaired /\ mem[w].valid
  BY <1>1 DEF Repaired, ReportCurrent
<1> HIDE DEF F, other
<1>5. /\ m \in Memory /\ m.job = "FINAL" /\ m.failing = mem[w].failing \cup F
      /\ m.valid = mem[w].valid
  BY <1>0, <1>1, <1>3, AddTyped
<1> HIDE DEF m
<1>6. PICK to \in {"audit", "invalidate"} :
         Goto(w, to, m) /\ (to = "invalidate" => m.failing # {})
  BY <1>2, <1>3, <1>5
<1>7. Sound(to, m)
  BY <1>1, <1>3, <1>4, <1>5, <1>6
     DEF Sound, StepsOf, CommandKnown, RepairKnown, DocumentKnown, CallSteps, KindOf
<1> QED
  BY <1>0, <1>1, <1>5, <1>6, <1>7, MoveKeeps DEF Steps

\* The audit chain is verified.
LEMMA VerifyStep ==
    ASSUME CompletionInv, NEW w \in Checkers, VerifyChain(w)
    PROVE  CompletionInv'
<1>0. /\ mem[w] \in Memory /\ Sound("audit", mem[w]) /\ Typed
      /\ UNCHANGED <<storeVars, reads, report, tests, completion, kind, ws, ran, edits>>
      /\ steps' \subseteq {StepOf(i) : i \in Calls}
  BY DEF CompletionInv, Typed, VerifyChain, worldVars, factVars
<1>1. faults' \in 0..MaxFaults
  BY <1>0, CompletionAssumption DEF Typed, VerifyChain
<1>2. mem[w].job \in {"FINAL", "INSPECT"}
  BY <1>0 DEF Sound, StepsOf, CallSteps
<1>3. CASE Goto(w, "verdict", mem[w])
  <2>1. Sound("verdict", mem[w])
    BY <1>0, <1>2
       DEF Sound, StepsOf, CommandKnown, RepairKnown, DocumentKnown, CallSteps, KindOf
  <2> QED
    BY <1>0, <1>1, <1>3, <2>1, MoveKeeps DEF Steps
<1>4. CASE Goto(w, "verdict", Add(mem[w], {Failure("other", TRUE)}))
  <2> DEFINE m == Add(mem[w], {Failure("other", TRUE)})
  <2>1. m \in Memory /\ m.job = mem[w].job /\ m.failing # {}
    <3>1. Failure("other", TRUE) \in Failures
      BY FailureTyped
    <3> QED
      BY <1>0, <3>1, AddTyped, ZenonT(40)
  <2>2. Goto(w, "verdict", m)
    BY <1>4
  <2> HIDE DEF m
  <2>3. Sound("verdict", m)
    BY <1>0, <1>2, <2>1
       DEF Sound, StepsOf, CommandKnown, RepairKnown, DocumentKnown, CallSteps, KindOf
  <2> QED
    BY <1>0, <1>1, <2>1, <2>2, <2>3, MoveKeeps DEF Steps
<1> QED
  BY <1>3, <1>4 DEF VerifyChain

\* The three steps on a document before the audit chain.
LEMMA DocumentSteps ==
    ASSUME CompletionInv, NEW w \in Checkers,
           ReadDeliverable(w) \/ DeliverableChecks(w) \/ WorkspaceChecks(w)
    PROVE  CompletionInv'
<1>0. /\ mem[w] \in Memory /\ Sound(pc[w], mem[w]) /\ Typed
      /\ pc[w] \in {"read", "deliverable", "scope"}
      /\ UNCHANGED <<storeVars, reads, report, tests, completion, kind, ws, ran, edits>>
      /\ steps' \subseteq {StepOf(i) : i \in Calls} /\ faults' \in 0..MaxFaults
  BY DEF CompletionInv, Typed, ReadDeliverable, DeliverableChecks, WorkspaceChecks, worldVars,
         factVars
<1>1. mem[w].job = "INSPECT" /\ kind = "code_understanding"
  BY <1>0 DEF Sound, StepsOf, CallSteps, KindOf
<1>2. ASSUME NEW n \in Memory, NEW F \in SUBSET Failures,
             NEW to \in {"deliverable", "admit", "scope", "audit"},
             n.job = "INSPECT", n.valid = mem[w].valid, n.failing = mem[w].failing,
             Goto(w, to, Add(n, F)),
             to = "deliverable" /\ n.failing \cup F = {} => n.doc \in Documents,
             to \in {"scope", "audit"} /\ n.failing \cup F = {} => DocumentRead(n.inspected)
      PROVE  CompletionInv'
  <2> DEFINE m == Add(n, F)
  <2>1. /\ m \in Memory /\ m.job = "INSPECT" /\ m.failing = n.failing \cup F /\ m.valid = n.valid
        /\ m.doc = n.doc /\ m.inspected = n.inspected
    BY <1>2, AddTyped
  <2>2. Goto(w, to, m)
    BY <1>2
  <2> HIDE DEF m
  <2>3. Sound(to, m)
    BY <1>1, <1>2, <2>1
       DEF Sound, StepsOf, CommandKnown, RepairKnown, DocumentKnown, CallSteps, Phases, KindOf
  <2> QED
    BY <1>0, <1>2, <2>1, <2>2, <2>3, MoveKeeps DEF Steps
<1>3. CASE ReadDeliverable(w)
  <2> DEFINE n == [mem[w] EXCEPT !.doc = ws.work]
             F == IF ws.work \in Documents THEN {} ELSE {Failure("other", FALSE)}
  <2>1. ws.work \in Text
    BY <1>0, CompletionAssumption DEF Typed, Text
  <2>2. /\ n \in Memory /\ n.job = "INSPECT" /\ n.valid = mem[w].valid
        /\ n.failing = mem[w].failing /\ n.doc = ws.work
    BY <1>0, <1>1, <2>1 DEF Memory
  <2>3. F \in SUBSET Failures /\ (F = {} => ws.work \in Documents)
    BY FailureTyped
  <2>4. Goto(w, "deliverable", Add(n, F))
    BY <1>3 DEF ReadDeliverable
  <2> HIDE DEF n, F
  <2> QED
    BY <1>2, <2>2, <2>3, <2>4
<1>4. CASE DeliverableChecks(w)
  <2> DEFINE F == IF ws.work \notin {Gone, Original} THEN {} ELSE {Failure("other", FALSE)}
  <2>1. F \in SUBSET Failures
    BY FailureTyped
  <2>2. Goto(w, IF mem[w].doc \in Documents THEN "admit" ELSE "scope", Add(mem[w], F))
    BY <1>4 DEF DeliverableChecks
  <2>3. mem[w].failing = {} => mem[w].doc \in Documents
    BY <1>0, <1>1, <1>4 DEF DeliverableChecks, Sound, DocumentKnown
  <2> HIDE DEF F
  <2> QED
    BY <1>0, <1>1, <1>2, <2>1, <2>2, <2>3
<1>5. CASE WorkspaceChecks(w)
  <2> DEFINE F == IF ~ws.head /\ ws.other = Original THEN {} ELSE {Failure("other", FALSE)}
  <2>1. F \in SUBSET Failures
    BY FailureTyped
  <2>2. Goto(w, "audit", Add(mem[w], F))
    BY <1>5 DEF WorkspaceChecks
  <2>3. mem[w].failing = {} => DocumentRead(mem[w].inspected)
    BY <1>0, <1>1, <1>5 DEF WorkspaceChecks, Sound, DocumentKnown
  <2> HIDE DEF F
  <2> QED
    BY <1>0, <1>1, <1>2, <2>1, <2>2, <2>3
<1> QED
  BY <1>3, <1>4, <1>5

\* A unit of work that does not commit.
LEMMA AbortStep ==
    ASSUME CompletionInv, NEW w \in Checkers, UnitFails(w) \/ UnitFaults(w)
    PROVE  CompletionInv'
<1>0. /\ mem[w] \in Memory /\ Sound(pc[w], mem[w]) /\ Typed /\ UnitAborts(w)
      /\ UNCHANGED <<storeVars, reads, report, tests, completion, kind, ws, ran, edits>>
      /\ steps' \subseteq {StepOf(i) : i \in Calls}
  BY DEF CompletionInv, Typed, UnitFails, UnitFaults, worldVars, factVars
<1>1. faults' \in 0..MaxFaults
  BY <1>0, CompletionAssumption DEF Typed, UnitFails, UnitFaults, worldVars
<1>2. CASE Goto(w, "idle", Blank)
  BY <1>0, <1>1, <1>2, IdleSound, BlankTyped, MoveKeeps
<1>3. CASE pc[w] \in CallSteps /\ Observed(w, "DENIED")
  <2>1. PICK to \in Steps \ {"exec"}, m \in Memory :
           /\ Goto(w, to, m) /\ Sound(to, m)
           /\ m.valid /\ m.failing = {} => mem[w].valid /\ mem[w].failing = {}
           /\ m.job \in {mem[w].job, "NONE"}
    BY <1>3, ObservedMoves
  <2> QED
    BY <1>0, <1>1, <2>1, MoveKeeps
<1>4. CASE /\ mem[w].job = "FINAL"
           /\ Goto(w, "verdict", Add(Kept(mem[w]), {Failure("other", TRUE)}))
  <2> DEFINE m == Add(Kept(mem[w]), {Failure("other", TRUE)})
  <2>1. m \in Memory /\ m.job = "FINAL" /\ m.failing # {}
    BY <1>0, <1>4, FailedTyped
  <2>2. Goto(w, "verdict", m)
    BY <1>4
  <2> HIDE DEF m
  <2>3. Sound("verdict", m)
    BY <1>0, <1>4, <2>1
       DEF Sound, StepsOf, CommandKnown, RepairKnown, DocumentKnown, CallSteps, Phases, KindOf
  <2> QED
    BY <1>0, <1>1, <1>4, <2>1, <2>2, <2>3, MoveKeeps DEF Steps
<1>5. CASE /\ pc[w] = "invalidate"
           /\ Goto(w, "audit", Add(mem[w], {Failure("evidence_current", TRUE)}))
  <2> DEFINE m == Add(mem[w], {Failure("evidence_current", TRUE)})
  <2>0. mem[w].job = "FINAL"
    BY <1>0, <1>5 DEF Sound, StepsOf, CallSteps
  <2>1. m \in Memory /\ m.job = "FINAL" /\ m.failing # {}
    <3>1. Failure("evidence_current", TRUE) \in Failures
      BY FailureTyped
    <3> QED
      BY <1>0, <2>0, <3>1, AddTyped, ZenonT(40)
  <2>2. Goto(w, "audit", m)
    BY <1>5
  <2> HIDE DEF m
  <2>3. Sound("audit", m)
    BY <1>0, <2>0, <2>1
       DEF Sound, StepsOf, CommandKnown, RepairKnown, DocumentKnown, CallSteps, Phases, KindOf
  <2> QED
    BY <1>0, <1>1, <2>0, <2>1, <2>2, <2>3, MoveKeeps DEF Steps
<1> QED
  BY <1>0, <1>2, <1>3, <1>4, <1>5 DEF UnitAborts, Leave, CallSteps

-------------------------------------------------------------------------------
(* Steps of a call *)

\* A step that moves a call on keeps the invariant if the call does not go back and
\* a report is at most confirmed.
LEMMA CallKeeps ==
    ASSUME CompletionInv, NEW w \in Checkers, NEW to \in Steps, NEW m \in Memory,
           Goto(w, to, m), Sound(to, m), to # "exec",
           UNCHANGED <<runStatus, budgetVars, leaseVars, reads, steps, tests, completion,
                       worldVars>>,
           callStatus' \in [Calls -> InvocationStatus \cup {"NONE"}],
           callIntent' \in [Calls -> Intents \cup {NoIntent}],
           \A p \in Phases : callStatus[p] \notin {"NONE", "PREPARED"} =>
              callStatus'[p] \notin {"NONE", "PREPARED"},
           report' \in [Phases -> {"NONE", "VALID", "INVALID"}],
           \A p \in Phases : report'[p] = report[p] \/ report'[p] = "VALID",
           m.valid /\ m.failing = {} => mem[w].valid /\ mem[w].failing = {},
           m.job \in {mem[w].job, "NONE"}
    PROVE  CompletionInv'
<1>1. /\ pc' \in [Checkers -> Steps] /\ mem' \in [Checkers -> Memory]
      /\ token' = token /\ pc'[w] = to /\ mem'[w] = m
      /\ \A v \in Checkers \ {w} : pc'[v] = pc[v] /\ mem'[v] = mem[v]
  BY GotoTyped DEF CompletionInv
<1>2. Typed'
  BY <1>1 DEF CompletionInv, Typed, StoreTypeOK, budgetVars, leaseVars, worldVars
<1>3. Grows
  BY DEF Grows, worldVars
<1>4. RanOnce' /\ RecordsAreComplete'
  BY DEF CompletionInv, RanOnce, RecordsAreComplete, Recorded, worldVars
<1>5. \A v \in Checkers : Leads(v)' <=> Leads(v)
  BY <1>1 DEF Leads, leaseVars
<1>6. ValidityIsCurrent'
  BY <1>1, <1>5 DEF CompletionInv, ValidityIsCurrent, Phases
<1>7. VerdictEndsJudging'
  BY <1>1, <1>5 DEF CompletionInv, VerdictEndsJudging
<1>8. VerdictIsFounded'
  BY <1>3, RepairedGrows DEF CompletionInv, VerdictIsFounded, DocumentRead, Phases, worldVars
<1>9. \A v \in Checkers \ {w} :
         pc[v] = "exec" /\ mem[v].job \in Phases => ran'[mem[v].job] = 0
  BY DEF CompletionInv, Sound, CommandKnown, worldVars
<1> QED
  BY <1>2, <1>3, <1>4, <1>6, <1>7, <1>8, <1>9, StepKeeps

\* The call gets its row.
LEMMA PrepareStep ==
    ASSUME CompletionInv, NEW w \in Checkers, PrepareInternal(w)
    PROVE  CompletionInv'
<1>0. /\ mem[w] \in Memory /\ Sound("prepare", mem[w]) /\ Typed
      /\ UNCHANGED <<runStatus, budgetVars, leaseVars, reads, steps, report, tests, completion,
                     worldVars>>
      /\ Goto(w, "start", mem[w])
  BY DEF CompletionInv, Typed, PrepareInternal, factVars
<1>1. mem[w].job \in Calls /\ mem[w].job \in Intents
  BY <1>0, CompletionAssumption DEF Sound, StepsOf, CallSteps
<1>2. /\ callStatus[mem[w].job] = "NONE"
      /\ callStatus' = [callStatus EXCEPT ![mem[w].job] = "PREPARED"]
      /\ callIntent' = [callIntent EXCEPT ![mem[w].job] = mem[w].job]
  BY DEF PrepareInternal, CreateInvocation
<1>3. /\ callStatus' \in [Calls -> InvocationStatus \cup {"NONE"}]
      /\ callIntent' \in [Calls -> Intents \cup {NoIntent}]
      /\ report' \in [Phases -> {"NONE", "VALID", "INVALID"}]
  BY <1>0, <1>1, <1>2 DEF Typed, StoreTypeOK, InvocationStatus
<1>4. \A p \in Phases : callStatus[p] \notin {"NONE", "PREPARED"} =>
         callStatus'[p] \notin {"NONE", "PREPARED"}
  BY <1>0, <1>2, CompletionAssumption DEF Typed, StoreTypeOK, Phases
<1>5. Sound("start", mem[w])
  BY <1>0 DEF Sound, StepsOf, CommandKnown, RepairKnown, DocumentKnown, CallSteps
<1> QED
  BY <1>0, <1>3, <1>4, <1>5, CallKeeps DEF Steps

\* The result of the call is stored.
LEMMA ResultStep ==
    ASSUME CompletionInv, NEW w \in Checkers, PersistResult(w)
    PROVE  CompletionInv'
<1>0. /\ mem[w] \in Memory /\ Sound("store", mem[w]) /\ Typed /\ pc[w] = "store"
      /\ UNCHANGED <<runStatus, budgetVars, leaseVars, reads, steps, tests, completion,
                     worldVars>>
      /\ Observed(w, ObservationOf(mem[w].result))
  BY DEF CompletionInv, Typed, PersistResult
<1>1. mem[w].job \in Calls
  BY <1>0, CompletionAssumption DEF Sound, StepsOf, CallSteps
<1>2. /\ mem[w].result \in TerminalInvocation
      /\ callStatus' = [callStatus EXCEPT ![mem[w].job] = mem[w].result]
      /\ callIntent' = callIntent
  BY DEF PersistResult, TransitionInvocation
<1>3. /\ callStatus' \in [Calls -> InvocationStatus \cup {"NONE"}]
      /\ callIntent' \in [Calls -> Intents \cup {NoIntent}]
  BY <1>0, <1>1, <1>2 DEF Typed, StoreTypeOK, InvocationStatus
<1>4. \A p \in Phases : callStatus[p] \notin {"NONE", "PREPARED"} =>
         callStatus'[p] \notin {"NONE", "PREPARED"}
  BY <1>0, <1>2, CompletionAssumption
     DEF Typed, StoreTypeOK, Phases, TerminalInvocation, DeterministicResult
<1>5. /\ report' \in [Phases -> {"NONE", "VALID", "INVALID"}]
      /\ \A p \in Phases : report'[p] = report[p] \/ report'[p] = "VALID"
  BY <1>0 DEF PersistResult, AddEvidence, Typed
<1>6. ObservationOf(mem[w].result) = "ALLOWED" => mem[w].result = "SUCCEEDED"
  BY <1>2 DEF ObservationOf, TerminalInvocation, DeterministicResult
<1>7. PICK to \in Steps \ {"exec"}, m \in Memory :
         /\ Goto(w, to, m) /\ Sound(to, m)
         /\ m.valid /\ m.failing = {} => mem[w].valid /\ mem[w].failing = {}
         /\ m.job \in {mem[w].job, "NONE"}
  BY <1>0, <1>6, ObservedMoves DEF CallSteps
<1> QED
  BY <1>0, <1>3, <1>4, <1>5, <1>7, CallKeeps

\* A checker whose call is marked started is the one that starts the command.
LEMMA StartStep ==
    ASSUME CompletionInv, NEW w \in Checkers, MarkStarted(w)
    PROVE  CompletionInv'
<1>0. /\ mem[w] \in Memory /\ Sound("start", mem[w]) /\ Typed
      /\ UNCHANGED <<runStatus, budgetVars, leaseVars, reads, steps, report, tests, completion,
                     kind, ws, ran, edits, faults>>
      /\ Goto(w, "exec", mem[w])
  BY DEF CompletionInv, Typed, MarkStarted, factVars, worldVars
<1>1. mem[w].job \in Calls
  BY <1>0, CompletionAssumption DEF Sound, StepsOf, CallSteps
<1>2. /\ callStatus[mem[w].job] = "PREPARED"
      /\ callStatus' = [callStatus EXCEPT ![mem[w].job] = "STARTED"]
      /\ callIntent' = callIntent
  BY DEF MarkStarted, TransitionInvocation
<1>3. /\ pc' \in [Checkers -> Steps] /\ mem' \in [Checkers -> Memory]
      /\ token' = token /\ pc'[w] = "exec" /\ mem'[w] = mem[w]
      /\ \A v \in Checkers \ {w} : pc'[v] = pc[v] /\ mem'[v] = mem[v]
  BY <1>0, GotoTyped DEF Steps
<1>4. callStatus' \in [Calls -> InvocationStatus \cup {"NONE"}]
  BY <1>0, <1>1, <1>2 DEF Typed, StoreTypeOK, InvocationStatus
<1>5. Typed'
  BY <1>0, <1>2, <1>3, <1>4 DEF Typed, StoreTypeOK, budgetVars, leaseVars
<1>6. /\ \A p \in Phases : callStatus[p] \notin {"NONE", "PREPARED"} =>
            callStatus'[p] \notin {"NONE", "PREPARED"}
      /\ mem[w].job \in Phases => callStatus'[mem[w].job] = "STARTED" /\ ran[mem[w].job] = 0
  BY <1>0, <1>1, <1>2, CompletionAssumption
     DEF CompletionInv, RanOnce, Typed, StoreTypeOK, Phases
<1>7. Grows
  BY <1>0, <1>6 DEF Grows
<1>8. RanOnce' /\ RecordsAreComplete'
  BY <1>0, <1>6 DEF CompletionInv, RanOnce, RecordsAreComplete, Recorded
<1>9. \A v \in Checkers : pc[v] = "exec" /\ mem[v].job \in Phases =>
         ran[mem[v].job] = 0 /\ mem[v].job # mem[w].job
  BY <1>2 DEF CompletionInv, Sound, CommandKnown
<1>10. OneStarts'
  BY <1>3, <1>9 DEF CompletionInv, OneStarts
<1>11. \A v \in Checkers : Leads(v)' <=> Leads(v)
  BY <1>0, <1>3 DEF Leads, leaseVars
<1>12. ValidityIsCurrent' /\ VerdictEndsJudging'
  BY <1>0, <1>3, <1>11 DEF CompletionInv, ValidityIsCurrent, VerdictEndsJudging
<1>13. VerdictIsFounded'
  BY <1>0, <1>7, RepairedGrows DEF CompletionInv, VerdictIsFounded, DocumentRead
<1>14. CommandKnown(pc[w], mem[w])'
  BY <1>0, <1>3, <1>6 DEF Sound, CommandKnown, CallSteps
<1>15. Sound(pc[w], mem[w])'
  BY <1>0, <1>3, <1>7, <1>14, RepairedGrows
     DEF Sound, StepsOf, RepairKnown, DocumentKnown, CallSteps
<1> QED
  BY <1>0, <1>3, <1>5, <1>7, <1>8, <1>9, <1>10, <1>12, <1>13, <1>15, StepInv DEF Steps

\* The command starts, once, or cannot be started.
LEMMA CommandStep ==
    ASSUME CompletionInv, NEW w \in Checkers, RunTestCommand(w)
    PROVE  CompletionInv'
<1>0. /\ mem[w] \in Memory /\ Sound("exec", mem[w]) /\ Typed /\ pc[w] = "exec"
      /\ mem[w].job \in Phases
      /\ UNCHANGED <<runStatus, callVars, budgetVars, leaseVars, reads, steps, report, tests,
                     completion, kind, ws, edits, faults>>
  BY DEF CompletionInv, Typed, RunTestCommand, factVars, storeVars
<1>1. PICK r \in {"FAILED", "SUCCEEDED", "UNKNOWN_RESULT"}, raw \in RawReports :
         /\ Goto(w, "store", [mem[w] EXCEPT !.result = r, !.raw = raw])
         /\ \/ ran' = [ran EXCEPT ![mem[w].job] = @ + 1]
            \/ ran' = ran /\ r = "FAILED"
  <2>1. \A r : [mem[w] EXCEPT !.result = r] = [mem[w] EXCEPT !.result = r, !.raw = mem[w].raw]
    BY <1>0 DEF Memory
  <2>2. mem[w].raw \in RawReports /\ Reports[mem[w].job] \subseteq RawReports
    BY <1>0 DEF Memory, RawReports
  <2> QED
    BY <2>1, <2>2 DEF RunTestCommand
<1> DEFINE m == [mem[w] EXCEPT !.result = r, !.raw = raw]
<1>2. r \in TerminalInvocation
  BY <1>1 DEF TerminalInvocation, DeterministicResult
<1>3. /\ m \in Memory /\ m.job = mem[w].job /\ m.valid = mem[w].valid
      /\ m.failing = mem[w].failing /\ m.pre = mem[w].pre /\ m.result = r
  BY <1>0, <1>1, <1>2 DEF Memory
<1>4. Goto(w, "store", m)
  BY <1>1
<1> HIDE DEF m
<1>5. /\ pc' \in [Checkers -> Steps] /\ mem' \in [Checkers -> Memory]
      /\ token' = token /\ pc'[w] = "store" /\ mem'[w] = m
      /\ \A v \in Checkers \ {w} : pc'[v] = pc[v] /\ mem'[v] = mem[v]
  BY <1>0, <1>3, <1>4, GotoTyped DEF Steps
<1>6. ran[mem[w].job] = 0 /\ callStatus[mem[w].job] \notin {"NONE", "PREPARED"}
  BY <1>0 DEF Sound, CommandKnown
<1>7. /\ ran' \in [Phases -> Nat]
      /\ \A p \in Phases \ {mem[w].job} : ran'[p] = ran[p]
      /\ ran'[mem[w].job] \in {0, 1} /\ (r # "FAILED" => ran'[mem[w].job] = 1)
  BY <1>0, <1>1, <1>6 DEF Typed
<1>8. Typed'
  BY <1>0, <1>5, <1>7 DEF Typed, StoreTypeOK, budgetVars, leaseVars, callVars
<1>9. Grows
  BY <1>0, <1>6, <1>7 DEF Grows, callVars
<1>10. RanOnce' /\ RecordsAreComplete'
  BY <1>0, <1>6, <1>7 DEF CompletionInv, RanOnce, RecordsAreComplete, Recorded, callVars
<1>11. ASSUME NEW v \in Checkers \ {w}, pc[v] = "exec", mem[v].job \in Phases
       PROVE  ran'[mem[v].job] = 0
  <2>1. mem[v].job # mem[w].job
    BY <1>0, <1>11 DEF CompletionInv, OneStarts
  <2>2. ran[mem[v].job] = 0
    BY <1>11 DEF CompletionInv, Sound, CommandKnown
  <2> QED
    BY <1>7, <1>11, <2>1, <2>2
<1>12. OneStarts'
  BY <1>5 DEF CompletionInv, OneStarts
<1>13. \A v \in Checkers : Leads(v)' <=> Leads(v)
  BY <1>0, <1>5 DEF Leads, leaseVars
<1>14. ValidityIsCurrent' /\ VerdictEndsJudging'
  BY <1>0, <1>3, <1>5, <1>13 DEF CompletionInv, ValidityIsCurrent, VerdictEndsJudging
<1>15. VerdictIsFounded'
  BY <1>0, <1>9, RepairedGrows DEF CompletionInv, VerdictIsFounded, DocumentRead
<1>16. CommandKnown(pc[w], mem[w])'
  BY <1>0, <1>3, <1>5, <1>7 DEF Sound, CommandKnown, CallSteps
<1>17. Sound(pc[w], mem[w])'
  BY <1>0, <1>3, <1>5, <1>9, <1>16, RepairedGrows
     DEF Sound, StepsOf, RepairKnown, DocumentKnown, CallSteps, Phases
<1> QED
  BY <1>0, <1>3, <1>4, <1>8, <1>9, <1>10, <1>11, <1>12, <1>14, <1>15, <1>17, StepInv DEF Steps

-------------------------------------------------------------------------------
(* Steps that write facts *)

\* The execution of a command is recorded.
LEMMA RecordStep ==
    ASSUME CompletionInv, NEW w \in Checkers, RecordBaseline(w) \/ RecordFinal(w)
    PROVE  CompletionInv'
<1>0. /\ mem[w] \in Memory /\ Sound("record", mem[w]) /\ Typed /\ mem[w].job \in Phases
      /\ UNCHANGED <<runStatus, callVars, budgetVars, leaseVars, reads, steps, report,
                     completion, kind, ws, ran, edits, faults>>
      /\ RecordTestExecution(mem[w])
  BY DEF CompletionInv, Typed, RecordBaseline, RecordFinal, worldVars, storeVars, Phases
<1>1. PICK to \in {"idle", "judge"}, m \in {Blank, Kept(mem[w])} :
         /\ Goto(w, to, m)
         /\ mem[w].job = "BASELINE" => to = "idle" /\ m = Blank
         /\ mem[w].job = "FINAL" => to = "judge" /\ m = Kept(mem[w])
  BY DEF RecordBaseline, RecordFinal, Leave
<1>2. /\ m \in Memory /\ (m = Blank => m.job = "NONE" /\ ~m.valid)
      /\ mem[w].job = "FINAL" => m.job = "FINAL" /\ m.valid = mem[w].valid
                                 /\ m.failing = mem[w].failing
  BY <1>0, <1>1, BlankTyped, KeptTyped
<1>3. /\ pc' \in [Checkers -> Steps] /\ mem' \in [Checkers -> Memory]
      /\ token' = token /\ pc'[w] = to /\ mem'[w] = m
      /\ \A v \in Checkers \ {w} : pc'[v] = pc[v] /\ mem'[v] = mem[v]
  BY <1>0, <1>1, <1>2, GotoTyped DEF Steps
<1> DEFINE x == [pre |-> mem[w].pre, post |-> mem[w].post, exit |-> mem[w].raw.exit,
                 nodes |-> ParseJunitReport(mem[w].raw)]
<1>4. /\ ~Recorded(mem[w].job) /\ report[mem[w].job] # "NONE"
      /\ tests' = [tests EXCEPT ![mem[w].job] = x]
  BY <1>0 DEF RecordTestExecution
<1>5. /\ x.pre \in Workspaces /\ x.post \in Workspaces /\ x.nodes # NoNodes
      /\ ran[mem[w].job] = 1
  BY <1>0 DEF Sound, CommandKnown
<1>6. x \in Execution
  <2>1. mem[w].raw \in RawReports /\ mem[w].pre \in Space /\ mem[w].post \in Space
    BY <1>0 DEF Memory
  <2> QED
    BY <2>1 DEF Execution, Parsed
<1>7. x # NoExecution
  BY <1>5 DEF NoExecution
<1> HIDE DEF x
<1>8. /\ tests' \in [Phases -> Execution] /\ tests'[mem[w].job] = x
      /\ \A p \in Phases \ {mem[w].job} : tests'[p] = tests[p]
  BY <1>0, <1>4, <1>6 DEF Typed
<1>9. Typed'
  BY <1>0, <1>3, <1>8 DEF Typed, StoreTypeOK, budgetVars, leaseVars, callVars
<1>10. Grows
  BY <1>0, <1>4, <1>8 DEF Grows, callVars
<1>11. RanOnce' /\ RecordsAreComplete'
  BY <1>0, <1>4, <1>5, <1>8
     DEF CompletionInv, RanOnce, RecordsAreComplete, Recorded, callVars
<1>12. OneStarts'
  BY <1>3, <1>1 DEF CompletionInv, OneStarts
<1>13. \A v \in Checkers : Leads(v)' <=> Leads(v)
  BY <1>0, <1>3 DEF Leads, leaseVars
<1>14. ValidityIsCurrent' /\ VerdictEndsJudging'
  BY <1>0, <1>1, <1>2, <1>3, <1>13
     DEF CompletionInv, ValidityIsCurrent, VerdictEndsJudging, Phases
<1>15. VerdictIsFounded'
  <2>1. Repaired => tests'["FINAL"] = tests["FINAL"]
    BY <1>10 DEF Grows, Repaired, Phases
  <2> QED
    BY <1>0, <1>10, <2>1, RepairedGrows DEF CompletionInv, VerdictIsFounded, DocumentRead
<1>16. Sound(pc[w], mem[w])'
  <2>1. CASE mem[w].job = "BASELINE"
    BY <1>1, <1>3, <1>10, <2>1, IdleSound, SoundGrows
  <2>2. CASE mem[w].job = "FINAL"
    <3>1. Recorded("FINAL")' /\ BaselineFails'
      BY <1>0, <1>7, <1>8, <1>10, <2>2, RepairedGrows
         DEF Recorded, Sound, RepairKnown, CallSteps
    <3>2. kind' = "test_repair"
      BY <1>0, <2>2 DEF Sound, KindOf
    <3> QED
      BY <1>1, <1>2, <1>3, <2>2, <3>1, <3>2
         DEF Sound, StepsOf, CommandKnown, RepairKnown, DocumentKnown, CallSteps, KindOf
  <2> QED
    BY <1>0, <2>1, <2>2 DEF Phases
<1>17. \A v \in Checkers \ {w} :
         pc[v] = "exec" /\ mem[v].job \in Phases => ran'[mem[v].job] = 0
  BY <1>0 DEF CompletionInv, Sound, CommandKnown
<1> QED
  BY <1>0, <1>1, <1>2, <1>9, <1>10, <1>11, <1>12, <1>14, <1>15, <1>16, <1>17, StepInv
     DEF Steps

\* Only one checker has the token of the lease.
LEMMA OneLeads ==
    ASSUME CompletionInv, NEW v \in Checkers, NEW w \in Checkers, Leads(v), Leads(w)
    PROVE  v = w
  BY DEF CompletionInv, TokensAreUnique, Leads

\* The report is invalidated: its checker has the lease, has failed the report and
\* there is no verdict yet.
LEMMA InvalidateStep ==
    ASSUME CompletionInv, NEW w \in Checkers, InvalidateStaleReport(w)
    PROVE  CompletionInv'
<1>0. /\ mem[w] \in Memory /\ Sound("invalidate", mem[w]) /\ Typed
      /\ UNCHANGED <<runStatus, callVars, budgetVars, leaseVars, reads, steps, tests,
                     completion, kind, ws, ran, edits, faults>>
      /\ report' = [report EXCEPT !["FINAL"] = "INVALID"]
      /\ Goto(w, "audit", mem[w]) /\ Leads(w)
  BY DEF CompletionInv, Typed, InvalidateStaleReport, InvalidateEvidence, worldVars, storeVars,
         Holds, VerifyLease, Leads
<1>1. mem[w].job = "FINAL" /\ mem[w].failing # {}
  BY <1>0 DEF Sound, StepsOf, CallSteps, RepairKnown
<1>2. completion = NoCompletion
  BY <1>0, <1>1 DEF CompletionInv, VerdictEndsJudging
<1>3. /\ pc' \in [Checkers -> Steps] /\ mem' \in [Checkers -> Memory]
      /\ token' = token /\ pc'[w] = "audit" /\ mem'[w] = mem[w]
      /\ \A v \in Checkers \ {w} : pc'[v] = pc[v] /\ mem'[v] = mem[v]
  BY <1>0, GotoTyped DEF Steps
<1>4. /\ report' \in [Phases -> {"NONE", "VALID", "INVALID"}]
      /\ \A p \in Phases : report[p] # "NONE" => report'[p] # "NONE"
  BY <1>0 DEF Typed, Phases
<1>5. Typed'
  BY <1>0, <1>3, <1>4 DEF Typed, StoreTypeOK, budgetVars, leaseVars, callVars
<1>6. Grows
  BY <1>0 DEF Grows, callVars
<1>7. RanOnce' /\ RecordsAreComplete'
  BY <1>0, <1>4 DEF CompletionInv, RanOnce, RecordsAreComplete, Recorded, callVars
<1>8. \A v \in Checkers : Leads(v)' => v = w
  BY <1>0, <1>3, OneLeads DEF Leads, leaseVars
<1>9. ValidityIsCurrent' /\ VerdictEndsJudging' /\ VerdictIsFounded'
  BY <1>0, <1>1, <1>2, <1>3, <1>8
     DEF ValidityIsCurrent, VerdictEndsJudging, VerdictIsFounded, NoCompletion
<1>10. Sound("audit", mem[w])
  BY <1>0, <1>1 DEF Sound, StepsOf, CommandKnown, RepairKnown, DocumentKnown, CallSteps
<1>11. \A v \in Checkers \ {w} :
         pc[v] = "exec" /\ mem[v].job \in Phases => ran'[mem[v].job] = 0
  BY <1>0 DEF CompletionInv, Sound, CommandKnown
<1> QED
  BY <1>0, <1>5, <1>6, <1>7, <1>9, <1>10, <1>11, StepKeeps DEF Steps

\* What a verdict must be for the invariant: it is written under the lease by a
\* checker that leaves, and it is founded.
LEMMA VerdictKeeps ==
    ASSUME CompletionInv, NEW w \in Checkers, Leads(w), Leave(w),
           UNCHANGED <<storeVars, reads, steps, tests, worldVars>>,
           report' \in [Phases -> {"NONE", "VALID", "INVALID"}],
           \A p \in Phases : report[p] # "NONE" => report'[p] # "NONE",
           completion' \in Verdict, VerdictIsFounded'
    PROVE  CompletionInv'
<1>0. /\ Typed /\ Goto(w, "idle", Blank)
      /\ UNCHANGED <<runStatus, callVars, budgetVars, leaseVars, kind, ws, ran, edits, faults>>
  BY DEF CompletionInv, Leave, storeVars, worldVars
<1>1. /\ pc' \in [Checkers -> Steps] /\ mem' \in [Checkers -> Memory]
      /\ token' = token /\ pc'[w] = "idle" /\ mem'[w] = Blank
      /\ \A v \in Checkers \ {w} : pc'[v] = pc[v] /\ mem'[v] = mem[v]
  BY <1>0, IdleSound, GotoTyped
<1>2. Typed'
  BY <1>0, <1>1 DEF Typed, StoreTypeOK, budgetVars, leaseVars, callVars
<1>3. Grows
  BY <1>0 DEF Grows, callVars
<1>4. RanOnce' /\ RecordsAreComplete'
  BY <1>0 DEF CompletionInv, RanOnce, RecordsAreComplete, Recorded, callVars
<1>5. \A v \in Checkers : Leads(v)' => v = w
  BY <1>0, <1>1, OneLeads DEF Leads, leaseVars
<1>6. ValidityIsCurrent' /\ VerdictEndsJudging'
  BY <1>1, <1>5, BlankTyped DEF ValidityIsCurrent, VerdictEndsJudging
<1>7. \A v \in Checkers \ {w} :
         pc[v] = "exec" /\ mem[v].job \in Phases => ran'[mem[v].job] = 0
  BY <1>0 DEF CompletionInv, Sound, CommandKnown
<1> QED
  BY <1>0, <1>2, <1>3, <1>4, <1>6, <1>7, IdleSound, StepKeeps

\* A verdict is a terminal acceptance.
LEMMA StatusTyped ==
    ASSUME NEW F
    PROVE  AcceptanceStatus(F) \in TerminalAcceptance /\ (AcceptanceStatus(F) = "ACCEPTED" => F = {})
  BY DEF AcceptanceStatus, TerminalAcceptance

\* The verdict on a test repair.
LEMMA TestVerdictStep ==
    ASSUME CompletionInv, NEW w \in Checkers, PersistTestCompletion(w)
    PROVE  CompletionInv'
<1> DEFINE stale == Recorded("FINAL") /\ ws # tests["FINAL"].post
           F == FinalChecks(mem[w])
           c == [status |-> AcceptanceStatus(F), on |-> ws, doc |-> "NONE", inspected |-> "NONE"]
<1>0. /\ mem[w] \in Memory /\ Sound("verdict", mem[w]) /\ Typed /\ Leads(w)
      /\ mem[w].job = "FINAL" /\ Leave(w)
      /\ UNCHANGED <<storeVars, reads, steps, tests, worldVars>>
      /\ completion' = c
      /\ IF stale THEN report' = [report EXCEPT !["FINAL"] = "INVALID"] ELSE report' = report
  BY DEF CompletionInv, Typed, PersistTestCompletion, RecordCompletion, InvalidateEvidence,
         Holds, VerifyLease, Leads
<1>1. F = {} => ~stale /\ mem[w].failing = {}
  BY DEF FinalChecks
<1> HIDE DEF F
<1>2. /\ c \in Verdict /\ c.status # "NOT_EVALUATED" /\ c.on = ws
      /\ c.status = "ACCEPTED" => F = {}
  BY <1>0, StatusTyped DEF Verdict, Typed, Space, Text, TerminalAcceptance
<1> HIDE DEF c
<1>3. /\ report' \in [Phases -> {"NONE", "VALID", "INVALID"}]
      /\ \A p \in Phases : report[p] # "NONE" => report'[p] # "NONE"
  BY <1>0 DEF Typed, Phases
<1>4. kind' = "test_repair" /\ kind = "test_repair"
  BY <1>0 DEF Sound, KindOf, worldVars
<1>5. ASSUME F = {}
      PROVE  Repaired /\ ws = tests["FINAL"].post /\ report["FINAL"] = "VALID" /\ report' = report
  <2>1. Repaired /\ mem[w].valid /\ mem[w].failing = {}
    BY <1>0, <1>1, <1>5 DEF Sound, RepairKnown
  <2>2. report["FINAL"] = "VALID"
    BY <1>0, <2>1 DEF CompletionInv, ValidityIsCurrent
  <2>3. Recorded("FINAL") /\ ~stale
    BY <1>1, <1>5, <2>1 DEF Repaired
  <2> QED
    BY <1>0, <2>1, <2>2, <2>3
<1>6. Grows
  BY <1>0 DEF Grows, storeVars, callVars, worldVars
<1>7. VerdictIsFounded'
  BY <1>0, <1>2, <1>4, <1>5, <1>6, RepairedGrows DEF VerdictIsFounded
<1> QED
  BY <1>0, <1>2, <1>3, <1>7, VerdictKeeps

\* The verdict on a code understanding.
LEMMA DocumentVerdictStep ==
    ASSUME CompletionInv, NEW w \in Checkers, PersistCompletion(w)
    PROVE  CompletionInv'
<1> DEFINE c == [status |-> AcceptanceStatus(mem[w].failing), on |-> ws, doc |-> mem[w].doc,
                 inspected |-> mem[w].inspected]
<1>0. /\ mem[w] \in Memory /\ Sound("verdict", mem[w]) /\ Typed /\ Leads(w)
      /\ mem[w].job = "INSPECT" /\ Leave(w)
      /\ UNCHANGED <<storeVars, reads, steps, report, tests, worldVars>>
      /\ completion' = c
  BY DEF CompletionInv, Typed, PersistCompletion, RecordCompletion, Holds, VerifyLease, Leads
<1>1. mem[w].doc \in Text /\ mem[w].inspected \in Text
  BY <1>0 DEF Memory
<1>2. /\ c \in Verdict /\ c.status # "NOT_EVALUATED" /\ c.inspected = mem[w].inspected
      /\ c.status = "ACCEPTED" => mem[w].failing = {}
  BY <1>0, <1>1, StatusTyped DEF Verdict, Typed, Space, TerminalAcceptance
<1> HIDE DEF c
<1>3. /\ report' \in [Phases -> {"NONE", "VALID", "INVALID"}]
      /\ \A p \in Phases : report[p] # "NONE" => report'[p] # "NONE"
  BY <1>0 DEF Typed
<1>4. kind' = "code_understanding"
  BY <1>0 DEF Sound, KindOf, worldVars
<1>5. mem[w].failing = {} => DocumentRead(mem[w].inspected)
  BY <1>0 DEF Sound, DocumentKnown
<1>6. VerdictIsFounded'
  BY <1>0, <1>2, <1>4, <1>5 DEF VerdictIsFounded, DocumentRead
<1> QED
  BY <1>0, <1>2, <1>3, <1>6, VerdictKeeps

-------------------------------------------------------------------------------
(* The harness around the checker *)

\* Nothing that the invariant is about changes but the run, the reads, the workspace
\* or the liveness of the lease.
LEMMA WorldKeeps ==
    ASSUME CompletionInv, Typed', reads \subseteq reads',
           UNCHANGED <<callVars, leaseToken, leasesIssued, report, tests, completion, kind, ran,
                       checkerVars>>
    PROVE  CompletionInv'
<1>1. Grows
  BY DEF Grows, callVars
<1>2. token' = token /\ pc' = pc /\ mem' = mem
  BY DEF checkerVars
<1>3. TokensAreUnique' /\ OneStarts' /\ RecordsAreComplete' /\ RanOnce'
  BY <1>2 DEF CompletionInv, TokensAreUnique, OneStarts, RecordsAreComplete, RanOnce, Recorded,
              callVars
<1>4. ValidityIsCurrent' /\ VerdictEndsJudging'
  BY <1>2 DEF CompletionInv, ValidityIsCurrent, VerdictEndsJudging, Leads
<1>5. VerdictIsFounded'
  BY <1>1, RepairedGrows, DocumentGrows DEF CompletionInv, VerdictIsFounded, DocumentRead, Grows
<1>6. ASSUME NEW v \in Checkers PROVE Sound(pc[v], mem[v])'
  <2>1. Sound(pc[v], mem[v])
    BY DEF CompletionInv
  <2>2. pc[v] = "exec" /\ mem[v].job \in Phases => ran'[mem[v].job] = 0
    BY <2>1 DEF Sound, CommandKnown
  <2> QED
    BY <1>1, <1>2, <2>1, <2>2, SoundGrows
<1> QED
  BY <1>3, <1>4, <1>5, <1>6 DEF CompletionInv

\* The steps of the driver, the agent, the editor and the clock.
LEMMA WorldStep ==
    ASSUME CompletionInv,
           \/ \E w \in Checkers, to \in RunStatus : MoveRun(w, to)
           \/ \E r \in Ranges : AgentReads(r)
           \/ \E new \in Workspaces : Edit(new)
           \/ Expire
           \/ UNCHANGED vars
    PROVE  CompletionInv'
<1>0. Typed
  BY DEF CompletionInv
<1>1. CASE \E w \in Checkers, to \in RunStatus : MoveRun(w, to)
  <2>1. /\ runStatus' \in RunStatus
        /\ UNCHANGED <<callVars, budgetVars, leaseVars, factVars, worldVars, checkerVars>>
    BY <1>1 DEF MoveRun, TransitionRun
  <2>2. Typed'
    BY <1>0, <2>1 DEF Typed, StoreTypeOK, callVars, budgetVars, leaseVars, factVars, worldVars,
                      checkerVars
  <2> QED
    BY <2>1, <2>2, WorldKeeps DEF leaseVars, factVars, worldVars
<1>2. CASE \E r \in Ranges : AgentReads(r)
  <2>1. PICK r \in Ranges : AgentReads(r)
    BY <1>2
  <2>2. ws.other \in Contents
    BY <1>0, CompletionAssumption DEF Typed
  <2>3. Typed'
    BY <1>0, <2>1, <2>2
       DEF Typed, StoreTypeOK, AgentReads, storeVars, callVars, budgetVars, leaseVars, worldVars,
           checkerVars
  <2> QED
    BY <2>1, <2>3, WorldKeeps DEF AgentReads, storeVars, leaseVars, worldVars
<1>3. CASE \E new \in Workspaces : Edit(new)
  <2>1. PICK new \in Workspaces : Edit(new)
    BY <1>3
  <2>2. edits' \in 0..MaxEdits
    BY <1>0, <2>1, CompletionAssumption DEF Typed, Edit
  <2>3. Typed'
    BY <1>0, <2>1, <2>2
       DEF Typed, StoreTypeOK, Edit, storeVars, callVars, budgetVars, leaseVars, factVars,
           checkerVars
  <2> QED
    BY <2>1, <2>3, WorldKeeps DEF Edit, storeVars, leaseVars, factVars
<1>4. CASE Expire
  <2>1. Typed'
    BY <1>0, <1>4
       DEF Typed, StoreTypeOK, Expire, LeaseExpires, callVars, budgetVars, factVars, worldVars,
           checkerVars
  <2> QED
    BY <1>4, <2>1, WorldKeeps DEF Expire, LeaseExpires, factVars, worldVars
<1>5. CASE UNCHANGED vars
  <2>1. UNCHANGED <<storeVars, factVars, worldVars, checkerVars>>
    BY <1>5 DEF vars
  <2>2. Typed'
    BY <1>0, <2>1
       DEF Typed, StoreTypeOK, storeVars, callVars, budgetVars, leaseVars, factVars, worldVars,
           checkerVars
  <2> QED
    BY <2>1, <2>2, WorldKeeps DEF storeVars, leaseVars, factVars, worldVars
<1> QED
  BY <1>1, <1>2, <1>3, <1>4, <1>5

\* A process stops: it knows nothing any more.
LEMMA CrashStep ==
    ASSUME CompletionInv, NEW w \in Checkers, Crash(w)
    PROVE  CompletionInv'
<1>0. /\ Typed /\ UNCHANGED <<storeVars, factVars, worldVars>>
      /\ token' = [token EXCEPT ![w] = 0] /\ pc' = [pc EXCEPT ![w] = "idle"]
      /\ mem' = [mem EXCEPT ![w] = Blank]
  BY DEF CompletionInv, Crash
<1>1. /\ token' \in [Checkers -> {0} \cup Tokens] /\ pc' \in [Checkers -> Steps]
      /\ mem' \in [Checkers -> Memory]
      /\ token'[w] = 0 /\ pc'[w] = "idle" /\ mem'[w] = Blank
      /\ \A v \in Checkers \ {w} : token'[v] = token[v] /\ pc'[v] = pc[v] /\ mem'[v] = mem[v]
  BY <1>0, IdleSound DEF Typed
<1>2. Typed'
  BY <1>0, <1>1
     DEF Typed, StoreTypeOK, storeVars, callVars, budgetVars, leaseVars, factVars, worldVars
<1>3. Grows
  BY <1>0 DEF Grows, storeVars, callVars, factVars, worldVars
<1>4. TokensAreUnique'
  <2>1. leaseToken' = leaseToken /\ leasesIssued' = leasesIssued /\ leasesIssued \in Nat
    BY <1>0, StoreAssumption DEF storeVars, leaseVars, Typed, StoreTypeOK
  <2> QED
    BY <1>1, <2>1 DEF CompletionInv, TokensAreUnique
<1>5. OneStarts' /\ RecordsAreComplete' /\ RanOnce'
  BY <1>0, <1>1 DEF CompletionInv, OneStarts, RecordsAreComplete, RanOnce, Recorded,
                    storeVars, callVars, factVars, worldVars
<1>6. \A v \in Checkers : Leads(v)' => v # w /\ Leads(v)
  BY <1>0, <1>1 DEF Leads, storeVars, leaseVars
<1>7. ValidityIsCurrent' /\ VerdictEndsJudging'
  BY <1>0, <1>1, <1>6 DEF CompletionInv, ValidityIsCurrent, VerdictEndsJudging, factVars
<1>8. VerdictIsFounded'
  BY <1>0, <1>3, RepairedGrows
     DEF CompletionInv, VerdictIsFounded, DocumentRead, factVars, worldVars
<1>9. ASSUME NEW v \in Checkers PROVE Sound(pc[v], mem[v])'
  <2>1. CASE v = w
    BY <1>1, <1>3, <2>1, IdleSound, SoundGrows
  <2>2. CASE v # w
    <3>1. Sound(pc[v], mem[v]) /\ pc'[v] = pc[v] /\ mem'[v] = mem[v] /\ ran' = ran
      BY <1>0, <1>1, <2>2 DEF CompletionInv, worldVars
    <3>2. pc[v] = "exec" /\ mem[v].job \in Phases => ran'[mem[v].job] = 0
      BY <3>1 DEF Sound, CommandKnown
    <3> QED
      BY <1>3, <3>1, <3>2, SoundGrows
  <2> QED
    BY <2>1, <2>2
<1> QED
  BY <1>2, <1>4, <1>5, <1>7, <1>8, <1>9 DEF CompletionInv

\* A process takes the lease: it starts with nothing in memory.
LEMMA AcquireStep ==
    ASSUME CompletionInv, NEW w \in Checkers, Acquire(w)
    PROVE  CompletionInv'
<1>0. /\ Typed /\ UNCHANGED <<runStatus, callVars, budgetVars, factVars, worldVars, pc, mem>>
      /\ leasesIssued' = leasesIssued + 1 /\ leaseToken' = leasesIssued + 1 /\ leaseLive' = TRUE
      /\ leasesIssued < MaxLeases
      /\ token' = [token EXCEPT ![w] = leasesIssued + 1] /\ mem[w] = Blank
  BY DEF CompletionInv, Acquire, AcquireLease, Sound
<1>1. leasesIssued \in Nat /\ leasesIssued + 1 \in Tokens /\ leasesIssued + 1 \in 0..MaxLeases
  BY <1>0, StoreAssumption DEF Typed, StoreTypeOK, Tokens
<1>2. /\ token' \in [Checkers -> {0} \cup Tokens] /\ token'[w] = leasesIssued + 1
      /\ \A v \in Checkers \ {w} : token'[v] = token[v]
  BY <1>0, <1>1 DEF Typed
<1>3. Typed'
  BY <1>0, <1>1, <1>2 DEF Typed, StoreTypeOK, callVars, budgetVars, factVars, worldVars
<1>4. Grows
  BY <1>0 DEF Grows, callVars, factVars, worldVars
<1>5. \A v \in Checkers : token[v] \in Nat /\ token[v] <= leasesIssued
  BY <1>0, <1>1, StoreAssumption DEF CompletionInv, TokensAreUnique, Typed, Tokens
<1>6. TokensAreUnique'
  BY <1>0, <1>1, <1>2, <1>5 DEF CompletionInv, TokensAreUnique
<1>7. OneStarts' /\ RecordsAreComplete' /\ RanOnce'
  BY <1>0 DEF CompletionInv, OneStarts, RecordsAreComplete, RanOnce, Recorded, callVars,
              factVars, worldVars
<1>8. \A v \in Checkers : Leads(v)' => v = w
  BY <1>0, <1>1, <1>2, <1>5 DEF Leads
<1>9. ValidityIsCurrent' /\ VerdictEndsJudging'
  BY <1>0, <1>8, BlankTyped DEF ValidityIsCurrent, VerdictEndsJudging
<1>10. VerdictIsFounded'
  BY <1>0, <1>4, RepairedGrows
     DEF CompletionInv, VerdictIsFounded, DocumentRead, factVars, worldVars
<1>11. ASSUME NEW v \in Checkers PROVE Sound(pc[v], mem[v])'
  <2>1. Sound(pc[v], mem[v]) /\ pc' = pc /\ mem' = mem /\ ran' = ran
    BY <1>0 DEF CompletionInv, worldVars
  <2>2. pc[v] = "exec" /\ mem[v].job \in Phases => ran'[mem[v].job] = 0
    BY <2>1 DEF Sound, CommandKnown
  <2> QED
    BY <1>4, <2>1, <2>2, SoundGrows
<1> QED
  BY <1>3, <1>6, <1>7, <1>9, <1>10, <1>11 DEF CompletionInv

-------------------------------------------------------------------------------
(* Theorems *)

\* The invariant holds when the run is created.
LEMMA InitInv == Init => CompletionInv
<1> SUFFICES ASSUME Init PROVE CompletionInv
  OBVIOUS
<1>1. NoReport \in RawReports /\ NoWorkspace \in Space /\ "NONE" \in Text /\ NoNodes \in Parsed
  BY DEF RawReports, Space, Text, Parsed
<1>2. NoExecution \in Execution
  <2>1. NoReport.exit = 0
    BY DEF NoReport
  <2> QED
    BY <1>1, <2>1 DEF NoExecution, Execution
<1>3. NoCompletion \in Verdict
  BY <1>1 DEF NoCompletion, Verdict
<1>4. StoreTypeOK /\ leaseToken = 1 /\ leasesIssued = 1 /\ callStatus = [c \in Calls |-> "NONE"]
  BY StoreAssumption DEF Init, StoreInit, StoreTypeOK, RunStatus, Tokens
<1>5. /\ 1 \in Tokens /\ MaxEdits \in Nat /\ MaxFaults \in Nat
      /\ token = [w \in Checkers |-> IF w = Creator THEN 1 ELSE 0]
  BY StoreAssumption, CompletionAssumption DEF Tokens, Init
<1>6. token \in [Checkers -> {0} \cup Tokens]
  BY <1>5
<1>7. pc \in [Checkers -> Steps] /\ mem \in [Checkers -> Memory]
  BY IdleSound DEF Init
<1>8. tests \in [Phases -> Execution] /\ report \in [Phases -> {"NONE", "VALID", "INVALID"}]
      /\ ran \in [Phases -> Nat]
  BY <1>2 DEF Init
<1>9. Typed
  BY <1>3, <1>4, <1>5, <1>6, <1>7, <1>8, CompletionAssumption DEF Init, Typed
<1>10. TokensAreUnique
  BY <1>4, <1>5 DEF TokensAreUnique
<1>11. RanOnce /\ OneStarts /\ RecordsAreComplete
  BY DEF Init, RanOnce, OneStarts, RecordsAreComplete, Recorded
<1>12. ValidityIsCurrent /\ VerdictEndsJudging
  BY BlankTyped DEF Init, ValidityIsCurrent, VerdictEndsJudging
<1>13. VerdictIsFounded
  BY DEF Init, VerdictIsFounded, NoCompletion
<1>14. \A w \in Checkers : Sound(pc[w], mem[w])
  BY IdleSound DEF Init
<1> QED
  BY <1>9, <1>10, <1>11, <1>12, <1>13, <1>14 DEF CompletionInv

\* Every step keeps it.
LEMMA NextInv == CompletionInv /\ [Next]_vars => CompletionInv'
<1> SUFFICES ASSUME CompletionInv, [Next]_vars PROVE CompletionInv'
  OBVIOUS
<1>1. ASSUME NEW w \in Checkers, Work(w) PROVE CompletionInv'
  BY <1>1, EnsureStep, LoadStep, CaptureStep, AdmitStep, PrepareStep, StartStep, CommandStep,
     InspectStep, ResultStep, ConfirmBaselineStep, ConfirmFinalStep, RecordStep, JudgeStep,
     InvalidateStep, VerifyStep, TestVerdictStep, DocumentSteps, DocumentVerdictStep, AbortStep
     DEF Work
<1>2. ASSUME NEW w \in Checkers,
             BeginCapture(w) \/ BeginEvaluation(w) \/ UnitFaults(w) \/ Crash(w) \/ Acquire(w)
      PROVE  CompletionInv'
  BY <1>2, BeginStep, AbortStep, CrashStep, AcquireStep
<1>3. CASE \/ \E w \in Checkers, to \in RunStatus : MoveRun(w, to)
           \/ \E r \in Ranges : AgentReads(r)
           \/ \E new \in Workspaces : Edit(new)
           \/ Expire
           \/ UNCHANGED vars
  BY <1>3, WorldStep
<1> QED
  BY <1>1, <1>2, <1>3 DEF Next

\* What the checkers rely on holds in every state.
LEMMA InvHolds == Spec => []CompletionInv
<1>1. Init => CompletionInv
  BY InitInv
<1>2. CompletionInv /\ [Next]_vars => CompletionInv'
  BY NextInv
<1> QED
  BY <1>1, <1>2, PTL DEF Spec

\* Records and memories keep their types; a recorded execution has nodes and an
\* evidence row, and a judgement starts only when both executions are recorded.
THEOREM CompletionTypes == Spec => []CompletionTypeOK
<1>1. ASSUME CompletionInv PROVE CompletionTypeOK
  <2>1. ASSUME NEW w \in Checkers
        PROVE  /\ mem[w].job \in Calls \cup {"NONE"} /\ mem[w].failing \subseteq Failures
               /\ pc[w] # "idle" => mem[w].job # "NONE"
               /\ pc[w] = "judge" => Recorded("BASELINE") /\ Recorded("FINAL")
    <3>1. mem[w] \in Memory /\ Sound(pc[w], mem[w])
      BY <1>1 DEF CompletionInv, Typed
    <3>2. pc[w] = "judge" => mem[w].job = "FINAL"
      BY <3>1 DEF Sound, StepsOf, CallSteps
    <3> QED
      BY <3>1, <3>2 DEF Memory, Sound, StepsOf, RepairKnown, BaselineFails
  <2>2. completion.status \in TerminalAcceptance \cup {"NOT_EVALUATED"}
    BY <1>1 DEF CompletionInv, Typed, Verdict
  <2> QED
    BY <1>1, <2>1, <2>2 DEF CompletionInv, Typed, RecordsAreComplete, CompletionTypeOK
<1> QED
  BY <1>1, InvHolds, PTL

\* A test repair is accepted for the workspace its final tests ran on.
THEOREM AcceptedWhereTested == Spec => []AcceptedAsTested
<1>1. ASSUME CompletionInv PROVE AcceptedAsTested
  BY <1>1 DEF CompletionInv, VerdictIsFounded, AcceptedAsTested, AcceptedRepair, Repaired,
              TestScope
<1> QED
  BY <1>1, InvHolds, PTL

\* An accepted repair had failing tests and repaired them in full.
THEOREM AcceptedIsRepaired == Spec => []AcceptedRepairIsComplete
<1>1. ASSUME CompletionInv PROVE AcceptedRepairIsComplete
  <2> SUFFICES ASSUME AcceptedRepair
               PROVE  /\ \E k \in DOMAIN tests["BASELINE"].nodes :
                            tests["BASELINE"].nodes[k] \in Failing
                      /\ RepairedInFull(tests["BASELINE"].nodes, tests["FINAL"].nodes)
    BY DEF AcceptedRepairIsComplete
  <2>1. Repaired
    BY <1>1 DEF CompletionInv, VerdictIsFounded, AcceptedRepair
  <2>2. tests["FINAL"].nodes \in Parsed
    BY <1>1 DEF CompletionInv, Typed, Execution, Phases
  <2>3. RepairedInFull(tests["BASELINE"].nodes, tests["FINAL"].nodes)
    BY <2>1, <2>2, ComparisonSound DEF Repaired, NodesRepaired
  <2> QED
    BY <2>1, <2>3 DEF Repaired, BaselineFails
<1> QED
  BY <1>1, InvHolds, PTL

\* The report behind an acceptance has never been found stale.
THEOREM AcceptedOnValidReport == Spec => []AcceptedEvidenceStands
<1>1. ASSUME CompletionInv PROVE AcceptedEvidenceStands
  BY <1>1 DEF CompletionInv, VerdictIsFounded, AcceptedEvidenceStands, AcceptedRepair
<1> QED
  BY <1>1, InvHolds, PTL

\* An accepted document cites only what was read, if the sweep over the ranges is
\* sound (SweepIsSound, which TLC evaluates, has it for the ranges of the instance).
THEOREM AcceptedIsRead ==
    ASSUME SweepSound
    PROVE  Spec => []AcceptedDocumentWasRead
<1>1. ASSUME CompletionInv PROVE AcceptedDocumentWasRead
  BY <1>1 DEF CompletionInv, VerdictIsFounded, AcceptedDocumentWasRead, DocumentRead
<1> QED
  BY <1>1, InvHolds, PTL

\* Each verification command starts at most once, one verdict is given and kept, and
\* an acceptance comes after both commands: every step of the checkers is a step of
\* Acceptance or changes nothing it sees.
THEOREM ImplementsAbstraction == Spec => ImplementsAcceptance
<1>1. Init => AcceptanceSpec!Init
  BY DEF Init, AcceptanceSpec!Init, AcceptanceSpec!Phases, Phases, NoCompletion
<1>2. ASSUME CompletionInv, CompletionInv', [Next]_vars
      PROVE  [AcceptanceSpec!Next]_(AcceptanceSpec!vars)
  <2>1. CASE UNCHANGED <<kind, ran, completion>>
    BY <2>1 DEF AcceptanceSpec!vars
  <2>2. ASSUME NEW w \in Checkers, RunTestCommand(w), ran' # ran
        PROVE  AcceptanceSpec!Next
    <3>1. /\ mem[w].job \in Phases /\ ran' = [ran EXCEPT ![mem[w].job] = @ + 1]
          /\ kind' = kind /\ completion' = completion
      BY <2>2 DEF RunTestCommand, factVars
    <3>2. ran[mem[w].job] = 0 /\ kind = "test_repair"
      BY <1>2, <2>2, <3>1
         DEF CompletionInv, Sound, CommandKnown, RunTestCommand, KindOf, Phases
    <3>3. ran' = [ran EXCEPT ![mem[w].job] = 1]
      BY <3>1, <3>2
    <3>4. AcceptanceSpec!RunTests(mem[w].job)
      BY <3>1, <3>2, <3>3 DEF AcceptanceSpec!RunTests
    <3> QED
      BY <3>1, <3>4 DEF AcceptanceSpec!Next, AcceptanceSpec!Phases, Phases
  <2>3. ASSUME NEW w \in Checkers, PersistTestCompletion(w) \/ PersistCompletion(w)
        PROVE  AcceptanceSpec!Next
    <3>1. /\ completion = NoCompletion /\ kind' = kind /\ ran' = ran
          /\ completion'.status \in TerminalAcceptance
      BY <2>3, StatusTyped
         DEF PersistTestCompletion, PersistCompletion, RecordCompletion, worldVars
    <3>2. completion'.status = "ACCEPTED" /\ kind = "test_repair" =>
             ran["BASELINE"] = 1 /\ ran["FINAL"] = 1
      <4>1. completion'.status = "ACCEPTED" /\ kind = "test_repair" => Repaired'
        BY <1>2, <3>1 DEF CompletionInv, VerdictIsFounded
      <4>2. Repaired' => Recorded("BASELINE")' /\ Recorded("FINAL")'
        BY DEF Repaired, BaselineFails
      <4>3. \A p \in Phases : Recorded(p)' => ran'[p] = 1
        BY <1>2 DEF CompletionInv, RanOnce
      <4> QED
        BY <3>1, <4>1, <4>2, <4>3 DEF Phases
    <3>3. AcceptanceSpec!Decide(completion'.status)
      BY <3>1, <3>2 DEF AcceptanceSpec!Decide, AcceptanceSpec!Phases, NoCompletion
    <3> QED
      BY <3>1, <3>3 DEF AcceptanceSpec!Next, AcceptanceSpec!TerminalAcceptance, TerminalAcceptance
  <2>4. ASSUME NEW w \in Checkers, Work(w)
        PROVE  \/ UNCHANGED <<kind, ran, completion>>
               \/ RunTestCommand(w) /\ ran' # ran
               \/ PersistTestCompletion(w) \/ PersistCompletion(w)
    <3>1. RunTestCommand(w) => kind' = kind /\ completion' = completion
      BY DEF RunTestCommand, factVars
    <3>2. RunTestCommand(w) \/ PersistTestCompletion(w) \/ PersistCompletion(w)
          \/ UNCHANGED <<kind, ran, completion>>
      BY <2>4
         DEF Work, EnsureInternalStep, LoadEvaluation, CaptureWorkspace, AdmitInternal,
             PrepareInternal, MarkStarted, InspectFile, PersistResult, ConfirmBaseline,
             RecordBaseline, ConfirmFinal, RecordFinal, Judge, InvalidateStaleReport,
             VerifyChain, ReadDeliverable, DeliverableChecks, WorkspaceChecks, UnitFails,
             factVars, worldVars
    <3> QED
      BY <3>1, <3>2
  <2>5. ASSUME NEW w \in Checkers,
               BeginCapture(w) \/ BeginEvaluation(w) \/ UnitFaults(w) \/ Crash(w) \/ Acquire(w)
        PROVE  UNCHANGED <<kind, ran, completion>>
    BY <2>5
       DEF BeginCapture, BeginEvaluation, BeginTestRepair, BeginCodeUnderstanding, UnitFaults,
           Crash, Acquire, factVars, worldVars
  <2>6. CASE \/ \E w \in Checkers, to \in RunStatus : MoveRun(w, to)
             \/ \E r \in Ranges : AgentReads(r)
             \/ \E new \in Workspaces : Edit(new)
             \/ Expire
             \/ UNCHANGED vars
    <3>1. UNCHANGED <<kind, ran, completion>>
      BY <2>6 DEF MoveRun, AgentReads, Edit, Expire, vars, factVars, worldVars
    <3> QED
      BY <2>1, <3>1
  <2> QED
    BY <1>2, <2>1, <2>2, <2>3, <2>4, <2>5, <2>6 DEF Next
<1> QED
  BY <1>1, <1>2, InvHolds, PTL DEF Spec, ImplementsAcceptance, AcceptanceSpec!Spec

===============================================================================
