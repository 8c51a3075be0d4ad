--------------------------------- MODULE Gate ---------------------------------
(***************************************************************************)
(* The execution Gate (gate.py) over the state and approval stores.        *)
(*                                                                         *)
(* A worker is a harness process: it holds a lease token and drives one    *)
(* Gate, whose per-run lock lets one call through at a time.  A call reads *)
(* a snapshot in one unit of work, decides on it, and then goes through    *)
(* separate units (open, wait, claim or prepare; start; persist) with the  *)
(* handler running outside any of them.  Between two of these steps        *)
(* anything may happen: an approver decides, the lease or the approval     *)
(* runs out, another worker takes the run over, the process crashes.       *)
(*                                                                         *)
(* Intents are the calls that pass the checks of the Gate that read no     *)
(* run state (registry, visibility, schema, normalisation, permission and  *)
(* risk): a call that fails one of them is denied before it writes         *)
(* anything.  A denial only appends an audit event, so a call denied on    *)
(* its snapshot is no step here.                                           *)
(***************************************************************************)
EXTENDS ApprovalStore

CONSTANTS
    Workers,        \* harness processes
    Risk,           \* spec.risk by intent
    NeedsApproval,  \* policy.requires_approval by intent
    Idempotent,     \* spec.idempotent by intent
    ReadLimit       \* policy.execution_limit for READ tools

ASSUME GateAssumption ==
    /\ Workers # {}
    /\ Risk \in [Intents -> ToolRisk]
    /\ NeedsApproval \in [Intents -> BOOLEAN]
    /\ Idempotent \in [Intents -> BOOLEAN]
    /\ ReadLimit \in Nat \ {0}

VARIABLES
    token,          \* the lease token each worker holds in memory, 0 if none
    pc,             \* what the Gate call of each worker does next
    req,            \* the request and the approval read with its snapshot
    result,         \* the mapped handler result that is to be persisted
    executions,     \* history: handler calls by intent
    toldExpired     \* history: approvals a caller was told have expired

workerVars == <<token, pc, req, result>>
gateVars   == <<workerVars, executions, toldExpired>>

\* Steps that are one unit of work of a call.
UnitSteps == {"check", "open", "wait", "claim", "prepare",
              "recover", "resume", "start", "persist"}

Steps == UnitSteps \cup {"idle", "exec"}

Request == [call : Calls, intent : Intents, approved : BOOLEAN]

NoRequest == [call |-> "NONE", intent |-> NoIntent, approved |-> FALSE]

GateTypeOK ==
    /\ token \in [Workers -> {0} \cup Tokens]
    /\ pc \in [Workers -> Steps]
    /\ req \in [Workers -> Request \cup {NoRequest}]
    /\ \A w \in Workers : pc[w] # "idle" => req[w] \in Request
    /\ result \in [Workers -> TerminalInvocation \cup {"NONE"}]
    /\ \A w \in Workers : pc[w] = "persist" => result[w] # "NONE"
    /\ executions \in [Intents -> Nat]
    /\ toldExpired \subseteq Calls

GateInit ==
    /\ \E w \in Workers : token = [v \in Workers |-> IF v = w THEN 1 ELSE 0]
    /\ pc = [w \in Workers |-> "idle"]
    /\ req = [w \in Workers |-> NoRequest]
    /\ result = [w \in Workers |-> "NONE"]
    /\ executions = [i \in Intents |-> 0]
    /\ toldExpired = {}

Holds(w) == VerifyLease(token[w])

Goto(w, step) == pc' = [pc EXCEPT ![w] = step]

\* The call returns to the agent.
Return(w) ==
    /\ pc' = [pc EXCEPT ![w] = "idle"]
    /\ req' = [req EXCEPT ![w] = NoRequest]
    /\ result' = [result EXCEPT ![w] = "NONE"]
    /\ UNCHANGED token

-------------------------------------------------------------------------------
(* Decisions on the snapshot *)

\* Mutant: a call that is still running is not counted.
SettledAttempts(i) ==
    {c \in Calls : callIntent[c] = i /\ callStatus[c] \in TerminalInvocation}

\* The equivalent calls that have left PREPARED.
Attempts(i) ==
    {c \in Calls : callIntent[c] = i /\ callStatus[c] \notin {"NONE", "PREPARED"}}

\* Mutant: one execution too many.
MayRepeatOnceMore(i) ==
    /\ Risk[i] # "READ" => Attempts(i) = {}
    /\ Cardinality(Attempts(i)) <= ReadLimit

\* _check_repeat_and_replay
MayRepeat(i) ==
    /\ Risk[i] # "READ" => Attempts(i) = {}
    /\ Cardinality(Attempts(i)) < ReadLimit

\* _check_budget, the tool-call part
WithinBudget == usedToolCalls < MaxToolCalls

\* _invoke_locked up to the approval: the run may execute, the id is not bound
\* to another intent, the call has not started, and an equivalent write with
\* another id is refused before it can ask for an approval.
Admitted(c, i) ==
    /\ runStatus \in {"RUNNING", "WAITING_APPROVAL"}
    /\ callStatus[c] \in {"NONE", "PREPARED"}
    /\ callStatus[c] = "PREPARED" => callIntent[c] = i
    /\ callStatus[c] = "NONE" /\ Risk[i] # "READ" => Attempts(i) = {}

\* _invoke_locked from the approval on: the unit of work the call goes to.
Routed(c, i, step) ==
    /\ Admitted(c, i)
    /\ \/ /\ step = "wait"
          /\ apprStatus[c] = "PENDING"
       \/ /\ step = "open"
          /\ apprStatus[c] = "NONE" /\ NeedsApproval[i]
       \/ /\ step = "claim"
          /\ apprStatus[c] = "APPROVED"
          /\ MayRepeat(i) /\ WithinBudget
       \/ /\ step = "prepare"
          /\ apprStatus[c] = "NONE" /\ ~NeedsApproval[i]
          /\ callStatus[c] = "NONE"
          /\ MayRepeat(i) /\ WithinBudget

\* Mutant: a PREPARED call is recovered whatever its approval says.
RecoversUnasked(c, step) ==
    /\ callStatus[c] = "PREPARED"
    /\ MayRepeat(callIntent[c])
    /\ step = "recover"
    /\ runStatus \in {"RUNNING", "WAITING_APPROVAL"}

\* _reenter_prepared_locked: the unit a recovered PREPARED call goes to.  A
\* call whose approval is PENDING is answered WAITING_APPROVAL.
Recovers(c, step) ==
    /\ callStatus[c] = "PREPARED"
    /\ MayRepeat(callIntent[c])
    /\ \/ /\ step = "recover"
          /\ apprStatus[c] = "NONE" /\ runStatus = "RUNNING"
       \/ /\ step = "resume"
          /\ \/ apprStatus[c] = "APPROVED" /\ runStatus = "WAITING_APPROVAL"
             \/ apprStatus[c] = "CLAIMED" /\ runStatus = "RUNNING"

\* invoke with a request that is not denied on its snapshot
Invoke(w, c, i) ==
    /\ pc[w] = "idle"
    /\ Holds(w)
    /\ \E step \in UnitSteps : Routed(c, i, step) /\ Goto(w, step)
    /\ req' = [req EXCEPT ![w] = [call |-> c, intent |-> i,
                                  approved |-> apprStatus[c] # "NONE"]]
    /\ UNCHANGED <<storeVars, apprVars, token, result, executions, toldExpired>>

\* reenter_prepared with a call that is not denied on its snapshot
ReenterPrepared(w, c) ==
    /\ pc[w] = "idle"
    /\ Holds(w)
    /\ \E step \in UnitSteps : Recovers(c, step) /\ Goto(w, step)
    /\ req' = [req EXCEPT ![w] = [call |-> c, intent |-> callIntent[c],
                                  approved |-> apprStatus[c] # "NONE"]]
    /\ UNCHANGED <<storeVars, apprVars, token, result, executions, toldExpired>>

\* _invoke_locked entered again after the approval was granted meanwhile
CheckAgain(w) ==
    /\ pc[w] = "check"
    /\ Holds(w)
    /\ \E step \in UnitSteps :
          Routed(req[w].call, req[w].intent, step) /\ Goto(w, step)
    /\ UNCHANGED <<storeVars, apprVars, token, req, result, executions, toldExpired>>

-------------------------------------------------------------------------------
(* Units of work *)

\* Mutant: the intent is written in a unit of its own.
OpenIntentFirst(w) ==
    /\ pc[w] = "open"
    /\ Holds(w)
    /\ CreateInvocation(req[w].call, req[w].intent)
    /\ Return(w)
    /\ UNCHANGED <<runStatus, budgetVars, leaseVars, apprVars, executions, toldExpired>>

\* _open_approval: the intent, its approval and the waiting run in one unit.
\* (Its branch for a PREPARED row without approval cannot be reached:
\* IntentsAreAuthorised.)
OpenApproval(w) ==
    LET c == req[w].call IN
    /\ pc[w] = "open"
    /\ Holds(w)
    /\ CreateInvocation(c, req[w].intent)
    /\ CreateApproval(c)
    /\ TransitionRun("RUNNING", "WAITING_APPROVAL")
    /\ Return(w)
    /\ UNCHANGED <<budgetVars, leaseVars, executions, toldExpired>>

\* _wait_for_existing_approval: load, which may expire the approval and stop
\* the run; an approval granted since the snapshot sends the call back.
WaitForApproval(w) ==
    LET c == req[w].call IN
    /\ pc[w] = "wait"
    /\ Holds(w)
    /\ runStatus = "WAITING_APPROVAL"
    /\ Expire({c})
    /\ \/ /\ Materialized(c) = "APPROVED"
          /\ Goto(w, "check")
          /\ UNCHANGED <<token, req, result>>
       \/ /\ Materialized(c) # "APPROVED"
          /\ Return(w)
    /\ UNCHANGED <<callVars, budgetVars, leaseVars, executions, toldExpired>>

\* Mutant: a claimed call is not charged.
ClaimUncharged(w) ==
    /\ pc[w] \in {"claim", "resume"}
    /\ Holds(w)
    /\ Claim(req[w].call)
    /\ TransitionRun("WAITING_APPROVAL", "RUNNING")
    /\ Goto(w, "start")
    /\ UNCHANGED <<callVars, budgetVars, leaseVars, token, req, result,
                   executions, toldExpired>>

\* _claim_and_allow, and _resume_or_claim_recovery for an approval that is
\* still APPROVED: claim, run back to RUNNING, charge, in one unit.
ClaimAndAllow(w) ==
    LET c == req[w].call IN
    /\ pc[w] \in {"claim", "resume"}
    /\ Holds(w)
    /\ Claim(c)
    /\ TransitionRun("WAITING_APPROVAL", "RUNNING")
    /\ RecordToolCall(c)
    /\ Goto(w, "start")
    /\ UNCHANGED <<callVars, leaseVars, token, req, result, executions, toldExpired>>

\* claim on an overdue approval: the expiry it has materialised is rolled back
\* with the unit and the call is denied.
ClaimTooLate(w) ==
    /\ pc[w] = "claim"
    /\ Holds(w)
    /\ Overdue(req[w].call)
    /\ toldExpired' = toldExpired \cup {req[w].call}
    /\ Return(w)
    /\ UNCHANGED <<storeVars, apprVars, executions>>

\* _prepare_and_allow: the intent and its charge in one unit.
PrepareAndAllow(w) ==
    LET c == req[w].call IN
    /\ pc[w] = "prepare"
    /\ Holds(w)
    /\ CreateInvocation(c, req[w].intent)
    /\ RecordToolCall(c)
    /\ Goto(w, "start")
    /\ UNCHANGED <<runStatus, leaseVars, apprVars, token, req, result,
                   executions, toldExpired>>

\* _record_recovery_allow: an audit event, under the lease.
RecoveryAllow(w) ==
    /\ pc[w] = "recover"
    /\ Holds(w)
    /\ Goto(w, "start")
    /\ UNCHANGED <<storeVars, apprVars, token, req, result, executions, toldExpired>>

\* _resume_or_claim_recovery for a CLAIMED approval
ResumeClaimed(w) ==
    /\ pc[w] = "resume"
    /\ Holds(w)
    /\ ResumeClaim(req[w].call)
    /\ Goto(w, "start")
    /\ UNCHANGED <<storeVars, token, req, result, executions, toldExpired>>

\* Mutant: the handler is called before STARTED is durable.
StartUnrecorded(w) ==
    /\ pc[w] = "start"
    /\ Holds(w)
    /\ Goto(w, "exec")
    /\ UNCHANGED <<storeVars, apprVars, token, req, result, executions, toldExpired>>

\* _mark_started
MarkStarted(w) ==
    /\ pc[w] = "start"
    /\ Holds(w)
    /\ TransitionInvocation(req[w].call, "PREPARED", "STARTED")
    /\ Goto(w, "exec")
    /\ UNCHANGED <<runStatus, budgetVars, leaseVars, apprVars, token, req, result,
                   executions, toldExpired>>

\* _execute: the handler runs outside any unit; _map_handler_result keeps
\* TIMED_OUT for idempotent tools, and an exception, an overrun or an invalid
\* output is UNKNOWN_RESULT.
Execute(w) ==
    LET i == req[w].intent IN
    /\ pc[w] = "exec"
    /\ \E r \in TerminalInvocation :
          /\ r = "TIMED_OUT" => Idempotent[i]
          /\ result' = [result EXCEPT ![w] = r]
    /\ executions' = [executions EXCEPT ![i] = @ + 1]
    /\ Goto(w, "persist")
    /\ UNCHANGED <<storeVars, apprVars, token, req, toldExpired>>

\* Mutant: the approval is left to be consumed by a later unit.
PersistUnconsumed(w) ==
    /\ pc[w] = "persist"
    /\ Holds(w)
    /\ TransitionInvocation(req[w].call, "STARTED", result[w])
    /\ Return(w)
    /\ UNCHANGED <<runStatus, budgetVars, leaseVars, apprVars, executions, toldExpired>>

\* _persist_result: the result, and the consumption of the approval when the
\* result is deterministic, in one unit.
PersistResult(w) ==
    LET c == req[w].call IN
    /\ pc[w] = "persist"
    /\ Holds(w)
    /\ TransitionInvocation(c, "STARTED", result[w])
    /\ \/ /\ req[w].approved /\ result[w] \in DeterministicResult
          /\ Consume(c, result[w])
       \/ /\ ~req[w].approved \/ result[w] = "UNKNOWN_RESULT"
          /\ UNCHANGED apprVars
    /\ Return(w)
    /\ UNCHANGED <<runStatus, budgetVars, leaseVars, executions, toldExpired>>

\* A unit of the call raises (stale lease, a condition of the store, an I/O
\* error), is rolled back, and the call is denied.
UnitFails(w) ==
    /\ pc[w] \in UnitSteps
    /\ Return(w)
    /\ UNCHANGED <<storeVars, apprVars, executions, toldExpired>>

-------------------------------------------------------------------------------
(* Everyone else: the approver, the worker between calls, the environment *)

\* approve and reject, by someone who was handed the current lease token.
Decide(c) ==
    /\ VerifyLease(leaseToken)
    /\ ApproveCall(c) \/ RejectCall(c)
    /\ UNCHANGED <<callVars, budgetVars, leaseVars, gateVars>>

\* A decision on an overdue approval: the approver is told that it has expired
\* and, having caught that inside the unit, lets the expiry commit.
DecideTooLate(c) ==
    /\ VerifyLease(leaseToken)
    /\ Overdue(c)
    /\ Expire({c})
    /\ toldExpired' = toldExpired \cup {c}
    /\ UNCHANGED <<callVars, budgetVars, leaseVars, workerVars, executions>>

\* expire_due while the worker waits
ExpireDue(w) ==
    /\ pc[w] = "idle"
    /\ Holds(w)
    /\ Expire(Calls)
    /\ UNCHANGED <<callVars, budgetVars, leaseVars, gateVars>>

\* Mutant: the orchestrator does not wait for the call it has made.
MoveRunDuringCall(w, to) ==
    /\ Holds(w)
    /\ to # "WAITING_APPROVAL"
    /\ runStatus = "WAITING_APPROVAL" => to # "RUNNING"
    /\ TransitionRun(runStatus, to)
    /\ UNCHANGED <<callVars, budgetVars, leaseVars, apprVars, gateVars>>

\* transition_run by the orchestrator, which leaves RUNNING <-> WAITING_APPROVAL
\* to the Gate.
MoveRun(w, to) ==
    /\ pc[w] = "idle"
    /\ Holds(w)
    /\ to # "WAITING_APPROVAL"
    /\ runStatus = "WAITING_APPROVAL" => to # "RUNNING"
    /\ TransitionRun(runStatus, to)
    /\ UNCHANGED <<callVars, budgetVars, leaseVars, apprVars, gateVars>>

TakeLease(w) ==
    /\ pc[w] = "idle"
    /\ \E tok \in Tokens :
          AcquireLease(tok) /\ token' = [token EXCEPT ![w] = tok]
    /\ UNCHANGED <<runStatus, callVars, budgetVars, apprVars, pc, req, result,
                   executions, toldExpired>>

DropLease(w) ==
    /\ pc[w] = "idle"
    /\ ReleaseLease(token[w])
    /\ token' = [token EXCEPT ![w] = 0]
    /\ UNCHANGED <<runStatus, callVars, budgetVars, apprVars, pc, req, result,
                   executions, toldExpired>>

\* The process dies and with it everything it had in memory.
Crash(w) ==
    /\ token[w] # 0
    /\ token' = [token EXCEPT ![w] = 0]
    /\ pc' = [pc EXCEPT ![w] = "idle"]
    /\ req' = [req EXCEPT ![w] = NoRequest]
    /\ result' = [result EXCEPT ![w] = "NONE"]
    /\ UNCHANGED <<storeVars, apprVars, executions, toldExpired>>

ClockPasses ==
    \/ /\ LeaseExpires
       /\ UNCHANGED <<runStatus, callVars, budgetVars, apprVars, gateVars>>
    \/ /\ \E c \in Calls : ApprovalFallsDue(c)
       /\ UNCHANGED <<storeVars, gateVars>>

-------------------------------------------------------------------------------

vars == <<storeVars, apprVars, gateVars>>

Init == StoreInit /\ ApprovalInit /\ GateInit

\* The Gate call of a worker, once it has been let in.
CallStep(w) ==
    \/ CheckAgain(w) \/ OpenApproval(w) \/ WaitForApproval(w)
    \/ ClaimAndAllow(w) \/ ClaimTooLate(w) \/ PrepareAndAllow(w)
    \/ RecoveryAllow(w) \/ ResumeClaimed(w)
    \/ MarkStarted(w) \/ Execute(w) \/ PersistResult(w) \/ UnitFails(w)

Enter(w) ==
    \/ \E c \in Calls, i \in Intents : Invoke(w, c, i)
    \/ \E c \in Calls : ReenterPrepared(w, c)

Surroundings ==
    \/ \E c \in Calls : Decide(c) \/ DecideTooLate(c)
    \/ \E w \in Workers : \/ ExpireDue(w) \/ TakeLease(w) \/ DropLease(w) \/ Crash(w)
                          \/ \E to \in RunStatus : MoveRun(w, to)
    \/ ClockPasses

Next ==
    \/ \E w \in Workers : Enter(w) \/ CallStep(w)
    \/ Surroundings

Spec == Init /\ [][Next]_vars

-------------------------------------------------------------------------------
(* Properties *)

\* Every durable row, counter and worker variable has its type; in particular
\* used_tool_calls never exceeds max_tool_calls, although reenter_prepared
\* charges a call without looking at the tool-call budget.
TypeOK == StoreTypeOK /\ ApprovalTypeOK /\ GateTypeOK

\* WP06-INV-006/007, WP04-INV-008: whatever fails, crashes or is retried under
\* another tool_call_id, the handler of an intent that is not a READ runs at
\* most once.
AtMostOnce == \A i \in Intents : Risk[i] # "READ" => executions[i] <= 1

\* policy.execution_limit: equivalent READ calls execute at most ReadLimit
\* times over all processes that ever drove the run.
ReadsBounded == \A i \in Intents : Risk[i] = "READ" => executions[i] <= ReadLimit

\* WP07-INV-005: no handler runs without a durable trace.  Every execution of
\* an intent is one of its calls that is recorded as STARTED or settled, so
\* that recovery can tell it from one that never began.
ExecutionsAreRecorded ==
    \A i \in Intents : executions[i] <= Cardinality(Attempts(i))

\* WP06-INV-003: the handler of an intent that needs an approval has run only
\* if the approval of one of its calls was granted and claimed.
ApprovedBeforeExecution ==
    \A i \in Intents :
       NeedsApproval[i] /\ executions[i] > 0 =>
          \E c \in Calls : callIntent[c] = i /\ apprStatus[c] \in {"CLAIMED", "CONSUMED"}

\* _open_approval writes the call and its approval in one unit, so a recovered
\* PREPARED call is never mistaken for one that needs no approval.
IntentsAreAuthorised ==
    \A c \in Calls :
       callStatus[c] # "NONE" => (NeedsApproval[callIntent[c]] <=> apprStatus[c] # "NONE")

\* create, claim and the expiry move the approval and the run together: a
\* waiting run waits for exactly one undecided or unclaimed approval, and no
\* such approval is left behind in a running one.
WaitingOnOneApproval ==
    /\ \A c, d \in Calls :
          apprStatus[c] \in ActiveApproval /\ apprStatus[d] \in ActiveApproval => c = d
    /\ runStatus = "WAITING_APPROVAL" => \E c \in Calls : apprStatus[c] \in ActiveApproval
    /\ \A c \in Calls : apprStatus[c] \in ActiveApproval =>
          /\ runStatus \in {"WAITING_APPROVAL"} \cup TerminalRun
          /\ callStatus[c] = "PREPARED"

\* The calls that were allowed
Allowed == {c \in Calls : /\ callStatus[c] # "NONE"
                          /\ apprStatus[c] \in {"NONE", "CLAIMED", "CONSUMED"}}

\* WP07-INV-008: each call that was allowed is charged once, however often it is
\* recovered, and no other is, but one whose claim recovery has invalidated since.
ChargedOnce ==
    /\ usedToolCalls = Cardinality(ledger)
    /\ Allowed \subseteq ledger
    /\ \A c \in ledger \ Allowed : callStatus[c] # "NONE" /\ apprStatus[c] = "INVALIDATED"

\* D-26: an approval is consumed exactly when its call has a deterministic
\* result, and stays CLAIMED while the call runs or its result is unknown.
ApprovalTracksCall ==
    \A c \in Calls : apprStatus[c] # "NONE" =>
       /\ callStatus[c] \in DeterministicResult <=> apprStatus[c] = "CONSUMED"
       /\ callStatus[c] \in {"STARTED", "UNKNOWN_RESULT"} => apprStatus[c] = "CLAIMED"

\* An approved call starts only while the run is RUNNING: between the claim and
\* the start nobody else can move the run.
StartsApproved ==
    \A c \in Calls :
       callStatus[c] = "PREPARED" /\ callStatus'[c] = "STARTED" /\ apprStatus[c] # "NONE"
          => runStatus = "RUNNING" /\ apprStatus[c] = "CLAIMED"

ApprovedCallsStartInRunningRun == [][StartsApproved]_vars

\* WP01 section 6: a terminal run, a settled call and a closed approval keep
\* their status, and no call goes back to a state it has left.
KeepsTerminal ==
    /\ runStatus \in TerminalRun => runStatus' = runStatus
    /\ \A c \in Calls :
          /\ callStatus[c] \in TerminalInvocation => callStatus'[c] = callStatus[c]
          /\ callStatus[c] = "STARTED" => callStatus'[c] \notin {"NONE", "PREPARED"}
          /\ apprStatus[c] \in TerminalApproval => apprStatus'[c] = apprStatus[c]
          /\ apprStatus[c] = "CLAIMED" => apprStatus'[c] \notin {"NONE"} \cup ActiveApproval

NothingIsResurrected == [][KeepsTerminal]_vars

\* WP02-AC-006: once load, decide or claim has answered that an approval has
\* expired, the row says EXPIRED.
ExpiryIsDurable == \A c \in toldExpired : apprStatus[c] = "EXPIRED"

\* "terminal runs cannot execute tools" (_invoke_locked): a call starts only in
\* a run that has not ended.
StartsAlive ==
    \A c \in Calls :
       callStatus[c] = "PREPARED" /\ callStatus'[c] = "STARTED" => runStatus \notin TerminalRun

EndedRunsStartNothing == [][StartsAlive]_vars

-------------------------------------------------------------------------------
(* The inductive invariant behind AtMostOnce *)

\* The worker whose token is the one stored, whether or not it has expired.
Current(w) == token[w] # 0 /\ token[w] = leaseToken

\* The steps of a call after its snapshot has allowed it to execute.
AllowedSteps == {"claim", "prepare", "recover", "resume", "start"}

\* A row names the intent it was created for.
RowsHaveIntents ==
    \A c \in Calls : callStatus[c] # "NONE" => callIntent[c] \in Intents

\* No two processes hold the same token, and every token has been issued: the
\* next one taken is new to all of them.
TokensAreFresh ==
    /\ leaseToken <= leasesIssued
    /\ \A w \in Workers : token[w] <= leasesIssued
    /\ \A w, v \in Workers : token[w] = token[v] /\ token[w] # 0 => w = v
    /\ \A w \in Workers : pc[w] # "idle" => token[w] # 0

\* What the snapshot said is still so when the holder of the lease acts on it.
AllowedIsUntried ==
    \A w \in Workers :
       Current(w) /\ pc[w] \in AllowedSteps =>
          /\ Risk[req[w].intent] # "READ" => Attempts(req[w].intent) = {}
          /\ callStatus[req[w].call] # "NONE" => callIntent[req[w].call] = req[w].intent

\* The call whose handler is about to run is recorded as begun.
RunningIsRecorded ==
    \A w \in Workers : pc[w] = "exec" => req[w].call \in Attempts(req[w].intent)

\* Only one process is about to run the handler of an intent that is not a
\* READ, and the handler has not run before.
OneRunner ==
    \A w \in Workers :
       pc[w] = "exec" /\ Risk[req[w].intent] # "READ" =>
          /\ executions[req[w].intent] = 0
          /\ \A v \in Workers : pc[v] = "exec" /\ req[v].intent = req[w].intent => v = w

\* What has been executed has a call that has begun.
ExecutedWasTried == \A i \in Intents : executions[i] > 0 => Attempts(i) # {}

\* WP04-INV-008 in inductive form: the lease fences every step between the
\* snapshot that found an intent untried and the unit that marks it STARTED.
OnceInv ==
    /\ TypeOK
    /\ RowsHaveIntents
    /\ TokensAreFresh
    /\ AllowedIsUntried
    /\ RunningIsRecorded
    /\ OneRunner
    /\ ExecutedWasTried
    /\ AtMostOnce
-------------------------------------------------------------------------------
(* The inductive invariant behind ApprovedBeforeExecution *)

\* Approvals that have authorised an execution.
Spent == {"CLAIMED", "CONSUMED"}

\* An approval belongs to a call that has a row.
ApprovalsHaveRows == \A c \in Calls : apprStatus[c] # "NONE" => callStatus[c] # "NONE"

\* A call goes round the approval only if its intent needs none.  A handler runs
\* under a spent approval whether or not its process still has the lease; a call
\* that is about to start needs both.
RoutesAreAuthorised ==
    \A w \in Workers :
       /\ pc[w] = "open" => NeedsApproval[req[w].intent]
       /\ pc[w] \in {"prepare", "recover"} => ~NeedsApproval[req[w].intent]
       /\ pc[w] = "exec" \/ (pc[w] = "start" /\ Current(w)) =>
             (NeedsApproval[req[w].intent] => apprStatus[req[w].call] \in Spent)

\* WP06-INV-003 in inductive form.
AuthorisedInv ==
    /\ OnceInv
    /\ ApprovalsHaveRows
    /\ IntentsAreAuthorised
    /\ RoutesAreAuthorised
    /\ ApprovedBeforeExecution
===============================================================================
