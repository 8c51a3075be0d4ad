------------------------------ MODULE Checkpoint ------------------------------
(***************************************************************************)
(* Checkpoints and recovery (checkpoint.py), composed with the Gate.       *)
(*                                                                         *)
(* A checkpoint records a boundary of the run and a capture of the         *)
(* workspace.  prepare_recovery runs in one unit of work: it compares the  *)
(* stored facts with the workspace and either records a plan the harness   *)
(* may follow, or blocks the run.                                          *)
(*                                                                         *)
(* The harness process itself (harness.py, WP-10) is not in the            *)
(* repository.  It is modelled from its contract: a process that takes a   *)
(* run over calls prepare_recovery first and does only what the plan says. *)
(*                                                                         *)
(* The workspace is the set of paths that differ from the capture of the   *)
(* latest checkpoint.  Evidence is reduced to the paths it speaks for.     *)
(***************************************************************************)
EXTENDS Gate

CONSTANTS
    Paths,          \* files of the workspace
    Writes,         \* by intent: the paths its handler may change
    Covers          \* by intent: the paths its evidence speaks for

ASSUME CheckpointAssumption ==
    /\ Writes \in [Intents -> SUBSET Paths]
    /\ Covers \in [Intents -> SUBSET Paths]

VARIABLES
    hasCheckpoint,  \* the run has at least one checkpoint
    boundaries,     \* calls with a TOOL_* boundary checkpoint
    evidenced,      \* calls whose evidence was stored since the latest one
    dirty,          \* paths that differ from the latest capture
    edited,         \* history: those that somebody else changed
    bindingSame,    \* HEAD, index, identity and surroundings as captured
    configSame,     \* the loaded config has the run's fingerprint
    plan            \* what each worker may do with the run

workspaceVars  == <<dirty, edited, bindingSame, configSame>>
checkpointVars == <<hasCheckpoint, boundaries, evidenced>>
recoveryVars   == <<checkpointVars, workspaceVars, plan>>

RecoveryAction ==
    {"CONTINUE_AGENT", "WAIT_FOR_APPROVAL", "REENTER_GATE",
     "RESUME_CLAIM_THEN_REENTER_GATE", "REBUILD_CHECKPOINT_THEN_CONTINUE",
     "MARK_UNKNOWN_RESULT", "MANUAL_REVIEW", "ALREADY_TERMINAL"}

\* Plans that leave one PREPARED call to be taken through the Gate again.
ReentryPlan ==
    {"WAIT_FOR_APPROVAL", "REENTER_GATE", "RESUME_CLAIM_THEN_REENTER_GATE"}

\* NONE: no plan for this lease.  SESSION: the worker drives the agent.
\* WRITE_FAILED: prepare_recovery raised RECOVERY_WRITE_FAILED.
PlanState == RecoveryAction \cup {"NONE", "SESSION", "WRITE_FAILED"}

CheckpointTypeOK ==
    /\ hasCheckpoint \in BOOLEAN
    /\ boundaries \subseteq Calls
    /\ evidenced \subseteq Calls
    /\ dirty \subseteq Paths
    /\ edited \subseteq dirty
    /\ bindingSame \in BOOLEAN
    /\ configSame \in BOOLEAN
    /\ plan \in [Workers -> PlanState]

CheckpointInit ==
    /\ hasCheckpoint = FALSE
    /\ boundaries = {}
    /\ evidenced = {}
    /\ dirty = {}
    /\ edited = {}
    /\ bindingSame = TRUE
    /\ configSame = TRUE
    /\ plan = [w \in Workers |-> IF token[w] = 1 THEN "SESSION" ELSE "NONE"]

Plan(w, action) == plan' = [plan EXCEPT ![w] = action]

-------------------------------------------------------------------------------
(* create_checkpoint *)

\* Mutant: the capture is stored but the comparison keeps its old reference.
WriteCheckpointKeepingEdits(calls) ==
    /\ hasCheckpoint' = TRUE
    /\ boundaries' = boundaries \cup calls
    /\ evidenced' = {}
    /\ dirty' = {}
    /\ UNCHANGED edited
    /\ bindingSame' = TRUE

\* _create_checkpoint_in_unit, what it writes: the capture becomes the new
\* reference for the workspace.
WriteCheckpoint(calls) ==
    /\ hasCheckpoint' = TRUE
    /\ boundaries' = boundaries \cup calls
    /\ evidenced' = {}
    /\ dirty' = {}
    /\ edited' = {}
    /\ bindingSame' = TRUE

\* A TOOL_* boundary; a second one for the same call conflicts, since the
\* snapshot digest covers the time and the audit head.
CheckpointCall(w, c) ==
    /\ pc[w] = "idle" /\ plan[w] = "SESSION"
    /\ Holds(w)
    /\ configSame
    /\ runStatus = "RUNNING"
    /\ callStatus[c] \in TerminalInvocation
    /\ c \notin boundaries
    /\ WriteCheckpoint({c})
    /\ UNCHANGED <<storeVars, apprVars, gateVars, configSame, plan>>

\* A step or approval boundary
CheckpointStep(w) ==
    /\ pc[w] = "idle" /\ plan[w] = "SESSION"
    /\ Holds(w)
    /\ configSame
    /\ runStatus \in {"RUNNING", "WAITING_APPROVAL"}
    /\ WriteCheckpoint({})
    /\ UNCHANGED <<storeVars, apprVars, gateVars, configSame, plan>>

-------------------------------------------------------------------------------
(* prepare_recovery *)

Prepared == {c \in Calls : callStatus[c] = "PREPARED"}
Started  == {c \in Calls : callStatus[c] = "STARTED"}
Unknown  == {c \in Calls : callStatus[c] = "UNKNOWN_RESULT"}

\* _missing_checkpoint_invocation
Missing == {c \in Calls : callStatus[c] \in DeterministicResult} \ boundaries

\* _workspace_delta_attributable: every changed path is one that the evidence
\* of a call settled since the checkpoint speaks for, whether that call wrote
\* it or only read it.
Attributable ==
    dirty \subseteq UNION {Covers[callIntent[c]] : c \in evidenced}

\* The checks before approvals are expired: configuration, a checkpoint if
\* anything has happened, and what surrounds the workspace.
BindingBroken ==
    \/ ~configSame
    \/ ~hasCheckpoint /\ \E c \in Calls : callStatus[c] # "NONE"
    \/ hasCheckpoint /\ ~bindingSame

\* The plan for the one PREPARED call, or MANUAL_REVIEW.
PreparedPlan(c) ==
    CASE apprStatus[c] = "PENDING" /\ runStatus = "WAITING_APPROVAL" -> "WAIT_FOR_APPROVAL"
      [] apprStatus[c] = "NONE" /\ runStatus = "RUNNING"             -> "REENTER_GATE"
      [] apprStatus[c] = "APPROVED"                                  -> "REENTER_GATE"
      [] apprStatus[c] = "CLAIMED" /\ runStatus = "RUNNING"
                                         -> "RESUME_CLAIM_THEN_REENTER_GATE"
      [] OTHER                                                       -> "MANUAL_REVIEW"

\* Mutant: a call that is STARTED is taken for one of the old process.
DecisionIgnoringStarted ==
    IF Unknown # {} THEN "MANUAL_REVIEW"
    ELSE IF Prepared # {} THEN PreparedPlan(CHOOSE c \in Prepared : TRUE)
    ELSE "CONTINUE_AGENT"

\* Mutant: an unknown result counts as a result.
DecisionForgettingUnknown ==
    IF Started # {} THEN "MARK_UNKNOWN_RESULT"
    ELSE IF Prepared # {} THEN PreparedPlan(CHOOSE c \in Prepared : TRUE)
    ELSE "CONTINUE_AGENT"

\* The decision once no approval is overdue: the first rule that applies.
Decision ==
    IF Unknown # {} THEN "MANUAL_REVIEW"
    ELSE IF Cardinality(Prepared \cup Started) > 1 THEN "MANUAL_REVIEW"
    ELSE IF Started # {} THEN "MARK_UNKNOWN_RESULT"
    ELSE IF Prepared # {} THEN PreparedPlan(CHOOSE c \in Prepared : TRUE)
    ELSE IF \E c \in Calls : apprStatus[c] \in ActiveApproval \cup {"CLAIMED"}
         THEN "MANUAL_REVIEW"
    ELSE IF Missing # {}
         THEN IF Attributable THEN "REBUILD_CHECKPOINT_THEN_CONTINUE"
                              ELSE "MANUAL_REVIEW"
    ELSE IF hasCheckpoint /\ dirty # {} THEN "MANUAL_REVIEW"
    ELSE "CONTINUE_AGENT"

\* Mutant: a claimed approval is invalidated whatever its call has done.
BlockRevokingClaims ==
    /\ \A c \in Calls : ~Overdue(c)
    /\ apprStatus' = [c \in Calls |->
          IF apprStatus[c] \in ActiveApproval \cup {"CLAIMED"}
          THEN "INVALIDATED" ELSE apprStatus[c]]
    /\ TransitionRun(runStatus, "BLOCKED")
    /\ UNCHANGED apprDue

\* Mutant: approvals are closed without looking at their status.
BlockClosingAll ==
    /\ \A c \in Calls : ~Overdue(c)
    /\ apprStatus' = [c \in Calls |->
          IF apprStatus[c] = "NONE" THEN "NONE" ELSE "INVALIDATED"]
    /\ TransitionRun(runStatus, "BLOCKED")
    /\ UNCHANGED apprDue

\* Mutant: only a RUNNING run can be blocked.
BlockRunningOnly ==
    /\ runStatus = "RUNNING"
    /\ \A c \in Calls : ~Overdue(c)
    /\ apprStatus' = [c \in Calls |->
          IF \/ apprStatus[c] \in ActiveApproval
             \/ apprStatus[c] = "CLAIMED" /\ callStatus[c] = "PREPARED"
          THEN "INVALIDATED" ELSE apprStatus[c]]
    /\ TransitionRun(runStatus, "BLOCKED")
    /\ UNCHANGED apprDue

\* _block_recovery: every approval that could still authorise an execution is
\* invalidated and the run is BLOCKED.  invalidate raises on an overdue
\* approval, because it materialises the expiry before it compares revisions.
Block ==
    /\ \A c \in Calls : ~Overdue(c)
    /\ apprStatus' = [c \in Calls |->
          IF \/ apprStatus[c] \in ActiveApproval
             \/ apprStatus[c] = "CLAIMED" /\ callStatus[c] = "PREPARED"
          THEN "INVALIDATED" ELSE apprStatus[c]]
    /\ TransitionRun(runStatus, "BLOCKED")
    /\ UNCHANGED apprDue

InRecovery(w) == pc[w] = "idle" /\ plan[w] # "SESSION" /\ Holds(w)

\* The run is not RUNNING or WAITING_APPROVAL: nothing but a plan is recorded.
RecoverSettledRun(w) ==
    /\ InRecovery(w)
    /\ runStatus \notin {"RUNNING", "WAITING_APPROVAL"}
    /\ Plan(w, IF runStatus \in {"COMPLETED", "STOPPED", "FAILED"}
               THEN "ALREADY_TERMINAL" ELSE "MANUAL_REVIEW")
    /\ UNCHANGED <<storeVars, apprVars, gateVars, checkpointVars, workspaceVars>>

\* The binding is broken: the run is blocked
RecoverBrokenBinding(w) ==
    /\ InRecovery(w)
    /\ runStatus \in {"RUNNING", "WAITING_APPROVAL"}
    /\ BindingBroken
    /\ Block
    /\ Plan(w, "MANUAL_REVIEW")
    /\ UNCHANGED <<callVars, budgetVars, leaseVars, gateVars,
                   checkpointVars, workspaceVars>>

\* ... unless an approval is overdue, in which case the unit is rolled back.
RecoverBrokenBindingFails(w) ==
    /\ InRecovery(w)
    /\ runStatus \in {"RUNNING", "WAITING_APPROVAL"}
    /\ BindingBroken
    /\ \E c \in Calls : Overdue(c)
    /\ Plan(w, "WRITE_FAILED")
    /\ UNCHANGED <<storeVars, apprVars, gateVars, checkpointVars, workspaceVars>>

\* expire_due finds an overdue approval and the waiting run stops.
RecoverExpired(w) ==
    /\ InRecovery(w)
    /\ runStatus \in {"RUNNING", "WAITING_APPROVAL"}
    /\ ~BindingBroken
    /\ RunAfterExpiry(Calls) = "STOPPED"
    /\ Expire(Calls)
    /\ Plan(w, "ALREADY_TERMINAL")
    /\ UNCHANGED <<callVars, budgetVars, leaseVars, gateVars,
                   checkpointVars, workspaceVars>>

\* The facts decide.
Deciding(w, action) ==
    /\ InRecovery(w)
    /\ runStatus \in {"RUNNING", "WAITING_APPROVAL"}
    /\ ~BindingBroken
    /\ \A c \in Calls : ~Overdue(c)
    /\ Decision = action
    /\ Plan(w, action)

RecoverManually(w) ==
    /\ Deciding(w, "MANUAL_REVIEW")
    /\ Block
    /\ UNCHANGED <<callVars, budgetVars, leaseVars, gateVars,
                   checkpointVars, workspaceVars>>

\* Mutant: the plan is recorded and the facts are left as they are.
RecoverStartedUnmarked(w) ==
    /\ Deciding(w, "MARK_UNKNOWN_RESULT")
    /\ UNCHANGED <<storeVars, apprVars, gateVars, checkpointVars, workspaceVars>>

\* A STARTED call without a result becomes UNKNOWN_RESULT; its approval, if
\* any, stays CLAIMED.
RecoverStarted(w) ==
    /\ Deciding(w, "MARK_UNKNOWN_RESULT")
    /\ \E c \in Started : TransitionInvocation(c, "STARTED", "UNKNOWN_RESULT")
    /\ Block
    /\ UNCHANGED <<budgetVars, leaseVars, gateVars, checkpointVars, workspaceVars>>

\* The call is left to the Gate.
RecoverPrepared(w) ==
    /\ \E action \in ReentryPlan : Deciding(w, action)
    /\ UNCHANGED <<storeVars, apprVars, gateVars, checkpointVars, workspaceVars>>

\* One missing boundary is rebuilt from the stored result and the workspace.
RecoverRebuilding(w) ==
    /\ Deciding(w, "REBUILD_CHECKPOINT_THEN_CONTINUE")
    /\ runStatus = "RUNNING"
    /\ \E c \in Missing : WriteCheckpoint({c})
    /\ UNCHANGED <<storeVars, apprVars, gateVars, configSame>>

RecoverContinuing(w) ==
    /\ Deciding(w, "CONTINUE_AGENT")
    /\ UNCHANGED <<storeVars, apprVars, gateVars, checkpointVars, workspaceVars>>

PrepareRecovery(w) ==
    \/ RecoverSettledRun(w) \/ RecoverBrokenBinding(w) \/ RecoverBrokenBindingFails(w)
    \/ RecoverExpired(w) \/ RecoverManually(w) \/ RecoverStarted(w)
    \/ RecoverPrepared(w) \/ RecoverRebuilding(w) \/ RecoverContinuing(w)

-------------------------------------------------------------------------------
(* The Gate under a harness that follows the plan *)

\* The plan lets the worker drive the agent.
Resume(w) ==
    /\ pc[w] = "idle"
    /\ plan[w] \in {"CONTINUE_AGENT", "REBUILD_CHECKPOINT_THEN_CONTINUE"}
    /\ Plan(w, "SESSION")
    /\ UNCHANGED <<storeVars, apprVars, gateVars, checkpointVars, workspaceVars>>

InvokeInSession(w) ==
    /\ plan[w] = "SESSION"
    /\ \E c \in Calls, i \in Intents : Invoke(w, c, i)
    /\ UNCHANGED recoveryVars

\* The planned call goes through the Gate again, and the session goes on.
ReenterAsPlanned(w) ==
    /\ plan[w] \in ReentryPlan
    /\ \E c \in Prepared : ReenterPrepared(w, c)
    /\ Plan(w, "SESSION")
    /\ UNCHANGED <<checkpointVars, workspaceVars>>

\* The handler may change what it writes.
ExecuteOnWorkspace(w) ==
    /\ Execute(w)
    /\ \E changed \in SUBSET Writes[req[w].intent] : dirty' = dirty \cup changed
    /\ UNCHANGED <<checkpointVars, edited, bindingSame, configSame, plan>>

\* The results that come with evidence, unless the output was cut short.
LeavesEvidence(i, r) ==
    \/ r = "SUCCEEDED"
    \/ r = "FAILED" /\ Risk[i] = "EXECUTE"

\* The evidence of a result is stored in the unit of the result.
PersistAndSettle(w) ==
    /\ PersistResult(w)
    /\ \/ /\ LeavesEvidence(req[w].intent, result[w])
          /\ evidenced' = evidenced \cup {req[w].call}
       \/ UNCHANGED evidenced
    /\ UNCHANGED <<hasCheckpoint, boundaries, workspaceVars, plan>>

OtherCallStep(w) ==
    /\ \/ CheckAgain(w) \/ OpenApproval(w) \/ WaitForApproval(w)
       \/ ClaimAndAllow(w) \/ ClaimTooLate(w) \/ PrepareAndAllow(w)
       \/ RecoveryAllow(w) \/ ResumeClaimed(w) \/ MarkStarted(w) \/ UnitFails(w)
    /\ UNCHANGED recoveryVars

RecoverableCallStep(w) ==
    ExecuteOnWorkspace(w) \/ PersistAndSettle(w) \/ OtherCallStep(w)

\* A lease taken over, given up or lost with its process starts without a plan.
ChangeOwner(w) ==
    /\ TakeLease(w) \/ DropLease(w) \/ Crash(w)
    /\ Plan(w, "NONE")
    /\ UNCHANGED <<checkpointVars, workspaceVars>>

SessionStep(w) ==
    /\ plan[w] = "SESSION"
    /\ ExpireDue(w) \/ \E to \in RunStatus : MoveRun(w, to)
    /\ UNCHANGED recoveryVars

Approver ==
    /\ \E c \in Calls : Decide(c) \/ DecideTooLate(c)
    /\ UNCHANGED recoveryVars

Clock == ClockPasses /\ UNCHANGED recoveryVars

\* Somebody edits the workspace, the repository around it, or the config.
OutsideChange ==
    /\ \/ /\ \E p \in Paths : dirty' = dirty \cup {p} /\ edited' = edited \cup {p}
          /\ UNCHANGED <<bindingSame, configSame>>
       \/ /\ bindingSame' = FALSE
          /\ UNCHANGED <<dirty, edited, configSame>>
       \/ /\ configSame' = FALSE
          /\ UNCHANGED <<dirty, edited, bindingSame>>
    /\ UNCHANGED <<storeVars, apprVars, gateVars, checkpointVars, plan>>

-------------------------------------------------------------------------------

recoverableVars == <<vars, recoveryVars>>

RecoverableInit == Init /\ CheckpointInit

WorkerStep(w) ==
    \/ InvokeInSession(w) \/ ReenterAsPlanned(w) \/ RecoverableCallStep(w)
    \/ PrepareRecovery(w) \/ Resume(w) \/ SessionStep(w) \/ CheckpointStep(w)
    \/ \E c \in Calls : CheckpointCall(w, c)

RecoverableNext ==
    \/ \E w \in Workers : WorkerStep(w) \/ ChangeOwner(w)
    \/ Approver \/ Clock \/ OutsideChange

RecoverableSpec == RecoverableInit /\ [][RecoverableNext]_recoverableVars

-------------------------------------------------------------------------------
(* Liveness: what has to keep going *)

\* A process that is gone does not renew its lease.
LeaseLapses ==
    /\ \A w \in Workers : token[w] # leaseToken
    /\ LeaseExpires
    /\ UNCHANGED <<runStatus, callVars, budgetVars, apprVars, gateVars, recoveryVars>>

TakeOver(w) ==
    /\ TakeLease(w)
    /\ Plan(w, "NONE")
    /\ UNCHANGED <<checkpointVars, workspaceVars>>

\* Bound: the holder of the last lease the model can issue keeps it.
LastLeaseKept ==
    leasesIssued = MaxLeases =>
       /\ leaseToken' = leaseToken /\ leaseLive' = leaseLive
       /\ \A w \in Workers : token[w] = leaseToken => token'[w] = token[w]

\* Processes that are alive go on with their call and with recovery, leases
\* of dead processes run out, and somebody takes the run over.
LiveSpec ==
    /\ RecoverableInit
    /\ [][RecoverableNext /\ LastLeaseKept]_recoverableVars
    /\ \A w \in Workers :
          /\ WF_recoverableVars(RecoverableCallStep(w))
          /\ WF_recoverableVars(PrepareRecovery(w))
    /\ WF_recoverableVars(LeaseLapses)
    /\ WF_recoverableVars(\E w \in Workers : TakeOver(w))

-------------------------------------------------------------------------------
(* Properties *)

\* WP04-INV-012, WP06-INV-014: two processes never run a handler of the run at
\* the same time, even when one of them has lost its lease in the handler and
\* does not know it.
SerialExecution ==
    \A w, v \in Workers : pc[w] = "exec" /\ pc[v] = "exec" => w = v

\* WP07-INV-005: a process that may go on with the run (its plan is resumable)
\* has no call behind it whose effect is unknown.
Resumable ==
    ReentryPlan \cup {"CONTINUE_AGENT", "REBUILD_CHECKPOINT_THEN_CONTINUE"}

ResumableIsQuiescent ==
    \A w \in Workers :
       Holds(w) /\ plan[w] \in Resumable => Started = {} /\ Unknown = {}

\* W10, W11: after recovery has blocked the run no call starts any more, not
\* even one that an earlier process had already been allowed to start.
StartsUnblocked ==
    \A c \in Calls :
       callStatus[c] = "PREPARED" /\ callStatus'[c] = "STARTED" => runStatus # "BLOCKED"

BlockedRunsStartNothing == [][StartsUnblocked]_recoverableVars

\* prepare_recovery always reaches a decision: a process that takes the run
\* over is told what it may do (or that the decision could not be written).
RecoveryAnswers ==
    \A w \in Workers :
       Holds(w) /\ plan[w] = "NONE" ~> plan[w] # "NONE" \/ ~Holds(w)

\* C2: a call that was STARTED when its process went away does not stay so: it
\* gets its unknown result, or the run ends.  The exception is an approval that
\* is overdue, which can keep prepare_recovery from writing anything.
AbandonedCallIsSettled ==
    \A c \in Calls :
       /\ callStatus[c] = "STARTED"
       /\ runStatus \in {"RUNNING", "WAITING_APPROVAL"}
       /\ ~ \E w \in Workers : Holds(w) /\ plan[w] = "SESSION"
       ~> \/ callStatus[c] = "UNKNOWN_RESULT"
          \/ runStatus \in TerminalRun
          \/ \E d \in Calls : Overdue(d)

\* prepare_recovery persists "one deterministic recovery decision".
RecoveryDecides == \A w \in Workers : plan[w] # "WRITE_FAILED"

\* WP-07 section 8.1: a checkpoint is not rebuilt over changes that somebody
\* else made to the workspace.
RebuildsUnedited ==
    \A w \in Workers :
       plan[w] # plan'[w] /\ plan'[w] = "REBUILD_CHECKPOINT_THEN_CONTINUE" => edited = {}

RebuildMasksNoEdits == [][RebuildsUnedited]_recoverableVars

\* C4: when the workspace has changed, recovery stops instead of letting an
\* approval given for the old content be used.
ReentersUnedited ==
    \A w \in Workers :
       /\ plan[w] # plan'[w]
       /\ plan'[w] \in {"REENTER_GATE", "RESUME_CLAIM_THEN_REENTER_GATE"}
       => edited = {}

ChangedWorkspaceStops == [][ReentersUnedited]_recoverableVars
===============================================================================
