--------------------------- MODULE CheckpointProofs ---------------------------
(***************************************************************************)
(* Theorems about recovery composed with the Gate, for every set of        *)
(* workers, calls, intents and paths.  A step of the composition is a step *)
(* of the Gate as far as the Gate's variables go, or it blocks the run; so *)
(* the invariants of the Gate carry over, and on top of them the plans     *)
(* keep a second process out while a handler may still be running.         *)
(***************************************************************************)
EXTENDS Checkpoint, LedgerProofs

-------------------------------------------------------------------------------
(* Steps of the composition *)

\* The steps of prepare_recovery that write the rows of the Gate in a way that no step
\* of the Gate does.
Blocks(w) == RecoverBrokenBinding(w) \/ RecoverManually(w) \/ RecoverStarted(w)

\* A step of the composition is one of the Gate, or blocks the run.
LEMMA GateOrBlocks ==
    ASSUME [RecoverableNext]_recoverableVars
    PROVE  [Next]_vars \/ \E w \in Workers : Blocks(w)
<1>1. ASSUME NEW w \in Workers, InvokeInSession(w) \/ ReenterAsPlanned(w)
      PROVE  Next
  BY <1>1 DEF InvokeInSession, ReenterAsPlanned, Prepared, Next, Enter
<1>2. ASSUME NEW w \in Workers, RecoverableCallStep(w)
      PROVE  Next
  BY <1>2 DEF RecoverableCallStep, ExecuteOnWorkspace, PersistAndSettle, OtherCallStep,
              Next, CallStep
<1>3. ASSUME NEW w \in Workers, PrepareRecovery(w), ~Blocks(w)
      PROVE  [Next]_vars
  <2>1. RecoverExpired(w) => ExpireDue(w)
    BY DEF RecoverExpired, InRecovery, ExpireDue
  <2>2. RecoverSettledRun(w) \/ RecoverBrokenBindingFails(w) \/ RecoverPrepared(w)
           \/ RecoverRebuilding(w) \/ RecoverContinuing(w) => UNCHANGED vars
    BY DEF RecoverSettledRun, RecoverBrokenBindingFails, RecoverPrepared, RecoverRebuilding,
           RecoverContinuing, vars
  <2> QED
    BY <1>3, <2>1, <2>2 DEF PrepareRecovery, Blocks, Next, Surroundings
<1>4. ASSUME NEW w \in Workers, Resume(w) \/ CheckpointStep(w) \/ \E c \in Calls : CheckpointCall(w, c)
      PROVE  UNCHANGED vars
  BY <1>4 DEF Resume, CheckpointStep, CheckpointCall, vars
<1>5. ASSUME NEW w \in Workers, SessionStep(w) \/ ChangeOwner(w)
      PROVE  Next
  BY <1>5 DEF SessionStep, ChangeOwner, Next, Surroundings
<1>6. ASSUME Approver \/ Clock
      PROVE  Next
  BY <1>6 DEF Approver, Clock, Next, Surroundings
<1>7. ASSUME OutsideChange \/ UNCHANGED recoverableVars
      PROVE  UNCHANGED vars
  BY <1>7 DEF OutsideChange, recoverableVars, vars
<1> QED
  BY <1>1, <1>2, <1>3, <1>4, <1>5, <1>6, <1>7 DEF RecoverableNext, WorkerStep

\* What blocking the run does: it is done by the holder of the lease, between calls; it
\* invalidates what could still authorise a start, and may settle a STARTED call.
LEMMA BlockMoves ==
    ASSUME TypeOK, NEW w \in Workers, Blocks(w)
    PROVE  /\ pc[w] = "idle" /\ Holds(w) /\ plan[w] # "SESSION"
           /\ UNCHANGED <<callIntent, budgetVars, leaseVars, gateVars>>
           /\ runStatus \in {"RUNNING", "WAITING_APPROVAL"} /\ runStatus' = "BLOCKED"
           /\ \A c \in Calls :
                 \/ callStatus'[c] = callStatus[c]
                 \/ callStatus[c] = "STARTED" /\ callStatus'[c] = "UNKNOWN_RESULT"
           /\ \A c \in Calls :
                 \/ apprStatus'[c] = apprStatus[c] /\ apprStatus[c] \notin ActiveApproval
                 \/ /\ apprStatus[c] \in ActiveApproval \/ callStatus[c] = "PREPARED"
                    /\ apprStatus[c] \in ActiveApproval \cup {"CLAIMED"}
                    /\ apprStatus'[c] = "INVALIDATED"
           /\ TypeOK'
<1>1. /\ pc[w] = "idle" /\ Holds(w) /\ plan[w] # "SESSION" /\ Block
      /\ UNCHANGED <<callIntent, budgetVars, leaseVars, gateVars>>
      /\ runStatus \in {"RUNNING", "WAITING_APPROVAL"}
      /\ \/ callStatus' = callStatus
         \/ \E c \in Calls : TransitionInvocation(c, "STARTED", "UNKNOWN_RESULT")
  BY DEF Blocks, RecoverBrokenBinding, RecoverManually, RecoverStarted, Deciding, InRecovery,
         Started, TransitionInvocation, callVars
<1>2. /\ runStatus' = "BLOCKED"
      /\ apprStatus' = [c \in Calls |->
            IF \/ apprStatus[c] \in ActiveApproval
               \/ apprStatus[c] = "CLAIMED" /\ callStatus[c] = "PREPARED"
            THEN "INVALIDATED" ELSE apprStatus[c]]
      /\ apprDue' = apprDue
  BY <1>1 DEF Block, TransitionRun
<1>3. /\ callStatus' \in [Calls -> InvocationStatus \cup {"NONE"}]
      /\ \A c \in Calls :
            \/ callStatus'[c] = callStatus[c]
            \/ callStatus[c] = "STARTED" /\ callStatus'[c] = "UNKNOWN_RESULT"
  BY <1>1 DEF TransitionInvocation, TypeOK, StoreTypeOK, InvocationStatus, TerminalInvocation
<1>4. StoreTypeOK'
  BY <1>1, <1>2, <1>3 DEF TypeOK, StoreTypeOK, RunStatus, budgetVars, leaseVars
<1>5. ApprovalTypeOK'
  BY <1>2 DEF TypeOK, ApprovalTypeOK, ApprovalStatus, TerminalApproval
<1>6. GateTypeOK'
  BY <1>1 DEF TypeOK, GateTypeOK, gateVars, workerVars
<1> QED
  BY <1>1, <1>2, <1>3, <1>4, <1>5, <1>6 DEF TypeOK

-------------------------------------------------------------------------------
(* The Gate under recovery *)

\* Blocking the run begins no call and leaves every call under way where it was; none of
\* them has the lease.
LEMMA BlockRests ==
    ASSUME OnceInv, NEW w \in Workers, Blocks(w)
    PROVE  /\ \A i \in Intents : Attempts(i)' = Attempts(i)
           /\ UNCHANGED <<token, pc, req, executions, leaseToken, leasesIssued>>
           /\ \A v \in Workers : Current(v) => pc[v] = "idle"
           /\ \A c \in Calls : callStatus'[c] = "NONE" <=> callStatus[c] = "NONE"
           /\ \A c \in Calls : apprStatus'[c] = "NONE" <=> apprStatus[c] = "NONE"
<1>t. TypeOK
  BY DEF OnceInv
<1>1. UNCHANGED <<token, pc, req, executions, leaseToken, leasesIssued, callIntent>>
  BY <1>t, BlockMoves DEF gateVars, workerVars, leaseVars
<1>2. \A v \in Workers : Current(v) => pc[v] = "idle"
  BY <1>t, BlockMoves, OneHolder
<1>3. \A c \in Calls : /\ callStatus'[c] = "NONE" <=> callStatus[c] = "NONE"
                       /\ callStatus'[c] = "PREPARED" <=> callStatus[c] = "PREPARED"
  BY <1>t, BlockMoves
<1>4. \A c \in Calls : apprStatus'[c] = "NONE" <=> apprStatus[c] = "NONE"
  BY <1>t, BlockMoves DEF ActiveApproval
<1>5. \A i \in Intents : Attempts(i)' = Attempts(i)
  BY <1>1, <1>3 DEF Attempts
<1> QED
  BY <1>1, <1>2, <1>3, <1>4, <1>5

\* Blocking the run keeps what the Gate relies on.
LEMMA BlockKeepsOnce ==
    ASSUME OnceInv, NEW w \in Workers, Blocks(w)
    PROVE  OnceInv'
<1>t. TypeOK /\ TypeOK'
  BY BlockMoves DEF OnceInv
<1>1. /\ UNCHANGED <<token, pc, req, executions, leaseToken, leasesIssued, callIntent>>
      /\ \A i \in Intents : Attempts(i)' = Attempts(i)
      /\ \A v \in Workers : Current(v) => pc[v] = "idle"
      /\ \A c \in Calls : callStatus'[c] = "NONE" <=> callStatus[c] = "NONE"
  BY <1>t, BlockMoves, BlockRests
<1>2. RowsHaveIntents'
  BY <1>1 DEF OnceInv, RowsHaveIntents
<1>3. TokensAreFresh'
  BY <1>1 DEF OnceInv, TokensAreFresh
<1>4. AllowedIsUntried'
  BY <1>1 DEF AllowedIsUntried, AllowedSteps, Current
<1>5. \A v \in Workers : pc[v] = "exec" => req[v].intent \in Intents
  BY <1>t DEF TypeOK, GateTypeOK, Request
<1>6. RunningIsRecorded'
  <2> SUFFICES ASSUME NEW v \in Workers, pc'[v] = "exec"
               PROVE  req[v].call \in Attempts(req[v].intent)'
    BY <1>1 DEF RunningIsRecorded, Attempts
  <2>1. req[v].call \in Attempts(req[v].intent) /\ req[v].intent \in Intents
    BY <1>1, <1>5 DEF OnceInv, RunningIsRecorded
  <2>2. /\ req[v].call \in Calls /\ callIntent'[req[v].call] = req[v].intent
        /\ callStatus'[req[v].call] \notin {"NONE", "PREPARED"}
    BY <1>1, <1>t, <2>1, BlockMoves DEF Attempts
  <2> QED
    BY <1>1, <2>2 DEF Attempts
<1>7. OneRunner'
  BY <1>1 DEF OnceInv, OneRunner
<1>8. ExecutedWasTried' /\ AtMostOnce'
  BY <1>1 DEF OnceInv, ExecutedWasTried, AtMostOnce
<1> QED
  BY <1>t, <1>2, <1>3, <1>4, <1>6, <1>7, <1>8 DEF OnceInv

\* ... and the approvals that authorised what has run.
LEMMA BlockKeepsLedger ==
    ASSUME LedgerInv, NEW w \in Workers, Blocks(w)
    PROVE  LedgerInv'
<1>o. /\ OnceInv /\ TypeOK /\ ApprovalsHaveRows /\ IntentsAreAuthorised /\ RoutesAreAuthorised
      /\ SnapshotKept /\ RunnersAreApart
      /\ WaitingOnOneApproval /\ ApprovalTracksCall /\ ChargedOnce
      /\ ExecutionsAreDone /\ AttemptsWithinLimit
  BY DEF LedgerInv, AuthorisedInv, OnceInv, CallerInv, RowInv
<1>n. OnceInv' /\ TypeOK'
  BY <1>o, BlockKeepsOnce DEF OnceInv
<1>r. /\ \A i \in Intents : Attempts(i)' = Attempts(i)
      /\ UNCHANGED <<token, pc, req, executions, leaseToken, callIntent>>
      /\ \A v \in Workers : Current(v)' => pc[v] = "idle"
      /\ \A c \in Calls : callStatus'[c] = "NONE" <=> callStatus[c] = "NONE"
      /\ \A c \in Calls : apprStatus'[c] = "NONE" <=> apprStatus[c] = "NONE"
  BY <1>o, BlockRests, BlockMoves DEF Current
<1>c. \A v \in Workers : pc[v] # "idle" => req[v].call \in Calls /\ req[v].intent \in Intents
  BY <1>o DEF TypeOK, GateTypeOK, Request
<1>1. ApprovalsHaveRows' /\ IntentsAreAuthorised'
  BY <1>o, <1>r DEF ApprovalsHaveRows, IntentsAreAuthorised
<1>2. ApprovalTracksCall'
  <2> SUFFICES ASSUME NEW c \in Calls, apprStatus'[c] # "NONE"
               PROVE  /\ callStatus'[c] \in DeterministicResult <=> apprStatus'[c] = "CONSUMED"
                      /\ callStatus'[c] \in {"STARTED", "UNKNOWN_RESULT"} => apprStatus'[c] = "CLAIMED"
    BY DEF ApprovalTracksCall
  <2>1. /\ callStatus[c] \in DeterministicResult <=> apprStatus[c] = "CONSUMED"
        /\ callStatus[c] \in {"STARTED", "UNKNOWN_RESULT"} => apprStatus[c] = "CLAIMED"
        /\ apprStatus[c] \in ActiveApproval => callStatus[c] = "PREPARED"
    BY <1>o, <1>r DEF ApprovalTracksCall, WaitingOnOneApproval
  <2> QED
    BY <1>o, <2>1, BlockMoves DEF DeterministicResult, ActiveApproval
<1>3. RoutesAreAuthorised'
  <2> SUFFICES ASSUME NEW v \in Workers
               PROVE  /\ pc[v] = "open" => NeedsApproval[req[v].intent]
                      /\ pc[v] \in {"prepare", "recover"} => ~NeedsApproval[req[v].intent]
                      /\ pc[v] = "exec" /\ NeedsApproval[req[v].intent] =>
                            apprStatus'[req[v].call] \in Spent
    BY <1>r DEF RoutesAreAuthorised
  <2>1. ASSUME pc[v] = "exec", NeedsApproval[req[v].intent]
        PROVE  apprStatus'[req[v].call] \in Spent
    <3>1. /\ req[v].call \in Calls /\ callStatus[req[v].call] # "PREPARED"
          /\ apprStatus[req[v].call] \in Spent
      BY <1>o, <2>1 DEF OnceInv, RunningIsRecorded, Attempts, RoutesAreAuthorised
    <3> QED
      BY <1>o, <3>1, BlockMoves DEF Spent, ActiveApproval
  <2> QED
    BY <1>o, <2>1 DEF RoutesAreAuthorised
<1>4. ApprovedBeforeExecution'
  <2> SUFFICES ASSUME NEW i \in Intents, NeedsApproval[i], executions'[i] > 0
               PROVE  \E c \in Calls : callIntent'[c] = i /\ apprStatus'[c] \in {"CLAIMED", "CONSUMED"}
    BY DEF ApprovedBeforeExecution
  <2>1. PICK c \in Calls : /\ callIntent[c] = i /\ callStatus[c] \notin {"NONE", "PREPARED"}
    BY <1>o, <1>r DEF OnceInv, ExecutedWasTried, Attempts
  <2>2. apprStatus[c] \in {"CLAIMED", "CONSUMED"}
    <3>1. apprStatus[c] # "NONE"
      BY <1>o, <2>1 DEF IntentsAreAuthorised
    <3>2. callStatus[c] \in {"STARTED", "UNKNOWN_RESULT"} \cup DeterministicResult
      BY <1>o, <2>1 DEF TypeOK, StoreTypeOK, InvocationStatus, TerminalInvocation
    <3> QED
      BY <1>o, <3>1, <3>2 DEF ApprovalTracksCall
  <2>3. apprStatus'[c] = apprStatus[c]
    BY <1>o, <2>1, <2>2, BlockMoves DEF ActiveApproval
  <2> QED
    BY <1>r, <2>1, <2>2, <2>3
<1>5. CallerInv'
  <2>1. SnapshotKept'
    BY <1>o, <1>r, <1>c DEF SnapshotKept
  <2>2. ClaimedInRunningRun' /\ AllowedIsWithinLimit'
    BY <1>r DEF ClaimedInRunningRun, AllowedIsWithinLimit, AllowedSteps
  <2>3. RunnersAreApart'
    BY <1>o, <1>r DEF RunnersAreApart
  <2> QED
    BY <2>1, <2>2, <2>3 DEF CallerInv
<1>6. WaitingOnOneApproval'
  <2>1. runStatus' = "BLOCKED" /\ \A c \in Calls : apprStatus'[c] \notin ActiveApproval
    BY <1>o, BlockMoves DEF ActiveApproval
  <2> QED
    BY <2>1 DEF WaitingOnOneApproval
<1>7. ExecutionsAreDone' /\ AttemptsWithinLimit'
  <2>1. \A i \in Intents : Done(i)' = Done(i)
    BY <1>r DEF Done
  <2> QED
    BY <1>o, <1>r, <2>1 DEF ExecutionsAreDone, AttemptsWithinLimit
<1>8. ChargedOnce'
  <2>1. ledger' = ledger /\ usedToolCalls' = usedToolCalls /\ ledger \subseteq Calls
    BY <1>o, BlockMoves DEF budgetVars, TypeOK, StoreTypeOK
  <2>2. Allowed' \subseteq Allowed
    BY <1>o, <1>r, BlockMoves DEF Allowed
  <2>3. ASSUME NEW c \in ledger, c \notin Allowed'
        PROVE  callStatus'[c] # "NONE" /\ apprStatus'[c] = "INVALIDATED"
    <3>1. c \in Calls /\ callStatus[c] # "NONE"
      BY <1>o, <2>1 DEF ChargedOnce, Allowed
    <3>2. c \in Allowed => apprStatus'[c] # apprStatus[c]
      BY <1>r, <2>3, <3>1 DEF Allowed
    <3>3. c \notin Allowed => apprStatus[c] = "INVALIDATED"
      BY <1>o DEF ChargedOnce
    <3> QED
      BY <1>o, <1>r, <3>1, <3>2, <3>3, BlockMoves DEF ActiveApproval
  <2>4. usedToolCalls' = Cardinality(ledger)'
    BY <1>o, <2>1 DEF ChargedOnce
  <2> QED
    BY <1>o, <2>1, <2>2, <2>3, <2>4 DEF ChargedOnce
<1> QED
  BY <1>n, <1>1, <1>2, <1>3, <1>4, <1>5, <1>6, <1>7, <1>8 DEF LedgerInv, AuthorisedInv, RowInv

\* Every step of the composition keeps the invariant of the Gate.
LEMMA RecoverableKeepsLedger ==
    LedgerInv /\ [RecoverableNext]_recoverableVars => LedgerInv'
BY NextLedger, BlockKeepsLedger, GateOrBlocks

\* The Gate starts as it does without recovery.
LEMMA RecoverableInitLedger == RecoverableInit => LedgerInv
BY InitLedger DEF RecoverableInit

-------------------------------------------------------------------------------
(* Checkpoints and plans are well typed *)

\* No checkpoint, an unchanged workspace, and a session for the first process.
LEMMA RecoverableInitTyped == RecoverableInit => CheckpointTypeOK
<1> SUFFICES ASSUME RecoverableInit PROVE CheckpointTypeOK
  OBVIOUS
<1> QED
  BY DEF RecoverableInit, CheckpointInit, CheckpointTypeOK, PlanState

\* Every step keeps the types of the checkpoint, the workspace and the plans.
LEMMA RecoverableKeepsTypes ==
    ASSUME TypeOK, CheckpointTypeOK, [RecoverableNext]_recoverableVars
    PROVE  CheckpointTypeOK'
<1> USE CheckpointAssumption
<1>t. /\ hasCheckpoint \in BOOLEAN /\ boundaries \subseteq Calls /\ evidenced \subseteq Calls
      /\ dirty \subseteq Paths /\ edited \subseteq dirty
      /\ bindingSame \in BOOLEAN /\ configSame \in BOOLEAN /\ plan \in [Workers -> PlanState]
  BY DEF CheckpointTypeOK
<1>g. ASSUME /\ hasCheckpoint' \in BOOLEAN /\ boundaries' \subseteq Calls /\ evidenced' \subseteq Calls
             /\ dirty' \subseteq Paths /\ edited' \subseteq dirty'
             /\ bindingSame' \in BOOLEAN /\ configSame' \in BOOLEAN
             /\ plan' \in [Workers -> PlanState]
      PROVE  CheckpointTypeOK'
  BY <1>g DEF CheckpointTypeOK
<1>p. ASSUME NEW w \in Workers, NEW a \in PlanState, Plan(w, a)
      PROVE  plan' \in [Workers -> PlanState]
  BY <1>p, <1>t DEF Plan
<1>c. ASSUME NEW S \in SUBSET Calls, WriteCheckpoint(S)
      PROVE  /\ hasCheckpoint' \in BOOLEAN /\ boundaries' \subseteq Calls
             /\ evidenced' \subseteq Calls /\ dirty' \subseteq Paths /\ edited' \subseteq dirty'
             /\ bindingSame' \in BOOLEAN
  BY <1>c, <1>t DEF WriteCheckpoint
<1>1. ASSUME UNCHANGED recoveryVars
      PROVE  CheckpointTypeOK'
  BY <1>1, <1>t, <1>g DEF recoveryVars, checkpointVars, workspaceVars
<1>2. ASSUME NEW w \in Workers, NEW a \in PlanState, Plan(w, a),
             UNCHANGED <<checkpointVars, workspaceVars>>
      PROVE  CheckpointTypeOK'
  BY <1>2, <1>t, <1>p, <1>g DEF checkpointVars, workspaceVars
<1>3. ASSUME NEW w \in Workers, InvokeInSession(w) \/ OtherCallStep(w) \/ SessionStep(w)
      PROVE  CheckpointTypeOK'
  BY <1>1, <1>3 DEF InvokeInSession, OtherCallStep, SessionStep
<1>s. RecoveryAction \subseteq PlanState /\ ReentryPlan \subseteq PlanState
      /\ {"NONE", "SESSION", "WRITE_FAILED"} \subseteq PlanState
  BY DEF PlanState, RecoveryAction, ReentryPlan
<1>4. ASSUME NEW w \in Workers, ReenterAsPlanned(w) \/ ChangeOwner(w) \/ Resume(w)
      PROVE  CheckpointTypeOK'
  BY <1>2, <1>4, <1>s DEF ReenterAsPlanned, ChangeOwner, Resume
<1>5. ASSUME NEW w \in Workers, RecoverRebuilding(w)
      PROVE  CheckpointTypeOK'
  <2>1. PICK c \in Calls : WriteCheckpoint({c})
    BY <1>5 DEF RecoverRebuilding, Missing
  <2>2. /\ UNCHANGED configSame /\ Plan(w, "REBUILD_CHECKPOINT_THEN_CONTINUE")
        /\ "REBUILD_CHECKPOINT_THEN_CONTINUE" \in PlanState
    BY <1>5 DEF RecoverRebuilding, Deciding, PlanState, RecoveryAction
  <2> QED
    BY <1>t, <1>p, <1>c, <1>g, <2>1, <2>2
<1>6. ASSUME NEW w \in Workers, PrepareRecovery(w), ~RecoverRebuilding(w)
      PROVE  CheckpointTypeOK'
  <2>1. /\ \E a \in RecoveryAction \cup {"WRITE_FAILED"} : Plan(w, a)
        /\ UNCHANGED <<checkpointVars, workspaceVars>>
    BY <1>6 DEF PrepareRecovery, RecoverSettledRun, RecoverBrokenBinding,
       RecoverBrokenBindingFails, RecoverExpired, RecoverManually, RecoverStarted,
       RecoverPrepared, RecoverContinuing, Deciding, RecoveryAction, ReentryPlan
  <2> QED
    BY <1>2, <1>s, <2>1
<1>7. ASSUME NEW w \in Workers, CheckpointStep(w) \/ \E c \in Calls : CheckpointCall(w, c)
      PROVE  CheckpointTypeOK'
  <2>1. PICK S \in SUBSET Calls : WriteCheckpoint(S)
    BY <1>7 DEF CheckpointStep, CheckpointCall
  <2>2. UNCHANGED <<configSame, plan>>
    BY <1>7 DEF CheckpointStep, CheckpointCall
  <2> QED
    BY <1>t, <1>c, <1>g, <2>1, <2>2
<1>8. ASSUME NEW w \in Workers, ExecuteOnWorkspace(w)
      PROVE  CheckpointTypeOK'
  <2>1. req[w].intent \in Intents
    BY <1>8 DEF ExecuteOnWorkspace, Execute, TypeOK, GateTypeOK, Request
  <2>2. dirty \subseteq dirty' /\ dirty' \subseteq Paths
    BY <1>8, <1>t, <2>1 DEF ExecuteOnWorkspace
  <2> QED
    BY <1>8, <1>t, <1>g, <2>2 DEF ExecuteOnWorkspace, checkpointVars
<1>9. ASSUME NEW w \in Workers, PersistAndSettle(w)
      PROVE  CheckpointTypeOK'
  <2>1. req[w].call \in Calls
    BY <1>9 DEF PersistAndSettle, PersistResult, TypeOK, GateTypeOK, Request
  <2>2. evidenced' \subseteq Calls
    BY <1>9, <1>t, <2>1 DEF PersistAndSettle
  <2> QED
    BY <1>9, <1>t, <1>g, <2>2 DEF PersistAndSettle, workspaceVars
<1>10. ASSUME OutsideChange
       PROVE  CheckpointTypeOK'
  BY <1>10, <1>t, <1>g DEF OutsideChange, checkpointVars
<1>11. ASSUME Approver \/ Clock \/ UNCHANGED recoverableVars
       PROVE  CheckpointTypeOK'
  BY <1>11, <1>1 DEF Approver, Clock, recoverableVars
<1> QED
  BY <1>3, <1>4, <1>5, <1>6, <1>7, <1>8, <1>9, <1>10, <1>11
     DEF RecoverableNext, WorkerStep, RecoverableCallStep

-------------------------------------------------------------------------------
(* One process goes on with the run *)

\* A call under way was entered in a session.
CallersAreInSession == \A w \in Workers : pc[w] # "idle" => plan[w] = "SESSION"

\* Until its result is stored the call of a running handler is STARTED, or recovery has
\* given it an unknown result.
BegunIsKept ==
    \A w \in Workers :
       /\ pc[w] = "exec" => callStatus[req[w].call] \in {"STARTED", "UNKNOWN_RESULT"}
       /\ pc[w] = "persist" => callStatus[req[w].call] \notin {"NONE", "PREPARED"}

\* No call has two processes that run its handler or are about to store its result.
HandlersAreApart ==
    \A v, w \in Workers :
       /\ pc[v] \in {"exec", "persist"} /\ pc[w] \in {"exec", "persist"}
       /\ req[v].call = req[w].call
       => v = w

\* The plans that let a process go on with the run, now or in its next step.
GoingOn == Resumable \cup {"SESSION"}

\* The holder of the lease goes on only if nobody else is still in a handler.
GoesOnAlone ==
    \A v, w \in Workers : Current(v) /\ plan[v] \in GoingOn /\ pc[w] = "exec" => v = w

\* As long as the lease stays where it is, what the plan found settled is settled.
PlannedIsQuiet ==
    \A w \in Workers : Current(w) /\ plan[w] \in Resumable => Started = {} /\ Unknown = {}

\* The run is not blocked under a call of the holder of the lease.
CallersAreUnblocked ==
    \A w \in Workers : Current(w) /\ pc[w] # "idle" => runStatus # "BLOCKED"

RecoveryInv ==
    /\ LedgerInv /\ CheckpointTypeOK
    /\ CallersAreInSession /\ BegunIsKept /\ HandlersAreApart /\ SerialExecution
    /\ GoesOnAlone /\ PlannedIsQuiet /\ CallersAreUnblocked

\* What a step does to the plan of one worker: nothing, except that a call is entered
\* only in a session; or it takes the right to go on away; or, the worker being the holder
\* and nothing being STARTED or unknown, it gives that right; or it turns a plan that
\* gives it into a session.
LEMMA PlanMoves ==
    ASSUME OnceInv, CheckpointTypeOK, [RecoverableNext]_recoverableVars, NEW v \in Workers
    PROVE  \/ /\ plan'[v] = plan[v]
              /\ pc[v] = "idle" /\ pc'[v] # "idle" => plan[v] = "SESSION"
              /\ Current(v)' => Current(v)
           \/ plan'[v] \notin GoingOn /\ pc'[v] = "idle"
           \/ /\ plan'[v] \in Resumable /\ pc'[v] = "idle" /\ Holds(v)
              /\ Started = {} /\ Unknown = {} /\ UNCHANGED vars
           \/ /\ plan[v] \in Resumable /\ plan'[v] = "SESSION"
              /\ \/ UNCHANGED vars
                 \/ \E c \in Calls : ReenterPrepared(v, c)
<1> DEFINE Stays == /\ plan'[v] = plan[v]
                    /\ pc[v] = "idle" /\ pc'[v] # "idle" => plan[v] = "SESSION"
                    /\ Current(v)' => Current(v)
           Loses == plan'[v] \notin GoingOn /\ pc'[v] = "idle"
           Gains == /\ plan'[v] \in Resumable /\ pc'[v] = "idle" /\ Holds(v)
                    /\ Started = {} /\ Unknown = {} /\ UNCHANGED vars
           Resumes == /\ plan[v] \in Resumable /\ plan'[v] = "SESSION"
                      /\ \/ UNCHANGED vars
                         \/ \E c \in Calls : ReenterPrepared(v, c)
           Goal == Stays \/ Loses \/ Gains \/ Resumes
<1> SUFFICES Goal
  OBVIOUS
<1>t. plan \in [Workers -> PlanState] /\ pc \in [Workers -> Steps]
      /\ token \in [Workers -> {0} \cup Tokens]
  BY DEF OnceInv, TypeOK, GateTypeOK, CheckpointTypeOK
<1>n. {"NONE", "WRITE_FAILED", "ALREADY_TERMINAL", "MANUAL_REVIEW", "MARK_UNKNOWN_RESULT"}
         \cap GoingOn = {}
  BY DEF GoingOn, Resumable, ReentryPlan
<1>1. ASSUME UNCHANGED plan, leaseToken' = leaseToken, token'[v] = token[v],
             pc'[v] = pc[v] \/ plan[v] = "SESSION"
      PROVE  Stays
  BY <1>1 DEF Current
<1>2. ASSUME NEW w \in Workers, NEW a, Plan(w, a), leaseToken' = leaseToken,
             token'[v] = token[v], w # v, pc'[v] = pc[v]
      PROVE  Stays
  BY <1>2, <1>t DEF Plan, Current
<1>3. ASSUME NEW w \in Workers, RecoverableCallStep(w)
      PROVE  Stays
  <2>1. UNCHANGED <<plan, leaseToken, token>> /\ pc[w] # "idle"
    BY <1>3 DEF RecoverableCallStep, ExecuteOnWorkspace, PersistAndSettle, OtherCallStep,
       recoveryVars, CheckAgain, OpenApproval, WaitForApproval, ClaimAndAllow, ClaimTooLate,
       PrepareAndAllow, RecoveryAllow, ResumeClaimed, MarkStarted, Execute, PersistResult,
       UnitFails, UnitSteps, Return, storeVars, leaseVars
  <2>2. v # w => pc'[v] = pc[v]
    BY <1>3, <1>t DEF RecoverableCallStep, ExecuteOnWorkspace, PersistAndSettle, OtherCallStep,
       CheckAgain, OpenApproval, WaitForApproval, ClaimAndAllow, ClaimTooLate,
       PrepareAndAllow, RecoveryAllow, ResumeClaimed, MarkStarted, Execute, PersistResult,
       UnitFails, Goto, Return
  <2> QED
    BY <2>1, <2>2 DEF Current
<1>4. ASSUME NEW w \in Workers, InvokeInSession(w)
      PROVE  Stays
  <2>1. /\ UNCHANGED <<plan, leaseToken, token>> /\ plan[w] = "SESSION"
        /\ v # w => pc'[v] = pc[v]
    BY <1>4, <1>t DEF InvokeInSession, Invoke, Goto, recoveryVars, storeVars, leaseVars
  <2> QED
    BY <1>1, <2>1
<1>5. ASSUME NEW w \in Workers, ReenterAsPlanned(w)
      PROVE  Goal
  <2>1. PICK c \in Calls : ReenterPrepared(w, c)
    BY <1>5 DEF ReenterAsPlanned, Prepared
  <2>2. Plan(w, "SESSION") /\ plan[w] \in Resumable
    BY <1>5 DEF ReenterAsPlanned, Resumable
  <2>3. UNCHANGED <<leaseToken, token>> /\ (v # w => pc'[v] = pc[v])
    BY <1>t, <2>1 DEF ReenterPrepared, Goto, storeVars, leaseVars
  <2>4. v = w => Resumes
    BY <1>t, <2>1, <2>2 DEF Plan
  <2> QED
    BY <1>2, <2>2, <2>3, <2>4
<1>6. ASSUME NEW w \in Workers, Resume(w)
      PROVE  Goal
  <2>1. UNCHANGED vars /\ Plan(w, "SESSION") /\ plan[w] \in Resumable
    BY <1>6 DEF Resume, Resumable, vars
  <2>2. UNCHANGED <<leaseToken, token, pc>>
    BY <2>1 DEF vars, storeVars, leaseVars, gateVars, workerVars
  <2>3. v = w => Resumes
    BY <1>t, <2>1 DEF Plan
  <2> QED
    BY <1>2, <2>1, <2>2, <2>3
<1>7. ASSUME NEW w \in Workers, PrepareRecovery(w)
      PROVE  Goal
  <2>1. InRecovery(w) /\ UNCHANGED <<leaseToken, token, pc>>
    BY <1>7 DEF PrepareRecovery, RecoverSettledRun, RecoverBrokenBinding,
       RecoverBrokenBindingFails, RecoverExpired, RecoverManually, RecoverStarted,
       RecoverPrepared, RecoverRebuilding, RecoverContinuing, Deciding, storeVars, leaseVars,
       gateVars, workerVars
  <2>2. CASE \/ RecoverSettledRun(w) \/ RecoverBrokenBinding(w) \/ RecoverBrokenBindingFails(w)
             \/ RecoverExpired(w) \/ RecoverManually(w) \/ RecoverStarted(w)
    <3>1. PICK a \in {"WRITE_FAILED", "ALREADY_TERMINAL", "MANUAL_REVIEW", "MARK_UNKNOWN_RESULT"} :
             Plan(w, a)
      BY <2>2 DEF RecoverSettledRun, RecoverBrokenBinding, RecoverBrokenBindingFails,
                  RecoverExpired, RecoverManually, RecoverStarted, Deciding
    <3>2. v = w => Loses
      BY <1>n, <1>t, <2>1, <3>1 DEF Plan, InRecovery
    <3> QED
      BY <1>2, <2>1, <3>1, <3>2
  <2>3. CASE RecoverPrepared(w) \/ RecoverRebuilding(w) \/ RecoverContinuing(w)
    <3>1. PICK a \in Resumable : Deciding(w, a)
      BY <2>3 DEF RecoverPrepared, RecoverRebuilding, RecoverContinuing, Resumable
    <3>2. UNCHANGED vars
      BY <2>3 DEF RecoverPrepared, RecoverRebuilding, RecoverContinuing, vars
    <3>3. Decision \in Resumable
      BY <3>1 DEF Deciding
    <3>4. Started = {} /\ Unknown = {}
      BY <3>3 DEF Decision, Resumable, ReentryPlan
    <3>5. v = w => Gains
      BY <1>t, <2>1, <3>1, <3>2, <3>4 DEF Plan, Deciding, InRecovery
    <3>6. Plan(w, a)
      BY <3>1 DEF Deciding
    <3> QED
      BY <1>2, <2>1, <3>5, <3>6
  <2> QED
    BY <1>7, <2>2, <2>3 DEF PrepareRecovery
<1>8. ASSUME NEW w \in Workers, ChangeOwner(w)
      PROVE  Goal
  <2>1. Plan(w, "NONE")
    BY <1>8 DEF ChangeOwner
  <2>2. pc'[w] = "idle" /\ (v # w => pc'[v] = pc[v])
    BY <1>8, <1>t DEF ChangeOwner, TakeLease, DropLease, Crash
  <2>3. v = w => Loses
    BY <1>n, <1>t, <2>1, <2>2 DEF Plan
  <2>4. ASSUME v # w PROVE Stays
    <3>1. \/ leaseToken' = leaseToken \/ leaseToken' = 0
          \/ leaseToken' = leasesIssued + 1
      BY <1>8 DEF ChangeOwner, TakeLease, DropLease, Crash, AcquireLease, ReleaseLease,
                  storeVars, leaseVars
    <3>2. token'[v] = token[v]
      BY <1>8, <1>t, <2>4 DEF ChangeOwner, TakeLease, DropLease, Crash
    <3>3. token[v] <= leasesIssued /\ token[v] \in Nat /\ leasesIssued \in Nat
      BY <1>t, StoreAssumption DEF OnceInv, TokensAreFresh, TypeOK, StoreTypeOK, Tokens
    <3>4. Current(v)' => Current(v)
      BY <3>1, <3>2, <3>3 DEF Current
    <3> QED
      BY <1>t, <2>1, <2>2, <2>4, <3>4 DEF Plan
  <2> QED
    BY <2>3, <2>4
<1>9. ASSUME NEW w \in Workers,
             SessionStep(w) \/ CheckpointStep(w) \/ \E c \in Calls : CheckpointCall(w, c)
      PROVE  Stays
  <2>1. UNCHANGED <<plan, leaseToken, token, pc>>
    BY <1>9 DEF SessionStep, ExpireDue, MoveRun, CheckpointStep, CheckpointCall, recoveryVars,
                storeVars, leaseVars, gateVars, workerVars
  <2> QED
    BY <1>1, <2>1
<1>10. ASSUME Approver \/ Clock \/ OutsideChange \/ UNCHANGED recoverableVars
       PROVE  Stays
  <2>1. UNCHANGED <<plan, leaseToken, token, pc>>
    BY <1>10 DEF Approver, Decide, DecideTooLate, Clock, ClockPasses, LeaseExpires,
       OutsideChange, recoverableVars, vars, recoveryVars, storeVars, leaseVars, gateVars,
       workerVars
  <2> QED
    BY <1>1, <2>1
<1> HIDE DEF Stays, Loses, Gains, Resumes
<1> QED
  BY <1>3, <1>4, <1>5, <1>6, <1>7, <1>8, <1>9, <1>10 DEF RecoverableNext, WorkerStep

\* A call that is about to store its result was in the handler just before, or was about
\* to store it already.
LEMMA PersistersRan ==
    ASSUME OnceInv, [Next]_vars, NEW v \in Workers, pc'[v] = "persist"
    PROVE  pc[v] \in {"exec", "persist"} /\ req'[v] = req[v]
<1>t. TypeOK
  BY DEF OnceInv
<1>1. CASE Rests(v)
  BY <1>1 DEF Rests
<1>2. CASE Moves(v)
  <2>1. ASSUME \/ \E c \in Calls, i \in Intents : Invoke(v, c, i)
               \/ \E c \in Calls : ReenterPrepared(v, c)
               \/ CheckAgain(v)
        PROVE  FALSE
    <3>1. PICK step \in UnitSteps \ {"persist"} : pc' = [pc EXCEPT ![v] = step]
      BY <2>1 DEF Invoke, ReenterPrepared, CheckAgain, Goto, Routed, Recovers
    <3> QED
      BY <3>1, <1>t DEF TypeOK, GateTypeOK
  <2>2. ASSUME \/ WaitForApproval(v) \/ ClaimAndAllow(v) \/ PrepareAndAllow(v)
               \/ RecoveryAllow(v) \/ ResumeClaimed(v) \/ MarkStarted(v)
        PROVE  FALSE
    BY <2>2, <1>t DEF WaitForApproval, ClaimAndAllow, PrepareAndAllow, RecoveryAllow,
          ResumeClaimed, MarkStarted, Goto, Return, TypeOK, GateTypeOK
  <2> QED
    BY <1>2, <2>1, <2>2 DEF Moves, Execute
<1> QED
  BY <1>1, <1>2, MovesOrRests

\* Only storing a result, or recovery, ends the STARTED status of a call.
LEMMA StartedStays ==
    ASSUME LedgerInv, [Next]_vars, NEW c \in Calls,
           ~ \E w \in Workers : PersistResult(w) /\ req[w].call = c
    PROVE  callStatus[c] = "STARTED" => callStatus'[c] = "STARTED"
<1>t. TypeOK
  BY DEF LedgerInv, AuthorisedInv, OnceInv
<1>1. ASSUME NEW w \in Workers, OpenApproval(w) \/ PrepareAndAllow(w) \/ MarkStarted(w)
      PROVE  callStatus[c] = "STARTED" => callStatus'[c] = "STARTED"
  <2>1. req[w].call \in Calls
    BY <1>1, <1>t DEF OpenApproval, PrepareAndAllow, MarkStarted, TypeOK, GateTypeOK, Request
  <2> QED
    BY <1>1, <1>t, <2>1 DEF OpenApproval, PrepareAndAllow, MarkStarted, CreateInvocation,
       TransitionInvocation, TypeOK, StoreTypeOK
<1>2. ASSUME NEW w \in Workers, PersistResult(w)
      PROVE  callStatus[c] = "STARTED" => callStatus'[c] = "STARTED"
  <2>1. req[w].call # c
    BY <1>2
  <2> QED
    BY <1>2, <1>t, <2>1 DEF PersistResult, TransitionInvocation, TypeOK, StoreTypeOK
<1>3. ASSUME \/ UNCHANGED callVars
             \/ \E w \in Workers : ClaimAndAllow(w) \/ \E to \in RunStatus : MoveRun(w, to)
             \/ \E d \in Calls : Decide(d)
      PROVE  callStatus' = callStatus
  BY <1>3 DEF ClaimAndAllow, MoveRun, Decide, callVars
<1> QED
  BY <1>t, <1>1, <1>2, <1>3, RowWrites

\* The calls of running handlers stay begun and apart.
LEMMA HandlersKept ==
    ASSUME LedgerInv, BegunIsKept, HandlersAreApart, [Next]_vars
    PROVE  BegunIsKept' /\ HandlersAreApart'
<1>o. OnceInv /\ TypeOK
  BY DEF LedgerInv, AuthorisedInv, OnceInv
<1>c. ASSUME NEW v \in Workers, pc[v] # "idle"
      PROVE  req[v].call \in Calls
  BY <1>c, <1>o DEF TypeOK, GateTypeOK, Request
<1>h. ASSUME NEW v \in Workers, pc'[v] \in {"exec", "persist"}
      PROVE  /\ req'[v] = req[v]
             /\ \/ pc[v] \in {"exec", "persist"}
                \/ MarkStarted(v) /\ pc' = [pc EXCEPT ![v] = "exec"]
  BY <1>h, <1>o, RunnersStart, PersistersRan
<1>1. BegunIsKept'
  <2> SUFFICES ASSUME NEW v \in Workers
               PROVE  /\ pc'[v] = "exec" =>
                            callStatus'[req'[v].call] \in {"STARTED", "UNKNOWN_RESULT"}
                      /\ pc'[v] = "persist" =>
                            callStatus'[req'[v].call] \notin {"NONE", "PREPARED"}
    BY DEF BegunIsKept
  <2>1. ASSUME MarkStarted(v), pc'[v] = "exec"
        PROVE  callStatus'[req'[v].call] = "STARTED"
    <3>1. req[v].call \in Calls
      BY <2>1, <1>c DEF MarkStarted
    <3> QED
      BY <2>1, <3>1, <1>o DEF MarkStarted, TransitionInvocation, TypeOK, StoreTypeOK
  <2>2. ASSUME pc[v] = "exec", pc'[v] = "exec"
        PROVE  callStatus'[req'[v].call] \in {"STARTED", "UNKNOWN_RESULT"}
    <3>1. req'[v] = req[v] /\ req[v].call \in Calls
      BY <1>c, <1>h, <2>2
    <3>2. callStatus[req[v].call] \in {"STARTED", "UNKNOWN_RESULT"}
      BY <2>2 DEF BegunIsKept
    <3>3. ~ \E w \in Workers : PersistResult(w) /\ req[w].call = req[v].call
      BY <2>2 DEF PersistResult, HandlersAreApart
    <3>4. callStatus[req[v].call] = "UNKNOWN_RESULT" => callStatus'[req[v].call] = "UNKNOWN_RESULT"
      BY <1>o, <3>1, CallsGoForward DEF TerminalInvocation
    <3> QED
      BY <3>1, <3>2, <3>3, <3>4, StartedStays
  <2>3. ASSUME pc'[v] = "persist"
        PROVE  callStatus'[req'[v].call] \notin {"NONE", "PREPARED"}
    <3>1. pc[v] \in {"exec", "persist"} /\ req'[v] = req[v] /\ req[v].call \in Calls
      BY <1>o, <1>c, <2>3, PersistersRan
    <3>2. callStatus[req[v].call] \notin {"NONE", "PREPARED"}
      BY <3>1 DEF BegunIsKept
    <3>3. callStatus[req[v].call] \in {"STARTED"} \cup TerminalInvocation
      BY <1>o, <3>1, <3>2 DEF TypeOK, StoreTypeOK, InvocationStatus
    <3> QED
      BY <1>o, <3>1, <3>2, <3>3, CallsGoForward
  <2> QED
    BY <1>o, <2>1, <2>2, <2>3, RunnersStart
<1>2. HandlersAreApart'
  <2> SUFFICES ASSUME NEW u \in Workers, NEW v \in Workers, u # v,
                      pc'[u] \in {"exec", "persist"}, pc'[v] \in {"exec", "persist"},
                      req'[u].call = req'[v].call
               PROVE  FALSE
    BY DEF HandlersAreApart
  <2>1. ASSUME NEW x \in Workers, NEW y \in Workers, MarkStarted(x), pc[y] \in {"exec", "persist"},
               req[x].call = req[y].call
        PROVE  FALSE
    BY <2>1, StarterRow DEF BegunIsKept
  <2>2. req[u].call = req[v].call
    BY <1>h
  <2>3. pc[u] \in {"exec", "persist"} \/ pc[v] \in {"exec", "persist"}
    BY <1>h, <1>o DEF TypeOK, GateTypeOK
  <2>4. pc[u] \in {"exec", "persist"} /\ pc[v] \in {"exec", "persist"}
    BY <1>h, <2>1, <2>2, <2>3
  <2> QED
    BY <2>2, <2>4 DEF HandlersAreApart
<1> QED
  BY <1>1, <1>2

\* Only the orchestrator blocks a run outside recovery, and only between calls.
LEMMA MoveRunBlocks ==
    ASSUME TypeOK, [Next]_vars, runStatus # "BLOCKED", runStatus' = "BLOCKED"
    PROVE  \E w \in Workers : pc[w] = "idle" /\ Holds(w) /\ UNCHANGED <<leaseToken, token, pc>>
<1>1. ASSUME NEW w \in Workers, \/ OpenApproval(w) \/ ClaimAndAllow(w) \/ PrepareAndAllow(w)
                                \/ MarkStarted(w) \/ PersistResult(w)
      PROVE  FALSE
  BY <1>1 DEF OpenApproval, ClaimAndAllow, PrepareAndAllow, MarkStarted, PersistResult,
              TransitionRun
<1>2. ASSUME NEW c \in Calls, Decide(c)
      PROVE  FALSE
  BY <1>2 DEF Decide, ApproveCall, RejectCall, TransitionRun
<1>3. ASSUME NEW S \in SUBSET Calls, Expire(S)
      PROVE  FALSE
  BY <1>3, ExpiryMoves
<1>4. ASSUME NEW w \in Workers, NEW to \in RunStatus, MoveRun(w, to)
      PROVE  pc[w] = "idle" /\ Holds(w) /\ UNCHANGED <<leaseToken, token, pc>>
  BY <1>4 DEF MoveRun, leaseVars, gateVars, workerVars
<1> QED
  BY <1>1, <1>2, <1>3, <1>4, RowWrites

\* A call is entered by its worker, in a run that may execute.
LEMMA CallsAreEntered ==
    ASSUME OnceInv, [Next]_vars, NEW v \in Workers, pc[v] = "idle", pc'[v] # "idle"
    PROVE  runStatus \in {"RUNNING", "WAITING_APPROVAL"} /\ runStatus' = runStatus
<1>1. Moves(v)
  BY MovesOrRests DEF Rests
<1>2. \/ \E c \in Calls, i \in Intents : Invoke(v, c, i)
      \/ \E c \in Calls : ReenterPrepared(v, c)
  BY <1>1 DEF Moves, CheckAgain, WaitForApproval, ClaimAndAllow, PrepareAndAllow,
              RecoveryAllow, ResumeClaimed, MarkStarted, Execute
<1> QED
  BY <1>2 DEF Invoke, ReenterPrepared, Routed, Admitted, Recovers, storeVars

\* Nobody has begun; the first process has the lease and a session.
LEMMA RecoverableInitInv == RecoverableInit => RecoveryInv
<1> SUFFICES ASSUME RecoverableInit PROVE RecoveryInv
  OBVIOUS
<1>1. LedgerInv /\ CheckpointTypeOK
  BY RecoverableInitLedger, RecoverableInitTyped
<1>2. \A w \in Workers : pc[w] = "idle"
  BY DEF RecoverableInit, Init, GateInit
<1>3. \A c \in Calls : callStatus[c] = "NONE"
  BY DEF RecoverableInit, Init, StoreInit
<1>4. CallersAreInSession /\ BegunIsKept /\ HandlersAreApart /\ SerialExecution
  BY <1>2 DEF CallersAreInSession, BegunIsKept, HandlersAreApart, SerialExecution
<1>5. GoesOnAlone /\ PlannedIsQuiet /\ CallersAreUnblocked
  BY <1>2, <1>3 DEF GoesOnAlone, PlannedIsQuiet, CallersAreUnblocked, Started, Unknown
<1> QED
  BY <1>1, <1>4, <1>5 DEF RecoveryInv

\* Every step of the composition keeps the invariant.
LEMMA RecoverableNextInv ==
    ASSUME RecoveryInv, [RecoverableNext]_recoverableVars
    PROVE  RecoveryInv'
<1>o. LedgerInv /\ OnceInv /\ TypeOK /\ CheckpointTypeOK
  BY DEF RecoveryInv, LedgerInv, AuthorisedInv, OnceInv
<1>n. LedgerInv' /\ CheckpointTypeOK' /\ OnceInv'
  BY <1>o, RecoverableKeepsLedger, RecoverableKeepsTypes DEF LedgerInv, AuthorisedInv
<1>k. ASSUME NEW w \in Workers, Blocks(w)
      PROVE  /\ UNCHANGED <<pc, req, token, leaseToken>>
             /\ \A v \in Workers : Current(v) => v = w
             /\ pc[w] = "idle"
  BY <1>k, <1>o, BlockMoves, BlockRests, OneHolder
<1>p. \A v \in Workers :
         \/ /\ plan'[v] = plan[v]
            /\ pc[v] = "idle" /\ pc'[v] # "idle" => plan[v] = "SESSION"
            /\ Current(v)' => Current(v)
         \/ plan'[v] \notin GoingOn /\ pc'[v] = "idle"
         \/ /\ plan'[v] \in Resumable /\ pc'[v] = "idle" /\ Holds(v)
            /\ Started = {} /\ Unknown = {} /\ UNCHANGED vars
         \/ /\ plan[v] \in Resumable /\ plan'[v] = "SESSION"
            /\ \/ UNCHANGED vars
               \/ \E c \in Calls : ReenterPrepared(v, c)
  BY <1>o, PlanMoves
<1>r. "SESSION" \notin Resumable /\ Resumable \subseteq GoingOn /\ "SESSION" \in GoingOn
  BY DEF Resumable, ReentryPlan, GoingOn
<1>l. ASSUME NEW v \in Workers, UNCHANGED vars \/ \E c \in Calls : ReenterPrepared(v, c)
      PROVE  Current(v)' => Current(v)
  BY <1>l DEF vars, storeVars, leaseVars, gateVars, workerVars, ReenterPrepared, Current
<1>e. ASSUME NEW v \in Workers, pc'[v] = "exec"
      PROVE  /\ req'[v] = req[v]
             /\ pc[v] = "exec" \/ (MarkStarted(v) /\ pc' = [pc EXCEPT ![v] = "exec"])
  <2>1. CASE [Next]_vars
    BY <1>e, <1>o, <2>1, RunnersStart
  <2>2. ASSUME NEW w \in Workers, Blocks(w)
        PROVE  pc[v] = "exec" /\ req'[v] = req[v]
    BY <1>e, <1>k, <2>2
  <2> QED
    BY <2>1, <2>2, GateOrBlocks
<1>m. ASSUME NEW v \in Workers, MarkStarted(v)
      PROVE  /\ Current(v) /\ plan[v] = "SESSION" /\ callStatus[req[v].call] = "PREPARED"
             /\ \A w \in Workers : Current(w)' => w = v
  <2>1. Current(v) /\ pc[v] = "start" /\ Holds(v) /\ callStatus[req[v].call] = "PREPARED"
    BY <1>m, <1>o, StarterRow DEF MarkStarted
  <2>2. plan[v] = "SESSION"
    BY <2>1 DEF RecoveryInv, CallersAreInSession
  <2>3. \A w \in Workers : Current(w)' => Current(w)
    BY <1>m DEF MarkStarted, leaseVars, Current
  <2>4. \A w \in Workers : Current(w) => w = v
    BY <1>o, <2>1, OneHolder
  <2> QED
    BY <2>1, <2>2, <2>3, <2>4
<1>1. CallersAreInSession'
  <2> SUFFICES ASSUME NEW v \in Workers, pc'[v] # "idle" PROVE plan'[v] = "SESSION"
    BY DEF CallersAreInSession
  <2>1. pc[v] # "idle" => plan[v] = "SESSION"
    BY DEF RecoveryInv, CallersAreInSession
  <2> QED
    BY <1>p, <1>r, <2>1
<1>2. BegunIsKept' /\ HandlersAreApart'
  <2>1. CASE [Next]_vars
    BY <1>o, <2>1, HandlersKept DEF RecoveryInv
  <2>2. ASSUME NEW w \in Workers, Blocks(w)
        PROVE  BegunIsKept' /\ HandlersAreApart'
    <3>1. \A v \in Workers : pc[v] \in {"exec", "persist"} => req[v].call \in Calls
      BY <1>o DEF TypeOK, GateTypeOK, Request
    <3>2. \A c \in Calls : \/ callStatus'[c] = callStatus[c]
                           \/ callStatus[c] = "STARTED" /\ callStatus'[c] = "UNKNOWN_RESULT"
      BY <1>o, <2>2, BlockMoves
    <3>3. UNCHANGED <<pc, req>>
      BY <1>k, <2>2
    <3>4. BegunIsKept'
      BY <3>1, <3>2, <3>3 DEF RecoveryInv, BegunIsKept
    <3>5. HandlersAreApart'
      BY <3>3 DEF RecoveryInv, HandlersAreApart
    <3> QED
      BY <3>4, <3>5
  <2> QED
    BY <2>1, <2>2, GateOrBlocks
<1>3. SerialExecution'
  <2> SUFFICES ASSUME NEW u \in Workers, NEW v \in Workers, pc'[u] = "exec", pc'[v] = "exec"
               PROVE  u = v
    BY DEF SerialExecution
  <2>1. ASSUME NEW x \in Workers, NEW y \in Workers, MarkStarted(x), pc[y] = "exec"
        PROVE  x = y
    BY <1>m, <1>r, <2>1 DEF RecoveryInv, GoesOnAlone
  <2>2. pc[u] = "exec" \/ pc[v] = "exec" \/ u = v
    BY <1>e, <1>o DEF TypeOK, GateTypeOK
  <2>3. pc[u] = "exec" /\ pc[v] = "exec" => u = v
    BY DEF RecoveryInv, SerialExecution
  <2> QED
    BY <1>e, <2>1, <2>2, <2>3
<1>4. GoesOnAlone'
  <2> SUFFICES ASSUME NEW v \in Workers, NEW w \in Workers, Current(v)', plan'[v] \in GoingOn,
                      pc'[w] = "exec", v # w
               PROVE  FALSE
    BY DEF GoesOnAlone
  <2>1. ~MarkStarted(w)
    BY <1>m
  <2>2. pc[w] = "exec"
    BY <1>e, <2>1
  <2>3. ~(Current(v) /\ plan[v] \in GoingOn)
    BY <2>2 DEF RecoveryInv, GoesOnAlone
  <2>4. ~(Started = {} /\ Unknown = {})
    <3>1. req[w].call \in Calls /\ callStatus[req[w].call] \in {"STARTED", "UNKNOWN_RESULT"}
      BY <1>o, <2>2 DEF RecoveryInv, BegunIsKept, TypeOK, GateTypeOK, Request
    <3> QED
      BY <3>1 DEF Started, Unknown
  <2>5. plan[v] \in Resumable /\ plan'[v] = "SESSION" /\ Current(v)
    BY <1>p, <1>l, <2>3, <2>4
  <2> QED
    BY <1>r, <2>3, <2>5
<1>5. PlannedIsQuiet'
  <2> SUFFICES ASSUME NEW v \in Workers, Current(v)', plan'[v] \in Resumable
               PROVE  Started' = {} /\ Unknown' = {}
    BY DEF PlannedIsQuiet
  <2>1. CASE Started = {} /\ Unknown = {} /\ UNCHANGED vars
    BY <2>1 DEF Started, Unknown, vars, storeVars, callVars
  <2>2. CASE plan'[v] = plan[v] /\ Current(v)
    <3>1. \A c \in Calls : callStatus[c] \notin {"STARTED", "UNKNOWN_RESULT"}
      BY <2>2 DEF RecoveryInv, PlannedIsQuiet, Started, Unknown
    <3>2. ~ \E w \in Workers : MarkStarted(w)
      BY <1>m, <1>r, <2>2
    <3>3. ASSUME NEW c \in Calls, callStatus'[c] \in {"STARTED", "UNKNOWN_RESULT"}
          PROVE  FALSE
      <4>1. CASE UNCHANGED callVars
        BY <3>1, <3>3, <4>1 DEF callVars
      <4>2. ASSUME NEW d \in Calls, NEW i \in Intents, CreateInvocation(d, i)
            PROVE  FALSE
        BY <1>o, <3>1, <3>3, <4>2 DEF CreateInvocation, TypeOK, StoreTypeOK
      <4>3. ASSUME NEW d \in Calls, NEW from, NEW to, TransitionInvocation(d, from, to)
            PROVE  callStatus[c] = "PREPARED" /\ callStatus'[c] = "STARTED"
        BY <1>o, <3>1, <3>3, <4>3 DEF TransitionInvocation, TypeOK, StoreTypeOK
      <4>4. CASE [Next]_vars
        BY <1>o, <3>2, <4>1, <4>2, <4>3, <4>4, CallWrites, MarkStarts
      <4>5. ASSUME NEW w \in Workers, Blocks(w)
            PROVE  FALSE
        BY <1>o, <3>1, <3>3, <4>5, BlockMoves
      <4> QED
        BY <4>4, <4>5, GateOrBlocks
    <3> QED
      BY <3>3 DEF Started, Unknown
  <2> QED
    BY <1>p, <1>r, <2>1, <2>2
<1>6. CallersAreUnblocked'
  <2> SUFFICES ASSUME NEW v \in Workers, Current(v)', pc'[v] # "idle", runStatus' = "BLOCKED"
               PROVE  FALSE
    BY DEF CallersAreUnblocked
  <2>1. ASSUME NEW w \in Workers, pc[w] = "idle", Holds(w), UNCHANGED <<leaseToken, token, pc>>
        PROVE  FALSE
    <3>1. Current(v) /\ v = w
      BY <1>o, <2>1, OneHolder DEF Current
    <3> QED
      BY <2>1, <3>1
  <2>2. CASE [Next]_vars
    <3>1. runStatus = "BLOCKED"
      BY <1>o, <2>1, <2>2, MoveRunBlocks
    <3>2. pc[v] # "idle"
      BY <1>o, <2>2, <3>1, CallsAreEntered
    <3>3. Current(v)
      BY <1>o, <2>2, <3>2, CallersKeepLease
    <3> QED
      BY <3>1, <3>2, <3>3 DEF RecoveryInv, CallersAreUnblocked
  <2>3. ASSUME NEW w \in Workers, Blocks(w)
        PROVE  FALSE
    BY <1>k, <1>o, <2>1, <2>3, BlockMoves
  <2> QED
    BY <2>2, <2>3, GateOrBlocks
<1> QED
  BY <1>n, <1>1, <1>2, <1>3, <1>4, <1>5, <1>6 DEF RecoveryInv

-------------------------------------------------------------------------------
(* The theorems *)

\* Whatever is checkpointed, recovered or edited, for every set of workers, calls
\* and paths, the checkpoint, the workspace and the plans have their types.
THEOREM CheckpointTypes == RecoverableSpec => []CheckpointTypeOK
<1>1. RecoveryInv => CheckpointTypeOK
  BY DEF RecoveryInv
<1> QED
  BY <1>1, RecoverableInitInv, RecoverableNextInv, PTL DEF RecoverableSpec

\* WP04-INV-012 and WP06-INV-014 for every number of processes and leases: two
\* processes never run a handler at the same time, although a process in its
\* handler cannot see that it has lost the lease.
THEOREM HandlersAreSerial == RecoverableSpec => []SerialExecution
<1>1. RecoveryInv => SerialExecution
  BY DEF RecoveryInv
<1> QED
  BY <1>1, RecoverableInitInv, RecoverableNextInv, PTL DEF RecoverableSpec

\* WP07-INV-005 for every number of processes and leases: a process whose plan lets
\* it go on has no call behind it that is STARTED or has an unknown result.
THEOREM ResumesQuietly == RecoverableSpec => []ResumableIsQuiescent
<1>1. RecoveryInv => ResumableIsQuiescent
  <2>1. \A w \in Workers : Holds(w) => Current(w)
    BY DEF Holds, VerifyLease, Current
  <2> QED
    BY <2>1 DEF RecoveryInv, PlannedIsQuiet, ResumableIsQuiescent
<1> QED
  BY <1>1, RecoverableInitInv, RecoverableNextInv, PTL DEF RecoverableSpec

\* WP04-INV-008 across recovery: the handler of an intent that is not a READ runs at
\* most once, also when prepare_recovery settles, blocks or re-enters its calls.
THEOREM RecoveryExecutesAtMostOnce == RecoverableSpec => []AtMostOnce
<1>1. LedgerInv => AtMostOnce
  BY DEF LedgerInv, AuthorisedInv, OnceInv
<1> QED
  BY <1>1, RecoverableInitLedger, RecoverableKeepsLedger, PTL DEF RecoverableSpec

\* WP06-INV-003 across recovery: a handler that needs an approval has a claimed or
\* consumed one, also when recovery blocks the run under a process that has lost the
\* lease and is still in its handler.
THEOREM RecoveryKeepsApproval == RecoverableSpec => []ApprovedBeforeExecution
<1>1. LedgerInv => ApprovedBeforeExecution
  BY DEF LedgerInv, AuthorisedInv
<1> QED
  BY <1>1, RecoverableInitLedger, RecoverableKeepsLedger, PTL DEF RecoverableSpec

\* The read limit of the policy across recovery: calls that recovery hands back to
\* the Gate, or settles as unknown, count like any other.
THEOREM RecoveryBoundsReads == RecoverableSpec => []ReadsBounded
BY LedgerBoundsReads, RecoverableInitLedger, RecoverableKeepsLedger, PTL DEF RecoverableSpec

\* WP07-INV-005 across recovery: prepare_recovery settles a call as unknown and never
\* takes its row away, so every execution keeps its record.
THEOREM RecoveryRecordsExecutions == RecoverableSpec => []ExecutionsAreRecorded
BY LedgerRecordsExecutions, RecoverableInitLedger, RecoverableKeepsLedger, PTL
   DEF RecoverableSpec

\* The run and its approvals move together across recovery: blocking a waiting run
\* invalidates the approval it waits for.
THEOREM RecoveryWaitsForOne == RecoverableSpec => []WaitingOnOneApproval
<1>1. LedgerInv => WaitingOnOneApproval
  BY DEF LedgerInv, RowInv
<1> QED
  BY <1>1, RecoverableInitLedger, RecoverableKeepsLedger, PTL DEF RecoverableSpec

\* WP07-INV-008 across recovery: a call that recovery hands back to the Gate is not
\* charged again, and one whose claim it invalidates is not refunded.
THEOREM RecoveryChargesOnce == RecoverableSpec => []ChargedOnce
<1>1. LedgerInv => ChargedOnce
  BY DEF LedgerInv, RowInv
<1> QED
  BY <1>1, RecoverableInitLedger, RecoverableKeepsLedger, PTL DEF RecoverableSpec

\* _mark_started across recovery: although it looks at neither, a call with an approval
\* becomes STARTED only under its claim and in a running run.
THEOREM RecoveryStartsApproved == RecoverableSpec => ApprovedCallsStartInRunningRun
<1>1. ASSUME LedgerInv, [RecoverableNext]_recoverableVars PROVE StartsApproved
  <2>1. CASE [Next]_vars
    BY <1>1, <2>1, LedgerStartsApproved
  <2>2. ASSUME NEW w \in Workers, Blocks(w)
        PROVE  StartsApproved
    BY <1>1, <2>2, BlockMoves DEF StartsApproved, LedgerInv, AuthorisedInv, OnceInv
  <2> QED
    BY <1>1, <2>1, <2>2, GateOrBlocks
<1>2. LedgerInv /\ [RecoverableNext]_recoverableVars => [StartsApproved]_vars
  BY <1>1
<1> QED
  BY <1>2, RecoverableInitLedger, RecoverableKeepsLedger, PTL
     DEF RecoverableSpec, ApprovedCallsStartInRunningRun

\* D-26 across recovery: blocking the run revokes an approval only while its call
\* has not begun, so a consumed approval still means a deterministic result.
THEOREM RecoveryTracksApprovals == RecoverableSpec => []ApprovalTracksCall
<1>1. LedgerInv => ApprovalTracksCall
  BY DEF LedgerInv, RowInv
<1> QED
  BY <1>1, RecoverableInitLedger, RecoverableKeepsLedger, PTL DEF RecoverableSpec

\* WP01 section 6 across recovery: nor does prepare_recovery take a terminal run, a
\* settled call or a closed approval out of its status.
THEOREM RecoveryResurrectsNothing == RecoverableSpec => NothingIsResurrected
<1>1. ASSUME LedgerInv, [RecoverableNext]_recoverableVars PROVE KeepsTerminal
  <2>t. TypeOK
    BY <1>1 DEF LedgerInv, AuthorisedInv, OnceInv
  <2>1. CASE [Next]_vars
    <3>1. "CLAIMED" \in Spent /\ Spent \cap ({"NONE"} \cup ActiveApproval) = {}
      BY DEF Spent, ActiveApproval
    <3> QED
      BY <2>t, <2>1, <3>1, CallsGoForward, ApprovalsGoForward, RunGoesForward DEF KeepsTerminal
  <2>2. ASSUME NEW w \in Workers, Blocks(w)
        PROVE  KeepsTerminal
    BY <2>t, <2>2, BlockMoves DEF KeepsTerminal, TerminalRun, TerminalInvocation,
       DeterministicResult, TerminalApproval, ActiveApproval
  <2> QED
    BY <1>1, <2>1, <2>2, GateOrBlocks
<1>2. LedgerInv /\ [RecoverableNext]_recoverableVars => [KeepsTerminal]_vars
  BY <1>1
<1> QED
  BY <1>2, RecoverableInitLedger, RecoverableKeepsLedger, PTL
     DEF RecoverableSpec, NothingIsResurrected

\* W10 and W11 for every number of processes and leases: once recovery has blocked
\* the run no call starts, not even one that a process had already been allowed to
\* start before it lost the lease.
THEOREM BlockedStartsNothing == RecoverableSpec => BlockedRunsStartNothing
<1>1. ASSUME RecoveryInv, [RecoverableNext]_recoverableVars PROVE StartsUnblocked
  <2>t. LedgerInv /\ TypeOK
    BY <1>1 DEF RecoveryInv, LedgerInv, AuthorisedInv, OnceInv
  <2> SUFFICES ASSUME NEW c \in Calls, callStatus[c] = "PREPARED", callStatus'[c] = "STARTED"
               PROVE  runStatus # "BLOCKED"
    BY DEF StartsUnblocked
  <2>1. CASE [Next]_vars
    <3>1. PICK w \in Workers : MarkStarted(w)
      BY <2>t, <2>1, MarkStarts
    <3>2. Current(w) /\ pc[w] = "start"
      BY <2>t, <3>1, StarterRow DEF MarkStarted
    <3> QED
      BY <1>1, <3>2 DEF RecoveryInv, CallersAreUnblocked
  <2>2. ASSUME NEW w \in Workers, Blocks(w)
        PROVE  FALSE
    BY <2>t, <2>2, BlockMoves
  <2> QED
    BY <1>1, <2>1, <2>2, GateOrBlocks
<1>2. RecoveryInv /\ [RecoverableNext]_recoverableVars => [StartsUnblocked]_recoverableVars
  BY <1>1
<1> QED
  BY <1>2, RecoverableInitInv, RecoverableNextInv, PTL
     DEF RecoverableSpec, BlockedRunsStartNothing
===============================================================================
