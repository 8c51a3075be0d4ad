---------------------------- MODULE ApprovalProofs ----------------------------
(***************************************************************************)
(* Theorems about what the rows of calls, approvals and the run may do,    *)
(* and about the authority behind an execution.                            *)
(***************************************************************************)
EXTENDS GateProofs

-------------------------------------------------------------------------------
(* Which store methods a step can have called *)

\* tool_calls is written by create_invocation and transition_invocation.
LEMMA CallWrites ==
    ASSUME TypeOK, [Next]_vars
    PROVE  \/ UNCHANGED callVars
           \/ \E c \in Calls, i \in Intents : CreateInvocation(c, i)
           \/ \E c \in Calls : \E from, to \in InvocationStatus :
                 TransitionInvocation(c, from, to)
<1>1. ASSUME NEW w \in Workers, pc[w] # "idle"
      PROVE  req[w].call \in Calls /\ req[w].intent \in Intents
  BY <1>1 DEF TypeOK, GateTypeOK, Request
<1>2. ASSUME NEW w \in Workers, OpenApproval(w) \/ PrepareAndAllow(w)
      PROVE  \E c \in Calls, i \in Intents : CreateInvocation(c, i)
  BY <1>1, <1>2 DEF OpenApproval, PrepareAndAllow
<1>3. ASSUME NEW w \in Workers, MarkStarted(w)
      PROVE  \E c \in Calls : TransitionInvocation(c, "PREPARED", "STARTED")
  BY <1>1, <1>3 DEF MarkStarted
<1>4. ASSUME NEW w \in Workers, PersistResult(w)
      PROVE  \E c \in Calls : TransitionInvocation(c, "STARTED", result[w])
  BY <1>1, <1>4 DEF PersistResult
<1>5. ASSUME NEW w \in Workers, PersistResult(w)
      PROVE  result[w] \in InvocationStatus
  BY <1>5 DEF PersistResult, TypeOK, GateTypeOK, InvocationStatus
<1>6. ASSUME NEW w \in Workers, Enter(w) \/ CallStep(w),
             ~OpenApproval(w), ~PrepareAndAllow(w), ~MarkStarted(w), ~PersistResult(w)
      PROVE  UNCHANGED callVars
  BY <1>6 DEF Enter, CallStep, Invoke, ReenterPrepared, CheckAgain, WaitForApproval,
     ClaimAndAllow, ClaimTooLate, RecoveryAllow, ResumeClaimed, Execute, UnitFails, storeVars
<1>7. ASSUME Surroundings \/ UNCHANGED vars
      PROVE  UNCHANGED callVars
  BY <1>7 DEF Surroundings, Decide, DecideTooLate, ExpireDue, MoveRun, TakeLease, DropLease,
     Crash, ClockPasses, vars, storeVars
<1>8. "PREPARED" \in InvocationStatus /\ "STARTED" \in InvocationStatus
  BY DEF InvocationStatus
<1> QED
  BY <1>2, <1>3, <1>4, <1>5, <1>6, <1>7, <1>8 DEF Next

\* approvals is written by create, by approve and reject, by claim and consume,
\* and by what materialises an expiry.
LEMMA ApprovalWrites ==
    ASSUME TypeOK, [Next]_vars
    PROVE  \/ UNCHANGED apprStatus
           \/ \E w \in Workers : OpenApproval(w)
           \/ \E S \in SUBSET Calls : Expire(S)
           \/ \E c \in Calls : \/ ApproveCall(c) \/ RejectCall(c) \/ Claim(c)
                               \/ \E r \in DeterministicResult : Consume(c, r)
<1>1. ASSUME NEW w \in Workers, pc[w] # "idle"
      PROVE  req[w].call \in Calls
  BY <1>1 DEF TypeOK, GateTypeOK, Request
<1>2. ASSUME NEW w \in Workers, WaitForApproval(w)
      PROVE  \E S \in SUBSET Calls : Expire(S)
  <2>1. {req[w].call} \in SUBSET Calls /\ Expire({req[w].call})
    BY <1>1, <1>2 DEF WaitForApproval
  <2> QED
    BY <2>1
<1>3. ASSUME NEW w \in Workers, ClaimAndAllow(w)
      PROVE  \E c \in Calls : Claim(c)
  BY <1>1, <1>3 DEF ClaimAndAllow
<1>4. ASSUME NEW w \in Workers, PersistResult(w)
      PROVE  \/ UNCHANGED apprStatus
             \/ \E c \in Calls : \E r \in DeterministicResult : Consume(c, r)
  BY <1>1, <1>4 DEF PersistResult, apprVars
<1>5. ASSUME NEW w \in Workers, Enter(w) \/ CallStep(w),
             ~OpenApproval(w), ~WaitForApproval(w), ~ClaimAndAllow(w), ~PersistResult(w)
      PROVE  UNCHANGED apprStatus
  BY <1>5 DEF Enter, CallStep, Invoke, ReenterPrepared, CheckAgain, ClaimTooLate,
     PrepareAndAllow, RecoveryAllow, ResumeClaimed, ResumeClaim, MarkStarted, Execute,
     UnitFails, apprVars
<1>6. ASSUME NEW c \in Calls, Decide(c)
      PROVE  ApproveCall(c) \/ RejectCall(c)
  BY <1>6 DEF Decide
<1>7. ASSUME NEW c \in Calls, DecideTooLate(c)
      PROVE  \E S \in SUBSET Calls : Expire(S)
  <2>1. {c} \in SUBSET Calls /\ Expire({c})
    BY <1>7 DEF DecideTooLate
  <2> QED
    BY <2>1
<1>8. ASSUME NEW w \in Workers, ExpireDue(w)
      PROVE  \E S \in SUBSET Calls : Expire(S)
  <2>1. Calls \in SUBSET Calls /\ Expire(Calls)
    BY <1>8 DEF ExpireDue
  <2> QED
    BY <2>1
<1>9. ASSUME \/ \E w \in Workers : \/ TakeLease(w) \/ DropLease(w) \/ Crash(w)
                                   \/ \E to \in RunStatus : MoveRun(w, to)
             \/ ClockPasses \/ UNCHANGED vars
      PROVE  UNCHANGED apprStatus
  BY <1>9 DEF MoveRun, TakeLease, DropLease, Crash, ClockPasses, ApprovalFallsDue, vars, apprVars
<1> QED
  BY <1>2, <1>3, <1>4, <1>5, <1>6, <1>7, <1>8, <1>9 DEF Next, Surroundings

\* The run is moved along _RUN_TRANSITIONS, or stopped by an expiry.
LEMMA RunWrites ==
    ASSUME TypeOK, [Next]_vars
    PROVE  \/ UNCHANGED runStatus
           \/ \E from, to \in RunStatus : TransitionRun(from, to)
           \/ \E S \in SUBSET Calls : Expire(S)
<1>1. ASSUME NEW w \in Workers, pc[w] # "idle"
      PROVE  {req[w].call} \in SUBSET Calls
  BY <1>1 DEF TypeOK, GateTypeOK, Request
<1>2. {"RUNNING", "WAITING_APPROVAL", "STOPPED"} \subseteq RunStatus
  BY DEF RunStatus
<1>3. ASSUME NEW w \in Workers, OpenApproval(w) \/ ClaimAndAllow(w)
      PROVE  \E from, to \in RunStatus : TransitionRun(from, to)
  BY <1>2, <1>3 DEF OpenApproval, ClaimAndAllow
<1>4. ASSUME NEW w \in Workers, WaitForApproval(w)
      PROVE  \E S \in SUBSET Calls : Expire(S)
  <2>1. {req[w].call} \in SUBSET Calls /\ Expire({req[w].call})
    BY <1>1, <1>4 DEF WaitForApproval
  <2> QED
    BY <2>1
<1>5. ASSUME NEW w \in Workers, Enter(w) \/ CallStep(w),
             ~OpenApproval(w), ~ClaimAndAllow(w), ~WaitForApproval(w)
      PROVE  UNCHANGED runStatus
  BY <1>5 DEF Enter, CallStep, Invoke, ReenterPrepared, CheckAgain, ClaimTooLate,
     PrepareAndAllow, RecoveryAllow, ResumeClaimed, MarkStarted, Execute, PersistResult,
     UnitFails, storeVars
<1>6. ASSUME NEW c \in Calls, Decide(c)
      PROVE  UNCHANGED runStatus \/ TransitionRun("WAITING_APPROVAL", "STOPPED")
  BY <1>6 DEF Decide, ApproveCall, RejectCall
<1>7. ASSUME NEW c \in Calls, DecideTooLate(c)
      PROVE  \E S \in SUBSET Calls : Expire(S)
  <2>1. {c} \in SUBSET Calls /\ Expire({c})
    BY <1>7 DEF DecideTooLate
  <2> QED
    BY <2>1
<1>8. ASSUME NEW w \in Workers, ExpireDue(w)
      PROVE  \E S \in SUBSET Calls : Expire(S)
  <2>1. Calls \in SUBSET Calls /\ Expire(Calls)
    BY <1>8 DEF ExpireDue
  <2> QED
    BY <2>1
<1>9. ASSUME NEW w \in Workers, NEW to \in RunStatus, MoveRun(w, to)
      PROVE  \E from \in RunStatus : TransitionRun(from, to)
  BY <1>9 DEF MoveRun, TypeOK, StoreTypeOK
<1>10. ASSUME \/ \E w \in Workers : TakeLease(w) \/ DropLease(w) \/ Crash(w)
              \/ ClockPasses \/ UNCHANGED vars
       PROVE  UNCHANGED runStatus
  BY <1>10 DEF TakeLease, DropLease, Crash, ClockPasses, vars, storeVars
<1> QED
  BY <1>2, <1>3, <1>4, <1>5, <1>6, <1>7, <1>8, <1>9, <1>10 DEF Next, Surroundings

-------------------------------------------------------------------------------
(* Rows only go forward *)

\* A row, once written, keeps its intent, and its status never goes back.
LEMMA CallsGoForward ==
    ASSUME TypeOK, [Next]_vars, NEW c \in Calls
    PROVE  /\ callStatus[c] \in TerminalInvocation => callStatus'[c] = callStatus[c]
           /\ callStatus[c] = "STARTED" => callStatus'[c] \notin {"NONE", "PREPARED"}
           /\ callStatus[c] # "NONE" => callStatus'[c] # "NONE" /\ callIntent'[c] = callIntent[c]
<1>1. CASE UNCHANGED callVars
  BY <1>1 DEF callVars
<1>2. ASSUME NEW d \in Calls, NEW i \in Intents, CreateInvocation(d, i)
      PROVE  callStatus[c] # "NONE" =>
                callStatus'[c] = callStatus[c] /\ callIntent'[c] = callIntent[c]
  BY <1>2 DEF CreateInvocation, TypeOK, StoreTypeOK
<1>3. "NONE" \notin TerminalInvocation
  BY DEF TerminalInvocation, DeterministicResult
<1>4. ASSUME NEW d \in Calls, NEW from \in InvocationStatus, NEW to \in InvocationStatus,
             TransitionInvocation(d, from, to)
      PROVE  /\ callStatus[c] \in TerminalInvocation => callStatus'[c] = callStatus[c]
             /\ callStatus[c] = "STARTED" => callStatus'[c] \notin {"NONE", "PREPARED"}
             /\ callStatus[c] # "NONE" =>
                   callStatus'[c] # "NONE" /\ callIntent'[c] = callIntent[c]
  BY <1>4 DEF TransitionInvocation, TypeOK, StoreTypeOK, TerminalInvocation, DeterministicResult
<1> QED
  BY <1>1, <1>2, <1>3, <1>4, CallWrites

\* A closed approval stays closed and a spent one is never available again.
LEMMA ApprovalsGoForward ==
    ASSUME TypeOK, [Next]_vars, NEW c \in Calls
    PROVE  /\ apprStatus[c] \in TerminalApproval => apprStatus'[c] = apprStatus[c]
           /\ apprStatus[c] \in Spent => apprStatus'[c] \in Spent
           /\ apprStatus[c] # "NONE" => apprStatus'[c] # "NONE"
<1> USE DEF TerminalApproval, Spent, ActiveApproval
<1>1. ASSUME NEW w \in Workers, OpenApproval(w)
      PROVE  apprStatus[c] # "NONE" => apprStatus'[c] = apprStatus[c]
  BY <1>1 DEF OpenApproval, CreateApproval, TypeOK, ApprovalTypeOK
<1>2. ASSUME NEW S \in SUBSET Calls, Expire(S)
      PROVE  apprStatus'[c] = apprStatus[c] \/
                (apprStatus[c] \in ActiveApproval /\ apprStatus'[c] = "EXPIRED")
  BY <1>2 DEF Expire, Materialized, Overdue
<1>3. ASSUME NEW d \in Calls, ApproveCall(d) \/ RejectCall(d) \/ Claim(d)
      PROVE  apprStatus'[c] = apprStatus[c] \/
                (/\ apprStatus[c] \in ActiveApproval
                 /\ apprStatus'[c] \in {"APPROVED", "REJECTED", "CLAIMED"})
  BY <1>3 DEF ApproveCall, RejectCall, Claim, MayDecide, Materialized, TypeOK, ApprovalTypeOK
<1>4. ASSUME NEW d \in Calls, NEW r \in DeterministicResult, Consume(d, r)
      PROVE  apprStatus'[c] = apprStatus[c] \/
                (apprStatus[c] = "CLAIMED" /\ apprStatus'[c] = "CONSUMED")
  BY <1>4 DEF Consume, TypeOK, ApprovalTypeOK
<1> QED
  BY <1>1, <1>2, <1>3, <1>4, ApprovalWrites

\* A run that has ended stays as it ended.
LEMMA RunGoesForward ==
    ASSUME TypeOK, [Next]_vars
    PROVE  runStatus \in TerminalRun => runStatus' = runStatus
<1>1. ASSUME NEW from \in RunStatus, NEW to \in RunStatus, TransitionRun(from, to)
      PROVE  runStatus \notin TerminalRun
  BY <1>1 DEF TransitionRun, RunTransitions, TerminalRun, RunStatus
<1>2. ASSUME NEW S \in SUBSET Calls, Expire(S)
      PROVE  runStatus' = runStatus \/ runStatus = "WAITING_APPROVAL"
  BY <1>2 DEF Expire, RunAfterExpiry
<1> QED
  BY <1>1, <1>2, RunWrites DEF TerminalRun

\* WP01 section 6 for every number of processes, calls and leases: no step of
\* the Gate, of an approver or of the orchestrator takes a terminal run, a
\* settled call or a closed approval out of its status.
THEOREM TerminalStaysTerminal == Spec => NothingIsResurrected
<1>1. TypeOK /\ [Next]_vars => KeepsTerminal
  <2> SUFFICES ASSUME TypeOK, [Next]_vars PROVE KeepsTerminal
    OBVIOUS
  <2>1. \A c \in Calls : "CLAIMED" \in Spent /\ Spent \cap ({"NONE"} \cup ActiveApproval) = {}
    BY DEF Spent, ActiveApproval
  <2> QED
    BY <2>1, CallsGoForward, ApprovalsGoForward, RunGoesForward DEF KeepsTerminal
<1>2. TypeOK /\ [Next]_vars => [KeepsTerminal]_vars
  BY <1>1
<1> QED
  BY <1>2, TypeCorrect, PTL DEF Spec, NothingIsResurrected
-------------------------------------------------------------------------------
(* No execution without its approval *)

\* Nothing is asked for and nothing has run.
LEMMA InitAuthorised == Init => AuthorisedInv
<1> SUFFICES ASSUME Init PROVE AuthorisedInv
  OBVIOUS
<1>1. OnceInv
  BY InitOnce
<1>2. ApprovalsHaveRows /\ IntentsAreAuthorised
  BY DEF Init, StoreInit, ApprovalInit, ApprovalsHaveRows, IntentsAreAuthorised
<1>3. RoutesAreAuthorised
  BY DEF Init, GateInit, RoutesAreAuthorised
<1>4. ApprovedBeforeExecution
  BY <1>1 DEF Init, GateInit, ApprovedBeforeExecution
<1> QED
  BY <1>1, <1>2, <1>3, <1>4 DEF AuthorisedInv

\* A call has an approval from the unit that creates it, or never.
LEMMA IntentsStayAuthorised ==
    ASSUME AuthorisedInv, [Next]_vars
    PROVE  ApprovalsHaveRows' /\ IntentsAreAuthorised'
<1> USE GateAssumption
<1>t. TypeOK /\ RowsHaveIntents
  BY DEF AuthorisedInv, OnceInv
<1> SUFFICES ASSUME NEW c \in Calls
             PROVE  /\ apprStatus'[c] # "NONE" => callStatus'[c] # "NONE"
                    /\ callStatus'[c] # "NONE" =>
                          (NeedsApproval[callIntent'[c]] <=> apprStatus'[c] # "NONE")
  BY DEF ApprovalsHaveRows, IntentsAreAuthorised
<1>1. CASE callStatus[c] # "NONE"
  <2>1. callStatus'[c] # "NONE" /\ callIntent'[c] = callIntent[c]
    BY <1>t, <1>1, CallsGoForward
  <2>2. NeedsApproval[callIntent[c]] <=> apprStatus[c] # "NONE"
    BY <1>1 DEF AuthorisedInv, IntentsAreAuthorised
  <2>3. apprStatus[c] = "NONE" => apprStatus'[c] = "NONE"
    <3> SUFFICES ASSUME apprStatus[c] = "NONE" PROVE apprStatus'[c] = "NONE"
      OBVIOUS
    <3>1. ASSUME NEW w \in Workers, OpenApproval(w)
          PROVE  apprStatus'[c] = apprStatus[c]
      BY <1>t, <1>1, <3>1 DEF OpenApproval, CreateInvocation, CreateApproval,
                              TypeOK, ApprovalTypeOK
    <3>2. ASSUME NEW S \in SUBSET Calls, Expire(S)
          PROVE  apprStatus'[c] = "NONE"
      BY <3>2 DEF Expire, Materialized, Overdue, ActiveApproval
    <3>3. ASSUME NEW d \in Calls, \/ ApproveCall(d) \/ RejectCall(d) \/ Claim(d)
                                  \/ \E r \in DeterministicResult : Consume(d, r)
          PROVE  apprStatus'[c] = "NONE"
      BY <1>t, <3>3 DEF ApproveCall, RejectCall, Claim, Consume, MayDecide, Materialized,
                        TypeOK, ApprovalTypeOK
    <3> QED
      BY <1>t, <3>1, <3>2, <3>3, ApprovalWrites
  <2>4. apprStatus[c] # "NONE" => apprStatus'[c] # "NONE"
    BY <1>t, ApprovalsGoForward
  <2> QED
    BY <2>1, <2>2, <2>3, <2>4
<1>2. CASE callStatus[c] = "NONE"
  <2>1. apprStatus[c] = "NONE"
    BY <1>2 DEF AuthorisedInv, ApprovalsHaveRows
  <2>2. ASSUME NEW w \in Workers, OpenApproval(w)
        PROVE  IF req[w].call = c
               THEN /\ callStatus'[c] = "PREPARED" /\ apprStatus'[c] = "PENDING"
                    /\ callIntent'[c] = req[w].intent /\ NeedsApproval[req[w].intent]
               ELSE callStatus'[c] = "NONE" /\ apprStatus'[c] = "NONE"
    <3>1. NeedsApproval[req[w].intent]
      BY <2>2 DEF OpenApproval, AuthorisedInv, RoutesAreAuthorised
    <3> QED
      BY <1>t, <1>2, <2>1, <2>2, <3>1 DEF OpenApproval, CreateInvocation, CreateApproval,
         TypeOK, StoreTypeOK, ApprovalTypeOK
  <2>3. ASSUME NEW w \in Workers, PrepareAndAllow(w)
        PROVE  /\ apprStatus'[c] = "NONE"
               /\ callStatus'[c] # "NONE" =>
                     callIntent'[c] = req[w].intent /\ ~NeedsApproval[req[w].intent]
    <3>1. ~NeedsApproval[req[w].intent]
      BY <2>3 DEF PrepareAndAllow, AuthorisedInv, RoutesAreAuthorised
    <3> QED
      BY <1>t, <1>2, <2>1, <2>3, <3>1 DEF PrepareAndAllow, CreateInvocation, apprVars,
         TypeOK, StoreTypeOK
  <2>4. ASSUME \A w \in Workers : ~OpenApproval(w) /\ ~PrepareAndAllow(w)
        PROVE  callStatus'[c] = "NONE" /\ apprStatus'[c] = "NONE"
    <3>1. callStatus'[c] = "NONE"
      <4>1. CASE \E w \in Workers : MarkStarted(w) \/ PersistResult(w)
        BY <1>t, <1>2, <4>1 DEF MarkStarted, PersistResult, TransitionInvocation,
                                TypeOK, StoreTypeOK
      <4>2. CASE \A w \in Workers : ~MarkStarted(w) /\ ~PersistResult(w)
        <5>1. UNCHANGED callVars
          BY <2>4, <4>2 DEF Next, Enter, CallStep, Invoke, ReenterPrepared, CheckAgain,
             WaitForApproval, ClaimAndAllow, ClaimTooLate, RecoveryAllow, ResumeClaimed,
             Execute, UnitFails, Surroundings, Decide, DecideTooLate, ExpireDue, MoveRun,
             TakeLease, DropLease, Crash, ClockPasses, vars, storeVars
        <5> QED
          BY <1>2, <5>1 DEF callVars
      <4> QED
        BY <4>1, <4>2
    <3>2. ASSUME NEW S \in SUBSET Calls, Expire(S)
          PROVE  apprStatus'[c] = "NONE"
      BY <2>1, <3>2 DEF Expire, Materialized, Overdue, ActiveApproval
    <3>3. ASSUME NEW d \in Calls, \/ ApproveCall(d) \/ RejectCall(d) \/ Claim(d)
                                  \/ \E r \in DeterministicResult : Consume(d, r)
          PROVE  apprStatus'[c] = "NONE"
      BY <1>t, <2>1, <3>3 DEF ApproveCall, RejectCall, Claim, Consume, MayDecide, Materialized,
                              TypeOK, ApprovalTypeOK
    <3> QED
      BY <1>t, <2>1, <2>4, <3>1, <3>2, <3>3, ApprovalWrites
  <2> QED
    BY <2>2, <2>3, <2>4
<1> QED
  BY <1>1, <1>2

\* A call under way is not given a lease: what it has it had before.
LEMMA CallersKeepLease ==
    ASSUME OnceInv, [Next]_vars, NEW v \in Workers, pc[v] # "idle", pc'[v] # "idle", Current(v)'
    PROVE  Current(v)
<1>t. TypeOK
  BY DEF OnceInv
<1>1. ASSUME NEW w \in Workers, Enter(w) \/ CallStep(w)
      PROVE  Current(v)
  BY <1>1 DEF Enter, CallStep, Invoke, ReenterPrepared, CheckAgain, OpenApproval,
     WaitForApproval, ClaimAndAllow, ClaimTooLate, PrepareAndAllow, RecoveryAllow,
     ResumeClaimed, MarkStarted, Execute, PersistResult, UnitFails, Return, storeVars,
     leaseVars, Current
<1>2. ASSUME NEW w \in Workers, TakeLease(w) \/ DropLease(w)
      PROVE  FALSE
  <2>1. token'[v] = token[v]
    BY <1>2, <1>t DEF TakeLease, DropLease, TypeOK, GateTypeOK
  <2>2. leaseToken' = 0 \/ leaseToken' = leasesIssued + 1
    BY <1>2 DEF TakeLease, DropLease, AcquireLease, ReleaseLease
  <2>3. token[v] <= leasesIssued /\ token[v] \in Nat /\ leasesIssued \in Nat
    BY <1>t, StoreAssumption DEF OnceInv, TokensAreFresh, TypeOK, GateTypeOK, StoreTypeOK, Tokens
  <2> QED
    BY <2>1, <2>2, <2>3 DEF Current
<1>3. ASSUME NEW w \in Workers, Crash(w)
      PROVE  Current(v)
  <2>1. w # v
    BY <1>3, <1>t DEF Crash, TypeOK, GateTypeOK
  <2> QED
    BY <1>3, <2>1, <1>t DEF Crash, TypeOK, GateTypeOK, storeVars, leaseVars, Current
<1>4. ASSUME \/ \E c \in Calls : Decide(c) \/ DecideTooLate(c)
             \/ \E w \in Workers : ExpireDue(w) \/ \E to \in RunStatus : MoveRun(w, to)
             \/ ClockPasses \/ UNCHANGED vars
      PROVE  Current(v)
  BY <1>4 DEF Decide, DecideTooLate, ExpireDue, MoveRun, ClockPasses, LeaseExpires,
     vars, gateVars, workerVars, storeVars, leaseVars, Current
<1> QED
  BY <1>1, <1>2, <1>3, <1>4 DEF Next, Surroundings

\* The route of a call stays authorised until its handler has run.
LEMMA RoutesStayAuthorised ==
    ASSUME AuthorisedInv, [Next]_vars
    PROVE  RoutesAreAuthorised'
<1> USE GateAssumption
<1>t. TypeOK /\ RowsHaveIntents
  BY DEF AuthorisedInv, OnceInv
<1> DEFINE Fine(v) ==
       /\ pc'[v] = "open" => NeedsApproval[req'[v].intent]
       /\ pc'[v] \in {"prepare", "recover"} => ~NeedsApproval[req'[v].intent]
       /\ pc'[v] = "exec" \/ (pc'[v] = "start" /\ Current(v)') =>
             (NeedsApproval[req'[v].intent] => apprStatus'[req'[v].call] \in Spent)
<1> SUFFICES ASSUME NEW v \in Workers PROVE Fine(v)
  BY DEF RoutesAreAuthorised
<1>1. ASSUME pc'[v] = pc[v], req'[v] = req[v]
      PROVE  Fine(v)
  <2>1. pc[v] \in {"start", "exec"} => req[v].call \in Calls
    BY <1>t DEF TypeOK, GateTypeOK, Request
  <2>2. pc[v] = "start" /\ Current(v)' => Current(v)
    BY <1>1, CallersKeepLease DEF AuthorisedInv
  <2> QED
    BY <1>t, <1>1, <2>1, <2>2, ApprovalsGoForward DEF AuthorisedInv, RoutesAreAuthorised
<1>2. ASSUME pc'[v] = "idle" \/ pc'[v] \in {"check", "wait", "claim", "resume", "persist"}
      PROVE  Fine(v)
  BY <1>2
<1>3. ASSUME NEW c \in Calls, NEW i \in Intents, Invoke(v, c, i)
      PROVE  Fine(v)
  <2>1. PICK step \in UnitSteps : Routed(c, i, step) /\ pc'[v] = step
    BY <1>t, <1>3 DEF Invoke, Goto, TypeOK, GateTypeOK
  <2>2. req'[v].intent = i
    BY <1>t, <1>3 DEF Invoke, TypeOK, GateTypeOK
  <2> QED
    BY <2>1, <2>2 DEF Routed
<1>4. ASSUME NEW c \in Calls, ReenterPrepared(v, c)
      PROVE  Fine(v)
  <2>1. PICK step \in UnitSteps : Recovers(c, step) /\ pc'[v] = step
    BY <1>t, <1>4 DEF ReenterPrepared, Goto, TypeOK, GateTypeOK
  <2>2. req'[v].intent = callIntent[c]
    BY <1>t, <1>4 DEF ReenterPrepared, TypeOK, GateTypeOK
  <2>3. step = "recover" => ~NeedsApproval[callIntent[c]]
    BY <2>1 DEF Recovers, AuthorisedInv, IntentsAreAuthorised
  <2> QED
    BY <2>1, <2>2, <2>3 DEF Recovers
<1>5. ASSUME CheckAgain(v)
      PROVE  Fine(v)
  <2>1. PICK step \in UnitSteps : Routed(req[v].call, req[v].intent, step) /\ pc'[v] = step
    BY <1>t, <1>5 DEF CheckAgain, Goto, TypeOK, GateTypeOK
  <2>2. req' = req
    BY <1>5 DEF CheckAgain
  <2> QED
    BY <2>1, <2>2 DEF Routed
<1>6. ASSUME ClaimAndAllow(v) \/ ResumeClaimed(v)
      PROVE  Fine(v)
  <2>1. req[v].call \in Calls /\ req' = req /\ pc'[v] = "start"
    BY <1>t, <1>6 DEF ClaimAndAllow, ResumeClaimed, Goto, TypeOK, GateTypeOK, Request
  <2>2. apprStatus'[req[v].call] = "CLAIMED"
    BY <1>t, <1>6, <2>1 DEF ClaimAndAllow, ResumeClaimed, Claim, ResumeClaim, apprVars,
                            TypeOK, ApprovalTypeOK
  <2> QED
    BY <2>1, <2>2 DEF Spent
<1>7. ASSUME PrepareAndAllow(v) \/ RecoveryAllow(v)
      PROVE  Fine(v)
  <2>1. pc[v] \in {"prepare", "recover"} /\ req' = req /\ pc'[v] = "start"
    BY <1>t, <1>7 DEF PrepareAndAllow, RecoveryAllow, Goto, TypeOK, GateTypeOK
  <2> QED
    BY <2>1 DEF AuthorisedInv, RoutesAreAuthorised
<1>8. ASSUME MarkStarted(v)
      PROVE  Fine(v)
  <2>1. /\ pc[v] = "start" /\ pc'[v] = "exec" /\ UNCHANGED <<req, apprStatus>> /\ Current(v)
    BY <1>t, <1>8 DEF MarkStarted, Goto, apprVars, TypeOK, GateTypeOK, Holds, VerifyLease, Current
  <2> QED
    BY <2>1 DEF AuthorisedInv, RoutesAreAuthorised
<1>9. ASSUME \/ OpenApproval(v) \/ WaitForApproval(v) \/ ClaimTooLate(v) \/ Execute(v)
             \/ PersistResult(v) \/ UnitFails(v) \/ Crash(v)
      PROVE  pc'[v] \in {"idle", "check", "persist"}
  BY <1>t, <1>9 DEF OpenApproval, WaitForApproval, ClaimTooLate, Execute, PersistResult,
     UnitFails, Crash, Return, Goto, TypeOK, GateTypeOK
<1>10. ASSUME NEW w \in Workers, w # v, Enter(w) \/ CallStep(w) \/ Crash(w)
       PROVE  pc'[v] = pc[v] /\ req'[v] = req[v]
  BY <1>t, <1>10 DEF Enter, CallStep, Invoke, ReenterPrepared, CheckAgain, OpenApproval,
     WaitForApproval, ClaimAndAllow, ClaimTooLate, PrepareAndAllow, RecoveryAllow,
     ResumeClaimed, MarkStarted, Execute, PersistResult, UnitFails, Crash, Return, Goto,
     TypeOK, GateTypeOK
<1>11. ASSUME \/ \E c \in Calls : Decide(c) \/ DecideTooLate(c)
              \/ \E w \in Workers : \/ ExpireDue(w) \/ TakeLease(w) \/ DropLease(w)
                                    \/ \E to \in RunStatus : MoveRun(w, to)
              \/ ClockPasses \/ UNCHANGED vars
       PROVE  pc'[v] = pc[v] /\ req'[v] = req[v]
  BY <1>11 DEF Decide, DecideTooLate, ExpireDue, TakeLease, DropLease, MoveRun, ClockPasses,
     vars, gateVars, workerVars
<1> HIDE DEF Fine
<1>12. ASSUME Enter(v) \/ CallStep(v)
       PROVE  Fine(v)
  BY <1>2, <1>3, <1>4, <1>5, <1>6, <1>7, <1>8, <1>9, <1>12 DEF Enter, CallStep
<1> QED
  BY <1>1, <1>2, <1>9, <1>10, <1>11, <1>12 DEF Next, Surroundings

\* Every step keeps the invariant: Execute is the one that could break it.
LEMMA NextAuthorised == AuthorisedInv /\ [Next]_vars => AuthorisedInv'
<1> SUFFICES ASSUME AuthorisedInv, [Next]_vars
             PROVE  AuthorisedInv'
  OBVIOUS
<1>t. OnceInv /\ TypeOK
  BY DEF AuthorisedInv, OnceInv
<1>1. OnceInv'
  BY <1>t, NextOnce
<1>2. ApprovalsHaveRows' /\ IntentsAreAuthorised'
  BY IntentsStayAuthorised
<1>3. RoutesAreAuthorised'
  BY RoutesStayAuthorised
<1>4. ApprovedBeforeExecution'
  <2> SUFFICES ASSUME NEW i \in Intents, NeedsApproval[i], executions'[i] > 0
               PROVE  \E c \in Calls : callIntent'[c] = i /\ apprStatus'[c] \in Spent
    BY DEF ApprovedBeforeExecution, Spent
  <2>1. ASSUME NEW c \in Calls, callStatus[c] # "NONE", callIntent[c] = i,
               apprStatus[c] \in Spent
        PROVE  callIntent'[c] = i /\ apprStatus'[c] \in Spent
    BY <1>t, <2>1, CallsGoForward, ApprovalsGoForward
  <2>2. CASE executions[i] > 0
    <3>1. PICK c \in Calls : callIntent[c] = i /\ apprStatus[c] \in Spent
      BY <2>2 DEF AuthorisedInv, ApprovedBeforeExecution, Spent
    <3>2. callStatus[c] # "NONE"
      BY <3>1 DEF AuthorisedInv, ApprovalsHaveRows, Spent
    <3> QED
      BY <2>1, <3>1, <3>2
  <2>3. CASE ~(executions[i] > 0)
    <3>1. PICK w \in Workers : Execute(w)
      <4>1. executions' # executions
        BY <2>3
      <4> QED
        BY <4>1 DEF Next, Enter, CallStep, Invoke, ReenterPrepared, CheckAgain, OpenApproval,
           WaitForApproval, ClaimAndAllow, ClaimTooLate, PrepareAndAllow, RecoveryAllow,
           ResumeClaimed, MarkStarted, PersistResult, UnitFails, Surroundings, Decide,
           DecideTooLate, ExpireDue, MoveRun, TakeLease, DropLease, Crash, ClockPasses,
           vars, gateVars
    <3>2. req[w].intent = i
      BY <1>t, <2>3, <3>1 DEF Execute, TypeOK, GateTypeOK
    <3>3. req[w].call \in Calls /\ callIntent[req[w].call] = i /\ callStatus[req[w].call] # "NONE"
      BY <1>t, <3>1, <3>2 DEF Execute, OnceInv, RunningIsRecorded, Attempts
    <3>4. apprStatus[req[w].call] \in Spent
      BY <3>1, <3>2 DEF Execute, AuthorisedInv, RoutesAreAuthorised
    <3> QED
      BY <2>1, <3>3, <3>4
  <2> QED
    BY <2>2, <2>3
<1> QED
  BY <1>1, <1>2, <1>3, <1>4 DEF AuthorisedInv

\* WP06-INV-003 for every number of processes, calls and leases: the handler of
\* an intent that needs an approval runs only under an approval that was
\* granted and claimed.
THEOREM ApprovedExecution == Spec => []ApprovedBeforeExecution
<1>1. AuthorisedInv => ApprovedBeforeExecution
  BY DEF AuthorisedInv
<1> QED
  BY <1>1, InitAuthorised, NextAuthorised, PTL DEF Spec

\* _open_approval leaves no intent without its approval, whatever fails: a call
\* has an approval exactly when its intent needs one.
THEOREM AuthorisedIntents == Spec => []IntentsAreAuthorised
<1>1. AuthorisedInv => IntentsAreAuthorised
  BY DEF AuthorisedInv
<1> QED
  BY <1>1, InitAuthorised, NextAuthorised, PTL DEF Spec
===============================================================================
