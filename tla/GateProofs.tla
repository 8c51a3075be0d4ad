------------------------------ MODULE GateProofs ------------------------------
(***************************************************************************)
(* Theorems about the Gate, for every set of workers, calls and intents    *)
(* and every budget and number of leases.                                  *)
(***************************************************************************)
EXTENDS Gate, TLAPS

-------------------------------------------------------------------------------
(* Types *)

\* The initial states are well typed and have no rows.
LEMMA InitTyped == Init => TypeOK /\ RowsHaveIntents
<1> USE StoreAssumption, GateAssumption
<1> SUFFICES ASSUME Init PROVE TypeOK /\ RowsHaveIntents
  OBVIOUS
<1>1. StoreTypeOK /\ RowsHaveIntents
  BY DEF Init, StoreInit, StoreTypeOK, RowsHaveIntents, RunStatus, InvocationStatus,
         Tokens
<1>2. ApprovalTypeOK
  BY DEF Init, ApprovalInit, ApprovalTypeOK
<1>3. GateTypeOK
  <2>1. PICK w \in Workers : token = [v \in Workers |-> IF v = w THEN 1 ELSE 0]
    BY DEF Init, GateInit
  <2>2. token \in [Workers -> {0} \cup Tokens]
    BY <2>1 DEF Tokens
  <2> QED
    BY <2>2 DEF Init, GateInit, GateTypeOK, Steps
<1> QED
  BY <1>1, <1>2, <1>3 DEF TypeOK

\* Every step keeps the types.
LEMMA NextTyped ==
    TypeOK /\ RowsHaveIntents /\ [Next]_vars => TypeOK' /\ RowsHaveIntents'
<1> USE StoreAssumption, GateAssumption
<1> SUFFICES ASSUME TypeOK, RowsHaveIntents, [Next]_vars
             PROVE  TypeOK' /\ RowsHaveIntents'
  OBVIOUS
<1> USE DEF TypeOK, RowsHaveIntents
<1> DEFINE Goal == TypeOK' /\ RowsHaveIntents'
<1>1. ASSUME NEW w \in Workers, NEW c \in Calls, NEW i \in Intents, Invoke(w, c, i)
      PROVE  Goal
  <2>1. UNCHANGED <<storeVars, apprVars, token, result, executions, toldExpired>>
    BY <1>1 DEF Invoke
  <2>2. req' \in [Workers -> Request \cup {NoRequest}] /\ req'[w] \in Request
    BY <1>1 DEF Invoke, GateTypeOK, Request
  <2>3. pc' \in [Workers -> Steps] /\ pc'[w] # "persist"
    BY <1>1 DEF Invoke, Goto, GateTypeOK, Steps, UnitSteps, Routed
  <2> QED
    BY <1>1, <2>1, <2>2, <2>3 DEF Invoke, Goto, GateTypeOK, StoreTypeOK, ApprovalTypeOK,
       storeVars, callVars, budgetVars, leaseVars, apprVars
<1>2. ASSUME NEW w \in Workers, NEW c \in Calls, ReenterPrepared(w, c)
      PROVE  Goal
  <2>1. callIntent[c] \in Intents
    BY <1>2 DEF ReenterPrepared, Recovers
  <2>2. req' \in [Workers -> Request \cup {NoRequest}] /\ req'[w] \in Request
    BY <1>2, <2>1 DEF ReenterPrepared, GateTypeOK, Request
  <2>3. pc' \in [Workers -> Steps] /\ pc'[w] # "persist"
    BY <1>2 DEF ReenterPrepared, Goto, GateTypeOK, Steps, UnitSteps, Recovers
  <2> QED
    BY <1>2, <2>2, <2>3 DEF ReenterPrepared, Goto, GateTypeOK, StoreTypeOK, ApprovalTypeOK,
       storeVars, callVars, budgetVars, leaseVars, apprVars
<1>3. ASSUME NEW w \in Workers, CheckAgain(w)
      PROVE  Goal
  <2>1. pc' \in [Workers -> Steps] /\ pc'[w] # "persist"
    BY <1>3 DEF CheckAgain, Goto, GateTypeOK, Steps, UnitSteps, Routed
  <2> QED
    BY <1>3, <2>1 DEF CheckAgain, Goto, GateTypeOK, StoreTypeOK, ApprovalTypeOK,
       storeVars, callVars, budgetVars, leaseVars, apprVars
<1>4. ASSUME NEW w \in Workers, OpenApproval(w)
      PROVE  Goal
  <2>1. req[w].call \in Calls /\ req[w].intent \in Intents
    BY <1>4 DEF OpenApproval, GateTypeOK, Request
  <2>2. StoreTypeOK' /\ RowsHaveIntents'
    BY <1>4, <2>1 DEF OpenApproval, CreateInvocation, TransitionRun, StoreTypeOK,
       InvocationStatus, RunStatus, budgetVars, leaseVars
  <2>3. ApprovalTypeOK'
    BY <1>4, <2>1 DEF OpenApproval, CreateApproval, ApprovalTypeOK, ApprovalStatus,
       ActiveApproval
  <2>4. GateTypeOK'
    BY <1>4 DEF OpenApproval, Return, GateTypeOK, Steps
  <2> QED
    BY <2>2, <2>3, <2>4
<1>5. ASSUME NEW w \in Workers, WaitForApproval(w)
      PROVE  Goal
  <2>1. StoreTypeOK' /\ RowsHaveIntents'
    BY <1>5 DEF WaitForApproval, Expire, RunAfterExpiry, StoreTypeOK, RunStatus,
       callVars, budgetVars, leaseVars
  <2>2. ApprovalTypeOK'
    BY <1>5 DEF WaitForApproval, Expire, Materialized, ApprovalTypeOK, ApprovalStatus,
       TerminalApproval
  <2>3. GateTypeOK'
    BY <1>5 DEF WaitForApproval, Return, Goto, GateTypeOK, Steps, UnitSteps
  <2> QED
    BY <2>1, <2>2, <2>3
<1>6. ASSUME NEW w \in Workers, ClaimAndAllow(w)
      PROVE  Goal
  <2>1. req[w].call \in Calls
    BY <1>6 DEF ClaimAndAllow, GateTypeOK, Request
  <2>2. StoreTypeOK' /\ RowsHaveIntents'
    BY <1>6, <2>1 DEF ClaimAndAllow, TransitionRun, RecordToolCall, StoreTypeOK, RunStatus,
       callVars, budgetVars, leaseVars
  <2>3. ApprovalTypeOK'
    BY <1>6, <2>1 DEF ClaimAndAllow, Claim, ApprovalTypeOK, ApprovalStatus
  <2>4. GateTypeOK'
    BY <1>6 DEF ClaimAndAllow, Goto, GateTypeOK, Steps, UnitSteps
  <2> QED
    BY <2>2, <2>3, <2>4
<1>7. ASSUME NEW w \in Workers, ClaimTooLate(w)
      PROVE  Goal
  <2>1. req[w].call \in Calls
    BY <1>7 DEF ClaimTooLate, GateTypeOK, Request
  <2> QED
    BY <1>7, <2>1 DEF ClaimTooLate, Return, GateTypeOK, Steps, StoreTypeOK, ApprovalTypeOK,
       storeVars, callVars, budgetVars, leaseVars, apprVars
<1>8. ASSUME NEW w \in Workers, PrepareAndAllow(w)
      PROVE  Goal
  <2>1. req[w].call \in Calls /\ req[w].intent \in Intents
    BY <1>8 DEF PrepareAndAllow, GateTypeOK, Request
  <2>2. StoreTypeOK' /\ RowsHaveIntents'
    BY <1>8, <2>1 DEF PrepareAndAllow, CreateInvocation, RecordToolCall, StoreTypeOK,
       InvocationStatus, budgetVars, leaseVars
  <2>3. ApprovalTypeOK'
    BY <1>8 DEF PrepareAndAllow, ApprovalTypeOK, apprVars
  <2>4. GateTypeOK'
    BY <1>8 DEF PrepareAndAllow, Goto, GateTypeOK, Steps, UnitSteps
  <2> QED
    BY <2>2, <2>3, <2>4
<1>9. ASSUME NEW w \in Workers, RecoveryAllow(w) \/ ResumeClaimed(w)
      PROVE  Goal
  BY <1>9 DEF RecoveryAllow, ResumeClaimed, ResumeClaim, Goto, GateTypeOK, Steps, UnitSteps,
     StoreTypeOK, ApprovalTypeOK, storeVars, callVars, budgetVars, leaseVars, apprVars
<1>10. ASSUME NEW w \in Workers, MarkStarted(w)
       PROVE  Goal
  <2>1. req[w].call \in Calls
    BY <1>10 DEF MarkStarted, GateTypeOK, Request
  <2>2. StoreTypeOK' /\ RowsHaveIntents'
    BY <1>10, <2>1 DEF MarkStarted, TransitionInvocation, StoreTypeOK, InvocationStatus,
       budgetVars, leaseVars
  <2>3. ApprovalTypeOK'
    BY <1>10 DEF MarkStarted, ApprovalTypeOK, apprVars
  <2>4. GateTypeOK'
    BY <1>10 DEF MarkStarted, Goto, GateTypeOK, Steps, UnitSteps
  <2> QED
    BY <2>2, <2>3, <2>4
<1>11. ASSUME NEW w \in Workers, Execute(w)
       PROVE  Goal
  <2>1. req[w].intent \in Intents
    BY <1>11 DEF Execute, GateTypeOK, Request
  <2>2. GateTypeOK'
    BY <1>11, <2>1 DEF Execute, Goto, GateTypeOK, Steps, UnitSteps, TerminalInvocation,
       DeterministicResult
  <2> QED
    BY <1>11, <2>2 DEF Execute, StoreTypeOK, ApprovalTypeOK,
       storeVars, callVars, budgetVars, leaseVars, apprVars
<1>12. ASSUME NEW w \in Workers, PersistResult(w)
       PROVE  Goal
  <2>1. req[w].call \in Calls /\ result[w] \in TerminalInvocation
    BY <1>12 DEF PersistResult, GateTypeOK, Request
  <2>2. StoreTypeOK' /\ RowsHaveIntents'
    BY <1>12, <2>1 DEF PersistResult, TransitionInvocation, StoreTypeOK, InvocationStatus,
       budgetVars, leaseVars
  <2>3. ApprovalTypeOK'
    BY <1>12, <2>1 DEF PersistResult, Consume, ApprovalTypeOK, ApprovalStatus,
       TerminalApproval, apprVars
  <2>4. GateTypeOK'
    BY <1>12 DEF PersistResult, Return, GateTypeOK, Steps
  <2> QED
    BY <2>2, <2>3, <2>4
<1>13. ASSUME NEW w \in Workers, UnitFails(w)
       PROVE  Goal
  BY <1>13 DEF UnitFails, Return, GateTypeOK, Steps, StoreTypeOK, ApprovalTypeOK,
     storeVars, callVars, budgetVars, leaseVars, apprVars
<1>14. ASSUME NEW c \in Calls, Decide(c)
       PROVE  Goal
  <2>1. StoreTypeOK' /\ RowsHaveIntents'
    BY <1>14 DEF Decide, ApproveCall, RejectCall, TransitionRun, StoreTypeOK, RunStatus,
       callVars, budgetVars, leaseVars
  <2>2. ApprovalTypeOK'
    BY <1>14 DEF Decide, ApproveCall, RejectCall, ApprovalTypeOK, ApprovalStatus,
       ActiveApproval, TerminalApproval
  <2>3. GateTypeOK'
    BY <1>14 DEF Decide, GateTypeOK, gateVars, workerVars
  <2> QED
    BY <2>1, <2>2, <2>3
<1>15. ASSUME NEW c \in Calls, DecideTooLate(c)
       PROVE  Goal
  <2>1. StoreTypeOK' /\ RowsHaveIntents'
    BY <1>15 DEF DecideTooLate, Expire, RunAfterExpiry, StoreTypeOK, RunStatus,
       callVars, budgetVars, leaseVars
  <2>2. ApprovalTypeOK'
    BY <1>15 DEF DecideTooLate, Expire, Materialized, ApprovalTypeOK, ApprovalStatus,
       TerminalApproval
  <2>3. GateTypeOK'
    BY <1>15 DEF DecideTooLate, GateTypeOK, workerVars
  <2> QED
    BY <2>1, <2>2, <2>3
<1>16. ASSUME NEW w \in Workers, ExpireDue(w)
       PROVE  Goal
  <2>1. StoreTypeOK' /\ RowsHaveIntents'
    BY <1>16 DEF ExpireDue, Expire, RunAfterExpiry, StoreTypeOK, RunStatus,
       callVars, budgetVars, leaseVars
  <2>2. ApprovalTypeOK'
    BY <1>16 DEF ExpireDue, Expire, Materialized, ApprovalTypeOK, ApprovalStatus,
       TerminalApproval
  <2>3. GateTypeOK'
    BY <1>16 DEF ExpireDue, GateTypeOK, gateVars, workerVars
  <2> QED
    BY <2>1, <2>2, <2>3
<1>17. ASSUME NEW w \in Workers, NEW to \in RunStatus, MoveRun(w, to)
       PROVE  Goal
  BY <1>17 DEF MoveRun, TransitionRun, GateTypeOK, StoreTypeOK, ApprovalTypeOK,
     callVars, budgetVars, leaseVars, apprVars, gateVars, workerVars
<1>18. ASSUME NEW w \in Workers, TakeLease(w) \/ DropLease(w)
       PROVE  Goal
  <2>1. UNCHANGED <<runStatus, callStatus, callIntent, usedToolCalls, ledger, apprStatus,
                    apprDue, pc, req, result, executions, toldExpired>>
    BY <1>18 DEF TakeLease, DropLease, callVars, budgetVars, apprVars
  <2>2. /\ leaseToken' \in {0} \cup Tokens /\ leaseLive' \in BOOLEAN
        /\ leasesIssued' \in 0..MaxLeases /\ token' \in [Workers -> {0} \cup Tokens]
    <3>1. CASE TakeLease(w)
      <4>1. PICK tok \in Tokens : AcquireLease(tok) /\ token' = [token EXCEPT ![w] = tok]
        BY <3>1 DEF TakeLease
      <4> QED
        BY <4>1 DEF AcquireLease, Tokens, GateTypeOK, StoreTypeOK
    <3>2. CASE DropLease(w)
      BY <3>2 DEF DropLease, ReleaseLease, GateTypeOK, StoreTypeOK
    <3> QED
      BY <1>18, <3>1, <3>2
  <2> QED
    BY <2>1, <2>2 DEF GateTypeOK, StoreTypeOK, ApprovalTypeOK
<1>19. ASSUME NEW w \in Workers, Crash(w)
       PROVE  Goal
  BY <1>19 DEF Crash, GateTypeOK, Steps, StoreTypeOK, ApprovalTypeOK,
     storeVars, callVars, budgetVars, leaseVars, apprVars
<1>20. ASSUME ClockPasses
       PROVE  Goal
  BY <1>20 DEF ClockPasses, LeaseExpires, ApprovalFallsDue, GateTypeOK, StoreTypeOK,
     ApprovalTypeOK, storeVars, callVars, budgetVars, leaseVars, apprVars, gateVars, workerVars
<1>21. ASSUME UNCHANGED vars
       PROVE  Goal
  BY <1>21 DEF vars, GateTypeOK, StoreTypeOK, ApprovalTypeOK,
     storeVars, callVars, budgetVars, leaseVars, apprVars, gateVars, workerVars
<1> HIDE DEF Goal, TypeOK, RowsHaveIntents
<1>22. Goal
  BY <1>1, <1>2, <1>3, <1>4, <1>5, <1>6, <1>7, <1>8, <1>9, <1>10, <1>11, <1>12, <1>13,
     <1>14, <1>15, <1>16, <1>17, <1>18, <1>19, <1>20, <1>21
     DEF Next, CallStep, Enter, Surroundings
<1> QED
  BY <1>22 DEF Goal

\* The Gate is type correct: in particular used_tool_calls stays within
\* max_tool_calls whatever way a call is recovered.
THEOREM TypeCorrect == Spec => []TypeOK
<1>1. Init => TypeOK /\ RowsHaveIntents
  BY InitTyped
<1>2. TypeOK /\ RowsHaveIntents /\ [Next]_vars => TypeOK' /\ RowsHaveIntents'
  BY NextTyped
<1> QED
  BY <1>1, <1>2, PTL DEF Spec

-------------------------------------------------------------------------------
(* At most one execution *)

\* No call has begun and no token beyond the first is out.
LEMMA InitOnce == Init => OnceInv
<1> SUFFICES ASSUME Init PROVE OnceInv
  OBVIOUS
<1>1. TypeOK /\ RowsHaveIntents
  BY InitTyped
<1>2. TokensAreFresh
  BY <1>1 DEF Init, StoreInit, GateInit, TokensAreFresh
<1>3. AllowedIsUntried /\ RunningIsRecorded /\ OneRunner
  BY DEF Init, GateInit, AllowedIsUntried, RunningIsRecorded, OneRunner, AllowedSteps
<1>4. ExecutedWasTried /\ AtMostOnce
  BY DEF Init, GateInit, ExecutedWasTried, AtMostOnce
<1> QED
  BY <1>1, <1>2, <1>3, <1>4 DEF OnceInv

\* Steps that begin no call and touch no worker's call, token or lease.
LEMMA QuietStep ==
    ASSUME OnceInv, TypeOK', RowsHaveIntents',
           UNCHANGED <<callStatus, callIntent, leaseToken, leasesIssued,
                       token, pc, req, executions>>
    PROVE  OnceInv'
BY DEF OnceInv, TokensAreFresh, AllowedIsUntried, RunningIsRecorded, OneRunner,
       ExecutedWasTried, AtMostOnce, Current, Attempts

\* Of all workers only the one that holds the lease writes rows.
LEMMA OneHolder ==
    ASSUME OnceInv, NEW w \in Workers, NEW v \in Workers, Holds(w), Current(v)
    PROVE  v = w
BY DEF OnceInv, TokensAreFresh, Holds, VerifyLease, Current

\* A call goes to a step other than running its handler, and begins no call.
\* If the step is an allowed one, the intent is untried.
LEMMA CallMoves ==
    ASSUME OnceInv, TypeOK', RowsHaveIntents',
           NEW w \in Workers, NEW step \in Steps \ {"exec"},
           pc' = [pc EXCEPT ![w] = step],
           step # "idle" => token[w] # 0,
           \A v \in Workers : v # w => req'[v] = req[v],
           UNCHANGED <<leaseToken, leasesIssued, token, executions>>,
           UNCHANGED <<callStatus, callIntent>> \/ Holds(w),
           \A i \in Intents : Attempts(i)' = Attempts(i),
           step \in AllowedSteps =>
              /\ Risk[req'[w].intent] # "READ" => Attempts(req'[w].intent) = {}
              /\ callStatus'[req'[w].call] # "NONE" =>
                    callIntent'[req'[w].call] = req'[w].intent
    PROVE  OnceInv'
<1>1. TokensAreFresh'
  BY DEF OnceInv, TokensAreFresh, TypeOK, GateTypeOK
<1>2. AllowedIsUntried'
  <2> SUFFICES ASSUME NEW v \in Workers, Current(v)', pc'[v] \in AllowedSteps
               PROVE  /\ Risk[req'[v].intent] # "READ" => Attempts(req[v].intent)' = {}
                      /\ callStatus'[req'[v].call] # "NONE" =>
                            callIntent'[req'[v].call] = req'[v].intent
    BY DEF AllowedIsUntried
  <2>1. CASE v = w
    <3>1. step \in AllowedSteps
      BY <2>1 DEF OnceInv, TypeOK, GateTypeOK
    <3>2. req'[w].intent \in Intents
      BY <2>1, <3>1 DEF TypeOK, GateTypeOK, AllowedSteps, Request
    <3> QED
      BY <2>1, <3>1, <3>2 DEF Attempts
  <2>2. CASE v # w
    <3>1. Current(v) /\ pc[v] \in AllowedSteps /\ req'[v] = req[v]
      BY <2>2 DEF OnceInv, TypeOK, GateTypeOK, Current
    <3>2. UNCHANGED <<callStatus, callIntent>>
      BY <2>2, <3>1, OneHolder
    <3>3. req[v].intent \in Intents
      BY <3>1 DEF OnceInv, TypeOK, GateTypeOK, AllowedSteps, Request
    <3> QED
      BY <3>1, <3>2, <3>3 DEF OnceInv, AllowedIsUntried, Attempts
  <2> QED
    BY <2>1, <2>2
<1>3. RunningIsRecorded' /\ OneRunner'
  BY DEF OnceInv, RunningIsRecorded, OneRunner, TypeOK, GateTypeOK, Request, Attempts
<1>4. ExecutedWasTried' /\ AtMostOnce'
  BY DEF OnceInv, ExecutedWasTried, AtMostOnce, Attempts
<1> QED
  BY <1>1, <1>2, <1>3, <1>4 DEF OnceInv

\* create_invocation begins no call.
LEMMA CreatedIsUntried ==
    ASSUME TypeOK, NEW c \in Calls, NEW i \in Intents, CreateInvocation(c, i), NEW j
    PROVE  Attempts(j)' = Attempts(j)
BY DEF TypeOK, StoreTypeOK, CreateInvocation, Attempts

\* A call that gets its result had begun already.
LEMMA SettledWasTried ==
    ASSUME TypeOK, NEW c \in Calls, NEW r, TransitionInvocation(c, "STARTED", r), NEW j
    PROVE  Attempts(j)' = Attempts(j)
BY DEF TypeOK, StoreTypeOK, TransitionInvocation, TerminalInvocation, DeterministicResult,
       Attempts

\* _mark_started is what makes a call an attempt at its intent.
LEMMA StartedIsTried ==
    ASSUME TypeOK, NEW c \in Calls, TransitionInvocation(c, "PREPARED", "STARTED"), NEW j
    PROVE  Attempts(j)' = Attempts(j) \cup (IF callIntent[c] = j THEN {c} ELSE {})
BY DEF TypeOK, StoreTypeOK, TransitionInvocation, Attempts

\* Every step keeps the invariant.
LEMMA NextOnce == OnceInv /\ [Next]_vars => OnceInv'
<1> SUFFICES ASSUME OnceInv, [Next]_vars
             PROVE  OnceInv'
  OBVIOUS
<1> USE StoreAssumption, GateAssumption
<1>t. TypeOK /\ TypeOK' /\ RowsHaveIntents'
  BY NextTyped DEF OnceInv
<1>1. ASSUME NEW w \in Workers, NEW c \in Calls, NEW i \in Intents, Invoke(w, c, i)
      PROVE  OnceInv'
  <2>1. PICK step \in UnitSteps : Routed(c, i, step) /\ Goto(w, step)
    BY <1>1 DEF Invoke
  <2>2. step \in Steps \ {"exec"}
    BY DEF Steps, UnitSteps
  <2>3. UNCHANGED <<callStatus, callIntent, leaseToken, leasesIssued, token, executions>>
    BY <1>1 DEF Invoke, storeVars, callVars, leaseVars
  <2>4. req'[w].call = c /\ req'[w].intent = i /\ \A v \in Workers : v # w => req'[v] = req[v]
    BY <1>1, <1>t DEF Invoke, TypeOK, GateTypeOK
  <2>5. step \in AllowedSteps => /\ Risk[i] # "READ" => Attempts(i) = {}
                                 /\ callStatus[c] # "NONE" => callIntent[c] = i
    BY <2>1 DEF Routed, Admitted, MayRepeat, AllowedSteps
  <2>6. token[w] # 0
    BY <1>1 DEF Invoke, Holds, VerifyLease
  <2> QED
    BY <1>t, <2>1, <2>2, <2>3, <2>4, <2>5, <2>6, CallMoves DEF Goto, Attempts
<1>2. ASSUME NEW w \in Workers, NEW c \in Calls, ReenterPrepared(w, c)
      PROVE  OnceInv'
  <2>1. PICK step \in UnitSteps : Recovers(c, step) /\ Goto(w, step)
    BY <1>2 DEF ReenterPrepared
  <2>2. step \in Steps \ {"exec"}
    BY DEF Steps, UnitSteps
  <2>3. UNCHANGED <<callStatus, callIntent, leaseToken, leasesIssued, token, executions>>
    BY <1>2 DEF ReenterPrepared, storeVars, callVars, leaseVars
  <2>4. /\ req'[w].call = c /\ req'[w].intent = callIntent[c]
        /\ \A v \in Workers : v # w => req'[v] = req[v]
    BY <1>2, <1>t DEF ReenterPrepared, TypeOK, GateTypeOK
  <2>5. Risk[callIntent[c]] # "READ" => Attempts(callIntent[c]) = {}
    BY <2>1 DEF Recovers, MayRepeat
  <2>6. token[w] # 0
    BY <1>2 DEF ReenterPrepared, Holds, VerifyLease
  <2>7. /\ Risk[req'[w].intent] # "READ" => Attempts(req'[w].intent) = {}
        /\ callIntent'[req'[w].call] = req'[w].intent
    BY <2>3, <2>4, <2>5
  <2>8. \A j \in Intents : Attempts(j)' = Attempts(j)
    BY <2>3 DEF Attempts
  <2> QED
    BY <1>t, <2>1, <2>2, <2>3, <2>4, <2>6, <2>7, <2>8, CallMoves DEF Goto
<1>3. ASSUME NEW w \in Workers, CheckAgain(w)
      PROVE  OnceInv'
  <2> DEFINE c == req[w].call
             i == req[w].intent
  <2>1. PICK step \in UnitSteps : Routed(c, i, step) /\ Goto(w, step)
    BY <1>3 DEF CheckAgain
  <2>2. step \in Steps \ {"exec"}
    BY DEF Steps, UnitSteps
  <2>3. UNCHANGED <<callStatus, callIntent, leaseToken, leasesIssued, token, executions, req>>
    BY <1>3 DEF CheckAgain, storeVars, callVars, leaseVars
  <2>4. step \in AllowedSteps => /\ Risk[i] # "READ" => Attempts(i) = {}
                                 /\ callStatus[c] # "NONE" => callIntent[c] = i
    BY <2>1 DEF Routed, Admitted, MayRepeat, AllowedSteps
  <2>5. token[w] # 0
    BY <1>3 DEF CheckAgain, Holds, VerifyLease
  <2> QED
    BY <1>t, <2>1, <2>2, <2>3, <2>4, <2>5, CallMoves DEF Goto, Attempts
<1>4. ASSUME NEW w \in Workers, OpenApproval(w)
      PROVE  OnceInv'
  <2>1. req[w].call \in Calls /\ req[w].intent \in Intents
    BY <1>4, <1>t DEF OpenApproval, TypeOK, GateTypeOK, Request
  <2>2. \A j \in Intents : Attempts(j)' = Attempts(j)
    BY <1>4, <1>t, <2>1, CreatedIsUntried DEF OpenApproval
  <2>3. /\ pc' = [pc EXCEPT ![w] = "idle"] /\ Holds(w)
        /\ UNCHANGED <<leaseToken, leasesIssued, token, executions>>
    BY <1>4 DEF OpenApproval, Return, leaseVars
  <2>4. \A v \in Workers : v # w => req'[v] = req[v]
    BY <1>4, <1>t DEF OpenApproval, Return, TypeOK, GateTypeOK
  <2> QED
    BY <1>t, <2>2, <2>3, <2>4, CallMoves DEF Steps, UnitSteps, AllowedSteps
<1>5. ASSUME NEW w \in Workers, WaitForApproval(w)
      PROVE  OnceInv'
  <2>1. PICK step \in {"check", "idle"} : pc' = [pc EXCEPT ![w] = step]
    BY <1>5 DEF WaitForApproval, Goto, Return
  <2>2. UNCHANGED <<callStatus, callIntent, leaseToken, leasesIssued, token, executions>>
    BY <1>5 DEF WaitForApproval, Return, callVars, leaseVars
  <2>3. \A v \in Workers : v # w => req'[v] = req[v]
    BY <1>5, <1>t DEF WaitForApproval, Return, TypeOK, GateTypeOK
  <2>4. token[w] # 0
    BY <1>5 DEF WaitForApproval, Holds, VerifyLease
  <2>5. step \in Steps \ {"exec"} /\ step \notin AllowedSteps
    BY DEF Steps, UnitSteps, AllowedSteps
  <2>6. \A j \in Intents : Attempts(j)' = Attempts(j)
    BY <2>2 DEF Attempts
  <2> QED
    BY <1>t, <2>1, <2>2, <2>3, <2>4, <2>5, <2>6, CallMoves
<1>6. ASSUME NEW w \in Workers,
             ClaimAndAllow(w) \/ RecoveryAllow(w) \/ ResumeClaimed(w)
      PROVE  OnceInv'
  <2>1. /\ pc[w] \in AllowedSteps /\ Holds(w)
        /\ pc' = [pc EXCEPT ![w] = "start"]
        /\ UNCHANGED <<callStatus, callIntent, leaseToken, leasesIssued, token, executions, req>>
    BY <1>6 DEF ClaimAndAllow, RecoveryAllow, ResumeClaimed, Goto, AllowedSteps,
                storeVars, callVars, leaseVars
  <2>2. Current(w)
    BY <2>1 DEF Holds, VerifyLease, Current
  <2>3. /\ Risk[req[w].intent] # "READ" => Attempts(req[w].intent) = {}
        /\ callStatus[req[w].call] # "NONE" => callIntent[req[w].call] = req[w].intent
    BY <2>1, <2>2 DEF OnceInv, AllowedIsUntried
  <2>4. \A j \in Intents : Attempts(j)' = Attempts(j)
    BY <2>1 DEF Attempts
  <2>5. "start" \in Steps \ {"exec"} /\ token[w] # 0
    BY <2>2 DEF Steps, UnitSteps, Current
  <2>6. Risk[req'[w].intent] # "READ" => Attempts(req'[w].intent) = {}
    BY <2>1, <2>3
  <2> QED
    BY <1>t, <2>1, <2>3, <2>4, <2>5, <2>6, CallMoves
<1>7. ASSUME NEW w \in Workers, PrepareAndAllow(w)
      PROVE  OnceInv'
  <2>1. req[w].call \in Calls /\ req[w].intent \in Intents
    BY <1>7, <1>t DEF PrepareAndAllow, TypeOK, GateTypeOK, Request
  <2>2. \A j \in Intents : Attempts(j)' = Attempts(j)
    BY <1>7, <1>t, <2>1, CreatedIsUntried DEF PrepareAndAllow
  <2>3. /\ pc[w] = "prepare" /\ Holds(w)
        /\ pc' = [pc EXCEPT ![w] = "start"]
        /\ UNCHANGED <<leaseToken, leasesIssued, token, executions, req>>
    BY <1>7 DEF PrepareAndAllow, Goto, leaseVars
  <2>4. Current(w)
    BY <2>3 DEF Holds, VerifyLease, Current
  <2>5. Risk[req[w].intent] # "READ" => Attempts(req[w].intent) = {}
    BY <2>3, <2>4 DEF OnceInv, AllowedIsUntried, AllowedSteps
  <2>6. callIntent'[req[w].call] = req[w].intent
    BY <1>7, <1>t, <2>1 DEF PrepareAndAllow, CreateInvocation, TypeOK, StoreTypeOK
  <2>7. "start" \in Steps \ {"exec"} /\ token[w] # 0
    BY <2>4 DEF Steps, UnitSteps, Current
  <2>8. Risk[req'[w].intent] # "READ" => Attempts(req'[w].intent) = {}
    BY <2>3, <2>5
  <2> QED
    BY <1>t, <2>2, <2>3, <2>6, <2>7, <2>8, CallMoves
<1>8. ASSUME NEW w \in Workers, ClaimTooLate(w) \/ UnitFails(w)
      PROVE  OnceInv'
  <2>1. /\ pc' = [pc EXCEPT ![w] = "idle"]
        /\ UNCHANGED <<callStatus, callIntent, leaseToken, leasesIssued, token, executions>>
    BY <1>8 DEF ClaimTooLate, UnitFails, Return, storeVars, callVars, leaseVars
  <2>2. \A v \in Workers : v # w => req'[v] = req[v]
    BY <1>8, <1>t DEF ClaimTooLate, UnitFails, Return, TypeOK, GateTypeOK
  <2>3. \A j \in Intents : Attempts(j)' = Attempts(j)
    BY <2>1 DEF Attempts
  <2>4. "idle" \in Steps \ {"exec"} /\ "idle" \notin AllowedSteps
    BY DEF Steps, AllowedSteps
  <2> QED
    BY <1>t, <2>1, <2>2, <2>3, <2>4, CallMoves
<1>9. ASSUME NEW w \in Workers, PersistResult(w)
      PROVE  OnceInv'
  <2>1. req[w].call \in Calls
    BY <1>9, <1>t DEF PersistResult, TypeOK, GateTypeOK, Request
  <2>2. \A j \in Intents : Attempts(j)' = Attempts(j)
    BY <1>9, <1>t, <2>1, SettledWasTried DEF PersistResult
  <2>3. /\ pc' = [pc EXCEPT ![w] = "idle"] /\ Holds(w)
        /\ UNCHANGED <<leaseToken, leasesIssued, token, executions>>
    BY <1>9 DEF PersistResult, Return, leaseVars
  <2>4. \A v \in Workers : v # w => req'[v] = req[v]
    BY <1>9, <1>t DEF PersistResult, Return, TypeOK, GateTypeOK
  <2>5. "idle" \in Steps \ {"exec"} /\ "idle" \notin AllowedSteps
    BY DEF Steps, AllowedSteps
  <2> QED
    BY <1>t, <2>2, <2>3, <2>4, <2>5, CallMoves
<1>10. ASSUME NEW w \in Workers, MarkStarted(w)
       PROVE  OnceInv'
  <2> DEFINE c == req[w].call
             i == req[w].intent
  <2>1. c \in Calls /\ i \in Intents
    BY <1>10, <1>t DEF MarkStarted, TypeOK, GateTypeOK, Request
  <2>2. /\ pc[w] = "start" /\ Holds(w) /\ callStatus[c] = "PREPARED"
        /\ pc' = [pc EXCEPT ![w] = "exec"]
        /\ UNCHANGED <<callIntent, leaseToken, leasesIssued, token, executions, req>>
    BY <1>10 DEF MarkStarted, TransitionInvocation, Goto, leaseVars
  <2>3. Current(w)
    BY <2>2 DEF Holds, VerifyLease, Current
  <2>4. (Risk[i] # "READ" => Attempts(i) = {}) /\ callIntent[c] = i
    BY <2>2, <2>3 DEF OnceInv, AllowedIsUntried, AllowedSteps
  <2>5. \A j : Attempts(j)' = Attempts(j) \cup (IF callIntent[c] = j THEN {c} ELSE {})
    BY <1>10, <1>t, <2>1, StartedIsTried DEF MarkStarted
  <2>6. \A j : Attempts(j) \subseteq Attempts(j)'
    BY <2>5
  <2>7. TokensAreFresh'
    BY <2>2, <2>3, <1>t DEF OnceInv, TokensAreFresh, Current, TypeOK, GateTypeOK
  <2>8. AllowedIsUntried'
    <3> SUFFICES ASSUME NEW v \in Workers, Current(v)', pc'[v] \in AllowedSteps
                 PROVE  FALSE
      BY DEF AllowedIsUntried
    <3>1. v # w
      BY <2>2, <1>t DEF TypeOK, GateTypeOK, AllowedSteps
    <3>2. Current(v)
      BY <2>2 DEF Current
    <3> QED
      BY <2>2, <3>1, <3>2, OneHolder
  <2>9. ASSUME NEW v \in Workers, v # w, pc[v] = "exec"
        PROVE  req[v].call \in Attempts(req[v].intent)
    BY <2>9 DEF OnceInv, RunningIsRecorded
  <2>10. RunningIsRecorded'
    <3> SUFFICES ASSUME NEW v \in Workers, pc'[v] = "exec"
                 PROVE  req[v].call \in {d \in Calls : /\ callIntent'[d] = req[v].intent
                                                       /\ callStatus'[d] \notin {"NONE", "PREPARED"}}
      BY <2>2 DEF RunningIsRecorded, Attempts
    <3>1. CASE v = w
      BY <3>1, <2>4, <2>5 DEF Attempts
    <3>2. CASE v # w
      BY <3>2, <2>2, <2>6, <2>9, <1>t DEF Attempts, TypeOK, GateTypeOK
    <3> QED
      BY <3>1, <3>2
  <2>11. Risk[i] # "READ" =>
            /\ executions[i] = 0
            /\ \A v \in Workers : v # w /\ pc[v] = "exec" => req[v].intent # i
    BY <2>1, <2>4, <2>9, <1>t DEF OnceInv, ExecutedWasTried, TypeOK, GateTypeOK
  <2>12. OneRunner'
    <3> SUFFICES ASSUME NEW v \in Workers, pc'[v] = "exec", Risk[req[v].intent] # "READ"
                 PROVE  /\ executions[req[v].intent] = 0
                        /\ \A u \in Workers :
                              pc'[u] = "exec" /\ req[u].intent = req[v].intent => u = v
      BY <2>2 DEF OneRunner
    <3>1. \A u \in Workers : u # w /\ pc'[u] = "exec" => pc[u] = "exec"
      BY <2>2, <1>t DEF TypeOK, GateTypeOK
    <3> QED
      BY <2>11, <3>1 DEF OnceInv, OneRunner
  <2>13. ExecutedWasTried'
    BY <2>2, <2>6 DEF OnceInv, ExecutedWasTried, Attempts
  <2>14. AtMostOnce'
    BY <2>2 DEF OnceInv, AtMostOnce
  <2> QED
    BY <1>t, <2>7, <2>8, <2>10, <2>12, <2>13, <2>14 DEF OnceInv
<1>11. ASSUME NEW w \in Workers, Execute(w)
       PROVE  OnceInv'
  <2> DEFINE i == req[w].intent
  <2>1. i \in Intents
    BY <1>11, <1>t DEF Execute, TypeOK, GateTypeOK, Request
  <2>2. /\ pc[w] = "exec" /\ pc' = [pc EXCEPT ![w] = "persist"]
        /\ executions' = [executions EXCEPT ![i] = @ + 1]
        /\ UNCHANGED <<callStatus, callIntent, leaseToken, leasesIssued, token, req>>
    BY <1>11 DEF Execute, Goto, storeVars, callVars, leaseVars
  <2>3. TokensAreFresh'
    BY <2>2, <1>t DEF OnceInv, TokensAreFresh, TypeOK, GateTypeOK
  <2>4. AllowedIsUntried' /\ RunningIsRecorded'
    BY <2>2, <1>t DEF OnceInv, AllowedIsUntried, RunningIsRecorded, Current, AllowedSteps,
                      Attempts, TypeOK, GateTypeOK
  <2>5. OneRunner'
    <3> SUFFICES ASSUME NEW v \in Workers, pc'[v] = "exec", Risk[req[v].intent] # "READ"
                 PROVE  /\ executions'[req[v].intent] = 0
                        /\ \A u \in Workers :
                              pc'[u] = "exec" /\ req[u].intent = req[v].intent => u = v
      BY <2>2 DEF OneRunner
    <3>1. v # w /\ pc[v] = "exec" /\ \A u \in Workers : pc'[u] = "exec" => pc[u] = "exec"
      BY <2>2, <1>t DEF TypeOK, GateTypeOK
    <3>2. req[v].intent # i /\ req[v].intent \in Intents
      BY <2>2, <3>1, <1>t DEF OnceInv, OneRunner, TypeOK, GateTypeOK, Request
    <3> QED
      BY <2>1, <2>2, <3>1, <3>2, <1>t DEF OnceInv, OneRunner, TypeOK, GateTypeOK
  <2>6. ExecutedWasTried'
    BY <2>1, <2>2, <1>t DEF OnceInv, ExecutedWasTried, RunningIsRecorded, Attempts,
                            TypeOK, GateTypeOK
  <2>7. AtMostOnce'
    BY <2>1, <2>2, <1>t DEF OnceInv, AtMostOnce, OneRunner, TypeOK, GateTypeOK
  <2> QED
    BY <1>t, <2>3, <2>4, <2>5, <2>6, <2>7 DEF OnceInv
<1>12. ASSUME NEW w \in Workers, TakeLease(w)
       PROVE  OnceInv'
  <2>1. PICK tok \in Tokens : AcquireLease(tok) /\ token' = [token EXCEPT ![w] = tok]
    BY <1>12 DEF TakeLease
  <2>2. /\ tok = leasesIssued + 1 /\ leaseToken' = tok /\ leasesIssued' = tok
        /\ leasesIssued \in Nat /\ tok \in Nat
    BY <2>1, <1>t DEF AcquireLease, TypeOK, StoreTypeOK, Tokens
  <2>3. pc[w] = "idle" /\ UNCHANGED <<callStatus, callIntent, pc, req, executions>>
    BY <1>12 DEF TakeLease, callVars
  <2>4. \A v \in Workers : token[v] \in Nat /\ token[v] <= leasesIssued
    BY <1>t DEF OnceInv, TokensAreFresh, TypeOK, GateTypeOK, Tokens
  <2>5. token'[w] = tok /\ \A v \in Workers : v # w => token'[v] = token[v] /\ token[v] # tok
    BY <2>1, <2>2, <2>4, <1>t DEF TypeOK, GateTypeOK
  <2>6. TokensAreFresh'
    BY <2>2, <2>3, <2>4, <2>5 DEF OnceInv, TokensAreFresh
  <2>7. AllowedIsUntried'
    BY <2>2, <2>3, <2>5 DEF AllowedIsUntried, Current, AllowedSteps
  <2> QED
    BY <1>t, <2>3, <2>6, <2>7 DEF OnceInv, RunningIsRecorded, OneRunner, ExecutedWasTried,
                                  AtMostOnce, Attempts
<1>13. ASSUME NEW w \in Workers, DropLease(w)
       PROVE  OnceInv'
  <2>1. /\ pc[w] = "idle" /\ leaseToken' = 0 /\ token' = [token EXCEPT ![w] = 0]
        /\ UNCHANGED <<callStatus, callIntent, leasesIssued, pc, req, executions>>
    BY <1>13 DEF DropLease, ReleaseLease, callVars
  <2>2. TokensAreFresh'
    BY <2>1, <1>t DEF OnceInv, TokensAreFresh, TypeOK, GateTypeOK, StoreTypeOK
  <2>3. AllowedIsUntried'
    BY <2>1 DEF AllowedIsUntried, Current
  <2> QED
    BY <1>t, <2>1, <2>2, <2>3 DEF OnceInv, RunningIsRecorded, OneRunner, ExecutedWasTried,
                                  AtMostOnce, Attempts
<1>14. ASSUME NEW w \in Workers, Crash(w)
       PROVE  OnceInv'
  <2>1. /\ token' = [token EXCEPT ![w] = 0] /\ pc' = [pc EXCEPT ![w] = "idle"]
        /\ UNCHANGED <<callStatus, callIntent, leaseToken, leasesIssued, executions>>
    BY <1>14 DEF Crash, storeVars, callVars, leaseVars
  <2>2. /\ \A v \in Workers : v # w => req'[v] = req[v] /\ pc'[v] = pc[v] /\ token'[v] = token[v]
        /\ pc'[w] = "idle" /\ token'[w] = 0
    BY <1>14, <2>1, <1>t DEF Crash, TypeOK, GateTypeOK
  <2>3. TokensAreFresh'
    BY <2>1, <2>2, <1>t DEF OnceInv, TokensAreFresh, TypeOK, StoreTypeOK
  <2>4. AllowedIsUntried' /\ RunningIsRecorded' /\ OneRunner'
    BY <2>1, <2>2 DEF OnceInv, AllowedIsUntried, RunningIsRecorded, OneRunner, Current,
                      AllowedSteps, Attempts
  <2> QED
    BY <1>t, <2>1, <2>3, <2>4 DEF OnceInv, ExecutedWasTried, AtMostOnce, Attempts
<1>15. ASSUME \/ \E c \in Calls : Decide(c) \/ DecideTooLate(c)
              \/ \E w \in Workers : ExpireDue(w) \/ \E to \in RunStatus : MoveRun(w, to)
              \/ ClockPasses
              \/ UNCHANGED vars
       PROVE  OnceInv'
  <2>1. UNCHANGED <<callStatus, callIntent, leaseToken, leasesIssued, token, pc, req, executions>>
    BY <1>15 DEF Decide, DecideTooLate, ExpireDue, MoveRun, ClockPasses, LeaseExpires, vars,
       storeVars, callVars, leaseVars, gateVars, workerVars
  <2> QED
    BY <1>t, <2>1, QuietStep
<1> QED
  BY <1>1, <1>2, <1>3, <1>4, <1>5, <1>6, <1>7, <1>8, <1>9, <1>10, <1>11, <1>12, <1>13,
     <1>14, <1>15 DEF Next, CallStep, Enter, Surroundings

\* WP06-INV-006/007 for every number of processes, calls and leases: the
\* handler of an intent that is not a READ runs at most once.
THEOREM ExecutesAtMostOnce == Spec => []AtMostOnce
<1>1. Init => OnceInv
  BY InitOnce
<1>2. OnceInv /\ [Next]_vars => OnceInv'
  BY NextOnce
<1>3. OnceInv => AtMostOnce
  BY DEF OnceInv
<1> QED
  BY <1>1, <1>2, <1>3, PTL DEF Spec
===============================================================================
