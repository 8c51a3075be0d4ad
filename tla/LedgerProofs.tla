----------------------------- MODULE LedgerProofs -----------------------------
(***************************************************************************)
(* What the durable rows of the Gate say about each other and about the    *)
(* executions, for every set of workers, calls and intents and every       *)
(* budget and number of leases: the approval follows the run and the call, *)
(* the ledger follows both, and every execution is on record.              *)
(***************************************************************************)
EXTENDS ApprovalProofs, FiniteSetTheorems

\* The approval a request was read with is there, and one that was not there is
\* not there yet as long as the request is the current one.
SnapshotKept ==
    \A w \in Workers : pc[w] # "idle" =>
       /\ req[w].approved => apprStatus[req[w].call] # "NONE"
       /\ Current(w) /\ ~req[w].approved => apprStatus[req[w].call] = "NONE"

\* Nobody moves the run between the claim and the start.
ClaimedInRunningRun ==
    \A w \in Workers :
       Current(w) /\ pc[w] = "start" /\ apprStatus[req[w].call] # "NONE" =>
          runStatus = "RUNNING"

\* A call that may execute has not used up the limit.
AllowedIsWithinLimit ==
    \A w \in Workers :
       Current(w) /\ pc[w] \in AllowedSteps =>
          Cardinality(Attempts(req[w].intent)) < ReadLimit

\* A call is executed by one process.
RunnersAreApart ==
    \A v, w \in Workers :
       pc[v] = "exec" /\ pc[w] = "exec" /\ req[v].call = req[w].call => v = w

CallerInv ==
    SnapshotKept /\ ClaimedInRunningRun /\ AllowedIsWithinLimit /\ RunnersAreApart

\* The calls that nobody is about to execute any more.
Done(i) ==
    {c \in Attempts(i) : \A w \in Workers : ~(pc[w] = "exec" /\ req[w].call = c)}

ExecutionsAreDone == \A i \in Intents : executions[i] <= Cardinality(Done(i))

AttemptsWithinLimit == \A i \in Intents : Cardinality(Attempts(i)) <= ReadLimit

RowInv == WaitingOnOneApproval /\ ApprovalTracksCall /\ ChargedOnce

\* The invariant.
LedgerInv ==
    /\ AuthorisedInv /\ CallerInv /\ RowInv
    /\ ExecutionsAreDone /\ AttemptsWithinLimit


-------------------------------------------------------------------------------
(* The rows *)

\* The units of work that write the run, the calls, the approvals or the ledger.
LEMMA RowWrites ==
    ASSUME TypeOK, [Next]_vars
    PROVE  \/ UNCHANGED <<runStatus, callVars, budgetVars, apprStatus>>
           \/ \E w \in Workers : \/ OpenApproval(w) \/ ClaimAndAllow(w) \/ PrepareAndAllow(w)
                                 \/ MarkStarted(w) \/ PersistResult(w)
           \/ \E w \in Workers, to \in RunStatus : MoveRun(w, to)
           \/ \E c \in Calls : Decide(c)
           \/ \E S \in SUBSET Calls : Expire(S) /\ UNCHANGED <<callVars, budgetVars>>
<1>1. ASSUME NEW w \in Workers, WaitForApproval(w)
      PROVE  \E S \in SUBSET Calls : Expire(S) /\ UNCHANGED <<callVars, budgetVars>>
  <2>1. {req[w].call} \in SUBSET Calls
    BY <1>1 DEF WaitForApproval, TypeOK, GateTypeOK, Request
  <2> QED
    BY <1>1, <2>1 DEF WaitForApproval
<1>2. ASSUME NEW c \in Calls, DecideTooLate(c)
      PROVE  \E S \in SUBSET Calls : Expire(S) /\ UNCHANGED <<callVars, budgetVars>>
  <2>1. {c} \in SUBSET Calls
    OBVIOUS
  <2> QED
    BY <1>2, <2>1 DEF DecideTooLate
<1>3. ASSUME NEW w \in Workers, ExpireDue(w)
      PROVE  \E S \in SUBSET Calls : Expire(S) /\ UNCHANGED <<callVars, budgetVars>>
  BY <1>3 DEF ExpireDue
<1>4. ASSUME NEW w \in Workers,
             \/ \E c \in Calls, i \in Intents : Invoke(w, c, i)
             \/ \E c \in Calls : ReenterPrepared(w, c)
             \/ CheckAgain(w) \/ ClaimTooLate(w) \/ RecoveryAllow(w) \/ ResumeClaimed(w)
             \/ Execute(w) \/ UnitFails(w) \/ TakeLease(w) \/ DropLease(w) \/ Crash(w)
      PROVE  UNCHANGED <<runStatus, callVars, budgetVars, apprStatus>>
  BY <1>4 DEF Invoke, ReenterPrepared, CheckAgain, ClaimTooLate, RecoveryAllow, ResumeClaimed,
              ResumeClaim, Execute, UnitFails, TakeLease, DropLease, Crash, storeVars, apprVars
<1>5. ASSUME ClockPasses \/ UNCHANGED vars
      PROVE  UNCHANGED <<runStatus, callVars, budgetVars, apprStatus>>
  BY <1>5 DEF ClockPasses, ApprovalFallsDue, vars, storeVars, apprVars
<1> QED
  BY <1>1, <1>2, <1>3, <1>4, <1>5 DEF Next, Enter, CallStep, Surroundings

\* A call of the holder of the lease that is about to start: its row is PREPARED and
\* its approval, if it has one, is claimed in a running run.
LEMMA StarterRow ==
    ASSUME LedgerInv, NEW w \in Workers, MarkStarted(w)
    PROVE  /\ req[w].call \in Calls /\ req[w].intent \in Intents /\ Current(w)
           /\ callStatus[req[w].call] = "PREPARED"
           /\ callIntent[req[w].call] = req[w].intent
           /\ apprStatus[req[w].call] \in {"NONE", "CLAIMED"}
           /\ apprStatus[req[w].call] # "NONE" => runStatus = "RUNNING"
<1> DEFINE c == req[w].call
           i == req[w].intent
<1>1. c \in Calls /\ i \in Intents /\ pc[w] = "start" /\ Current(w) /\ callStatus[c] = "PREPARED"
  BY DEF LedgerInv, AuthorisedInv, OnceInv, TypeOK, GateTypeOK, Request, MarkStarted, Holds,
         VerifyLease, Current, TransitionInvocation
<1>2. callIntent[c] = i
  BY <1>1 DEF LedgerInv, AuthorisedInv, OnceInv, AllowedIsUntried, AllowedSteps
<1>3. NeedsApproval[i] <=> apprStatus[c] # "NONE"
  BY <1>1, <1>2 DEF LedgerInv, AuthorisedInv, IntentsAreAuthorised
<1>4. apprStatus[c] # "NONE" => apprStatus[c] \in Spent
  BY <1>1, <1>3, GateAssumption DEF LedgerInv, AuthorisedInv, RoutesAreAuthorised
<1>5. apprStatus[c] # "CONSUMED"
  BY <1>1 DEF LedgerInv, RowInv, ApprovalTracksCall, DeterministicResult
<1>6. apprStatus[c] # "NONE" => runStatus = "RUNNING"
  BY <1>1 DEF LedgerInv, CallerInv, ClaimedInRunningRun
<1> QED
  BY <1>1, <1>2, <1>4, <1>5, <1>6 DEF Spent

\* What an expiry does to one approval and to the run.
LEMMA ExpiryMoves ==
    ASSUME TypeOK, NEW S \in SUBSET Calls, Expire(S)
    PROVE  /\ \A c \in Calls : \/ apprStatus'[c] = apprStatus[c]
                               \/ /\ apprStatus[c] \in ActiveApproval
                                  /\ apprStatus'[c] = "EXPIRED"
           /\ runStatus' = runStatus \/ (runStatus = "WAITING_APPROVAL" /\ runStatus' = "STOPPED")
           /\ runStatus' = "WAITING_APPROVAL" =>
                 runStatus = "WAITING_APPROVAL" /\ \A c \in Calls : apprStatus'[c] = apprStatus[c]
  BY DEF Expire, Materialized, Overdue, RunAfterExpiry

\* A waiting run goes on waiting for one approval.
LEMMA WaitingKept ==
    ASSUME LedgerInv, [Next]_vars
    PROVE  WaitingOnOneApproval'
<1>t. TypeOK /\ WaitingOnOneApproval
  BY DEF LedgerInv, AuthorisedInv, OnceInv, RowInv
<1>1. CASE UNCHANGED <<runStatus, callVars, budgetVars, apprStatus>>
  BY <1>1, <1>t DEF WaitingOnOneApproval, callVars
<1>2. ASSUME NEW w \in Workers, OpenApproval(w) PROVE WaitingOnOneApproval'
  <2> DEFINE c == req[w].call
  <2>1. c \in Calls
    BY <1>2, <1>t DEF OpenApproval, TypeOK, GateTypeOK, Request
  <2>2. /\ runStatus = "RUNNING" /\ runStatus' = "WAITING_APPROVAL"
        /\ apprStatus' = [apprStatus EXCEPT ![c] = "PENDING"]
        /\ callStatus' = [callStatus EXCEPT ![c] = "PREPARED"]
    BY <1>2 DEF OpenApproval, CreateApproval, CreateInvocation, TransitionRun
  <2>3. \A d \in Calls : apprStatus[d] \notin ActiveApproval
    BY <1>t, <2>2 DEF WaitingOnOneApproval, TerminalRun
  <2> HIDE DEF c
  <2>4. /\ \A d \in Calls : d # c => apprStatus'[d] \notin ActiveApproval
        /\ apprStatus'[c] = "PENDING" /\ callStatus'[c] = "PREPARED"
    BY <1>t, <2>1, <2>2, <2>3 DEF TypeOK, ApprovalTypeOK, StoreTypeOK
  <2> QED
    BY <2>1, <2>2, <2>4 DEF WaitingOnOneApproval, ActiveApproval
<1>3. ASSUME NEW w \in Workers, ClaimAndAllow(w) PROVE WaitingOnOneApproval'
  <2> DEFINE c == req[w].call
  <2>1. c \in Calls
    BY <1>3, <1>t DEF ClaimAndAllow, TypeOK, GateTypeOK, Request
  <2>2. /\ apprStatus[c] = "APPROVED" /\ runStatus' = "RUNNING"
        /\ apprStatus' = [apprStatus EXCEPT ![c] = "CLAIMED"]
    BY <1>3 DEF ClaimAndAllow, Claim, Materialized, TransitionRun
  <2> HIDE DEF c
  <2>3. \A d \in Calls : apprStatus'[d] \notin ActiveApproval
    BY <1>t, <2>1, <2>2 DEF TypeOK, ApprovalTypeOK, ActiveApproval, WaitingOnOneApproval
  <2> QED
    BY <2>2, <2>3 DEF WaitingOnOneApproval
<1>4. ASSUME NEW w \in Workers, PrepareAndAllow(w) PROVE WaitingOnOneApproval'
  <2> DEFINE c == req[w].call
  <2>1. c \in Calls
    BY <1>4, <1>t DEF PrepareAndAllow, TypeOK, GateTypeOK, Request
  <2>2. /\ UNCHANGED <<runStatus, apprStatus>>
        /\ callStatus' = [callStatus EXCEPT ![c] = "PREPARED"]
    BY <1>4 DEF PrepareAndAllow, CreateInvocation, apprVars
  <2> HIDE DEF c
  <2>3. \A d \in Calls : callStatus[d] = "PREPARED" => callStatus'[d] = "PREPARED"
    BY <1>t, <2>1, <2>2 DEF TypeOK, StoreTypeOK
  <2> QED
    BY <1>t, <2>2, <2>3 DEF WaitingOnOneApproval
<1>5. ASSUME NEW w \in Workers, MarkStarted(w) \/ PersistResult(w) PROVE WaitingOnOneApproval'
  <2> DEFINE c == req[w].call
  <2>1. c \in Calls
    BY <1>5, <1>t DEF MarkStarted, PersistResult, TypeOK, GateTypeOK, Request
  <2>2. runStatus' = runStatus /\ \E to : callStatus' = [callStatus EXCEPT ![c] = to]
    BY <1>5 DEF MarkStarted, PersistResult, TransitionInvocation
  <2>3. apprStatus[c] \notin ActiveApproval
    <3>1. CASE MarkStarted(w)
      BY <3>1, StarterRow DEF ActiveApproval
    <3>2. CASE PersistResult(w)
      BY <2>1, <3>2, <1>t DEF PersistResult, TransitionInvocation, WaitingOnOneApproval
    <3> QED
      BY <1>5, <3>1, <3>2
  <2>4. \A d \in Calls : apprStatus'[d] = apprStatus[d] \/ (d = c /\ apprStatus'[d] = "CONSUMED")
    BY <1>5, <1>t DEF MarkStarted, PersistResult, Consume, apprVars, TypeOK, ApprovalTypeOK
  <2> HIDE DEF c
  <2>5. \A d \in Calls : apprStatus[d] \in ActiveApproval => callStatus'[d] = callStatus[d]
    BY <1>t, <2>2, <2>3 DEF TypeOK, StoreTypeOK
  <2>6. \A d \in Calls : apprStatus'[d] \in ActiveApproval <=> apprStatus[d] \in ActiveApproval
    BY <2>3, <2>4 DEF ActiveApproval
  <2> QED
    BY <1>t, <2>2, <2>5, <2>6 DEF WaitingOnOneApproval
<1>6. ASSUME NEW w \in Workers, NEW to \in RunStatus, MoveRun(w, to) PROVE WaitingOnOneApproval'
  <2>1. UNCHANGED <<callStatus, apprStatus>> /\ runStatus' = to /\ to # "WAITING_APPROVAL"
    BY <1>6 DEF MoveRun, TransitionRun, callVars, apprVars
  <2>2. runStatus \in {"WAITING_APPROVAL"} \cup TerminalRun => to \in TerminalRun
    BY <1>6 DEF MoveRun, TransitionRun, RunTransitions, TerminalRun, RunStatus
  <2> QED
    BY <1>t, <2>1, <2>2 DEF WaitingOnOneApproval
<1>7. ASSUME NEW c \in Calls, Decide(c) PROVE WaitingOnOneApproval'
  <2>1. /\ apprStatus[c] = "PENDING" /\ runStatus = "WAITING_APPROVAL" /\ callStatus' = callStatus
        /\ \/ apprStatus' = [apprStatus EXCEPT ![c] = "APPROVED"] /\ runStatus' = runStatus
           \/ apprStatus' = [apprStatus EXCEPT ![c] = "REJECTED"] /\ runStatus' = "STOPPED"
    BY <1>7 DEF Decide, ApproveCall, RejectCall, MayDecide, Materialized, TransitionRun, callVars
  <2>2. \A d \in Calls : d # c => apprStatus[d] \notin ActiveApproval /\ apprStatus'[d] = apprStatus[d]
    BY <1>t, <2>1 DEF TypeOK, ApprovalTypeOK, ActiveApproval, WaitingOnOneApproval
  <2>3. callStatus[c] = "PREPARED"
    BY <1>t, <2>1 DEF WaitingOnOneApproval, ActiveApproval
  <2>4. \/ apprStatus'[c] = "APPROVED" /\ runStatus' = "WAITING_APPROVAL"
        \/ apprStatus'[c] = "REJECTED" /\ runStatus' = "STOPPED"
    BY <1>t, <2>1 DEF TypeOK, ApprovalTypeOK
  <2> QED
    BY <2>1, <2>2, <2>3, <2>4 DEF WaitingOnOneApproval, ActiveApproval, TerminalRun
<1>8. ASSUME NEW S \in SUBSET Calls, Expire(S), UNCHANGED <<callVars, budgetVars>>
      PROVE  WaitingOnOneApproval'
  <2>1. "EXPIRED" \notin ActiveApproval /\ "STOPPED" \in TerminalRun
    BY DEF ActiveApproval, TerminalRun
  <2>2. callStatus' = callStatus
    BY <1>8 DEF callVars
  <2> QED
    BY <1>8, <1>t, <2>1, <2>2, ExpiryMoves DEF WaitingOnOneApproval
<1> QED
  BY <1>t, <1>1, <1>2, <1>3, <1>4, <1>5, <1>6, <1>7, <1>8, RowWrites

\* record_budget_delta counts the calls of the ledger.
LEMMA ChargeCounts ==
    ASSUME TypeOK, NEW c \in Calls, usedToolCalls = Cardinality(ledger), RecordToolCall(c)
    PROVE  usedToolCalls' = Cardinality(ledger)' /\ ledger' = ledger \cup {c}
<1>1. IsFiniteSet(ledger)
  BY StoreAssumption, FS_Subset DEF TypeOK, StoreTypeOK
<1>2. CASE c \in ledger
  BY <1>2 DEF RecordToolCall, budgetVars
<1>3. CASE c \notin ledger
  <2>1. usedToolCalls' = usedToolCalls + 1 /\ ledger' = ledger \cup {c}
    BY <1>3 DEF RecordToolCall
  <2> QED
    BY <1>1, <1>3, <2>1, FS_AddElement
<1> QED
  BY <1>2, <1>3

\* The ledger has the calls that were allowed, and no others.
LEMMA ChargedKept ==
    ASSUME LedgerInv, [Next]_vars
    PROVE  ChargedOnce'
<1> DEFINE Paid == {"NONE", "CLAIMED", "CONSUMED"}
           Owes(c) == callStatus[c] # "NONE" /\ apprStatus[c] \in Paid
           Owed(c) == callStatus[c] # "NONE" /\ apprStatus[c] \in Paid \cup {"INVALIDATED"}
<1>t. /\ TypeOK /\ usedToolCalls = Cardinality(ledger) /\ ledger \subseteq Calls
      /\ \A c \in Calls : (Owes(c) => c \in ledger) /\ (c \in ledger => Owed(c))
      /\ ApprovalsHaveRows /\ WaitingOnOneApproval
  BY DEF LedgerInv, AuthorisedInv, OnceInv, RowInv, ChargedOnce, Allowed, TypeOK, StoreTypeOK
<1>a. ASSUME usedToolCalls' = Cardinality(ledger)', ledger' \subseteq Calls,
             \A c \in Calls : (Owes(c)' => c \in ledger') /\ (c \in ledger' => Owed(c)')
      PROVE  ChargedOnce'
  BY <1>a DEF ChargedOnce, Allowed
<1>1. CASE UNCHANGED <<runStatus, callVars, budgetVars, apprStatus>>
  BY <1>1, <1>t, <1>a DEF callVars, budgetVars
<1>2. ASSUME NEW w \in Workers, OpenApproval(w) PROVE ChargedOnce'
  <2> DEFINE c == req[w].call
  <2>1. c \in Calls
    BY <1>2, <1>t DEF OpenApproval, TypeOK, GateTypeOK, Request
  <2>2. /\ apprStatus' = [apprStatus EXCEPT ![c] = "PENDING"] /\ callStatus[c] = "NONE"
        /\ callStatus' = [callStatus EXCEPT ![c] = "PREPARED"] /\ UNCHANGED budgetVars
    BY <1>2 DEF OpenApproval, CreateApproval, CreateInvocation
  <2> HIDE DEF c
  <2>3. \A d \in Calls : (Owes(d)' <=> Owes(d)) /\ (Owed(d)' <=> Owed(d))
    BY <1>t, <2>1, <2>2 DEF TypeOK, ApprovalTypeOK, StoreTypeOK
  <2> QED
    BY <1>t, <1>a, <2>2, <2>3 DEF budgetVars
<1>3. ASSUME NEW w \in Workers, ClaimAndAllow(w) PROVE ChargedOnce'
  <2> DEFINE c == req[w].call
  <2>1. c \in Calls
    BY <1>3, <1>t DEF ClaimAndAllow, TypeOK, GateTypeOK, Request
  <2>2. /\ apprStatus' = [apprStatus EXCEPT ![c] = "CLAIMED"] /\ callStatus[c] # "NONE"
        /\ callStatus' = callStatus /\ RecordToolCall(c)
    BY <1>3 DEF ClaimAndAllow, Claim, callVars
  <2> HIDE DEF c
  <2>3. \A d \in Calls : (Owes(d)' <=> Owes(d) \/ d = c) /\ (Owed(d)' <=> Owed(d) \/ d = c)
    BY <1>t, <2>1, <2>2 DEF TypeOK, ApprovalTypeOK
  <2> QED
    BY <1>t, <1>a, <2>1, <2>2, <2>3, ChargeCounts
<1>4. ASSUME NEW w \in Workers, PrepareAndAllow(w) PROVE ChargedOnce'
  <2> DEFINE c == req[w].call
  <2>1. c \in Calls
    BY <1>4, <1>t DEF PrepareAndAllow, TypeOK, GateTypeOK, Request
  <2>2. /\ callStatus' = [callStatus EXCEPT ![c] = "PREPARED"] /\ callStatus[c] = "NONE"
        /\ apprStatus' = apprStatus /\ RecordToolCall(c)
    BY <1>4 DEF PrepareAndAllow, CreateInvocation, apprVars
  <2> HIDE DEF c
  <2>3. apprStatus[c] = "NONE"
    BY <1>t, <2>1, <2>2 DEF ApprovalsHaveRows
  <2>4. \A d \in Calls : (Owes(d)' <=> Owes(d) \/ d = c) /\ (Owed(d)' <=> Owed(d) \/ d = c)
    BY <1>t, <2>1, <2>2, <2>3 DEF TypeOK, StoreTypeOK
  <2> QED
    BY <1>t, <1>a, <2>1, <2>2, <2>4, ChargeCounts
<1>5. ASSUME NEW w \in Workers, MarkStarted(w) \/ PersistResult(w) PROVE ChargedOnce'
  <2> DEFINE c == req[w].call
  <2>1. c \in Calls
    BY <1>5, <1>t DEF MarkStarted, PersistResult, TypeOK, GateTypeOK, Request
  <2>2. /\ UNCHANGED budgetVars /\ callStatus[c] # "NONE"
        /\ \E to \in InvocationStatus : callStatus' = [callStatus EXCEPT ![c] = to]
    BY <1>5 DEF MarkStarted, PersistResult, TransitionInvocation, InvocationStatus
  <2>3. \A d \in Calls : callStatus'[d] # "NONE" <=> callStatus[d] # "NONE"
    <3>1. "NONE" \notin InvocationStatus
      BY DEF InvocationStatus, TerminalInvocation, DeterministicResult
    <3> HIDE DEF c
    <3> QED
      BY <1>t, <2>1, <2>2, <3>1 DEF TypeOK, StoreTypeOK
  <2>4. \A d \in Calls : \/ apprStatus'[d] = apprStatus[d]
                         \/ apprStatus[d] = "CLAIMED" /\ apprStatus'[d] = "CONSUMED"
    BY <1>5, <1>t DEF MarkStarted, PersistResult, Consume, apprVars, TypeOK, ApprovalTypeOK
  <2>5. \A d \in Calls : (Owes(d)' <=> Owes(d)) /\ (Owed(d)' <=> Owed(d))
    BY <2>3, <2>4
  <2> QED
    BY <1>t, <1>a, <2>2, <2>5 DEF budgetVars
<1>6. ASSUME NEW w \in Workers, NEW to \in RunStatus, MoveRun(w, to) PROVE ChargedOnce'
  BY <1>6, <1>t, <1>a DEF MoveRun, callVars, budgetVars, apprVars
<1>7. ASSUME NEW c \in Calls, Decide(c) PROVE ChargedOnce'
  <2>1. /\ apprStatus[c] = "PENDING" /\ UNCHANGED <<callStatus, budgetVars>>
        /\ \E to \in {"APPROVED", "REJECTED"} : apprStatus' = [apprStatus EXCEPT ![c] = to]
    BY <1>7 DEF Decide, ApproveCall, RejectCall, MayDecide, Materialized, callVars
  <2>2. \A d \in Calls : (Owes(d)' <=> Owes(d)) /\ (Owed(d)' <=> Owed(d))
    BY <1>t, <2>1 DEF TypeOK, ApprovalTypeOK
  <2> QED
    BY <1>t, <1>a, <2>1, <2>2 DEF budgetVars
<1>8. ASSUME NEW S \in SUBSET Calls, Expire(S), UNCHANGED <<callVars, budgetVars>>
      PROVE  ChargedOnce'
  <2>1. \A d \in Calls : (Owes(d)' <=> Owes(d)) /\ (Owed(d)' <=> Owed(d))
    BY <1>8, <1>t, ExpiryMoves DEF callVars, ActiveApproval
  <2> QED
    BY <1>8, <1>t, <1>a, <2>1 DEF budgetVars
<1> QED
  BY <1>t, <1>1, <1>2, <1>3, <1>4, <1>5, <1>6, <1>7, <1>8, RowWrites

\* The approval follows its call.
LEMMA TrackingKept ==
    ASSUME LedgerInv, [Next]_vars
    PROVE  ApprovalTracksCall'
<1> DEFINE Tracks(c) == apprStatus[c] # "NONE" =>
              /\ callStatus[c] \in DeterministicResult <=> apprStatus[c] = "CONSUMED"
              /\ callStatus[c] \in {"STARTED", "UNKNOWN_RESULT"} => apprStatus[c] = "CLAIMED"
<1>t. /\ TypeOK /\ WaitingOnOneApproval /\ ApprovalsHaveRows
      /\ \A c \in Calls : Tracks(c)
      /\ \A c \in Calls : apprStatus[c] \in ActiveApproval => callStatus[c] = "PREPARED"
  BY DEF LedgerInv, AuthorisedInv, OnceInv, RowInv, ApprovalTracksCall, WaitingOnOneApproval
<1> SUFFICES ASSUME NEW c \in Calls PROVE Tracks(c)'
  BY DEF ApprovalTracksCall
<1>p. "PREPARED" \notin DeterministicResult \cup {"STARTED", "UNKNOWN_RESULT"}
  BY DEF DeterministicResult
<1>1. CASE UNCHANGED <<runStatus, callVars, budgetVars, apprStatus>>
  BY <1>1, <1>t DEF callVars
<1>2. ASSUME NEW w \in Workers, OpenApproval(w) PROVE Tracks(c)'
  <2> DEFINE d == req[w].call
  <2>1. d \in Calls
    BY <1>2, <1>t DEF OpenApproval, TypeOK, GateTypeOK, Request
  <2>2. /\ apprStatus' = [apprStatus EXCEPT ![d] = "PENDING"]
        /\ callStatus' = [callStatus EXCEPT ![d] = "PREPARED"]
    BY <1>2 DEF OpenApproval, CreateApproval, CreateInvocation
  <2> HIDE DEF d
  <2>3. CASE c = d
    BY <1>t, <1>p, <2>1, <2>2, <2>3 DEF TypeOK, ApprovalTypeOK, StoreTypeOK
  <2>4. CASE c # d
    BY <1>t, <2>2, <2>4 DEF TypeOK, ApprovalTypeOK, StoreTypeOK
  <2> QED
    BY <2>3, <2>4
<1>3. ASSUME NEW w \in Workers, ClaimAndAllow(w) PROVE Tracks(c)'
  <2> DEFINE d == req[w].call
  <2>1. d \in Calls
    BY <1>3, <1>t DEF ClaimAndAllow, TypeOK, GateTypeOK, Request
  <2>2. /\ apprStatus' = [apprStatus EXCEPT ![d] = "CLAIMED"] /\ apprStatus[d] = "APPROVED"
        /\ callStatus' = callStatus
    BY <1>3 DEF ClaimAndAllow, Claim, Materialized, callVars
  <2>3. callStatus[d] = "PREPARED"
    BY <1>t, <2>1, <2>2 DEF ActiveApproval
  <2> HIDE DEF d
  <2> QED
    BY <1>t, <1>p, <2>1, <2>2, <2>3 DEF TypeOK, ApprovalTypeOK
<1>4. ASSUME NEW w \in Workers, PrepareAndAllow(w) PROVE Tracks(c)'
  <2> DEFINE d == req[w].call
  <2>1. /\ callStatus' = [callStatus EXCEPT ![d] = "PREPARED"] /\ callStatus[d] = "NONE"
        /\ apprStatus' = apprStatus
    BY <1>4 DEF PrepareAndAllow, CreateInvocation, apprVars
  <2> HIDE DEF d
  <2>2. CASE c = d
    <3>1. apprStatus[c] = "NONE"
      BY <1>t, <2>1, <2>2 DEF ApprovalsHaveRows
    <3> QED
      BY <2>1, <3>1
  <2>3. CASE c # d
    BY <1>t, <2>1, <2>3 DEF TypeOK, StoreTypeOK
  <2> QED
    BY <2>2, <2>3
<1>5. ASSUME NEW w \in Workers, MarkStarted(w) PROVE Tracks(c)'
  <2> DEFINE d == req[w].call
  <2>1. /\ callStatus' = [callStatus EXCEPT ![d] = "STARTED"] /\ apprStatus' = apprStatus
    BY <1>5 DEF MarkStarted, TransitionInvocation, apprVars
  <2>2. apprStatus[d] \in {"NONE", "CLAIMED"} /\ d \in Calls
    BY <1>5, StarterRow
  <2> HIDE DEF d
  <2> QED
    BY <1>t, <2>1, <2>2 DEF TypeOK, StoreTypeOK, DeterministicResult
<1>6. ASSUME NEW w \in Workers, PersistResult(w) PROVE Tracks(c)'
  <2> DEFINE d == req[w].call
             r == result[w]
  <2>1. /\ callStatus' = [callStatus EXCEPT ![d] = r] /\ callStatus[d] = "STARTED"
        /\ r \in TerminalInvocation
        /\ pc[w] = "persist" /\ Current(w)
    BY <1>6 DEF PersistResult, TransitionInvocation, Holds, VerifyLease, Current
  <2>2. d \in Calls
    BY <1>6, <1>t DEF PersistResult, TypeOK, GateTypeOK, Request
  <2>3. ~req[w].approved => apprStatus[d] = "NONE"
    BY <2>1 DEF LedgerInv, CallerInv, SnapshotKept
  <2>4. \/ r \in DeterministicResult /\ apprStatus' = [apprStatus EXCEPT ![d] = "CONSUMED"]
        \/ (apprStatus[d] = "NONE" \/ r = "UNKNOWN_RESULT") /\ apprStatus' = apprStatus
    BY <1>6, <2>3 DEF PersistResult, Consume, apprVars
  <2> HIDE DEF d, r
  <2>5. CASE c # d
    BY <1>t, <2>1, <2>4, <2>5 DEF TypeOK, StoreTypeOK, ApprovalTypeOK
  <2>6. CASE c = d
    <3>1. callStatus'[c] = r /\ (apprStatus[c] # "NONE" => apprStatus[c] = "CLAIMED")
      BY <1>t, <2>1, <2>2, <2>6 DEF TypeOK, StoreTypeOK
    <3>2. \/ r \in DeterministicResult /\ apprStatus'[c] = "CONSUMED"
          \/ (apprStatus[c] = "NONE" \/ r = "UNKNOWN_RESULT") /\ apprStatus'[c] = apprStatus[c]
      BY <1>t, <2>2, <2>4, <2>6 DEF TypeOK, ApprovalTypeOK
    <3> QED
      BY <3>1, <3>2 DEF DeterministicResult
  <2> QED
    BY <2>5, <2>6
<1>7. ASSUME NEW w \in Workers, NEW to \in RunStatus, MoveRun(w, to) PROVE Tracks(c)'
  BY <1>7, <1>t DEF MoveRun, callVars, apprVars
<1>8. ASSUME NEW d \in Calls, Decide(d) PROVE Tracks(c)'
  <2>1. /\ apprStatus[d] = "PENDING" /\ callStatus' = callStatus
        /\ \E to \in {"APPROVED", "REJECTED"} : apprStatus' = [apprStatus EXCEPT ![d] = to]
    BY <1>8 DEF Decide, ApproveCall, RejectCall, MayDecide, Materialized, callVars
  <2>2. callStatus[d] = "PREPARED"
    BY <1>t, <2>1 DEF ActiveApproval
  <2> QED
    BY <1>t, <1>p, <2>1, <2>2 DEF TypeOK, ApprovalTypeOK
<1>9. ASSUME NEW S \in SUBSET Calls, Expire(S), UNCHANGED <<callVars, budgetVars>>
      PROVE  Tracks(c)'
  BY <1>9, <1>t, <1>p, ExpiryMoves DEF callVars
<1> HIDE DEF Tracks
<1> QED
  BY <1>t, <1>1, <1>2, <1>3, <1>4, <1>5, <1>6, <1>7, <1>8, <1>9, RowWrites

-------------------------------------------------------------------------------
(* The callers *)

\* The steps that a call under way takes itself.
Moves(v) ==
    \/ \E c \in Calls, i \in Intents : Invoke(v, c, i)
    \/ \E c \in Calls : ReenterPrepared(v, c)
    \/ CheckAgain(v) \/ WaitForApproval(v) \/ ClaimAndAllow(v) \/ PrepareAndAllow(v)
    \/ RecoveryAllow(v) \/ ResumeClaimed(v) \/ MarkStarted(v) \/ Execute(v)

\* What a call that does not move is left with: its request, and, if its worker has
\* the lease, the attempts, the approvals and the running run as they were.
Rests(v) ==
    /\ pc'[v] = pc[v] /\ req'[v] = req[v]
    /\ Current(v)' =>
          /\ Current(v)
          /\ \A i \in Intents : Attempts(i)' = Attempts(i)
          /\ \A c \in Calls : apprStatus[c] = "NONE" <=> apprStatus'[c] = "NONE"
          /\ runStatus = "RUNNING" => runStatus' = "RUNNING"

\* Every step moves a call or lets it rest.
LEMMA MovesOrRests ==
    ASSUME OnceInv, [Next]_vars, NEW v \in Workers, pc'[v] # "idle"
    PROVE  Moves(v) \/ Rests(v)
<1>t. TypeOK
  BY DEF OnceInv
<1>1. ASSUME NEW w \in Workers, Enter(w) \/ CallStep(w), w = v
      PROVE  Moves(v)
  <2>1. ~(OpenApproval(v) \/ ClaimTooLate(v) \/ PersistResult(v) \/ UnitFails(v))
    BY <1>t DEF OpenApproval, ClaimTooLate, PersistResult, UnitFails, Return, TypeOK, GateTypeOK
  <2> QED
    BY <1>1, <2>1 DEF Enter, CallStep, Moves
<1>2. ASSUME NEW w \in Workers, Enter(w) \/ CallStep(w), w # v
      PROVE  Rests(v)
  <2>1. /\ pc' = [pc EXCEPT ![w] = pc'[w]] /\ req'[v] = req[v] /\ UNCHANGED <<token, leaseToken>>
    BY <1>2, <1>t DEF Enter, CallStep, Invoke, ReenterPrepared, CheckAgain, OpenApproval,
          WaitForApproval, ClaimAndAllow, ClaimTooLate, PrepareAndAllow, RecoveryAllow,
          ResumeClaimed, MarkStarted, Execute, PersistResult, UnitFails, Goto, Return,
          storeVars, leaseVars, TypeOK, GateTypeOK
  <2>2. pc'[v] = pc[v]
    BY <1>2, <2>1, <1>t DEF TypeOK, GateTypeOK
  <2>3. Current(v)' => Current(v)
    BY <2>1 DEF Current
  <2>4. Current(v) => ~Holds(w)
    BY <1>2, OneHolder
  <2>5. Holds(w) \/ Execute(w) \/ UnitFails(w)
    BY <1>2 DEF Enter, CallStep, Invoke, ReenterPrepared, CheckAgain, OpenApproval,
          WaitForApproval, ClaimAndAllow, ClaimTooLate, PrepareAndAllow, RecoveryAllow,
          ResumeClaimed, MarkStarted, PersistResult
  <2>6. Execute(w) \/ UnitFails(w) => UNCHANGED <<callStatus, callIntent, apprStatus, runStatus>>
    BY DEF Execute, UnitFails, storeVars, callVars, apprVars
  <2> QED
    BY <2>1, <2>2, <2>3, <2>4, <2>5, <2>6 DEF Rests, Attempts
<1>3. ASSUME NEW c \in Calls, Decide(c) \/ DecideTooLate(c)
      PROVE  Rests(v)
  <2>1. UNCHANGED <<callStatus, callIntent, leaseToken, token, pc, req>>
    BY <1>3 DEF Decide, DecideTooLate, callVars, leaseVars, gateVars, workerVars
  <2>2. CASE Decide(c)
    <3>1. /\ runStatus = "WAITING_APPROVAL" /\ apprStatus[c] = "PENDING"
          /\ \E to \in {"APPROVED", "REJECTED"} : apprStatus' = [apprStatus EXCEPT ![c] = to]
      BY <2>2 DEF Decide, ApproveCall, RejectCall, MayDecide, Materialized
    <3>2. \A d \in Calls : apprStatus[d] = "NONE" <=> apprStatus'[d] = "NONE"
      BY <3>1, <1>t DEF TypeOK, ApprovalTypeOK
    <3> QED
      BY <2>1, <3>1, <3>2 DEF Rests, Attempts, Current
  <2>3. CASE DecideTooLate(c)
    <3>1. Expire({c}) /\ {c} \in SUBSET Calls
      BY <2>3 DEF DecideTooLate
    <3>2. /\ \A d \in Calls : apprStatus[d] = "NONE" <=> apprStatus'[d] = "NONE"
          /\ runStatus = "RUNNING" => runStatus' = "RUNNING"
      BY <3>1, <1>t, ExpiryMoves DEF ActiveApproval
    <3> QED
      BY <2>1, <3>2 DEF Rests, Attempts, Current
  <2> QED
    BY <1>3, <2>2, <2>3
<1>4. ASSUME NEW w \in Workers, ExpireDue(w) \/ \E to \in RunStatus : MoveRun(w, to)
      PROVE  Rests(v)
  <2>1. pc[w] = "idle" /\ Holds(w) /\ UNCHANGED <<leaseToken, token, pc, req>>
    BY <1>4 DEF ExpireDue, MoveRun, leaseVars, gateVars, workerVars
  <2>2. ~Current(v)
    BY <2>1, OneHolder
  <2> QED
    BY <2>1, <2>2 DEF Rests, Current
<1>5. ASSUME NEW w \in Workers, TakeLease(w) \/ DropLease(w)
      PROVE  Rests(v)
  <2>1. pc[w] = "idle" /\ UNCHANGED <<pc, req>> /\ w # v
    BY <1>5 DEF TakeLease, DropLease
  <2>2. token'[v] = token[v]
    BY <1>5, <2>1, <1>t DEF TakeLease, DropLease, TypeOK, GateTypeOK
  <2>3. leaseToken' = 0 \/ leaseToken' = leasesIssued + 1
    BY <1>5 DEF TakeLease, DropLease, AcquireLease, ReleaseLease
  <2>4. token[v] <= leasesIssued /\ token[v] \in Nat /\ leasesIssued \in Nat
    BY <1>t, StoreAssumption DEF OnceInv, TokensAreFresh, TypeOK, GateTypeOK, StoreTypeOK, Tokens
  <2>5. ~Current(v)'
    BY <2>2, <2>3, <2>4 DEF Current
  <2> QED
    BY <2>1, <2>5 DEF Rests
<1>6. ASSUME NEW w \in Workers, Crash(w)
      PROVE  Rests(v)
  <2>1. w # v
    BY <1>6, <1>t DEF Crash, TypeOK, GateTypeOK
  <2>2. /\ pc'[v] = pc[v] /\ req'[v] = req[v] /\ token'[v] = token[v]
        /\ UNCHANGED <<leaseToken, callStatus, callIntent, apprStatus, runStatus>>
    BY <1>6, <2>1, <1>t DEF Crash, TypeOK, GateTypeOK, storeVars, callVars, leaseVars, apprVars
  <2> QED
    BY <2>2 DEF Rests, Current, Attempts
<1>7. ASSUME ClockPasses \/ UNCHANGED vars
      PROVE  Rests(v)
  BY <1>7 DEF ClockPasses, LeaseExpires, ApprovalFallsDue, vars, Rests, Current, Attempts,
              storeVars, callVars, leaseVars, apprVars, gateVars, workerVars
<1> QED
  BY <1>1, <1>2, <1>3, <1>4, <1>5, <1>6, <1>7 DEF Next, Surroundings

\* A call that begins to run its handler is marked STARTED in that step.
LEMMA RunnersStart ==
    ASSUME OnceInv, [Next]_vars, NEW v \in Workers, pc'[v] = "exec"
    PROVE  /\ req'[v] = req[v]
           /\ pc[v] = "exec" \/ (MarkStarted(v) /\ pc' = [pc EXCEPT ![v] = "exec"])
<1>t. TypeOK
  BY DEF OnceInv
<1>1. CASE Rests(v)
  BY <1>1 DEF Rests
<1>2. CASE Moves(v)
  <2>1. ASSUME \/ \E c \in Calls, i \in Intents : Invoke(v, c, i)
               \/ \E c \in Calls : ReenterPrepared(v, c)
               \/ CheckAgain(v)
        PROVE  FALSE
    <3>1. PICK step \in UnitSteps : pc' = [pc EXCEPT ![v] = step]
      BY <2>1 DEF Invoke, ReenterPrepared, CheckAgain, Goto
    <3> QED
      BY <3>1, <1>t DEF TypeOK, GateTypeOK, UnitSteps
  <2>2. ASSUME \/ WaitForApproval(v) \/ ClaimAndAllow(v) \/ PrepareAndAllow(v)
               \/ RecoveryAllow(v) \/ ResumeClaimed(v) \/ Execute(v)
        PROVE  FALSE
    BY <2>2, <1>t DEF WaitForApproval, ClaimAndAllow, PrepareAndAllow, RecoveryAllow,
          ResumeClaimed, Execute, Goto, Return, TypeOK, GateTypeOK
  <2> QED
    BY <1>2, <2>1, <2>2 DEF Moves, MarkStarted, Goto
<1> QED
  BY <1>1, <1>2, MovesOrRests

\* Two calls never run the handler of the same row.
LEMMA ApartKept ==
    ASSUME LedgerInv, [Next]_vars
    PROVE  RunnersAreApart'
<1>o. OnceInv
  BY DEF LedgerInv, AuthorisedInv
<1> SUFFICES ASSUME NEW u \in Workers, NEW v \in Workers, pc'[u] = "exec", pc'[v] = "exec",
                    req'[u].call = req'[v].call, u # v
             PROVE  FALSE
  BY DEF RunnersAreApart
<1>1. /\ pc[u] = "exec" \/ (MarkStarted(u) /\ pc' = [pc EXCEPT ![u] = "exec"])
      /\ pc[v] = "exec" \/ (MarkStarted(v) /\ pc' = [pc EXCEPT ![v] = "exec"])
      /\ req[u].call = req[v].call
  BY <1>o, RunnersStart
<1>2. ASSUME NEW x \in Workers, NEW y \in Workers, MarkStarted(x), pc[y] = "exec",
             req[x].call = req[y].call
      PROVE  FALSE
  BY <1>2, <1>o, StarterRow DEF OnceInv, RunningIsRecorded, Attempts
<1>3. ~(MarkStarted(u) /\ pc' = [pc EXCEPT ![u] = "exec"] /\ pc[v] # "exec")
  BY <1>o DEF OnceInv, TypeOK, GateTypeOK
<1>4. ~(MarkStarted(v) /\ pc' = [pc EXCEPT ![v] = "exec"] /\ pc[u] # "exec")
  BY <1>o DEF OnceInv, TypeOK, GateTypeOK
<1>5. pc[u] = "exec" /\ pc[v] = "exec"
  BY <1>1, <1>2, <1>3, <1>4
<1> QED
  BY <1>1, <1>5 DEF LedgerInv, CallerInv, RunnersAreApart

\* A call that moves has just read its snapshot, or keeps its request and leaves every
\* approval there or not there as it was.
LEMMA RequestsKept ==
    ASSUME OnceInv, NEW v \in Workers, Moves(v), pc'[v] # "idle"
    PROVE  /\ Current(v)' <=> Current(v)
           /\ \/ /\ \/ \E c \in Calls, i \in Intents : Invoke(v, c, i)
                    \/ \E c \in Calls : ReenterPrepared(v, c)
                 /\ req'[v].approved <=> apprStatus[req'[v].call] # "NONE"
                 /\ apprStatus' = apprStatus
              \/ /\ pc[v] # "idle" /\ req'[v] = req[v]
                 /\ \A c \in Calls : apprStatus[c] = "NONE" <=> apprStatus'[c] = "NONE"
<1>t. TypeOK
  BY DEF OnceInv
<1>1. UNCHANGED <<token, leaseToken>>
  BY DEF Moves, Invoke, ReenterPrepared, CheckAgain, WaitForApproval, ClaimAndAllow,
         PrepareAndAllow, RecoveryAllow, ResumeClaimed, MarkStarted, Execute, Return,
         storeVars, leaseVars
<1>2. ASSUME NEW c \in Calls, NEW i \in Intents, Invoke(v, c, i)
      PROVE  (req'[v].approved <=> apprStatus[req'[v].call] # "NONE") /\ apprStatus' = apprStatus
  BY <1>2, <1>t DEF Invoke, TypeOK, GateTypeOK, apprVars
<1>3. ASSUME NEW c \in Calls, ReenterPrepared(v, c)
      PROVE  (req'[v].approved <=> apprStatus[req'[v].call] # "NONE") /\ apprStatus' = apprStatus
  BY <1>3, <1>t DEF ReenterPrepared, TypeOK, GateTypeOK, apprVars
<1>4. ASSUME \/ CheckAgain(v) \/ PrepareAndAllow(v) \/ RecoveryAllow(v) \/ ResumeClaimed(v)
             \/ MarkStarted(v) \/ Execute(v)
      PROVE  pc[v] # "idle" /\ req'[v] = req[v] /\ apprStatus' = apprStatus
  BY <1>4 DEF CheckAgain, PrepareAndAllow, RecoveryAllow, ResumeClaimed, ResumeClaim,
              MarkStarted, Execute, apprVars
<1>5. ASSUME ClaimAndAllow(v)
      PROVE  /\ pc[v] # "idle" /\ req'[v] = req[v]
             /\ \A c \in Calls : apprStatus[c] = "NONE" <=> apprStatus'[c] = "NONE"
  <2>1. /\ pc[v] # "idle" /\ req' = req /\ apprStatus[req[v].call] = "APPROVED"
        /\ apprStatus' = [apprStatus EXCEPT ![req[v].call] = "CLAIMED"]
    BY <1>5 DEF ClaimAndAllow, Claim, Materialized
  <2> QED
    BY <2>1, <1>t DEF TypeOK, ApprovalTypeOK
<1>6. ASSUME WaitForApproval(v)
      PROVE  /\ pc[v] # "idle" /\ req'[v] = req[v]
             /\ \A c \in Calls : apprStatus[c] = "NONE" <=> apprStatus'[c] = "NONE"
  <2>1. /\ pc[v] # "idle" /\ req'[v] = req[v] /\ Expire({req[v].call})
        /\ {req[v].call} \in SUBSET Calls
    BY <1>6, <1>t DEF WaitForApproval, Return, TypeOK, GateTypeOK, Request
  <2> QED
    BY <2>1, <1>t, ExpiryMoves DEF ActiveApproval
<1> QED
  BY <1>1, <1>2, <1>3, <1>4, <1>5, <1>6 DEF Moves, Current

\* The snapshot stays true of the approval while the worker has the lease.
LEMMA SnapshotsKept ==
    ASSUME LedgerInv, [Next]_vars
    PROVE  SnapshotKept'
<1>o. OnceInv /\ SnapshotKept
  BY DEF LedgerInv, AuthorisedInv, CallerInv
<1> SUFFICES ASSUME NEW v \in Workers, pc'[v] # "idle"
             PROVE  /\ req'[v].approved => apprStatus'[req'[v].call] # "NONE"
                    /\ Current(v)' /\ ~req'[v].approved => apprStatus'[req'[v].call] = "NONE"
  BY DEF SnapshotKept
<1>c. pc[v] # "idle" => req[v].call \in Calls
  BY <1>o DEF OnceInv, TypeOK, GateTypeOK, Request
<1>1. CASE Rests(v)
  <2>1. pc[v] # "idle" /\ req'[v] = req[v]
    BY <1>1 DEF Rests
  <2>2. req[v].approved => apprStatus'[req[v].call] # "NONE"
    BY <1>o, <1>c, <2>1, ApprovalsGoForward DEF SnapshotKept, OnceInv
  <2>3. Current(v)' /\ ~req[v].approved => apprStatus'[req[v].call] = "NONE"
    BY <1>o, <1>c, <1>1, <2>1 DEF SnapshotKept, Rests
  <2> QED
    BY <2>1, <2>2, <2>3
<1>2. CASE Moves(v)
  BY <1>o, <1>c, <1>2, RequestsKept DEF SnapshotKept
<1> QED
  BY <1>1, <1>2, <1>o, MovesOrRests

\* A call that comes to its start with an approval comes there in a running run.
LEMMA StartersRun ==
    ASSUME LedgerInv, [Next]_vars
    PROVE  ClaimedInRunningRun'
<1>o. OnceInv /\ AuthorisedInv /\ ClaimedInRunningRun
  BY DEF LedgerInv, AuthorisedInv, CallerInv
<1>t. TypeOK
  BY <1>o DEF OnceInv
<1> SUFFICES ASSUME NEW v \in Workers, Current(v)', pc'[v] = "start",
                    apprStatus'[req'[v].call] # "NONE"
             PROVE  runStatus' = "RUNNING"
  BY DEF ClaimedInRunningRun
<1>c. pc[v] # "idle" => req[v].call \in Calls /\ req[v].intent \in Intents
  BY <1>t DEF TypeOK, GateTypeOK, Request
<1>1. CASE Rests(v)
  BY <1>o, <1>c, <1>1 DEF Rests, ClaimedInRunningRun
<1>2. CASE Moves(v)
  <2>1. ASSUME \/ \E c \in Calls, i \in Intents : Invoke(v, c, i)
               \/ \E c \in Calls : ReenterPrepared(v, c)
               \/ CheckAgain(v)
        PROVE  FALSE
    <3>1. PICK step \in UnitSteps \ {"start"} : pc' = [pc EXCEPT ![v] = step]
      BY <2>1 DEF Invoke, ReenterPrepared, CheckAgain, Goto, Routed, Recovers
    <3> QED
      BY <3>1, <1>t DEF TypeOK, GateTypeOK
  <2>2. ASSUME WaitForApproval(v) \/ MarkStarted(v) \/ Execute(v)
        PROVE  FALSE
    BY <2>2, <1>t DEF WaitForApproval, MarkStarted, Execute, Goto, Return, TypeOK, GateTypeOK
  <2>3. ASSUME ClaimAndAllow(v) \/ ResumeClaimed(v)
        PROVE  runStatus' = "RUNNING"
    BY <2>3 DEF ClaimAndAllow, ResumeClaimed, ResumeClaim, TransitionRun, storeVars
  <2>4. ASSUME PrepareAndAllow(v) \/ RecoveryAllow(v)
        PROVE  FALSE
    <3>1. /\ pc[v] \in {"prepare", "recover"} /\ Current(v) /\ req' = req
          /\ apprStatus' = apprStatus
      BY <2>4 DEF PrepareAndAllow, RecoveryAllow, Holds, VerifyLease, Current, apprVars
    <3>2. ~NeedsApproval[req[v].intent]
      BY <1>o, <3>1 DEF AuthorisedInv, RoutesAreAuthorised
    <3>3. callStatus[req[v].call] # "NONE"
      BY <1>o, <1>c, <3>1 DEF AuthorisedInv, ApprovalsHaveRows
    <3>4. callIntent[req[v].call] = req[v].intent
      BY <1>o, <3>1, <3>3 DEF OnceInv, AllowedIsUntried, AllowedSteps
    <3> QED
      BY <1>o, <1>c, <3>1, <3>2, <3>3, <3>4 DEF AuthorisedInv, IntentsAreAuthorised
  <2> QED
    BY <1>2, <2>1, <2>2, <2>3, <2>4 DEF Moves
<1> QED
  BY <1>1, <1>2, <1>o, MovesOrRests

\* What the snapshot counted is what there is as long as the worker has the lease.
LEMMA LimitKept ==
    ASSUME LedgerInv, [Next]_vars
    PROVE  AllowedIsWithinLimit'
<1>o. OnceInv /\ AllowedIsWithinLimit
  BY DEF LedgerInv, AuthorisedInv, CallerInv
<1>t. TypeOK
  BY <1>o DEF OnceInv
<1> SUFFICES ASSUME NEW v \in Workers, Current(v)', pc'[v] \in AllowedSteps
             PROVE  Cardinality(Attempts(req[v].intent)') < ReadLimit
  BY DEF AllowedIsWithinLimit
<1>c. pc[v] # "idle" => req[v].call \in Calls /\ req[v].intent \in Intents
  BY <1>t DEF TypeOK, GateTypeOK, Request
<1>i. pc'[v] # "idle" /\ "idle" \notin AllowedSteps
  BY DEF AllowedSteps
<1>1. CASE Rests(v)
  <2>1. /\ pc[v] \in AllowedSteps /\ Current(v) /\ req'[v] = req[v] /\ req[v].intent \in Intents
        /\ \A i \in Intents : Attempts(i)' = Attempts(i)
    BY <1>1, <1>c, <1>i DEF Rests
  <2>2. Cardinality(Attempts(req[v].intent)) < ReadLimit
    BY <1>o, <2>1 DEF AllowedIsWithinLimit
  <2>3. Attempts(req[v].intent)' = Attempts(req[v].intent)
    BY <2>1 DEF Attempts
  <2> QED
    BY <2>2, <2>3
<1>2. CASE Moves(v)
  <2>1. ASSUME NEW i \in Intents, NEW step \in UnitSteps, MayRepeat(i) \/ step \notin AllowedSteps,
               pc' = [pc EXCEPT ![v] = step], req'[v].intent = i,
               UNCHANGED callVars
        PROVE  Cardinality(Attempts(req[v].intent)') < ReadLimit
    <3>1. pc'[v] = step
      BY <2>1, <1>t DEF TypeOK, GateTypeOK
    <3>2. Attempts(req[v].intent)' = Attempts(i)
      BY <2>1 DEF Attempts, callVars
    <3> QED
      BY <2>1, <3>1, <3>2 DEF MayRepeat
  <2>2. ASSUME NEW c \in Calls, NEW i \in Intents, Invoke(v, c, i)
        PROVE  Cardinality(Attempts(req[v].intent)') < ReadLimit
    <3>1. PICK step \in UnitSteps : Routed(c, i, step) /\ pc' = [pc EXCEPT ![v] = step]
      BY <2>2 DEF Invoke, Goto
    <3>2. MayRepeat(i) \/ step \notin AllowedSteps
      BY <3>1 DEF Routed, AllowedSteps
    <3>3. req'[v].intent = i /\ UNCHANGED callVars
      BY <2>2, <1>t DEF Invoke, TypeOK, GateTypeOK, storeVars
    <3> QED
      BY <2>1, <3>1, <3>2, <3>3
  <2>3. ASSUME NEW c \in Calls, ReenterPrepared(v, c)
        PROVE  Cardinality(Attempts(req[v].intent)') < ReadLimit
    <3>1. PICK step \in UnitSteps : Recovers(c, step) /\ pc' = [pc EXCEPT ![v] = step]
      BY <2>3 DEF ReenterPrepared, Goto
    <3>2. MayRepeat(callIntent[c]) /\ callIntent[c] \in Intents
      BY <3>1, <1>o DEF Recovers, OnceInv, RowsHaveIntents
    <3>3. req'[v].intent = callIntent[c] /\ UNCHANGED callVars
      BY <2>3, <1>t DEF ReenterPrepared, TypeOK, GateTypeOK, storeVars
    <3> QED
      BY <2>1, <3>1, <3>2, <3>3
  <2>4. ASSUME CheckAgain(v)
        PROVE  Cardinality(Attempts(req[v].intent)') < ReadLimit
    <3>1. PICK step \in UnitSteps : /\ Routed(req[v].call, req[v].intent, step)
                                    /\ pc' = [pc EXCEPT ![v] = step]
      BY <2>4 DEF CheckAgain, Goto
    <3>2. MayRepeat(req[v].intent) \/ step \notin AllowedSteps
      BY <3>1 DEF Routed, AllowedSteps
    <3>3. req'[v].intent = req[v].intent /\ req[v].intent \in Intents /\ UNCHANGED callVars
      BY <2>4, <1>c DEF CheckAgain, storeVars
    <3> QED
      BY <2>1, <3>1, <3>2, <3>3
  <2>5. ASSUME \/ ClaimAndAllow(v) \/ PrepareAndAllow(v) \/ RecoveryAllow(v) \/ ResumeClaimed(v)
        PROVE  Cardinality(Attempts(req[v].intent)') < ReadLimit
    <3>1. pc[v] \in AllowedSteps /\ Current(v) /\ req' = req
      BY <2>5 DEF ClaimAndAllow, PrepareAndAllow, RecoveryAllow, ResumeClaimed, AllowedSteps,
                  Holds, VerifyLease, Current
    <3>2. UNCHANGED callVars \/ CreateInvocation(req[v].call, req[v].intent)
      BY <2>5 DEF ClaimAndAllow, PrepareAndAllow, RecoveryAllow, ResumeClaimed, storeVars
    <3>3. Attempts(req[v].intent)' = Attempts(req[v].intent)
      <4>1. CASE UNCHANGED callVars
        BY <4>1, <3>1 DEF Attempts, callVars
      <4>2. CASE CreateInvocation(req[v].call, req[v].intent)
        <5>1. req[v].call \in Calls /\ req[v].intent \in Intents
          BY <1>c, <1>i, <3>1
        <5> QED
          BY <4>2, <3>1, <5>1, <1>t DEF TypeOK, StoreTypeOK, CreateInvocation, Attempts
      <4> QED
        BY <3>2, <4>1, <4>2
    <3> QED
      BY <1>o, <3>1, <3>3 DEF AllowedIsWithinLimit
  <2>6. ASSUME WaitForApproval(v) \/ MarkStarted(v) \/ Execute(v)
        PROVE  FALSE
    BY <2>6, <1>t DEF WaitForApproval, MarkStarted, Execute, Goto, Return, TypeOK, GateTypeOK,
                      AllowedSteps
  <2> QED
    BY <1>2, <2>2, <2>3, <2>4, <2>5, <2>6 DEF Moves
<1> QED
  BY <1>1, <1>2, <1>i, <1>o, MovesOrRests

-------------------------------------------------------------------------------
(* The executions *)

\* Attempts are finite, so they can be counted.
LEMMA AttemptsFinite ==
    ASSUME NEW i
    PROVE  IsFiniteSet(Attempts(i)) /\ Cardinality(Attempts(i)) \in Nat
<1>1. IsFiniteSet(Attempts(i))
  BY StoreAssumption, FS_Subset DEF Attempts
<1> QED
  BY <1>1, FS_CardinalityType

\* The attempts of an intent change only when one of its calls is started.
LEMMA AttemptsGrow ==
    ASSUME LedgerInv, [Next]_vars, NEW i \in Intents
    PROVE  \/ Attempts(i)' = Attempts(i)
           \/ \E w \in Workers : /\ MarkStarted(w) /\ req[w].intent = i
                                 /\ Attempts(i)' = Attempts(i) \cup {req[w].call}
<1>t. TypeOK
  BY DEF LedgerInv, AuthorisedInv, OnceInv
<1>1. ASSUME UNCHANGED callVars
      PROVE  Attempts(i)' = Attempts(i)
  BY <1>1 DEF callVars, Attempts
<1>2. ASSUME NEW w \in Workers, OpenApproval(w) \/ PrepareAndAllow(w)
      PROVE  Attempts(i)' = Attempts(i)
  <2>1. /\ req[w].call \in Calls /\ req[w].intent \in Intents
        /\ CreateInvocation(req[w].call, req[w].intent)
    BY <1>2, <1>t DEF OpenApproval, PrepareAndAllow, TypeOK, GateTypeOK, Request
  <2> QED
    BY <2>1, <1>t, CreatedIsUntried
<1>3. ASSUME NEW w \in Workers, PersistResult(w)
      PROVE  Attempts(i)' = Attempts(i)
  <2>1. req[w].call \in Calls /\ TransitionInvocation(req[w].call, "STARTED", result[w])
    BY <1>3, <1>t DEF PersistResult, TypeOK, GateTypeOK, Request
  <2> QED
    BY <2>1, <1>t, SettledWasTried
<1>4. ASSUME NEW w \in Workers, MarkStarted(w)
      PROVE  \/ Attempts(i)' = Attempts(i)
             \/ req[w].intent = i /\ Attempts(i)' = Attempts(i) \cup {req[w].call}
  <2>1. /\ req[w].call \in Calls /\ callIntent[req[w].call] = req[w].intent
        /\ TransitionInvocation(req[w].call, "PREPARED", "STARTED")
    BY <1>4, StarterRow DEF MarkStarted
  <2>2. Attempts(i)' = Attempts(i) \cup (IF req[w].intent = i THEN {req[w].call} ELSE {})
    BY <2>1, <1>t, StartedIsTried
  <2> QED
    BY <2>2
<1>5. \/ UNCHANGED callVars
      \/ \E w \in Workers : \/ OpenApproval(w) \/ PrepareAndAllow(w)
                            \/ MarkStarted(w) \/ PersistResult(w)
  <2>1. ASSUME NEW w \in Workers, \/ ClaimAndAllow(w) \/ \E to \in RunStatus : MoveRun(w, to)
        PROVE  UNCHANGED callVars
    BY <2>1 DEF ClaimAndAllow, MoveRun
  <2>2. ASSUME NEW c \in Calls, Decide(c)
        PROVE  UNCHANGED callVars
    BY <2>2 DEF Decide
  <2> QED
    BY <1>t, <2>1, <2>2, RowWrites
<1> QED
  BY <1>1, <1>2, <1>3, <1>4, <1>5

\* Only _mark_started takes a call from PREPARED to STARTED.
LEMMA MarkStarts ==
    ASSUME LedgerInv, [Next]_vars, NEW c \in Calls,
           callStatus[c] = "PREPARED", callStatus'[c] = "STARTED"
    PROVE  \E w \in Workers : MarkStarted(w) /\ req[w].call = c
<1>t. TypeOK
  BY DEF LedgerInv, AuthorisedInv, OnceInv
<1>1. callIntent[c] \in Intents /\ c \notin Attempts(callIntent[c])
  BY DEF LedgerInv, AuthorisedInv, OnceInv, RowsHaveIntents, Attempts
<1>2. callIntent'[c] = callIntent[c]
  BY <1>t, CallsGoForward
<1>3. ASSUME NEW i \in Intents, i = callIntent[c]
      PROVE  \E w \in Workers : MarkStarted(w) /\ req[w].call = c
  <2>1. c \notin Attempts(i) /\ c \in Attempts(i)'
    BY <1>2, <1>3 DEF Attempts
  <2> QED
    BY <2>1, AttemptsGrow
<1> QED
  BY <1>1, <1>3

\* No intent is attempted beyond the limit.
LEMMA AttemptsKept ==
    ASSUME LedgerInv, [Next]_vars
    PROVE  AttemptsWithinLimit'
<1> SUFFICES ASSUME NEW i \in Intents
             PROVE  Cardinality(Attempts(i)') <= ReadLimit
  BY DEF AttemptsWithinLimit
<1>1. CASE Attempts(i)' = Attempts(i)
  BY <1>1 DEF LedgerInv, AttemptsWithinLimit
<1>2. ASSUME NEW w \in Workers, MarkStarted(w), req[w].intent = i,
             Attempts(i)' = Attempts(i) \cup {req[w].call}
      PROVE  Cardinality(Attempts(i)') <= ReadLimit
  <2>1. Current(w) /\ pc[w] = "start"
    BY <1>2, StarterRow DEF MarkStarted
  <2>2. Cardinality(Attempts(i)) < ReadLimit
    BY <1>2, <2>1 DEF LedgerInv, CallerInv, AllowedIsWithinLimit, AllowedSteps
  <2>3. /\ IsFiniteSet(Attempts(i)) /\ Cardinality(Attempts(i)) \in Nat
    BY AttemptsFinite
  <2>4. \/ Cardinality(Attempts(i)') = Cardinality(Attempts(i))
        \/ Cardinality(Attempts(i)') = Cardinality(Attempts(i)) + 1
    <3>1. CASE req[w].call \in Attempts(i)
      <4>1. Attempts(i)' = Attempts(i)
        BY <1>2, <3>1
      <4> QED
        BY <4>1
    <3>2. CASE req[w].call \notin Attempts(i)
      BY <1>2, <2>3, <3>2, FS_AddElement
    <3> QED
      BY <3>1, <3>2
  <2> QED
    BY <2>2, <2>3, <2>4, GateAssumption
<1> QED
  BY <1>1, <1>2, AttemptsGrow

\* A call that nobody is about to execute any more stays so.
LEMMA DoneStaysDone ==
    ASSUME LedgerInv, [Next]_vars, NEW i \in Intents
    PROVE  Done(i) \subseteq Done(i)'
<1>o. OnceInv /\ TypeOK
  BY DEF LedgerInv, AuthorisedInv, OnceInv
<1> SUFFICES ASSUME NEW c \in Done(i) PROVE c \in Done(i)'
  OBVIOUS
<1>1. c \in Calls /\ callIntent[c] = i /\ callStatus[c] \notin {"NONE", "PREPARED"}
  BY DEF Done, Attempts
<1>2. c \in Attempts(i)'
  <2>1. callStatus[c] = "STARTED" \/ callStatus[c] \in TerminalInvocation
    BY <1>o, <1>1 DEF TypeOK, StoreTypeOK, InvocationStatus
  <2>2. callStatus'[c] \notin {"NONE", "PREPARED"} /\ callIntent'[c] = i
    BY <1>o, <1>1, <2>1, CallsGoForward
  <2> QED
    BY <1>1, <2>2 DEF Attempts
<1>3. ASSUME NEW w \in Workers, pc'[w] = "exec", req'[w].call = c
      PROVE  FALSE
  <2>1. req[w].call = c /\ (pc[w] = "exec" \/ MarkStarted(w))
    BY <1>o, <1>3, RunnersStart
  <2>2. ~MarkStarted(w)
    BY <1>1, <2>1, StarterRow
  <2> QED
    BY <2>1, <2>2 DEF Done
<1> QED
  BY <1>2, <1>3 DEF Done

\* Every execution is one of the calls that are done with.
LEMMA ExecutionsKept ==
    ASSUME LedgerInv, [Next]_vars
    PROVE  ExecutionsAreDone'
<1>o. OnceInv /\ TypeOK /\ OnceInv'
  BY NextOnce DEF LedgerInv, AuthorisedInv, OnceInv
<1> SUFFICES ASSUME NEW i \in Intents
             PROVE  executions'[i] <= Cardinality(Done(i)')
  BY DEF ExecutionsAreDone
<1>f. IsFiniteSet(Done(i)) /\ IsFiniteSet(Done(i)')
  <2>1. Done(i) \subseteq Calls /\ Done(i)' \subseteq Calls
    BY DEF Done, Attempts
  <2> QED
    BY <2>1, StoreAssumption, FS_Subset
<1>n. /\ executions[i] \in Nat /\ executions[i] <= Cardinality(Done(i))
      /\ Cardinality(Done(i)) \in Nat /\ Cardinality(Done(i)') \in Nat
  BY <1>o, <1>f, FS_CardinalityType DEF LedgerInv, ExecutionsAreDone, TypeOK, GateTypeOK
<1>s. Done(i) \subseteq Done(i)' /\ Cardinality(Done(i)) <= Cardinality(Done(i)')
  BY <1>f, DoneStaysDone, FS_Subset
<1>1. CASE executions'[i] = executions[i]
  BY <1>1, <1>n, <1>s
<1>2. ASSUME NEW w \in Workers, Execute(w), req[w].intent = i
      PROVE  executions'[i] <= Cardinality(Done(i)')
  <2> DEFINE c == req[w].call
  <2>1. /\ pc[w] = "exec" /\ pc' = [pc EXCEPT ![w] = "persist"] /\ req' = req
        /\ UNCHANGED callVars /\ executions'[i] = executions[i] + 1
    BY <1>2, <1>o DEF Execute, Goto, storeVars, TypeOK, GateTypeOK
  <2>2. c \in Attempts(i) /\ c \notin Done(i)
    BY <1>o, <1>2, <2>1 DEF OnceInv, RunningIsRecorded, Done
  <2>3. c \in Attempts(i)'
    BY <2>1, <2>2 DEF Attempts, callVars
  <2>4. ASSUME NEW v \in Workers, pc'[v] = "exec", req'[v].call = c
        PROVE  FALSE
    <3>1. v # w /\ pc[v] = "exec" /\ req[v].call = req[w].call
      BY <2>1, <2>4, <1>o DEF TypeOK, GateTypeOK
    <3> QED
      BY <2>1, <3>1 DEF LedgerInv, CallerInv, RunnersAreApart
  <2>5. c \in Done(i)'
    BY <2>1, <2>3, <2>4 DEF Done
  <2> HIDE DEF c
  <2>6. Done(i) \cup {c} \subseteq Done(i)'
    BY <1>s, <2>5
  <2>7. /\ IsFiniteSet(Done(i) \cup {c})
        /\ Cardinality(Done(i) \cup {c}) = Cardinality(Done(i)) + 1
    BY <1>f, <2>2, FS_AddElement
  <2>8. Cardinality(Done(i) \cup {c}) <= Cardinality(Done(i)')
    BY <1>f, <2>6, FS_Subset
  <2> QED
    BY <1>n, <2>1, <2>7, <2>8
<1>3. executions'[i] = executions[i] \/ \E w \in Workers : Execute(w) /\ req[w].intent = i
  <2>1. ASSUME NEW w \in Workers, Execute(w), req[w].intent # i
        PROVE  executions'[i] = executions[i]
    BY <2>1, <1>o DEF Execute, TypeOK, GateTypeOK
  <2>2. ASSUME NEW w \in Workers, Enter(w) \/ CallStep(w), ~Execute(w)
        PROVE  executions' = executions
    BY <2>2 DEF Enter, CallStep, Invoke, ReenterPrepared, CheckAgain, OpenApproval,
          WaitForApproval, ClaimAndAllow, ClaimTooLate, PrepareAndAllow, RecoveryAllow,
          ResumeClaimed, MarkStarted, PersistResult, UnitFails
  <2>3. ASSUME Surroundings \/ UNCHANGED vars
        PROVE  executions' = executions
    BY <2>3 DEF Surroundings, Decide, DecideTooLate, ExpireDue, MoveRun, TakeLease, DropLease,
                Crash, ClockPasses, gateVars, vars
  <2> QED
    BY <2>1, <2>2, <2>3 DEF Next
<1> QED
  BY <1>1, <1>2, <1>3

-------------------------------------------------------------------------------
(* The theorems *)

\* Nothing has been asked for, charged or executed.
LEMMA InitLedger == Init => LedgerInv
<1> SUFFICES ASSUME Init PROVE LedgerInv
  OBVIOUS
<1>1. AuthorisedInv
  BY InitAuthorised
<1>2. \A w \in Workers : pc[w] = "idle"
  BY DEF Init, GateInit
<1>3. CallerInv
  BY <1>2 DEF CallerInv, SnapshotKept, ClaimedInRunningRun, AllowedIsWithinLimit,
              RunnersAreApart, AllowedSteps
<1>4. \A c \in Calls : callStatus[c] = "NONE" /\ apprStatus[c] = "NONE"
  BY DEF Init, StoreInit, ApprovalInit
<1>5. RowInv
  <2>1. ChargedOnce
    BY <1>4, FS_EmptySet DEF Init, StoreInit, ChargedOnce, Allowed
  <2> QED
    BY <1>4, <2>1 DEF Init, StoreInit, RowInv, WaitingOnOneApproval, ApprovalTracksCall,
       ActiveApproval
<1>7. \A i \in Intents : Attempts(i) = {} /\ Done(i) = {} /\ executions[i] = 0
  BY <1>4 DEF Init, GateInit, Attempts, Done
<1>8. ExecutionsAreDone /\ AttemptsWithinLimit
  BY <1>7, FS_EmptySet, GateAssumption DEF ExecutionsAreDone, AttemptsWithinLimit
<1> QED
  BY <1>1, <1>3, <1>5, <1>8 DEF LedgerInv

\* Every step keeps the invariant.
LEMMA NextLedger == LedgerInv /\ [Next]_vars => LedgerInv'
<1> SUFFICES ASSUME LedgerInv, [Next]_vars PROVE LedgerInv'
  OBVIOUS
<1>1. AuthorisedInv'
  BY NextAuthorised DEF LedgerInv
<1>2. CallerInv'
  BY SnapshotsKept, StartersRun, LimitKept, ApartKept DEF CallerInv
<1>3. RowInv'
  BY WaitingKept, TrackingKept, ChargedKept DEF RowInv
<1>4. ExecutionsAreDone' /\ AttemptsWithinLimit'
  BY ExecutionsKept, AttemptsKept
<1> QED
  BY <1>1, <1>2, <1>3, <1>4 DEF LedgerInv

\* Every execution has its row.
LEMMA LedgerRecordsExecutions == LedgerInv => ExecutionsAreRecorded
<1> SUFFICES ASSUME LedgerInv, NEW i \in Intents
             PROVE  executions[i] <= Cardinality(Attempts(i))
  BY DEF ExecutionsAreRecorded
<1>1. Done(i) \subseteq Attempts(i)
  BY DEF Done
<1>2. Cardinality(Done(i)) <= Cardinality(Attempts(i)) /\ Cardinality(Done(i)) \in Nat
  BY <1>1, AttemptsFinite, FS_Subset, FS_CardinalityType
<1>3. executions[i] <= Cardinality(Done(i)) /\ executions[i] \in Nat
  BY DEF LedgerInv, ExecutionsAreDone, AuthorisedInv, OnceInv, TypeOK, GateTypeOK
<1> QED
  BY <1>2, <1>3, AttemptsFinite

\* Nor are there more executions than attempts are allowed.
LEMMA LedgerBoundsReads == LedgerInv => ReadsBounded
<1> SUFFICES ASSUME LedgerInv, NEW i \in Intents PROVE executions[i] <= ReadLimit
  BY DEF ReadsBounded
<1>1. executions[i] <= Cardinality(Attempts(i)) /\ Cardinality(Attempts(i)) <= ReadLimit
  BY LedgerRecordsExecutions DEF ExecutionsAreRecorded, LedgerInv, AttemptsWithinLimit
<1>2. executions[i] \in Nat
  BY DEF LedgerInv, AuthorisedInv, OnceInv, TypeOK, GateTypeOK
<1> QED
  BY <1>1, <1>2, AttemptsFinite, GateAssumption

\* A call with an approval starts under its claim, in a running run.
LEMMA LedgerStartsApproved ==
    ASSUME LedgerInv, [Next]_vars
    PROVE  StartsApproved
<1> SUFFICES ASSUME NEW c \in Calls, callStatus[c] = "PREPARED", callStatus'[c] = "STARTED",
                    apprStatus[c] # "NONE"
             PROVE  runStatus = "RUNNING" /\ apprStatus[c] = "CLAIMED"
  BY DEF StartsApproved
<1>1. PICK w \in Workers : MarkStarted(w) /\ req[w].call = c
  BY MarkStarts
<1> QED
  BY <1>1, StarterRow

\* policy.execution_limit for every number of processes, calls and leases: no
\* matter who drives the run, equivalent READ calls execute at most ReadLimit
\* times.
THEOREM ReadsAreBounded == Spec => []ReadsBounded
BY LedgerBoundsReads, InitLedger, NextLedger, PTL DEF Spec

\* WP07-INV-005 for every number of processes, calls and leases: the handler
\* never runs more often than there are calls recorded as STARTED or settled,
\* whatever crashes in between.
THEOREM ExecutionsOnRecord == Spec => []ExecutionsAreRecorded
BY LedgerRecordsExecutions, InitLedger, NextLedger, PTL DEF Spec

\* The run and its approvals move together, for every number of processes and
\* calls: create, claim, the decision and the expiry leave at most one approval
\* open, and a waiting run has one to wait for.
THEOREM WaitsForOne == Spec => []WaitingOnOneApproval
<1>1. LedgerInv => WaitingOnOneApproval
  BY DEF LedgerInv, RowInv
<1> QED
  BY <1>1, InitLedger, NextLedger, PTL DEF Spec

\* WP07-INV-008 for every number of processes, calls and leases: the ledger has
\* every call that was allowed, none that never was, and the run is charged for
\* each once.
THEOREM ChargesAreOnce == Spec => []ChargedOnce
<1>1. LedgerInv => ChargedOnce
  BY DEF LedgerInv, RowInv
<1> QED
  BY <1>1, InitLedger, NextLedger, PTL DEF Spec

\* D-26 for every number of processes, calls and leases: the approval is
\* consumed with a deterministic result, and only then.
THEOREM ApprovalFollowsCall == Spec => []ApprovalTracksCall
<1>1. LedgerInv => ApprovalTracksCall
  BY DEF LedgerInv, RowInv
<1> QED
  BY <1>1, InitLedger, NextLedger, PTL DEF Spec

\* _mark_started for every number of processes, calls and leases: a call with an
\* approval becomes STARTED only under the claim of that approval and in a run
\* that is still RUNNING, although _mark_started itself looks at neither.
THEOREM StartsAreApproved == Spec => ApprovedCallsStartInRunningRun
<1>1. LedgerInv /\ [Next]_vars => [StartsApproved]_vars
  BY LedgerStartsApproved
<1> QED
  BY <1>1, InitLedger, NextLedger, PTL DEF Spec, ApprovedCallsStartInRunningRun
===============================================================================
