---------------------------- MODULE ApprovalStore -----------------------------
(***************************************************************************)
(* Approvals (approval.py): at most one row per tool call, bound to the    *)
(* call's intent, with a time to live.  As in StateStore, each method is   *)
(* an operator over the variables it writes, to be conjoined in one unit   *)
(* of work.  A method that raises after it has materialised an expiry      *)
(* loses that write with the rest of its unit.                             *)
(*                                                                         *)
(* The binding digest is over the run, the call, the tool, the arguments,  *)
(* the roles and the times, none of which any method rewrites, so          *)
(* _validate_current_binding reduces to the row of the call existing.      *)
(***************************************************************************)
EXTENDS StateStore

VARIABLES
    apprStatus,     \* approvals.status by tool_call_id
    apprDue         \* the approvals whose expires_at is not after now

apprVars == <<apprStatus, apprDue>>

ApprovalTypeOK ==
    /\ apprStatus \in [Calls -> ApprovalStatus \cup {"NONE"}]
    /\ apprDue \subseteq Calls

ApprovalInit ==
    /\ apprStatus = [c \in Calls |-> "NONE"]
    /\ apprDue = {}

\* Mutant: the status of the row is not looked at.
OverdueWhateverTheStatus(c) == c \in apprDue

\* _materialize_expiry, the condition: CLAIMED and terminal rows never expire.
Overdue(c) == apprStatus[c] \in ActiveApproval /\ c \in apprDue

\* The status a reader sees after _materialize_expiry.
Materialized(c) == IF Overdue(c) THEN "EXPIRED" ELSE apprStatus[c]

\* Mutant: the approval expires and the run goes on waiting.
RunIgnoresExpiry(S) == runStatus

\* The run a reader sees after _expire: a waiting run stops with
\* APPROVAL_EXPIRED in the same unit.
RunAfterExpiry(S) ==
    IF runStatus = "WAITING_APPROVAL" /\ \E c \in S : Overdue(c)
    THEN "STOPPED" ELSE runStatus

\* The clock passes an approval's expires_at.
ApprovalFallsDue(c) ==
    /\ apprStatus[c] # "NONE" /\ c \notin apprDue
    /\ apprDue' = apprDue \cup {c}
    /\ UNCHANGED apprStatus

\* load for one approval, expire_due for all of them: overdue rows become
\* EXPIRED and a waiting run STOPPED.
Expire(S) ==
    /\ apprStatus' = [c \in Calls |->
                        IF c \in S THEN Materialized(c) ELSE apprStatus[c]]
    /\ runStatus' = RunAfterExpiry(S)
    /\ UNCHANGED apprDue

\* create, for a call whose row the same unit has written, in the case that
\* the call has no approval yet.  (For a call that has one create returns the
\* row or raises, and writes nothing.)
CreateApproval(c) ==
    /\ callStatus'[c] = "PREPARED"
    /\ apprStatus[c] = "NONE"
    /\ runStatus = "RUNNING"
    /\ apprStatus' = [apprStatus EXCEPT ![c] = "PENDING"]
    /\ UNCHANGED apprDue

\* _decide up to the update.  The approver holds an allowed role and is not
\* the agent that asked.
MayDecide(c) ==
    /\ Materialized(c) = "PENDING"
    /\ runStatus = "WAITING_APPROVAL"

\* approve
ApproveCall(c) ==
    /\ MayDecide(c)
    /\ apprStatus' = [apprStatus EXCEPT ![c] = "APPROVED"]
    /\ UNCHANGED <<apprDue, runStatus>>

\* reject: the run stops in the same unit.
RejectCall(c) ==
    /\ MayDecide(c)
    /\ apprStatus' = [apprStatus EXCEPT ![c] = "REJECTED"]
    /\ TransitionRun("WAITING_APPROVAL", "STOPPED")
    /\ UNCHANGED apprDue

\* claim
Claim(c) ==
    /\ Materialized(c) = "APPROVED"
    /\ runStatus = "WAITING_APPROVAL"
    /\ callStatus[c] # "NONE"
    /\ apprStatus' = [apprStatus EXCEPT ![c] = "CLAIMED"]
    /\ UNCHANGED apprDue

\* resume_claim: checks only, and an audit event.
ResumeClaim(c) ==
    /\ apprStatus[c] = "CLAIMED"
    /\ runStatus = "RUNNING"
    /\ callStatus[c] = "PREPARED"
    /\ UNCHANGED apprVars

\* consume, after the same unit has stored the result.
Consume(c, result) ==
    /\ apprStatus[c] = "CLAIMED"
    /\ runStatus = "RUNNING"
    /\ result \in DeterministicResult
    /\ callStatus'[c] = result
    /\ apprStatus' = [apprStatus EXCEPT ![c] = "CONSUMED"]
    /\ UNCHANGED apprDue
===============================================================================
