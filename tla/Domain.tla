-------------------------------- MODULE Domain --------------------------------
(***************************************************************************)
(* The enumerations of the guarded harness (domain.py) that its state      *)
(* machines run on, and the transition tables of state_store.py.  "NONE"   *)
(* stands for a row that does not exist.                                   *)
(***************************************************************************)

RunStatus ==
    {"NEW", "RUNNING", "WAITING_APPROVAL", "VERIFYING",
     "COMPLETED", "STOPPED", "FAILED", "BLOCKED"}

TerminalRun == {"COMPLETED", "STOPPED", "FAILED", "BLOCKED"}

\* _RUN_TRANSITIONS: the statuses a run may go to from each status.
RunTransitions ==
    [s \in RunStatus |->
        CASE s = "NEW"              -> {"RUNNING"}
          [] s = "RUNNING"          -> {"WAITING_APPROVAL", "VERIFYING",
                                        "STOPPED", "FAILED", "BLOCKED"}
          [] s = "WAITING_APPROVAL" -> {"RUNNING", "STOPPED", "FAILED", "BLOCKED"}
          [] s = "VERIFYING"        -> {"COMPLETED", "FAILED", "BLOCKED"}
          [] OTHER                  -> {}]

\* InvocationStatus: the durable state of one tool call.
DeterministicResult == {"SUCCEEDED", "FAILED", "TIMED_OUT"}

TerminalInvocation == DeterministicResult \cup {"UNKNOWN_RESULT"}

InvocationStatus == {"PREPARED", "STARTED"} \cup TerminalInvocation

\* ApprovalStatus, split the way approval.py splits it.
ActiveApproval == {"PENDING", "APPROVED"}

TerminalApproval == {"CONSUMED", "REJECTED", "EXPIRED", "INVALIDATED"}

ApprovalStatus == ActiveApproval \cup {"CLAIMED"} \cup TerminalApproval

ToolRisk == {"READ", "WRITE", "EXECUTE"}

\* _TERMINAL_ACCEPTANCE: the verdicts of the completion checker.
TerminalAcceptance == {"ACCEPTED", "REJECTED", "UNVERIFIABLE"}
===============================================================================
