------------------------------ MODULE StateStore ------------------------------
(***************************************************************************)
(* The durable facts of one run that decide whether a tool may execute     *)
(* (state_store.py): the run row, the tool_calls rows, the tool-call       *)
(* budget and its ledger, and the run lease.                               *)
(*                                                                         *)
(* Each store method is an operator over the variables it writes.  The     *)
(* store is only ever used inside a storage unit of work (BEGIN IMMEDIATE, *)
(* commit at the end, rollback on any exception), so a unit that calls     *)
(* several methods is ONE action that conjoins their operators, and a      *)
(* method that raises makes the conjunction false: nothing is written.     *)
(* Two methods of a unit that read what an earlier one wrote read the      *)
(* primed variable.                                                        *)
(*                                                                         *)
(* Revisions are left out here: inside a unit the callers modelled pass    *)
(* the revision they have just read, so the comparison always succeeds.    *)
(*                                                                         *)
(* Time is abstract.  The lease is live or has expired; renew_lease can    *)
(* only prolong a live lease, which here means that LeaseExpires has not   *)
(* happened yet.                                                           *)
(***************************************************************************)
EXTENDS Domain, Naturals, FiniteSets

CONSTANTS
    Calls,          \* tool_call_id values the agent uses
    Intents,        \* (tool_name, args_digest) pairs
    NoIntent,       \* the intent of a call without a row
    MaxToolCalls,   \* budget.max_tool_calls
    MaxLeases       \* bound: how many leases are ever issued for the run

ASSUME StoreAssumption ==
    /\ IsFiniteSet(Calls)
    /\ NoIntent \notin Intents
    /\ MaxToolCalls \in Nat
    /\ MaxLeases \in Nat \ {0}

VARIABLES
    runStatus,      \* runs.status
    callStatus,     \* tool_calls.status by tool_call_id
    callIntent,     \* tool_calls.(tool_name, args_digest) by tool_call_id
    usedToolCalls,  \* runs.used_tool_calls
    ledger,         \* budget_ledger: the calls charged under TOOL_CALLS
    leaseToken,     \* run_leases.token_digest; 0 when there is no row
    leaseLive,      \* now < run_leases.expires_at
    leasesIssued    \* tokens drawn so far; a token is never drawn twice

callVars   == <<callStatus, callIntent>>
budgetVars == <<usedToolCalls, ledger>>
leaseVars  == <<leaseToken, leaseLive, leasesIssued>>
storeVars  == <<runStatus, callVars, budgetVars, leaseVars>>

Tokens == 1..MaxLeases

StoreTypeOK ==
    /\ runStatus \in RunStatus
    /\ callStatus \in [Calls -> InvocationStatus \cup {"NONE"}]
    /\ callIntent \in [Calls -> Intents \cup {NoIntent}]
    /\ usedToolCalls \in 0..MaxToolCalls
    /\ ledger \subseteq Calls
    /\ leaseToken \in {0} \cup Tokens
    /\ leaseLive \in BOOLEAN
    /\ leasesIssued \in 0..MaxLeases

\* create_run: the run row is NEW and its creator holds the first lease.
StoreInit ==
    /\ runStatus = "NEW"
    /\ callStatus = [c \in Calls |-> "NONE"]
    /\ callIntent = [c \in Calls |-> NoIntent]
    /\ usedToolCalls = 0
    /\ ledger = {}
    /\ leaseToken = 1
    /\ leaseLive = TRUE
    /\ leasesIssued = 1

-------------------------------------------------------------------------------
(* Lease *)

\* Mutant: any token passes while a lease is live.
VerifyAnyLease(tok) == tok # 0 /\ leaseLive

\* _verify_lease: the token is the current one and has not expired.
VerifyLease(tok) == tok # 0 /\ tok = leaseToken /\ leaseLive

\* _acquire_lease: refused while another lease is live; otherwise the row is
\* inserted, or taken over, with a token never used before.
AcquireLease(tok) ==
    /\ leaseToken = 0 \/ ~leaseLive
    /\ leasesIssued < MaxLeases
    /\ tok = leasesIssued + 1
    /\ leaseToken' = tok
    /\ leaseLive' = TRUE
    /\ leasesIssued' = tok

\* release_lease: deletes the row of the caller's token, expired or not.
ReleaseLease(tok) ==
    /\ tok # 0 /\ tok = leaseToken
    /\ leaseToken' = 0
    /\ leaseLive' = FALSE
    /\ UNCHANGED leasesIssued

\* The clock passes expires_at before the holder renews.
LeaseExpires ==
    /\ leaseToken # 0 /\ leaseLive
    /\ leaseLive' = FALSE
    /\ UNCHANGED <<leaseToken, leasesIssued>>

-------------------------------------------------------------------------------
(* Run, tool calls and budget; every caller has verified the lease *)

\* transition_run
TransitionRun(from, to) ==
    /\ runStatus = from
    /\ to \in RunTransitions[from]
    /\ runStatus' = to

\* create_invocation
CreateInvocation(c, i) ==
    /\ runStatus \notin TerminalRun
    /\ callStatus[c] = "NONE"
    /\ callStatus' = [callStatus EXCEPT ![c] = "PREPARED"]
    /\ callIntent' = [callIntent EXCEPT ![c] = i]

\* transition_invocation.  It reads the call's row only: the status of the run
\* is not one of its conditions.
TransitionInvocation(c, from, to) ==
    /\ callStatus[c] = from
    /\ \/ from = "PREPARED" /\ to = "STARTED"
       \/ from = "STARTED" /\ to \in TerminalInvocation
    /\ callStatus' = [callStatus EXCEPT ![c] = to]
    /\ UNCHANGED callIntent

\* Mutant: the limit is left to the snapshot check.
RecordToolCallUnbounded(c) ==
    /\ usedToolCalls' = usedToolCalls + 1
    /\ ledger' = ledger \cup {c}

\* record_budget_delta for one TOOL_CALLS unit of source c: a replay of the
\* same source changes nothing, a new one must fit the limit.
RecordToolCall(c) ==
    \/ /\ c \in ledger
       /\ UNCHANGED budgetVars
    \/ /\ c \notin ledger
       /\ runStatus \notin TerminalRun
       /\ usedToolCalls + 1 <= MaxToolCalls
       /\ usedToolCalls' = usedToolCalls + 1
       /\ ledger' = ledger \cup {c}
===============================================================================
