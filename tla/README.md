# TLA+ models of the guarded harness and the LLM gateway

This directory holds the TLA+ models, TLC configurations and TLAPS proofs kept
beside the code. The repository has three programs:

| program | what it is |
|---|---|
| `week03_guarded-harness` | a harness around a coding agent: every tool call passes a Gate, state, approvals, audit and checkpoints are in SQLite, a run can be recovered after a crash |
| `week01_llm-gateway` | an HTTP gateway in front of several LLM providers: routing, retries, circuit breaker, rate limit, usage records |
| `week02_tool-runtime` | a single-file demo of tool governance |

The harness carries the hardest behaviour (several processes, leases, crashes,
approvals with a time to live) and has most of the models; the gateway has one,
about concurrent requests that share circuits and budgets.

## Inventory

| component | state it keeps | operations | hard part | what makes it correct |
|---|---|---|---|---|
| Gate (`gate.py`, `policy.py`) | none of its own but a lock per run; a call's snapshot in memory | `invoke`, `reenter_prepared`, `invoke_internal`, `invoke_test_verification` | a snapshot read in one transaction is acted on in later ones; the handler runs outside any | writes run at most once, only when authorised, and never without a durable trace |
| approvals (`approval.py`) | `approvals` rows | create, load, approve, reject, expire_due, invalidate, claim, resume_claim, consume | time to live against decision and claim; three parties | an approval authorises one execution; run and approval move together |
| state store (`state_store.py`) | runs, tool calls, budget ledger, lease, plans, steps, evidence, completion, test executions | one method per write, each under lease and revision | lease takeover, optimistic revisions, idempotent replays | transitions are legal, budget is charged once, terminal rows stay |
| checkpoints and recovery (`checkpoint.py`) | `checkpoints` rows with a workspace capture | `create_checkpoint`, `prepare_recovery`, `build_continuation_context` | decides from durable facts what a dead process was doing | nobody goes on over an unknown effect; the decision is durable |
| storage (`storage.py`) | the database file and its migrations | `transaction`, `initialize`, `verify_integrity` | rollback on any exception | a unit of work is all or nothing |
| audit (`audit.py`) | `audit_events`, a hash chain per run | `append`, `verify_chain` | chain order, append in the unit of the fact | no fact without its event |
| completion (`completion.py`, `test_reports.py`) | completion records, test executions, validity of evidence | `capture_test_baseline`, `evaluate_test_repair`, `evaluate_code_understanding` | verdict over a workspace that may change meanwhile; a crash between a command and its record | ACCEPTED only for the workspace that was tested, on evidence that stands; commands once, one verdict |
| sandbox (`sandbox.py`) | the workspace | reads, atomic writes, processes, baselines | races with other processes, process groups, timeouts | no torn read, no lost content, no confirmed result of a command that still runs |
| LLM gateway (`week01`) | circuits, round-robin counters, buckets, usage rows, prompt versions | `complete`, `stream`, `candidates`, `check`, ... | concurrent requests share circuits and buckets; retries share a budget; clients go away | bounded attempts; an open circuit is only drained; one stream reaches the client; the usage row says what it got |

The components call each other inside one process: the orchestrator (which the
documents call `harness.py`; it is not in the repository) drives the agent and
calls the Gate; the Gate and the checkpoint service open units of work on the
storage and call the stores inside them. Processes interact only through the
database (and the workspace), and the run lease says which of them may write.

`PROJECT.json` lists every component with its status, and under `hazards` what
can go wrong at which line and the property that would show it.

## Modules

| module | models | state |
|---|---|---|
| `Domain` | enumerations of `domain.py`, transition tables of `state_store.py` | – |
| `StateStore` | run row, tool calls, tool-call budget and ledger, lease | `runStatus`, `callStatus`, `callIntent`, `usedToolCalls`, `ledger`, `leaseToken`, `leaseLive`, `leasesIssued` |
| `ApprovalStore` | approvals | `apprStatus`, `apprDue` |
| `Gate` | the Gate over both stores, the approver, the processes and the clock | `token`, `pc`, `req`, `result` of each worker; `executions`, `toldExpired` are history |
| `Checkpoint` | checkpoints, recovery, the workspace; composed with `Gate` | `hasCheckpoint`, `boundaries`, `evidenced`, `dirty`, `edited`, `bindingSame`, `configSame`, `plan` |
| `GateProofs` | TLAPS proofs about `Gate`: types, at most one execution | – |
| `ApprovalProofs` | TLAPS proofs about `Gate`: approvals, terminal states | – |
| `LedgerProofs` | TLAPS proofs about `Gate`: what run, calls, approvals, ledger and executions say of each other | – |
| `CheckpointProofs` | TLAPS proofs about `Checkpoint`: recovery composed with the Gate | – |
| `Completion` | the completion checker, the Gate's internal entry and the store methods they use, over `StateStore` | `kind`, `ws`, `reads`, `steps`, `report`, `tests`, `completion`; `token`, `pc`, `mem` of each checker; `ran` is history |
| `TestReports`, `ReadRanges` | pure algorithms of `test_reports.py` and `_ranges_cover`, each with a reference definition | – |
| `Acceptance` | abstract specification of what completion checking promises | `kind`, `ran`, `verdict` |
| `Sandbox` | `read_file`, `write_file_atomic`, `execute` | `path`, `inode`, `temps`, `clock`, `proc`, `cancelled`, `status`; `pc`, `mem` of each worker; `raced`, `orphans`, `got` are history |
| `LlmGateway` | the gateway's service, router, rate limiter and usage rows | `circuit`, `turn`, `tokens`, `call`, `usage` |
| `CompletionProofs`, `SandboxProofs`, `LlmGatewayProofs` | TLAPS proofs about the module of that name; `CompletionProofs` with the refinement of `Acceptance` | – |
| `MCGate`, `MCCheckpoint`, `MCCompletion`, `MCSandbox`, `MCLlmGateway` | small instances for TLC | – |

How they correspond to the code:

* A method of a store is an operator over the variables it writes. A unit of
  work is one action that conjoins the operators it calls; a condition of a
  method that raises is a conjunct, so a unit that raises writes nothing. The
  failing outcome of a unit is the action `UnitFails` (or `ClaimTooLate`, when
  what the caller was told matters).
* A worker is a harness process with one Gate. `pc` says which unit of work of
  its call comes next; a call is let in by `Invoke` or `ReenterPrepared`, which
  read the snapshot and choose the route. A call denied on its snapshot writes
  only an audit event and is no step.
* An intent is a (tool, arguments digest) pair that passes the checks that read
  no run state; its risk, need of approval and idempotence are constants.
* Time is abstract: the lease and each approval fall due at any moment.
  `renew_lease` is the lease not having expired yet.
* An approver acts with the lease token it was handed, as the tests do; a
  decision on an overdue approval commits the expiry, because the approver
  catches the error inside the unit.
* The orchestrator is an environment: between calls it may move the run, expire
  approvals, take, drop or lose the lease, and die. In `Checkpoint` it follows
  the plan of `prepare_recovery` before it does anything with a run it took over.
* The workspace is the set of paths that differ from the latest capture
  (`dirty`); `edited` remembers which of them somebody else changed.

Completion:

* A checker is a harness process. Every capture of the workspace, every unit of
  work and the command itself is a step; `mem` is what the method holds in local
  variables between them. A digest of the workspace is the workspace.
* The internal calls have ids made of step, tool and arguments, so there is one
  per purpose: `BASELINE`, `FINAL`, `INSPECT`. Only the holder of the lease gets
  past a unit of work; a process without it fails in `UnitFails`.
* A check of the code that fails adds to `failing`; the verdict is computed from
  the set, and the code's `evidence_current` is replaced in the last unit, which
  looks at the workspace once more.
* The document of a code understanding is a content; which of them parse is the
  constant `Documents`, and all of them cite the range `Cited`.
* A report is an exit code and a sequence of cases; whether it parses, and what
  its nodes are, is computed as `test_reports.py` does.
* `Acceptance` is refined with `verdict <- completion.status`; `kind` and `ran`
  have the same names on both sides.

Sandbox:

* A path leads to an inode or to nothing; the stamp of an inode stands for size
  and modification time, which `_file_identity` compares. A read has two chunks
  and a final comparison; a write makes a temporary inode, checks the target
  again and commits by `os.replace` (REPLACE) or `os.link` (CREATE).
* A command is a leader and at most one child. Deadlines may pass at any moment;
  signals, exits and forks come in any order between the waits of
  `_run_process`.

LLM gateway:

* A task runs alone between two awaits, so a step goes from one await to the
  next: prompt resolution, upstream call, backoff, chunk of a stream, usage
  write. The record `call[r]` is what the coroutine has in local variables
  (`route` and `rest` are the current candidate and those of the pass it has not
  tried), and the code between two awaits is an operator on it.
* The upstream is an environment: it answers, answers with invalid structured
  output, fails retryably or for good, breaks off a stream. A client may go away
  at each await, and the server may drop a stream before or after its start.
* What the gateway does not catch is an outcome too, `answer = "crash"`: an
  exception of the prompt store or of the adapter (`BeginCrashes`), a transport
  error the upstream client does not translate (`UpstreamCrashes`; its `except`
  names `TimeoutException` and `NetworkError`, not `RemoteProtocolError`), an
  invalid schema or an answer of unexpected shape (`ValidationCrashes`). The call
  goes through `finally` with the status it has, the client gets a 500 or a
  broken stream. `stream` records nothing for what it does not catch before it
  returns.
* `Taken` sets the status when an answer arrives, before it is validated, as
  `complete` does; what follows overwrites it or not.

Where the model allows more than the code: `CheckpointStep` may repeat (the
code wants a new step or approval for each), and `UnitFails` may strike any
unit. Properties that hold therefore hold for the code; the violations below
use neither.

## Runs

Passing:

| run | instance | shows |
|---|---|---|
| `gate` | 2 workers, 3 calls, 3 intents (approved write, command, read), read limit 1, 2 leases, budget 2 | types, with `used_tool_calls` within its limit when calls race for the last unit or are recovered when it is spent; writes at most once, reads bounded, executions recorded, approved before executed, intents never without their approval, a waiting run waits for exactly one approval, calls charged once, approvals track calls, approved calls start only in a running run, nothing terminal changes |
| `recovery` | 2 workers, 2 calls (approved patch, read), 1 file | handlers of two processes never overlap, a resumable plan means no call of unknown effect, blocked runs start nothing, and the Gate's invariants still hold |
| `recovery_live` | 2 workers, 1 call | recovery answers; an abandoned call is settled or the run ends |
| `llm_gateway` | 2 providers with weights 2 and 1, a structured request and a stream, 3 retries per request, 1 per route, 1 repair, threshold 2, burst 1 | attempts stay within the request's budget, bytes of one stream reach the client, the usage row agrees with what it got, uncaught exceptions included, circuits agree with the failures counted, an open circuit is only drained, every call ends |
| `completion` | 2 processes, 2 leases, 2 edits among 4 workspaces, 2 reads, 1 fault, 2 baseline and 4 final reports | what is accepted is what was tested, was repaired in full, rests on standing evidence and cites lines that were read; `Completion` implements `Acceptance`; a run being verified gets its verdict |
| `sandbox` | 2 workers, 2 contents, 4 changes of files, 1 fault; file tools or commands | reads are current and whole, replaced content was seen, temporaries have an owner, a confirmed command is over, `execute` returns |

`MCCompletion` also states as assumptions, which TLC evaluates, that
`CompareTestNodes` agrees with `RepairedInFull` on all reports over two tests
(`ComparisonIsSound`) and that the sweep of `_ranges_cover` answers whether every
line was read, for all choices of three ranges over four lines and for the cited
range of the instance (`SweepIsSound`; the latter is `SweepSound` of
`Completion`, a hypothesis of one theorem).

Violations (each a disagreement between code and text, see `findings`):

| run | what happens |
|---|---|
| `disconnect` | a stream is dropped while a chunk is being sent: `GeneratorExit` at the `yield` runs `finally` only, and the row says error, not cancelled (design.md:323, :731) |
| `expiry_durable` | approve, enter `invoke`, the approval falls due, `claim` raises: the expiry is rolled back, although WP02-AC-006 has it persisted |
| `ended_runs` | a read is prepared while the run waits for an approval; the approver rejects and the run stops; the read is started all the same |
| `recovery_decides` | an overdue approval and a changed configuration, or no checkpoint: `prepare_recovery` fails with `RECOVERY_WRITE_FAILED` on every try |
| `rebuild_masks` | a read's evidence covers somebody else's edit, and the checkpoint is rebuilt over it |
| `changed_workspace` | a PREPARED call is handed back to the Gate although files changed |

Bounds. Two workers are a zombie and its successor; with two leases a run is
taken over once. Three calls allow a retry under another id next to a call of
another kind, and with one approval pending a second request. Against a budget
of two the third races the second for the last unit, and against a read limit of
one a second equivalent read would exceed it (the code's default is two; the
theorems hold for any limit, and `LedgerInv` counts). `recovery` has two calls, one of
the process that is gone and one of its successor. One path is enough for an
edit that the evidence covers. `MaxLeases` bounds the model only: the code draws
random tokens. Symmetry is over workers and calls, which no definition
distinguishes. Liveness is checked without symmetry. Deadlock is not checked:
runs end, and in the model leases run out.

For `completion`, two edits change the workspace and bring it back, and two
leases give a takeover with a zombie. The four workspaces are the original, the
repaired one, one that lost its files and one that changed out of scope. The
four final reports are a repaired one with either exit code, one that lost a
test and one that does not parse. The cited range has two lines and the ranges
that can be read one each, so coverage needs both reads. For `sandbox`, four
changes are the first file, a temporary of each worker and an edit between them.
File tools and commands share nothing but the bound on faults, so a behaviour
has either (`EitherTools`). For `llm_gateway`, two providers and a budget of
three retries let a request retry, fall back and repair, and exhaust the budget
in the middle of each; a threshold of two opens a circuit while another request
holds its provider as a candidate; a bucket of one refuses.

Fairness (`LiveSpec`): a live process goes on with its call and with
`prepare_recovery` (both are straight-line code); the lease of a process that is
gone lapses, as nobody renews it; some process takes the run over (the operator
restarts the harness). Nothing is assumed of the approver or of the agent.
`LastLeaseKept` is a bound: the model can issue no lease after the last.
`AbandonedCallIsSettled` excepts overdue approvals, which is the failure of
`recovery_decides`.

In `Completion` an evaluation that has begun goes on, a process takes over an
abandoned run and evaluates it, and an orphaned lease lapses; crashes and
expiries are bounded by the leases left. In `Sandbox` only `execute` is fair:
all its waits have deadlines. In `LlmGateway` upstream calls have timeouts and
backoffs are finite, so the steps of a call are fair; `Chunk` is not, and so
does not have to go on for ever. A failing usage write, cancellation and
administration are never assumed to happen.

## Proofs

Forty-two theorems in seven modules. Each holds for every value of the
constants that meets the named assumption of its module (`StoreAssumption`,
`GateAssumption`, `CheckpointAssumption`, `CompletionAssumption`,
`SandboxAssumption`, `GatewayAssumption`), which says what kind of value each
constant is and which limits are positive; TLC evaluates all of them in the
passing runs. Every safety invariant and action property of a passing run is
stated by a theorem.

| module | about | inductive invariant | theorems |
|---|---|---|---|
| `GateProofs` | `Gate!Spec` | `TypeOK`, `OnceInv` | `TypeCorrect`, `ExecutesAtMostOnce` |
| `ApprovalProofs` | `Gate!Spec` | `AuthorisedInv` | `ApprovedExecution`, `AuthorisedIntents`, `TerminalStaysTerminal` |
| `LedgerProofs` | `Gate!Spec` | `LedgerInv` | `ReadsAreBounded`, `ExecutionsOnRecord`, `WaitsForOne`, `ChargesAreOnce`, `ApprovalFollowsCall`, `StartsAreApproved` |
| `CheckpointProofs` | `Checkpoint!RecoverableSpec` | `RecoveryInv` | `CheckpointTypes`, `HandlersAreSerial`, `ResumesQuietly`, `RecoveryExecutesAtMostOnce`, `RecoveryKeepsApproval`, `RecoveryBoundsReads`, `RecoveryRecordsExecutions`, `RecoveryWaitsForOne`, `RecoveryChargesOnce`, `RecoveryStartsApproved`, `RecoveryTracksApprovals`, `RecoveryResurrectsNothing`, `BlockedStartsNothing` |
| `CompletionProofs` | `Completion!Spec` | `CompletionInv` | `CompletionTypes`, `AcceptedWhereTested`, `AcceptedIsRepaired`, `AcceptedOnValidReport`, `AcceptedIsRead`, `ComparisonIsExact`, `ImplementsAbstraction` |
| `SandboxProofs` | `Sandbox!Spec` | `SandboxInv` | `SandboxTypes`, `ReadsAreWhole`, `TemporariesHaveOwners`, `ConfirmedIsQuiet`, `UnseenIsKept` |
| `LlmGatewayProofs` | `LlmGateway!Spec` | `GatewayInv` | `GatewayTypes`, `BudgetIsShared`, `NoSecondStream`, `UsageAgrees`, `CircuitsFollowFailures`, `OpenCircuitsAreDrained` |

Hardly any of the properties is inductive. TLC checked each strengthening below
as an invariant on the instance of the corresponding run before it was proved.

**`OnceInv`** (no write runs twice). `AtMostOnce` alone fails because a worker
about to run the handler says nothing of what another has done. Added are:
tokens are not shared, so there is one holder of the lease (`TokensAreFresh`);
for the holder, what its snapshot said of equivalent calls is still true at
every step up to the one that marks the call STARTED (`AllowedIsUntried`: a
worker without the lease is not constrained, `VerifyLease` stops it); a call in
the handler has its STARTED row, is the only one of its intent, and the intent
has not run (`RunningIsRecorded`, `OneRunner`); what ran has left a row that is
not PREPARED, and rows never go back (`ExecutedWasTried`). `NextOnce` has one
step per action.

**`AuthorisedInv`** (nothing runs unapproved) adds that an approval has its
call, that a call has an approval exactly when its intent needs one, and where a
call on its way to the handler stands (`RoutesAreAuthorised`). When the handler
runs, the claim was made some units of work ago, and the claim must still be
there: once in the handler it is, with or without the lease, because a call that
has STARTED keeps its approval; before the start it is only as long as the
process has the lease, because recovery may invalidate the claim of a PREPARED
call whose process has lost it. `TerminalStaysTerminal` rests on `CallWrites`,
`ApprovalWrites` and `RunWrites`, which say which store methods a step can have
called on each table, and so stands or falls with their compare-and-set guards.

**`LedgerInv`** relates the tables. Between the read of the snapshot and the
unit that acts on it, `SnapshotKept` says what the snapshot knew of the approval,
`ClaimedInRunningRun` that nobody moves the run between claim and start, and
`AllowedIsWithinLimit` that the attempts it counted are still below the limit.
`ExecutionsAreDone` bounds the executions of an intent by its rows that no
process is about to execute (`Done`), which is what makes `ReadsBounded`
inductive: an execution turns one row into a done one. `MovesOrRests` splits the
steps into those of one worker's call and those that leave all calls alone, so
each conjunct has a lemma for either. The ledger is counted by cardinality:
`ChargeCounts` says that a charge adds one row and one unit.

**`RecoveryInv`** (composition). `GateOrBlocks` shows that a step of
`RecoverableSpec` is, as far as the Gate's variables go, a step of `Gate!Next`
or one of the three branches of `prepare_recovery` that block the run; with
`BlockKeepsLedger` all of `LedgerInv`, and with it every invariant of the Gate,
carries over to runs that crash and are recovered. `ChargedOnce` allows for a
call that was charged and whose claim recovery has invalidated since. On top are
what the plans keep apart: a process calls the Gate only after its plan lets
it (`CallersAreInSession`), the call of a running handler is STARTED unless
recovery has given it an unknown result (`BegunIsKept`), a process goes on only
when no other handler of the current lease is running (`GoesOnAlone`), and a
resumable plan was made over calls of known effect (`PlannedIsQuiet`).

**`CompletionInv`** says, per checker and step, what it may rely on (`Sound`):
that the baseline failed, that the final tests were recorded, that its judgement
found no failure. `Grows` says that no step of another process takes any of this
back, which replaces a proof for every pair of actions by one for each action.
`RanOnce` and `OneStarts` tie commands to their rows; `ValidityIsCurrent` says
that an invalidation of the report is not missed by the holder of the lease.
`ImplementsAbstraction` maps every step to a step of `Acceptance` or a stutter
under `verdict <- completion.status`. `AcceptedIsRead` has the hypothesis
`SweepSound`, that the sweep of `_ranges_cover` says yes only if every cited line
is in a range: the sweep folds over a sorted sequence, and what a fold computes
is beyond the prover. It holds of the instance, and of all ranges over four
lines, as TLC evaluates.

**`SandboxInv`** has a part for files and one for commands, which share no
variable but the bound on faults. The clock is ahead of every stamp, so a new
inode or stamp is one nobody has seen; hence equal stamps mean equal content
(`ReadOneVersion`) and a checked target is the target at the rename unless
`raced` (`CheckedTarget`). `Confirmation` says that termination is recorded only
after the group was empty.

**`GatewayInv`** says of each call (`Sound`) how what it has sent, the retries it
has left, its route and its rows agree, and that a status of success before the end
is found in structured calls only; one lemma per piece of code between two
awaits shows that it keeps this, and `CallStep` lifts it to the state. That a
pass finds an available route, if there is one, is `FirstAvailable`.

What the proofs turned up in the models: the first version of `Gate`'s
`RoutesAreAuthorised` was not kept by recovery and now speaks of the lease
holder; two guards of the CASE that modelled `classify_process_result` overlapped
in a state TLC does not reach, so the result was not determined there, and it is
now written with the precedence of the code; `CompletionAssumption` had to say
that the initial workspace is a workspace and which outcomes a report can have.

Only model-checked:

* liveness (`RecoveryAnswers`, `AbandonedCallIsSettled`, `EveryCallEnds`,
  `VerdictReached`, `ExecuteReturns`), which is beyond the prover;
* what the fold of `ReadRanges` computes (`SweepIsSound`), which takes induction
  over data; `ComparisonIsSound` needs none and is `ComparisonIsExact` for all
  parsed reports;
* the violation runs, which are counterexamples.

## Behaviour to know of

What the models made explicit and no run states as a violation:

* `evaluate_test_repair` does not compare HEAD, the index or paths outside the
  workspace with the start of the run, only the code-understanding check does
  (wp-09 spec, section 9.3); `AcceptedAsTested` therefore speaks of the scope
  the code checks. Baseline capture does not check that the agent has had no
  side effect yet (wp-09 spec.md:156).
* A command that could not be started leads to REJECTED; wp-09 spec.md:559 says
  UNVERIFIABLE.
* After a crash an internal call left PREPARED is denied for good: the final
  tests are then never run, and a baseline never captured. A second evaluation
  of a code understanding finds its inspection call used, is denied and rejects.
  The verdict comes (`VerdictReached`), but a negative one.
* `_persist_completion` looks neither at `expected_run_revision` (wp-08
  spec.md:372) nor at the document again; the deliverable is read twice, so the
  recorded digest may be of another content than the one that was checked.
* A process that has lost its lease between MarkStarted and the command still
  starts it, possibly after another process gave the negative verdict;
  `Acceptance` allows that and no more.
* `write_file_atomic` loses an edit made between its last check and
  `os.replace`; `NothingUnseenIsLost` excepts exactly this gap (`raced`). A
  failing directory sync after the commit is reported as an error although the
  file was replaced. A temporary that cannot be unlinked stays (`orphans`),
  after the commit of a CREATE as after a write that failed (`UnlinkFails`).
* A child that leaves the group and closes its pipes is not noticed by
  `execute`; `ConfirmedMeansQuiet` speaks of the group and the pipes.
* Creating the checkpoint of a boundary again is a conflict, because the snapshot
  digest covers the time and the audit head; wp-07 spec.md:195 and :502 say the
  existing checkpoint is returned.
* In the gateway a success or failure reported late acts on the circuit of now:
  a late success closes a circuit that later failures opened. `CircuitAgrees`
  and `OpenCircuitsDrain` hold all the same and do not speak of it.
* A transport error the upstream client does not translate is neither counted on
  the circuit nor retried nor passed on to the next route.
* `complete` sets the status to success before it validates. A client's invalid
  schema, an answer of unexpected shape, or a crash or cancellation in a repair
  round leaves a success row for a request whose client got a 500 or nothing;
  `LedgerAgrees` allows that to structured requests and to no other.
* A stream the server never starts, one that is cancelled, and one that raises
  something other than a `GatewayError`, before `stream` has returned it, leave
  no usage row.

## Plan

Done: all modules of the table above, their runs, and theorems for every safety
property the passing runs check, the refinement of `Acceptance` included. What is
left, in this order:

1. `Completion` composed with `Checkpoint`: recovery of a VERIFYING run.
2. Revisions, plans and the remaining budgets of the state store; the audit
   chain.

## Not modelled

* Configuration loading, redaction of strings, HTTP plumbing and protocol
  adapters: no state that the properties speak of, pure translation. Their
  effect on the modelled parts is an input (`configSame`, intents, answers).
* Listing, searching, path policy, symbolic links and parent directories of the
  sandbox, git and docker commands, XML and Markdown parsing: I/O and string
  work that decides before the first step modelled, or is abstracted to its
  outcome.
* Storage migrations, the audit hash chain, prompt versions, usage aggregation,
  costs, wall time.
* The tool-governance demo of week 2: a script with an in-memory runtime, whose
  rules the harness has again with durable state.
