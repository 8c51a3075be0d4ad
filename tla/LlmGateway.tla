------------------------------ MODULE LlmGateway ------------------------------
(***************************************************************************)
(* The LLM gateway (week01_llm-gateway): requests of one model alias run   *)
(* as tasks of one event loop and share the provider circuits, the         *)
(* round-robin counter (router.py) and a token bucket (rate_limit.py).     *)
(*                                                                         *)
(* A step is what a task does between two awaits: the loop runs no other   *)
(* task meanwhile.  The awaits are the resolution of the prompt, the       *)
(* upstream call, the backoff, each chunk of a stream and the write of the *)
(* usage event, so circuits change under a task exactly there.             *)
(*                                                                         *)
(* What a call has done so far is a record, and what the code does to it   *)
(* between two awaits is an operator from records to records.  Texts,      *)
(* tokens and protocols are left out: an upstream answer is a success, a   *)
(* failure the client translates (retryable or not) or one it does not,    *)
(* and for a structured request valid, invalid or not to be validated at   *)
(* all.  Answers are JSON objects with finite token counts; closing a      *)
(* stream takes no await.                                                  *)
(***************************************************************************)
EXTENDS Integers, Sequences, FiniteSets, FiniteSetsExt

CONSTANTS
    Requests,             \* calls of clients
    Streamed,             \* the requests with stream = true
    Structured,           \* the requests with a response_format
    Routes,               \* enabled providers of the alias, in configured order
    Weighted,             \* strategy = weighted_round_robin (else priority)
    Weight,               \* route weight by provider
    MaxRetriesPerRequest, MaxRetriesPerRoute,
    StructuredRetries,    \* structured_output_retries
    FailureThreshold,     \* circuit_breaker.failure_threshold
    Burst                 \* rate_limit.burst

Providers == {Routes[i] : i \in DOMAIN Routes}

\* A route is named by its place in the configuration.
Routing == DOMAIN Routes

ASSUME GatewayAssumption ==
    /\ Routes \in Seq(Providers) /\ Routes # <<>>
    /\ Streamed \subseteq Requests /\ Structured \subseteq Requests \ Streamed
    /\ Weighted \in BOOLEAN
    /\ Weight \in [Providers -> Nat \ {0}]
    /\ MaxRetriesPerRequest \in Nat /\ MaxRetriesPerRoute \in Nat
    /\ StructuredRetries \in Nat
    /\ FailureThreshold \in Nat \ {0} /\ Burst \in Nat \ {0}

VARIABLES
    circuit,    \* CircuitState by provider
    turn,       \* the alias's round-robin counter
    tokens,     \* whole tokens in the client's bucket
    call,       \* what each request has done
    usage       \* status of the usage_events row of each request

vars == <<circuit, turn, tokens, call, usage>>

\* opened_at is not set, within the cooldown, or longer ago than that.
Opened == {"no", "open", "cooled"}

Status == {"none", "success", "error", "cancelled"}

Awaiting == {"upstream", "backoff", "reading"}

CallRecord ==
    [pc      : {"new", "prepare", "ready", "record", "done"} \cup Awaiting,
     route   : {0} \cup Routing,  \* the candidate being tried, 0 if none yet
     rest    : SUBSET Routing,  \* the candidates left, tried in configured order
     budget  : Nat,             \* RetryBudget.attempts
     tries   : Nat,             \* local retries on the current route
     repairs : Nat,             \* structured_attempt
     status  : Status,          \* metrics.status
     sent    : Nat,             \* history: requests sent upstream
     bytes   : SUBSET Nat,      \* history: upstream streams the client got bytes of
     answer  : {"none", "response", "error", "refused", "gone", "crash"}]

Fresh == [pc |-> "new", route |-> 0, rest |-> {}, budget |-> 0, tries |-> 0, repairs |-> 0,
          status |-> "none", sent |-> 0, bytes |-> {}, answer |-> "none"]

Closed == [failures |-> 0, opened |-> "no"]

Init ==
    /\ circuit = [p \in Providers |-> Closed]
    /\ turn = 0
    /\ tokens = Burst
    /\ call = [r \in Requests |-> Fresh]
    /\ usage = [r \in Requests |-> "none"]

-------------------------------------------------------------------------------
(* Router *)

\* record_success
Succeeded(cs, p) == [cs EXCEPT ![p] = Closed]

\* Mutant: the threshold is compared before the failure is counted.
FailedUncounted(cs, p) ==
    [cs EXCEPT ![p] =
        [failures |-> @.failures + 1,
         opened   |-> IF @.failures >= FailureThreshold THEN "open" ELSE @.opened]]

\* record_failure
FailedOnce(cs, p) ==
    [cs EXCEPT ![p] =
        [failures |-> @.failures + 1,
         opened   |-> IF @.failures + 1 >= FailureThreshold THEN "open" ELSE @.opened]]

\* Mutant: routes with an open circuit are offered too.
AnyRoute(cs) == Routing

\* The filter of candidates, with _is_available.
Available(cs) == {i \in Routing : cs[Routes[i]].opened # "open"}

\* What _is_available leaves: a circuit that has cooled down starts afresh.
Probed(cs) == [p \in Providers |-> IF cs[p].opened = "cooled" THEN Closed ELSE cs[p]]

\* The entries of the list weighted that come from the routes in S up to i: each
\* route stands there as often as its weight says.
Slots(S, i) == UNION {{j} \X (1..Weight[Routes[j]]) : j \in {k \in S : k <= i}}

\* The route at weighted[offset], for the n-th call.
Primary(S, n) ==
    LET offset == n % Cardinality(Slots(S, Len(Routes)))
    IN CHOOSE i \in S : /\ Cardinality(Slots(S, i - 1)) <= offset
                        /\ offset < Cardinality(Slots(S, i))

\* The route candidates puts first; the others follow in configured order.
First(S, n) == IF Weighted THEN Primary(S, n) ELSE Min(S)

\* The record c goes to route i with the routes in S left.
Routed(c, i, S) == [c EXCEPT !.route = i, !.rest = S \ {i}, !.tries = 0]

-------------------------------------------------------------------------------
(* What a task does between two awaits *)

Exhausted(c) == c.budget >= MaxRetriesPerRequest + 1

\* consume_attempt, and the request goes out.
Sent(c) == [c EXCEPT !.pc = "upstream", !.budget = @ + 1, !.sent = @ + 1]

\* Mutant: a status that is set already is kept.
EndedAsBefore(c, status, answer) ==
    [c EXCEPT !.pc = "record", !.answer = answer,
              !.status = IF @ = "none" THEN status ELSE @]

\* Leaves complete or generate through finally, with what the client gets: a
\* "crash" is a 500, or a stream that breaks off, after an exception that is no
\* GatewayError.  _apply_error_metrics sets status to "error".
Ended(c, status, answer) ==
    [c EXCEPT !.pc = "record", !.status = status, !.answer = answer]

\* Mutant: a stream that fails is retried although bytes have gone out.
RetriedAnyway(c, retryable) ==
    IF retryable /\ c.tries < MaxRetriesPerRoute /\ ~Exhausted(c)
    THEN [c EXCEPT !.pc = "backoff", !.tries = @ + 1]
    ELSE IF c.rest # {} /\ ~Exhausted(c)
    THEN Sent(Routed(c, Min(c.rest), c.rest))
    ELSE Ended(c, "error", "error")

\* The except branches of complete and generate: retry here, go on to the next
\* route, or give up.  Once bytes have gone out a stream only ends.
AfterFailure(c, retryable) ==
    IF c.bytes # {} THEN Ended(c, "error", "error")
    ELSE IF retryable /\ c.tries < MaxRetriesPerRoute /\ ~Exhausted(c)
    THEN [c EXCEPT !.pc = "backoff", !.tries = @ + 1]
    ELSE IF c.rest # {} /\ ~Exhausted(c)
    THEN Sent(Routed(c, Min(c.rest), c.rest))
    ELSE Ended(c, "error", "error")

\* A pass over fresh candidates begins: complete sends at once, stream returns
\* a StreamResult whose generator somebody must start.
WithRoutes(r, c, S) ==
    LET d == Routed(c, First(S, turn), S)
    IN IF r \in Streamed THEN [d EXCEPT !.pc = "ready"] ELSE Sent(d)

\* candidates moves the counter on.
Turned == IF Weighted THEN turn + 1 ELSE turn

\* candidates for request r whose record is c, over the circuits cs: the pass
\* begins or no_healthy_route is raised.
StartPass(r, c, cs) ==
    /\ circuit' = Probed(cs)
    /\ \/ /\ Available(cs) # {}
          /\ call' = [call EXCEPT ![r] = WithRoutes(r, c, Available(cs))]
          /\ turn' = Turned
       \/ /\ Available(cs) = {}
          /\ call' = [call EXCEPT ![r] = Ended(c, "error", "error")]
          /\ UNCHANGED turn

\* An answer arrives: status is set before anything is validated.
Taken(c) == [c EXCEPT !.status = "success"]

\* Mutant: the repaired request starts with a budget of its own.
RepairedAfresh(c) == [c EXCEPT !.repairs = @ + 1, !.budget = 0]

\* _request_with_repair
Repaired(c) == [c EXCEPT !.repairs = @ + 1]

-------------------------------------------------------------------------------
(* Requests *)

Current(r) == Routes[call[r].route]

Put(r, c) == call' = [call EXCEPT ![r] = c]

\* Mutant: the bucket is not looked at before a token is taken.
AdmitUnchecked(r) ==
    /\ call[r].pc = "new"
    /\ tokens' = tokens - 1
    /\ Put(r, [call[r] EXCEPT !.pc = "prepare"])
    /\ UNCHANGED <<circuit, turn, usage>>

\* _model_call: check takes a token or refuses.
Admit(r) ==
    /\ call[r].pc = "new"
    /\ \/ /\ tokens >= 1
          /\ tokens' = tokens - 1
          /\ Put(r, [call[r] EXCEPT !.pc = "prepare"])
       \/ /\ tokens < 1
          /\ Put(r, [call[r] EXCEPT !.pc = "done", !.answer = "refused"])
          /\ UNCHANGED tokens
    /\ UNCHANGED <<circuit, turn, usage>>

\* The prompt is resolved and the first pass begins.
Begin(r) ==
    /\ call[r].pc = "prepare"
    /\ StartPass(r, call[r], circuit)
    /\ UNCHANGED <<tokens, usage>>

\* Something raises before anything is sent: in the resolution of the prompt, or
\* in build_request, when candidates has been called already.
MayHaveChosen ==
    \/ UNCHANGED <<circuit, turn>>
    \/ /\ Available(circuit) # {}
       /\ circuit' = Probed(circuit)
       /\ turn' = Turned

\* It is a GatewayError: unknown prompt, failed rendering, parameters the adapter
\* refuses.
BeginFails(r) ==
    /\ call[r].pc = "prepare"
    /\ MayHaveChosen
    /\ Put(r, Ended(call[r], "error", "error"))
    /\ UNCHANGED <<tokens, usage>>

\* It is another exception (the prompt store fails): complete goes through
\* finally, stream has no branch for it and records nothing.
BeginCrashes(r) ==
    /\ call[r].pc = "prepare"
    /\ MayHaveChosen
    /\ Put(r, IF r \in Streamed THEN [call[r] EXCEPT !.pc = "done", !.answer = "crash"]
              ELSE Ended(call[r], call[r].status, "crash"))
    /\ UNCHANGED <<tokens, usage>>

\* Mutant: the generator waits for its first provider to be healthy.
StartStreamWhenHealthy(r) ==
    /\ call[r].pc = "ready" /\ circuit[Current(r)].opened # "open"
    /\ Put(r, Sent(call[r]))
    /\ UNCHANGED <<circuit, turn, tokens, usage>>

\* The server starts to iterate the generator that stream has returned.
StartStream(r) ==
    /\ call[r].pc = "ready"
    /\ Put(r, Sent(call[r]))
    /\ UNCHANGED <<circuit, turn, tokens, usage>>

\* The upstream call fails with an UpstreamError, or the stream breaks while it
\* is read.
UpstreamFails(r, retryable) ==
    /\ call[r].pc \in {"upstream", "reading"}
    /\ circuit' = FailedOnce(circuit, Current(r))
    /\ Put(r, AfterFailure(call[r], retryable))
    /\ UNCHANGED <<turn, tokens, usage>>

\* The upstream call raises what request_json and open_stream do not translate (a
\* RemoteProtocolError, an undecodable body), or a chunk cannot be parsed.  The
\* call ends without a retry, the circuit does not hear of it, and status stays
\* as the answer before left it.
UpstreamCrashes(r) ==
    /\ call[r].pc \in {"upstream", "reading"}
    /\ Put(r, Ended(call[r], call[r].status, "crash"))
    /\ UNCHANGED <<circuit, turn, tokens, usage>>

\* _backoff is over.  Nobody else spends this request's budget.
Retry(r) ==
    /\ call[r].pc = "backoff"
    /\ Put(r, Sent(call[r]))
    /\ UNCHANGED <<circuit, turn, tokens, usage>>

\* complete gets an answer that is good as it is.
Answered(r) ==
    /\ call[r].pc = "upstream" /\ r \notin Streamed
    /\ circuit' = Succeeded(circuit, Current(r))
    /\ Put(r, Ended(call[r], "success", "response"))
    /\ UNCHANGED <<turn, tokens, usage>>

\* complete gets an answer that does not match the schema: repair, while
\* rounds and budget last, with a new pass over the candidates.
AnsweredInvalid(r) ==
    LET c  == Taken(call[r])
        cs == Succeeded(circuit, Current(r))
    IN /\ call[r].pc = "upstream" /\ r \in Structured
       /\ \/ /\ c.repairs < StructuredRetries /\ ~Exhausted(c)
             /\ StartPass(r, Repaired(c), cs)
          \/ /\ c.repairs >= StructuredRetries \/ Exhausted(c)
             /\ circuit' = cs
             /\ Put(r, Ended(c, "error", "error"))
             /\ UNCHANGED turn
       /\ UNCHANGED <<tokens, usage>>

\* complete gets an answer that parse_response or validate cannot handle: the
\* client's schema is itself invalid (SchemaError), or the answer has an
\* unexpected shape.  status says "success" already.
ValidationCrashes(r) ==
    /\ call[r].pc = "upstream" /\ r \in Structured
    /\ circuit' = Succeeded(circuit, Current(r))
    /\ Put(r, Ended(call[r], "success", "crash"))
    /\ UNCHANGED <<turn, tokens, usage>>

\* open_stream succeeds.  The circuit hears of it when the stream has ended.
StreamOpens(r) ==
    /\ call[r].pc = "upstream" /\ r \in Streamed
    /\ Put(r, [call[r] EXCEPT !.pc = "reading"])
    /\ UNCHANGED <<circuit, turn, tokens, usage>>

\* A chunk is handed on to the client.
Chunk(r) ==
    /\ call[r].pc = "reading"
    /\ Put(r, [call[r] EXCEPT !.bytes = @ \cup {call[r].sent}])
    /\ UNCHANGED <<circuit, turn, tokens, usage>>

StreamEnds(r) ==
    /\ call[r].pc = "reading"
    /\ circuit' = Succeeded(circuit, Current(r))
    /\ Put(r, Ended(call[r], "success", "response"))
    /\ UNCHANGED <<turn, tokens, usage>>

\* The client goes away, or the server shuts down.  A stream notices it at its
\* next chunk (is_disconnected) or is cancelled at an await; complete has no
\* branch for the cancellation, so status stays as the last answer left it, and
\* neither has stream before it returns its generator.
Cancelled(r) ==
    /\ call[r].pc \in Awaiting \cup {"prepare"}
    /\ \/ /\ r \in Streamed /\ call[r].pc \in Awaiting
          /\ Put(r, Ended(call[r], "cancelled", "gone"))
       \/ /\ r \in Streamed /\ call[r].pc = "prepare"
          /\ Put(r, [call[r] EXCEPT !.pc = "done", !.answer = "gone"])
       \/ /\ r \notin Streamed
          /\ Put(r, Ended(call[r], call[r].status, "gone"))
    /\ UNCHANGED <<circuit, turn, tokens, usage>>

\* The server drops the generator while a chunk is being sent: GeneratorExit at
\* the yield runs finally and no except branch.
Dropped(r) ==
    /\ call[r].pc = "reading" /\ call[r].sent \in call[r].bytes
    /\ Put(r, Ended(call[r], call[r].status, "gone"))
    /\ UNCHANGED <<circuit, turn, tokens, usage>>

\* The client goes away before the generator was started: its finally never
\* runs.
NeverStarted(r) ==
    /\ call[r].pc = "ready"
    /\ Put(r, [call[r] EXCEPT !.pc = "done", !.answer = "gone"])
    /\ UNCHANGED <<circuit, turn, tokens, usage>>

\* _record_usage_safely: the row is written, or the failure is only logged.
Record(r) ==
    /\ call[r].pc = "record"
    /\ usage' = [usage EXCEPT ![r] =
                   IF call[r].status = "none" THEN "error" ELSE call[r].status]
    /\ Put(r, [call[r] EXCEPT !.pc = "done"])
    /\ UNCHANGED <<circuit, turn, tokens>>

RecordFails(r) ==
    /\ call[r].pc = "record"
    /\ Put(r, [call[r] EXCEPT !.pc = "done"])
    /\ UNCHANGED <<circuit, turn, tokens, usage>>

-------------------------------------------------------------------------------
(* Administration and time *)

\* status: an administrator who looks at the circuits resets those that have
\* cooled down, as candidates does.
ShowStatus ==
    /\ \E p \in Providers : circuit[p].opened = "cooled"
    /\ circuit' = Probed(circuit)
    /\ UNCHANGED <<turn, tokens, call, usage>>

\* cooldown_seconds have passed since opened_at.
CoolsDown(p) ==
    /\ circuit[p].opened = "open"
    /\ circuit' = [circuit EXCEPT ![p].opened = "cooled"]
    /\ UNCHANGED <<turn, tokens, call, usage>>

\* The bucket has gained a whole token.
Refill ==
    /\ tokens < Burst
    /\ tokens' = tokens + 1
    /\ UNCHANGED <<circuit, turn, call, usage>>

Serve(r) ==
    \/ Begin(r) \/ StartStream(r) \/ Retry(r)
    \/ Answered(r) \/ AnsweredInvalid(r) \/ StreamOpens(r) \/ StreamEnds(r)
    \/ \E retryable \in BOOLEAN : UpstreamFails(r, retryable)
    \/ Record(r)

Next ==
    \/ \E r \in Requests : \/ Admit(r) \/ Serve(r) \/ BeginFails(r) \/ BeginCrashes(r)
                           \/ UpstreamCrashes(r) \/ ValidationCrashes(r) \/ Chunk(r)
                           \/ Cancelled(r) \/ Dropped(r) \/ NeverStarted(r)
                           \/ RecordFails(r)
    \/ \E p \in Providers : CoolsDown(p)
    \/ Refill \/ ShowStatus

\* Upstream calls have timeouts, backoffs are finite and the server iterates
\* what it was given: a call that was let in is not left standing.
Spec == Init /\ [][Next]_vars /\ \A r \in Requests : WF_vars(Serve(r))

-------------------------------------------------------------------------------
(* Properties *)

\* Type invariant; the bucket of rate_limit.py never goes below zero or above
\* its burst.
TypeOK ==
    /\ circuit \in [Providers -> [failures : Nat, opened : Opened]]
    /\ turn \in Nat
    /\ tokens \in 0..Burst
    /\ call \in [Requests -> CallRecord]
    /\ usage \in [Requests -> Status]

\* README "普通重试、fallback 与结构化修复共享请求级重试预算": over all routes,
\* local retries and repair rounds a request is sent upstream at most
\* max_retries_per_request + 1 times.
AttemptsBounded == \A r \in Requests : call[r].sent <= MaxRetriesPerRequest + 1

\* design.md section 9: once bytes of one upstream stream have reached the
\* client it gets bytes of no other, whatever is retried.
OneStreamReachesClient == \A r \in Requests : Cardinality(call[r].bytes) <= 1

\* The usage ledger agrees with what the client got, however many attempts and
\* repair rounds came before: a delivered response is a success, an error of the
\* gateway an error, and only a client that has gone is "cancelled".  A success
\* was delivered, except that complete sets status when an answer arrives: a
\* structured call that crashes or is cancelled after that still says "success".
LedgerAgrees ==
    \A r \in Requests : usage[r] # "none" =>
       /\ call[r].answer = "response" => usage[r] = "success"
       /\ call[r].answer = "error" => usage[r] = "error"
       /\ usage[r] = "cancelled" => call[r].answer = "gone"
       /\ usage[r] = "success" /\ r \notin Structured => call[r].answer = "response"

\* design.md section 9, "客户端断开时取消上游请求，并记录为 `cancelled`": a stream
\* whose client has gone is recorded as cancelled, if it is recorded.
DisconnectIsCancelled ==
    \A r \in Streamed : usage[r] # "none" /\ call[r].answer = "gone" => usage[r] = "cancelled"

\* A circuit is open, or waiting to be probed, exactly while the failures
\* counted since the last success have reached the threshold, in whatever
\* order concurrent requests report.
CircuitAgrees ==
    \A p \in Providers :
       circuit[p].opened # "no" <=> circuit[p].failures >= FailureThreshold

\* An open circuit is only drained: a provider whose circuit stays open is sent
\* something only by a call that chose its candidates before, never by a new
\* pass of a request.
DrainsOnly ==
    \A r \in Requests :
       /\ call'[r].sent > call[r].sent
       /\ circuit[Routes[call'[r].route]].opened = "open"
       /\ circuit'[Routes[call'[r].route]].opened = "open"
       => \/ call'[r].route = call[r].route /\ call'[r].rest = call[r].rest
          \/ call'[r].route \in call[r].rest /\ call'[r].rest = call[r].rest \ {call'[r].route}

OpenCircuitsDrain == [][DrainsOnly]_vars

\* A call that was let in ends, however the providers fail and whatever the
\* retry, fallback and repair loops do.
EveryCallEnds == \A r \in Requests : call[r].pc = "prepare" ~> call[r].pc = "done"
===============================================================================
