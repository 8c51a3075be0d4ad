--------------------------- MODULE LlmGatewayProofs ---------------------------
(***************************************************************************)
(* Theorems about the LLM gateway, for every number of concurrent          *)
(* requests, every configuration of routes and weights and every limit.    *)
(***************************************************************************)
EXTENDS LlmGateway, FiniteSetTheorems, WellFoundedInduction, TLAPS

-------------------------------------------------------------------------------
(* Routes *)

\* A non-empty set of route indices, or of any naturals, has a least element.
LEMMA LeastNatural ==
    ASSUME NEW S \in SUBSET Nat, S # {}
    PROVE  \E i \in S : \A j \in S : i <= j
<1> DEFINE less == {ss \in Nat \X Nat : ss[1] < ss[2]}
<1>1. IsWellFoundedOn(less, Nat)
  BY NatLessThanWellFounded DEF OpToRel
<1>2. PICK i \in S : \A j \in S : ~(<<j, i>> \in less)
  <2> HIDE DEF less
  <2> QED
    BY <1>1, WFMin
<1>3. \A j \in S : i <= j
  <2> TAKE j \in S
  <2>1. <<j, i>> \in Nat \X Nat /\ ~(<<j, i>> \in less)
    BY <1>2
  <2>2. ~(j < i)
    BY <2>1
  <2> QED
    BY <2>2
<1> QED
  BY <1>3

\* Min picks the least.
LEMMA MinIsLeast ==
    ASSUME NEW S \in SUBSET Nat, S # {}
    PROVE  Min(S) \in S
BY LeastNatural DEF Min

\* The routes are numbered from 1.
LEMMA RoutingIsInterval ==
    /\ Len(Routes) \in Nat /\ Routing = 1..Len(Routes) /\ Len(Routes) \in Routing
    /\ \A i \in Routing : Routes[i] \in Providers
BY GatewayAssumption DEF Routing, Providers

\* The list weighted is finite, and so is every part of it.
LEMMA SlotsFinite ==
    ASSUME NEW S \in SUBSET Routing, NEW n \in Int
    PROVE  IsFiniteSet(Slots(S, n))
<1> DEFINE low == {k \in S : k <= n}
           per == [j \in low |-> {j} \X (1..Weight[Routes[j]])]
           parts == {per[j] : j \in low}
<1>1. IsFiniteSet(low)
  BY RoutingIsInterval, FS_Interval, FS_Subset, low \in SUBSET (1..Len(Routes)),
     IsFiniteSet(1..Len(Routes))
<1>2. per \in Surjection(low, parts)
  BY DEF Surjection
<1>3. IsFiniteSet(parts)
  BY <1>1, <1>2, FS_Surjection
<1>4. ASSUME NEW j \in low PROVE IsFiniteSet(per[j])
  <2>1. Weight[Routes[j]] \in Nat
    BY RoutingIsInterval, GatewayAssumption
  <2> QED
    <3>1. IsFiniteSet({j}) /\ IsFiniteSet(1..Weight[Routes[j]])
      <4>1. 1 \in Int /\ Weight[Routes[j]] \in Int
        BY <2>1
      <4>2. IsFiniteSet(1..Weight[Routes[j]])
        BY <4>1, FS_Interval, Zenon
      <4> QED
        BY <4>2, FS_Singleton
    <3>2. per[j] = {j} \X (1..Weight[Routes[j]])
      OBVIOUS
    <3>3. IsFiniteSet({j} \X (1..Weight[Routes[j]]))
      BY <3>1, FS_Product
    <3> QED
      BY <3>2, <3>3
<1>5. \A T \in parts : IsFiniteSet(T)
  BY <1>4
<1>6. Slots(S, n) = UNION parts
  BY DEF Slots
<1> QED
  BY <1>3, <1>5, <1>6, FS_UNION

\* weighted[offset] exists and belongs to one of the available routes.
LEMMA PrimaryAvailable ==
    ASSUME NEW S \in SUBSET Routing, S # {}, NEW n \in Nat
    PROVE  Primary(S, n) \in S
<1> DEFINE size(i) == Cardinality(Slots(S, i))
           all     == size(Len(Routes))
           offset  == n % all
           beyond  == {i \in Routing : offset < size(i)}
<1>1. \A i \in Int : size(i) \in Nat
  BY SlotsFinite, FS_CardinalityType
<1>2. all \in Nat /\ all > 0
  <2>1. PICK j \in S : TRUE
    OBVIOUS
  <2>2. Weight[Routes[j]] \in Nat \ {0} /\ j <= Len(Routes)
    BY RoutingIsInterval, GatewayAssumption
  <2>3. <<j, 1>> \in Slots(S, Len(Routes))
    BY <2>2 DEF Slots
  <2>4. Len(Routes) \in Int
    BY RoutingIsInterval
  <2>5. IsFiniteSet(Slots(S, Len(Routes))) /\ Slots(S, Len(Routes)) # {}
    BY <2>3, <2>4, SlotsFinite
  <2>6. all # 0
    BY <2>5, FS_EmptySet
  <2>7. all \in Nat
    BY <1>1, <2>4
  <2> HIDE DEF all
  <2> QED
    BY <2>6, <2>7
<1>3. offset \in Nat /\ offset < all
  <2> HIDE DEF all
  <2> QED
    BY <1>2
<1> HIDE DEF offset, size
<1>4. Len(Routes) \in beyond /\ beyond \in SUBSET Nat
  BY <1>3, RoutingIsInterval
<1>5. PICK i \in beyond : \A j \in beyond : i <= j
  BY <1>4, LeastNatural
<1>6. i \in Routing /\ i \in 1..Len(Routes) /\ i \in Int /\ offset < size(i)
  BY RoutingIsInterval
<1>7. size(i - 1) <= offset
  <2>1. CASE i = 1
    <3>0. \A k \in S : k \in Int /\ k >= 1
      BY RoutingIsInterval
    <3>1. {k \in S : k <= 0} = {}
      BY <3>0
    <3>3. Slots(S, 0) = {}
      BY <3>1 DEF Slots
    <3>2. size(i - 1) = 0
      BY <2>1, <3>3, FS_EmptySet DEF size
    <3> QED
      BY <3>2, <1>3
  <2>2. CASE i # 1
    <3>1. i - 1 \in Routing /\ i - 1 \in Int /\ ~(i <= i - 1)
      BY <2>2, <1>6, RoutingIsInterval
    <3>2. ~(offset < size(i - 1))
      BY <3>1, <1>5
    <3> QED
      BY <3>1, <3>2, <1>1, <1>3
  <2> QED
    BY <2>1, <2>2
<1>8. i \in S
  <2>1. SUFFICES ASSUME i \notin S PROVE FALSE
    OBVIOUS
  <2>2. {k \in S : k <= i} = {k \in S : k <= i - 1}
    <3>1. \A k \in S : k \in Int /\ k # i
      BY <2>1, RoutingIsInterval
    <3>2. \A k \in S : k <= i <=> k <= i - 1
      BY <3>1, <1>6
    <3> QED
      BY <3>2
  <2>3. size(i) = size(i - 1)
    BY <2>2 DEF Slots, size
  <2> QED
    BY <2>3, <1>1, <1>3, <1>6, <1>7
<1> QED
  BY <1>6, <1>7, <1>8 DEF Primary, size, offset

\* Whatever the strategy, candidates puts an available route first.
LEMMA FirstAvailable ==
    ASSUME NEW S \in SUBSET Routing, S # {}, NEW n \in Nat
    PROVE  First(S, n) \in S
BY PrimaryAvailable, MinIsLeast, RoutingIsInterval DEF First

-------------------------------------------------------------------------------
(* What holds of a call at every await *)

\* The inductive invariant of one call.  The budget counts exactly what was sent,
\* and a call that will send again without asking (after a backoff, or when its
\* stream is started) has an attempt left.  Bytes come from the latest stream only,
\* and while there may be another stream there are none.  What the client got
\* agrees with the status that will be recorded; only a structured call has the
\* status of success before it has delivered something, while it is repaired.
Sound(r, c) ==
    /\ c.sent = c.budget /\ c.budget <= MaxRetriesPerRequest + 1
    /\ c.pc \in {"new", "prepare", "ready"} => c.budget = 0
    /\ c.pc = "backoff" => c.budget <= MaxRetriesPerRequest
    /\ c.pc \in Awaiting \cup {"ready"} => c.route # 0
    /\ c.bytes \subseteq {c.sent}
    /\ c.pc \notin {"reading", "record", "done"} => c.bytes = {}
    /\ c.pc \notin {"record", "done"} => c.answer = "none" /\ c.status # "cancelled"
    /\ c.answer = "response" => c.status = "success"
    /\ c.answer = "error" => c.status = "error"
    /\ c.status = "cancelled" => c.answer = "gone"
    /\ c.status = "success" => c.answer = "response" \/ r \in Structured

\* A row is written once, when the call is over, from its status.
RowsAreFinal ==
    \A r \in Requests : usage[r] # "none" =>
        /\ call[r].pc = "done"
        /\ usage[r] = IF call[r].status = "none" THEN "error" ELSE call[r].status

GatewayInv ==
    /\ TypeOK
    /\ \A r \in Requests : Sound(r, call[r])
    /\ RowsAreFinal
    /\ CircuitAgrees

\* Sending keeps a call sound if the budget has an attempt left and nothing has
\* reached the client.
LEMMA SentSound ==
    ASSUME NEW r \in Requests, NEW c \in CallRecord, c.route # 0, c.sent = c.budget,
           c.budget <= MaxRetriesPerRequest, c.bytes = {}, c.answer = "none",
           c.status # "cancelled", c.status = "success" => r \in Structured
    PROVE  Sent(c) \in CallRecord /\ Sound(r, Sent(c))
<1> DEFINE d == Sent(c)
<1>1. c.budget \in Nat /\ c.sent \in Nat /\ MaxRetriesPerRequest \in Nat
  BY GatewayAssumption DEF CallRecord
<1>2. d = [c EXCEPT !.pc = "upstream", !.budget = c.budget + 1, !.sent = c.sent + 1]
  BY DEF Sent
<1>3. d \in CallRecord
  <2> DEFINE m == c.budget + 1
             n == c.sent + 1
  <2>1. m \in Nat /\ n \in Nat
    BY <1>1
  <2>2. d = [c EXCEPT !.pc = "upstream", !.budget = m, !.sent = n]
    BY <1>2
  <2> HIDE DEF m, n, d
  <2> QED
    BY <2>1, <2>2 DEF CallRecord, Awaiting
<1>4. /\ d.pc = "upstream" /\ d.budget = c.budget + 1 /\ d.sent = c.sent + 1
      /\ d.route = c.route /\ d.bytes = c.bytes /\ d.answer = c.answer
      /\ d.status = c.status
  BY <1>2 DEF CallRecord
<1> HIDE DEF d
<1>5. Sound(r, d)
  BY <1>1, <1>4 DEF Sound
<1> QED
  BY <1>3, <1>5 DEF d

\* Ending keeps a call sound if the answer agrees with the status.
LEMMA EndedSound ==
    ASSUME NEW r \in Requests, NEW c \in CallRecord, Sound(r, c), NEW status \in Status,
           NEW answer \in {"response", "error", "gone", "crash"},
           answer = "response" => status = "success",
           answer = "error" => status = "error",
           status = "cancelled" => answer = "gone",
           status = "success" => answer = "response" \/ r \in Structured
    PROVE  Ended(c, status, answer) \in CallRecord /\ Sound(r, Ended(c, status, answer))
BY ZenonT(40) DEF Ended, Sound, CallRecord, Awaiting

\* Going to a route keeps the type.
LEMMA RoutedTyped ==
    ASSUME NEW c \in CallRecord, NEW S \in SUBSET Routing, NEW i \in S
    PROVE  Routed(c, i, S) \in CallRecord
<1>1. i \in Routing /\ S \ {i} \in SUBSET Routing /\ 0 \in Nat
  OBVIOUS
<1>2. c.rest \in SUBSET Routing
  BY DEF CallRecord
<1> QED
  BY <1>1, <1>2, ZenonT(40) DEF Routed, CallRecord

\* The other steps of a call: it is let in or refused, its stream opens, it ends
\* before its generator runs, its row is written.
LEMMA MovedSound ==
    ASSUME NEW r \in Requests, NEW c \in CallRecord, Sound(r, c)
    PROVE  /\ c.pc = "new" => LET d == [c EXCEPT !.pc = "prepare"]
                              IN d \in CallRecord /\ Sound(r, d)
           /\ c.pc = "new" => LET d == [c EXCEPT !.pc = "done", !.answer = "refused"]
                              IN d \in CallRecord /\ Sound(r, d)
           /\ c.pc = "upstream" => LET d == [c EXCEPT !.pc = "reading"]
                                   IN d \in CallRecord /\ Sound(r, d)
           /\ c.pc \in {"prepare", "ready"} =>
                \A answer \in {"gone", "crash"} :
                   LET d == [c EXCEPT !.pc = "done", !.answer = answer]
                   IN d \in CallRecord /\ Sound(r, d)
           /\ c.pc = "record" => LET d == [c EXCEPT !.pc = "done"]
                                 IN d \in CallRecord /\ Sound(r, d)
<1> USE DEF CallRecord, Sound, Awaiting
<1>1. ASSUME c.pc = "new"
      PROVE  LET d == [c EXCEPT !.pc = "prepare"] IN d \in CallRecord /\ Sound(r, d)
  BY <1>1
<1>2. ASSUME c.pc = "new"
      PROVE  LET d == [c EXCEPT !.pc = "done", !.answer = "refused"]
             IN d \in CallRecord /\ Sound(r, d)
  BY <1>2
<1>3. ASSUME c.pc = "upstream"
      PROVE  LET d == [c EXCEPT !.pc = "reading"] IN d \in CallRecord /\ Sound(r, d)
  BY <1>3
<1>4. ASSUME c.pc \in {"prepare", "ready"}, NEW answer \in {"gone", "crash"}
      PROVE  LET d == [c EXCEPT !.pc = "done", !.answer = answer]
             IN d \in CallRecord /\ Sound(r, d)
  BY <1>4
<1>5. ASSUME c.pc = "record"
      PROVE  LET d == [c EXCEPT !.pc = "done"] IN d \in CallRecord /\ Sound(r, d)
  BY <1>5
<1> QED
  BY <1>1, <1>2, <1>3, <1>4, <1>5

\* An answer is taken: status is set, and only a structured request goes on.
LEMMA TakenSound ==
    ASSUME NEW r \in Structured, NEW c \in CallRecord, Sound(r, c), c.pc = "upstream"
    PROVE  /\ Taken(c) \in CallRecord /\ Sound(r, Taken(c))
           /\ Taken(c).pc = "upstream" /\ Taken(c).bytes = {} /\ Taken(c).sent = c.sent
           /\ Taken(c).answer = "none" /\ Taken(c).status = "success"
<1>1. Taken(c) \in CallRecord
  BY DEF Taken, CallRecord, Status
<1>2. Sound(r, Taken(c))
  BY DEF Taken, CallRecord, Sound, Awaiting
<1> QED
  BY <1>1, <1>2 DEF Taken, CallRecord, Sound

\* A repair round spends nothing of the budget and gives nothing back.
LEMMA RepairedSound ==
    ASSUME NEW r \in Requests, NEW c \in CallRecord, Sound(r, c)
    PROVE  /\ Repaired(c) \in CallRecord /\ Sound(r, Repaired(c))
           /\ Repaired(c).budget = c.budget /\ Repaired(c).bytes = c.bytes
           /\ Repaired(c).answer = c.answer /\ Repaired(c).status = c.status
           /\ Repaired(c).sent = c.sent
<1> DEFINE n == c.repairs + 1
           d == Repaired(c)
<1>1. n \in Nat
  BY DEF CallRecord
<1>2. d = [c EXCEPT !.repairs = n]
  BY DEF Repaired, CallRecord
<1> HIDE DEF n, d
<1>3. d \in CallRecord
  BY <1>1, <1>2 DEF CallRecord
<1>4. /\ d.pc = c.pc /\ d.budget = c.budget /\ d.bytes = c.bytes /\ d.answer = c.answer
      /\ d.status = c.status /\ d.sent = c.sent /\ d.route = c.route
  BY <1>2 DEF CallRecord
<1>5. Sound(r, d)
  BY <1>4 DEF Sound
<1> QED
  BY <1>3, <1>4, <1>5 DEF d

\* A failed attempt is retried, passed on or ends the call.
LEMMA AfterFailureSound ==
    ASSUME NEW r \in Requests, NEW c \in CallRecord, Sound(r, c),
           c.pc \in {"upstream", "reading"}, NEW retryable \in BOOLEAN
    PROVE  AfterFailure(c, retryable) \in CallRecord /\ Sound(r, AfterFailure(c, retryable))
<1> DEFINE ended == Ended(c, "error", "error")
<1>1. ended \in CallRecord /\ Sound(r, ended)
  BY EndedSound DEF Status
<1>2. CASE c.bytes # {}
  BY <1>1, <1>2 DEF AfterFailure
<1>3. CASE c.bytes = {} /\ retryable /\ c.tries < MaxRetriesPerRoute /\ ~Exhausted(c)
  <2> DEFINE d == [c EXCEPT !.pc = "backoff", !.tries = @ + 1]
  <2>1. AfterFailure(c, retryable) = d
    BY <1>3 DEF AfterFailure
  <2>2. d \in CallRecord /\ Sound(r, d)
    <3>1. c.tries + 1 \in Nat /\ c.budget \in Nat /\ c.budget <= MaxRetriesPerRequest
      BY <1>3, GatewayAssumption DEF CallRecord, Exhausted
    <3> DEFINE n == c.tries + 1
    <3>2. d = [c EXCEPT !.pc = "backoff", !.tries = n] /\ n \in Nat
      BY <3>1
    <3> HIDE DEF n, d
    <3>3. d \in CallRecord
      BY <3>2 DEF CallRecord, Awaiting
    <3>4. Sound(r, d)
      BY <1>3, <3>1, <3>2 DEF Sound, CallRecord, Awaiting
    <3> QED
      BY <3>3, <3>4
  <2> QED
    BY <2>1, <2>2
<1>4. CASE /\ c.bytes = {} /\ ~(retryable /\ c.tries < MaxRetriesPerRoute /\ ~Exhausted(c))
           /\ c.rest # {} /\ ~Exhausted(c)
  <2> DEFINE d == Routed(c, Min(c.rest), c.rest)
  <2>1. AfterFailure(c, retryable) = Sent(d)
    BY <1>4 DEF AfterFailure
  <2>2. c.rest \in SUBSET Routing /\ c.rest \in SUBSET Nat
    BY RoutingIsInterval DEF CallRecord
  <2>3. Min(c.rest) \in c.rest /\ Min(c.rest) # 0
    BY <1>4, <2>2, MinIsLeast, RoutingIsInterval
  <2>4. d \in CallRecord /\ d = [c EXCEPT !.route = Min(c.rest),
                                         !.rest = c.rest \ {Min(c.rest)}, !.tries = 0]
    <3>1. d \in CallRecord
      BY <2>2, <2>3, RoutedTyped
    <3> QED
      BY <3>1 DEF Routed
  <2>5. /\ d.route # 0 /\ d.sent = d.budget /\ d.budget <= MaxRetriesPerRequest
        /\ d.bytes = {} /\ d.answer = "none" /\ d.status # "cancelled"
        /\ d.status = "success" => r \in Structured
    <3>1. /\ d.route = Min(c.rest) /\ d.sent = c.sent /\ d.budget = c.budget
          /\ d.bytes = c.bytes /\ d.answer = c.answer /\ d.status = c.status
      BY <2>4 DEF CallRecord
    <3>2. /\ c.sent = c.budget /\ c.answer = "none" /\ c.status # "cancelled"
          /\ c.budget \in Nat /\ c.budget <= MaxRetriesPerRequest + 1
          /\ c.budget # MaxRetriesPerRequest + 1
          /\ c.status = "success" => r \in Structured
      BY <1>4, GatewayAssumption DEF Sound, CallRecord, Exhausted, Awaiting
    <3> HIDE DEF d
    <3> QED
      BY <1>4, <2>3, <3>1, <3>2, GatewayAssumption
  <2> HIDE DEF d
  <2> QED
    BY <2>1, <2>4, <2>5, SentSound
<1> QED
  BY <1>1, <1>2, <1>3, <1>4 DEF AfterFailure

\* A pass over the routes in S begins.
LEMMA PassSound ==
    ASSUME NEW r \in Requests, NEW c \in CallRecord, NEW S \in SUBSET Routing, S # {},
           turn \in Nat, c.sent = c.budget, c.budget <= MaxRetriesPerRequest,
           r \in Streamed => c.budget = 0, c.bytes = {}, c.answer = "none",
           c.status # "cancelled", c.status = "success" => r \in Structured
    PROVE  WithRoutes(r, c, S) \in CallRecord /\ Sound(r, WithRoutes(r, c, S))
<1> DEFINE d == Routed(c, First(S, turn), S)
<1>1. First(S, turn) \in S /\ First(S, turn) # 0
  BY FirstAvailable, RoutingIsInterval
<1>2. d \in CallRecord /\ d = [c EXCEPT !.route = First(S, turn),
                                       !.rest = S \ {First(S, turn)}, !.tries = 0]
  <2>1. d = [c EXCEPT !.route = First(S, turn), !.rest = S \ {First(S, turn)}, !.tries = 0]
    BY DEF Routed
  <2>2. d \in CallRecord
    BY <1>1, RoutedTyped
  <2> QED
    BY <2>1, <2>2
<1>3. /\ d.route # 0 /\ d.sent = d.budget /\ d.budget <= MaxRetriesPerRequest
      /\ d.bytes = {} /\ d.answer = "none" /\ d.status # "cancelled"
      /\ r \in Streamed => d.budget = 0
      /\ d.status = "success" => r \in Structured
  BY <1>1, <1>2 DEF CallRecord
<1> HIDE DEF d
<1>4. CASE r \in Streamed
  <2> DEFINE e == [d EXCEPT !.pc = "ready"]
  <2>1. e \in CallRecord /\ Sound(r, e)
    <3>1. e \in CallRecord
      <4> HIDE DEF d
      <4> QED
        BY <1>2, ZenonT(40) DEF CallRecord, Awaiting
    <3>2. Sound(r, e)
      <4>1. /\ e.pc = "ready" /\ e.budget = d.budget /\ e.sent = d.sent
            /\ e.route = d.route /\ e.bytes = d.bytes /\ e.answer = d.answer
            /\ e.status = d.status
        BY <1>2 DEF CallRecord
      <4> HIDE DEF e
      <4> QED
        BY <1>3, <1>4, <4>1, GatewayAssumption DEF Sound
    <3> QED
      BY <3>1, <3>2
  <2>2. WithRoutes(r, c, S) = e
    BY <1>4 DEF WithRoutes, d
  <2> QED
    BY <2>1, <2>2
<1>5. CASE r \notin Streamed
  <2>1. WithRoutes(r, c, S) = Sent(d)
    BY <1>5 DEF WithRoutes, d
  <2> QED
    BY <2>1, <1>2, <1>3, SentSound
<1> QED
  BY <1>4, <1>5

-------------------------------------------------------------------------------
(* Circuits *)

\* What TypeOK and CircuitAgrees say of circuits, for any value of them.
CircuitsOK(cs) ==
    /\ cs \in [Providers -> [failures : Nat, opened : Opened]]
    /\ \A p \in Providers : cs[p].opened # "no" <=> cs[p].failures >= FailureThreshold

\* Reports of success and failure, probing and cooling down keep the circuits in
\* agreement with what was counted, in whatever order they come.
LEMMA ReportsAgree ==
    ASSUME NEW cs, CircuitsOK(cs), NEW p \in Providers
    PROVE  /\ CircuitsOK(Succeeded(cs, p))
           /\ CircuitsOK(FailedOnce(cs, p))
<1> USE GatewayAssumption DEF CircuitsOK
<1>1. CircuitsOK(Succeeded(cs, p))
  BY DEF Succeeded, Closed, Opened
<1>2. CircuitsOK(FailedOnce(cs, p))
  <2> DEFINE ds == FailedOnce(cs, p)
  <2>1. cs[p].failures \in Nat /\ cs[p].opened \in Opened
    OBVIOUS
  <2>2. ds = [cs EXCEPT ![p] =
               [failures |-> cs[p].failures + 1,
                opened   |-> IF cs[p].failures + 1 >= FailureThreshold
                             THEN "open" ELSE cs[p].opened]]
    BY DEF FailedOnce
  <2>3. ds \in [Providers -> [failures : Nat, opened : Opened]]
    BY <2>1, <2>2 DEF Opened
  <2>4. ds[p].opened # "no" <=> ds[p].failures >= FailureThreshold
    BY <2>1, <2>2
  <2>5. \A q \in Providers \ {p} : ds[q] = cs[q]
    BY <2>2
  <2> QED
    BY <2>3, <2>4, <2>5
<1> QED
  BY <1>1, <1>2

\* Resetting the circuits that have cooled down keeps them in agreement.
LEMMA ProbingAgrees ==
    ASSUME NEW cs, CircuitsOK(cs)
    PROVE  CircuitsOK(Probed(cs))
BY GatewayAssumption DEF CircuitsOK, Probed, Closed, Opened

-------------------------------------------------------------------------------
(* Steps *)

\* A step of one call that is not over keeps the invariant if its record does.
LEMMA CallStep ==
    ASSUME GatewayInv, NEW r \in Requests, call[r].pc # "done",
           NEW c \in CallRecord, Sound(r, c), call' = [call EXCEPT ![r] = c],
           turn' \in Nat, tokens' \in 0..Burst, CircuitsOK(circuit'), usage' = usage
    PROVE  GatewayInv'
<1>1. TypeOK'
  BY DEF GatewayInv, TypeOK, CircuitsOK
<1>2. \A q \in Requests : Sound(q, call'[q])
  BY DEF GatewayInv, TypeOK
<1>3. RowsAreFinal'
  BY DEF GatewayInv, RowsAreFinal, TypeOK
<1>4. CircuitAgrees'
  BY DEF CircuitsOK, CircuitAgrees
<1> QED
  BY <1>1, <1>2, <1>3, <1>4 DEF GatewayInv

\* The gateway starts within the invariant.
LEMMA InitInv == Init => GatewayInv
<1> SUFFICES ASSUME Init PROVE GatewayInv
  OBVIOUS
<1> USE GatewayAssumption
<1>1. Fresh \in CallRecord /\ \A r \in Requests : Sound(r, Fresh)
  BY DEF Fresh, CallRecord, Sound, Awaiting, Status
<1>2. TypeOK
  BY <1>1 DEF Init, TypeOK, Closed, Opened, Status
<1>3. CircuitAgrees
  BY DEF Init, CircuitAgrees, Closed
<1>4. RowsAreFinal /\ \A r \in Requests : Sound(r, call[r])
  BY <1>1 DEF Init, RowsAreFinal
<1> QED
  BY <1>2, <1>3, <1>4 DEF GatewayInv

\* A pass begins, or ends the call because no route is healthy.
LEMMA PassStep ==
    ASSUME GatewayInv, NEW r \in Requests, call[r].pc # "done",
           NEW c \in CallRecord, Sound(r, c), NEW cs, CircuitsOK(cs),
           c.budget <= MaxRetriesPerRequest,
           r \in Streamed => c.budget = 0, c.bytes = {}, c.answer = "none",
           c.status # "cancelled", c.status = "success" => r \in Structured,
           StartPass(r, c, cs), UNCHANGED <<tokens, usage>>
    PROVE  GatewayInv'
<1>1. circuit' = Probed(cs) /\ CircuitsOK(circuit')
  BY ProbingAgrees DEF StartPass
<1>2. turn \in Nat /\ tokens \in 0..Burst
  BY DEF GatewayInv, TypeOK
<1>3. CASE /\ Available(cs) # {}
           /\ call' = [call EXCEPT ![r] = WithRoutes(r, c, Available(cs))]
           /\ turn' = Turned
  <2>1. Available(cs) \in SUBSET Routing
    BY DEF Available
  <2>2. WithRoutes(r, c, Available(cs)) \in CallRecord
        /\ Sound(r, WithRoutes(r, c, Available(cs)))
    <3>1. c.sent = c.budget
      BY DEF Sound
    <3> QED
      BY <3>1, <1>2, <1>3, <2>1, PassSound
  <2>3. turn' \in Nat
    BY <1>2, <1>3 DEF Turned
  <2> QED
    BY <1>1, <1>2, <1>3, <2>2, <2>3, CallStep
<1>4. CASE /\ call' = [call EXCEPT ![r] = Ended(c, "error", "error")]
           /\ UNCHANGED turn
  <2>1. Ended(c, "error", "error") \in CallRecord /\ Sound(r, Ended(c, "error", "error"))
    BY EndedSound DEF Status
  <2> QED
    BY <1>1, <1>2, <1>4, <2>1, CallStep
<1> QED
  BY <1>3, <1>4 DEF StartPass

\* Every step keeps the invariant.
LEMMA NextInv == GatewayInv /\ [Next]_vars => GatewayInv'
<1> SUFFICES ASSUME GatewayInv, [Next]_vars PROVE GatewayInv'
  OBVIOUS
<1> USE GatewayAssumption
<1>1. TypeOK /\ CircuitsOK(circuit) /\ turn \in Nat /\ tokens \in 0..Burst
  BY DEF GatewayInv, TypeOK, CircuitAgrees, CircuitsOK
<1>2. \A r \in Requests : call[r] \in CallRecord /\ Sound(r, call[r])
  BY <1>1 DEF GatewayInv, TypeOK
<1>3. ASSUME NEW r \in Requests, call[r].pc \in Awaiting
      PROVE  Current(r) \in Providers /\ call[r].pc # "done"
  <2>1. call[r].route \in Routing
    BY <1>2, <1>3 DEF CallRecord, Sound
  <2> QED
    BY <1>3, <2>1, RoutingIsInterval DEF Current, Awaiting
\* The call of r ends with an answer that agrees with the status.
<1>4. ASSUME NEW r \in Requests, call[r].pc # "done", NEW status \in Status,
             NEW answer \in {"response", "error", "gone", "crash"},
             answer = "response" => status = "success",
             answer = "error" => status = "error",
             status = "cancelled" => answer = "gone",
             status = "success" => answer = "response" \/ r \in Structured,
             Put(r, Ended(call[r], status, answer)),
             CircuitsOK(circuit'), turn' \in Nat, UNCHANGED <<tokens, usage>>
      PROVE  GatewayInv'
  <2>1. Ended(call[r], status, answer) \in CallRecord /\ Sound(r, Ended(call[r], status, answer))
    BY <1>2, <1>4, EndedSound
  <2> QED
    BY <1>1, <1>4, <2>1, CallStep DEF Put
\* The call of r sends, with an attempt left and a route.
<1>5. ASSUME NEW r \in Requests, call[r].pc \in {"ready", "backoff"},
             Put(r, Sent(call[r])), UNCHANGED <<circuit, turn, tokens, usage>>
      PROVE  GatewayInv'
  <2>1. /\ call[r].route # 0 /\ call[r].sent = call[r].budget
        /\ call[r].budget <= MaxRetriesPerRequest /\ call[r].bytes = {}
        /\ call[r].answer = "none" /\ call[r].status # "cancelled"
        /\ call[r].status = "success" => r \in Structured
    BY <1>2, <1>5 DEF Sound, Awaiting
  <2>2. Sent(call[r]) \in CallRecord /\ Sound(r, Sent(call[r]))
    BY <1>2, <2>1, SentSound
  <2> QED
    BY <1>1, <1>5, <2>2, CallStep DEF Put
<1>6. ASSUME NEW r \in Requests, Admit(r) PROVE GatewayInv'
  <2>1. CASE tokens >= 1 /\ tokens' = tokens - 1 /\ Put(r, [call[r] EXCEPT !.pc = "prepare"])
    <3> DEFINE c == [call[r] EXCEPT !.pc = "prepare"]
    <3>1. c \in CallRecord /\ Sound(r, c)
      BY <1>2, <1>6, MovedSound DEF Admit
    <3>2. tokens' \in 0..Burst
      BY <1>1, <2>1
    <3> QED
      BY <1>1, <1>6, <2>1, <3>1, <3>2, CallStep DEF Admit, Put
  <2>2. CASE Put(r, [call[r] EXCEPT !.pc = "done", !.answer = "refused"]) /\ UNCHANGED tokens
    <3> DEFINE c == [call[r] EXCEPT !.pc = "done", !.answer = "refused"]
    <3>1. c \in CallRecord /\ Sound(r, c)
      BY <1>2, <1>6, MovedSound DEF Admit
    <3> QED
      BY <1>1, <1>6, <2>2, <3>1, CallStep DEF Admit, Put
  <2> QED
    BY <1>6, <2>1, <2>2 DEF Admit
<1>7. ASSUME NEW r \in Requests, Begin(r) PROVE GatewayInv'
  <2>1. /\ call[r].budget = 0 /\ call[r].bytes = {} /\ call[r].answer = "none"
        /\ call[r].status # "cancelled" /\ call[r].pc # "done"
        /\ call[r].status = "success" => r \in Structured
    BY <1>2, <1>7 DEF Begin, Sound
  <2> QED
    BY <1>1, <1>2, <1>7, <2>1, PassStep DEF Begin
<1>8. ASSUME MayHaveChosen PROVE CircuitsOK(circuit') /\ turn' \in Nat
  BY <1>1, <1>8, ProbingAgrees DEF MayHaveChosen, Turned
<1>9. ASSUME NEW r \in Requests, BeginFails(r) PROVE GatewayInv'
  BY <1>4, <1>9, <1>8 DEF BeginFails, Status
\* What ends or breaks off keeps a status that is sound.
<1>10. ASSUME NEW r \in Requests, call[r].pc \notin {"record", "done"}
       PROVE  /\ call[r].status \in Status /\ call[r].status # "cancelled"
              /\ call[r].status = "success" => r \in Structured
  BY <1>2, <1>10 DEF CallRecord, Sound
<1>11. ASSUME NEW r \in Requests, call[r].pc \in {"prepare", "ready"},
              NEW answer \in {"gone", "crash"},
              Put(r, [call[r] EXCEPT !.pc = "done", !.answer = answer]),
              CircuitsOK(circuit'), turn' \in Nat, UNCHANGED <<tokens, usage>>
       PROVE  GatewayInv'
  <2> DEFINE c == [call[r] EXCEPT !.pc = "done", !.answer = answer]
  <2>1. c \in CallRecord /\ Sound(r, c)
    BY <1>2, <1>11, MovedSound
  <2> QED
    BY <1>1, <1>11, <2>1, CallStep DEF Put
<1>12. ASSUME NEW r \in Requests, BeginCrashes(r) PROVE GatewayInv'
  <2>1. CASE r \in Streamed
    BY <1>8, <1>11, <1>12, <2>1 DEF BeginCrashes
  <2>2. CASE r \notin Streamed
    BY <1>4, <1>8, <1>10, <1>12, <2>2 DEF BeginCrashes
  <2> QED
    BY <2>1, <2>2
<1>13. ASSUME NEW r \in Requests, StartStream(r) PROVE GatewayInv'
  BY <1>5, <1>13 DEF StartStream
<1>14. ASSUME NEW r \in Requests, NEW retryable \in BOOLEAN, UpstreamFails(r, retryable)
       PROVE  GatewayInv'
  <2>1. call[r].pc \in Awaiting
    BY <1>14 DEF UpstreamFails, Awaiting
  <2>2. CircuitsOK(circuit')
    BY <1>1, <1>3, <1>14, <2>1, ReportsAgree DEF UpstreamFails
  <2>3. AfterFailure(call[r], retryable) \in CallRecord
        /\ Sound(r, AfterFailure(call[r], retryable))
    BY <1>2, <1>14, AfterFailureSound DEF UpstreamFails
  <2> QED
    BY <1>1, <1>3, <1>14, <2>1, <2>2, <2>3, CallStep DEF UpstreamFails, Put
<1>15. ASSUME NEW r \in Requests, UpstreamCrashes(r) PROVE GatewayInv'
  BY <1>1, <1>4, <1>10, <1>15 DEF UpstreamCrashes
<1>16. ASSUME NEW r \in Requests, Retry(r) PROVE GatewayInv'
  BY <1>5, <1>16 DEF Retry
<1>17. ASSUME NEW r \in Requests, Answered(r) PROVE GatewayInv'
  <2>1. call[r].pc \in Awaiting
    BY <1>17 DEF Answered, Awaiting
  <2>2. CircuitsOK(circuit')
    BY <1>1, <1>3, <1>17, <2>1, ReportsAgree DEF Answered
  <2> QED
    BY <1>1, <1>3, <1>4, <1>17, <2>1, <2>2 DEF Answered, Status
<1>18. ASSUME NEW r \in Requests, AnsweredInvalid(r) PROVE GatewayInv'
  <2> DEFINE b  == Taken(call[r])
             cs == Succeeded(circuit, Current(r))
  <2>1. /\ call[r].pc \in Awaiting /\ call[r].pc # "done"
        /\ r \in Structured /\ r \notin Streamed
    BY <1>18 DEF AnsweredInvalid, Awaiting
  <2>2. CircuitsOK(cs)
    BY <1>1, <1>3, <2>1, ReportsAgree
  <2>3. /\ b \in CallRecord /\ Sound(r, b) /\ b.pc = "upstream" /\ b.bytes = {}
        /\ b.answer = "none" /\ b.status = "success"
    BY <1>2, <1>18, TakenSound DEF AnsweredInvalid
  <2> HIDE DEF b, cs
  <2>4. CASE ~Exhausted(b) /\ StartPass(r, Repaired(b), cs)
    <3> DEFINE c == Repaired(b)
    <3>1. c \in CallRecord /\ Sound(r, c)
      BY <2>3, RepairedSound
    <3>2. /\ c.budget = b.budget /\ c.bytes = {} /\ c.answer = "none"
          /\ c.status = "success"
      BY <2>3, RepairedSound
    <3>3. c.budget <= MaxRetriesPerRequest
      BY <2>3, <2>4, <3>2 DEF Exhausted, CallRecord
    <3> HIDE DEF c
    <3>4. StartPass(r, c, cs) /\ UNCHANGED <<tokens, usage>>
      BY <1>18, <2>4 DEF AnsweredInvalid, c
    <3> QED
      BY <2>1, <2>2, <3>1, <3>2, <3>3, <3>4, PassStep
  <2>5. CASE /\ circuit' = cs
             /\ Put(r, Ended(b, "error", "error"))
             /\ UNCHANGED turn
    <3>1. Ended(b, "error", "error") \in CallRecord /\ Sound(r, Ended(b, "error", "error"))
      BY <2>3, EndedSound DEF Status
    <3> QED
      BY <1>1, <1>18, <2>1, <2>2, <2>5, <3>1, CallStep DEF AnsweredInvalid, Put
  <2> QED
    BY <1>18, <2>4, <2>5 DEF AnsweredInvalid, b, cs
<1>19. ASSUME NEW r \in Requests, ValidationCrashes(r) PROVE GatewayInv'
  <2>1. call[r].pc \in Awaiting
    BY <1>19 DEF ValidationCrashes, Awaiting
  <2>2. CircuitsOK(circuit')
    BY <1>1, <1>3, <1>19, <2>1, ReportsAgree DEF ValidationCrashes
  <2> QED
    BY <1>1, <1>3, <1>4, <1>19, <2>1, <2>2 DEF ValidationCrashes, Status
<1>20. ASSUME NEW r \in Requests, StreamOpens(r) PROVE GatewayInv'
  <2> DEFINE c == [call[r] EXCEPT !.pc = "reading"]
  <2>1. c \in CallRecord /\ Sound(r, c)
    BY <1>2, <1>20, MovedSound DEF StreamOpens
  <2> QED
    BY <1>1, <1>20, <2>1, CallStep DEF StreamOpens, Put
<1>21. ASSUME NEW r \in Requests, Chunk(r) PROVE GatewayInv'
  <2> DEFINE c == [call[r] EXCEPT !.bytes = @ \cup {call[r].sent}]
  <2>1. c \in CallRecord /\ Sound(r, c)
    <3>1. /\ call[r] \in CallRecord /\ Sound(r, call[r]) /\ call[r].pc = "reading"
      BY <1>2, <1>21 DEF Chunk
    <3>2. c \in CallRecord
      BY <3>1, ZenonT(40) DEF CallRecord
    <3>3. Sound(r, c)
      BY <3>1, ZenonT(40) DEF CallRecord, Sound, Awaiting
    <3> QED
      BY <3>2, <3>3
  <2> QED
    BY <1>1, <1>21, <2>1, CallStep DEF Chunk, Put
<1>22. ASSUME NEW r \in Requests, StreamEnds(r) PROVE GatewayInv'
  <2>1. call[r].pc \in Awaiting
    BY <1>22 DEF StreamEnds, Awaiting
  <2>2. CircuitsOK(circuit')
    BY <1>1, <1>3, <1>22, <2>1, ReportsAgree DEF StreamEnds
  <2> QED
    BY <1>1, <1>3, <1>4, <1>22, <2>1, <2>2 DEF StreamEnds, Status
<1>23. ASSUME NEW r \in Requests, Cancelled(r) PROVE GatewayInv'
  <2>1. call[r].pc \notin {"record", "done"}
    BY <1>23 DEF Cancelled, Awaiting
  <2>2. CASE r \in Streamed /\ Put(r, Ended(call[r], "cancelled", "gone"))
    BY <1>1, <1>4, <1>23, <2>1, <2>2 DEF Cancelled, Status
  <2>3. CASE /\ r \in Streamed /\ call[r].pc = "prepare"
             /\ Put(r, [call[r] EXCEPT !.pc = "done", !.answer = "gone"])
    BY <1>1, <1>23, <1>11, <2>3 DEF Cancelled
  <2>4. CASE Put(r, Ended(call[r], call[r].status, "gone"))
    BY <1>1, <1>4, <1>23, <1>10, <2>1, <2>4 DEF Cancelled
  <2> QED
    BY <1>23, <2>2, <2>3, <2>4 DEF Cancelled
<1>24. ASSUME NEW r \in Requests, Dropped(r) PROVE GatewayInv'
  BY <1>1, <1>4, <1>24, <1>10 DEF Dropped
<1>25. ASSUME NEW r \in Requests, NeverStarted(r) PROVE GatewayInv'
  BY <1>1, <1>25, <1>11 DEF NeverStarted
<1>26. ASSUME NEW r \in Requests, call[r].pc = "record"
       PROVE  /\ [call[r] EXCEPT !.pc = "done"] \in CallRecord
              /\ Sound(r, [call[r] EXCEPT !.pc = "done"])
  BY <1>2, <1>26, MovedSound
<1>27. ASSUME NEW r \in Requests, Record(r) PROVE GatewayInv'
  <2> DEFINE c   == [call[r] EXCEPT !.pc = "done"]
             row == IF call[r].status = "none" THEN "error" ELSE call[r].status
  <2>1. /\ call' = [call EXCEPT ![r] = c] /\ usage' = [usage EXCEPT ![r] = row]
        /\ UNCHANGED <<circuit, turn, tokens>> /\ call[r].pc = "record"
    BY <1>27 DEF Record, Put
  <2>2. c \in CallRecord /\ Sound(r, c) /\ c.status = call[r].status /\ c.pc = "done"
    BY <1>26, <1>2, <2>1 DEF CallRecord
  <2>3. row \in Status
    BY <1>2 DEF CallRecord, Status
  <2>4. TypeOK'
    BY <1>1, <2>1, <2>2, <2>3 DEF TypeOK
  <2>5. \A q \in Requests : Sound(q, call'[q])
    BY <1>1, <1>2, <2>1, <2>2 DEF TypeOK
  <2>6. RowsAreFinal'
    BY <1>1, <2>1, <2>2 DEF GatewayInv, RowsAreFinal, TypeOK
  <2>7. CircuitAgrees'
    BY <2>1 DEF GatewayInv, CircuitAgrees
  <2> QED
    BY <2>4, <2>5, <2>6, <2>7 DEF GatewayInv
<1>28. ASSUME NEW r \in Requests, RecordFails(r) PROVE GatewayInv'
  BY <1>1, <1>26, <1>28, CallStep DEF RecordFails, Put
<1>29. ASSUME CircuitsOK(circuit'), turn' \in Nat, tokens' \in 0..Burst,
              UNCHANGED <<call, usage>>
       PROVE  GatewayInv'
  BY <1>1, <1>29 DEF GatewayInv, TypeOK, RowsAreFinal, CircuitAgrees, CircuitsOK
<1>30. ASSUME NEW p \in Providers, CoolsDown(p) PROVE GatewayInv'
  <2>1. CircuitsOK(circuit')
    BY <1>1, <1>30 DEF CoolsDown, CircuitsOK, Opened
  <2> QED
    BY <1>1, <1>29, <1>30, <2>1 DEF CoolsDown
<1>31. ASSUME Refill PROVE GatewayInv'
  BY <1>1, <1>29, <1>31 DEF Refill
<1>32. ASSUME ShowStatus PROVE GatewayInv'
  BY <1>1, <1>29, <1>32, ProbingAgrees DEF ShowStatus
<1>33. ASSUME UNCHANGED vars PROVE GatewayInv'
  BY <1>1, <1>29, <1>33 DEF vars
<1> QED
  BY <1>6, <1>7, <1>9, <1>13, <1>14, <1>16, <1>17, <1>18, <1>20, <1>21, <1>22, <1>23,
     <1>24, <1>25, <1>27, <1>28, <1>30, <1>31, <1>32, <1>33, <1>12, <1>15, <1>19
     DEF Next, Serve

-------------------------------------------------------------------------------
(* Theorems *)

\* The invariant holds in every reachable state.
LEMMA InvHolds == Spec => []GatewayInv
<1>1. Init => GatewayInv
  BY InitInv
<1>2. GatewayInv /\ [Next]_vars => GatewayInv'
  BY NextInv
<1> QED
  BY <1>1, <1>2, PTL DEF Spec

\* The state of the router, the limiter and every call keeps its type; the bucket
\* of rate_limit.py stays between zero and its burst.
THEOREM GatewayTypes == Spec => []TypeOK
<1>1. GatewayInv => TypeOK
  BY DEF GatewayInv
<1> QED
  BY <1>1, InvHolds, PTL

\* complete and stream send a request upstream at most max_retries_per_request + 1
\* times, over all routes, retries and repair rounds.
THEOREM BudgetIsShared == Spec => []AttemptsBounded
<1>1. GatewayInv => AttemptsBounded
  BY DEF GatewayInv, AttemptsBounded, Sound
<1> QED
  BY <1>1, InvHolds, PTL

\* The generator of stream hands on bytes of one upstream stream only.
THEOREM NoSecondStream == Spec => []OneStreamReachesClient
<1>1. ASSUME NEW B, NEW n, B \subseteq {n} PROVE Cardinality(B) <= 1
  <2>1. CASE B = {}
    BY <2>1, FS_EmptySet
  <2>2. CASE B = {n}
    <3>1. Cardinality({n}) = 1
      BY FS_Singleton
    <3> QED
      BY <2>2, <3>1
  <2> QED
    BY <1>1, <2>1, <2>2
<1>2. GatewayInv => OneStreamReachesClient
  BY <1>1 DEF GatewayInv, OneStreamReachesClient, Sound
<1> QED
  BY <1>2, InvHolds, PTL

\* The usage row of a call agrees with what its client got: a delivered response
\* is a success, a GatewayError an error, and a success that was not delivered is a
\* structured call that broke off after an answer.  _record_usage_safely writes it
\* from the status complete and generate have left.
THEOREM UsageAgrees == Spec => []LedgerAgrees
<1>1. GatewayInv => LedgerAgrees
  BY DEF GatewayInv, LedgerAgrees, RowsAreFinal, Sound
<1> QED
  BY <1>1, InvHolds, PTL

\* The circuit breaker follows the failures counted, in any order of reports.
THEOREM CircuitsFollowFailures == Spec => []CircuitAgrees
<1>1. GatewayInv => CircuitAgrees
  BY DEF GatewayInv
<1> QED
  BY <1>1, InvHolds, PTL

-------------------------------------------------------------------------------
(* Open circuits are drained *)

\* A call that was c goes on as d, over circuits that are then cs: what it sends to
\* an open circuit goes to a candidate it had.
Drains(c, d, cs) ==
    d.sent > c.sent /\ cs[Routes[d.route]].opened = "open" =>
        \/ d.route = c.route /\ d.rest = c.rest
        \/ d.route \in c.rest /\ d.rest = c.rest \ {d.route}

\* Ending sends nothing, sending stays with the route, and a failure passes the
\* call on to a candidate it had.
LEMMA StaysWithRoutes ==
    ASSUME NEW c \in CallRecord, NEW cs
    PROVE  /\ \A status, answer : Drains(c, Ended(c, status, answer), cs)
           /\ Drains(c, Sent(c), cs)
           /\ \A retryable \in BOOLEAN : Drains(c, AfterFailure(c, retryable), cs)
<1>1. ASSUME NEW status, NEW answer PROVE Drains(c, Ended(c, status, answer), cs)
  BY DEF Drains, Ended, CallRecord
<1>2. Drains(c, Sent(c), cs)
  BY DEF Drains, Sent, CallRecord
<1>3. ASSUME NEW retryable \in BOOLEAN PROVE Drains(c, AfterFailure(c, retryable), cs)
  <2> DEFINE d == AfterFailure(c, retryable)
             i == Min(c.rest)
             b == [c EXCEPT !.pc = "backoff", !.tries = @ + 1]
             e == Sent(Routed(c, i, c.rest))
  <2>1. \/ d = Ended(c, "error", "error")
        \/ d = b
        \/ c.rest # {} /\ d = e
    BY DEF AfterFailure
  <2>2. CASE d = b
    BY <2>2 DEF Drains, CallRecord
  <2>3. CASE c.rest # {} /\ d = e
    <3>1. c.rest \in SUBSET Nat
      BY RoutingIsInterval DEF CallRecord
    <3>2. i \in c.rest
      BY <2>3, <3>1, MinIsLeast
    <3> HIDE DEF i
    <3>3. e.route = i /\ e.rest = c.rest \ {i}
      BY DEF Sent, Routed, CallRecord
    <3> QED
      BY <2>3, <3>2, <3>3 DEF Drains
  <2> QED
    BY <1>1, <2>1, <2>2, <2>3
<1> QED
  BY <1>1, <1>2, <1>3

\* A new pass sends to a route whose circuit is not open then.
LEMMA PassDrains ==
    ASSUME NEW r \in Requests, NEW c \in CallRecord, NEW b \in CallRecord, b.sent = c.sent,
           NEW cs, CircuitsOK(cs), turn \in Nat, Available(cs) # {}
    PROVE  Drains(c, WithRoutes(r, b, Available(cs)), Probed(cs))
<1> DEFINE i == First(Available(cs), turn)
           d == Routed(b, i, Available(cs))
<1>1. Available(cs) \in SUBSET Routing
  BY DEF Available
<1>2. i \in Available(cs)
  BY <1>1, FirstAvailable
<1>3. Routes[i] \in Providers /\ cs[Routes[i]].opened # "open"
  BY <1>2, RoutingIsInterval DEF Available
<1>4. Probed(cs)[Routes[i]].opened # "open"
  BY <1>3 DEF Probed, Closed
<1> HIDE DEF i
<1>5. CASE r \in Streamed
  <2>1. [d EXCEPT !.pc = "ready"].sent = c.sent
    BY DEF Routed, CallRecord
  <2> QED
    BY <1>5, <2>1 DEF Drains, WithRoutes, i, CallRecord
<1>6. CASE r \notin Streamed
  <2>1. Sent(d).route = i
    BY DEF Routed, Sent, CallRecord
  <2> QED
    BY <1>4, <1>6, <2>1 DEF Drains, WithRoutes, i
<1> QED
  BY <1>5, <1>6

\* If one call moves and drains, the step is one of DrainsOnly.
LEMMA DrainStep ==
    ASSUME TypeOK, NEW r \in Requests, NEW c, call' = [call EXCEPT ![r] = c],
           Drains(call[r], c, circuit')
    PROVE  DrainsOnly
<1>1. \A q \in Requests : call[q].sent \in Nat
  BY DEF TypeOK, CallRecord
<1>2. call'[r] = c /\ \A q \in Requests \ {r} : call'[q] = call[q]
  BY DEF TypeOK
<1>3. \A q \in Requests \ {r} : ~(call'[q].sent > call[q].sent)
  BY <1>1, <1>2
<1> QED
  BY <1>2, <1>3 DEF DrainsOnly, Drains

\* candidates leaves out a provider whose circuit is open: it is sent something
\* only by a call that had it as a candidate before.
THEOREM OpenCircuitsAreDrained == Spec => OpenCircuitsDrain
<1>1. ASSUME GatewayInv, [Next]_vars PROVE [DrainsOnly]_vars
  <2> SUFFICES ASSUME Next PROVE DrainsOnly
    BY <1>1
  <2>1. TypeOK /\ CircuitsOK(circuit) /\ turn \in Nat
    BY <1>1 DEF GatewayInv, TypeOK, CircuitAgrees, CircuitsOK
  <2>2. \A r \in Requests : call[r] \in CallRecord /\ Sound(r, call[r]) /\ call[r].sent \in Nat
    BY <1>1, <2>1 DEF GatewayInv, TypeOK, CallRecord
  <2>3. ASSUME NEW r \in Requests, NEW status, NEW answer,
               Put(r, Ended(call[r], status, answer))
        PROVE  DrainsOnly
    BY <2>1, <2>2, <2>3, StaysWithRoutes, DrainStep DEF Put
  <2>4. ASSUME NEW r \in Requests, Put(r, Sent(call[r])) PROVE DrainsOnly
    BY <2>1, <2>2, <2>4, StaysWithRoutes, DrainStep DEF Put
  <2>5. ASSUME NEW r \in Requests, NEW c, c.sent = call[r].sent, Put(r, c) PROVE DrainsOnly
    <3>1. Drains(call[r], c, circuit')
      BY <2>2, <2>5 DEF Drains
    <3> QED
      BY <2>1, <2>5, <3>1, DrainStep DEF Put
  <2>6. ASSUME UNCHANGED call PROVE DrainsOnly
    BY <2>2, <2>6 DEF DrainsOnly
  <2>7. ASSUME NEW r \in Requests, NEW b \in CallRecord, b.sent = call[r].sent,
               NEW cs, CircuitsOK(cs), StartPass(r, b, cs)
        PROVE  DrainsOnly
    <3>1. CASE Available(cs) # {} /\ call' = [call EXCEPT ![r] = WithRoutes(r, b, Available(cs))]
      <4>1. Drains(call[r], WithRoutes(r, b, Available(cs)), circuit')
        BY <2>1, <2>2, <2>7, <3>1, PassDrains DEF StartPass
      <4> QED
        BY <2>1, <3>1, <4>1, DrainStep
    <3>2. CASE call' = [call EXCEPT ![r] = Ended(b, "error", "error")]
      <4>1. Ended(b, "error", "error").sent = call[r].sent
        BY <2>7 DEF Ended, CallRecord
      <4> QED
        BY <2>5, <3>2, <4>1 DEF Put
    <3> QED
      BY <2>7, <3>1, <3>2 DEF StartPass
  <2>8. ASSUME NEW r \in Requests, AnsweredInvalid(r) PROVE DrainsOnly
    <3> DEFINE b  == Taken(call[r])
               cs == Succeeded(circuit, Current(r))
    <3>1. call[r].pc = "upstream" /\ call[r].route \in Routing /\ r \in Structured
      BY <2>2, <2>8 DEF AnsweredInvalid, CallRecord, Sound, Awaiting
    <3>2. CircuitsOK(cs)
      BY <2>1, <3>1, RoutingIsInterval, ReportsAgree DEF Current
    <3>3. b \in CallRecord /\ Sound(r, b) /\ b.sent = call[r].sent
      BY <2>2, <3>1, TakenSound
    <3> HIDE DEF b, cs
    <3>4. Repaired(b) \in CallRecord /\ Repaired(b).sent = b.sent
      BY <3>3, RepairedSound
    <3>5. Ended(b, "error", "error").sent = b.sent
      BY <3>3 DEF Ended, CallRecord
    <3>6. StartPass(r, Repaired(b), cs) \/ Put(r, Ended(b, "error", "error"))
      BY <2>8 DEF AnsweredInvalid, b, cs
    <3>7. CASE StartPass(r, Repaired(b), cs)
      BY <2>7, <3>2, <3>3, <3>4, <3>7
    <3>8. CASE Put(r, Ended(b, "error", "error"))
      BY <2>5, <3>3, <3>5, <3>8
    <3> QED
      BY <3>6, <3>7, <3>8
  <2>9. ASSUME NEW r \in Requests, Cancelled(r) \/ BeginCrashes(r) PROVE DrainsOnly
    <3>1. \A answer : [call[r] EXCEPT !.pc = "done", !.answer = answer].sent = call[r].sent
      BY <2>2 DEF CallRecord
    <3>2. \/ \E status, answer : Put(r, Ended(call[r], status, answer))
          \/ \E answer : Put(r, [call[r] EXCEPT !.pc = "done", !.answer = answer])
      BY <2>9 DEF Cancelled, BeginCrashes
    <3> QED
      BY <2>3, <2>5, <3>1, <3>2
  <2>10. ASSUME NEW r \in Requests, NEW retryable \in BOOLEAN, UpstreamFails(r, retryable)
         PROVE  DrainsOnly
    BY <2>1, <2>2, <2>10, StaysWithRoutes, DrainStep DEF UpstreamFails, Put
  <2>11. ASSUME NEW r \in Requests,
                Admit(r) \/ StreamOpens(r) \/ Chunk(r) \/ NeverStarted(r) \/ Record(r)
                \/ RecordFails(r)
         PROVE  DrainsOnly
    <3> DEFINE c == call[r]
    <3>1. /\ [c EXCEPT !.pc = "prepare"].sent = c.sent
          /\ [c EXCEPT !.pc = "done"].sent = c.sent
          /\ [c EXCEPT !.pc = "reading"].sent = c.sent
          /\ [c EXCEPT !.bytes = @ \cup {c.sent}].sent = c.sent
          /\ [c EXCEPT !.pc = "done", !.answer = "refused"].sent = c.sent
          /\ [c EXCEPT !.pc = "done", !.answer = "gone"].sent = c.sent
      BY <2>2 DEF CallRecord
    <3> QED
      BY <2>5, <2>11, <3>1 DEF Admit, StreamOpens, Chunk, NeverStarted, Record, RecordFails
  <2>12. ASSUME NEW r \in Requests, Begin(r) PROVE DrainsOnly
    BY <2>1, <2>2, <2>7, <2>12 DEF Begin
  <2>13. ASSUME NEW r \in Requests,
                BeginFails(r) \/ Answered(r) \/ StreamEnds(r) \/ Dropped(r)
                \/ UpstreamCrashes(r) \/ ValidationCrashes(r)
         PROVE  DrainsOnly
    BY <2>3, <2>13 DEF BeginFails, Answered, StreamEnds, Dropped, UpstreamCrashes,
                       ValidationCrashes
  <2>14. ASSUME NEW r \in Requests, StartStream(r) \/ Retry(r) PROVE DrainsOnly
    BY <2>4, <2>14 DEF StartStream, Retry
  <2>15. ASSUME (\E p \in Providers : CoolsDown(p)) \/ Refill \/ ShowStatus PROVE DrainsOnly
    BY <2>6, <2>15 DEF CoolsDown, Refill, ShowStatus
  <2> QED
    BY <2>8, <2>9, <2>10, <2>11, <2>12, <2>13, <2>14, <2>15 DEF Next, Serve
<1> QED
  BY <1>1, InvHolds, PTL DEF Spec, OpenCircuitsDrain
===============================================================================
