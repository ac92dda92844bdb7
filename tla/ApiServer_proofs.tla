-------------------------- MODULE ApiServer_proofs --------------------------
(***************************************************************************)
(* Proofs about ApiServer for any number of requests, any limits of the    *)
(* pools and any codes: no pool exceeds its limit, every path returns its  *)
(* connections, a stop closes pools that nobody uses, failures and bad     *)
(* requests have the causes the properties name, and no request is sent    *)
(* back on its way.                                                        *)
(***************************************************************************)
EXTENDS ApiServer, FiniteSetTheorems, TLAPS

-----------------------------------------------------------------------------
(* The types.                                                              *)

\* A request that begins or has ended has the type of a request.
LEMMA RequestTypes ==
  /\ \A k \in {"latest", "before", "health"}, s \in Store : Begun(k, s) \in RequestState
  /\ \A o \in Outcome, c \in SUBSET Code : Ended(o, c) \in RequestState
BY DEF Begun, Ended, RequestState, Outcome, Store

\* What validation makes of a request is one of four verdicts.
LEMMA ParsedTypes ==
  \A p \in Parsed : /\ p.verdict \in {"malformed", "refused", "latest", "before"}
                    /\ p.codes \in SUBSET Code
BY DEF Parsed, Parse, Query

\* The requests in a pool are finite in number.
LEMMA HeldFinite ==
  ASSUME TypeOK, NEW s \in Store
  PROVE  IsFiniteSet(held[s]) /\ Cardinality(held[s]) \in Nat /\ Limit[s] \in Nat \ {0}
<1>1. held[s] \subseteq Request /\ Limit[s] \in Nat \ {0}
  BY PoolAssumption DEF TypeOK
<1> QED
  BY <1>1, PoolAssumption, FS_Subset, FS_CardinalityType

\* Taking a connection of a pool that is not full keeps it within its limit.
LEMMA AskType ==
  ASSUME TypeOK, NEW r \in Request, NEW s \in Store, ~Full(s),
         held' = [held EXCEPT ![s] = @ \cup {r}]
  PROVE  held' \in [Store -> SUBSET Request] /\ \A t \in Store : Cardinality(held'[t]) <= Limit[t]
<1>1. held \in [Store -> SUBSET Request]
  BY DEF TypeOK
<1>2. held' \in [Store -> SUBSET Request]
  BY <1>1
<1>3. Cardinality(held[s] \cup {r}) <= Limit[s]
  <2>1. Cardinality(held[s] \cup {r}) \in {Cardinality(held[s]), Cardinality(held[s]) + 1}
    BY HeldFinite, FS_AddElement
  <2> QED
    BY <2>1, HeldFinite DEF Full
<1>4. ASSUME NEW t \in Store PROVE Cardinality(held'[t]) <= Limit[t]
  <2>1. t # s => held'[t] = held[t]
    BY <1>1
  <2>2. t = s => held'[t] = held[s] \cup {r}
    BY <1>1
  <2> QED
    BY <1>3, <2>1, <2>2 DEF TypeOK
<1> QED
  BY <1>2, <1>4

\* Returning one does as well.
LEMMA ReturnType ==
  ASSUME TypeOK, NEW r \in Request, NEW s \in Store, Return(s, r)
  PROVE  held' \in [Store -> SUBSET Request] /\ \A t \in Store : Cardinality(held'[t]) <= Limit[t]
<1>1. held \in [Store -> SUBSET Request]
  BY DEF TypeOK
<1>2. held' = [held EXCEPT ![s] = held[s] \ {r}]
  BY <1>1 DEF Return
<1>3. Cardinality(held[s] \ {r}) <= Limit[s]
  <2>1. Cardinality(held[s] \ {r}) <= Cardinality(held[s]) /\ Cardinality(held[s] \ {r}) \in Nat
    BY HeldFinite, FS_Subset, FS_CardinalityType
  <2>2. Cardinality(held[s]) <= Limit[s]
    BY DEF TypeOK
  <2> QED
    BY <2>1, <2>2, HeldFinite
<1>4. ASSUME NEW t \in Store PROVE Cardinality(held'[t]) <= Limit[t]
  <2>1. t # s => held'[t] = held[t]
    BY <1>1, <1>2
  <2>2. t = s => held'[t] = held[s] \ {r}
    BY <1>1, <1>2
  <2> QED
    BY <1>3, <2>1, <2>2 DEF TypeOK
<1> QED
  BY <1>1, <1>2, <1>4

\* No request holds a connection of a process that has none.
LEMMA NoneHeld ==
  ASSUME NEW h, h = [s \in Store |-> {}]
  PROVE  h \in [Store -> SUBSET Request] /\ \A s \in Store : Cardinality(h[s]) <= Limit[s]
<1>1. Cardinality({}) = 0
  BY FS_EmptySet
<1> QED
  BY <1>1, PoolAssumption

LEMMA InitTypeOK == Init => TypeOK
<1> SUFFICES ASSUME Init PROVE TypeOK
  OBVIOUS
<1>1. held \in [Store -> SUBSET Request] /\ \A s \in Store : Cardinality(held[s]) <= Limit[s]
  BY NoneHeld DEF Init
<1>2. request \in [Request -> RequestState]
  BY RequestTypes DEF Init, Outcome
<1> QED
  BY <1>1, <1>2 DEF Init, TypeOK

\* The history has its type after every step.
LEMMA WatchType ==
  ASSUME TypeOK, Watch
  PROVE  lost' \in [Request -> SUBSET Store]
<1>1. \A r \in Request : Missing(r)' \subseteq Store
  BY DEF Missing
<1> QED
  BY <1>1 DEF Watch, TypeOK

\* Every step of the process itself keeps the types.
LEMMA ProcessTypeOK ==
  ASSUME TypeOK, Watch,
         Start \/ Restart \/ Kill \/ Terminate \/ CleaningUp
           \/ (\E s \in Store : Fail(s) \/ Recover(s))
  PROVE  TypeOK'
<1> USE WatchType DEF TypeOK
<1>1. CASE Start
  BY <1>1 DEF Start
<1>2. CASE Restart
  BY <1>2 DEF Restart
<1>3. CASE Kill
  <2>1. request' \in [Request -> RequestState]
    BY <1>3, RequestTypes DEF Kill, Outcome
  <2> QED
    BY <1>3, <2>1, NoneHeld DEF Kill
<1>4. CASE Terminate
  BY <1>4 DEF Terminate
<1>5. CASE CleaningUp
  <2>1. CASE Drained
    <3>1. request' \in [Request -> RequestState]
      BY <2>1, RequestTypes DEF Drained, Outcome
    <3> QED
      BY <2>1, <3>1 DEF Drained
  <2>2. CASE CleanUp
    BY <2>2 DEF CleanUp
  <2>3. CASE CleanedUp
    BY <2>3 DEF CleanedUp
  <2> QED
    BY <1>5, <2>1, <2>2, <2>3 DEF CleaningUp
<1>6. CASE \E s \in Store : Fail(s) \/ Recover(s)
  BY <1>6 DEF Fail, Recover
<1> QED
  BY <1>1, <1>2, <1>3, <1>4, <1>5, <1>6

\* A step that changes only the record of one request and the pools keeps the types.
LEMMA OneRequestType ==
  ASSUME TypeOK, Watch, NEW r \in Request, NEW q \in RequestState,
         request' = [request EXCEPT ![r] = q], UNCHANGED <<main, up, released>>,
         held' \in [Store -> SUBSET Request],
         \A s \in Store : Cardinality(held'[s]) <= Limit[s]
  PROVE  TypeOK'
BY WatchType DEF TypeOK

\* Every step of a request keeps the types.
LEMMA RequestTypeOK ==
  ASSUME TypeOK, Watch, NEW r \in Request, Receive(r) \/ Serve(r)
  PROVE  TypeOK'
<1>1. /\ request[r] \in RequestState /\ "redis" \in Store /\ "postgres" \in Store
      /\ held \in [Store -> SUBSET Request] /\ \A s \in Store : Cardinality(held[s]) <= Limit[s]
  BY DEF TypeOK, Store
<1>2. CASE Receive(r)
  <2>1. PICK q \in RequestState : request' = [request EXCEPT ![r] = q]
    <3>1. CASE \E p \in Parsed : request' = [request EXCEPT ![r] =
                 CASE p.verdict = "latest" -> Begun("latest", "redis")
                   [] p.verdict = "before" -> Begun("before", "postgres")
                   [] OTHER -> Ended(p.verdict, p.codes)]
      <4>1. PICK p \in Parsed : request' = [request EXCEPT ![r] =
                 CASE p.verdict = "latest" -> Begun("latest", "redis")
                   [] p.verdict = "before" -> Begun("before", "postgres")
                   [] OTHER -> Ended(p.verdict, p.codes)]
        BY <3>1
      <4>2. CASE p.verdict = "latest"
        BY <1>1, <4>1, <4>2, RequestTypes
      <4>3. CASE p.verdict = "before"
        BY <1>1, <4>1, <4>3, RequestTypes
      <4>4. CASE p.verdict \in {"malformed", "refused"}
        <5>1. request' = [request EXCEPT ![r] = Ended(p.verdict, p.codes)]
          BY <4>1, <4>4
        <5>2. p.verdict \in Outcome
          BY <4>4 DEF Outcome
        <5> QED
          BY <5>1, <5>2, ParsedTypes, RequestTypes
      <4> QED
        BY <4>2, <4>3, <4>4, ParsedTypes
    <3>2. CASE request' = [request EXCEPT ![r] = Begun("health", "postgres")]
      BY <1>1, <3>2, RequestTypes
    <3> QED
      BY <1>2, <3>1, <3>2 DEF Receive
  <2> QED
    BY <1>1, <1>2, <2>1, OneRequestType DEF Receive
<1>3. ASSUME NEW s \in Store, Ask(s, r) PROVE TypeOK'
  <2>1. [request[r] EXCEPT !.pc = "asking"] \in RequestState
    BY <1>1 DEF RequestState
  <2>2. request' = [request EXCEPT ![r] = [request[r] EXCEPT !.pc = "asking"]]
    BY <1>3 DEF Ask, TypeOK
  <2>3. held' \in [Store -> SUBSET Request] /\ \A t \in Store : Cardinality(held'[t]) <= Limit[t]
    BY <1>3, AskType DEF Ask
  <2> QED
    BY <1>3, <2>1, <2>2, <2>3, OneRequestType DEF Ask
<1>4. CASE CacheHit(r)
  <2>1. PICK o \in Aged : request' = [request EXCEPT ![r] = Ended(o, {})]
    BY <1>4 DEF CacheHit
  <2>2. Ended(o, {}) \in RequestState
    BY RequestTypes DEF Outcome
  <2> QED
    BY <1>1, <1>4, <2>1, <2>2, ReturnType, OneRequestType DEF CacheHit
<1>5. CASE CacheMiss(r)
  BY <1>1, <1>5, RequestTypes, ReturnType, OneRequestType DEF CacheMiss
<1>6. CASE ReadRow(r)
  <2>1. PICK o \in Aged \cup {"not_found"} : request' = [request EXCEPT ![r] = Ended(o, {})]
    BY <1>6 DEF ReadRow
  <2>2. Ended(o, {}) \in RequestState
    BY RequestTypes DEF Outcome
  <2> QED
    BY <1>1, <1>6, <2>1, <2>2, ReturnType, OneRequestType DEF ReadRow
<1>7. CASE ReadFails(r)
  <2>1. Ended("failed", {}) \in RequestState
    BY RequestTypes DEF Outcome
  <2> QED
    BY <1>1, <1>7, <2>1, ReturnType, OneRequestType DEF ReadFails
<1>8. CASE SelectOne(r)
  <2> DEFINE q == [Begun("health", "redis") EXCEPT
                     !.checks = IF Answers("postgres", r) THEN {"postgres"} ELSE {}]
  <2>1. q \in RequestState
    BY DEF Begun, RequestState, Outcome, Store
  <2>2. request' = [request EXCEPT ![r] = q]
    BY <1>8 DEF SelectOne
  <2>3. held' = held \/ Return("postgres", r)
    BY <1>8 DEF SelectOne
  <2>4. held' \in [Store -> SUBSET Request] /\ \A t \in Store : Cardinality(held'[t]) <= Limit[t]
    BY <1>1, <2>3, ReturnType
  <2> QED
    BY <1>8, <2>1, <2>2, <2>4, OneRequestType DEF SelectOne
<1>9. CASE Ping(r)
  <2> DEFINE checks == request[r].checks \cup IF Answers("redis", r) THEN {"redis"} ELSE {}
             q == [request[r] EXCEPT !.pc = "leaving", !.checks = checks,
                     !.outcome = IF checks = Store THEN "healthy" ELSE "unhealthy"]
  <2>1. checks \in SUBSET Store
    BY <1>1 DEF RequestState
  <2>2. q \in RequestState
    <3> HIDE DEF checks
    <3> QED
      BY <1>1, <2>1 DEF RequestState, Outcome
  <2>3. request' = [request EXCEPT ![r] = q]
    BY <1>9 DEF Ping, TypeOK
  <2> QED
    BY <1>1, <1>9, <2>2, <2>3, ReturnType, OneRequestType DEF Ping
<1>10. CASE Leave(r)
  <2>1. Ended(request[r].outcome, {}) \in RequestState
    BY <1>1, RequestTypes DEF RequestState
  <2> QED
    BY <1>1, <1>10, <2>1, ReturnType, OneRequestType DEF Leave
<1> QED
  BY <1>2, <1>3, <1>4, <1>5, <1>6, <1>7, <1>8, <1>9, <1>10 DEF Serve

LEMMA NextTypeOK == TypeOK /\ [Next]_vars => TypeOK'
<1> SUFFICES ASSUME TypeOK, [Next]_vars PROVE TypeOK'
  OBVIOUS
<1>1. CASE Next
  BY <1>1, ProcessTypeOK, RequestTypeOK DEF Next, Step
<1>2. CASE UNCHANGED vars
  BY <1>2 DEF vars, TypeOK
<1> QED
  BY <1>1, <1>2

\* Every variable keeps its type and no pool exceeds its limit, for any number of
\* requests.
THEOREM TypeCorrect == Spec => []TypeOK
<1>1. Init => TypeOK
  BY InitTypeOK
<1>2. TypeOK /\ [Next]_vars => TypeOK'
  BY NextTypeOK
<1> QED
  BY <1>1, <1>2, PTL DEF Spec

-----------------------------------------------------------------------------
(* The inductive invariant.                                                *)

\* Where a request may be when it holds a connection.
HeldInUse(r) ==
  /\ r \in held["redis"] => request[r].pc = "asking" /\ request[r].at = "redis"
  /\ r \in held["postgres"] =>
       \/ request[r].pc = "asking" /\ request[r].at = "postgres"
       \/ request[r].pc # "idle" /\ request[r].kind = "health" /\ request[r].at = "redis"

\* A request in progress has no outcome yet, one that leaves is a health check.
InProgress(r) ==
  /\ request[r].pc \in {"waiting", "asking"} => request[r].outcome = "none"
  /\ request[r].pc = "leaving" => /\ request[r].outcome \in {"healthy", "unhealthy"}
                                  /\ request[r].at = "redis" /\ request[r].kind = "health"

\* Whatever a failure is to be blamed on has been recorded.
Blamed(r) ==
  /\ StatusOf(request[r].outcome) = 500 => "postgres" \in lost[r]
  /\ request[r].outcome = "unhealthy" => lost[r] # {}
  /\ /\ request[r].pc # "idle" /\ request[r].kind = "health" /\ request[r].at = "redis"
     /\ "postgres" \notin request[r].checks
     => lost[r] # {}

OddCode(r) ==
  StatusOf(request[r].outcome) = 400 /\ request[r].outcome # "ahead"
    => \E c \in request[r].codes : UpperOf[c] \notin Currency

Fits(r) == HeldInUse(r) /\ InProgress(r) /\ Blamed(r) /\ OddCode(r)

Watched == \A r \in Request : request[r].pc # "idle" => Missing(r) \subseteq lost[r]

Quiet == main \notin {"serving", "draining"} => \A r \in Request : request[r] = Ended("none", {})

Tried == main = "stopped" => \A x \in Resource : released[x] # "open"

\* Whichever resource has been tried, all before it have been.
InOrder ==
  \A i \in 1..6 : released[Resources[i]] # "open" =>
    \A j \in 1..(i - 1) : released[Resources[j]] # "open"

IInv == TypeOK /\ (\A r \in Request : Fits(r)) /\ Watched /\ Quiet /\ InOrder /\ Tried

\* What the history is after a step, in terms of the history before it.
LEMMA WatchFacts ==
  ASSUME TypeOK, Watch, NEW r \in Request
  PROVE  /\ request'[r].pc # "idle" => Missing(r)' \subseteq lost'[r]
         /\ request'[r].pc # "idle" /\ request[r].pc # "idle" => lost[r] \subseteq lost'[r]
         /\ request'[r].pc = "idle" /\ request'[r] # Ended("none", {}) => lost'[r] = lost[r]
<1>1. Ended("none", {}).pc = "idle"
  BY DEF Ended
<1> QED
  BY <1>1 DEF Watch

LEMMA WatchedAfter == TypeOK /\ Watch => Watched'
BY WatchFacts DEF Watched

\* A request whose memory is wiped fits if it holds nothing.
LEMMA WipedFits ==
  ASSUME NEW r \in Request, request'[r] = Ended("none", {}), \A s \in Store : r \notin held'[s]
  PROVE  Fits(r)'
BY DEF Fits, HeldInUse, InProgress, Blamed, OddCode, Ended, StatusOf, Store

\* A request that a step does not touch goes on fitting.
LEMMA OthersFit ==
  ASSUME TypeOK, Watch, NEW r \in Request, Fits(r), request'[r] = request[r],
         \A s \in Store : r \in held'[s] => r \in held[s]
  PROVE  Fits(r)'
<1>1. "redis" \in Store /\ "postgres" \in Store
  BY DEF Store
<1>2. HeldInUse(r)' /\ InProgress(r)' /\ OddCode(r)'
  BY <1>1 DEF Fits, HeldInUse, InProgress, OddCode
<1>3. Blamed(r)'
  <2>1. CASE request'[r] = Ended("none", {})
    BY <2>1 DEF Blamed, Ended, StatusOf
  <2>2. CASE request'[r] # Ended("none", {})
    <3>1. lost[r] \subseteq lost'[r]
      BY <2>2, WatchFacts
    <3> QED
      BY <3>1 DEF Fits, Blamed
  <2> QED
    BY <2>1, <2>2
<1> QED
  BY <1>2, <1>3 DEF Fits

LEMMA InitIInv == Init => IInv
<1> SUFFICES ASSUME Init PROVE IInv
  OBVIOUS
<1>1. TypeOK
  BY InitTypeOK
<1>2. \A r \in Request : Fits(r)
  BY DEF Init, Fits, HeldInUse, InProgress, Blamed, OddCode, Ended, StatusOf, Store
<1> QED
  BY <1>1, <1>2 DEF Init, IInv, Watched, Quiet, InOrder, Tried, Ended, Resource

\* The clean-up ends after its last resource only, and so after all of them.
LEMMA CleaningTries ==
  ASSUME TypeOK, InOrder, Tried,
         Start \/ Restart \/ Terminate \/ CleanUp \/ CleanedUp
           \/ (\E s \in Store : Fail(s) \/ Recover(s))
  PROVE  InOrder' /\ Tried'
<1>1. \A i \in 1..6 : Resources[i] \in Resource
  BY DEF Resource
<1>2. CASE Restart
  <2>1. \A x \in Resource : released'[x] = "open"
    BY <1>2 DEF Restart
  <2> QED
    BY <1>1, <1>2, <2>1 DEF Restart, InOrder, Tried
<1>3. CASE CleanUp
  <2>1. PICK i \in 1..6, how \in {"closed", "error"} :
          /\ \A j \in 1..(i - 1) : released[Resources[j]] # "open"
          /\ released' = [released EXCEPT ![Resources[i]] = how]
    BY <1>3 DEF CleanUp
  <2>2. released \in [Resource -> {"open", "closed", "error"}]
    BY DEF TypeOK
  <2>3. \A x \in Resource : released'[x] = IF x = Resources[i] THEN how ELSE released[x]
    BY <1>1, <2>1, <2>2
  <2>4. \A j \in 1..6 : released[Resources[j]] # "open" => released'[Resources[j]] # "open"
    BY <1>1, <2>3
  <2>5. ASSUME NEW k \in 1..6, released'[Resources[k]] # "open", NEW j \in 1..(k - 1)
        PROVE  released'[Resources[j]] # "open"
    <3>1. j \in 1..6
      OBVIOUS
    <3>2. CASE released[Resources[k]] # "open"
      BY <2>4, <2>5, <3>1, <3>2 DEF InOrder
    <3>3. CASE released[Resources[k]] = "open"
      <4>1. Resources[k] = Resources[i]
        BY <1>1, <2>3, <2>5, <3>3
      <4>2. k = i
        BY <4>1 DEF Resources
      <4> QED
        BY <2>1, <2>4, <3>1, <4>2
    <3> QED
      BY <3>2, <3>3
  <2> QED
    BY <1>3, <2>5 DEF CleanUp, InOrder, Tried
<1>4. CASE CleanedUp
  <2>1. \A i \in 1..6 : released[Resources[i]] # "open"
    BY <1>4 DEF CleanedUp, InOrder
  <2>2. \A x \in Resource : released[x] # "open"
    BY <2>1 DEF Resource
  <2> QED
    BY <1>4, <2>2 DEF CleanedUp, InOrder, Tried
<1>5. CASE Start \/ Terminate \/ \E s \in Store : Fail(s) \/ Recover(s)
  BY <1>5 DEF Start, Terminate, Fail, Recover, InOrder, Tried
<1> QED
  BY <1>2, <1>3, <1>4, <1>5

\* Every step of the process keeps the invariant.
LEMMA ProcessIInv ==
  ASSUME IInv, Watch,
         Start \/ Restart \/ Kill \/ Terminate \/ CleaningUp
           \/ (\E s \in Store : Fail(s) \/ Recover(s))
  PROVE  IInv'
<1>1. TypeOK /\ TypeOK' /\ Watched'
  BY ProcessTypeOK, WatchedAfter DEF IInv
<1>2. CASE \/ Start \/ Restart \/ Terminate \/ CleanUp \/ CleanedUp
           \/ \E s \in Store : Fail(s) \/ Recover(s)
  <2>1. UNCHANGED <<request, held>>
    BY <1>2 DEF Start, Restart, Terminate, CleanUp, CleanedUp, Fail, Recover
  <2>2. \A r \in Request : Fits(r)'
    BY <1>1, <2>1, OthersFit DEF IInv
  <2>3. Quiet'
    BY <1>2, <2>1 DEF IInv, Quiet, Start, Restart, Terminate, CleanUp, CleanedUp, Fail, Recover
  <2>4. InOrder' /\ Tried'
    BY <1>1, <1>2, CleaningTries DEF IInv
  <2> QED
    BY <1>1, <2>2, <2>3, <2>4 DEF IInv
<1>3. CASE Kill
  <2>1. \A r \in Request : request'[r] = Ended("none", {}) /\ \A s \in Store : r \notin held'[s]
    BY <1>3 DEF Kill
  <2>2. \A r \in Request : Fits(r)'
    BY <2>1, WipedFits
  <2>3. Quiet' /\ InOrder' /\ Tried'
    BY <1>3, <2>1 DEF IInv, Kill, Quiet, InOrder, Tried
  <2> QED
    BY <1>1, <2>2, <2>3 DEF IInv
<1>4. CASE Drained
  <2>1. \A r \in Request : request'[r] = Ended("none", {}) /\ \A s \in Store : r \notin held'[s]
    BY <1>4 DEF Drained, IInv, Fits, HeldInUse, Store
  <2>2. \A r \in Request : Fits(r)'
    BY <2>1, WipedFits
  <2>3. Quiet' /\ InOrder' /\ Tried'
    BY <1>4, <2>1 DEF IInv, Drained, Quiet, InOrder, Tried
  <2> QED
    BY <1>1, <2>2, <2>3 DEF IInv
<1> QED
  BY <1>2, <1>3, <1>4 DEF CleaningUp

\* Validation is interrupted by nothing and the domain refuses odd codes only.
LEMMA RefusedIsOdd ==
  ASSUME NEW p \in Parsed, p.verdict = "refused"
  PROVE  \E c \in p.codes : UpperOf[c] \notin Currency
<1>1. PICK q \in Query : p = Parse(q)
  BY DEF Parsed
<1>2. SchemaAccepts(q) /\ ~DomainAccepts(q) /\ p.codes = {q.from, q.to}
  <2>1. CASE ~(ParametersAccept(q) /\ SchemaAccepts(q))
    BY <1>1, <2>1 DEF Parse
  <2>2. CASE (ParametersAccept(q) /\ SchemaAccepts(q)) /\ DomainAccepts(q)
    <3>1. p = [verdict |-> IF q.at = "none" THEN "latest" ELSE "before", codes |-> {}]
      BY <1>1, <2>2 DEF Parse
    <3> QED
      BY <3>1
  <2>3. CASE (ParametersAccept(q) /\ SchemaAccepts(q)) /\ ~DomainAccepts(q)
    <3>1. p = [verdict |-> "refused", codes |-> {q.from, q.to}]
      BY <1>1, <2>3 DEF Parse
    <3> QED
      BY <2>3, <3>1
  <2> QED
    BY <2>1, <2>2, <2>3
<1>3. UpperOf[UpperOf[q.from]] # UpperOf[UpperOf[q.to]]
  BY <1>2, CodeAssumption DEF SchemaAccepts, Query
<1> QED
  BY <1>2, <1>3 DEF DomainAccepts

\* What a step of one request does to the invariant, if that request fits after it.
LEMMA OneRequestIInv ==
  ASSUME IInv, Watch, TypeOK', NEW r \in Request, Fits(r)', main \in {"serving", "draining"},
         UNCHANGED <<main, released>>,
         \A x \in Request \ {r} : /\ request'[x] = request[x]
                                  /\ \A s \in Store : x \in held'[s] => x \in held[s]
  PROVE  IInv'
<1>1. \A x \in Request : Fits(x)'
  BY OthersFit DEF IInv
<1> QED
  BY <1>1, WatchedAfter DEF IInv, Quiet, InOrder, Tried

\* A step that ends a request without a connection leaves it fitting, when its outcome
\* has a cause.
LEMMA EndedFits ==
  ASSUME NEW r \in Request, NEW o, NEW c, request'[r] = Ended(o, c),
         \A s \in Store : r \notin held'[s],
         StatusOf(o) = 500 => "postgres" \in lost'[r],
         o = "unhealthy" => lost'[r] # {},
         StatusOf(o) = 400 /\ o # "ahead" => \E d \in c : UpperOf[d] \notin Currency
  PROVE  Fits(r)'
BY DEF Fits, HeldInUse, InProgress, Blamed, OddCode, Ended, Store

\* A request whose store raises has recorded that store.
LEMMA RaisesIsWatched ==
  ASSUME TypeOK, Watched, NEW r \in Request, HeldInUse(r), NEW s \in Store, Raises(s, r),
         s = "redis" \/ r \notin held[s] \/ request[r].pc = "asking"
  PROVE  s \in lost[r]
<1>1. request[r].pc # "idle"
  BY DEF Raises
<1>2. CASE s \notin up
  BY <1>1, <1>2 DEF Watched, Missing
<1>3. CASE request[r].pc = "waiting" /\ Full(s)
  <2>1. r \notin held[s]
    BY <1>3 DEF HeldInUse
  <2>2. held[s] \ {r} = held[s]
    BY <2>1
  <2> QED
    BY <1>1, <1>3, <2>2 DEF Watched, Missing, Full
<1> QED
  BY <1>2, <1>3 DEF Raises

\* Every step of a request keeps the invariant.
LEMMA RequestIInv ==
  ASSUME IInv, Watch, NEW r \in Request, Receive(r) \/ Serve(r)
  PROVE  IInv'
<1>1. /\ TypeOK /\ TypeOK' /\ Watched /\ Fits(r) /\ HeldInUse(r) /\ InProgress(r) /\ Blamed(r)
      /\ request[r] \in RequestState /\ "redis" \in Store /\ "postgres" \in Store
      /\ held \in [Store -> SUBSET Request] /\ request \in [Request -> RequestState]
  BY RequestTypeOK DEF IInv, Fits, TypeOK, Store
<1>2. main \in {"serving", "draining"} /\ UNCHANGED <<main, released>>
  <2>1. CASE Receive(r)
    BY <2>1 DEF Receive
  <2>2. CASE Serve(r)
    <3>1. request[r].pc # "idle"
      BY <2>2 DEF Serve, Ask, CacheHit, CacheMiss, ReadRow, ReadFails, SelectOne, Ping, Leave,
                  Answers, Raises
    <3>2. request[r] # Ended("none", {})
      BY <3>1 DEF Ended
    <3>3. UNCHANGED <<main, released>>
      BY <2>2 DEF Serve, Ask, CacheHit, CacheMiss, ReadRow, ReadFails, SelectOne, Ping, Leave
    <3> QED
      BY <3>2, <3>3 DEF IInv, Quiet
  <2> QED
    BY <2>1, <2>2
<1>3. \A x \in Request \ {r} : /\ request'[x] = request[x]
                               /\ \A s \in Store : x \in held'[s] => x \in held[s]
  <2>1. \A x \in Request \ {r} : request'[x] = request[x]
    BY <1>1 DEF Receive, Serve, Ask, CacheHit, CacheMiss, ReadRow, ReadFails, SelectOne, Ping, Leave
  <2>2. \A x \in Request \ {r}, s \in Store : x \in held'[s] => x \in held[s]
    BY <1>1 DEF Receive, Serve, Ask, CacheHit, CacheMiss, ReadRow, ReadFails, SelectOne, Ping, Leave,
                Return
  <2> QED
    BY <2>1, <2>2
<1>4. SUFFICES Fits(r)'
  BY <1>1, <1>2, <1>3, OneRequestIInv
<1>5. /\ request'[r].pc # "idle" => Missing(r)' \subseteq lost'[r]
      /\ request'[r].pc # "idle" /\ request[r].pc # "idle" => lost[r] \subseteq lost'[r]
      /\ request'[r].pc = "idle" /\ request'[r] # Ended("none", {}) => lost'[r] = lost[r]
  BY <1>1, WatchFacts
<1>6. CASE Receive(r)
  <2>1. \A s \in Store : r \notin held[s] /\ r \notin held'[s]
    BY <1>1, <1>6 DEF Receive, HeldInUse, Store
  <2>2. CASE \E k \in {"latest", "before", "health"}, s \in Store :
               request'[r] = Begun(k, s) /\ (k = "health" => s = "postgres")
    BY <2>1, <2>2 DEF Fits, HeldInUse, InProgress, Blamed, OddCode, Begun, StatusOf, Store
  <2>3. CASE \E p \in Parsed : /\ p.verdict \in {"malformed", "refused"}
                               /\ request'[r] = Ended(p.verdict, p.codes)
    BY <2>1, <2>3, EndedFits, RefusedIsOdd DEF StatusOf
  <2>4. \/ request' = [request EXCEPT ![r] = Begun("health", "postgres")]
        \/ \E p \in Parsed : request' = [request EXCEPT ![r] =
                 CASE p.verdict = "latest" -> Begun("latest", "redis")
                   [] p.verdict = "before" -> Begun("before", "postgres")
                   [] OTHER -> Ended(p.verdict, p.codes)]
    BY <1>6 DEF Receive
  <2>5. CASE request' = [request EXCEPT ![r] = Begun("health", "postgres")]
    BY <1>1, <2>2, <2>5
  <2>6. CASE \E p \in Parsed : request' = [request EXCEPT ![r] =
                 CASE p.verdict = "latest" -> Begun("latest", "redis")
                   [] p.verdict = "before" -> Begun("before", "postgres")
                   [] OTHER -> Ended(p.verdict, p.codes)]
    <3>1. PICK p \in Parsed : request' = [request EXCEPT ![r] =
                 CASE p.verdict = "latest" -> Begun("latest", "redis")
                   [] p.verdict = "before" -> Begun("before", "postgres")
                   [] OTHER -> Ended(p.verdict, p.codes)]
      BY <2>6
    <3>2. CASE p.verdict = "latest"
      BY <1>1, <2>2, <3>1, <3>2
    <3>3. CASE p.verdict = "before"
      BY <1>1, <2>2, <3>1, <3>3
    <3>4. CASE p.verdict \in {"malformed", "refused"}
      <4>1. request'[r] = Ended(p.verdict, p.codes)
        BY <1>1, <3>1, <3>4
      <4> QED
        BY <2>3, <3>4, <4>1
    <3> QED
      BY <3>2, <3>3, <3>4, ParsedTypes
  <2> QED
    BY <2>4, <2>5, <2>6
<1>7. ASSUME NEW s \in Store, Ask(s, r) PROVE Fits(r)'
  <2>1. request'[r] = [request[r] EXCEPT !.pc = "asking"] /\ request[r].pc = "waiting"
    BY <1>1, <1>7 DEF Ask
  <2>2. \A t \in Store : r \in held'[t] => t = s \/ r \in held[t]
    BY <1>1, <1>7 DEF Ask
  <2>3. /\ request'[r].pc = "asking" /\ request'[r].at = s /\ request[r].at = s
        /\ request'[r].kind = request[r].kind /\ request'[r].checks = request[r].checks
        /\ request'[r].outcome = "none" /\ request'[r].codes = request[r].codes
    BY <1>1, <1>7, <2>1 DEF RequestState, InProgress, Ask
  <2>4. lost[r] \subseteq lost'[r]
    BY <1>5, <2>1, <2>3
  <2>5. HeldInUse(r)'
    BY <1>1, <2>1, <2>2, <2>3 DEF HeldInUse, Store
  <2>6. InProgress(r)' /\ OddCode(r)'
    BY <2>3 DEF InProgress, OddCode, StatusOf
  <2>7. Blamed(r)'
    BY <1>1, <2>1, <2>3, <2>4 DEF Blamed, StatusOf
  <2> QED
    BY <2>5, <2>6, <2>7 DEF Fits
<1>8. ASSUME \/ CacheHit(r) \/ ReadRow(r) \/ ReadFails(r) PROVE Fits(r)'
  <2>1. request[r].kind # "health" /\ request[r].pc # "idle"
    BY <1>8 DEF CacheHit, ReadRow, ReadFails, Answers, Raises
  <2>2. \A s \in Store : r \notin held'[s]
    BY <1>1, <1>8, <2>1 DEF CacheHit, ReadRow, ReadFails, Answers, Raises, Return, HeldInUse, Store
  <2>3. CASE CacheHit(r) \/ ReadRow(r)
    <3>1. PICK o \in Aged \cup {"not_found"} : request'[r] = Ended(o, {})
      BY <1>1, <2>3 DEF CacheHit, ReadRow
    <3>2. StatusOf(o) # 500 /\ o # "unhealthy" /\ (StatusOf(o) = 400 => o = "ahead")
      BY DEF Aged, StatusOf
    <3> QED
      BY <2>2, <3>1, <3>2, EndedFits
  <2>4. CASE ReadFails(r)
    <3>1. request'[r] = Ended("failed", {})
      BY <1>1, <2>4 DEF ReadFails
    <3>2. "postgres" \in lost[r]
      <4>1. r \notin held["postgres"] \/ request[r].pc = "asking"
        BY <1>1, <2>1 DEF HeldInUse
      <4> QED
        BY <1>1, <2>4, <4>1, RaisesIsWatched DEF ReadFails
    <3>3. lost'[r] = lost[r]
      BY <1>5, <3>1 DEF Ended
    <3> QED
      BY <2>2, <3>1, <3>2, <3>3, EndedFits DEF StatusOf
  <2> QED
    BY <1>8, <2>3, <2>4
<1>9. CASE CacheMiss(r)
  <2>1. request'[r] = Begun("latest", "postgres") /\ request[r].kind = "latest"
    BY <1>1, <1>9 DEF CacheMiss
  <2>2. request[r].at = "redis"
    BY <1>9 DEF CacheMiss, Answers, Raises
  <2>3. \A s \in Store : r \notin held'[s]
    BY <1>1, <1>9, <2>1, <2>2 DEF CacheMiss, Return, HeldInUse, Store
  <2> QED
    BY <2>1, <2>3 DEF Fits, HeldInUse, InProgress, Blamed, OddCode, Begun, StatusOf, Store
<1>10. CASE SelectOne(r)
  <2>1. request'[r] = [Begun("health", "redis") EXCEPT
                         !.checks = IF Answers("postgres", r) THEN {"postgres"} ELSE {}]
    BY <1>1, <1>10 DEF SelectOne
  <2>2. /\ request'[r].pc = "waiting" /\ request'[r].kind = "health" /\ request'[r].at = "redis"
        /\ request'[r].outcome = "none"
        /\ Answers("postgres", r) => "postgres" \in request'[r].checks
    BY <2>1 DEF Begun
  <2>3. request[r].at = "postgres" /\ request[r].pc # "idle"
    BY <1>10 DEF SelectOne, Answers, Raises
  <2>4. r \notin held'["redis"]
    BY <1>1, <1>10, <2>3 DEF SelectOne, Return, HeldInUse
  <2>5. Raises("postgres", r) => lost'[r] # {}
    <3>1. r \notin held["postgres"] \/ request[r].pc = "asking"
      BY <1>1, <2>3 DEF HeldInUse
    <3>2. lost[r] \subseteq lost'[r]
      BY <1>5, <2>2, <2>3
    <3> QED
      BY <1>1, <3>1, <3>2, RaisesIsWatched
  <2>6. HeldInUse(r)' /\ InProgress(r)' /\ OddCode(r)'
    BY <2>2, <2>4 DEF HeldInUse, InProgress, OddCode, StatusOf
  <2>7. Blamed(r)'
    BY <1>10, <2>2, <2>5 DEF Blamed, StatusOf, SelectOne
  <2> QED
    BY <2>6, <2>7 DEF Fits
<1>11. CASE Ping(r)
  <2> DEFINE checks == request[r].checks \cup IF Answers("redis", r) THEN {"redis"} ELSE {}
  <2>1. request'[r] = [request[r] EXCEPT !.pc = "leaving", !.checks = checks,
                         !.outcome = IF checks = Store THEN "healthy" ELSE "unhealthy"]
    BY <1>1, <1>11 DEF Ping
  <2>2. /\ request[r].kind = "health" /\ request[r].at = "redis" /\ request[r].pc # "idle"
        /\ Answers("redis", r) \/ Raises("redis", r)
    BY <1>11 DEF Ping, Answers, Raises
  <2>3. /\ request'[r].pc = "leaving" /\ request'[r].kind = "health" /\ request'[r].at = "redis"
        /\ request'[r].checks = checks /\ request'[r].codes = request[r].codes
        /\ request'[r].outcome = IF checks = Store THEN "healthy" ELSE "unhealthy"
    <3> HIDE DEF checks
    <3> QED
      BY <1>1, <2>1, <2>2 DEF RequestState
  <2>4. r \notin held'["redis"]
    BY <1>1, <1>11 DEF Ping, Return
  <2>5. lost[r] \subseteq lost'[r]
    BY <1>5, <2>2, <2>3
  <2>6. Raises("redis", r) => lost[r] # {}
    BY <1>1, RaisesIsWatched
  <2>7. "postgres" \notin request[r].checks => lost[r] # {}
    BY <1>1, <2>2 DEF Blamed
  <2>8. checks # Store => lost'[r] # {}
    <3>1. checks # Store => Raises("redis", r) \/ "postgres" \notin request[r].checks
      BY <1>1, <2>2 DEF Store, RequestState
    <3> QED
      BY <2>5, <2>6, <2>7, <3>1
  <2>9. HeldInUse(r)' /\ InProgress(r)' /\ OddCode(r)'
    <3> HIDE DEF checks
    <3> QED
      BY <2>3, <2>4 DEF HeldInUse, InProgress, OddCode, StatusOf
  <2>10. Blamed(r)'
    <3> HIDE DEF checks
    <3> QED
      BY <2>3, <2>8 DEF Blamed, StatusOf, Store
  <2> QED
    BY <2>9, <2>10 DEF Fits
<1>12. CASE Leave(r)
  <2>1. request'[r] = Ended(request[r].outcome, {}) /\ request[r].pc = "leaving"
    BY <1>1, <1>12 DEF Leave
  <2>2. request[r].outcome \in {"healthy", "unhealthy"} /\ request[r].at = "redis"
    BY <1>1, <2>1 DEF InProgress
  <2>3. \A s \in Store : r \notin held'[s]
    BY <1>1, <1>12, <2>1 DEF Leave, Return, HeldInUse, Store
  <2>4. lost'[r] = lost[r]
    BY <1>5, <2>1, <2>2 DEF Ended
  <2> QED
    BY <1>1, <2>1, <2>2, <2>3, <2>4, EndedFits DEF Blamed, StatusOf
<1> QED
  BY <1>6, <1>7, <1>8, <1>9, <1>10, <1>11, <1>12 DEF Serve

LEMMA NextIInv == IInv /\ [Next]_vars => IInv'
<1> SUFFICES ASSUME IInv, [Next]_vars PROVE IInv'
  OBVIOUS
<1>1. CASE Next
  BY <1>1, ProcessIInv, RequestIInv DEF Next, Step
<1>2. CASE UNCHANGED vars
  <2>1. InOrder'
    BY <1>2 DEF vars, IInv, InOrder
  <2>2. TypeOK' /\ (\A r \in Request : Fits(r)') /\ Watched' /\ Quiet' /\ Tried'
    BY <1>2 DEF vars, IInv, TypeOK, Fits, HeldInUse, InProgress, Blamed, OddCode, Watched, Missing,
                Quiet, Tried
  <2> QED
    BY <2>1, <2>2 DEF IInv
<1> QED
  BY <1>1, <1>2

LEMMA Invariance == Spec => []IInv
<1>1. IInv /\ [Next]_vars => IInv'
  BY NextIInv
<1> QED
  BY <1>1, InitIInv, PTL DEF Spec

-----------------------------------------------------------------------------
\* Every path returns its connections, and none waits for the database with one.
THEOREM AllReturned == Spec => []ConnectionsReturned
<1>1. IInv => ConnectionsReturned
  BY DEF IInv, Fits, HeldInUse, ConnectionsReturned, Store
<1> QED
  BY <1>1, Invariance, PTL

\* A stop closes the pools when nobody holds a connection of theirs, and tries all.
THEOREM StopIsClean == Spec => []CleanStop
<1>1. IInv => CleanStop
  <2> SUFFICES ASSUME IInv PROVE CleanStop
    OBVIOUS
  <2>1. ASSUME main = "cleaning", NEW s \in Store PROVE held[s] = {}
    <3>1. \A r \in Request : request[r].pc = "idle"
      BY <2>1 DEF IInv, Quiet, Ended
    <3>2. \A r \in Request : r \notin held[s]
      BY <3>1 DEF IInv, Fits, HeldInUse, Store
    <3> QED
      BY <3>2 DEF IInv, TypeOK
  <2> QED
    BY <2>1 DEF CleanStop, IInv, Tried
<1> QED
  BY <1>1, Invariance, PTL

\* Failures have their causes, for any number of requests and any limits.
THEOREM Blameless == Spec => []FailuresHaveCause
<1>1. IInv => FailuresHaveCause
  BY DEF IInv, Fits, Blamed, FailuresHaveCause
<1> QED
  BY <1>1, Invariance, PTL

\* What passes the schema is refused by the domain for an odd code only.
THEOREM LayersAgree == Spec => []BadRequestIsOddCode
<1>1. IInv => BadRequestIsOddCode
  BY DEF IInv, Fits, OddCode, BadRequestIsOddCode
<1> QED
  BY <1>1, Invariance, PTL

-----------------------------------------------------------------------------
(* The way of a request.                                                   *)

\* What a request is doing decides how many steps it has left.
StepsOf(q) ==
  LET last == IF q.kind = "health" THEN "redis" ELSE "postgres"
      before == IF q.at = last THEN 0 ELSE 2
  IN CASE q.pc = "waiting" -> 3 + before
       [] q.pc = "asking" -> 2 + before
       [] q.pc = "leaving" -> 1
       [] OTHER -> 0

LEMMA StepsEquation ==
  \A r \in Request : StepsLeft(r) = StepsOf(request[r]) /\ StepsLeft(r)' = StepsOf(request'[r])
BY DEF StepsLeft, StepsOf

\* How many they are at each point of the three routes.
LEMMA StepsTable ==
  ASSUME NEW q, q.pc \in {"idle", "waiting", "asking", "leaving"}
  PROVE  /\ q.pc = "idle" => StepsOf(q) = 0
         /\ q.pc = "leaving" => StepsOf(q) = 1
         /\ q.pc = "asking" => StepsOf(q) \in {2, 4}
         /\ q.pc = "waiting" => StepsOf(q) \in {3, 5}
         /\ q.pc = "asking" /\ q.kind = "latest" /\ q.at = "redis" => StepsOf(q) = 4
         /\ q.pc = "waiting" /\ q.kind = "latest" /\ q.at = "redis" => StepsOf(q) = 5
         /\ q.pc = "waiting" /\ q.kind = "latest" /\ q.at = "postgres" => StepsOf(q) = 3
         /\ q.pc = "asking" /\ q.kind = "health" /\ q.at = "postgres" => StepsOf(q) = 4
         /\ q.pc = "waiting" /\ q.kind = "health" /\ q.at = "postgres" => StepsOf(q) = 5
         /\ q.pc = "waiting" /\ q.kind = "health" /\ q.at = "redis" => StepsOf(q) = 3
BY DEF StepsOf

\* Each step of a request in progress takes it further.
LEMMA ServeProgresses ==
  ASSUME TypeOK, NEW r \in Request, Serve(r)
  PROVE  /\ request[r].pc # "idle"
         /\ StepsOf(request'[r]) < StepsOf(request[r])
         /\ \A t \in Request \ {r} : request'[t] = request[t]
<1>1. request[r] \in RequestState /\ request \in [Request -> RequestState]
  BY DEF TypeOK
<1>2. request[r].pc \in {"idle", "waiting", "asking", "leaving"} /\ request[r].at \in Store
  BY <1>1 DEF RequestState
<1>3. \A o, c : Ended(o, c).pc = "idle" /\ StepsOf(Ended(o, c)) = 0
  BY DEF Ended, StepsOf
<1>4. \A s : request[r].at = s /\ (Answers(s, r) \/ Raises(s, r)) =>
               request[r].pc \in {"asking", "waiting"}
  BY DEF Answers, Raises
<1>5. \A s : Answers(s, r) \/ Raises(s, r) => request[r].at = s
  BY DEF Answers, Raises
<1>6. ASSUME NEW s \in Store, Ask(s, r)
      PROVE  /\ request[r].pc # "idle"
             /\ StepsOf(request'[r]) < StepsOf(request[r])
             /\ \A t \in Request \ {r} : request'[t] = request[t]
  <2>1. request[r].pc = "waiting" /\ request' = [request EXCEPT ![r].pc = "asking"]
    BY <1>6 DEF Ask
  <2>2. /\ request'[r].pc = "asking" /\ request'[r].at = request[r].at
        /\ request'[r].kind = request[r].kind
    BY <1>1, <2>1 DEF RequestState
  <2>3. StepsOf(request'[r]) < StepsOf(request[r])
    BY <2>1, <2>2 DEF StepsOf
  <2> QED
    BY <1>1, <2>1, <2>3
<1>7. ASSUME NEW o, NEW c, request' = [request EXCEPT ![r] = Ended(o, c)],
             request[r].pc # "idle"
      PROVE  /\ StepsOf(request'[r]) < StepsOf(request[r])
             /\ \A t \in Request \ {r} : request'[t] = request[t]
  <2>1. StepsOf(request[r]) \in 1..5
    BY <1>2, <1>7, StepsTable
  <2>2. request'[r] = Ended(o, c)
    BY <1>1, <1>7
  <2> QED
    BY <1>1, <1>3, <1>7, <2>1, <2>2
<1>8. CASE CacheHit(r) \/ ReadRow(r) \/ ReadFails(r) \/ Leave(r)
  <2>1. request[r].pc # "idle"
    BY <1>4, <1>5, <1>8 DEF CacheHit, ReadRow, ReadFails, Leave
  <2>2. \E o, c : request' = [request EXCEPT ![r] = Ended(o, c)]
    BY <1>8 DEF CacheHit, ReadRow, ReadFails, Leave
  <2> QED
    BY <1>7, <2>1, <2>2
<1>9. CASE CacheMiss(r)
  <2>1. /\ request[r].kind = "latest" /\ request[r].at = "redis"
        /\ request[r].pc \in {"asking", "waiting"}
        /\ request' = [request EXCEPT ![r] = Begun("latest", "postgres")]
    BY <1>4, <1>5, <1>9 DEF CacheMiss
  <2>2. request'[r].pc = "waiting" /\ StepsOf(request'[r]) = 3
    BY <1>1, <2>1 DEF Begun, StepsOf
  <2>3. StepsOf(request[r]) \in {4, 5}
    BY <2>1, StepsTable
  <2> QED
    BY <1>1, <2>1, <2>2, <2>3
<1>10. CASE SelectOne(r)
  <2> DEFINE q == [Begun("health", "redis") EXCEPT
                     !.checks = IF Answers("postgres", r) THEN {"postgres"} ELSE {}]
  <2>1. /\ request[r].kind = "health" /\ request[r].at = "postgres"
        /\ request[r].pc \in {"asking", "waiting"}
        /\ request' = [request EXCEPT ![r] = q]
    BY <1>4, <1>5, <1>10 DEF SelectOne
  <2>2. q.pc = "waiting" /\ q.kind = "health" /\ q.at = "redis"
    BY DEF Begun
  <2> HIDE DEF q
  <2>3. StepsOf(request'[r]) = 3
    BY <1>1, <2>1, <2>2, StepsTable
  <2>4. StepsOf(request[r]) \in {4, 5}
    BY <2>1, StepsTable
  <2> QED
    BY <1>1, <2>1, <2>3, <2>4
<1>11. CASE Ping(r)
  <2> DEFINE checks == request[r].checks \cup IF Answers("redis", r) THEN {"redis"} ELSE {}
             q == [request[r] EXCEPT !.pc = "leaving", !.checks = checks,
                     !.outcome = IF checks = Store THEN "healthy" ELSE "unhealthy"]
  <2>1. request[r].pc \in {"asking", "waiting"} /\ request' = [request EXCEPT ![r] = q]
    BY <1>1, <1>4, <1>5, <1>11 DEF Ping
  <2>2. q.pc = "leaving"
    BY <1>1 DEF RequestState
  <2> HIDE DEF q
  <2>3. StepsOf(request'[r]) = 1
    BY <1>1, <2>1, <2>2, StepsTable
  <2>4. StepsOf(request[r]) \in 2..5
    BY <2>1, StepsTable
  <2> QED
    BY <1>1, <2>1, <2>3, <2>4
<1> QED
  BY <1>6, <1>8, <1>9, <1>10, <1>11 DEF Serve

\* Every step takes the requests in progress further or leaves them, and only a process
\* that serves begins another.
LEMMA NextProgresses ==
  TypeOK /\ [Next]_vars =>
    [\A r \in Request :
       IF request[r].pc = "idle"
       THEN request'[r].pc = "idle" \/ main = "serving"
       ELSE request'[r] = request[r] \/ StepsLeft(r)' < StepsLeft(r)]_vars
<1> SUFFICES ASSUME TypeOK, [Next]_vars, NEW r \in Request
             PROVE  IF request[r].pc = "idle"
                    THEN request'[r].pc = "idle" \/ main = "serving"
                    ELSE request'[r] = request[r] \/ StepsLeft(r)' < StepsLeft(r)
  OBVIOUS
<1>1. request \in [Request -> RequestState]
      /\ request[r].pc \in {"idle", "waiting", "asking", "leaving"}
  BY DEF TypeOK, RequestState
<1>2. CASE UNCHANGED request
  BY <1>2
<1>3. CASE Kill \/ Drained
  <2>1. request'[r] = Ended("none", {})
    BY <1>3 DEF Kill, Drained
  <2>2. request'[r].pc = "idle" /\ StepsOf(request'[r]) = 0
    BY <2>1 DEF Ended, StepsOf
  <2>3. request[r].pc # "idle" => StepsOf(request[r]) \in 1..5
    BY <1>1, StepsTable
  <2> QED
    BY <2>2, <2>3, StepsEquation
<1>4. ASSUME NEW t \in Request, Serve(t)
      PROVE  IF request[r].pc = "idle"
             THEN request'[r].pc = "idle" \/ main = "serving"
             ELSE request'[r] = request[r] \/ StepsLeft(r)' < StepsLeft(r)
  BY <1>4, ServeProgresses, StepsEquation
<1>5. ASSUME NEW t \in Request, Receive(t)
      PROVE  main = "serving" /\ (request[r].pc # "idle" => request'[r] = request[r])
  <2>1. main = "serving" /\ request[t].pc = "idle"
    BY <1>5 DEF Receive
  <2>2. \E q : request' = [request EXCEPT ![t] = q]
    BY <1>5 DEF Receive
  <2> QED
    BY <1>1, <2>1, <2>2
<1>6. CASE \/ Start \/ Restart \/ Terminate \/ CleanUp \/ CleanedUp \/ UNCHANGED vars
           \/ \E s \in Store : Fail(s) \/ Recover(s)
  BY <1>2, <1>6 DEF Start, Restart, Terminate, CleanUp, CleanedUp, Fail, Recover, vars
<1> QED
  BY <1>3, <1>4, <1>5, <1>6 DEF Next, Step, CleaningUp

\* With any number of requests and whatever the stores do, no request is ever sent
\* back, and a process that stops begins none.
THEOREM RequestsAdvance == Spec => RequestsProgress
BY NextProgresses, InitTypeOK, NextTypeOK, PTL DEF Spec, RequestsProgress
=============================================================================
