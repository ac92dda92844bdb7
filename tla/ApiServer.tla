------------------------------ MODULE ApiServer ------------------------------
(***************************************************************************)
(* The API process: it starts when Redis answers, serves conversions and   *)
(* health checks concurrently over two pools of connections, and on a      *)
(* signal ends its requests and cleans up (app.py, the routes and schemas, *)
(* container.py, run_api).  A request is refused by one of three layers    *)
(* (FastAPI's query parameters, ConvertRequest, the domain's values) or    *)
(* asks the stores; how it ends decides the status of its response.        *)
(*                                                                         *)
(* What the stores answer is QuoteStore's subject: here a look-up finds a  *)
(* quote of any age or none.  A store raises errors only while it is down; *)
(* one that answers a command with an error is down at that moment.        *)
(***************************************************************************)
EXTENDS Naturals, FiniteSets, Sequences

CONSTANTS
  Request, \* the requests served concurrently
  Limit,   \* connections per store: max_connections, pool_size + max_overflow
  Code,    \* what a client may write for a currency
  Plain,   \* the codes that are alphanumeric, underscores aside
  Length,  \* len() of a code
  UpperOf  \* str.upper

Store == {"redis", "postgres"}

ASSUME PoolAssumption == IsFiniteSet(Request) /\ Limit \in [Store -> Nat \ {0}]

ASSUME CodeAssumption ==
  /\ Plain \subseteq Code
  /\ Length \in [Code -> Nat]
  /\ UpperOf \in [Code -> Code]
  /\ \A c \in Code : UpperOf[UpperOf[c]] = UpperOf[c]

VARIABLES
  main,     \* the process: uvicorn and the application's lifespan
  up,       \* the stores that can be reached and answer without an error
  held,     \* held[s]: the requests that hold a connection of s
  request,  \* what each request is doing, and how its last one ended
  released, \* how far cleanup_resources has got with each resource
  lost      \* history: the stores a request could not have relied on throughout

vars == <<main, up, held, request, released, lost>>

-----------------------------------------------------------------------------
(* The validation of GET /convert, which nothing else can interrupt.       *)

Query == [amount : {"zero", "positive", "huge"}, \* "huge": 10^15 or more
          from : Code, to : Code,
          at : {"none", "past", "refused"}]      \* "refused": no timezone, in the
                                                 \* future, or over a week ago

\* parse_convert_request: its Query() parameters.
ParametersAccept(q) ==
  /\ q.amount # "zero"
  /\ Length[q.from] \in 2..10 /\ Length[q.to] \in 2..10

\* Slip: the codes are compared before they are in upper case.
SchemaComparesRaw(q) ==
  /\ q.amount # "huge"
  /\ {q.from, q.to} \subseteq Plain
  /\ q.from # q.to
  /\ q.at # "refused"

\* ConvertRequest: to_currency is compared with the from_currency that
\* validate_currency has returned.
SchemaAccepts(q) ==
  /\ q.amount # "huge"
  /\ {q.from, q.to} \subseteq Plain
  /\ UpperOf[q.from] # UpperOf[q.to]
  /\ q.at # "refused"

\* Currency.__post_init__, given a code in upper case.
Currency == {c \in Plain : Length[c] \in 1..20}

\* map_request_to_query: Currency, AmountFactory, TimestampUTC and Pair, of which
\* the second and the third refuse nothing that the schema accepts.
DomainAccepts(q) ==
  LET base == UpperOf[q.from]
      quote == UpperOf[q.to]
  IN {base, quote} \subseteq Currency /\ UpperOf[base] # UpperOf[quote]

\* How a request is to go on, and the codes that the domain refused.
Parse(q) ==
  IF ~(ParametersAccept(q) /\ SchemaAccepts(q))
  THEN [verdict |-> "malformed", codes |-> {}]
  ELSE IF ~DomainAccepts(q) THEN [verdict |-> "refused", codes |-> {q.from, q.to}]
       ELSE [verdict |-> IF q.at = "none" THEN "latest" ELSE "before", codes |-> {}]

Parsed == {Parse(q) : q \in Query}

-----------------------------------------------------------------------------
\* convert_currency, handle_domain_error and the application's exception handlers:
\* the status of a response; health_check has one for both of its answers.
StatusOf(outcome) ==
  CASE outcome \in {"ok", "healthy", "unhealthy"} -> 200
    [] outcome \in {"refused", "ahead"} -> 400        \* ValueError
    [] outcome = "not_found" -> 404                   \* QuoteNotFoundError
    [] outcome \in {"malformed", "too_old"} -> 422    \* ValidationError, QuoteTooOldError
    [] outcome = "failed" -> 500                      \* any other exception
    [] OTHER -> 0                                     \* no response

\* What a quote that was found can lead to, depending on its age.
Aged == {"ok", "too_old", "ahead"}
Outcome == Aged \cup {"none", "healthy", "unhealthy", "refused", "not_found",
                      "malformed", "failed"}

RequestState ==
  [pc : {"idle", "waiting", "asking", "leaving"},
   at : Store,             \* whom it waits for or asks
   kind : {"latest", "before", "health"},
   checks : SUBSET Store,  \* those that health_check found healthy
   codes : SUBSET Code,    \* the codes the domain refused
   outcome : Outcome]      \* of the last response

Begun(kind, s) == [pc |-> "waiting", at |-> s, kind |-> kind, checks |-> {}, codes |-> {},
                   outcome |-> "none"]
Ended(outcome, codes) == [pc |-> "idle", at |-> "redis", kind |-> "latest", checks |-> {},
                          codes |-> codes, outcome |-> outcome]

\* cleanup_resources goes through these in this order.
Resources == <<"scheduler", "consumer", "rate_source", "client", "redis", "engine">>
Resource == {Resources[i] : i \in 1..6}

Init ==
  /\ main = "starting"
  /\ up \in SUBSET Store
  /\ held = [s \in Store |-> {}]
  /\ request = [r \in Request |-> Ended("none", {})]
  /\ released = [x \in Resource |-> "open"]
  /\ lost = [r \in Request |-> {}]

-----------------------------------------------------------------------------
(* The process.                                                            *)

\* Slip: the database is asked as well before the process serves.
StartWithBoth ==
  /\ main = "starting"
  /\ main' = IF up = Store THEN "serving" ELSE "failed"
  /\ UNCHANGED <<up, held, request, released>>

\* lifespan: the process serves if Redis answers a ping and exits if not.
Start ==
  /\ main = "starting"
  /\ main' = IF "redis" \in up THEN "serving" ELSE "failed"
  /\ UNCHANGED <<up, held, request, released>>

\* docker starts a container that ended, unless somebody stopped it.
Restart ==
  /\ main \in {"failed", "stopped"}
  /\ main' = "starting"
  /\ released' = [x \in Resource |-> "open"]
  /\ UNCHANGED <<up, held, request>>

\* SIGKILL, or a crash: requests in progress are never answered.
Kill ==
  /\ main \in {"serving", "draining", "cleaning"}
  /\ main' = "failed"
  /\ held' = [s \in Store |-> {}]
  /\ request' = [r \in Request |-> Ended("none", {})]
  /\ UNCHANGED <<up, released>>

\* SIGTERM or SIGINT: uvicorn accepts no more requests ...
Terminate ==
  /\ main = "serving"
  /\ main' = "draining"
  /\ UNCHANGED <<up, held, request, released>>

\* Slip: a grace period that is over before the requests are.
DrainedInTime ==
  /\ main = "draining"
  /\ main' = "cleaning"
  /\ UNCHANGED <<up, held, request, released>>

\* ... and resumes the lifespan when the tasks of all others have ended.
Drained ==
  /\ main = "draining"
  /\ \A r \in Request : request[r].pc = "idle"
  /\ main' = "cleaning"
  /\ request' = [r \in Request |-> Ended("none", {})]
  /\ UNCHANGED <<up, held, released>>

\* cleanup_resources: each resource in turn is closed or its error is logged.
CleanUp ==
  /\ main = "cleaning"
  /\ \E i \in 1..6, how \in {"closed", "error"} :
       /\ released[Resources[i]] = "open"
       /\ \A j \in 1..(i - 1) : released[Resources[j]] # "open"
       /\ released' = [released EXCEPT ![Resources[i]] = how]
  /\ UNCHANGED <<main, up, held, request>>

\* It ends after the last of them.
CleanedUp ==
  /\ main = "cleaning"
  /\ released[Resources[6]] # "open"
  /\ main' = "stopped"
  /\ UNCHANGED <<up, held, request, released>>

-----------------------------------------------------------------------------
(* The stores and their pools.                                             *)
Fail(s) ==
  /\ up' = up \ {s}
  /\ UNCHANGED <<main, held, request, released>>

Recover(s) ==
  /\ up' = up \cup {s}
  /\ UNCHANGED <<main, held, request, released>>

\* Slip: one connection too many.
FullTooLate(s) == Cardinality(held[s]) > Limit[s]

Full(s) == Cardinality(held[s]) >= Limit[s]

\* A request takes a connection of the pool and sends its command.
Ask(s, r) ==
  /\ request[r].pc = "waiting" /\ request[r].at = s
  /\ ~Full(s)
  /\ held' = [held EXCEPT ![s] = @ \cup {r}]
  /\ request' = [request EXCEPT ![r].pc = "asking"]
  /\ UNCHANGED <<main, up, released>>

\* The store answers.
Answers(s, r) == request[r].pc = "asking" /\ request[r].at = s /\ s \in up

\* The store cannot be reached or answers with an error, or its pool is at its limit:
\* Redis' raises at once, SQLAlchemy's after pool_timeout.
Raises(s, r) ==
  /\ request[r].at = s
  /\ \/ request[r].pc = "asking" /\ s \notin up
     \/ request[r].pc = "waiting" /\ Full(s)

\* The request's connection goes back to the pool.
Return(s, r) == held' = [held EXCEPT ![s] = @ \ {r}]

-----------------------------------------------------------------------------
(* The requests.                                                           *)

\* A request comes in, and is refused before anything is asked, or begins.
Receive(r) ==
  /\ main = "serving" /\ request[r].pc = "idle"
  /\ \/ \E p \in Parsed : request' = [request EXCEPT ![r] =
          CASE p.verdict = "latest" -> Begun("latest", "redis")
            [] p.verdict = "before" -> Begun("before", "postgres")
            [] OTHER -> Ended(p.verdict, p.codes)]
     \/ request' = [request EXCEPT ![r] = Begun("health", "postgres")]
  /\ UNCHANGED <<main, up, held, released>>

\* RedisQuoteRepository.get_latest finds a quote.
CacheHit(r) ==
  /\ request[r].kind = "latest"
  /\ Answers("redis", r)
  /\ Return("redis", r)
  /\ \E o \in Aged : request' = [request EXCEPT ![r] = Ended(o, {})]
  /\ UNCHANGED <<main, up, released>>

\* Slip: an error of the cache is raised like any other.
CacheRaises(r) ==
  /\ request[r].kind = "latest"
  /\ Answers("redis", r) \/ Raises("redis", r)
  /\ Return("redis", r)
  /\ request' = [request EXCEPT ![r] =
       IF Answers("redis", r) THEN Begun("latest", "postgres") ELSE Ended("failed", {})]
  /\ UNCHANGED <<main, up, released>>

\* It finds none, or swallows an exception: the fallback is asked.
CacheMiss(r) ==
  /\ request[r].kind = "latest"
  /\ Answers("redis", r) \/ Raises("redis", r)
  /\ Return("redis", r)
  /\ request' = [request EXCEPT ![r] = Begun("latest", "postgres")]
  /\ UNCHANGED <<main, up, released>>

\* PostgresQuoteRepository: the session ends with the query, however it ended.  A row
\* from before the time asked for is not ahead of it.
ReadRow(r) ==
  /\ request[r].kind # "health"
  /\ Answers("postgres", r)
  /\ Return("postgres", r)
  /\ \E o \in Aged \cup {"not_found"} :
       /\ request[r].kind = "before" => o # "ahead"
       /\ request' = [request EXCEPT ![r] = Ended(o, {})]
  /\ UNCHANGED <<main, up, released>>

\* Slip: the session is closed after a successful query only.
ReadFailsHolding(r) ==
  /\ request[r].kind # "health"
  /\ Raises("postgres", r)
  /\ request' = [request EXCEPT ![r] = Ended("failed", {})]
  /\ UNCHANGED <<main, up, held, released>>

\* Slip: no pool_timeout.
ReadFailsWithoutTimeout(r) ==
  /\ request[r].kind # "health" /\ request[r].pc = "asking"
  /\ Raises("postgres", r)
  /\ Return("postgres", r)
  /\ request' = [request EXCEPT ![r] = Ended("failed", {})]
  /\ UNCHANGED <<main, up, released>>

\* Slip: a query that failed is tried again, as often as it takes.
ReadFailsAndRetries(r) ==
  /\ request[r].kind # "health"
  /\ Raises("postgres", r)
  /\ Return("postgres", r)
  /\ request' = [request EXCEPT ![r] = Begun(request[r].kind, "postgres")]
  /\ UNCHANGED <<main, up, released>>

\* A failing driver, or a pool_timeout.
ReadFails(r) ==
  /\ request[r].kind # "health"
  /\ Raises("postgres", r)
  /\ Return("postgres", r)
  /\ request' = [request EXCEPT ![r] = Ended("failed", {})]
  /\ UNCHANGED <<main, up, released>>

\* health_check: SELECT 1 in a session that is not closed here.  When it raises the
\* connection may have gone back already.
SelectOne(r) ==
  /\ request[r].kind = "health"
  /\ \/ Answers("postgres", r) /\ UNCHANGED held
     \/ Raises("postgres", r) /\ (UNCHANGED held \/ Return("postgres", r))
  /\ request' = [request EXCEPT
       ![r] = [Begun("health", "redis") EXCEPT
                 !.checks = IF Answers("postgres", r) THEN {"postgres"} ELSE {}]]
  /\ UNCHANGED <<main, up, released>>

\* health_check: the other check and the response.
Ping(r) ==
  /\ request[r].kind = "health"
  /\ Answers("redis", r) \/ Raises("redis", r)
  /\ Return("redis", r)
  /\ LET checks == request[r].checks \cup IF Answers("redis", r) THEN {"redis"} ELSE {}
     IN request' = [request EXCEPT ![r].pc = "leaving", ![r].checks = checks,
                      ![r].outcome = IF checks = Store THEN "healthy" ELSE "unhealthy"]
  /\ UNCHANGED <<main, up, released>>

\* Slip: the session's end waits for the database.
LeaveOnAnswer(r) ==
  /\ request[r].pc = "leaving" /\ "postgres" \in up
  /\ Return("postgres", r)
  /\ request' = [request EXCEPT ![r] = Ended(request[r].outcome, {})]
  /\ UNCHANGED <<main, up, released>>

\* get_db_session resumes when the response has been sent, and closes the session.
Leave(r) ==
  /\ request[r].pc = "leaving"
  /\ Return("postgres", r)
  /\ request' = [request EXCEPT ![r] = Ended(request[r].outcome, {})]
  /\ UNCHANGED <<main, up, released>>

-----------------------------------------------------------------------------
Missing(r) == {s \in Store : s \notin up \/ Cardinality(held[s] \ {r}) >= Limit[s]}

\* Keeps the history: nothing that the program knows.
Watch ==
  lost' = [r \in Request |->
             IF request'[r] = Ended("none", {}) THEN {}
             ELSE IF request'[r].pc = "idle" THEN lost[r]
             ELSE Missing(r)' \cup IF request[r].pc = "idle" THEN {} ELSE lost[r]]

CleaningUp == Drained \/ CleanUp \/ CleanedUp

Serve(r) == \/ \E s \in Store : Ask(s, r)
            \/ CacheHit(r) \/ CacheMiss(r) \/ ReadRow(r) \/ ReadFails(r)
            \/ SelectOne(r) \/ Ping(r) \/ Leave(r)

Step == \/ Start \/ Restart \/ Kill \/ Terminate \/ CleaningUp
        \/ \E s \in Store : Fail(s) \/ Recover(s)
        \/ \E r \in Request : Receive(r) \/ Serve(r)

Next == Step /\ Watch

\* The event loop runs every task that can run, a command ends with an answer or an
\* error, and docker restarts what failed; nothing makes requests or signals come.
Fairness ==
  /\ WF_vars(Start /\ Watch)
  /\ WF_vars(Restart /\ main = "failed" /\ Watch)
  /\ WF_vars(CleaningUp /\ Watch)
  /\ \A r \in Request : WF_vars(Serve(r) /\ Watch)

Spec == Init /\ [][Next]_vars /\ Fairness

-----------------------------------------------------------------------------
\* The variables have their types, and no pool ever has more connections than its limit
\* (max_connections; pool_size and max_overflow).
TypeOK ==
  /\ main \in {"starting", "serving", "draining", "cleaning", "stopped", "failed"}
  /\ up \in SUBSET Store
  /\ held \in [Store -> SUBSET Request]
  /\ \A s \in Store : Cardinality(held[s]) <= Limit[s]
  /\ request \in [Request -> RequestState]
  /\ released \in [Resource -> {"open", "closed", "error"}]
  /\ lost \in [Request -> SUBSET Store]

\* On every path, the failing ones included, connections go back to their pools
\* (the sessions of PostgresQuoteRepository and get_db_session): only a request in
\* progress holds one, and one that waits for the database holds none at all, so
\* requests never wait for each other in a circle.
ConnectionsReturned ==
  \A r \in Request :
    request[r].pc = "idle" \/ (request[r].pc = "waiting" /\ request[r].at = "postgres")
      => \A s \in Store : r \notin held[s]

\* A stop closes Redis' pool and the engine only when no request uses them any more,
\* not even to close its session after the response, and whatever fails on the way
\* leaves no resource untried (cleanup_resources).
CleanStop ==
  /\ main = "cleaning" => \A s \in Store : held[s] = {}
  /\ main = "stopped" => \A x \in Resource : released[x] # "open"

\* A conversion fails with 500 only when the database was down or gave an error, or its
\* pool was at its limit, at some moment since the request came in; Redis alone never is
\* the reason (RedisQuoteRepository: "it's fine if it doesn't").  And no health check
\* reports unhealthy without such a moment of either store.
FailuresHaveCause ==
  \A r \in Request :
    /\ StatusOf(request[r].outcome) = 500 => "postgres" \in lost[r]
    /\ request[r].outcome = "unhealthy" => lost[r] # {}

\* The three layers of validation agree, although they apply upper() at different
\* moments: of the requests that ConvertRequest lets through, the domain refuses
\* (400) only those with a code that is no longer a valid one in upper case.
BadRequestIsOddCode ==
  \A r \in Request :
    StatusOf(request[r].outcome) = 400 /\ request[r].outcome # "ahead"
      => \E c \in request[r].codes : UpperOf[c] \notin Currency

\* The steps that a request can still take: one for each wait and each command, in the
\* order in which its route asks the stores, and one to leave.
StepsLeft(r) ==
  LET last == IF request[r].kind = "health" THEN "redis" ELSE "postgres"
      before == IF request[r].at = last THEN 0 ELSE 2
  IN CASE request[r].pc = "waiting" -> 3 + before
       [] request[r].pc = "asking" -> 2 + before
       [] request[r].pc = "leaving" -> 1
       [] OTHER -> 0

\* No failure, retry or full pool sends a request back: whatever it and all others do, each
\* step of it brings it nearer to its response, and a process that no longer serves begins
\* none.  With weak fairness RequestsAnswered and StopCompletes rest on this.
RequestsProgress ==
  [][\A r \in Request :
       IF request[r].pc = "idle"
       THEN request'[r].pc = "idle" \/ main = "serving"
       ELSE request'[r] = request[r] \/ StepsLeft(r)' < StepsLeft(r)]_vars

\* Every request is answered, or lost with the process, while stores go down and come
\* back and others take the connections it waits for.
RequestsAnswered == \A r \in Request : request[r].pc # "idle" ~> request[r].pc = "idle"

\* A stop comes to its end, whatever the requests in progress do and whichever
\* resources fail to close.
StopCompletes == main = "draining" ~> main \in {"stopped", "failed"}

\* Once Redis stays up, the process does not stay down: it serves again after every
\* failed start and every crash, with or without the database.
ServesWithRedis ==
  (<>[]("redis" \in up) /\ []<>(main # "stopped")) => []<>(main \notin {"starting", "failed"})
=============================================================================
