------------------------------ MODULE RateFeed ------------------------------
(***************************************************************************)
(* The consumer process: BinanceStreamingRateSource polls Binance from     *)
(* jobs of FixedRateScheduler and puts the batches in its queue;           *)
(* QuoteConsumer takes them from stream() and has them saved;              *)
(* run_consumer_async waits for a signal and stops them.  All are tasks of *)
(* one event loop, and a step is what a task does between two awaits.      *)
(*                                                                         *)
(* A batch is the timestamp of its quotes, or Nothing when a poll finds no *)
(* pair tracked.  Binance's clock moves whenever it is asked: the n-th     *)
(* answer to get_server_time is n.  Saving a batch is one step here; how   *)
(* it fails and is retried is QuoteStore's subject, and the attempts of a  *)
(* call of the API are BinanceClient's.                                    *)
(***************************************************************************)
EXTENDS Naturals, Sequences, FiniteSets

CONSTANTS
  QueueSize, \* queue_maxsize
  Attempts,  \* stop_after_attempt of start() and of _init_symbols()
  MaxPolls   \* bound: the rates job fires this often

ASSUME FeedAssumption ==
  /\ QueueSize \in Nat \ {0}
  /\ Attempts \in Nat \ {0}
  /\ MaxPolls \in Nat

VARIABLES
  main,      \* run_consumer_async
  shutdown,  \* the _shutdown events of QuoteConsumer and of the rate source
  consumer,  \* QuoteConsumer.start and the stream() it iterates
  scheduler, \* FixedRateScheduler and the task that runs it
  tracked,   \* whether _tracked_pairs has any
  polls,     \* the runs of _rates_tick, in the order they were fired
  refresh,   \* the run of _symbols_tick
  stamp,     \* Binance's clock
  queue,     \* the rate source's queue
  session,   \* the client's _session
  orphaned   \* whether an open session was overwritten with None

vars == <<main, shutdown, consumer, scheduler, tracked, polls, refresh, stamp,
          queue, session, orphaned>>
feed == <<polls, refresh, stamp>>
client == <<session, orphaned>>

-----------------------------------------------------------------------------
Poll == 1..MaxPolls
Nothing == 0
Batch == Nat

\* A tick awaits both of its calls; its job ends at the first that fails, and
\* the other call goes on (asyncio.gather).
PollState == [job : {"waiting", "running", "ended"},
              pending : SUBSET {"time", "prices"},
              stamp : Batch]            \* what get_server_time answered

\* A run of _rates_tick that is over, with the calls of it that go on.
Ended(calls) == [job |-> "ended", pending |-> calls, stamp |-> Nothing]

Consumer == [pc : {"start", "init", "backoff", "stream", "check", "process",
                   "done", "failed"},
             attempt : 1..Attempts,     \* of start()
             init : 1..Attempts,        \* of _init_symbols()
             batch : Batch,             \* the batch in hand
             taken : Batch]             \* history: the last one with quotes

Init ==
  /\ main = "running"
  /\ shutdown = FALSE
  /\ consumer = [pc |-> "start", attempt |-> 1, init |-> 1, batch |-> Nothing,
                 taken |-> Nothing]
  /\ scheduler = "new"
  /\ tracked = FALSE
  /\ polls = [p \in Poll |-> [job |-> "waiting", pending |-> {}, stamp |-> Nothing]]
  /\ refresh = "none"
  /\ stamp = 0
  /\ queue = <<>>
  /\ session = "none"
  /\ orphaned = FALSE

-----------------------------------------------------------------------------
Alive == main # "exited"

\* BinanceAPIClient._ensure_session, at the start of every attempt of a call.
EnsureSession == session' = "open" /\ UNCHANGED orphaned

-----------------------------------------------------------------------------
(* QuoteConsumer.start and stream().                                       *)

\* start() looks at the shutdown event once; then stream() asks for the symbols.
Start ==
  /\ Alive /\ consumer.pc = "start"
  /\ IF shutdown
     THEN consumer' = [consumer EXCEPT !.pc = "done"] /\ UNCHANGED client
     ELSE consumer' = [consumer EXCEPT !.pc = "init"] /\ EnsureSession
  /\ UNCHANGED <<main, shutdown, scheduler, tracked, queue, feed>>

\* A back-off of _init_symbols or of start() is over: neither looks at the
\* shutdown event before the next attempt.
Retry ==
  /\ Alive /\ consumer.pc = "backoff"
  /\ consumer' = [consumer EXCEPT !.pc = "init"]
  /\ EnsureSession
  /\ UNCHANGED <<main, shutdown, scheduler, tracked, queue, feed>>

\* Exchange info arrives: stream() schedules its two jobs, creates the task that
\* runs the scheduler and enters its loop.
InitSymbols ==
  /\ Alive /\ consumer.pc = "init"
  /\ consumer' = [consumer EXCEPT !.pc = "stream"]
  /\ tracked' \in BOOLEAN
  /\ scheduler' = "scheduled"
  /\ UNCHANGED <<main, shutdown, queue, feed, client>>

\* Slip: start() makes one attempt too many.
InitFailsOnceMore ==
  /\ Alive /\ consumer.pc = "init"
  /\ consumer' =
       IF consumer.init < Attempts
       THEN [consumer EXCEPT !.pc = "backoff", !.init = @ + 1]
       ELSE IF consumer.attempt <= Attempts
            THEN [consumer EXCEPT !.pc = "backoff", !.init = 1, !.attempt = @ + 1]
            ELSE [consumer EXCEPT !.pc = "failed"]
  /\ UNCHANGED <<main, shutdown, scheduler, tracked, queue, feed, client>>

\* Slip: the attempts of start() are not counted.
InitFailsForEver ==
  /\ Alive /\ consumer.pc = "init"
  /\ consumer' =
       IF consumer.init < Attempts
       THEN [consumer EXCEPT !.pc = "backoff", !.init = @ + 1]
       ELSE [consumer EXCEPT !.pc = "backoff", !.init = 1]
  /\ UNCHANGED <<main, shutdown, scheduler, tracked, queue, feed, client>>

\* Exchange info fails.  After the attempts of _init_symbols stream() raises,
\* and start() calls it again; after its own attempts it raises RetryError.
InitFails ==
  /\ Alive /\ consumer.pc = "init"
  /\ consumer' =
       IF consumer.init < Attempts
       THEN [consumer EXCEPT !.pc = "backoff", !.init = @ + 1]
       ELSE IF consumer.attempt < Attempts
            THEN [consumer EXCEPT !.pc = "backoff", !.init = 1, !.attempt = @ + 1]
            ELSE [consumer EXCEPT !.pc = "failed"]
  /\ UNCHANGED <<main, shutdown, scheduler, tracked, queue, feed, client>>

\* The queue has a batch and stream() yields it.
Yield ==
  /\ Alive /\ consumer.pc = "stream"
  /\ queue # <<>>
  /\ consumer' = [consumer EXCEPT !.pc = "check", !.batch = Head(queue)]
  /\ queue' = Tail(queue)
  /\ UNCHANGED <<main, shutdown, scheduler, tracked, feed, client>>

\* Slip: an empty batch ends the stream.
CheckEndsAtEmpty ==
  /\ Alive /\ consumer.pc = "check"
  /\ consumer' =
       IF shutdown \/ consumer.batch = Nothing
       THEN [consumer EXCEPT !.pc = "done", !.batch = Nothing]
       ELSE [consumer EXCEPT !.pc = "process", !.taken = consumer.batch]
  /\ UNCHANGED <<main, shutdown, scheduler, tracked, queue, feed, client>>

\* _consume_stream drops the batch when it is to stop, skips it when it is empty.
Check ==
  /\ Alive /\ consumer.pc = "check"
  /\ consumer' =
       IF shutdown THEN [consumer EXCEPT !.pc = "done", !.batch = Nothing]
       ELSE IF consumer.batch = Nothing THEN [consumer EXCEPT !.pc = "stream"]
       ELSE [consumer EXCEPT !.pc = "process", !.taken = consumer.batch]
  /\ UNCHANGED <<main, shutdown, scheduler, tracked, queue, feed, client>>

\* Slip: _process_batch lets its RetryError out, and start() begins
\* the stream again.
ProcessRaises ==
  /\ Alive /\ consumer.pc = "process"
  /\ \/ consumer' = [consumer EXCEPT !.pc = "stream", !.batch = Nothing]
     \/ /\ consumer.attempt < Attempts
        /\ consumer' = [consumer EXCEPT !.pc = "backoff", !.batch = Nothing,
                                        !.attempt = @ + 1]
  /\ UNCHANGED <<main, shutdown, scheduler, tracked, queue, feed, client>>

\* _process_batch has saved the batch or given it up.
Process ==
  /\ Alive /\ consumer.pc = "process"
  /\ consumer' = [consumer EXCEPT !.pc = "stream", !.batch = Nothing]
  /\ UNCHANGED <<main, shutdown, scheduler, tracked, queue, feed, client>>

\* stream() looks at its shutdown event between two waits of a second.  Its own
\* close() is then the second one and returns at once; start() ends.
StreamEnds ==
  /\ Alive /\ consumer.pc = "stream"
  /\ shutdown
  /\ consumer' = [consumer EXCEPT !.pc = "done"]
  /\ UNCHANGED <<main, shutdown, scheduler, tracked, queue, feed, client>>

Consume == Start \/ Retry \/ InitSymbols \/ InitFails \/ Yield \/ Check \/ Process
             \/ StreamEnds

-----------------------------------------------------------------------------
(* The scheduler and its jobs.                                             *)

\* The scheduler's task runs for the first time.
SchedulerStarts ==
  /\ Alive /\ scheduler = "scheduled"
  /\ scheduler' = "running"
  /\ UNCHANGED <<main, shutdown, consumer, tracked, queue, feed, client>>

\* Slip: a poll may start before the last has ended.
TwoInstances == 2

\* FixedRateScheduler.schedule: max_instances of a job.
MaxInstances == 1

\* Slip: the shutdown event is not looked at.
OfferAfterStop(b) == queue' = IF Len(queue) < QueueSize THEN Append(queue, b) ELSE queue

\* _offer_batch: not after the shutdown event; the newest batch is dropped when
\* the queue is full.
Offer(b) == queue' = IF ~shutdown /\ Len(queue) < QueueSize THEN Append(queue, b)
                     ELSE queue

\* The rates job fires, unless its last run has not ended.
Fire(p) ==
  /\ Alive /\ scheduler = "running"
  /\ polls[p].job = "waiting"
  /\ \A o \in Poll : o < p => polls[o].job # "waiting"
  /\ Cardinality({o \in Poll : polls[o].job = "running"}) < MaxInstances
  /\ IF tracked
     THEN /\ polls' = [polls EXCEPT ![p].job = "running", ![p].pending = {"time", "prices"}]
          /\ EnsureSession
          /\ UNCHANGED queue
     ELSE /\ polls' = [polls EXCEPT ![p] = Ended({})]
          /\ Offer(Nothing)
          /\ UNCHANGED client
  /\ UNCHANGED <<main, shutdown, consumer, scheduler, tracked, refresh, stamp>>

\* A pending call fails for the moment, backs off and makes its next attempt.
NextAttempt ==
  /\ Alive /\ session # "open"
  /\ consumer.pc = "init" \/ refresh = "pending" \/ \E p \in Poll : polls[p].pending # {}
  /\ EnsureSession
  /\ UNCHANGED <<main, shutdown, consumer, scheduler, tracked, queue, feed>>

TimeArrives(p) ==
  /\ Alive /\ "time" \in polls[p].pending
  /\ stamp' = stamp + 1
  /\ polls' = [polls EXCEPT ![p].pending = @ \ {"time"},
                            ![p].stamp = IF polls[p].job = "running" THEN stamp + 1 ELSE @]
  /\ UNCHANGED <<main, shutdown, consumer, scheduler, tracked, refresh, queue, client>>

PricesArrive(p) ==
  /\ Alive /\ "prices" \in polls[p].pending
  /\ polls' = [polls EXCEPT ![p].pending = @ \ {"prices"}]
  /\ UNCHANGED <<main, shutdown, consumer, scheduler, tracked, refresh, stamp, queue,
                 client>>

\* One of the calls fails for good; _rates_tick swallows it and ends, while the
\* other call goes on.
CallFails(p) ==
  /\ Alive
  /\ \E c \in polls[p].pending : polls' = [polls EXCEPT ![p] = Ended(@.pending \ {c})]
  /\ UNCHANGED <<main, shutdown, consumer, scheduler, tracked, refresh, stamp, queue,
                 client>>

\* Both have answered: the batch is offered, unless no ticker was valid.
RatesTick(p) ==
  /\ Alive /\ polls[p].job = "running" /\ polls[p].pending = {}
  /\ polls' = [polls EXCEPT ![p] = Ended({})]
  /\ Offer(polls[p].stamp) \/ UNCHANGED queue
  /\ UNCHANGED <<main, shutdown, consumer, scheduler, tracked, refresh, stamp, client>>

\* _symbols_tick: fires, then replaces the tracked pairs or keeps them.
FireRefresh ==
  /\ Alive /\ scheduler = "running" /\ refresh = "none"
  /\ refresh' = "pending"
  /\ EnsureSession
  /\ UNCHANGED <<main, shutdown, consumer, scheduler, tracked, polls, stamp, queue>>

SymbolsTick ==
  /\ Alive /\ refresh = "pending"
  /\ refresh' = "none"
  /\ tracked' \in BOOLEAN
  /\ UNCHANGED <<main, shutdown, consumer, scheduler, polls, stamp, queue, client>>

-----------------------------------------------------------------------------
(* run_consumer_async, QuoteConsumer.stop and the rate source's close().   *)

\* SIGTERM or SIGINT: stop() sets the consumer's event and close() the source's
\* before anything else runs.
Stop ==
  /\ main = "running"
  /\ main' = "close_scheduler"
  /\ shutdown' = TRUE
  /\ UNCHANGED <<consumer, scheduler, tracked, queue, feed, client>>

\* close() shuts the scheduler down if it runs, which cancels the jobs and the
\* calls they await, and waits for its task, which it then cancels.
CloseScheduler ==
  /\ main = "close_scheduler"
  /\ scheduler # "scheduled"
  /\ main' = "close_client"
  /\ IF scheduler = "running"
     THEN /\ scheduler' = "stopped"
          /\ refresh' = "none"
          /\ polls' = [p \in Poll |->
                         IF polls[p].job = "running" THEN Ended({}) ELSE polls[p]]
     ELSE UNCHANGED <<scheduler, refresh, polls>>
  /\ UNCHANGED <<shutdown, consumer, tracked, stamp, queue, client>>

\* BinanceAPIClient.close: closes an open session and sleeps ...
CloseClient ==
  /\ main = "close_client"
  /\ IF session = "open"
     THEN session' = "closed" /\ main' = "forget_session"
     ELSE UNCHANGED session /\ main' = "drain"
  /\ UNCHANGED <<shutdown, consumer, scheduler, tracked, queue, feed, orphaned>>

\* ... then forgets whatever session there is now.
ForgetSession ==
  /\ main = "forget_session"
  /\ main' = "drain"
  /\ session' = "none"
  /\ orphaned' = (orphaned \/ session = "open")
  /\ UNCHANGED <<shutdown, consumer, scheduler, tracked, queue, feed>>

Drain ==
  /\ main = "drain"
  /\ main' = "await"
  /\ queue' = <<>>
  /\ UNCHANGED <<shutdown, consumer, scheduler, tracked, feed, client>>

\* The consumer's task has ended: Redis and the engine are closed and the process
\* exits, at once when the task raised.  asyncio.run cancels what is left.
Exit ==
  /\ main = "await"
  /\ consumer.pc \in {"done", "failed"}
  /\ main' = "exited"
  /\ UNCHANGED <<shutdown, consumer, scheduler, tracked, queue, feed, client>>

Close == CloseScheduler \/ CloseClient \/ ForgetSession \/ Drain \/ Exit

-----------------------------------------------------------------------------
Calls(p) == TimeArrives(p) \/ PricesArrive(p) \/ CallFails(p) \/ RatesTick(p)

Next ==
  \/ Consume
  \/ SchedulerStarts
  \/ \E p \in Poll : Fire(p) \/ Calls(p)
  \/ FireRefresh \/ SymbolsTick \/ NextAttempt
  \/ Stop \/ Close

\* The loop runs every task that can run, calls end (ClientTimeout and bounded
\* attempts) and batches are saved or given up; no signal need ever arrive.
Fairness ==
  /\ WF_vars(Consume) /\ WF_vars(SchedulerStarts) /\ WF_vars(Close)
  /\ \A p \in Poll : WF_vars(Fire(p)) /\ WF_vars(Calls(p))

Spec == Init /\ [][Next]_vars /\ Fairness

-----------------------------------------------------------------------------
\* The variables have their types, and the queue is never longer than its limit
\* (asyncio.Queue(maxsize), filled by _offer_batch alone).
TypeOK ==
  /\ main \in {"running", "close_scheduler", "close_client", "forget_session", "drain",
               "await", "exited"}
  /\ shutdown \in BOOLEAN
  /\ consumer \in Consumer
  /\ scheduler \in {"new", "scheduled", "running", "stopped"}
  /\ tracked \in BOOLEAN
  /\ polls \in [Poll -> PollState]
  /\ refresh \in {"none", "pending"}
  /\ stamp \in Batch
  /\ queue \in Seq(Batch) /\ Len(queue) <= QueueSize
  /\ session \in {"none", "open", "closed"}
  /\ orphaned \in BOOLEAN

\* schedule() raises once the scheduler has started, and stream() once it has been
\* started: whenever start() may still call stream(), the scheduler is untouched,
\* so neither RuntimeError is reachable and no job is scheduled twice.
SchedulerStartedOnce ==
  consumer.pc \in {"start", "init", "backoff"} => scheduler = "new"

\* What close() has emptied stays empty, although polls may still run then: those of a
\* scheduler that stream() starts only after close() found nothing to shut down.
DrainedForGood == main \in {"await", "exited"} => queue = <<>>

\* How many more steps start() and the stream can take once they are to stop: an attempt
\* is a back-off and a request, the stream may hold a batch, which is looked at and dropped.
StepsLeft ==
  LET attempts == (Attempts - consumer.attempt) * Attempts + Attempts - consumer.init + 1
  IN CASE consumer.pc = "backoff" -> 2 * attempts + 3
       [] consumer.pc = "init" -> 2 * attempts + 2
       [] consumer.pc = "process" -> 3
       [] consumer.pc = "stream" -> 2
       [] consumer.pc \in {"start", "check"} -> 1
       [] OTHER -> 0

\* A stop is never put off for ever: whatever the polls, the retries and close() do
\* meanwhile, each step of start() and of the stream after the signal brings them nearer to
\* their end, and there are only finitely many.  With weak fairness StopTerminates rests
\* on this.
StopProgresses ==
  [][shutdown => consumer' = consumer \/ (StepsLeft' \in Nat /\ StepsLeft' < StepsLeft)]_vars

\* A batch that _offer_batch put in the queue is processed, unless the process is
\* told to stop: empty batches and polls that fail do not end the stream.
BatchesReachHandler ==
  \A b \in Poll : (\E i \in DOMAIN queue : queue[i] = b)
                     ~> (consumer.taken >= b \/ shutdown)

\* Once told to stop the process exits, whatever the stream, its retries, the
\* scheduler and the calls in flight were doing.
StopTerminates == shutdown ~> main = "exited"

\* What a restart policy relies on (docker-compose.yml): when QuoteConsumer.start
\* has given up, the process ends.
GivingUpEndsProcess == consumer.pc = "failed" ~> main = "exited"

\* RateSource.close: "Close the rate source and cleanup resources."  Once it has
\* returned no session of the client is open.
CloseReleases == main = "await" => session # "open" /\ ~orphaned

-----------------------------------------------------------------------------
\* The batches that are processed have strictly increasing timestamps, although
\* calls of an earlier poll go on after it failed: no batch overtakes another and
\* Redis is never given an older quote after a newer one.  None is processed once
\* the process is told to stop, although the queue and the stream's hands may be full.
Delivered == INSTANCE BatchFeed WITH taken <- consumer.taken, open <- ~shutdown

ImplementsFeed == Delivered!Spec
=============================================================================
