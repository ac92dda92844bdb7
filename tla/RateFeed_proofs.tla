--------------------------- MODULE RateFeed_proofs ---------------------------
(***************************************************************************)
(* Proofs about RateFeed for any number of polls, any queue and any number *)
(* of attempts: its types, that the scheduler is started only once, that   *)
(* it implements BatchFeed, that what a stop drained stays drained, and    *)
(* that start() and the stream take finitely many steps after it.          *)
(***************************************************************************)
EXTENDS RateFeed, FiniteSetTheorems, TLAPS

\* A run of the rates job that is over has the type of a run.
LEMMA EndedType == \A calls \in SUBSET {"time", "prices"} : Ended(calls) \in PollState
BY DEF Ended, PollState, Batch, Nothing

\* What _offer_batch leaves is a queue within its limit.
LEMMA OfferType ==
  ASSUME TypeOK, NEW b \in Batch, Offer(b)
  PROVE  queue' \in Seq(Batch) /\ Len(queue') <= QueueSize
<1>1. queue \in Seq(Batch) /\ Len(queue) \in Nat /\ QueueSize \in Nat
  BY FeedAssumption DEF TypeOK
<1>2. CASE ~shutdown /\ Len(queue) < QueueSize
  <2>1. queue' = Append(queue, b)
    BY <1>2 DEF Offer
  <2>2. Append(queue, b) \in Seq(Batch) /\ Len(Append(queue, b)) = Len(queue) + 1
    BY <1>1
  <2> QED
    BY <1>1, <1>2, <2>1, <2>2
<1>3. CASE ~(~shutdown /\ Len(queue) < QueueSize)
  BY <1>1, <1>3 DEF Offer, TypeOK
<1> QED
  BY <1>2, <1>3

-----------------------------------------------------------------------------
\* A process that has just been started has the types.
LEMMA InitTypeOK == Init => TypeOK
<1> SUFFICES ASSUME Init PROVE TypeOK
  OBVIOUS
<1>1. consumer \in Consumer
  BY FeedAssumption DEF Init, Consumer, Batch, Nothing
<1>2. polls \in [Poll -> PollState]
  BY DEF Init, PollState, Batch, Nothing
<1>3. queue \in Seq(Batch) /\ Len(queue) <= QueueSize
  BY FeedAssumption DEF Init
<1> QED
  BY <1>1, <1>2, <1>3 DEF Init, TypeOK, Batch

\* Every step of start() and of stream() keeps the types.
LEMMA ConsumeTypeOK == TypeOK /\ Consume => TypeOK'
<1> SUFFICES ASSUME TypeOK, Consume PROVE TypeOK'
  OBVIOUS
<1> USE DEF TypeOK, feed, client
<1>1. consumer \in Consumer
  OBVIOUS
<1>2. CASE Start
  BY <1>1, <1>2 DEF Start, EnsureSession, Consumer
<1>3. CASE Retry
  BY <1>1, <1>3 DEF Retry, EnsureSession, Consumer
<1>4. CASE InitSymbols
  BY <1>1, <1>4 DEF InitSymbols, Consumer
<1>5. CASE InitFails
  <2>1. /\ consumer.init \in 1..Attempts /\ consumer.attempt \in 1..Attempts
        /\ Attempts \in Nat /\ 1 \in 1..Attempts
    BY <1>1, FeedAssumption DEF Consumer
  <2>2. CASE consumer.init < Attempts
    <3>1. consumer.init + 1 \in 1..Attempts
      BY <2>1, <2>2
    <3> QED
      BY <1>1, <1>5, <2>2, <3>1 DEF InitFails, Consumer
  <2>3. CASE ~(consumer.init < Attempts) /\ consumer.attempt < Attempts
    <3>1. consumer.attempt + 1 \in 1..Attempts
      BY <2>1, <2>3
    <3> QED
      BY <1>1, <1>5, <2>1, <2>3, <3>1 DEF InitFails, Consumer
  <2>4. CASE ~(consumer.init < Attempts) /\ ~(consumer.attempt < Attempts)
    BY <1>1, <1>5, <2>4 DEF InitFails, Consumer
  <2> QED
    BY <2>2, <2>3, <2>4
<1>6. CASE Yield
  <2>1. queue \in Seq(Batch) /\ queue # <<>>
    BY <1>6 DEF Yield
  <2>2. Head(queue) \in Batch /\ Tail(queue) \in Seq(Batch) /\ Len(Tail(queue)) = Len(queue) - 1
    BY <2>1
  <2>3. consumer' \in Consumer
    BY <1>1, <1>6, <2>2 DEF Yield, Consumer
  <2>4. queue' \in Seq(Batch) /\ Len(queue') <= QueueSize
    BY <1>6, <2>1, <2>2, FeedAssumption DEF Yield
  <2> QED
    BY <1>6, <2>3, <2>4 DEF Yield
<1>7. CASE Check
  BY <1>1, <1>7 DEF Check, Consumer, Nothing, Batch
<1>8. CASE Process
  BY <1>1, <1>8 DEF Process, Consumer, Nothing, Batch
<1>9. CASE StreamEnds
  BY <1>1, <1>9 DEF StreamEnds, Consumer
<1> QED
  BY <1>2, <1>3, <1>4, <1>5, <1>6, <1>7, <1>8, <1>9 DEF Consume

\* Every step of the scheduler's jobs keeps the types.
LEMMA PollTypeOK ==
  ASSUME TypeOK, NEW p \in Poll, Fire(p) \/ Calls(p)
  PROVE  TypeOK'
<1> USE DEF TypeOK, feed, client
<1>1. polls[p] \in PollState /\ polls \in [Poll -> PollState]
  OBVIOUS
<1>2. CASE Fire(p)
  <2>1. polls' \in [Poll -> PollState]
    BY <1>1, <1>2, EndedType DEF Fire, PollState
  <2>2. queue' \in Seq(Batch) /\ Len(queue') <= QueueSize
    BY <1>2, OfferType DEF Fire, Batch, Nothing
  <2>3. session' \in {"none", "open", "closed"} /\ orphaned' \in BOOLEAN
    BY <1>2 DEF Fire, EnsureSession
  <2> QED
    BY <1>2, <2>1, <2>2, <2>3 DEF Fire
<1>3. CASE TimeArrives(p)
  <2>1. stamp' \in Batch
    BY <1>3 DEF TimeArrives, Batch
  <2> DEFINE new == [polls[p] EXCEPT
                       !.pending = polls[p].pending \ {"time"},
                       !.stamp = IF polls[p].job = "running" THEN stamp + 1 ELSE polls[p].stamp]
  <2>2. polls' = [polls EXCEPT ![p] = new]
    BY <1>1, <1>3 DEF TimeArrives, PollState
  <2>3. new \in PollState
    <3>1. (IF polls[p].job = "running" THEN stamp + 1 ELSE polls[p].stamp) \in Batch
      BY <1>1 DEF PollState, Batch
    <3> QED
      BY <1>1, <3>1 DEF PollState
  <2>4. polls' \in [Poll -> PollState]
    BY <1>1, <2>2, <2>3
  <2> QED
    BY <1>3, <2>1, <2>4 DEF TimeArrives
<1>4. CASE PricesArrive(p)
  <2>1. polls' \in [Poll -> PollState]
    BY <1>1, <1>4 DEF PricesArrive, PollState
  <2> QED
    BY <1>4, <2>1 DEF PricesArrive
<1>5. CASE CallFails(p)
  <2>1. PICK c \in polls[p].pending :
          polls' = [polls EXCEPT ![p] = Ended(polls[p].pending \ {c})]
    BY <1>1, <1>5 DEF CallFails
  <2>2. Ended(polls[p].pending \ {c}) \in PollState
    <3>1. polls[p].pending \ {c} \in SUBSET {"time", "prices"}
      BY <1>1 DEF PollState
    <3> QED
      BY <3>1, EndedType
  <2>3. polls' \in [Poll -> PollState]
    BY <1>1, <2>1, <2>2
  <2> QED
    BY <1>5, <2>3 DEF CallFails
<1>6. CASE RatesTick(p)
  <2>1. polls' \in [Poll -> PollState]
    BY <1>1, <1>6, EndedType DEF RatesTick
  <2>2. polls[p].stamp \in Batch
    BY <1>1 DEF PollState
  <2>3. queue' \in Seq(Batch) /\ Len(queue') <= QueueSize
    BY <1>6, <2>2, OfferType DEF RatesTick
  <2> QED
    BY <1>6, <2>1, <2>3 DEF RatesTick
<1> QED
  BY <1>2, <1>3, <1>4, <1>5, <1>6 DEF Calls

\* Every step keeps the types.
LEMMA StepTypeOK == TypeOK /\ [Next]_vars => TypeOK'
<1> SUFFICES ASSUME TypeOK, [Next]_vars PROVE TypeOK'
  OBVIOUS
<1> USE DEF TypeOK, feed, client
<1>1. CASE Consume
  BY <1>1, ConsumeTypeOK
<1>2. CASE SchedulerStarts
  BY <1>2 DEF SchedulerStarts
<1>3. CASE \E p \in Poll : Fire(p) \/ Calls(p)
  BY <1>3, PollTypeOK
<1>4. CASE FireRefresh
  BY <1>4 DEF FireRefresh, EnsureSession
<1>5. CASE SymbolsTick
  BY <1>5 DEF SymbolsTick
<1>6. CASE NextAttempt
  BY <1>6 DEF NextAttempt, EnsureSession
<1>7. CASE Stop
  BY <1>7 DEF Stop
<1>8. CASE CloseScheduler
  <2>1. polls' \in [Poll -> PollState]
    BY <1>8, EndedType DEF CloseScheduler
  <2> QED
    BY <1>8, <2>1 DEF CloseScheduler
<1>9. CASE CloseClient
  BY <1>9 DEF CloseClient
<1>10. CASE ForgetSession
  BY <1>10 DEF ForgetSession
<1>11. CASE Drain
  <2>1. queue' \in Seq(Batch) /\ Len(queue') <= QueueSize
    BY <1>11, FeedAssumption DEF Drain
  <2> QED
    BY <1>11, <2>1 DEF Drain
<1>12. CASE Exit
  BY <1>12 DEF Exit
<1>13. CASE UNCHANGED vars
  BY <1>13 DEF vars
<1> QED
  BY <1>1, <1>2, <1>3, <1>4, <1>5, <1>6, <1>7, <1>8, <1>9, <1>10, <1>11, <1>12, <1>13
  DEF Next, Close

\* The consumer process always has the types of its code, its queue is never
\* longer than its limit and start() makes no more than its attempts.
THEOREM TypeCorrect == Spec => []TypeOK
BY InitTypeOK, StepTypeOK, PTL DEF Spec

-----------------------------------------------------------------------------
\* SchedulerStartedOnce is inductive: only InitSymbols leaves "new", and start()
\* never comes back to stream() after it.
LEMMA StepStartedOnce ==
  TypeOK /\ SchedulerStartedOnce /\ [Next]_vars => SchedulerStartedOnce'
<1> SUFFICES ASSUME TypeOK, SchedulerStartedOnce, [Next]_vars PROVE SchedulerStartedOnce'
  OBVIOUS
<1> USE DEF SchedulerStartedOnce
<1>1. CASE Consume
  <2>1. consumer \in Consumer
    BY DEF TypeOK
  <2> QED
    BY <1>1, <2>1 DEF Consume, Start, Retry, InitSymbols, InitFails, Yield, Check, Process,
                      StreamEnds, Consumer
<1>2. CASE SchedulerStarts
  BY <1>2 DEF SchedulerStarts
<1>3. CASE \E p \in Poll : Fire(p) \/ Calls(p)
  BY <1>3 DEF Fire, Calls, TimeArrives, PricesArrive, CallFails, RatesTick
<1>4. CASE FireRefresh \/ SymbolsTick \/ NextAttempt \/ Stop
  BY <1>4 DEF FireRefresh, SymbolsTick, NextAttempt, Stop
<1>5. CASE Close
  BY <1>5 DEF Close, CloseScheduler, CloseClient, ForgetSession, Drain, Exit
<1>6. CASE UNCHANGED vars
  BY <1>6 DEF vars
<1> QED
  BY <1>1, <1>2, <1>3, <1>4, <1>5, <1>6 DEF Next

\* FixedRateScheduler.schedule never raises "Cannot schedule tasks after scheduler
\* has started", however often start() has to begin again.
THEOREM StartedOnce == Spec => []SchedulerStartedOnce
<1>1. Init => SchedulerStartedOnce
  BY DEF Init, SchedulerStartedOnce
<1> QED
  BY <1>1, StepStartedOnce, InitTypeOK, StepTypeOK, PTL DEF Spec

-----------------------------------------------------------------------------
(* The order of the batches.                                               *)

\* No two runs of the rates job overlap (max_instances).
NoOverlap ==
  \A p, q \in Poll : polls[p].job = "running" /\ polls[q].job = "running" => p = q

\* Only a run that goes on knows the time.
Fresh == \A p \in Poll : polls[p].job # "running" => polls[p].stamp = Nothing

\* The latest batch of quotes that has left the queue.
Latest == IF consumer.pc = "check" /\ consumer.batch # Nothing THEN consumer.batch
          ELSE consumer.taken

\* What has left the queue is in order, and its timestamps have been given out.
TakenInOrder ==
  /\ Latest <= stamp
  /\ consumer.taken <= stamp
  /\ consumer.pc = "check" /\ consumer.batch # Nothing => consumer.taken < consumer.batch

\* What is in the queue is in order and later than what has left it.
QueueInOrder ==
  \A i \in 1..Len(queue) : queue[i] # Nothing =>
    /\ Latest < queue[i] /\ queue[i] <= stamp
    /\ \A j \in 1..Len(queue) : i < j /\ queue[j] # Nothing => queue[i] < queue[j]

\* A poll that runs and knows its time is later than all of that.
PollIsLatest ==
  \A p \in Poll : polls[p].job = "running" /\ polls[p].stamp # Nothing =>
    /\ Latest < polls[p].stamp /\ polls[p].stamp <= stamp
    /\ \A i \in 1..Len(queue) : queue[i] < polls[p].stamp

Order == TakenInOrder /\ QueueInOrder /\ PollIsLatest

IInv == TypeOK /\ NoOverlap /\ Fresh /\ Order

\* A job fires only while none runs, and all other steps end runs.
LEMMA StepNoOverlap == TypeOK /\ NoOverlap /\ [Next]_vars => NoOverlap'
<1> SUFFICES ASSUME TypeOK, NoOverlap, [Next]_vars PROVE NoOverlap'
  OBVIOUS
<1>0. polls \in [Poll -> PollState]
  BY DEF TypeOK
<1>1. ASSUME NEW p \in Poll, Fire(p) PROVE NoOverlap'
  <2> DEFINE R == {o \in Poll : polls[o].job = "running"}
  <2>1. IsFiniteSet(Poll)
    BY FeedAssumption, FS_Interval DEF Poll
  <2>2. IsFiniteSet(R)
    BY <2>1, FS_Subset
  <2>3. Cardinality(R) = 0
    BY <1>1, <2>2, FS_CardinalityType DEF Fire, MaxInstances
  <2>4. R = {}
    BY <2>2, <2>3, FS_EmptySet
  <2>5. \A o \in Poll : o # p => polls'[o] = polls[o]
    BY <1>0, <1>1 DEF Fire
  <2> QED
    BY <2>4, <2>5 DEF NoOverlap
<1>2. ASSUME NEW p \in Poll, Calls(p) PROVE NoOverlap'
  <2>1. \A o \in Poll : polls'[o].job = "running" => polls[o].job = "running"
    BY <1>0, <1>2
    DEF Calls, TimeArrives, PricesArrive, CallFails, RatesTick, Ended, PollState
  <2> QED
    BY <2>1 DEF NoOverlap
<1>3. CASE CloseScheduler
  <2>1. \A o \in Poll : polls'[o].job = "running" => polls[o].job = "running"
    BY <1>0, <1>3 DEF CloseScheduler, Ended
  <2> QED
    BY <2>1 DEF NoOverlap
<1>4. ASSUME UNCHANGED polls PROVE NoOverlap'
  BY <1>4 DEF NoOverlap
<1> QED
  BY <1>1, <1>2, <1>3, <1>4
  DEF Next, Consume, Start, Retry, InitSymbols, InitFails, Yield, Check, Process, StreamEnds,
      SchedulerStarts, FireRefresh, SymbolsTick, NextAttempt, Stop, Close, CloseClient,
      ForgetSession, Drain, Exit, vars, feed

\* A batch at the end of the queue that is later than all before it, or one without
\* quotes, leaves the queue in order.
LEMMA OfferInOrder ==
  ASSUME TypeOK, QueueInOrder, NEW b \in Batch, Offer(b),
         UNCHANGED <<consumer, stamp>>,
         b # Nothing => /\ Latest < b /\ b <= stamp
                        /\ \A i \in 1..Len(queue) : queue[i] < b
  PROVE  QueueInOrder'
<1>1. queue \in Seq(Nat) /\ Latest' = Latest
  BY DEF TypeOK, Batch, Latest
<1>2. CASE queue' = queue
  BY <1>1, <1>2 DEF QueueInOrder
<1>3. CASE queue' = Append(queue, b)
  <2>1. /\ Len(queue') = Len(queue) + 1 /\ queue'[Len(queue) + 1] = b
        /\ \A i \in 1..Len(queue) : queue'[i] = queue[i]
    BY <1>1, <1>3 DEF Batch
  <2>2. \A i \in 1..Len(queue') : i \in 1..Len(queue) \/ i = Len(queue) + 1
    BY <1>1, <2>1
  <2>3. \A i \in 1..Len(queue) : i < Len(queue) + 1
    BY <1>1
  <2> SUFFICES ASSUME NEW i \in 1..Len(queue'), queue'[i] # Nothing
               PROVE  /\ Latest < queue'[i] /\ queue'[i] <= stamp
                      /\ \A j \in 1..Len(queue') :
                           i < j /\ queue'[j] # Nothing => queue'[i] < queue'[j]
    BY <1>1 DEF QueueInOrder
  <2>4. CASE i \in 1..Len(queue)
    <3>1. queue'[i] = queue[i] /\ Latest < queue[i] /\ queue[i] <= stamp
      BY <2>1, <2>4 DEF QueueInOrder
    <3>2. ASSUME NEW j \in 1..Len(queue'), i < j, queue'[j] # Nothing
          PROVE  queue'[i] < queue'[j]
      BY <2>1, <2>2, <2>4, <3>1, <3>2 DEF QueueInOrder
    <3> QED
      BY <3>1, <3>2
  <2>5. CASE i = Len(queue) + 1
    <3>1. \A j \in 1..Len(queue') : ~(i < j)
      BY <1>1, <2>1, <2>5
    <3> QED
      BY <2>1, <2>5, <3>1
  <2> QED
    BY <2>2, <2>4, <2>5
<1> QED
  BY <1>2, <1>3 DEF Offer

\* The consumer's steps keep the order: they only take the head of the queue.
LEMMA ConsumeOrder == TypeOK /\ Order /\ Consume => Order'
<1> SUFFICES ASSUME TypeOK, Order, Consume PROVE Order'
  OBVIOUS
<1> USE DEF Order
<1>1. consumer \in Consumer /\ queue \in Seq(Nat) /\ stamp \in Nat
  BY DEF TypeOK, Batch
<1>2. CASE Yield
  <2>1. queue # <<>> /\ Len(queue) \in Nat \ {0} /\ 1 \in 1..Len(queue)
    BY <1>1, <1>2 DEF Yield
  <2>2. /\ Len(queue') = Len(queue) - 1
        /\ \A i \in 1..Len(queue') : i + 1 \in 1..Len(queue) /\ queue'[i] = queue[i + 1]
    BY <1>1, <1>2, <2>1 DEF Yield
  <2>3. /\ consumer'.pc = "check" /\ consumer'.batch = queue[1]
        /\ consumer'.taken = consumer.taken
        /\ consumer.pc = "stream"
    BY <1>1, <1>2 DEF Yield, Consumer
  <2>4. UNCHANGED <<polls, stamp>>
    BY <1>2 DEF Yield, feed
  <2>5. Latest = consumer.taken
    BY <2>3 DEF Latest
  <2>6. Latest' = IF queue[1] = Nothing THEN Latest ELSE queue[1]
    BY <2>3, <2>5 DEF Latest
  <2>7. TakenInOrder'
    BY <2>1, <2>3, <2>4, <2>5, <2>6 DEF TakenInOrder, QueueInOrder
  <2>8. QueueInOrder'
    <3> SUFFICES ASSUME NEW i \in 1..Len(queue'), queue'[i] # Nothing
                 PROVE  /\ Latest' < queue'[i] /\ queue'[i] <= stamp
                        /\ \A j \in 1..Len(queue') :
                             i < j /\ queue'[j] # Nothing => queue'[i] < queue'[j]
      BY <2>4 DEF QueueInOrder
    <3>1. i + 1 \in 1..Len(queue) /\ queue'[i] = queue[i + 1] /\ 1 < i + 1
      BY <2>2
    <3>2. Latest' < queue'[i] /\ queue'[i] <= stamp
      BY <2>1, <2>6, <3>1 DEF QueueInOrder
    <3>3. ASSUME NEW j \in 1..Len(queue'), i < j, queue'[j] # Nothing
          PROVE  queue'[i] < queue'[j]
      <4>1. j + 1 \in 1..Len(queue) /\ queue'[j] = queue[j + 1] /\ i + 1 < j + 1
        BY <2>2, <3>3
      <4> QED
        BY <3>1, <3>3, <4>1 DEF QueueInOrder
    <3> QED
      BY <3>2, <3>3
  <2>9. PollIsLatest'
    BY <2>1, <2>2, <2>4, <2>6 DEF PollIsLatest
  <2> QED
    BY <2>7, <2>8, <2>9
<1>3. CASE Check
  <2>1. UNCHANGED <<queue, polls, stamp>>
    BY <1>3 DEF Check, feed
  <2>2. Latest' = Latest \/ (Latest' = consumer.taken /\ consumer.taken <= Latest)
    BY <1>1, <1>3 DEF Check, Latest, Consumer, TakenInOrder, Batch
  <2>3. consumer.taken \in Nat /\ Latest \in Nat
    BY <1>1 DEF Latest, Consumer, Batch
  <2>4. TakenInOrder'
    BY <1>1, <1>3, <2>1, <2>2, <2>3 DEF Check, TakenInOrder, Latest, Consumer, Batch
  <2>5. QueueInOrder'
    BY <1>1, <2>1, <2>2, <2>3 DEF QueueInOrder
  <2>6. PollIsLatest'
    <3>1. \A p \in Poll : polls[p].stamp \in Nat
      BY DEF TypeOK, PollState, Batch
    <3> QED
      BY <2>1, <2>2, <2>3, <3>1 DEF PollIsLatest
  <2> QED
    BY <2>4, <2>5, <2>6
<1>4. CASE Start \/ Retry \/ InitSymbols \/ InitFails \/ Process \/ StreamEnds
  <2>1. UNCHANGED <<queue, polls, stamp>>
    BY <1>4 DEF Start, Retry, InitSymbols, InitFails, Process, StreamEnds, feed
  <2>2. /\ consumer.pc # "check" /\ consumer'.pc # "check"
        /\ consumer'.taken = consumer.taken
    BY <1>1, <1>4 DEF Start, Retry, InitSymbols, InitFails, Process, StreamEnds, Consumer
  <2>3. Latest' = Latest
    BY <2>2 DEF Latest
  <2> QED
    BY <2>1, <2>2, <2>3 DEF TakenInOrder, QueueInOrder, PollIsLatest
<1> QED
  BY <1>2, <1>3, <1>4 DEF Consume

\* So do the jobs: a poll learns a time later than all given out before.
LEMMA PollOrder ==
  ASSUME TypeOK, NoOverlap, Fresh, Order, NEW p \in Poll, Fire(p) \/ Calls(p)
  PROVE  Order'
<1> USE DEF Order
<1>1. /\ polls \in [Poll -> PollState] /\ queue \in Seq(Nat) /\ stamp \in Nat
      /\ Latest \in Nat /\ Nothing \in Batch /\ polls[p].stamp \in Batch
  BY DEF TypeOK, Batch, Latest, Consumer, Nothing, PollState
<1>2. UNCHANGED consumer /\ Latest' = Latest
  BY DEF Fire, Calls, TimeArrives, PricesArrive, CallFails, RatesTick, Latest
<1>3. CASE TimeArrives(p)
  <2>1. stamp' = stamp + 1 /\ UNCHANGED queue
    BY <1>3 DEF TimeArrives
  <2>2. TakenInOrder' /\ QueueInOrder'
    BY <1>1, <1>2, <2>1 DEF TakenInOrder, QueueInOrder, TypeOK, Consumer, Batch
  <2>3. \A i \in 1..Len(queue) : queue[i] <= stamp
    BY <1>1 DEF QueueInOrder, Nothing
  <2>4. /\ polls[p].job = "running" => polls'[p].stamp = stamp + 1
        /\ polls'[p].job = polls[p].job
        /\ \A o \in Poll : o # p => polls'[o] = polls[o]
    BY <1>1, <1>3 DEF TimeArrives, PollState
  <2>5. \A o \in Poll : polls'[o].job = "running" /\ o # p => polls[p].job # "running"
    BY <2>4 DEF NoOverlap
  <2> SUFFICES ASSUME NEW o \in Poll, polls'[o].job = "running", polls'[o].stamp # Nothing
               PROVE  /\ Latest < polls'[o].stamp /\ polls'[o].stamp <= stamp'
                      /\ \A i \in 1..Len(queue) : queue[i] < polls'[o].stamp
    BY <1>2, <2>1, <2>2 DEF PollIsLatest
  <2>6. CASE o = p
    BY <1>1, <2>1, <2>3, <2>4, <2>6 DEF TakenInOrder
  <2>7. CASE o # p
    <3>1. polls'[o] = polls[o] /\ polls[o].stamp \in Nat
      BY <1>1, <2>4, <2>7 DEF PollState, Batch
    <3> QED
      BY <1>1, <2>1, <3>1 DEF PollIsLatest
  <2> QED
    BY <2>6, <2>7
<1>4. CASE Fire(p) \/ PricesArrive(p) \/ CallFails(p) \/ RatesTick(p)
  <2>1. UNCHANGED stamp
    BY <1>4 DEF Fire, PricesArrive, CallFails, RatesTick
  <2>2. TakenInOrder'
    BY <1>2, <2>1 DEF TakenInOrder
  <2>3. queue' = queue \/ Offer(Nothing) \/ (RatesTick(p) /\ Offer(polls[p].stamp))
    BY <1>4 DEF Fire, PricesArrive, CallFails, RatesTick
  <2>4. QueueInOrder'
    <3>1. CASE queue' = queue
      BY <1>2, <2>1, <3>1 DEF QueueInOrder
    <3>2. CASE Offer(Nothing)
      BY <1>1, <1>2, <2>1, <3>2, OfferInOrder
    <3>3. CASE RatesTick(p) /\ Offer(polls[p].stamp)
      <4>1. polls[p].job = "running"
        BY <3>3 DEF RatesTick
      <4> QED
        BY <1>1, <1>2, <2>1, <3>3, <4>1, OfferInOrder DEF PollIsLatest
    <3> QED
      BY <2>3, <3>1, <3>2, <3>3
  <2>5. ASSUME NEW o \in Poll, polls'[o].job = "running", polls'[o].stamp # Nothing
        PROVE  polls[o].job = "running" /\ polls'[o].stamp = polls[o].stamp /\ ~RatesTick(o)
    <3>1. CASE o # p
      BY <1>1, <1>4, <2>5, <3>1 DEF Fire, PricesArrive, CallFails, RatesTick, Ended, PollState
    <3>2. CASE o = p /\ Fire(p)
      BY <1>1, <2>5, <3>2 DEF Fire, Ended, Fresh, PollState
    <3>3. CASE o = p /\ PricesArrive(p)
      BY <1>1, <2>5, <3>3 DEF PricesArrive, RatesTick, PollState
    <3>4. CASE o = p /\ (CallFails(p) \/ RatesTick(p))
      BY <1>1, <2>5, <3>4 DEF CallFails, RatesTick, Ended
    <3> QED
      BY <1>4, <3>1, <3>2, <3>3, <3>4
  <2>6. PollIsLatest'
    <3> SUFFICES ASSUME NEW o \in Poll, polls'[o].job = "running", polls'[o].stamp # Nothing
                 PROVE  /\ Latest < polls'[o].stamp /\ polls'[o].stamp <= stamp
                        /\ \A i \in 1..Len(queue') : queue'[i] < polls'[o].stamp
      BY <1>2, <2>1 DEF PollIsLatest
    <3>1. /\ polls[o].job = "running" /\ polls'[o].stamp = polls[o].stamp
          /\ ~RatesTick(o) /\ polls[o].stamp # Nothing /\ polls[o].stamp \in Nat
      BY <1>1, <2>5 DEF PollState, Batch
    <3>2. /\ Latest < polls[o].stamp /\ polls[o].stamp <= stamp
          /\ \A i \in 1..Len(queue) : queue[i] < polls[o].stamp
      BY <3>1 DEF PollIsLatest
    <3>3. CASE queue' = queue
      BY <3>1, <3>2, <3>3
    <3>4. CASE Offer(Nothing)
      <4>1. CASE queue' = Append(queue, Nothing)
        <5>1. \A i \in 1..Len(queue') : queue'[i] = Nothing \/ (i \in 1..Len(queue) /\ queue'[i] = queue[i])
          BY <1>1, <4>1 DEF Batch
        <5> QED
          BY <3>1, <3>2, <5>1 DEF Nothing
      <4> QED
        BY <3>3, <3>4, <4>1 DEF Offer
    <3>5. ~(RatesTick(p) /\ Offer(polls[p].stamp))
      <4>1. RatesTick(p) => polls[p].job = "running"
        BY DEF RatesTick
      <4> QED
        BY <3>1, <4>1 DEF NoOverlap
    <3> QED
      BY <2>3, <3>3, <3>4, <3>5
  <2> QED
    BY <2>2, <2>4, <2>6
<1> QED
  BY <1>3, <1>4 DEF Calls

\* A run that ends forgets the time it was told, and one that fires has none.
LEMMA StepFresh == TypeOK /\ Fresh /\ [Next]_vars => Fresh'
<1> SUFFICES ASSUME TypeOK, Fresh, [Next]_vars PROVE Fresh'
  OBVIOUS
<1>0. polls \in [Poll -> PollState]
  BY DEF TypeOK
<1>1. ASSUME NEW p \in Poll, Fire(p) \/ Calls(p) PROVE Fresh'
  <2> SUFFICES ASSUME NEW o \in Poll, polls'[o].job # "running" PROVE polls'[o].stamp = Nothing
    BY DEF Fresh
  <2>1. CASE o # p
    BY <1>0, <1>1, <2>1
    DEF Fresh, Fire, Calls, TimeArrives, PricesArrive, CallFails, RatesTick
  <2>2. CASE o = p
    BY <1>0, <1>1, <2>2
    DEF Fresh, Fire, Calls, TimeArrives, PricesArrive, CallFails, RatesTick, Ended, PollState
  <2> QED
    BY <2>1, <2>2
<1>2. CASE CloseScheduler
  BY <1>0, <1>2 DEF CloseScheduler, Fresh, Ended
<1>3. ASSUME UNCHANGED polls PROVE Fresh'
  BY <1>3 DEF Fresh
<1> QED
  BY <1>1, <1>2, <1>3
  DEF Next, Consume, Start, Retry, InitSymbols, InitFails, Yield, Check, Process, StreamEnds,
      SchedulerStarts, FireRefresh, SymbolsTick, NextAttempt, Stop, Close, CloseClient,
      ForgetSession, Drain, Exit, vars, feed

\* The order is kept by every step: those of neither the consumer nor the jobs give
\* out no time, and leave the queue alone or empty it.
LEMMA StepOrder == TypeOK /\ NoOverlap /\ Fresh /\ Order /\ [Next]_vars => Order'
<1> SUFFICES ASSUME TypeOK, NoOverlap, Fresh, Order, [Next]_vars PROVE Order'
  OBVIOUS
<1> USE DEF Order
<1>1. CASE Consume
  BY <1>1, ConsumeOrder
<1>2. CASE \E p \in Poll : Fire(p) \/ Calls(p)
  BY <1>2, PollOrder
<1>3. CASE CloseScheduler
  <2>1. UNCHANGED <<consumer, stamp, queue>> /\ Latest' = Latest
    BY <1>3 DEF CloseScheduler, Latest
  <2>2. \A p \in Poll : polls'[p].job = "running" => polls'[p] = polls[p]
    BY <1>3 DEF CloseScheduler, Ended
  <2> QED
    BY <2>1, <2>2 DEF TakenInOrder, QueueInOrder, PollIsLatest
<1>4. CASE Drain
  <2>1. UNCHANGED <<consumer, stamp, polls>> /\ Latest' = Latest
    BY <1>4 DEF Drain, feed, Latest
  <2>2. 1..Len(queue') = {}
    BY <1>4 DEF Drain
  <2> QED
    BY <2>1, <2>2 DEF TakenInOrder, QueueInOrder, PollIsLatest
<1>5. CASE UNCHANGED <<consumer, stamp, queue, polls>>
  <2>1. Latest' = Latest
    BY <1>5 DEF Latest
  <2> QED
    BY <1>5, <2>1 DEF TakenInOrder, QueueInOrder, PollIsLatest
<1> QED
  BY <1>1, <1>2, <1>3, <1>4, <1>5
  DEF Next, SchedulerStarts, FireRefresh, SymbolsTick, NextAttempt, Stop, Close, CloseClient,
      ForgetSession, Exit, vars, feed

\* A process that has just been started has given out no time and has no batch.
LEMMA InitIInv == Init => IInv
<1> SUFFICES ASSUME Init PROVE IInv
  OBVIOUS
<1>1. Latest = 0 /\ stamp = 0 /\ consumer.taken = 0 /\ consumer.pc = "start"
  BY DEF Init, Latest, Nothing
<1>2. Len(queue) = 0 /\ \A p \in Poll : polls[p].job = "waiting" /\ polls[p].stamp = Nothing
  BY DEF Init
<1>3. Order
  BY <1>1, <1>2 DEF Order, TakenInOrder, QueueInOrder, PollIsLatest
<1> QED
  BY <1>2, <1>3, InitTypeOK DEF IInv, NoOverlap, Fresh

\* IInv is inductive.
LEMMA StepIInv == IInv /\ [Next]_vars => IInv'
BY StepTypeOK, StepNoOverlap, StepFresh, StepOrder DEF IInv

\* A batch is handed over by Check alone, in the order of the timestamps and before
\* the stop; all other steps stutter or close the feed.
LEMMA StepFeed == IInv /\ [Next]_vars => [Delivered!Next]_(Delivered!vars)
<1> SUFFICES ASSUME IInv, [Next]_vars PROVE Delivered!Next \/ UNCHANGED Delivered!vars
  OBVIOUS
<1> USE DEF Delivered!Next, Delivered!vars
<1>1. consumer \in Consumer /\ TakenInOrder
  BY DEF IInv, TypeOK, Order
<1>2. CASE Check
  <2>1. UNCHANGED shutdown /\ consumer.pc = "check"
    BY <1>2 DEF Check
  <2>2. CASE ~shutdown /\ consumer.batch # Nothing
    <3>1. consumer'.taken = consumer.batch
      BY <1>1, <1>2, <2>2 DEF Check, Consumer
    <3>2. consumer'.taken \in Nat /\ consumer'.taken > consumer.taken
      BY <1>1, <2>1, <2>2, <3>1 DEF TakenInOrder, Consumer, Batch
    <3> QED
      BY <2>1, <2>2, <3>2 DEF Delivered!Deliver
  <2>3. CASE shutdown \/ consumer.batch = Nothing
    BY <1>1, <1>2, <2>1, <2>3 DEF Check, Consumer
  <2> QED
    BY <2>2, <2>3
<1>3. CASE Stop
  BY <1>3 DEF Stop, Delivered!Close
<1>4. CASE Consume /\ ~Check
  <2>1. consumer'.taken = consumer.taken
    BY <1>1, <1>4 DEF Consume, Start, Retry, InitSymbols, InitFails, Yield, Process, StreamEnds,
                      Consumer
  <2>2. UNCHANGED shutdown
    BY <1>4 DEF Consume, Start, Retry, InitSymbols, InitFails, Yield, Process, StreamEnds
  <2> QED
    BY <2>1, <2>2
<1>5. CASE \E p \in Poll : Fire(p) \/ Calls(p)
  <2>1. UNCHANGED <<consumer, shutdown>>
    BY <1>5 DEF Fire, Calls, TimeArrives, PricesArrive, CallFails, RatesTick
  <2> QED
    BY <2>1
<1>6. CASE \/ SchedulerStarts \/ FireRefresh \/ SymbolsTick \/ NextAttempt \/ Close
           \/ UNCHANGED vars
  <2>1. UNCHANGED <<consumer, shutdown>>
    BY <1>6 DEF SchedulerStarts, FireRefresh, SymbolsTick, NextAttempt, Close, CloseScheduler,
                CloseClient, ForgetSession, Drain, Exit, vars
  <2> QED
    BY <2>1
<1> QED
  BY <1>2, <1>3, <1>4, <1>5, <1>6 DEF Next

\* For any number of polls, any queue and whatever failed calls leave behind, the
\* consumer process implements the feed on which QuoteStore relies.
THEOREM FeedImplemented == Spec => ImplementsFeed
<1>1. Init => Delivered!Init
  BY DEF Init, Delivered!Init, Nothing
<1> QED
  BY <1>1, StepFeed, InitIInv, StepIInv, PTL DEF Spec, ImplementsFeed, Delivered!Spec

-----------------------------------------------------------------------------
(* The stop.                                                               *)

\* The source's event is set before anything of close() is done.
Told == main # "running" => shutdown

DInv == TypeOK /\ Told /\ DrainedForGood

\* A drained queue stays empty: all that could fill it looks at the event first.
LEMMA StepDrained == DInv /\ [Next]_vars => (Told /\ DrainedForGood)'
<1> SUFFICES ASSUME DInv, [Next]_vars PROVE (Told /\ DrainedForGood)'
  OBVIOUS
<1> USE DEF DInv, Told, DrainedForGood
<1>1. CASE Consume
  BY <1>1 DEF Consume, Start, Retry, InitSymbols, InitFails, Yield, Check, Process, StreamEnds
<1>2. ASSUME NEW p \in Poll, Fire(p) \/ Calls(p)
      PROVE  (Told /\ DrainedForGood)'
  BY <1>2 DEF Fire, Calls, TimeArrives, PricesArrive, CallFails, RatesTick, Offer
<1>3. CASE \/ SchedulerStarts \/ FireRefresh \/ SymbolsTick \/ NextAttempt \/ Stop
           \/ UNCHANGED vars
  BY <1>3 DEF SchedulerStarts, FireRefresh, SymbolsTick, NextAttempt, Stop, vars
<1>4. CASE Close
  BY <1>4 DEF Close, CloseScheduler, CloseClient, ForgetSession, Drain, Exit
<1> QED
  BY <1>1, <1>2, <1>3, <1>4 DEF Next

\* Nothing is put in the queue once close() has emptied it, whatever still runs.
THEOREM Drained == Spec => []DrainedForGood
<1>1. Init => Told /\ DrainedForGood
  BY DEF Init, Told, DrainedForGood
<1> QED
  BY <1>1, StepDrained, InitTypeOK, StepTypeOK, PTL DEF Spec, DInv

\* The attempts that are left to start(), the one it is in included.
LEMMA AttemptsLeft ==
  ASSUME NEW a \in 1..Attempts, NEW i \in 1..Attempts
  PROVE  /\ (Attempts - a) * Attempts \in Nat
         /\ a < Attempts =>
              (Attempts - (a + 1)) * Attempts = (Attempts - a) * Attempts - Attempts
<1>1. Attempts \in Nat /\ Attempts - a \in Nat
  BY FeedAssumption
<1>2. (Attempts - (a + 1)) * Attempts = (Attempts - a) * Attempts - Attempts
  BY <1>1
<1> QED
  BY <1>1, <1>2

\* After a stop a step of start() or of the stream leaves it fewer steps than before.
LEMMA StepProgresses ==
  TypeOK /\ [Next]_vars =>
    [shutdown => consumer' = consumer \/ (StepsLeft' \in Nat /\ StepsLeft' < StepsLeft)]_vars
<1> SUFFICES ASSUME TypeOK, [Next]_vars, shutdown
             PROVE  consumer' = consumer \/ (StepsLeft' \in Nat /\ StepsLeft' < StepsLeft)
  OBVIOUS
<1> DEFINE rest == (Attempts - consumer.attempt) * Attempts
<1>1. /\ consumer \in Consumer
      /\ consumer.attempt \in 1..Attempts /\ consumer.init \in 1..Attempts
      /\ Attempts \in Nat \ {0}
  BY FeedAssumption DEF TypeOK, Consumer
<1>2. rest \in Nat
  BY <1>1, AttemptsLeft
<1>3. CASE Start
  BY <1>1, <1>3 DEF Start, Consumer, StepsLeft
<1>4. CASE Retry
  <2>1. consumer.pc = "backoff" /\ consumer' = [consumer EXCEPT !.pc = "init"]
    BY <1>4 DEF Retry
  <2>2. /\ consumer'.pc = "init" /\ consumer'.attempt = consumer.attempt
        /\ consumer'.init = consumer.init
    BY <1>1, <2>1 DEF Consumer
  <2>3. /\ StepsLeft = 2 * (rest + Attempts - consumer.init + 1) + 3
        /\ StepsLeft' = 2 * (rest + Attempts - consumer.init + 1) + 2
    BY <2>1, <2>2 DEF StepsLeft
  <2> HIDE DEF rest
  <2> QED
    BY <1>1, <1>2, <2>3
<1>5. CASE InitSymbols
  <2>1. consumer.pc = "init" /\ consumer'.pc = "stream"
    BY <1>1, <1>5 DEF InitSymbols, Consumer
  <2>2. /\ StepsLeft = 2 * (rest + Attempts - consumer.init + 1) + 2
        /\ StepsLeft' = 2
    BY <2>1 DEF StepsLeft
  <2> HIDE DEF rest
  <2> QED
    BY <1>1, <1>2, <2>2
<1>6. CASE InitFails
  <2>1. consumer.pc = "init" /\ StepsLeft = 2 * (rest + Attempts - consumer.init + 1) + 2
    BY <1>6 DEF InitFails, StepsLeft
  <2>2. CASE consumer.init < Attempts
    <3>1. /\ consumer'.pc = "backoff" /\ consumer'.attempt = consumer.attempt
          /\ consumer'.init = consumer.init + 1
      BY <1>1, <1>6, <2>2 DEF InitFails, Consumer
    <3>2. StepsLeft' = 2 * (rest + Attempts - (consumer.init + 1) + 1) + 3
      BY <3>1 DEF StepsLeft
    <3> HIDE DEF rest
    <3> QED
      BY <1>1, <1>2, <2>1, <2>2, <3>2
  <2>3. CASE ~(consumer.init < Attempts) /\ consumer.attempt < Attempts
    <3>1. /\ consumer'.pc = "backoff" /\ consumer'.attempt = consumer.attempt + 1
          /\ consumer'.init = 1
      BY <1>1, <1>6, <2>3 DEF InitFails, Consumer
    <3>2. StepsLeft' = 2 * ((Attempts - (consumer.attempt + 1)) * Attempts + Attempts - 1 + 1) + 3
      BY <3>1 DEF StepsLeft
    <3>3. (Attempts - (consumer.attempt + 1)) * Attempts = rest - Attempts
      BY <1>1, <2>3, AttemptsLeft
    <3>4. rest - Attempts \in Nat
      <4>1. consumer.attempt + 1 \in 1..Attempts
        BY <1>1, <2>3
      <4> QED
        BY <1>1, <3>3, <4>1, AttemptsLeft
    <3> HIDE DEF rest
    <3> QED
      BY <1>1, <1>2, <2>1, <2>3, <3>2, <3>3, <3>4
  <2>4. CASE ~(consumer.init < Attempts) /\ ~(consumer.attempt < Attempts)
    <3>1. consumer'.pc = "failed"
      BY <1>1, <1>6, <2>4 DEF InitFails, Consumer
    <3>2. StepsLeft' = 0
      BY <3>1 DEF StepsLeft
    <3> HIDE DEF rest
    <3> QED
      BY <1>1, <1>2, <2>1, <3>2
  <2> QED
    BY <2>2, <2>3, <2>4
<1>7. CASE Yield \/ Check \/ Process \/ StreamEnds
  <2>1. \/ consumer.pc = "stream" /\ consumer'.pc = "check"
        \/ consumer.pc = "check" /\ consumer'.pc = "done"
        \/ consumer.pc = "process" /\ consumer'.pc = "stream"
        \/ consumer.pc = "stream" /\ consumer'.pc = "done"
    BY <1>1, <1>7 DEF Yield, Check, Process, StreamEnds, Consumer
  <2> QED
    BY <2>1 DEF StepsLeft
<1>8. CASE \E p \in Poll : Fire(p) \/ Calls(p)
  BY <1>8 DEF Fire, Calls, TimeArrives, PricesArrive, CallFails, RatesTick
<1>9. CASE \/ SchedulerStarts \/ FireRefresh \/ SymbolsTick \/ NextAttempt \/ Stop \/ Close
           \/ UNCHANGED vars
  BY <1>9 DEF SchedulerStarts, FireRefresh, SymbolsTick, NextAttempt, Stop, Close,
              CloseScheduler, CloseClient, ForgetSession, Drain, Exit, vars
<1> QED
  BY <1>3, <1>4, <1>5, <1>6, <1>7, <1>8, <1>9 DEF Next, Consume

\* For any number of attempts, start() and the stream take only finitely many more steps
\* once the process is told to stop: their number falls with each.
THEOREM StopBounded == Spec => StopProgresses
BY StepProgresses, InitTypeOK, StepTypeOK, PTL DEF Spec, StopProgresses
=============================================================================
