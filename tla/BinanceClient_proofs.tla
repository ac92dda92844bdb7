------------------------- MODULE BinanceClient_proofs -------------------------
(***************************************************************************)
(* Proofs about BinanceClient, for any number of calls in flight and every *)
(* threshold, timeout and number of attempts.  The count alone decides     *)
(* whether the breaker is closed; with the types that is inductive.  What  *)
(* a breaker that stays open may do needs the types alone.                 *)
(***************************************************************************)
EXTENDS BinanceClient, TLAPS

IInv == TypeOK /\ CountMatchesState

\* A call that has ended is a call, however it ended.
LEMMA EndedType == \A outcome \in Outcome : Ended(outcome) \in Call
BY BoundsAssumption DEF Ended, Call, BreakerState

\* A new CircuitBreaker is closed and has counted no failure.
LEMMA InitIInv == Init => IInv
<1> SUFFICES ASSUME Init
             PROVE  IInv
  OBVIOUS
<1>1. Ended("none") \in Call
  BY EndedType DEF Outcome
<1>2. TypeOK
  BY <1>1, BoundsAssumption DEF Init, TypeOK, BreakerState
<1>3. CountMatchesState
  BY ThresholdAssumption DEF Init, CountMatchesState
<1> QED
  BY <1>2, <1>3 DEF IInv

\* No step of a call disturbs another call, so its type is all there is to show.
LEMMA CallType ==
  ASSUME TypeOK, NEW c \in Caller, NEW new \in Call, call' = [call EXCEPT ![c] = new]
  PROVE  call' \in [Caller -> Call]
BY DEF TypeOK

\* Every section of CircuitBreaker.call and every end of a call keeps the invariant.
LEMMA StepIInv == IInv /\ [Next]_vars => IInv'
<1> SUFFICES ASSUME IInv, [Next]_vars
             PROVE  IInv'
  OBVIOUS
<1> USE DEF IInv
<1>1. CASE Tick
  BY <1>1, BoundsAssumption DEF Tick, TypeOK, CountMatchesState
<1>2. ASSUME NEW c \in Caller, Enter(c)
      PROVE  IInv'
  <2> DEFINE now_state == IF state = "open" THEN "half_open" ELSE state
             new == [pc |-> "calling", current_state |-> now_state, attempt |-> 1,
                     outcome |-> "none"]
  <2>1. state' = now_state /\ call' = [call EXCEPT ![c] = new]
    BY <1>2 DEF Enter
  <2>2. new \in Call
    BY BoundsAssumption DEF TypeOK, Call, BreakerState, Outcome
  <2>3. call' \in [Caller -> Call]
    BY <2>1, <2>2, CallType
  <2> HIDE DEF new
  <2>4. TypeOK'
    BY <1>2, <2>1, <2>3 DEF Enter, TypeOK, BreakerState
  <2>5. CountMatchesState'
    BY <1>2, <2>1 DEF Enter, CountMatchesState
  <2> QED
    BY <2>4, <2>5
<1>3. ASSUME NEW c \in Caller, Reject(c) \/ Garble(c) \/ Cancel(c)
      PROVE  IInv'
  <2>1. PICK outcome \in Outcome : call' = [call EXCEPT ![c] = Ended(outcome)]
    BY <1>3 DEF Reject, Garble, Cancel, Outcome
  <2>2. call' \in [Caller -> Call]
    BY <2>1, EndedType, CallType
  <2> QED
    BY <1>3, <2>2 DEF Reject, Garble, Cancel, TypeOK, CountMatchesState
<1>4. ASSUME NEW c \in Caller, Succeed(c)
      PROVE  IInv'
  <2>1. Ended("data") \in Call
    BY EndedType DEF Outcome
  <2>2. call' \in [Caller -> Call]
    BY <1>4, <2>1, CallType DEF Succeed
  <2>3. \/ UNCHANGED <<state, failure_count>>
        \/ failure_count' = 0 /\ state' = "closed"
    BY <1>4 DEF Succeed
  <2>4. TypeOK'
    BY <1>4, <2>2, <2>3, BoundsAssumption DEF Succeed, TypeOK, BreakerState
  <2>5. CountMatchesState'
    BY <2>3, ThresholdAssumption DEF CountMatchesState
  <2> QED
    BY <2>4, <2>5
<1>5. ASSUME NEW c \in Caller, Fail(c)
      PROVE  IInv'
  <2>1. Ended("unavailable") \in Call
    BY EndedType DEF Outcome
  <2>2. call' \in [Caller -> Call]
    BY <1>5, <2>1, CallType DEF Fail
  <2>3. failure_count' \in 0..MaxCount /\ failure_count' >= failure_count
        /\ (failure_count' >= Threshold <=> failure_count + 1 >= Threshold)
    BY <1>5, BoundsAssumption, ThresholdAssumption DEF Fail, TypeOK
  <2>4. TypeOK'
    BY <1>5, <2>2, <2>3, BoundsAssumption DEF Fail, TypeOK, BreakerState
  <2>5. CountMatchesState'
    BY <1>5, <2>3, ThresholdAssumption, BoundsAssumption
    DEF Fail, TypeOK, CountMatchesState, BreakerState
  <2> QED
    BY <2>4, <2>5
<1>6. ASSUME NEW c \in Caller, LoseConnection(c)
      PROVE  IInv'
  <2>1. call[c] \in Call
    BY DEF TypeOK
  <2>2. PICK new \in Call : call' = [call EXCEPT ![c] = new]
    <3>1. CASE call[c].attempt < Attempts
      <4>1. call[c].attempt + 1 \in 0..Attempts
        BY <2>1, <3>1, BoundsAssumption DEF Call
      <4>2. [call[c] EXCEPT !.attempt = @ + 1] \in Call
        BY <2>1, <4>1 DEF Call
      <4>3. call' = [call EXCEPT ![c] = [call[c] EXCEPT !.attempt = @ + 1]]
        BY <1>6, <2>1, <3>1 DEF LoseConnection, Call
      <4> QED
        BY <4>2, <4>3
    <3>2. CASE ~(call[c].attempt < Attempts)
      <4>1. Ended("client_error") \in Call
        BY EndedType DEF Outcome
      <4> QED
        BY <1>6, <3>2, <4>1 DEF LoseConnection
    <3> QED
      BY <3>1, <3>2
  <2>3. call' \in [Caller -> Call]
    BY <2>2, CallType
  <2> QED
    BY <1>6, <2>3 DEF LoseConnection, TypeOK, CountMatchesState
<1>7. CASE UNCHANGED vars
  BY <1>7 DEF vars, TypeOK, CountMatchesState
<1> QED
  BY <1>1, <1>2, <1>3, <1>4, <1>5, <1>6, <1>7 DEF Next, Finish

\* The invariant holds in every reachable state.
LEMMA InvariantHolds == Spec => []IInv
BY InitIInv, StepIInv, PTL DEF Spec

\* The breaker's state, its count and the calls always have the types the code
\* gives them.
THEOREM TypeCorrect == Spec => []TypeOK
BY InvariantHolds, PTL DEF IInv

\* However many calls succeed, fail, time out or are cancelled in whatever
\* order, the breaker is closed exactly when it has counted too few failures.
THEOREM CountDecidesState == Spec => []CountMatchesState
BY InvariantHolds, PTL DEF IInv

\* An open breaker leaves that state only after the recovery timeout or through
\* a probe: no success from before it opened closes it.
THEOREM OpenLeftByProbe == Spec => OpenUntilProbed
<1>1. [Next]_vars =>
        [state = "open" /\ state' # "open" =>
           \/ state' = "half_open" /\ elapsed >= Recovery
           \/ \E c \in Caller : call[c].pc = "calling"
                                /\ call[c].current_state = "half_open"]_vars
  <2> SUFFICES ASSUME [Next]_vars, state = "open", state' # "open"
               PROVE  \/ state' = "half_open" /\ elapsed >= Recovery
                      \/ \E c \in Caller : call[c].pc = "calling"
                                           /\ call[c].current_state = "half_open"
    OBVIOUS
  <2>1. ASSUME NEW c \in Caller, Enter(c)
        PROVE  state' = "half_open" /\ elapsed >= Recovery
    BY <2>1 DEF Enter, ShouldAttemptReset
  <2>2. ASSUME NEW c \in Caller, Finish(c)
        PROVE  call[c].pc = "calling" /\ call[c].current_state = "half_open"
    BY <2>2 DEF Finish, Succeed, Fail, LoseConnection, Garble, Cancel
  <2> QED
    BY <2>1, <2>2 DEF Next, Tick, Reject, vars
<1> QED
  BY <1>1, PTL DEF Spec, OpenUntilProbed

\* A call that ends, or that tries again, leaves the others in flight as they are.
LEMMA EndsOrStays ==
  ASSUME TypeOK, NEW c \in Caller, Finish(c)
  PROVE  InFlight' = InFlight \/ (c \in InFlight /\ InFlight' = InFlight \ {c})
<1>1. call \in [Caller -> Call] /\ c \in InFlight
  BY DEF TypeOK, Finish, Succeed, Fail, LoseConnection, Garble, Cancel, InFlight
<1>2. \A outcome : Ended(outcome).pc = "idle"
  BY DEF Ended
<1>3. ASSUME NEW outcome, call' = [call EXCEPT ![c] = Ended(outcome)]
      PROVE  InFlight' = InFlight \ {c}
  <2>1. call'[c].pc = "idle" /\ \A d \in Caller \ {c} : call'[d] = call[d]
    BY <1>1, <1>2, <1>3
  <2> QED
    BY <1>1, <2>1 DEF InFlight
<1>4. ASSUME call' = [call EXCEPT ![c].attempt = @ + 1]
      PROVE  InFlight' = InFlight
  <2>1. \A d \in Caller : call'[d].pc = call[d].pc
    BY <1>1, <1>4 DEF Call
  <2> QED
    BY <2>1 DEF InFlight
<1> QED
  BY <1>1, <1>3, <1>4 DEF Finish, Succeed, Fail, LoseConnection, Garble, Cancel

\* A breaker that stays open lets no call through, and its timeout restarts only
\* with the end of a call.
LEMMA StepAdmitsNone ==
  TypeOK /\ [Next]_vars =>
    [state = "open" /\ state' = "open" =>
       \/ InFlight' = InFlight /\ elapsed' >= elapsed
       \/ \E c \in InFlight : InFlight' = InFlight \ {c}]_vars
<1> SUFFICES ASSUME TypeOK, [Next]_vars, state = "open", state' = "open"
             PROVE  \/ InFlight' = InFlight /\ elapsed' >= elapsed
                    \/ \E c \in InFlight : InFlight' = InFlight \ {c}
  OBVIOUS
<1>1. call \in [Caller -> Call] /\ elapsed \in Nat
  BY BoundsAssumption DEF TypeOK
<1>2. CASE Tick
  BY <1>1, <1>2 DEF Tick, InFlight
<1>3. ASSUME NEW c \in Caller, Enter(c)
      PROVE  FALSE
  BY <1>3 DEF Enter
<1>4. ASSUME NEW c \in Caller, Reject(c)
      PROVE  InFlight' = InFlight /\ elapsed' >= elapsed
  <2>1. Ended("unavailable").pc = call[c].pc
    BY <1>4 DEF Reject, Ended
  <2>2. \A d \in Caller : call'[d].pc = call[d].pc
    BY <1>1, <1>4, <2>1 DEF Reject
  <2> QED
    BY <1>1, <1>4, <2>2 DEF Reject, InFlight
<1>5. ASSUME NEW c \in Caller, Finish(c), elapsed' = elapsed
      PROVE  \/ InFlight' = InFlight /\ elapsed' >= elapsed
             \/ \E d \in InFlight : InFlight' = InFlight \ {d}
  BY <1>1, <1>5, EndsOrStays
<1>6. ASSUME NEW c \in Caller, Fail(c)
      PROVE  c \in InFlight /\ InFlight' = InFlight \ {c}
  <2>1. Ended("unavailable").pc = "idle"
    BY DEF Ended
  <2> QED
    BY <1>1, <1>6, <2>1 DEF Fail, InFlight
<1>7. ASSUME NEW c \in Caller, Finish(c)
      PROVE  Fail(c) \/ elapsed' = elapsed
  BY <1>7 DEF Finish, Succeed, LoseConnection, Garble, Cancel
<1>8. CASE UNCHANGED vars
  BY <1>1, <1>8 DEF vars, InFlight
<1> QED
  BY <1>2, <1>3, <1>4, <1>5, <1>6, <1>7, <1>8 DEF Next

\* However many calls were in flight when it opened, an open breaker's timeout restarts
\* at most once for each, because none joins them.
THEOREM OpenRunsOut == Spec => OpenAdmitsNone
<1>1. IInv /\ [Next]_vars =>
        [state = "open" /\ state' = "open" =>
           \/ InFlight' = InFlight /\ elapsed' >= elapsed
           \/ \E c \in InFlight : InFlight' = InFlight \ {c}]_vars
  BY StepAdmitsNone DEF IInv
<1> QED
  BY <1>1, InitIInv, StepIInv, PTL DEF Spec, OpenAdmitsNone
=============================================================================
