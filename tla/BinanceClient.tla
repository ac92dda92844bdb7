---------------------------- MODULE BinanceClient ----------------------------
(***************************************************************************)
(* Calls of the Binance API: CircuitBreaker.call around                    *)
(* BinanceAPIClient._api_call, which retries _make_request.  The rates     *)
(* tick runs two calls at once, the symbols tick a third, and a call whose *)
(* sibling failed goes on after its tick has ended, so any number of them  *)
(* are in flight together.                                                 *)
(*                                                                         *)
(* All run on one event loop.  The breaker's lock is never held across an  *)
(* await, so each of its sections is one step, and the section after a     *)
(* result belongs to the step that delivers the result.                    *)
(*                                                                         *)
(* Time is kept as the ticks since the last failure, up to Recovery; the   *)
(* failure count is kept up to MaxCount.  Both are only ever compared.     *)
(***************************************************************************)
EXTENDS Naturals

CONSTANTS
  Caller,     \* the calls that may be in flight at once
  Threshold,  \* failure_threshold
  Recovery,   \* recovery_timeout
  Attempts,   \* stop_after_attempt of _api_call
  MaxCount    \* bound: failures are not counted beyond it

ASSUME ThresholdAssumption == Threshold \in Nat \ {0}

ASSUME BoundsAssumption ==
  /\ Recovery \in Nat \ {0}
  /\ Attempts \in Nat \ {0}
  /\ MaxCount \in Nat /\ MaxCount >= Threshold

VARIABLES
  state,         \* CircuitBreaker.state
  failure_count, \* CircuitBreaker.failure_count
  elapsed,       \* time.time() - last_failure_time
  call           \* the calls

vars == <<state, failure_count, elapsed, call>>

-----------------------------------------------------------------------------
BreakerState == {"closed", "open", "half_open"}

\* How a call ended: with data, with QuoteProviderUnavailableError, with the
\* ClientError or TimeoutError of its last attempt, with a ValueError, or cancelled.
Outcome == {"none", "data", "unavailable", "client_error", "value_error", "cancelled"}

Call == [pc : {"idle", "calling"},
         current_state : BreakerState, \* captured when the call was let through
         attempt : 0..Attempts,
         outcome : Outcome]

Ended(outcome) ==
  [pc |-> "idle", current_state |-> "closed", attempt |-> 0, outcome |-> outcome]

Init ==
  /\ state = "closed"
  /\ failure_count = 0
  /\ elapsed = 0
  /\ call = [c \in Caller |-> Ended("none")]

-----------------------------------------------------------------------------
Tick ==
  /\ elapsed < Recovery
  /\ elapsed' = elapsed + 1
  /\ UNCHANGED <<state, failure_count, call>>

\* _should_attempt_reset; an open breaker has a last_failure_time.
ShouldAttemptReset == elapsed >= Recovery

\* Slip: nobody moves an open breaker on to half-open.
EnterClosed(c) ==
  /\ call[c].pc = "idle"
  /\ state # "open"
  /\ call' = [call EXCEPT ![c] = [pc |-> "calling", current_state |-> state,
                                  attempt |-> 1, outcome |-> "none"]]
  /\ UNCHANGED <<state, failure_count, elapsed>>

\* Slip: a call is let through before the breaker is looked at, and one that is open
\* stays open until the answer.
EnterUnseen(c) ==
  /\ call[c].pc = "idle"
  /\ call' = [call EXCEPT ![c] = [pc |-> "calling",
                                  current_state |-> IF state = "open" THEN "half_open" ELSE state,
                                  attempt |-> 1, outcome |-> "none"]]
  /\ UNCHANGED <<state, failure_count, elapsed>>

\* CircuitBreaker.call lets the call through, as a probe when it was open.
Enter(c) ==
  /\ call[c].pc = "idle"
  /\ state = "open" => ShouldAttemptReset
  /\ LET now_state == IF state = "open" THEN "half_open" ELSE state
     IN /\ state' = now_state
        /\ call' = [call EXCEPT ![c] = [pc |-> "calling", current_state |-> now_state,
                                        attempt |-> 1, outcome |-> "none"]]
  /\ UNCHANGED <<failure_count, elapsed>>

\* "Circuit breaker is open. Waiting for recovery timeout."
Reject(c) ==
  /\ call[c].pc = "idle"
  /\ state = "open" /\ ~ShouldAttemptReset
  /\ call' = [call EXCEPT ![c] = Ended("unavailable")]
  /\ UNCHANGED <<state, failure_count, elapsed>>

\* Slip: any success closes the breaker.
SucceedAlways(c) ==
  /\ call[c].pc = "calling"
  /\ failure_count' = 0 /\ state' = "closed"
  /\ call' = [call EXCEPT ![c] = Ended("data")]
  /\ UNCHANGED elapsed

\* A response: only a probe touches the breaker (_on_success).
Succeed(c) ==
  /\ call[c].pc = "calling"
  /\ IF call[c].current_state = "half_open"
     THEN failure_count' = 0 /\ state' = "closed"
     ELSE UNCHANGED <<state, failure_count>>
  /\ call' = [call EXCEPT ![c] = Ended("data")]
  /\ UNCHANGED elapsed

\* Slip: the breaker opens one failure late.
FailLate(c) ==
  /\ call[c].pc = "calling"
  /\ failure_count' = IF failure_count < MaxCount THEN failure_count + 1 ELSE MaxCount
  /\ elapsed' = 0
  /\ state' = IF failure_count >= Threshold THEN "open" ELSE state
  /\ call' = [call EXCEPT ![c] = Ended("unavailable")]

\* An HTTP error status or a content type other than JSON: _make_request raises
\* QuoteProviderUnavailableError, which is not retried and which the breaker
\* counts (_on_failure).
Fail(c) ==
  /\ call[c].pc = "calling"
  /\ failure_count' = IF failure_count < MaxCount THEN failure_count + 1 ELSE MaxCount
  /\ elapsed' = 0
  /\ state' = IF failure_count' >= Threshold THEN "open" ELSE state
  /\ call' = [call EXCEPT ![c] = Ended("unavailable")]

\* Slip: the attempt after the last one is still made.
LoseConnectionOnceMore(c) ==
  /\ call[c].pc = "calling"
  /\ call' = IF call[c].attempt <= Attempts
             THEN [call EXCEPT ![c].attempt = @ + 1]
             ELSE [call EXCEPT ![c] = Ended("client_error")]
  /\ UNCHANGED <<state, failure_count, elapsed>>

\* A connection error, a timeout or HTTP 429: tried again, and after the last
\* attempt raised as it is (reraise=True), which the breaker does not expect.
LoseConnection(c) ==
  /\ call[c].pc = "calling"
  /\ call' = IF call[c].attempt < Attempts
             THEN [call EXCEPT ![c].attempt = @ + 1]
             ELSE [call EXCEPT ![c] = Ended("client_error")]
  /\ UNCHANGED <<state, failure_count, elapsed>>

\* A body that is not the JSON it is said to be, or a Retry-After that is no number: the
\* ValueError (JSONDecodeError is one) is neither retried nor counted.
Garble(c) ==
  /\ call[c].pc = "calling"
  /\ call' = [call EXCEPT ![c] = Ended("value_error")]
  /\ UNCHANGED <<state, failure_count, elapsed>>

\* The scheduler is shut down and cancels the job that awaits the call.
Cancel(c) ==
  /\ call[c].pc = "calling"
  /\ call' = [call EXCEPT ![c] = Ended("cancelled")]
  /\ UNCHANGED <<state, failure_count, elapsed>>

Finish(c) == Succeed(c) \/ Fail(c) \/ LoseConnection(c) \/ Garble(c) \/ Cancel(c)

Next == Tick \/ \E c \in Caller : Enter(c) \/ Reject(c) \/ Finish(c)

\* Time passes, every attempt ends (ClientTimeout), and the scheduler keeps
\* starting ticks, each of which calls.
Fairness == /\ WF_vars(Tick)
            /\ \A c \in Caller : WF_vars(Enter(c)) /\ WF_vars(Finish(c))

Spec == Init /\ [][Next]_vars /\ Fairness

-----------------------------------------------------------------------------
\* The variables have their types; in particular _api_call makes at most Attempts
\* attempts.
TypeOK ==
  /\ state \in BreakerState
  /\ failure_count \in 0..MaxCount
  /\ elapsed \in 0..Recovery
  /\ call \in [Caller -> Call]

\* The breaker is closed exactly while it has counted fewer failures than its
\* threshold, whatever results arrive in whatever order: so a failed probe opens it again
\* at once, and one that was closed by a probe needs as many failures as a new one.
CountMatchesState == state = "closed" <=> failure_count < Threshold

\* An open breaker is left only after the recovery timeout, or by the success of
\* a call that was let through as a probe; the late success of a call from before
\* it opened leaves it open.
OpenUntilProbed ==
  [][state = "open" /\ state' # "open" =>
       \/ state' = "half_open" /\ elapsed >= Recovery
       \/ \E c \in Caller : call[c].pc = "calling" /\ call[c].current_state = "half_open"]_vars

\* An open breaker does not stay open: calls still in flight when it opened may
\* fail late and restart the timeout, but none is added, so it runs out.
OpenEnds == state = "open" ~> state # "open"

InFlight == {c \in Caller : call[c].pc = "calling"}

\* What an open breaker's end rests on: while it is open no call joins those that were in
\* flight, and only the end of one of them restarts the recovery timeout, which
\* otherwise runs; so the timeout restarts at most once for each call in flight.
OpenAdmitsNone ==
  [][state = "open" /\ state' = "open" =>
       \/ InFlight' = InFlight /\ elapsed' >= elapsed
       \/ \E c \in InFlight : InFlight' = InFlight \ {c}]_vars

\* BINANCE_CIRCUIT_BREAKER_RECOVERY_TIMEOUT: "Seconds to wait before attempting
\* to close circuit breaker".  Until then an open breaker would stay open.
WaitsBeforeClosing ==
  [][state = "open" /\ state' # "open" => elapsed >= Recovery]_vars

\* _api_call: ":raises QuoteProviderUnavailableError: If request fails after
\* retries".  No call would then end with another error.
FailsAsUnavailable == \A c \in Caller : call[c].outcome # "client_error"
=============================================================================
