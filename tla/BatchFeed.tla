------------------------------ MODULE BatchFeed ------------------------------
(***************************************************************************)
(* What whoever saves the batches may rely on (RateSource.stream and       *)
(* close), with no scheduler, queue or network: the batches that are       *)
(* handed over have strictly increasing timestamps, and once the feed is   *)
(* told to stop none is handed over any more.  RateFeed implements it, and *)
(* QuoteStore takes its batches from it.                                   *)
(***************************************************************************)
EXTENDS Naturals

VARIABLES taken, \* the timestamp of the last batch that was handed over
          open   \* whether the feed goes on

vars == <<taken, open>>

Init == taken = 0 /\ open = TRUE

\* A batch of quotes is handed over; some polled before it may never be.
Deliver ==
  /\ open
  /\ taken' \in Nat /\ taken' > taken
  /\ open' = open

Close ==
  /\ open' = FALSE
  /\ UNCHANGED taken

Next == Deliver \/ Close

Spec == Init /\ [][Next]_vars
=============================================================================
