---------------------------- MODULE QuoteHistory ----------------------------
(***************************************************************************)
(* What storage promises to whoever converts currencies, with none of its  *)
(* parts: quotes are published a batch at a time, in the order of their    *)
(* timestamps, they are never withdrawn or amended, and a reply shows a    *)
(* published quote or nothing.  QuoteStore implements it.                  *)
(***************************************************************************)
EXTENDS Naturals

CONSTANTS Quote,   \* every quote: a record with a field ts
          Reader   \* the requests served concurrently

VARIABLES history, \* the quotes published so far
          reply    \* reply[r]: the quote r was answered with, a set of at most one

vars == <<history, reply>>

Init == /\ history = {}
        /\ reply = [r \in Reader |-> {}]

\* A poll's quotes share one timestamp, later than all published before it.
Publish ==
  LET batch == history' \ history
  IN /\ history \subseteq history'
     /\ batch \subseteq Quote
     /\ \A q \in batch : \A p \in history' :
          p.ts = q.ts \/ (p \in history /\ p.ts < q.ts)
     /\ UNCHANGED reply

\* A request is answered with a published quote, or its answer is forgotten
\* because the client asks again or is refused.
Reply(r) ==
  \E shown \in {{}} \cup {{q} : q \in history} :
    /\ reply' = [reply EXCEPT ![r] = shown]
    /\ UNCHANGED history

Next == Publish \/ \E r \in Reader : Reply(r)

Spec == Init /\ [][Next]_vars
=============================================================================
