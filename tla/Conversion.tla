----------------------------- MODULE Conversion -----------------------------
(***************************************************************************)
(* The arithmetic of a conversion, from Binance's ticker to the answer:    *)
(* BinanceMapper makes a quote of a ticker (RateFactory, PrecisionService),*)
(* either store keeps its rate and gives it back through RateFactory again,*)
(* and ConversionService multiplies it with the amount that AmountFactory  *)
(* made of the request's.                                                  *)
(*                                                                         *)
(* Decimals are naturals.  A normalised rate or amount is counted in units *)
(* of 10^-8, what comes from outside in parts, Grid to the unit, and a     *)
(* product in units of 10^-16.                                             *)
(***************************************************************************)
EXTENDS Integers

CONSTANTS
  Grid,      \* parts of a unit that prices and amounts may have
  Digits,    \* the precision of Python's decimal context
  MaxPrice,  \* bound: no price has more parts
  MaxAmount  \* bound: no amount has more parts

ASSUME DecimalsAssumption ==
  /\ Grid \in Nat \ {0} /\ Digits \in Nat \ {0}
  /\ MaxPrice \in Nat /\ MaxAmount \in Nat \ {0}

VARIABLES
  stage,   \* how far the quote and the request have got
  price,   \* what the ticker says
  quote,   \* the rate of the quote made of it; empty when it was skipped
  stored,  \* the decimal in PostgreSQL's row and in Redis' JSON, in parts
  found,   \* the rate of the quote the look-up returned
  amount,  \* what the request says
  answer   \* the amount of the response; empty without a quote

vars == <<stage, price, quote, stored, found, amount, answer>>

-----------------------------------------------------------------------------
\* 10 to the power of n.
PowerOfTen[n \in Nat] == IF n = 0 THEN 1 ELSE 10 * PowerOfTen[n - 1]

\* Slip: the digits beyond the precision are cut off.
QuantizeDown(v) == v \div Grid

\* Slip: always to the next unit.
QuantizeNext(v) == v \div Grid + 1

\* PrecisionService: quantize(Decimal("0.00000001"), rounding=ROUND_HALF_UP).
Quantize(v) == (2 * v + Grid) \div (2 * Grid)

\* Amounts are below 10^15 (lt=1e15), so they have Digits digits and no more.
ASSUME AmountsFit == Quantize(MaxAmount) < PowerOfTen[Digits]

\* Rate.__post_init__, and what quantize() can give without InvalidOperation.
Rate == {r \in Nat : 0 < r /\ r < PowerOfTen[Digits]}

\* Slip: a rate that vanishes is not refused.
CreateAnyRate(v) == {Quantize(v)}

\* RateFactory.create: the rate, or nothing (ValueError) when it vanishes or
\* (InvalidOperation) has too many digits.  Its least rate is one unit, so what
\* is left is never below it.
CreateRate(v) == {r \in {Quantize(v)} : r \in Rate}

\* tickers_to_quotes skips a ticker without a price and one whose rate vanishes;
\* one with too many digits fails the poll.
TickerToQuote(p) == IF p <= 0 THEN {} ELSE CreateRate(p)

\* AmountFactory.create.
CreateAmount(v) == Quantize(v)

\* The unit in the last place of a product: it has at most Digits digits.
Ulp(v) ==
  LET e == CHOOSE e \in 0..v : /\ v < PowerOfTen[Digits + e]
                               /\ e > 0 => v >= PowerOfTen[Digits + e - 1]
  IN PowerOfTen[e]

\* How often u goes into v, half to even.
HalfEven(v, u) ==
  LET q == v \div u
      up == 2 * (v % u) > u \/ (2 * (v % u) = u /\ q % 2 = 1)
  IN IF up THEN q + 1 ELSE q

\* Slip: the carry out of the first digit is lost.
SignificantWithoutCarry(v) == Ulp(v) * (HalfEven(v, Ulp(v)) % PowerOfTen[Digits])

\* Decimal.__mul__ in the default context: half to even in the last place.
Significant(v) == Ulp(v) * HalfEven(v, Ulp(v))

\* Quote.convert, Rate.apply_to, Amount.__mul__.
Convert(a, r) == Significant(a * r)

-----------------------------------------------------------------------------
Init ==
  /\ stage = "start"
  /\ price = 0 /\ quote = {} /\ stored = {} /\ found = {}
  /\ amount = 1 /\ answer = {}

\* A ticker arrives and becomes a quote, or is skipped.
Poll ==
  /\ stage = "start"
  /\ stage' = "polled"
  /\ price' \in 0..MaxPrice
  /\ quote' = TickerToQuote(price')
  /\ UNCHANGED <<stored, found, amount, answer>>

\* Both writers keep the rate as it is: NUMERIC has eight places or more, and
\* str(Decimal) all there are.
Save ==
  /\ stage = "polled"
  /\ stage' = "saved"
  /\ stored' = {Grid * r : r \in quote}
  /\ UNCHANGED <<price, quote, found, amount, answer>>

\* Both repositories make the rate anew of what they have stored.
LookUp ==
  /\ stage = "saved"
  /\ stage' = "found"
  /\ found' = UNION {CreateRate(v) : v \in stored}
  /\ UNCHANGED <<price, quote, stored, amount, answer>>

\* The request's amount is positive (gt=0); convert() multiplies what is left of
\* it.  Without a quote the request has failed before.
Answer ==
  /\ stage = "found"
  /\ stage' = "answered"
  /\ amount' \in 1..MaxAmount
  /\ answer' = {Convert(CreateAmount(amount'), r) : r \in found}
  /\ UNCHANGED <<price, quote, stored, found>>

Next == Poll \/ Save \/ LookUp \/ Answer

Spec == Init /\ [][Next]_vars

-----------------------------------------------------------------------------
\* The variables have their types: no rate is ever zero (Rate.__post_init__).
TypeOK ==
  /\ stage \in {"start", "polled", "saved", "found", "answered"}
  /\ price \in 0..MaxPrice
  /\ amount \in 1..MaxAmount
  /\ quote \in SUBSET Rate /\ found \in SUBSET Rate
  /\ stored \in SUBSET (Nat \ {0})
  /\ answer \in SUBSET Nat

\* A rate that passed through a store is the rate that was made of the ticker:
\* normalising a second time changes nothing, so both stores give one answer.
RateSurvivesStorage == stage \in {"found", "answered"} => found = quote

Distance(x, y) == IF x >= y THEN x - y ELSE y - x

\* The answer differs from the exact product of price and amount by no more than
\* half a unit of the amount, half a unit of the rate and half a unit in the last
\* place of the product.
ConversionIsAccurate ==
  stage = "answered" =>
    \A r \in quote, a \in answer :
      2 * Distance(Grid * Grid * a, price * amount)
        <= Grid * Grid * (Ulp(CreateAmount(amount) * r) + r) + Grid * amount

\* Nobody is offered more for less: at the same rate a smaller amount never converts
\* to more than this one did, although the amount and the product are rounded by
\* different rules and the last place of a product moves with its size.
ConversionIsMonotone ==
  stage = "answered" =>
    \A r \in quote, a \in answer, less \in 1..amount : Convert(CreateAmount(less), r) <= a
=============================================================================
