----------------------------- MODULE QuoteStore -----------------------------
(***************************************************************************)
(* The storage of quotes and the requests that read it: the consumer       *)
(* process saves each batch in PostgreSQL and then in Redis                *)
(* (QuoteConsumer._process_batch, StoreQuotesCommandHandler,               *)
(* CompositeQuoteWriter, PostgresQuoteWriter, RedisQuoteWriter), while API *)
(* requests look a pair up in Redis and then in PostgreSQL, check the age  *)
(* of what they found and answer (convert_currency,                        *)
(* GetConversionQueryHandler, CompositeQuoteRepository,                    *)
(* QuoteFreshnessService).  The two processes share nothing but the two    *)
(* stores.                                                                 *)
(*                                                                         *)
(* A quote is [pair, ts]: a poll gives one price per pair, so these two    *)
(* determine the rate.  Time is counted in ticks of the hosts' clock, now; *)
(* ts comes from Binance's clock, which may run ahead by up to Skew ticks. *)
(***************************************************************************)
EXTENDS Naturals, FiniteSets

CONSTANTS
  Pair,        \* the pairs a client may name
  Tracked,     \* the pairs Binance quotes
  Symbol,      \* what str(pair) may be
  SymbolOf,    \* str(pair): the two codes written one after the other
  Reader,      \* the requests served concurrently
  MaxAge,      \* QUOTE_MAX_AGE_SECONDS
  TTL,         \* REDIS_QUOTE_TTL_SECONDS
  Attempts,    \* stop_after_attempt of _process_batch
  Skew,        \* how far Binance's clock may be ahead of the hosts'
  Unreliable,  \* whether Redis, an acknowledgement or the process may be lost
  MaxTime,     \* bound: the clock stops here
  MaxLate      \* bound: timed-out Redis commands still on their way

ASSUME PairsAssumption ==
  /\ Pair # {} /\ Tracked \subseteq Pair
  /\ SymbolOf \in [Pair -> Symbol]

\* BinanceMapper keys both the tickers and the tracked pairs by this string.
ASSUME SymbolsAssumption ==
  \A p, q \in Tracked : SymbolOf[p] = SymbolOf[q] => p = q

\* Settings.validate_ttl_relationships and FreshnessPolicy.__post_init__.
ASSUME TimesAssumption ==
  /\ MaxAge \in Nat \ {0}
  /\ TTL \in Nat /\ TTL > MaxAge

ASSUME LimitsAssumption ==
  /\ Attempts \in Nat \ {0}
  /\ Skew \in Nat
  /\ Unreliable \in BOOLEAN
  /\ MaxTime \in Nat
  /\ MaxLate \in Nat

VARIABLES
  now,     \* the hosts' clock
  polled,  \* the timestamp of the last batch the rate source delivered
  rows,    \* PostgreSQL: the rows of table quotes
  cache,   \* Redis: the live keys, as [quote, expires]
  late,    \* quotes whose SETEX timed out at the client but may yet run
  writer,  \* the consumer's task: where it is in saving a batch
  reader   \* the requests: where each is, and how its last one ended

vars == <<now, polled, rows, cache, late, writer, reader>>

-----------------------------------------------------------------------------
Quote == [pair : Tracked, ts : Nat]
Entry == [quote : Quote, expires : Nat]
Kind == {"latest", "before"}
Status == {"none", "ok", "bad_request", "not_found", "too_old", "error"}

Writer == [pc : {"idle", "store", "cache"}, \* "store" also while backing off
           batch : SUBSET Quote,            \* what is being saved
           pending : SUBSET Quote,          \* its SETEX commands not yet run
           attempt : 0..Attempts,
           saved : BOOLEAN]                 \* "batch_processed" was logged last

Request == [pc : {"idle", "redis", "postgres", "check"},
            kind : Kind,
            pair : Pair,
            at : Nat,                       \* the timestamp asked, if any
            found : SUBSET Quote,           \* Optional[Quote]: at most one
            status : Status]                \* how the last request ended

\* Between requests only the last answer is left.
NoRequest(status, found) ==
  [pc |-> "idle", kind |-> "latest", pair |-> CHOOSE p \in Pair : TRUE, at |-> 0,
   found |-> found, status |-> status]

Resting(saved) == [pc |-> "idle", batch |-> {}, pending |-> {}, attempt |-> 0,
                   saved |-> saved]

Init ==
  /\ now = 0
  /\ polled = 0
  /\ rows = {}
  /\ cache = {}
  /\ late = {}
  /\ writer = Resting(FALSE)
  /\ reader = [r \in Reader |-> NoRequest("none", {})]

-----------------------------------------------------------------------------
Sym(q) == SymbolOf[q.pair]

\* Slip: the conflict target names the symbol alone.
InsertBySymbol(batch) ==
  rows \cup {q \in batch : \A r \in rows : Sym(r) # Sym(q)}

\* Slip: an upsert keeps one row per symbol, as the cache does.
InsertOverwriting(batch) ==
  {r \in rows : \A q \in batch : Sym(r) # Sym(q)} \cup batch

\* INSERT ... ON CONFLICT (symbol, quote_timestamp) DO NOTHING.
Insert(batch) ==
  rows \cup {q \in batch : \A r \in rows : <<Sym(r), r.ts>> # <<Sym(q), q.ts>>}

\* Slip: a key lives as long as its quote may be used, no longer.
SetexMaxAge(q) == {e \in cache : Sym(e.quote) # Sym(q)}
                    \cup {[quote |-> q, expires |-> now + MaxAge]}

\* SETEX quote:latest:<symbol> TTL: replaces the key's value and its expiry.
Setex(q) == {e \in cache : Sym(e.quote) # Sym(q)}
              \cup {[quote |-> q, expires |-> now + TTL]}

\* ORDER BY quote_timestamp DESC LIMIT 1, as a set of at most one row.
Newest(S) == {q \in S : \A r \in S : r.ts <= q.ts}

RowsOf(s) == {q \in rows : Sym(q) = s}
RowsBefore(s, t) == {q \in RowsOf(s) : q.ts <= t}

\* The timestamp of the newest row of a symbol, 0 when it has none.
NewestTs(s) == IF RowsOf(s) = {} THEN 0
               ELSE (CHOOSE q \in Newest(RowsOf(s)) : TRUE).ts

-----------------------------------------------------------------------------
(* The clock.  A Redis key is gone at its expiry.                          *)
Tick ==
  /\ now < MaxTime
  /\ now' = now + 1
  /\ cache' = {e \in cache : e.expires > now + 1}
  /\ UNCHANGED <<polled, rows, late, writer, reader>>

-----------------------------------------------------------------------------
(* The consumer.                                                           *)

\* Slip: the newest batch is taken first, the older ones after it.
TakeAnyBatch ==
  /\ writer.pc = "idle"
  /\ \E ts \in 1..(now + Skew), pairs \in SUBSET Tracked \ {{}} :
       /\ polled' = ts
       /\ writer' = [pc |-> "store", batch |-> {[pair |-> p, ts |-> ts] : p \in pairs},
                     pending |-> {}, attempt |-> 1, saved |-> FALSE]
  /\ UNCHANGED <<now, rows, cache, late, reader>>

\* All that is assumed of the order of the batches is BatchFeed's promise.  The feed is
\* open throughout: a process that is stopped is followed by another, and BatchFeed's
\* order is that of Binance's clock, which goes on.
Feed == INSTANCE BatchFeed WITH taken <- polled, open <- TRUE

\* _consume_stream takes the next batch that the rate source delivers, stamped by a clock
\* that is at most Skew ahead.  Empty batches are skipped there.
TakeBatch ==
  /\ writer.pc = "idle"
  /\ \E ts \in 1..(now + Skew), pairs \in SUBSET Tracked \ {{}} :
       /\ polled' = ts /\ Feed!Deliver
       /\ writer' = [pc |-> "store", batch |-> {[pair |-> p, ts |-> ts] : p \in pairs},
                     pending |-> {}, attempt |-> 1, saved |-> FALSE]
  /\ UNCHANGED <<now, rows, cache, late, reader>>

\* PostgresQuoteWriter.save_batch commits; Redis is next.
CommitRows ==
  /\ writer.pc = "store"
  /\ rows' = Insert(writer.batch)
  /\ writer' = [writer EXCEPT !.pc = "cache", !.pending = writer.batch]
  /\ UNCHANGED <<now, polled, cache, late, reader>>

\* Slip: one attempt too many.
StoreFailsOnceMore ==
  /\ writer.pc = "store"
  /\ writer' = IF writer.attempt <= Attempts
               THEN [writer EXCEPT !.attempt = @ + 1]
               ELSE Resting(FALSE)
  /\ UNCHANGED <<now, polled, rows, cache, late, reader>>

\* Slip: after the last attempt the batch begins anew.
StoreFailsForEver ==
  /\ writer.pc = "store"
  /\ writer' = [writer EXCEPT !.attempt = IF @ < Attempts THEN @ + 1 ELSE 1]
  /\ UNCHANGED <<now, polled, rows, cache, late, reader>>

\* Slip: the error of the primary is swallowed like that of the secondary.
StoreFailsSilently ==
  /\ writer.pc = "store"
  /\ writer' = [writer EXCEPT !.pc = "cache", !.pending = writer.batch]
  /\ UNCHANGED <<now, polled, rows, cache, late, reader>>

\* PostgresQuoteWriter.save_batch raises QuoteStorageError, and the commit did not take
\* effect or it did (the acknowledgement was lost); none takes effect later.
\* _process_batch tries again, and gives the batch up after the last attempt.
StoreFails ==
  /\ writer.pc = "store"
  /\ rows' \in {rows} \cup IF Unreliable THEN {Insert(writer.batch)} ELSE {}
  /\ writer' = IF writer.attempt < Attempts
               THEN [writer EXCEPT !.attempt = @ + 1]
               ELSE Resting(FALSE)
  /\ UNCHANGED <<now, polled, cache, late, reader>>

\* Slip: the pipeline is executed after the first command only.
RunOneSetex ==
  /\ writer.pc = "cache"
  /\ \E q \in writer.pending : cache' = Setex(q)
  /\ writer' = Resting(TRUE)
  /\ UNCHANGED <<now, polled, rows, late, reader>>

\* The server runs one SETEX of the pipeline, which is no transaction.  After
\* the last one save_batch returns and the batch is done.
RunSetex ==
  /\ writer.pc = "cache"
  /\ \E q \in writer.pending :
       /\ cache' = Setex(q)
       /\ writer' = IF writer.pending = {q}
                    THEN Resting(TRUE)
                    ELSE [writer EXCEPT !.pending = @ \ {q}]
  /\ UNCHANGED <<now, polled, rows, late, reader>>

\* RedisQuoteWriter silences every exception: the commands not yet run are
\* lost, or still on their way when the socket timed out.
CacheFails ==
  /\ Unreliable
  /\ writer.pc = "cache"
  /\ \E sent \in SUBSET writer.pending :
       /\ Cardinality(late \cup sent) <= MaxLate
       /\ late' = late \cup sent
  /\ writer' = Resting(TRUE)
  /\ UNCHANGED <<now, polled, rows, cache, reader>>

\* The process dies while it saves; docker starts it again with an empty queue.
Crash ==
  /\ Unreliable
  /\ writer.pc # "idle"
  /\ rows' \in {rows} \cup IF writer.pc = "store" THEN {Insert(writer.batch)} ELSE {}
  /\ writer' = Resting(FALSE)
  /\ UNCHANGED <<now, polled, cache, late, reader>>

-----------------------------------------------------------------------------
(* Redis on its own: an abandoned command runs or is lost with its         *)
(* connection; any key may be evicted (maxmemory-policy allkeys-lru).      *)
LateSetex ==
  /\ \E q \in late :
       /\ late' = late \ {q}
       /\ cache' \in {cache, Setex(q)}
  /\ UNCHANGED <<now, polled, rows, writer, reader>>

Evict ==
  /\ Unreliable
  /\ \E e \in cache : cache' = cache \ {e}
  /\ UNCHANGED <<now, polled, rows, late, writer, reader>>

-----------------------------------------------------------------------------
(* The requests.                                                           *)

\* GET /convert: a request for the latest rate starts at Redis, one with a
\* timestamp, which is not in the future (nor older than a week, a limit that is left
\* out here), at PostgreSQL.
Receive(r) ==
  /\ reader[r].pc = "idle"
  /\ \E k \in Kind, p \in Pair, t \in 0..now :
       /\ k = "latest" => t = 0
       /\ reader' = [reader EXCEPT ![r] =
            [pc |-> IF k = "latest" THEN "redis" ELSE "postgres",
             kind |-> k, pair |-> p, at |-> t, found |-> {},
             status |-> "none"]]
  /\ UNCHANGED <<now, polled, rows, cache, late, writer>>

\* RedisQuoteRepository.get_latest finds the key.
CacheHit(r) ==
  /\ reader[r].pc = "redis"
  /\ \E e \in cache :
       /\ Sym(e.quote) = SymbolOf[reader[r].pair]
       /\ reader' = [reader EXCEPT ![r].pc = "check", ![r].found = {e.quote}]
  /\ UNCHANGED <<now, polled, rows, cache, late, writer>>

\* The key is not there, or any exception at all: ask the fallback.
CacheMiss(r) ==
  /\ reader[r].pc = "redis"
  /\ \/ Unreliable
     \/ \A e \in cache : Sym(e.quote) # SymbolOf[reader[r].pair]
  /\ reader' = [reader EXCEPT ![r].pc = "postgres"]
  /\ UNCHANGED <<now, polled, rows, cache, late, writer>>

\* Slip: the time asked for is not handed on to the query.
SelectLatest(r) == Newest(RowsOf(SymbolOf[reader[r].pair]))

\* PostgresQuoteRepository.get_latest or get_latest_before.
Select(r) ==
  LET s == SymbolOf[reader[r].pair]
  IN IF reader[r].kind = "latest" THEN Newest(RowsOf(s))
     ELSE Newest(RowsBefore(s, reader[r].at))

ReadRow(r) ==
  /\ reader[r].pc = "postgres"
  /\ \E q \in Select(r) :
       reader' = [reader EXCEPT ![r].pc = "check", ![r].found = {q}]
  /\ UNCHANGED <<now, polled, rows, cache, late, writer>>

\* Slip: a pair without a quote is looked up again until it has one.
LookUpAgain(r) ==
  /\ reader[r].pc = "postgres"
  /\ Select(r) = {}
  /\ reader[r].kind = "latest"
  /\ reader' = [reader EXCEPT ![r].pc = "redis"]
  /\ UNCHANGED <<now, polled, rows, cache, late, writer>>

\* QuoteNotFoundError.
NotFound(r) ==
  /\ reader[r].pc = "postgres"
  /\ Select(r) = {}
  /\ reader' = [reader EXCEPT ![r] = NoRequest("not_found", {})]
  /\ UNCHANGED <<now, polled, rows, cache, late, writer>>

\* Any exception of the database driver.
ReadFails(r) ==
  /\ reader[r].pc = "postgres"
  /\ reader' = [reader EXCEPT ![r] = NoRequest("error", {})]
  /\ UNCHANGED <<now, polled, rows, cache, late, writer>>

\* Slip: whatever Redis still holds passes for fresh.
VerdictByTTL(q, ref) ==
  CASE q.ts > ref -> "bad_request"
    [] ref > q.ts + TTL -> "too_old"
    [] OTHER -> "ok"

\* QuoteAge.between raises ValueError on a negative age; validate_freshness
\* refuses a stale quote; convert_currency turns both into a status.
Verdict(q, ref) ==
  CASE q.ts > ref -> "bad_request"
    [] ref > q.ts + MaxAge -> "too_old"
    [] OTHER -> "ok"

Respond(r) ==
  /\ reader[r].pc = "check"
  /\ \E q \in reader[r].found :
       LET ref == IF reader[r].kind = "latest" THEN now ELSE reader[r].at
       IN reader' = [reader EXCEPT ![r] =
              NoRequest(Verdict(q, ref), IF Verdict(q, ref) = "ok" THEN {q} ELSE {})]
  /\ UNCHANGED <<now, polled, rows, cache, late, writer>>

-----------------------------------------------------------------------------
Save == CommitRows \/ StoreFails \/ RunSetex \/ CacheFails \/ Crash

Serve(r) == \/ CacheHit(r) \/ CacheMiss(r)
            \/ ReadRow(r) \/ NotFound(r) \/ ReadFails(r)
            \/ Respond(r)

Next == \/ Tick
        \/ TakeBatch \/ Save
        \/ LateSetex \/ Evict
        \/ \E r \in Reader : Receive(r) \/ Serve(r)

\* The event loops run whatever is ready, and every call of a store returns
\* or times out; nothing makes a batch or a request arrive.
Fairness == WF_vars(Save) /\ \A r \in Reader : WF_vars(Serve(r))

Spec == Init /\ [][Next]_vars /\ Fairness

-----------------------------------------------------------------------------
(* Properties.                                                             *)

\* The variables have their types; in particular a batch is never tried more than
\* Attempts times (stop_after_attempt of _process_batch).
TypeOK ==
  /\ now \in Nat
  /\ polled \in Nat
  /\ rows \in SUBSET Quote
  /\ cache \in SUBSET Entry
  /\ late \in SUBSET Quote
  /\ writer \in Writer
  /\ reader \in [Reader -> Request]

\* Redis never knows a quote that PostgreSQL does not: whatever fails or dies
\* between the two writes of CompositeQuoteWriter.save_batch, a cached rate, or
\* one a timed-out command may still write, has its row.
CacheIsCommitted ==
  /\ \A e \in cache : e.quote \in rows
  /\ late \subseteq rows
  /\ \A r \in Reader : reader[r].found \subseteq rows

\* A batch whose processing is reported as successful is in PostgreSQL, whatever
\* happened to the cache (CompositeQuoteWriter.save_batch, _process_batch).
ProcessedIsStored ==
  [][writer'.saved /\ ~writer.saved => writer.batch \subseteq rows']_vars

\* Once a row of a symbol is newer than t, what get_latest_before(t) returns is settled: a
\* retry, a crash or a commit that was reported as failed never adds an older row, so a
\* historical conversion has one answer as long as its rows are retained.
HistoryIsSettled ==
  [][\A s \in Symbol, t \in 0..(MaxTime + Skew) :
       (\E q \in RowsOf(s) : q.ts > t)
         => Newest(RowsBefore(s, t))' = Newest(RowsBefore(s, t))]_vars

\* A successful answer is at most MaxAge old at the time asked for, not from
\* after it, and is a row of the symbol asked for, even when the key expired,
\* was evicted or was overwritten by a late command while the request ran.
AnswersAreFresh ==
  [][\A r \in Reader :
       reader[r].status # "ok" /\ reader'[r].status = "ok" =>
         \E q \in RowsOf(SymbolOf[reader[r].pair]) :
           /\ reader[r].found = {q}
           /\ LET ref == IF reader[r].kind = "latest" THEN now ELSE reader[r].at
              IN q.ts <= ref /\ ref <= q.ts + MaxAge]_vars

\* A valid request is answered 400 for a quote "from the future" (QuoteAge.between) only
\* when it asks for the latest rate and what it found is a row that Binance's clock, being
\* ahead, stamped at most Skew ticks from now.  A historical request never is, and no cached
\* or late quote is further ahead, however long ago it was found.
BadRequestIsAhead ==
  [][\A r \in Reader :
       reader[r].status # "bad_request" /\ reader'[r].status = "bad_request" =>
         /\ reader[r].kind = "latest"
         /\ \E q \in RowsOf(SymbolOf[reader[r].pair]) :
              reader[r].found = {q} /\ now < q.ts /\ q.ts <= now + Skew]_vars

\* While nothing is lost, Redis lags behind PostgreSQL by no more than the batch
\* being saved, even when earlier batches were given up: a live key holds its
\* symbol's newest row, or its SETEX is still to come in this batch.
CacheLagsOneBatch ==
  Unreliable \/ \A e \in cache :
    \/ e.quote.ts = NewestTs(Sym(e.quote))
    \/ \E q \in writer.pending : Sym(q) = Sym(e.quote)

\* While nothing is lost, a rate that may still be used is in Redis, or its SETEX is
\* still to come: PostgreSQL is asked for stale and unknown pairs only.  The TTL has to
\* exceed the maximal age by as much as Binance's clock may be ahead of the hosts'
\* (Settings.validate_ttl_relationships asks for the one, RedisQuoteWriter counts the
\* TTL from the moment of the write and not from the quote's timestamp).
FreshIsCached ==
  Unreliable \/ TTL <= MaxAge + Skew \/ \A q \in rows :
    now <= q.ts + MaxAge =>
      \/ \E e \in cache : Sym(e.quote) = Sym(q) /\ e.quote.ts >= q.ts
      \/ \E p \in writer.pending : Sym(p) = Sym(q) /\ p.ts >= q.ts

\* Saving a batch goes from attempt to attempt, from PostgreSQL to Redis, and there from
\* command to command.
Onward(before, after) ==
  /\ after.batch = before.batch
  /\ \/ after.attempt > before.attempt
     \/ /\ after.attempt = before.attempt
        /\ \/ before.pc = "store" /\ after.pc = "cache"
           \/ /\ before.pc = "cache" /\ after.pc = "cache"
              /\ after.pending \subseteq before.pending /\ after.pending # before.pending

\* No failure takes the saving of a batch back: whatever the stores do, each step of the
\* consumer's task ends it or brings it on, and never to another batch.  With weak
\* fairness BatchesSettle rests on this, as there are at most Attempts attempts (TypeOK).
BatchesProgress ==
  [][writer.pc # "idle" /\ writer' # writer =>
       writer'.pc = "idle" \/ Onward(writer, writer')]_vars

\* The retries of _process_batch end: every batch is saved or given up, and the next can be taken.
BatchesSettle == writer.pc # "idle" ~> writer.pc = "idle"

\* Every request of convert_currency is answered, whatever the stores do and
\* however the keys come and go meanwhile.
RequestsAnswered == \A r \in Reader : reader[r].pc # "idle" ~> reader[r].pc = "idle"

\* QuoteRepository.get_latest: "Get the most recent quote for a given currency
\* pair".  With no batch being saved, what the look-up finds is the newest row.
GetLatestIsMostRecent ==
  [][\A r \in Reader :
       /\ writer.pc = "idle"
       /\ reader[r].kind = "latest"
       /\ reader[r].pc \in {"redis", "postgres"} /\ reader'[r].pc = "check"
       => reader'[r].found = Newest(RowsOf(SymbolOf[reader[r].pair]))]_vars

\* docs/api_reference.md: 404 is "returned if no quote is available for the
\* requested currency pair".  A pair Binance does not quote is never converted.
UnquotedPairIsNotFound ==
  [][\A r \in Reader :
       reader[r].status # "ok" /\ reader'[r].status = "ok"
         => reader[r].pair \in Tracked]_vars

-----------------------------------------------------------------------------
\* The promise of QuoteHistory is kept by CompositeQuoteWriter and
\* GetConversionQueryHandler with their retries, cache and crashes: its history is the
\* table, a reply what a successful request was answered with.
Promised == INSTANCE QuoteHistory WITH
  history <- rows,
  reply <- [r \in Reader |-> IF reader[r].pc = "idle" THEN reader[r].found ELSE {}]

KeepsPromise == Promised!Spec
=============================================================================
