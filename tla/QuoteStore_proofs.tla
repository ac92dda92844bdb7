-------------------------- MODULE QuoteStore_proofs --------------------------
(***************************************************************************)
(* Proofs about QuoteStore for every value of its constants.  All rest on  *)
(* one inductive invariant, IInv: besides the types and CacheIsCommitted   *)
(* it says how far the batch in the consumer's hands has got (Saving),     *)
(* that nothing in PostgreSQL is newer than that batch (Ordered), and that *)
(* a request holds at most one quote, of the symbol it asked for (Lookups).*)
(* InTime, the times of batches and keys, and Asked, those of requests,    *)
(* are added where they are needed.                                        *)
(***************************************************************************)
EXTENDS QuoteStore, TLAPS

\* Only a batch whose rows are committed has commands for Redis.
Saving ==
  /\ writer.pending \subseteq rows
  /\ writer.pc # "cache" => writer.pending = {}
  /\ writer.pc = "cache" => writer.batch \subseteq rows

\* The batches arrive in the order of their timestamps, so the one being saved
\* is newer than every row but its own.
Ordered ==
  /\ \A q \in rows : q.ts <= polled
  /\ \A q \in writer.batch : q.ts = polled
  /\ writer.pc = "store" => \A q \in rows : q.ts < polled \/ q \in writer.batch

\* A look-up finds one quote, a row of the symbol asked for.
Lookups ==
  \A r \in Reader :
    /\ reader[r].found = {} \/ \E q \in rows : reader[r].found = {q}
    /\ reader[r].pc = "check" =>
         \E q \in rows : Sym(q) = SymbolOf[reader[r].pair] /\ reader[r].found = {q}

IInv == TypeOK /\ CacheIsCommitted /\ Saving /\ Ordered /\ Lookups

USE DEF Quote, Entry, Kind, Status, Sym

-----------------------------------------------------------------------------
(* The operators.                                                          *)

\* The conflict clause of the INSERT never loses a quote: a row in conflict
\* with a quote of a batch is that quote (PostgresQuoteWriter.save_batch), so
\* saving a batch again after a lost acknowledgement changes nothing.
LEMMA InsertAddsBatch ==
  ASSUME rows \in SUBSET Quote, NEW batch \in SUBSET Quote
  PROVE  Insert(batch) = rows \cup batch
<1>1. ASSUME NEW r \in rows, NEW q \in batch, <<Sym(r), r.ts>> = <<Sym(q), q.ts>>
      PROVE  r = q
  <2>1. SymbolOf[r.pair] = SymbolOf[q.pair] /\ r.ts = q.ts
    BY <1>1
  <2>2. r.pair = q.pair
    BY <2>1, SymbolsAssumption
  <2> QED
    BY <2>1, <2>2
<1>2. Insert(batch) \subseteq rows \cup batch
  BY DEF Insert
<1>3. ASSUME NEW q \in batch, q \notin Insert(batch)
      PROVE  q \in rows
  BY <1>1, <1>3 DEF Insert
<1>4. rows \subseteq Insert(batch)
  BY DEF Insert
<1> QED
  BY <1>2, <1>3, <1>4

\* A SETEX leaves the other keys alone and adds the one quote it was given.
LEMMA SetexAddsOne ==
  ASSUME TypeOK, NEW q \in Quote
  PROVE  /\ Setex(q) \in SUBSET Entry
         /\ \A e \in Setex(q) : e \in cache \/ e.quote = q
<1>1. now + TTL \in Nat
  BY TimesAssumption DEF TypeOK
<1> QED
  BY <1>1 DEF TypeOK, Setex

\* What either query of PostgresQuoteRepository selects is a row of the symbol.
LEMMA SelectFindsRow ==
  ASSUME NEW r \in Reader
  PROVE  Select(r) \subseteq RowsOf(SymbolOf[reader[r].pair])
BY DEF Select, Newest, RowsBefore, RowsOf

\* The next batch is newer than all before it, as BatchFeed's deliveries are, and stamped
\* by a clock that is at most Skew ahead.
LEMMA TakesNewer ==
  ASSUME TypeOK, TakeBatch
  PROVE  \E ts \in (polled + 1)..(now + Skew), pairs \in SUBSET Tracked \ {{}} :
           /\ polled' = ts
           /\ writer' = [pc |-> "store",
                         batch |-> {[pair |-> p, ts |-> ts] : p \in pairs},
                         pending |-> {}, attempt |-> 1, saved |-> FALSE]
<1>1. PICK ts \in 1..(now + Skew), pairs \in SUBSET Tracked \ {{}} :
        /\ polled' = ts
        /\ Feed!Deliver
        /\ writer' = [pc |-> "store",
                      batch |-> {[pair |-> p, ts |-> ts] : p \in pairs},
                      pending |-> {}, attempt |-> 1, saved |-> FALSE]
  BY DEF TakeBatch
<1>2. polled' > polled
  BY <1>1 DEF Feed!Deliver
<1>3. ts \in (polled + 1)..(now + Skew)
  BY <1>1, <1>2, LimitsAssumption DEF TypeOK
<1> QED
  BY <1>1, <1>3

-----------------------------------------------------------------------------
(* Type correctness.                                                       *)

\* A request that has been answered has the type of a request.
LEMMA NoRequestType ==
  ASSUME NEW status \in Status, NEW found \in SUBSET Quote
  PROVE  NoRequest(status, found) \in Request
<1>1. (CHOOSE p \in Pair : TRUE) \in Pair
  BY PairsAssumption
<1> QED
  BY <1>1 DEF NoRequest, Request

\* The consumer's task between two batches has its type.
LEMMA RestingType == \A saved \in BOOLEAN : Resting(saved) \in Writer
BY LimitsAssumption DEF Resting, Writer

\* Empty stores, an idle consumer and idle requests have their types.
LEMMA InitTypeOK == Init => TypeOK
<1>1. NoRequest("none", {}) \in Request
  BY NoRequestType
<1>2. Resting(FALSE) \in Writer
  BY RestingType
<1> SUFFICES ASSUME Init
             PROVE  TypeOK
  OBVIOUS
<1>3. reader \in [Reader -> Request] /\ writer \in Writer
  BY <1>1, <1>2 DEF Init
<1>4. /\ now \in Nat /\ polled \in Nat
      /\ rows \in SUBSET Quote /\ cache \in SUBSET Entry /\ late \in SUBSET Quote
  BY DEF Init
<1> QED
  BY <1>3, <1>4 DEF TypeOK

\* Every step keeps the types.
LEMMA StepTypeOK == TypeOK /\ [Next]_vars => TypeOK'
<1> SUFFICES ASSUME TypeOK, [Next]_vars
             PROVE  TypeOK'
  OBVIOUS
<1>1. CASE Tick
  BY <1>1 DEF Tick, TypeOK
<1>2. CASE TakeBatch
  <2>1. PICK ts \in (polled + 1)..(now + Skew), pairs \in SUBSET Tracked \ {{}} :
          /\ polled' = ts
          /\ writer' = [pc |-> "store",
                        batch |-> {[pair |-> p, ts |-> ts] : p \in pairs},
                        pending |-> {}, attempt |-> 1, saved |-> FALSE]
    BY <1>2, TakesNewer
  <2>2. ts \in Nat
    BY LimitsAssumption DEF TypeOK
  <2>3. {[pair |-> p, ts |-> ts] : p \in pairs} \in SUBSET Quote
    BY <2>2
  <2>4. writer' \in Writer
    BY <2>1, <2>3, LimitsAssumption DEF Writer
  <2> QED
    BY <1>2, <2>1, <2>2, <2>4 DEF TakeBatch, TypeOK
<1>3. CASE CommitRows
  <2>1. writer.batch \in SUBSET Quote
    BY DEF TypeOK, Writer
  <2>2. rows' = rows \cup writer.batch
    BY <1>3, <2>1, InsertAddsBatch DEF CommitRows, TypeOK
  <2>3. writer' \in Writer
    BY <1>3 DEF CommitRows, TypeOK, Writer
  <2> QED
    BY <1>3, <2>1, <2>2, <2>3 DEF CommitRows, TypeOK
<1>4. CASE StoreFails
  <2>1. writer.batch \in SUBSET Quote
    BY DEF TypeOK, Writer
  <2>2. rows' \in {rows, rows \cup writer.batch}
    BY <1>4, <2>1, InsertAddsBatch DEF StoreFails, TypeOK
  <2>3. writer' \in Writer
    <3>1. CASE writer.attempt < Attempts
      <4>1. writer' = [writer EXCEPT !.attempt = @ + 1]
        BY <1>4, <3>1 DEF StoreFails
      <4>2. writer \in Writer /\ writer.attempt + 1 \in 0..Attempts
        BY <3>1, LimitsAssumption DEF TypeOK, Writer
      <4> QED
        BY <4>1, <4>2 DEF Writer
    <3>2. CASE ~(writer.attempt < Attempts)
      BY <1>4, <3>2, RestingType DEF StoreFails
    <3> QED
      BY <3>1, <3>2
  <2> QED
    BY <1>4, <2>1, <2>2, <2>3 DEF StoreFails, TypeOK
<1>5. CASE RunSetex
  <2>1. PICK q \in writer.pending :
          /\ cache' = Setex(q)
          /\ writer' = IF writer.pending = {q}
                       THEN Resting(TRUE)
                       ELSE [writer EXCEPT !.pending = @ \ {q}]
    BY <1>5 DEF RunSetex
  <2>2. q \in Quote
    BY DEF TypeOK, Writer
  <2>3. writer' \in Writer
    BY <2>1, RestingType DEF TypeOK, Writer
  <2>4. cache' \in SUBSET Entry
    BY <2>1, <2>2, SetexAddsOne
  <2> QED
    BY <1>5, <2>3, <2>4 DEF RunSetex, TypeOK
<1>6. CASE CacheFails
  BY <1>6, RestingType DEF CacheFails, TypeOK, Writer
<1>7. CASE Crash
  <2>1. writer.batch \in SUBSET Quote
    BY DEF TypeOK, Writer
  <2>2. rows' \in {rows, rows \cup writer.batch}
    BY <1>7, <2>1, InsertAddsBatch DEF Crash, TypeOK
  <2> QED
    BY <1>7, <2>1, <2>2, RestingType DEF Crash, TypeOK
<1>8. CASE LateSetex
  <2>1. PICK q \in late : late' = late \ {q} /\ cache' \in {cache, Setex(q)}
    BY <1>8 DEF LateSetex
  <2>2. q \in Quote
    BY DEF TypeOK
  <2>3. cache' \in SUBSET Entry
    BY <2>1, <2>2, SetexAddsOne DEF TypeOK
  <2> QED
    BY <1>8, <2>1, <2>3 DEF LateSetex, TypeOK
<1>9. CASE Evict
  BY <1>9 DEF Evict, TypeOK
<1>10. ASSUME NEW r \in Reader, Receive(r)
       PROVE  TypeOK'
  BY <1>10 DEF Receive, TypeOK, Request
<1>11. ASSUME NEW r \in Reader, Serve(r)
       PROVE  TypeOK'
  <2>0. reader[r] \in Request
    BY DEF TypeOK
  <2>1. CASE CacheHit(r)
    <3>1. PICK q \in Quote :
            reader' = [reader EXCEPT ![r].pc = "check", ![r].found = {q}]
      BY <2>1 DEF CacheHit, TypeOK
    <3>2. reader' \in [Reader -> Request]
      BY <2>0, <3>1 DEF TypeOK, Request
    <3> QED
      BY <2>1, <3>2 DEF CacheHit, TypeOK
  <2>2. CASE CacheMiss(r)
    BY <2>2, <2>0 DEF CacheMiss, TypeOK, Request
  <2>3. CASE ReadRow(r)
    <3>1. Select(r) \subseteq rows
      BY SelectFindsRow DEF RowsOf
    <3>2. PICK q \in Quote :
            reader' = [reader EXCEPT ![r].pc = "check", ![r].found = {q}]
      BY <2>3, <3>1 DEF ReadRow, TypeOK
    <3>3. reader' \in [Reader -> Request]
      BY <2>0, <3>2 DEF TypeOK, Request
    <3> QED
      BY <2>3, <3>3 DEF ReadRow, TypeOK
  <2>4. CASE NotFound(r)
    <3>1. NoRequest("not_found", {}) \in Request
      BY NoRequestType
    <3> QED
      BY <2>4, <3>1 DEF NotFound, TypeOK
  <2>5. CASE ReadFails(r)
    <3>1. NoRequest("error", {}) \in Request
      BY NoRequestType
    <3> QED
      BY <2>5, <3>1 DEF ReadFails, TypeOK
  <2>6. CASE Respond(r)
    <3>1. PICK q \in reader[r].found, v \in Status :
            reader' = [reader EXCEPT ![r] = NoRequest(v, IF v = "ok" THEN {q} ELSE {})]
      BY <2>6 DEF Respond, Verdict
    <3>2. reader'[r] \in Request
      BY <2>0, <3>1, NoRequestType DEF TypeOK, Request
    <3>3. reader' \in [Reader -> Request]
      BY <3>1, <3>2 DEF TypeOK
    <3> QED
      BY <2>6, <3>3 DEF Respond, TypeOK
  <2> QED
    BY <1>11, <2>1, <2>2, <2>3, <2>4, <2>5, <2>6 DEF Serve
<1>12. CASE UNCHANGED vars
  BY <1>12 DEF vars, TypeOK
<1> QED
  BY <1>1, <1>2, <1>3, <1>4, <1>5, <1>6, <1>7, <1>8, <1>9, <1>10, <1>11, <1>12
  DEF Next, Save

\* Every state of the consumer's task, of the two stores and of the requests is
\* one the code's own types allow.
THEOREM TypeCorrect == Spec => []TypeOK
BY InitTypeOK, StepTypeOK, PTL DEF Spec

-----------------------------------------------------------------------------
(* The invariant.                                                          *)

\* The invariant holds of empty stores.
LEMMA InitIInv == Init => IInv
BY InitTypeOK
DEF Init, IInv, CacheIsCommitted, Saving, Ordered, Lookups, Resting, NoRequest

\* Rows are only added: by a commit, one whole batch at a time.
LEMMA StepRows ==
  ASSUME TypeOK, [Next]_vars
  PROVE  \/ rows' = rows
         \/ writer.pc = "store" /\ rows' = rows \cup writer.batch
<1>1. writer.batch \in SUBSET Quote /\ rows \in SUBSET Quote
  BY DEF TypeOK, Writer
<1>2. Insert(writer.batch) = rows \cup writer.batch
  BY <1>1, InsertAddsBatch
<1> QED
  BY <1>2 DEF Next, Save, Serve, vars, Tick, TakeBatch, CommitRows, StoreFails, RunSetex,
     CacheFails, Crash, LateSetex, Evict, Receive, CacheHit, CacheMiss, ReadRow,
     NotFound, ReadFails, Respond

\* The commands for Redis stay those of a committed batch: only the commit creates
\* them (CompositeQuoteWriter.save_batch).
LEMMA StepSaving == IInv /\ [Next]_vars => Saving'
<1> SUFFICES ASSUME IInv, [Next]_vars
             PROVE  Saving'
  OBVIOUS
<1>1. rows \subseteq rows'
  BY StepRows DEF IInv
<1>2. writer.batch \in SUBSET Quote /\ rows \in SUBSET Quote
  BY DEF IInv, TypeOK, Writer
<1>3. CASE UNCHANGED writer
  BY <1>1, <1>3 DEF IInv, Saving
<1>4. CASE TakeBatch
  BY <1>4 DEF TakeBatch, Saving
<1>5. CASE CommitRows
  <2>1. rows' = rows \cup writer.batch
    BY <1>2, <1>5, InsertAddsBatch DEF CommitRows
  <2> QED
    BY <1>5, <2>1 DEF CommitRows, Saving, IInv, TypeOK, Writer
<1>6. CASE StoreFails
  BY <1>6 DEF StoreFails, Saving, Resting, IInv, TypeOK, Writer
<1>7. CASE RunSetex
  BY <1>7 DEF RunSetex, Saving, Resting, IInv, TypeOK, Writer
<1>8. CASE CacheFails \/ Crash
  BY <1>8 DEF CacheFails, Crash, Saving, Resting
<1> QED
  BY <1>3, <1>4, <1>5, <1>6, <1>7, <1>8
  DEF Next, Save, Serve, vars, Tick, LateSetex, Evict, Receive, CacheHit, CacheMiss,
      ReadRow, NotFound, ReadFails, Respond

\* Nothing but the batch in hand is ever as new as the batch in hand.
LEMMA StepOrdered == IInv /\ [Next]_vars => Ordered'
<1> SUFFICES ASSUME IInv, [Next]_vars
             PROVE  Ordered'
  OBVIOUS
<1>1. CASE TakeBatch
  <2>1. PICK ts \in (polled + 1)..(now + Skew), pairs \in SUBSET Tracked \ {{}} :
          /\ polled' = ts
          /\ writer' = [pc |-> "store",
                        batch |-> {[pair |-> p, ts |-> ts] : p \in pairs},
                        pending |-> {}, attempt |-> 1, saved |-> FALSE]
    BY <1>1, TakesNewer DEF IInv
  <2>5. rows' = rows
    BY <1>1 DEF TakeBatch
  <2>2. polled \in Nat /\ ts \in Nat /\ polled < ts
    BY <2>1, LimitsAssumption DEF IInv, TypeOK
  <2>3. \A q \in rows : q.ts < ts /\ q.ts <= ts
    BY <2>2 DEF IInv, TypeOK, Ordered
  <2>4. \A q \in writer'.batch : q.ts = ts
    BY <2>1
  <2> QED
    BY <2>1, <2>3, <2>4, <2>5 DEF Ordered
<1>2. CASE UNCHANGED <<polled, rows, writer>>
  BY <1>2 DEF IInv, Ordered
<1>3. CASE Save
  <2>1. polled' = polled
    BY <1>3 DEF Save, CommitRows, StoreFails, RunSetex, CacheFails, Crash
  <2>2. /\ writer'.batch \in {writer.batch, {}}
        /\ writer'.pc = "store" => writer.pc = "store" /\ writer'.batch = writer.batch
    <3>1. writer \in Writer
      BY DEF IInv, TypeOK
    <3>2. CASE CommitRows
      BY <3>1, <3>2 DEF CommitRows, Writer
    <3>3. CASE StoreFails
      BY <3>1, <3>3 DEF StoreFails, Resting, Writer
    <3>4. CASE RunSetex
      BY <3>1, <3>4 DEF RunSetex, Resting, Writer
    <3>5. CASE CacheFails \/ Crash
      BY <3>5 DEF CacheFails, Crash, Resting
    <3> QED
      BY <1>3, <3>2, <3>3, <3>4, <3>5 DEF Save
  <2>3. \A q \in rows' : q.ts <= polled
    BY StepRows DEF IInv, TypeOK, Writer, Ordered
  <2>4. writer'.pc = "store" => \A q \in rows' : q.ts < polled \/ q \in writer.batch
    BY <2>2, StepRows DEF IInv, Ordered
  <2> QED
    BY <2>1, <2>2, <2>3, <2>4 DEF IInv, Ordered
<1> QED
  BY <1>1, <1>2, <1>3
  DEF Next, Serve, vars, Tick, LateSetex, Evict, Receive, CacheHit, CacheMiss,
      ReadRow, NotFound, ReadFails, Respond

\* Whatever writes to Redis, now or late, writes a quote that has its row.
LEMMA StepCacheIsCommitted == IInv /\ [Next]_vars => CacheIsCommitted'
<1> SUFFICES ASSUME IInv, [Next]_vars
             PROVE  CacheIsCommitted'
  OBVIOUS
<1>1. rows \subseteq rows'
  BY StepRows DEF IInv
<1>2. \A e \in cache' : e.quote \in rows'
  <2>1. CASE cache' \subseteq cache
    BY <1>1, <2>1 DEF IInv, CacheIsCommitted
  <2>2. CASE RunSetex \/ LateSetex
    <3>1. PICK q \in writer.pending \cup late : cache' \in {cache, Setex(q)}
      BY <2>2 DEF RunSetex, LateSetex
    <3>2. q \in Quote /\ q \in rows
      BY <3>1 DEF IInv, TypeOK, Writer, Saving, CacheIsCommitted
    <3>3. \A e \in Setex(q) : e \in cache \/ e.quote = q
      BY <3>2, SetexAddsOne DEF IInv
    <3> QED
      BY <1>1, <3>1, <3>2, <3>3 DEF IInv, CacheIsCommitted
  <2> QED
    BY <2>1, <2>2
    DEF Next, Save, Serve, vars, Tick, TakeBatch, CommitRows, StoreFails, CacheFails,
        Crash, Evict, Receive, CacheHit, CacheMiss, ReadRow, NotFound, ReadFails, Respond
<1>3. late' \subseteq rows'
  <2>1. late' \subseteq late \cup writer.pending
    BY DEF Next, Save, Serve, vars, Tick, TakeBatch, CommitRows, StoreFails, RunSetex,
       CacheFails, Crash, LateSetex, Evict, Receive, CacheHit, CacheMiss, ReadRow,
       NotFound, ReadFails, Respond
  <2> QED
    BY <1>1, <2>1 DEF IInv, CacheIsCommitted, Saving
<1>4. ASSUME NEW r \in Reader
      PROVE  reader'[r].found \subseteq rows'
  <2>1. CASE reader' = reader
    BY <1>1, <2>1 DEF IInv, CacheIsCommitted
  <2>2. ASSUME NEW s \in Reader, Receive(s) \/ Serve(s)
        PROVE  reader'[r].found \subseteq rows
    <3>1. reader \in [Reader -> Request] /\ reader[s].found \subseteq rows
      BY DEF IInv, TypeOK, CacheIsCommitted
    <3>2. Select(s) \subseteq rows
      BY SelectFindsRow DEF RowsOf
    <3>3. r = s => reader'[r].found \subseteq rows
      BY <2>2, <3>1, <3>2
      DEF Receive, Serve, CacheHit, CacheMiss, ReadRow, NotFound, ReadFails, Respond,
          NoRequest, Request, IInv, CacheIsCommitted
    <3>4. r # s => reader'[r] = reader[r]
      BY <2>2, <3>1
      DEF Receive, Serve, CacheHit, CacheMiss, ReadRow, NotFound, ReadFails, Respond
    <3> QED
      BY <3>3, <3>4 DEF IInv, CacheIsCommitted
  <2> QED
    BY <1>1, <2>1, <2>2
    DEF Next, Save, vars, Tick, TakeBatch, CommitRows, StoreFails, RunSetex, CacheFails,
        Crash, LateSetex, Evict
<1> QED
  BY <1>2, <1>3, <1>4 DEF CacheIsCommitted

\* One request's step leaves the others alone.
LEMMA StepOthers ==
  ASSUME TypeOK, NEW r \in Reader, NEW s \in Reader, Receive(s) \/ Serve(s), r # s
  PROVE  reader'[r] = reader[r]
BY DEF Receive, Serve, CacheHit, CacheMiss, ReadRow, NotFound, ReadFails, Respond, TypeOK

\* What a request finds, in either store, is one row of its symbol.
LEMMA StepLookups == IInv /\ [Next]_vars => Lookups'
<1> SUFFICES ASSUME IInv, [Next]_vars, NEW r \in Reader
             PROVE  /\ reader'[r].found = {} \/ \E q \in rows' : reader'[r].found = {q}
                    /\ reader'[r].pc = "check" =>
                         \E q \in rows' : /\ Sym(q) = SymbolOf[reader'[r].pair]
                                          /\ reader'[r].found = {q}
  BY DEF Lookups
<1>1. rows \subseteq rows'
  BY StepRows DEF IInv
<1>3. CASE reader'[r] = reader[r]
  BY <1>1, <1>3 DEF IInv, Lookups
<1>4. CASE Receive(r)
  BY <1>4 DEF Receive, IInv, TypeOK
<1>5. CASE Serve(r)
  <2>0. reader \in [Reader -> Request] /\ reader[r] \in Request
    BY DEF IInv, TypeOK
  <2>1. CASE CacheHit(r)
    <3>1. PICK e \in cache :
            /\ Sym(e.quote) = SymbolOf[reader[r].pair]
            /\ reader' = [reader EXCEPT ![r].pc = "check", ![r].found = {e.quote}]
      BY <2>1 DEF CacheHit
    <3>2. reader'[r].found = {e.quote} /\ reader'[r].pair = reader[r].pair
      BY <2>0, <3>1 DEF Request
    <3>3. e.quote \in rows'
      BY <1>1, <3>1 DEF IInv, CacheIsCommitted
    <3> QED
      BY <3>1, <3>2, <3>3
  <2>2. CASE CacheMiss(r)
    BY <1>1, <2>0, <2>2 DEF CacheMiss, IInv, Lookups, Request
  <2>3. CASE ReadRow(r)
    <3>1. PICK q \in Select(r) :
            reader' = [reader EXCEPT ![r].pc = "check", ![r].found = {q}]
      BY <2>3 DEF ReadRow
    <3>2. reader'[r].found = {q} /\ reader'[r].pair = reader[r].pair
      BY <2>0, <3>1 DEF Request
    <3>3. q \in rows' /\ Sym(q) = SymbolOf[reader[r].pair]
      BY <1>1, <3>1, SelectFindsRow DEF RowsOf
    <3> QED
      BY <3>2, <3>3
  <2>4. CASE NotFound(r) \/ ReadFails(r)
    BY <2>0, <2>4 DEF NotFound, ReadFails, NoRequest
  <2>5. CASE Respond(r)
    <3>1. PICK q \in reader[r].found, v \in Status :
            reader' = [reader EXCEPT ![r] = NoRequest(v, IF v = "ok" THEN {q} ELSE {})]
      BY <2>5 DEF Respond, Verdict
    <3>2. q \in rows'
      BY <1>1, <3>1 DEF IInv, CacheIsCommitted
    <3>3. reader'[r] = NoRequest(v, IF v = "ok" THEN {q} ELSE {})
      BY <2>0, <3>1
    <3> QED
      BY <3>2, <3>3 DEF NoRequest
  <2> QED
    BY <1>5, <2>1, <2>2, <2>3, <2>4, <2>5 DEF Serve
<1>6. reader' = reader \/ \E s \in Reader : Receive(s) \/ Serve(s)
  BY DEF Next, Save, vars, Tick, TakeBatch, CommitRows, StoreFails, RunSetex, CacheFails,
     Crash, LateSetex, Evict
<1> QED
  BY <1>3, <1>4, <1>5, <1>6, StepOthers DEF IInv

\* Every step keeps the invariant.
LEMMA StepIInv == IInv /\ [Next]_vars => IInv'
BY StepTypeOK, StepSaving, StepOrdered, StepCacheIsCommitted, StepLookups DEF IInv

\* The invariant holds in every reachable state.
LEMMA InvariantHolds == Spec => []IInv
BY InitIInv, StepIInv, PTL DEF Spec

\* For any set of pairs, any TTL, any clock skew and any number of attempts, in
\* any order of failures and crashes: what Redis holds, what a timed-out SETEX
\* may still write and what a request found is committed in PostgreSQL.
THEOREM CacheCommitted == Spec => []CacheIsCommitted
BY InvariantHolds, PTL DEF IInv

-----------------------------------------------------------------------------
(* The action properties.                                                  *)

\* A batch reported as processed is in PostgreSQL, however its writes to Redis
\* ended.
THEOREM ProcessedStored == Spec => ProcessedIsStored
<1>1. IInv /\ [Next]_vars =>
        [writer'.saved /\ ~writer.saved => writer.batch \subseteq rows']_vars
  <2> SUFFICES ASSUME IInv, [Next]_vars, writer'.saved, ~writer.saved
               PROVE  writer.batch \subseteq rows'
    OBVIOUS
  <2>1. writer \in Writer
    BY DEF IInv, TypeOK
  <2>2. CASE RunSetex \/ CacheFails
    BY <2>2 DEF RunSetex, CacheFails, IInv, Saving
  <2>3. ~TakeBatch /\ ~Crash
    <3>1. TakeBatch => ~writer'.saved
      BY DEF TakeBatch
    <3>2. Crash => ~writer'.saved
      BY DEF Crash, Resting
    <3> QED
      BY <3>1, <3>2
  <2>4. ~CommitRows /\ ~StoreFails
    <3>1. CommitRows => writer'.saved = writer.saved
      BY <2>1 DEF CommitRows, Writer
    <3>2. StoreFails => writer'.saved = writer.saved \/ writer'.saved = FALSE
      BY <2>1 DEF StoreFails, Resting, Writer
    <3> QED
      BY <3>1, <3>2
  <2> QED
    BY <2>2, <2>3, <2>4
    DEF Next, Save, Serve, vars, Tick, LateSetex, Evict, Receive, CacheHit, CacheMiss,
        ReadRow, NotFound, ReadFails, Respond
<1> QED
  BY <1>1, InvariantHolds, PTL DEF Spec, ProcessedIsStored

\* What get_latest_before answers for a time older than some row never changes:
\* every batch saved from then on, a retried one included, is newer.
THEOREM HistorySettled == Spec => HistoryIsSettled
<1>1. IInv /\ [Next]_vars =>
        [\A s \in Symbol, t \in 0..(MaxTime + Skew) :
           (\E q \in RowsOf(s) : q.ts > t)
             => Newest(RowsBefore(s, t))' = Newest(RowsBefore(s, t))]_vars
  <2> SUFFICES ASSUME IInv, [Next]_vars, NEW s \in Symbol, NEW t \in 0..(MaxTime + Skew),
                      NEW q \in RowsOf(s), q.ts > t
               PROVE  Newest(RowsBefore(s, t))' = Newest(RowsBefore(s, t))
    OBVIOUS
  <2>1. q \in rows /\ q.ts \in Nat /\ q.ts <= polled /\ polled \in Nat
    BY DEF RowsOf, IInv, TypeOK, Ordered
  <2>2. t \in Nat /\ t < polled
    BY <2>1, LimitsAssumption
  <2>3. \A p \in writer.batch : ~(p.ts <= t)
    BY <2>1, <2>2 DEF IInv, Ordered
  <2>4. rows' = rows \/ rows' = rows \cup writer.batch
    BY StepRows DEF IInv
  <2>5. RowsBefore(s, t)' = RowsBefore(s, t)
    BY <2>3, <2>4 DEF RowsBefore, RowsOf
  <2> QED
    BY <2>5 DEF Newest
<1> QED
  BY <1>1, InvariantHolds, PTL DEF Spec, HistoryIsSettled

\* A successful answer is a committed row of the symbol asked for, and no older
\* than MaxAge at the time asked for, whatever happened to its key meanwhile.
THEOREM FreshAnswers == Spec => AnswersAreFresh
<1> DEFINE Fresh ==
      \A r \in Reader :
        reader[r].status # "ok" /\ reader'[r].status = "ok" =>
          \E q \in RowsOf(SymbolOf[reader[r].pair]) :
            /\ reader[r].found = {q}
            /\ LET ref == IF reader[r].kind = "latest" THEN now ELSE reader[r].at
               IN q.ts <= ref /\ ref <= q.ts + MaxAge
<1>1. IInv /\ [Next]_vars => [Fresh]_vars
  <2> SUFFICES ASSUME IInv, [Next]_vars, NEW r \in Reader,
                      reader[r].status # "ok", reader'[r].status = "ok"
               PROVE  \E q \in RowsOf(SymbolOf[reader[r].pair]) :
                        /\ reader[r].found = {q}
                        /\ LET ref == IF reader[r].kind = "latest" THEN now
                                      ELSE reader[r].at
                           IN q.ts <= ref /\ ref <= q.ts + MaxAge
    OBVIOUS
  <2> DEFINE ref == IF reader[r].kind = "latest" THEN now ELSE reader[r].at
  <2>1. reader \in [Reader -> Request] /\ reader[r] \in Request
    BY DEF IInv, TypeOK
  <2>2. ref \in Nat
    BY <2>1 DEF IInv, TypeOK, Request
  <2>3. Receive(r) \/ Serve(r)
    <3>1. reader' = reader \/ \E s \in Reader : Receive(s) \/ Serve(s)
      BY DEF Next, Save, vars, Tick, TakeBatch, CommitRows, StoreFails, RunSetex,
         CacheFails, Crash, LateSetex, Evict
    <3> QED
      BY <3>1, StepOthers DEF IInv
  <2>4. Respond(r)
    BY <2>1, <2>3
    DEF Receive, Serve, CacheHit, CacheMiss, ReadRow, NotFound, ReadFails, NoRequest,
        Request
  <2>5. PICK q \in reader[r].found :
          reader' = [reader EXCEPT ![r] =
            NoRequest(Verdict(q, ref), IF Verdict(q, ref) = "ok" THEN {q} ELSE {})]
    BY <2>4 DEF Respond
  <2>6. Verdict(q, ref) = "ok"
    BY <2>1, <2>5 DEF NoRequest
  <2>7. q \in RowsOf(SymbolOf[reader[r].pair]) /\ reader[r].found = {q}
    BY <2>4, <2>5 DEF Respond, IInv, Lookups, RowsOf
  <2>8. q.ts \in Nat
    BY <2>7 DEF RowsOf, IInv, TypeOK
  <2>9. q.ts <= ref /\ ref <= q.ts + MaxAge
    BY <2>2, <2>6, <2>8, TimesAssumption DEF Verdict
  <2> QED
    BY <2>7, <2>9
<1> QED
  BY <1>1, InvariantHolds, PTL DEF Spec, AnswersAreFresh

-----------------------------------------------------------------------------
(* The refinement of QuoteHistory.                                         *)

\* Empty stores have published nothing and no request is answered.
LEMMA InitPromise == Init => Promised!Init
BY DEF Init, Promised!Init, NoRequest

\* A commit publishes a batch, an answer is a reply, all other steps stutter.
LEMMA StepPromise == IInv /\ [Next]_vars => [Promised!Next]_(Promised!vars)
<1> SUFFICES ASSUME IInv, [Next]_vars
             PROVE  Promised!Next \/ UNCHANGED Promised!vars
  OBVIOUS
<1> DEFINE shown(r) == IF reader[r].pc = "idle" THEN reader[r].found ELSE {}
<1>1. CASE UNCHANGED <<rows, reader>>
  BY <1>1 DEF Promised!vars
<1>2. CASE UNCHANGED reader /\ writer.pc = "store" /\ rows' = rows \cup writer.batch
  <2>1. \A p \in rows : p.ts < polled \/ p.ts = polled
    BY DEF IInv, TypeOK, Ordered
  <2>2. \A q \in rows' \ rows : q \in Quote /\ q.ts = polled
    BY <1>2 DEF IInv, TypeOK, Writer, Ordered
  <2>3. \A p \in rows' : p.ts = polled \/ (p \in rows /\ p.ts < polled)
    BY <2>1, <2>2
  <2> QED
    BY <1>2, <2>2, <2>3 DEF Promised!Next, Promised!Publish
<1>3. ASSUME NEW r \in Reader, Receive(r) \/ Serve(r), UNCHANGED rows
      PROVE  Promised!Next
  <2>1. \A s \in Reader : s # r => reader'[s] = reader[s]
    BY <1>3, StepOthers DEF IInv
  <2>2. shown(r)' \in {{}} \cup {{q} : q \in rows}
    <3>1. Lookups'
      BY StepLookups
    <3> QED
      BY <1>3, <3>1 DEF Lookups
  <2>3. [s \in Reader |-> shown(s)'] = [[s \in Reader |-> shown(s)] EXCEPT ![r] = shown(r)']
    BY <2>1
  <2> QED
    BY <1>3, <2>2, <2>3 DEF Promised!Next, Promised!Reply
<1>4. \/ UNCHANGED <<rows, reader>>
      \/ UNCHANGED reader /\ writer.pc = "store" /\ rows' = rows \cup writer.batch
      \/ \E r \in Reader : (Receive(r) \/ Serve(r)) /\ UNCHANGED rows
  BY StepRows
  DEF IInv, Next, Save, Serve, vars, Tick, TakeBatch, CommitRows, StoreFails, RunSetex,
      CacheFails, Crash, LateSetex, Evict, Receive, CacheHit, CacheMiss, ReadRow,
      NotFound, ReadFails, Respond
<1> QED
  BY <1>1, <1>2, <1>3, <1>4

\* The two stores, their retries, failures and crashes implement one history of
\* quotes published in order, of which every answer shows a quote.
THEOREM PromiseKept == Spec => KeepsPromise
BY InitPromise, StepPromise, InvariantHolds, PTL DEF Spec, KeepsPromise, Promised!Spec

-----------------------------------------------------------------------------
(* The cache, while nothing is lost.                                       *)

\* Nothing is stamped later than Binance's clock can be, the commands still to come
\* belong to the newest batch, and a key outlives its quote's age by the difference.
InTime ==
  /\ polled <= now + Skew
  /\ \A q \in writer.pending : q.ts = polled
  /\ \A e \in cache : e.quote.ts + TTL <= e.expires + Skew
  /\ Unreliable \/ late = {}

CInv == IInv /\ InTime /\ CacheLagsOneBatch /\ FreshIsCached

\* The steps of requests change nothing that the invariant speaks of.
LEMMA StepOfRequest ==
  ASSUME NEW r \in Reader, Receive(r) \/ Serve(r)
  PROVE  UNCHANGED <<now, polled, rows, cache, late, writer>>
BY DEF Receive, Serve, CacheHit, CacheMiss, ReadRow, NotFound, ReadFails, Respond

\* The newest row of a symbol that has a row of the newest batch is of that batch.
LEMMA NewestIsPolled ==
  ASSUME IInv, NEW q \in rows, q.ts = polled
  PROVE  NewestTs(Sym(q)) = polled
<1>1. rows \in SUBSET Quote /\ polled \in Nat /\ \A p \in rows : p.ts \in Nat /\ p.ts <= polled
  BY DEF IInv, TypeOK, Ordered
<1>2. q \in Newest(RowsOf(Sym(q)))
  BY <1>1 DEF Newest, RowsOf
<1>3. \A p \in Newest(RowsOf(Sym(q))) : p.ts = polled
  <2> SUFFICES ASSUME NEW p \in Newest(RowsOf(Sym(q))) PROVE p.ts = polled
    OBVIOUS
  <2>1. p \in rows /\ q.ts <= p.ts
    BY DEF Newest, RowsOf
  <2> QED
    BY <1>1, <2>1
<1>4. (CHOOSE p \in Newest(RowsOf(Sym(q))) : TRUE) \in Newest(RowsOf(Sym(q)))
  BY <1>2
<1>5. RowsOf(Sym(q)) # {}
  BY DEF RowsOf
<1> QED
  BY <1>3, <1>4, <1>5 DEF NewestTs

\* What a SETEX leaves of the invariant: its key holds the newest row for long enough.
LEMMA SetexInTime ==
  ASSUME IInv, InTime, NEW q \in rows
  PROVE  \A e \in Setex(q) : e.quote.ts + TTL <= e.expires + Skew
<1>1. q.ts \in Nat /\ q.ts <= polled /\ polled <= now + Skew
  BY DEF IInv, TypeOK, Ordered, InTime
<1>2. now \in Nat /\ Skew \in Nat /\ TTL \in Nat /\ polled \in Nat
  BY TimesAssumption, LimitsAssumption DEF IInv, TypeOK
<1>3. q.ts + TTL <= (now + TTL) + Skew
  BY <1>1, <1>2
<1> QED
  BY <1>3 DEF Setex, InTime

\* Every step keeps the times.
LEMMA StepInTime == IInv /\ InTime /\ [Next]_vars => InTime'
<1> SUFFICES ASSUME IInv, InTime, [Next]_vars PROVE InTime'
  OBVIOUS
<1>1. /\ now \in Nat /\ polled \in Nat /\ Skew \in Nat /\ writer \in Writer
      /\ rows \in SUBSET Quote
  BY LimitsAssumption DEF IInv, TypeOK
<1>2. CASE Tick
  BY <1>1, <1>2 DEF Tick, InTime
<1>3. CASE TakeBatch
  <2>1. polled' <= now + Skew /\ writer'.pending = {}
    BY <1>1, <1>3, TakesNewer DEF IInv
  <2> QED
    BY <1>3, <2>1 DEF TakeBatch, InTime
<1>4. CASE CommitRows
  BY <1>1, <1>4 DEF CommitRows, InTime, IInv, Ordered, Writer
<1>5. CASE StoreFails
  BY <1>1, <1>5 DEF StoreFails, InTime, Resting, Writer
<1>6. CASE RunSetex
  <2>1. PICK q \in writer.pending : cache' = Setex(q)
    BY <1>6 DEF RunSetex
  <2>2. \A e \in cache' : e.quote.ts + TTL <= e.expires + Skew
    BY <2>1, SetexInTime DEF IInv, Saving
  <2>3. writer'.pending \subseteq writer.pending
    BY <1>1, <1>6 DEF RunSetex, Resting, Writer
  <2> QED
    BY <1>6, <2>2, <2>3 DEF RunSetex, InTime
<1>7. CASE CacheFails \/ Crash
  BY <1>7 DEF CacheFails, Crash, InTime, Resting
<1>8. CASE LateSetex
  <2>1. PICK q \in late : late' = late \ {q} /\ cache' \in {cache, Setex(q)}
    BY <1>8 DEF LateSetex
  <2>2. \A e \in cache' : e.quote.ts + TTL <= e.expires + Skew
    BY <2>1, SetexInTime DEF IInv, CacheIsCommitted, InTime
  <2> QED
    BY <1>8, <2>1, <2>2 DEF LateSetex, InTime
<1>9. CASE Evict
  BY <1>9 DEF Evict, InTime
<1>10. CASE UNCHANGED <<now, polled, rows, cache, late, writer>>
  BY <1>10 DEF InTime
<1> QED
  BY <1>2, <1>3, <1>4, <1>5, <1>6, <1>7, <1>8, <1>9, <1>10, StepOfRequest DEF Next, Save, vars

\* While nothing is lost, only a commit changes the rows, and then all of its batch is
\* still to be cached.
LEMMA StepReliable ==
  ASSUME IInv, [Next]_vars, ~Unreliable
  PROVE  \/ UNCHANGED rows
         \/ CommitRows /\ rows' = rows \cup writer.batch /\ writer'.pending = writer.batch
<1>1. writer \in Writer /\ rows \in SUBSET Quote /\ writer.batch \in SUBSET Quote
  BY DEF IInv, TypeOK, Writer
<1>2. CASE CommitRows
  BY <1>1, <1>2, InsertAddsBatch DEF CommitRows, Writer
<1>3. CASE ~CommitRows
  BY <1>3 DEF Next, Save, Serve, vars, Tick, TakeBatch, StoreFails, RunSetex, CacheFails, Crash,
              LateSetex, Evict, Receive, CacheHit, CacheMiss, ReadRow, NotFound, ReadFails,
              Respond
<1> QED
  BY <1>2, <1>3

\* A live key lags behind by no more than the batch in hand.
LEMMA StepLags == CInv /\ [Next]_vars => CacheLagsOneBatch'
<1> SUFFICES ASSUME CInv, [Next]_vars, ~Unreliable, NEW e \in cache'
             PROVE  \/ e.quote.ts = NewestTs(Sym(e.quote))'
                    \/ \E q \in writer'.pending : Sym(q) = Sym(e.quote)
  BY DEF CacheLagsOneBatch
<1>1. IInv /\ InTime /\ writer \in Writer
  BY DEF CInv, IInv, TypeOK
<1>2. ASSUME NEW x \in cache
      PROVE  \/ x.quote.ts = NewestTs(Sym(x.quote))
             \/ \E q \in writer.pending : Sym(q) = Sym(x.quote)
  BY DEF CInv, CacheLagsOneBatch
<1>3. CASE UNCHANGED rows /\ cache' \subseteq cache /\ writer.pending \subseteq writer'.pending
  <2>1. NewestTs(Sym(e.quote))' = NewestTs(Sym(e.quote))
    BY <1>3 DEF NewestTs, Newest, RowsOf
  <2> QED
    BY <1>2, <1>3, <2>1
<1>4. CASE CommitRows
  <2>1. rows' = rows \cup writer.batch /\ writer'.pending = writer.batch /\ cache' = cache
    BY <1>1, <1>4, InsertAddsBatch DEF CommitRows, Writer, IInv, TypeOK
  <2>2. CASE \E q \in writer.batch : Sym(q) = Sym(e.quote)
    BY <2>1, <2>2
  <2>3. CASE ~\E q \in writer.batch : Sym(q) = Sym(e.quote)
    <3>1. RowsOf(Sym(e.quote))' = RowsOf(Sym(e.quote))
      BY <2>1, <2>3 DEF RowsOf
    <3>2. NewestTs(Sym(e.quote))' = NewestTs(Sym(e.quote))
      BY <3>1 DEF NewestTs, Newest
    <3>3. writer.pending = {}
      BY <1>1, <1>4 DEF IInv, Saving, CommitRows
    <3> QED
      BY <1>2, <2>1, <3>2, <3>3
  <2> QED
    BY <2>2, <2>3
<1>5. CASE RunSetex
  <2>1. PICK q \in writer.pending :
          /\ cache' = Setex(q)
          /\ writer' = IF writer.pending = {q}
                       THEN Resting(TRUE)
                       ELSE [writer EXCEPT !.pending = @ \ {q}]
    BY <1>5 DEF RunSetex
  <2>2. q \in rows /\ q.ts = polled /\ UNCHANGED rows
    BY <1>1, <1>5 DEF IInv, Saving, InTime, RunSetex
  <2>3. NewestTs(Sym(e.quote))' = NewestTs(Sym(e.quote))
    BY <2>2 DEF NewestTs, Newest, RowsOf
  <2>4. CASE e.quote = q
    BY <1>1, <2>2, <2>3, <2>4, NewestIsPolled
  <2>5. CASE e.quote # q
    <3>1. e \in cache /\ Sym(e.quote) # Sym(q)
      BY <2>1, <2>5 DEF Setex
    <3>2. CASE \E p \in writer.pending : Sym(p) = Sym(e.quote)
      <4>1. PICK p \in writer.pending : Sym(p) = Sym(e.quote)
        BY <3>2
      <4>2. p # q
        BY <3>1, <4>1
      <4>3. writer'.pending = writer.pending \ {q}
        BY <1>1, <2>1, <4>2 DEF Writer
      <4> QED
        BY <4>1, <4>2, <4>3
    <3> QED
      BY <1>2, <2>3, <3>1, <3>2
  <2> QED
    BY <2>4, <2>5
<1>6. CASE StoreFails
  <2>1. writer.pending = {} /\ cache' = cache /\ UNCHANGED rows
    BY <1>1, <1>6, StepReliable DEF StoreFails, IInv, Saving, CommitRows
  <2> QED
    BY <1>3, <2>1
<1>7. CASE TakeBatch
  <2>1. writer.pending = {}
    BY <1>1, <1>7 DEF IInv, Saving, TakeBatch
  <2> QED
    BY <1>3, <1>7, <2>1 DEF TakeBatch
<1>8. ~CacheFails /\ ~Crash /\ ~Evict /\ ~LateSetex
  BY <1>1 DEF CacheFails, Crash, Evict, LateSetex, InTime
<1>9. CASE Tick
  BY <1>3, <1>9 DEF Tick
<1>10. CASE UNCHANGED <<now, polled, rows, cache, late, writer>>
  BY <1>3, <1>10
<1> QED
  BY <1>4, <1>5, <1>6, <1>7, <1>8, <1>9, <1>10, StepOfRequest DEF Next, Save, vars

\* What may still be used is in Redis or on its way to it.
LEMMA StepFresh == CInv /\ [Next]_vars => FreshIsCached'
<1> SUFFICES ASSUME CInv, [Next]_vars, ~Unreliable, TTL > MaxAge + Skew,
                    NEW q \in rows', now' <= q.ts + MaxAge
             PROVE  \/ \E e \in cache' : Sym(e.quote) = Sym(q) /\ e.quote.ts >= q.ts
                    \/ \E p \in writer'.pending : Sym(p) = Sym(q) /\ p.ts >= q.ts
  BY TimesAssumption, LimitsAssumption DEF FreshIsCached
<1>1. IInv /\ InTime /\ writer \in Writer /\ now \in Nat /\ polled \in Nat
  BY DEF CInv, IInv, TypeOK
<1>2. CASE CommitRows /\ q \notin rows
  <2>1. q \in writer'.pending /\ q.ts \in Nat
    BY <1>1, <1>2, StepReliable DEF IInv, TypeOK, Writer
  <2> QED
    BY <2>1
<1>3. CASE q \in rows
  <2>1. q.ts \in Nat /\ q.ts <= polled
    BY <1>1, <1>3 DEF IInv, TypeOK, Ordered
  <2>2. now' = now \/ Tick
    BY <1>1 DEF Next, Save, Serve, vars, TakeBatch, CommitRows, StoreFails, RunSetex, CacheFails,
           Crash, LateSetex, Evict, Receive, CacheHit, CacheMiss, ReadRow, NotFound, ReadFails,
           Respond
  <2>3. now <= q.ts + MaxAge
    BY <1>1, <2>1, <2>2, TimesAssumption DEF Tick
  <2>4. \/ \E e \in cache : Sym(e.quote) = Sym(q) /\ e.quote.ts >= q.ts
        \/ \E p \in writer.pending : Sym(p) = Sym(q) /\ p.ts >= q.ts
    BY <1>3, <2>3, TimesAssumption, LimitsAssumption DEF CInv, FreshIsCached
  <2>5. CASE cache' = cache /\ writer.pending \subseteq writer'.pending
    BY <2>4, <2>5
  <2>6. CASE Tick
    <3>1. CASE \E e \in cache : Sym(e.quote) = Sym(q) /\ e.quote.ts >= q.ts
      <4>1. PICK e \in cache : Sym(e.quote) = Sym(q) /\ e.quote.ts >= q.ts
        BY <3>1
      <4>2. e.quote.ts \in Nat /\ e.expires \in Nat /\ e.quote.ts + TTL <= e.expires + Skew
        BY <1>1 DEF IInv, TypeOK, InTime
      <4>3. now + 1 <= q.ts + MaxAge
        BY <2>6 DEF Tick
      <4>4. e.expires > now + 1
        BY <1>1, <2>1, <4>1, <4>2, <4>3, TimesAssumption, LimitsAssumption
      <4>5. e \in cache'
        BY <2>6, <4>4 DEF Tick
      <4> QED
        BY <4>1, <4>5
    <3> QED
      BY <2>4, <2>6, <3>1 DEF Tick
  <2>7. CASE RunSetex
    <3>1. PICK p \in writer.pending :
            /\ cache' = Setex(p)
            /\ writer' = IF writer.pending = {p}
                         THEN Resting(TRUE)
                         ELSE [writer EXCEPT !.pending = @ \ {p}]
      BY <2>7 DEF RunSetex
    <3>2. p.ts = polled
      BY <1>1 DEF InTime
    <3>3. CASE Sym(p) = Sym(q)
      <4>1. [quote |-> p, expires |-> now + TTL] \in cache'
        BY <3>1 DEF Setex
      <4> QED
        BY <1>1, <2>1, <3>2, <3>3, <4>1
    <3>4. CASE Sym(p) # Sym(q)
      <4>1. \A e \in cache : Sym(e.quote) = Sym(q) => e \in cache'
        BY <3>1, <3>4 DEF Setex
      <4>2. ASSUME NEW o \in writer.pending, Sym(o) = Sym(q) PROVE o \in writer'.pending
        <5>1. o # p
          BY <3>4, <4>2
        <5> QED
          BY <1>1, <3>1, <5>1 DEF Writer
      <4> QED
        BY <2>4, <4>1, <4>2
    <3> QED
      BY <3>3, <3>4
  <2>8. CASE CommitRows \/ StoreFails \/ TakeBatch
    <3>1. writer.pending = {} /\ cache' = cache
      BY <1>1, <2>8 DEF IInv, Saving, CommitRows, StoreFails, TakeBatch
    <3> QED
      BY <2>5, <3>1
  <2>9. ~CacheFails /\ ~Crash /\ ~Evict /\ ~LateSetex
    BY <1>1 DEF CacheFails, Crash, Evict, LateSetex, InTime
  <2>10. CASE UNCHANGED <<now, polled, rows, cache, late, writer>>
    BY <2>5, <2>10
  <2> QED
    BY <2>6, <2>7, <2>8, <2>9, <2>10, StepOfRequest DEF Next, Save, vars
<1> QED
  BY <1>1, <1>2, <1>3, StepReliable

\* Empty stores cache all there is.
LEMMA InitCInv == Init => CInv
<1> SUFFICES ASSUME Init PROVE CInv
  OBVIOUS
<1>1. IInv
  BY InitIInv
<1>2. InTime
  BY LimitsAssumption DEF Init, InTime, Resting
<1> QED
  BY <1>1, <1>2 DEF CInv, Init, CacheLagsOneBatch, FreshIsCached

LEMMA CacheHolds == Spec => []CInv
<1>1. CInv /\ [Next]_vars => CInv'
  BY StepIInv, StepInTime, StepLags, StepFresh DEF CInv
<1> QED
  BY <1>1, InitCInv, PTL DEF Spec

\* While nothing is lost, a live key holds the newest row of its symbol or the batch in
\* hand is about to overwrite it, however many batches were given up before.
THEOREM CacheLags == Spec => []CacheLagsOneBatch
BY CacheHolds, PTL DEF CInv

\* While nothing is lost, and the TTL exceeds the maximal age by more than the clocks
\* differ, every rate that may still be used is cached or about to be.
THEOREM FreshCached == Spec => []FreshIsCached
BY CacheHolds, PTL DEF CInv

-----------------------------------------------------------------------------
(* The saving of a batch.                                                  *)

\* Every step of the consumer's task while it has a batch ends its saving or brings it on.
LEMMA StepOnward ==
  TypeOK /\ [Next]_vars =>
    [writer.pc # "idle" /\ writer' # writer =>
       writer'.pc = "idle" \/ Onward(writer, writer')]_vars
<1> SUFFICES ASSUME TypeOK, [Next]_vars, writer.pc # "idle", writer' # writer
             PROVE  writer'.pc = "idle" \/ Onward(writer, writer')
  OBVIOUS
<1>1. writer \in Writer /\ writer.attempt \in Nat
  BY LimitsAssumption DEF TypeOK, Writer
<1>2. \A saved : Resting(saved).pc = "idle"
  BY DEF Resting
<1>3. CASE CommitRows
  BY <1>1, <1>3 DEF CommitRows, Writer, Onward
<1>4. CASE StoreFails
  <2>1. CASE writer.attempt < Attempts
    <3>1. writer' = [writer EXCEPT !.attempt = @ + 1]
      BY <1>4, <2>1 DEF StoreFails
    <3>2. writer'.batch = writer.batch /\ writer'.attempt = writer.attempt + 1
      BY <1>1, <3>1 DEF Writer
    <3> QED
      BY <1>1, <3>2 DEF Onward
  <2>2. CASE ~(writer.attempt < Attempts)
    BY <1>2, <1>4, <2>2 DEF StoreFails, Onward
  <2> QED
    BY <2>1, <2>2
<1>5. CASE RunSetex
  <2>1. PICK q \in writer.pending :
          writer' = IF writer.pending = {q} THEN Resting(TRUE)
                    ELSE [writer EXCEPT !.pending = @ \ {q}]
    BY <1>5 DEF RunSetex
  <2>2. CASE writer.pending = {q}
    BY <1>2, <2>1, <2>2 DEF Onward
  <2>3. CASE writer.pending # {q}
    <3>1. writer' = [writer EXCEPT !.pending = writer.pending \ {q}]
      BY <1>1, <2>1, <2>3
    <3>2. /\ writer'.pending = writer.pending \ {q} /\ writer'.batch = writer.batch
          /\ writer'.attempt = writer.attempt /\ writer'.pc = writer.pc
      BY <1>1, <3>1 DEF Writer
    <3> QED
      BY <1>5, <3>2 DEF RunSetex, Onward
  <2> QED
    BY <2>2, <2>3
<1>6. CASE CacheFails \/ Crash
  BY <1>2, <1>6 DEF CacheFails, Crash, Onward
<1> QED
  BY <1>3, <1>4, <1>5, <1>6
  DEF Next, Save, Serve, vars, Tick, TakeBatch, LateSetex, Evict, Receive, CacheHit, CacheMiss,
      ReadRow, NotFound, ReadFails, Respond

\* Whatever fails, a batch is never begun anew and never replaced while it is being saved:
\* its attempts, and the commands of the last, are used up one by one.
THEOREM BatchesAdvance == Spec => BatchesProgress
BY InitTypeOK, StepTypeOK, StepOnward, PTL DEF Spec, BatchesProgress

-----------------------------------------------------------------------------
(* The answer 400.                                                         *)

\* A historical request never asks Redis, and what it found is not from after its time.
Asked ==
  \A r \in Reader : reader[r].kind = "before" =>
    /\ reader[r].pc # "redis"
    /\ reader[r].pc = "check" => \A q \in reader[r].found : q.ts <= reader[r].at

LEMMA StepAsked == IInv /\ Asked /\ [Next]_vars => Asked'
<1> SUFFICES ASSUME IInv, Asked, [Next]_vars, NEW r \in Reader, reader'[r].kind = "before"
             PROVE  /\ reader'[r].pc # "redis"
                    /\ reader'[r].pc = "check" =>
                         \A q \in reader'[r].found : q.ts <= reader'[r].at
  BY DEF Asked
<1>1. reader \in [Reader -> Request] /\ reader[r] \in Request
  BY DEF IInv, TypeOK
<1>2. CASE reader'[r] = reader[r]
  BY <1>2 DEF Asked
<1>3. CASE Receive(r)
  BY <1>1, <1>3 DEF Receive
<1>4. CASE Serve(r)
  <2>1. CASE CacheHit(r) \/ CacheMiss(r)
    BY <1>1, <2>1 DEF CacheHit, CacheMiss, Asked, Request
  <2>2. CASE ReadRow(r)
    <3>1. PICK q \in Select(r) :
            reader' = [reader EXCEPT ![r].pc = "check", ![r].found = {q}]
      BY <2>2 DEF ReadRow
    <3>2. /\ reader[r].kind = "before" /\ reader'[r].at = reader[r].at
          /\ reader'[r].pc = "check" /\ reader'[r].found = {q}
      BY <1>1, <3>1 DEF Request
    <3>3. q.ts <= reader[r].at
      BY <3>1, <3>2 DEF Select, Newest, RowsBefore
    <3> QED
      BY <3>2, <3>3
  <2>3. CASE NotFound(r) \/ ReadFails(r) \/ Respond(r)
    BY <1>1, <2>3 DEF NotFound, ReadFails, Respond, NoRequest
  <2> QED
    BY <1>4, <2>1, <2>2, <2>3 DEF Serve
<1>5. reader' = reader \/ \E s \in Reader : Receive(s) \/ Serve(s)
  BY DEF Next, Save, vars, Tick, TakeBatch, CommitRows, StoreFails, RunSetex, CacheFails,
     Crash, LateSetex, Evict
<1> QED
  BY <1>2, <1>3, <1>4, <1>5, StepOthers DEF IInv

\* A 400 for a valid request is the clocks' difference and nothing else: the request asked
\* for the latest rate, and found a row that is at most Skew ahead of the moment it is
\* answered, however long it took.
THEOREM BadRequestsAhead == Spec => BadRequestIsAhead
<1> DEFINE Ahead ==
      \A r \in Reader :
        reader[r].status # "bad_request" /\ reader'[r].status = "bad_request" =>
          /\ reader[r].kind = "latest"
          /\ \E q \in RowsOf(SymbolOf[reader[r].pair]) :
               reader[r].found = {q} /\ now < q.ts /\ q.ts <= now + Skew
<1>1. IInv /\ InTime /\ Asked /\ [Next]_vars => [Ahead]_vars
  <2> SUFFICES ASSUME IInv, InTime, Asked, [Next]_vars, NEW r \in Reader,
                      reader[r].status # "bad_request", reader'[r].status = "bad_request"
               PROVE  /\ reader[r].kind = "latest"
                      /\ \E q \in RowsOf(SymbolOf[reader[r].pair]) :
                           reader[r].found = {q} /\ now < q.ts /\ q.ts <= now + Skew
    OBVIOUS
  <2> DEFINE ref == IF reader[r].kind = "latest" THEN now ELSE reader[r].at
  <2>1. reader \in [Reader -> Request] /\ reader[r] \in Request
    BY DEF IInv, TypeOK
  <2>2. Receive(r) \/ Serve(r)
    <3>1. reader' = reader \/ \E s \in Reader : Receive(s) \/ Serve(s)
      BY DEF Next, Save, vars, Tick, TakeBatch, CommitRows, StoreFails, RunSetex,
         CacheFails, Crash, LateSetex, Evict
    <3> QED
      BY <3>1, StepOthers DEF IInv
  <2>3. Respond(r)
    BY <2>1, <2>2
    DEF Receive, Serve, CacheHit, CacheMiss, ReadRow, NotFound, ReadFails, NoRequest,
        Request
  <2>4. PICK q \in reader[r].found :
          reader' = [reader EXCEPT ![r] =
            NoRequest(Verdict(q, ref), IF Verdict(q, ref) = "ok" THEN {q} ELSE {})]
    BY <2>3 DEF Respond
  <2>5. Verdict(q, ref) = "bad_request"
    BY <2>1, <2>4 DEF NoRequest
  <2>6. q \in RowsOf(SymbolOf[reader[r].pair]) /\ reader[r].found = {q}
    BY <2>3, <2>4 DEF Respond, IInv, Lookups, RowsOf
  <2>7. q.ts \in Nat /\ q.ts <= polled /\ polled \in Nat /\ polled <= now + Skew
    BY <2>6 DEF RowsOf, IInv, TypeOK, Ordered, InTime
  <2>8. ref \in Nat /\ now \in Nat /\ Skew \in Nat
    BY <2>1, LimitsAssumption DEF IInv, TypeOK, Request
  <2>9. q.ts > ref
    BY <2>5 DEF Verdict
  <2>10. reader[r].kind = "latest"
    <3>1. reader[r].pc = "check" /\ reader[r].kind \in {"latest", "before"}
      BY <2>1, <2>3 DEF Respond, Request
    <3>2. reader[r].kind = "before" => q.ts <= reader[r].at
      BY <2>4, <3>1 DEF Asked
    <3> QED
      BY <2>7, <2>8, <2>9, <3>1, <3>2
  <2>11. now < q.ts /\ q.ts <= now + Skew
    BY <2>7, <2>8, <2>9, <2>10
  <2> QED
    BY <2>6, <2>10, <2>11
<1>2. Init => InTime /\ Asked
  BY InitCInv DEF CInv, Init, Asked, NoRequest
<1> QED
  BY <1>1, <1>2, InitIInv, StepIInv, StepInTime, StepAsked, PTL DEF Spec, BadRequestIsAhead
=============================================================================
