----------------------------- MODULE AsyncWrites -----------------------------
(***************************************************************************)
(* The asynchronous half of the binding: class Promise, BatchWritePromise  *)
(* and rocksdb_batch_write_async of src/binding.cc, with the batch and     *)
(* write-options handles they point at.                                    *)
(*                                                                         *)
(* Three actors interleave.  The JavaScript thread creates and fills       *)
(* batches, starts writes, drops handles and settles promises; the garbage *)
(* collector frees the native object of a handle nobody can reach; threads *)
(* of the libuv pool run db->Write through the raw pointers a              *)
(* BatchWritePromise keeps (db, batch, options).                           *)
(*                                                                         *)
(* db->Write is two steps, the append to the write-ahead log and the       *)
(* insertion into the memtable, and each reads the batch through the       *)
(* pointer; only one writer at a time is between them (the leader of the   *)
(* write group).                                                           *)
(***************************************************************************)
EXTENDS Naturals, FiniteSets, SequencesExt

CONSTANTS
  Writes,      \* asynchronous writes, each started at most once
  Batches,     \* WriteBatch handles
  Options,     \* WriteOptions handles
  Ops,         \* updates a batch can hold
  Threads,     \* threads of the libuv pool
  MaxOps,      \* bound: updates in one batch
  MaxSync,     \* bound: synchronous writes
  Careful      \* the precautions the JavaScript client takes, see below

(***************************************************************************)
(* The binding protects nothing a pending write points at ("Promise        *)
(* posesses no ownership over provided arguments", binding.cc:1542), so    *)
(* what holds depends on what the client does meanwhile:                   *)
(*   "sync"   it does not modify the batch or the options of a pending     *)
(*            write (write_batch.h:20-23 asks for it);                     *)
(*   "hold"   it keeps both handles reachable;                             *)
(*   "await"  it closes the database only when no write is pending.        *)
(***************************************************************************)
Precautions == {"sync", "hold", "await"}

ASSUME CarefulAssumption == Careful \subseteq Precautions
ASSUME ThreadsAssumption == Threads \in Nat \ {0}
ASSUME BoundsAssumption  == MaxOps \in Nat /\ MaxSync \in Nat
ASSUME HandlesAssumption ==
  /\ Writes \cap Batches = {} /\ Writes \cap Options = {} /\ Batches \cap Options = {}
  /\ "main" \notin Writes

Handles == Writes \cup Batches \cup Options

VARIABLES
  life,        \* handle -> "new", "alive" or "freed": its native object
  held,        \* handles JavaScript code can still reach
  content,     \* batch -> its updates
  noWAL,       \* write options -> the disableWAL flag
  args,        \* write -> the pointers BatchWritePromise keeps, and (for the
               \*          properties only) what they pointed at on submission
  executing,   \* write -> Promise::executing
  success,     \* write -> Promise::success
  deferred,    \* write -> "none", "pending", "resolved" or "rejected"
  queue,       \* work items no pool thread has taken
  logged,      \* executing writes already in the log, not yet in the memtable
  doneq,       \* work items whose Finish has not run
  wal, mem,    \* batches in the log and in the memtables, in order
  closed       \* DBImpl::closed_

objects == <<life, held, content, noWAL>>
promise == <<args, executing, success, deferred>>
pool    == <<queue, logged, doneq>>
db      == <<wal, mem, closed>>
vars    == <<objects, promise, pool, db>>

Written == [by : Writes \cup {"main"}, ops : Seq(Ops), noWAL : BOOLEAN]
Args    == [batch : Batches, options : Options, ops : Seq(Ops), noWAL : BOOLEAN]

\* Types; the arguments of a write are stored exactly when it was started.
TypeOK ==
  /\ life \in [Handles -> {"new", "alive", "freed"}]
  /\ held \subseteq Handles
  /\ content \in [Batches -> Seq(Ops)]
  /\ noWAL \in [Options -> BOOLEAN]
  /\ DOMAIN args = {w \in Writes : deferred[w] # "none"}
  /\ \A w \in DOMAIN args : args[w] \in Args
  /\ executing \in [Writes -> BOOLEAN]
  /\ success \in [Writes -> BOOLEAN]
  /\ deferred \in [Writes -> {"none", "pending", "resolved", "rejected"}]
  /\ queue \in Seq(Writes) /\ doneq \in Seq(Writes)
  /\ logged \subseteq Writes
  /\ wal \in Seq(Written) /\ mem \in Seq(Written)
  /\ closed \in BOOLEAN

Init ==
  /\ life = [h \in Handles |-> "new"]
  /\ held = {}
  /\ content = [b \in Batches |-> <<>>]
  /\ noWAL = [o \in Options |-> FALSE]
  /\ args = [w \in {} |-> {}]
  /\ executing = [w \in Writes |-> FALSE]
  /\ success = [w \in Writes |-> FALSE]
  /\ deferred = [w \in Writes |-> "none"]
  /\ queue = <<>> /\ doneq = <<>> /\ logged = {}
  /\ wal = <<>> /\ mem = <<>> /\ closed = FALSE

-----------------------------------------------------------------------------
Pending      == {w \in Writes : deferred[w] = "pending"}
PendingOn(h) == {w \in Pending : h \in {args[w].batch, args[w].options}}

\* What a precaution forbids while a write is pending.
MayModify(h) == "sync" \in Careful => PendingOn(h) = {}
MayDrop(h)   == "hold" \in Careful => PendingOn(h) = {}
MayClose     == "await" \in Careful => Pending = {}

(***************************************************************************)
(* JavaScript thread: batches and write options.  A handle stands for one  *)
(* native object; the program makes a new handle for a new one.            *)
(***************************************************************************)
New(h) ==
  /\ life[h] = "new"
  /\ life' = [life EXCEPT ![h] = "alive"]
  /\ held' = held \cup {h}

rocksdb_batch_init(b) ==
  /\ New(b)
  /\ UNCHANGED <<content, noWAL, promise, pool, db>>

rocksdb_write_options_init(o) ==
  /\ New(o)
  /\ UNCHANGED <<content, noWAL, promise, pool, db>>

rocksdb_batch_put(b, op) ==
  /\ b \in held /\ MayModify(b)
  /\ Len(content[b]) < MaxOps
  /\ content' = [content EXCEPT ![b] = Append(@, op)]
  /\ UNCHANGED <<life, held, noWAL, promise, pool, db>>

rocksdb_batch_clear(b) ==
  /\ b \in held /\ MayModify(b)
  /\ content' = [content EXCEPT ![b] = <<>>]
  /\ UNCHANGED <<life, held, noWAL, promise, pool, db>>

rocksdb_write_options_set_disableWAL(o, value) ==
  /\ o \in held /\ MayModify(o)
  /\ noWAL' = [noWAL EXCEPT ![o] = value]
  /\ UNCHANGED <<life, held, content, promise, pool, db>>

\* What db->Write makes of a batch and of the options it is given.
Record(w, b, o) == [by |-> w, ops |-> content[b], noWAL |-> noWAL[o]]

ToLog(r) == wal' = IF r.noWAL THEN wal ELSE Append(wal, r)

\* Mutant: a synchronous write that does not wait for the write group.
WriteOutsideGroup(b, o) ==
  /\ {b, o} \subseteq held /\ ~closed
  /\ Len(SelectSeq(mem, LAMBDA r : r.by = "main")) < MaxSync
  /\ LET r == Record("main", b, o) IN ToLog(r) /\ mem' = Append(mem, r)
  /\ UNCHANGED <<objects, promise, pool, closed>>

\* The synchronous write holds the JavaScript thread until the write group
\* lets it in, so it never falls between the two steps of another write.  A
\* write that fails changes nothing and throws.
rocksdb_batch_write(b, o) ==
  /\ {b, o} \subseteq held /\ ~closed
  /\ logged = {} /\ Len(SelectSeq(mem, LAMBDA r : r.by = "main")) < MaxSync
  /\ LET r == Record("main", b, o) IN ToLog(r) /\ mem' = Append(mem, r)
  /\ UNCHANGED <<objects, promise, pool, closed>>

\* Mutants: the promise is settled when the work is queued; the constructor
\* does not store its arguments.
SettledAtStart(w, b, o) ==
  /\ {b, o} \subseteq held /\ ~closed
  /\ New(w)
  /\ args' = [x \in DOMAIN args \cup {w} |->
                IF x = w THEN [batch |-> b, options |-> o,
                               ops |-> content[b], noWAL |-> noWAL[o]]
                         ELSE args[x]]
  /\ deferred' = [deferred EXCEPT ![w] = "resolved"]
  /\ queue' = Append(queue, w)
  /\ UNCHANGED <<content, noWAL, executing, success, logged, doneq, db>>

ArgumentsForgotten(w, b, o) ==
  /\ {b, o} \subseteq held /\ ~closed
  /\ New(w)
  /\ deferred' = [deferred EXCEPT ![w] = "pending"]
  /\ queue' = Append(queue, w)
  /\ UNCHANGED <<content, noWAL, args, executing, success, logged, doneq, db>>

\* The binding stores the three pointers and queues the work; nothing is
\* copied and nothing keeps the batch or the options alive.
rocksdb_batch_write_async(w, b, o) ==
  /\ {b, o} \subseteq held /\ ~closed
  /\ New(w)
  /\ args' = [x \in DOMAIN args \cup {w} |->
                IF x = w THEN [batch |-> b, options |-> o,
                               ops |-> content[b], noWAL |-> noWAL[o]]
                         ELSE args[x]]
  /\ success' = [success EXCEPT ![w] = FALSE]
  /\ executing' = [executing EXCEPT ![w] = FALSE]
  /\ deferred' = [deferred EXCEPT ![w] = "pending"]
  /\ queue' = Append(queue, w)
  /\ UNCHANGED <<content, noWAL, logged, doneq, db>>

rocksdb_close ==
  /\ ~closed /\ MayClose
  /\ closed' = TRUE
  /\ UNCHANGED <<objects, promise, pool, wal, mem>>

\* JavaScript forgets its last reference to h.
Drop(h) ==
  /\ h \in held /\ MayDrop(h)
  /\ held' = held \ {h}
  /\ UNCHANGED <<life, content, noWAL, promise, pool, db>>

(***************************************************************************)
(* The libuv pool and Promise::Begin.                                      *)
(***************************************************************************)
Executing == {w \in Writes : executing[w]}

\* Mutant: the item stays in the queue.
BeginKeepsItem(w) ==
  /\ queue # <<>> /\ w = Head(queue)
  /\ Cardinality(Executing) < Threads
  /\ executing' = [executing EXCEPT ![w] = TRUE]
  /\ UNCHANGED <<objects, args, success, deferred, queue, logged, doneq, db>>

\* A thread takes the oldest work item.
Begin(w) ==
  /\ queue # <<>> /\ w = Head(queue)
  /\ Cardinality(Executing) < Threads
  /\ queue' = Tail(queue)
  /\ executing' = [executing EXCEPT ![w] = TRUE]
  /\ UNCHANGED <<objects, args, success, deferred, logged, doneq, db>>

\* Every pointer db->Write follows still leads to a live object; past that
\* point the code has no defined behaviour and the model does not follow it.
Defined(w) ==
  /\ ~closed
  /\ life[args[w].batch] = "alive" /\ life[args[w].options] = "alive"

\* db->Write returned: execute() stores the outcome and Begin clears the flag.
Executed(w, ok) ==
  /\ success' = [success EXCEPT ![w] = ok]
  /\ executing' = [executing EXCEPT ![w] = FALSE]
  /\ doneq' = Append(doneq, w)

ThreadWritesLog(w) ==
  /\ executing[w] /\ Defined(w)
  /\ logged = {}
  /\ ToLog(Record(w, args[w].batch, args[w].options))
  /\ logged' = {w}
  /\ UNCHANGED <<objects, promise, queue, doneq, mem, closed>>

ThreadWriteFails(w) ==
  /\ executing[w] /\ Defined(w)
  /\ w \notin logged
  /\ Executed(w, FALSE)
  /\ UNCHANGED <<objects, args, deferred, queue, logged, db>>

ThreadInsertsIntoMemtable(w) ==
  /\ w \in logged /\ Defined(w)
  /\ mem' = Append(mem, Record(w, args[w].batch, args[w].options))
  /\ logged' = {}
  /\ Executed(w, TRUE)
  /\ UNCHANGED <<objects, args, deferred, queue, wal, closed>>

(***************************************************************************)
(* JavaScript thread: completions come back in the order the works ended.  *)
(***************************************************************************)
\* Mutants: the outcome is not looked at; a failed write is never rejected.
FinishIgnoresOutcome(w) ==
  /\ doneq # <<>> /\ w = Head(doneq)
  /\ doneq' = Tail(doneq)
  /\ deferred' = [deferred EXCEPT ![w] = "resolved"]
  /\ UNCHANGED <<objects, args, executing, success, queue, logged, db>>

FinishOnlySuccess(w) ==
  /\ doneq # <<>> /\ w = Head(doneq)
  /\ doneq' = Tail(doneq)
  /\ deferred' = [deferred EXCEPT ![w] = IF success[w] THEN "resolved" ELSE @]
  /\ UNCHANGED <<objects, args, executing, success, queue, logged, db>>

Finish(w) ==
  /\ doneq # <<>> /\ w = Head(doneq)
  /\ doneq' = Tail(doneq)
  /\ deferred' = [deferred EXCEPT ![w] = IF success[w] THEN "resolved" ELSE "rejected"]
  /\ UNCHANGED <<objects, args, executing, success, queue, logged, db>>

(***************************************************************************)
(* The garbage collector.  napi_create_promise leaves the deferred with a  *)
(* strong reference on the promise until it is settled.                    *)
(***************************************************************************)
Rooted(h) == h \in held \/ h \in Pending

Collect(h) ==
  /\ life[h] = "alive" /\ ~Rooted(h)
  /\ life' = [life EXCEPT ![h] = "freed"]
  /\ UNCHANGED <<held, content, noWAL, promise, pool, db>>

JavaScript ==
  \/ \E b \in Batches : rocksdb_batch_init(b) \/ rocksdb_batch_clear(b)
  \/ \E o \in Options : rocksdb_write_options_init(o)
  \/ \E b \in Batches, op \in Ops : rocksdb_batch_put(b, op)
  \/ \E o \in Options, value \in BOOLEAN : rocksdb_write_options_set_disableWAL(o, value)
  \/ \E b \in Batches, o \in Options : rocksdb_batch_write(b, o)
  \/ \E w \in Writes, b \in Batches, o \in Options : rocksdb_batch_write_async(w, b, o)
  \/ \E h \in Handles : Drop(h)
  \/ rocksdb_close

Pool == \E w \in Writes :
  \/ Begin(w)
  \/ ThreadWritesLog(w) \/ ThreadWriteFails(w) \/ ThreadInsertsIntoMemtable(w)

EventLoop == \E w \in Writes : Finish(w)

GarbageCollector == \E h \in Handles : Collect(h)

Next == JavaScript \/ Pool \/ EventLoop \/ GarbageCollector

\* The pool threads keep running and the event loop keeps turning; JavaScript
\* and the collector promise nothing.
Fairness == WF_vars(Pool) /\ WF_vars(EventLoop)

Spec == Init /\ [][Next]_vars
FairSpec == Spec /\ Fairness
-----------------------------------------------------------------------------


\* The pool or the event loop will still follow its pointer to the Promise.
InFlight(w) == Contains(queue, w) \/ executing[w] \/ Contains(doneq, w)

\* A native Promise is never deleted while the pool or the event loop still
\* has to call Begin or Finish on it: the destructor's napi_fatal_error is out
\* of reach, because the deferred roots the JavaScript promise until Finish.
PromiseOutlivesWork == \A w \in Writes : InFlight(w) => life[w] = "alive"

\* A batch and the options of a write that has not executed are not freed, for
\* a client that holds them until the promise settles ("hold").
ArgumentsOutliveWork ==
  \A w \in Writes : Contains(queue, w) \/ executing[w] =>
    life[args[w].batch] = "alive" /\ life[args[w].options] = "alive"

\* No db->Write runs on a database that rocksdb_close has closed.
NoWriteOnClosedDb == \A w \in Writes : Contains(queue, w) \/ executing[w] => ~closed

WrittenBy(w) == {i \in DOMAIN mem : mem[i].by = w}
AsSubmitted(w) == [by |-> w, ops |-> args[w].ops, noWAL |-> args[w].noWAL]

\* A resolved promise means the batch, as it was when the call was made, is in
\* the database exactly once; a rejected one means none of it is ("sync").
SettledTellsTheTruth == \A w \in Writes :
  /\ deferred[w] = "resolved" => \E i \in DOMAIN mem : WrittenBy(w) = {i} /\ mem[i] = AsSubmitted(w)
  /\ deferred[w] = "rejected" => WrittenBy(w) = {}

\* Replaying this log recovers what was written, in the same order, except
\* for what bypassed it.
Recoverable == {i \in DOMAIN mem : ~mem[i].noWAL}
Replays(log) == \E at \in [DOMAIN log -> Recoverable] :
  /\ \A i, j \in DOMAIN log : i < j => at[i] < at[j]
  /\ \A m \in Recoverable : \E i \in DOMAIN log : at[i] = m
  /\ \A i \in DOMAIN log : log[i] = mem[at[i]]

\* What the log holds is what the memtables hold, in the same order.  Only the
\* write between its two steps may be in the log alone; it then holds the
\* batch both steps must see.
LogMatchesMemtables ==
  \/ Replays(wal)
  \/ /\ wal # <<>> /\ Replays(Front(wal))
     /\ \E w \in logged : Last(wal) = Record(w, args[w].batch, args[w].options)

\* A promise settles once, only after its write ended, and stays settled.
SettlesOnce == [][\A w \in Writes :
  /\ deferred[w] \in {"resolved", "rejected"} => deferred'[w] = deferred[w]
  /\ deferred'[w] # deferred[w] /\ deferred[w] = "pending" => ~executing[w] /\ ~Contains(queue, w)]_vars

\* Every write that was started settles.
EveryWriteSettles == \A w \in Writes :
  deferred[w] = "pending" ~> deferred[w] \in {"resolved", "rejected"}
=============================================================================
