-------------------------- MODULE AsyncWrites_proof ---------------------------
(***************************************************************************)
(* Theorems about AsyncWrites, for any number of writes, batches, options  *)
(* and pool threads and any client.                                        *)
(***************************************************************************)
EXTENDS AsyncWrites, TLAPS

-----------------------------------------------------------------------------
(***************************************************************************)
(* What queueing and dequeuing do to the elements of a sequence that has   *)
(* none twice.                                                             *)
(***************************************************************************)

\* Queueing an item that is not in the queue adds that item and no other.
LEMMA AppendNew ==
  ASSUME NEW S, NEW s \in Seq(S), NEW x \in S
  PROVE  /\ Append(s, x) \in Seq(S)
         /\ \A w : Contains(Append(s, x), w) <=> Contains(s, w) \/ w = x
         /\ IsInjective(s) /\ ~Contains(s, x) => IsInjective(Append(s, x))
<1>1. Append(s, x) \in Seq(S) OBVIOUS
<1>2. /\ Len(Append(s, x)) = Len(s) + 1 /\ Len(s) \in Nat
      /\ \A i \in 1 .. Len(s) : Append(s, x)[i] = s[i]
      /\ Append(s, x)[Len(s) + 1] = x
      /\ DOMAIN s = 1 .. Len(s) /\ DOMAIN Append(s, x) = 1 .. Len(s) + 1
  OBVIOUS
<1>3. \A w : Contains(Append(s, x), w) <=> Contains(s, w) \/ w = x
  BY <1>2 DEF Contains
<1>4. IsInjective(s) /\ ~Contains(s, x) => IsInjective(Append(s, x))
  BY <1>2 DEF Contains, IsInjective
<1>5. QED BY <1>1, <1>3, <1>4

\* Dequeuing removes the head, and nothing else when the head is there once.
LEMMA TailOfInjective ==
  ASSUME NEW S, NEW s \in Seq(S), s # <<>>, IsInjective(s)
  PROVE  /\ Tail(s) \in Seq(S) /\ IsInjective(Tail(s))
         /\ Head(s) \in S /\ Contains(s, Head(s))
         /\ \A w : Contains(Tail(s), w) <=> Contains(s, w) /\ w # Head(s)
<1>1. /\ Tail(s) \in Seq(S) /\ Head(s) \in S /\ Head(s) = s[1]
      /\ Len(s) \in Nat /\ Len(s) >= 1 /\ Len(Tail(s)) = Len(s) - 1
      /\ \A i \in 1 .. Len(s) - 1 : Tail(s)[i] = s[i + 1]
      /\ DOMAIN s = 1 .. Len(s) /\ DOMAIN Tail(s) = 1 .. Len(s) - 1
  OBVIOUS
<1>2. Contains(s, Head(s)) BY <1>1 DEF Contains
<1>3. IsInjective(Tail(s)) BY <1>1 DEF IsInjective
<1>4. ASSUME NEW w, Contains(Tail(s), w) PROVE Contains(s, w) /\ w # Head(s)
  <2>1. PICK i \in 1 .. Len(s) - 1 : s[i + 1] = w BY <1>1, <1>4 DEF Contains
  <2>2. QED BY <1>1, <2>1 DEF Contains, IsInjective
<1>5. ASSUME NEW w, Contains(s, w), w # Head(s) PROVE Contains(Tail(s), w)
  <2>1. PICK i \in 1 .. Len(s) : s[i] = w BY <1>5 DEF Contains
  <2>2. i - 1 \in 1 .. Len(s) - 1 /\ Tail(s)[i - 1] = w BY <1>1, <1>5, <2>1
  <2>3. QED BY <1>1, <2>2 DEF Contains
<1>6. QED BY <1>1, <1>2, <1>3, <1>4, <1>5

-----------------------------------------------------------------------------
(***************************************************************************)
(* The inductive invariant.  A started write that has not settled is in    *)
(* exactly one place: the queue, a pool thread or the completion queue;    *)
(* and while it is anywhere its promise is pending and so not collected.   *)
(***************************************************************************)
OnePlace ==
  /\ IsInjective(queue) /\ IsInjective(doneq)
  /\ \A w \in Writes :
       /\ Contains(queue, w) => ~executing[w] /\ ~Contains(doneq, w)
       /\ executing[w] => ~Contains(doneq, w)
       /\ w \in logged => executing[w]

PendingAlive == \A w \in Writes :
  /\ InFlight(w) => deferred[w] = "pending"
  /\ deferred[w] = "pending" => life[w] = "alive"
  /\ deferred[w] # "none" => life[w] # "new"

\* What the client's precautions add for every pending write.
Protected ==
  /\ \A h \in held : life[h] = "alive"
  /\ \A w \in Writes : deferred[w] = "pending" =>
       /\ "hold" \in Careful => args[w].batch \in held /\ args[w].options \in held
       /\ "await" \in Careful => ~closed

IInv == TypeOK /\ OnePlace /\ PendingAlive /\ Protected

\* The log only ever grows by what a write was given.
LEMMA RecordType ==
  ASSUME TypeOK, NEW w \in Writes \cup {"main"}, NEW b \in Batches, NEW o \in Options
  PROVE  /\ Record(w, b, o) \in Written
         /\ ToLog(Record(w, b, o)) => wal' \in Seq(Written)
         /\ Append(mem, Record(w, b, o)) \in Seq(Written)
<1>1. Record(w, b, o) \in Written BY DEF TypeOK, Record, Written
<1>2. wal \in Seq(Written) /\ mem \in Seq(Written) BY DEF TypeOK
<1>3. QED BY <1>1, <1>2 DEF ToLog

\* The invariant holds initially.
LEMMA InitIInv == Init => IInv
<1> SUFFICES ASSUME Init PROVE IInv OBVIOUS
<1>1. TypeOK
  <2>1. DOMAIN args = {} /\ {w \in Writes : deferred[w] # "none"} = {} BY DEF Init
  <2>2. /\ <<>> \in Seq(Ops) /\ <<>> \in Seq(Writes) /\ <<>> \in Seq(Written)
        /\ "new" \in {"new", "alive", "freed"}
        /\ "none" \in {"none", "pending", "resolved", "rejected"}
    OBVIOUS
  <2>3. QED BY <2>1, <2>2 DEF Init, TypeOK
<1>2. \A w : ~Contains(queue, w) /\ ~Contains(doneq, w) BY DEF Init, Contains
<1>3. OnePlace BY <1>2 DEF Init, OnePlace, IsInjective
<1>4. PendingAlive BY <1>2 DEF Init, PendingAlive, InFlight
<1>5. Protected BY DEF Init, Protected
<1>6. QED BY <1>1, <1>3, <1>4, <1>5 DEF IInv

(***************************************************************************)
(* Every action preserves the invariant: one lemma per action, or per      *)
(* group of actions that change the same variables.                        *)
(***************************************************************************)

\* Making a batch or options changes life and held only.
LEMMA NewPreserves ==
  ASSUME IInv, NEW h \in Batches \cup Options, New(h),
         UNCHANGED <<content, noWAL, promise, pool, db>>
  PROVE  IInv'
<1> USE DEF IInv, promise, pool, db
<1>1. TypeOK' BY DEF TypeOK, New, Handles
<1>2. OnePlace' BY DEF OnePlace, Contains
<1>3. PendingAlive' BY DEF PendingAlive, InFlight, Contains, New, TypeOK, Handles
<1>4. Protected' BY DEF Protected, New, TypeOK, Handles
<1>5. QED BY <1>1, <1>2, <1>3, <1>4

\* Filling a batch, clearing it or setting a flag changes its data only.
LEMMA ModifyPreserves ==
  ASSUME IInv, content' \in [Batches -> Seq(Ops)], noWAL' \in [Options -> BOOLEAN],
         UNCHANGED <<life, held, promise, pool, db>>
  PROVE  IInv'
<1> USE DEF IInv, promise, pool, db
<1>1. TypeOK' BY DEF TypeOK
<1>2. OnePlace' BY DEF OnePlace, Contains
<1>3. PendingAlive' BY DEF PendingAlive, InFlight, Contains
<1>4. Protected' BY DEF Protected
<1>5. QED BY <1>1, <1>2, <1>3, <1>4

\* A synchronous write changes the log and the memtables only.
LEMMA WritePreserves ==
  ASSUME IInv, NEW b \in Batches, NEW o \in Options, rocksdb_batch_write(b, o)
  PROVE  IInv'
<1> USE DEF IInv, rocksdb_batch_write, objects, promise, pool
<1>1. wal' \in Seq(Written) /\ mem' \in Seq(Written) BY RecordType
<1>2. TypeOK' BY <1>1 DEF TypeOK
<1>3. OnePlace' BY DEF OnePlace, Contains
<1>4. PendingAlive' BY DEF PendingAlive, InFlight, Contains
<1>5. Protected' BY DEF Protected
<1>6. QED BY <1>2, <1>3, <1>4, <1>5

\* A new write is pending and in the queue, and nowhere else.
LEMMA StartPreserves ==
  ASSUME IInv, NEW w \in Writes, NEW b \in Batches, NEW o \in Options,
         rocksdb_batch_write_async(w, b, o)
  PROVE  IInv'
<1> USE DEF IInv, rocksdb_batch_write_async, db
<1>1. deferred[w] = "none" BY DEF PendingAlive, New, TypeOK
<1>2. ~InFlight(w) BY <1>1 DEF PendingAlive
<1>3. w \notin logged BY <1>2 DEF OnePlace, InFlight
<1>4. /\ queue' \in Seq(Writes) /\ IsInjective(queue')
      /\ \A v : Contains(queue', v) <=> Contains(queue, v) \/ v = w
  BY <1>2, AppendNew DEF TypeOK, InFlight, OnePlace
<1>5. /\ DOMAIN args' = DOMAIN args \cup {w}
      /\ args'[w] = [batch |-> b, options |-> o, ops |-> content[b], noWAL |-> noWAL[o]]
      /\ \A v \in DOMAIN args : v # w => args'[v] = args[v]
  OBVIOUS
<1>6. TypeOK'
  <2>1. DOMAIN args' = {v \in Writes : deferred'[v] # "none"} BY <1>5 DEF TypeOK
  <2>2. \A v \in DOMAIN args' : args'[v] \in Args BY <1>5 DEF TypeOK, Args
  <2>3. life' \in [Handles -> {"new", "alive", "freed"}] /\ held' \subseteq Handles
    BY DEF TypeOK, New, Handles
  <2>4. QED BY <2>1, <2>2, <2>3, <1>4 DEF TypeOK
<1>7. OnePlace' BY <1>2, <1>3, <1>4 DEF OnePlace, InFlight, Contains, TypeOK
<1>8. PendingAlive'
  <2>1. \A v \in Writes : InFlight(v)' => InFlight(v) \/ v = w
    BY <1>4 DEF InFlight, Contains, TypeOK
  <2>2. life' = [life EXCEPT ![w] = "alive"] /\ deferred' = [deferred EXCEPT ![w] = "pending"]
    BY DEF New
  <2>3. QED BY <2>1, <2>2 DEF PendingAlive, TypeOK, Handles
<1>9. Protected'
  <2>1. \A h \in held' : life'[h] = "alive" BY DEF Protected, New, TypeOK, Handles
  <2>2. \A v \in Writes : deferred'[v] = "pending" => v = w \/ (deferred[v] = "pending" /\ v # w)
    BY DEF TypeOK
  <2>3. \A v \in Writes : deferred[v] = "pending" => v \in DOMAIN args BY DEF TypeOK
  <2>4. held \subseteq held' BY DEF New
  <2>5. QED BY <1>5, <2>1, <2>2, <2>3, <2>4 DEF Protected
<1>10. QED BY <1>6, <1>7, <1>8, <1>9

\* Closing and dropping are what the precautions are about.
LEMMA CloseDropPreserves ==
  ASSUME IInv, rocksdb_close \/ \E h \in Handles : Drop(h)
  PROVE  IInv'
<1> USE DEF IInv, objects, promise, pool, db
<1>1. CASE rocksdb_close
  <2> USE <1>1 DEF rocksdb_close
  <2>1. TypeOK' BY DEF TypeOK
  <2>2. OnePlace' BY DEF OnePlace, Contains
  <2>3. PendingAlive' BY DEF PendingAlive, InFlight, Contains
  <2>4. Protected' BY DEF Protected, MayClose, Pending
  <2>5. QED BY <2>1, <2>2, <2>3, <2>4
<1>2. ASSUME NEW h \in Handles, Drop(h) PROVE IInv'
  <2> USE <1>2 DEF Drop
  <2>1. TypeOK' BY DEF TypeOK
  <2>2. OnePlace' BY DEF OnePlace, Contains
  <2>3. PendingAlive' BY DEF PendingAlive, InFlight, Contains
  <2>4. Protected' BY DEF Protected, MayDrop, PendingOn, Pending
  <2>5. QED BY <2>1, <2>2, <2>3, <2>4
<1>3. QED BY <1>1, <1>2

\* From the queue to a pool thread.
LEMMA BeginPreserves ==
  ASSUME IInv, NEW w \in Writes, Begin(w)
  PROVE  IInv'
<1> USE DEF IInv, Begin, objects, db
<1>1. /\ queue' \in Seq(Writes) /\ IsInjective(queue') /\ Contains(queue, w)
      /\ \A v : Contains(queue', v) <=> Contains(queue, v) /\ v # w
  BY TailOfInjective DEF TypeOK, OnePlace
<1>2. executing' = [executing EXCEPT ![w] = TRUE] /\ executing \in [Writes -> BOOLEAN]
  BY DEF TypeOK
<1>3. TypeOK' BY <1>1, <1>2 DEF TypeOK
<1>4. OnePlace'
  <2>1. ~executing[w] /\ ~Contains(doneq, w) BY <1>1 DEF OnePlace
  <2>2. ASSUME NEW v \in Writes
        PROVE  /\ Contains(queue', v) => ~executing'[v] /\ ~Contains(doneq', v)
               /\ executing'[v] => ~Contains(doneq', v)
               /\ v \in logged' => executing'[v]
    BY <1>1, <1>2, <2>1 DEF OnePlace
  <2>3. QED BY <1>1, <2>2 DEF OnePlace, Contains
<1>5. PendingAlive'
  <2>1. \A v \in Writes : InFlight(v)' => InFlight(v)
    BY <1>1, <1>2 DEF InFlight, Contains
  <2>2. QED BY <2>1 DEF PendingAlive
<1>6. Protected' BY DEF Protected
<1>7. QED BY <1>3, <1>4, <1>5, <1>6

\* WriteToWAL: only an executing write is in the log alone.
LEMMA LogPreserves ==
  ASSUME IInv, NEW w \in Writes, ThreadWritesLog(w)
  PROVE  IInv'
<1> USE DEF IInv, ThreadWritesLog, objects, promise
<1>1. w \in DOMAIN args BY DEF OnePlace, PendingAlive, InFlight, TypeOK
<1>2. wal' \in Seq(Written) BY <1>1, RecordType DEF TypeOK, Args
<1>3. TypeOK' BY <1>2 DEF TypeOK
<1>4. OnePlace' BY DEF OnePlace, Contains
<1>5. PendingAlive' BY DEF PendingAlive, InFlight, Contains
<1>6. Protected' BY DEF Protected
<1>7. QED BY <1>3, <1>4, <1>5, <1>6

\* A thread that ends its write, with either outcome, queues its completion.
LEMMA ExecutedPreserves ==
  ASSUME IInv, NEW w \in Writes, executing[w], NEW ok \in BOOLEAN, Executed(w, ok),
         logged' \subseteq logged, w \notin logged',
         mem' \in Seq(Written),
         UNCHANGED <<objects, args, deferred, queue, wal, closed>>
  PROVE  IInv'
<1> USE DEF IInv, Executed, objects
<1>1. ~Contains(doneq, w) /\ ~Contains(queue, w) BY DEF OnePlace
<1>2. /\ doneq' \in Seq(Writes) /\ IsInjective(doneq')
      /\ \A v : Contains(doneq', v) <=> Contains(doneq, v) \/ v = w
  BY <1>1, AppendNew DEF TypeOK, OnePlace
<1>3. executing' = [executing EXCEPT ![w] = FALSE] /\ executing \in [Writes -> BOOLEAN]
  BY DEF TypeOK
<1>4. TypeOK' BY <1>2, <1>3 DEF TypeOK
<1>5. OnePlace'
  <2>1. \A v : Contains(queue', v) <=> Contains(queue, v) BY DEF Contains
  <2>2. IsInjective(queue') BY DEF OnePlace
  <2>3. ASSUME NEW v \in Writes
        PROVE  /\ Contains(queue', v) => ~executing'[v] /\ ~Contains(doneq', v)
               /\ executing'[v] => ~Contains(doneq', v)
               /\ v \in logged' => executing'[v]
    <3>1. CASE v = w BY <1>1, <1>2, <1>3, <2>1, <3>1
    <3>2. CASE v # w BY <1>2, <1>3, <2>1, <3>2 DEF OnePlace
    <3>3. QED BY <3>1, <3>2
  <2>4. QED BY <1>2, <2>2, <2>3 DEF OnePlace
<1>6. PendingAlive'
  <2>1. \A v \in Writes : InFlight(v)' => InFlight(v)
    BY <1>2, <1>3 DEF InFlight, Contains
  <2>2. QED BY <2>1 DEF PendingAlive
<1>7. Protected' BY DEF Protected
<1>8. QED BY <1>4, <1>5, <1>6, <1>7

\* A write that fails, and
LEMMA FailPreserves ==
  ASSUME IInv, NEW w \in Writes, ThreadWriteFails(w)
  PROVE  IInv'
<1>1. mem' \in Seq(Written) BY DEF IInv, TypeOK, ThreadWriteFails, db
<1>2. QED BY <1>1, ExecutedPreserves DEF ThreadWriteFails, db

\* one that succeeds, end as ExecutedPreserves says.
LEMMA InsertPreserves ==
  ASSUME IInv, NEW w \in Writes, ThreadInsertsIntoMemtable(w)
  PROVE  IInv'
<1>1. executing[w] BY DEF IInv, OnePlace, ThreadInsertsIntoMemtable
<1>2. w \in DOMAIN args BY <1>1 DEF IInv, PendingAlive, InFlight, TypeOK
<1>3. mem' \in Seq(Written)
  BY <1>2, RecordType DEF IInv, TypeOK, Args, ThreadInsertsIntoMemtable
<1>4. QED BY <1>1, <1>3, ExecutedPreserves DEF ThreadInsertsIntoMemtable

\* Finish takes the item from its last place and settles the promise.
LEMMA FinishPreserves ==
  ASSUME IInv, NEW w \in Writes, Finish(w)
  PROVE  IInv'
<1> USE DEF IInv, Finish, objects, db
<1>1. /\ doneq' \in Seq(Writes) /\ IsInjective(doneq') /\ Contains(doneq, w)
      /\ \A v : Contains(doneq', v) <=> Contains(doneq, v) /\ v # w
  BY TailOfInjective DEF TypeOK, OnePlace
<1>2. ~executing[w] /\ ~Contains(queue, w) /\ deferred[w] = "pending"
  BY <1>1 DEF OnePlace, PendingAlive, InFlight
<1>3. /\ deferred' \in [Writes -> {"none", "pending", "resolved", "rejected"}]
      /\ deferred'[w] \in {"resolved", "rejected"}
      /\ \A v \in Writes : v # w => deferred'[v] = deferred[v]
  BY DEF TypeOK
<1>4. TypeOK' BY <1>1, <1>2, <1>3 DEF TypeOK
<1>5. OnePlace' BY <1>1 DEF OnePlace, Contains
<1>6. PendingAlive'
  <2>1. \A v \in Writes : InFlight(v)' => InFlight(v) /\ v # w
    BY <1>1, <1>2 DEF InFlight, Contains
  <2>2. QED BY <1>2, <1>3, <2>1 DEF PendingAlive
<1>7. Protected' BY <1>3 DEF Protected
<1>8. QED BY <1>4, <1>5, <1>6, <1>7

\* The collector frees neither a pending promise nor a handle that is held.
LEMMA CollectPreserves ==
  ASSUME IInv, NEW h \in Handles, Collect(h)
  PROVE  IInv'
<1> USE DEF IInv, Collect, Rooted, Pending, promise, pool, db
<1>1. TypeOK' BY DEF TypeOK
<1>2. OnePlace' BY DEF OnePlace, Contains
<1>3. PendingAlive' BY DEF PendingAlive, InFlight, Contains, TypeOK, Handles
<1>4. Protected' BY DEF Protected, TypeOK
<1>5. QED BY <1>1, <1>2, <1>3, <1>4

\* Nothing changes.
LEMMA StutterPreserves ==
  ASSUME IInv, UNCHANGED vars
  PROVE  IInv'
<1> USE DEF IInv, vars, objects, promise, pool, db
<1>1. TypeOK' BY DEF TypeOK
<1>2. OnePlace' BY DEF OnePlace, Contains
<1>3. PendingAlive' BY DEF PendingAlive, InFlight, Contains
<1>4. Protected' BY DEF Protected
<1>5. QED BY <1>1, <1>2, <1>3, <1>4

\* Every step.
LEMMA NextIInv == IInv /\ [Next]_vars => IInv'
<1> SUFFICES ASSUME IInv, [Next]_vars PROVE IInv' OBVIOUS
<1>1. CASE JavaScript
  <2>1. ASSUME NEW b \in Batches, rocksdb_batch_init(b) PROVE IInv'
    BY <2>1, NewPreserves DEF rocksdb_batch_init
  <2>2. ASSUME NEW b \in Batches, rocksdb_batch_clear(b) PROVE IInv'
    <3>1. content' \in [Batches -> Seq(Ops)] BY <2>2 DEF rocksdb_batch_clear, IInv, TypeOK
    <3>2. noWAL' \in [Options -> BOOLEAN] BY <2>2 DEF rocksdb_batch_clear, IInv, TypeOK
    <3>3. QED BY <2>2, <3>1, <3>2, ModifyPreserves DEF rocksdb_batch_clear
  <2>3. ASSUME NEW o \in Options, rocksdb_write_options_init(o) PROVE IInv'
    BY <2>3, NewPreserves DEF rocksdb_write_options_init
  <2>4. ASSUME NEW b \in Batches, NEW op \in Ops, rocksdb_batch_put(b, op) PROVE IInv'
    <3>1. content' \in [Batches -> Seq(Ops)] BY <2>4 DEF rocksdb_batch_put, IInv, TypeOK
    <3>2. noWAL' \in [Options -> BOOLEAN] BY <2>4 DEF rocksdb_batch_put, IInv, TypeOK
    <3>3. QED BY <2>4, <3>1, <3>2, ModifyPreserves DEF rocksdb_batch_put
  <2>5. ASSUME NEW o \in Options, NEW value \in BOOLEAN,
               rocksdb_write_options_set_disableWAL(o, value)
        PROVE  IInv'
    <3>1. noWAL' \in [Options -> BOOLEAN]
      BY <2>5 DEF rocksdb_write_options_set_disableWAL, IInv, TypeOK
    <3>2. content' \in [Batches -> Seq(Ops)]
      BY <2>5 DEF rocksdb_write_options_set_disableWAL, IInv, TypeOK
    <3>3. QED BY <2>5, <3>1, <3>2, ModifyPreserves DEF rocksdb_write_options_set_disableWAL
  <2>6. ASSUME NEW b \in Batches, NEW o \in Options, rocksdb_batch_write(b, o) PROVE IInv'
    BY <2>6, WritePreserves
  <2>7. ASSUME NEW w \in Writes, NEW b \in Batches, NEW o \in Options,
               rocksdb_batch_write_async(w, b, o)
        PROVE  IInv'
    BY <2>7, StartPreserves
  <2>8. CASE rocksdb_close \/ \E h \in Handles : Drop(h) BY <2>8, CloseDropPreserves
  <2>9. QED BY <1>1, <2>1, <2>2, <2>3, <2>4, <2>5, <2>6, <2>7, <2>8 DEF JavaScript
<1>2. CASE Pool
  BY <1>2, BeginPreserves, LogPreserves, FailPreserves, InsertPreserves DEF Pool
<1>3. CASE EventLoop BY <1>3, FinishPreserves DEF EventLoop
<1>4. CASE GarbageCollector BY <1>4, CollectPreserves DEF GarbageCollector
<1>5. CASE UNCHANGED vars BY <1>5, StutterPreserves
<1>6. QED BY <1>1, <1>2, <1>3, <1>4, <1>5 DEF Next

\* The invariant holds in every state a program can get the binding into.
THEOREM Invariance == Spec => []IInv
BY InitIInv, NextIInv, PTL DEF Spec

-----------------------------------------------------------------------------
\* Every variable keeps its type, and exactly the started writes have arguments.
THEOREM TypeCorrect == Spec => []TypeOK
<1>1. IInv => TypeOK BY DEF IInv
<1>2. QED BY <1>1, Invariance, PTL

\* The native Promise of a write is never deleted under the pool or the event
\* loop, whatever the client does: ~Promise never meets a pending work item.
THEOREM PromiseSafe == Spec => []PromiseOutlivesWork
<1>1. IInv => PromiseOutlivesWork BY DEF IInv, PendingAlive, PromiseOutlivesWork
<1>2. QED BY <1>1, Invariance, PTL

\* A client that holds its handles until the promise settles never has the
\* pool follow a pointer to a deleted batch or options object.
THEOREM ArgumentsSafe ==
  ASSUME "hold" \in Careful
  PROVE  Spec => []ArgumentsOutliveWork
<1>1. IInv => ArgumentsOutliveWork
  BY DEF IInv, PendingAlive, Protected, ArgumentsOutliveWork, InFlight
<1>2. QED BY <1>1, Invariance, PTL

\* A client that awaits its writes before rocksdb_close never has one run on a
\* closed database.
THEOREM CloseSafe ==
  ASSUME "await" \in Careful
  PROVE  Spec => []NoWriteOnClosedDb
<1>1. IInv => NoWriteOnClosedDb
  BY DEF IInv, PendingAlive, Protected, NoWriteOnClosedDb, InFlight
<1>2. QED BY <1>1, Invariance, PTL

\* A promise settles once, after its write has ended.
THEOREM SettledOnce == Spec => SettlesOnce
<1> DEFINE Settles(w) ==
      /\ deferred[w] \in {"resolved", "rejected"} => deferred'[w] = deferred[w]
      /\ deferred'[w] # deferred[w] /\ deferred[w] = "pending"
           => ~executing[w] /\ ~Contains(queue, w)
<1>1. ASSUME IInv, [Next]_vars, NEW w \in Writes PROVE Settles(w)
  <2>1. CASE \E v \in Writes, b \in Batches, o \in Options : rocksdb_batch_write_async(v, b, o)
    <3>1. PICK v \in Writes, b \in Batches, o \in Options : rocksdb_batch_write_async(v, b, o)
      BY <2>1
    <3>2. deferred[v] = "none" /\ deferred' = [deferred EXCEPT ![v] = "pending"]
      BY <1>1, <3>1 DEF rocksdb_batch_write_async, New, IInv, PendingAlive, TypeOK
    <3>3. QED BY <1>1, <3>2 DEF IInv, TypeOK
  <2>2. CASE EventLoop
    <3>1. PICK v \in Writes : Finish(v) BY <2>2 DEF EventLoop
    <3>2. Contains(doneq, v)
      BY <1>1, <3>1, TailOfInjective DEF IInv, TypeOK, OnePlace, Finish
    <3>3. ~executing[v] /\ ~Contains(queue, v) /\ deferred[v] = "pending"
      BY <1>1, <3>2 DEF IInv, OnePlace, PendingAlive, InFlight
    <3>4. w # v => deferred'[w] = deferred[w] BY <1>1, <3>1 DEF Finish, IInv, TypeOK
    <3>5. QED BY <3>3, <3>4
  <2>3. CASE deferred' = deferred BY <2>3
  <2>4. QED
    <3>1. JavaScript => \/ deferred' = deferred
                        \/ \E v \in Writes, b \in Batches, o \in Options :
                             rocksdb_batch_write_async(v, b, o)
      BY DEF JavaScript, rocksdb_batch_init, rocksdb_batch_clear, rocksdb_write_options_init,
             rocksdb_batch_put, rocksdb_write_options_set_disableWAL, rocksdb_batch_write,
             rocksdb_close, Drop, promise
    <3>2. Pool \/ GarbageCollector => deferred' = deferred
      BY DEF Pool, GarbageCollector, Begin, ThreadWritesLog, ThreadWriteFails,
             ThreadInsertsIntoMemtable, Collect, promise
    <3>3. UNCHANGED vars => deferred' = deferred BY DEF vars, promise
    <3>4. QED BY <1>1, <2>1, <2>2, <2>3, <3>1, <3>2, <3>3 DEF Next
<1>2. IInv /\ [Next]_vars => [\A w \in Writes : Settles(w)]_vars BY <1>1
<1>3. QED BY <1>2, Invariance, PTL DEF Spec, SettlesOnce

-----------------------------------------------------------------------------
(***************************************************************************)
(* What the log, the memtables and the promises say of a write.  A client  *)
(* that leaves batches and options of pending writes alone ("sync") has    *)
(* both steps of db->Write see what it submitted.                          *)
(***************************************************************************)
RecoverableIn(m) == {i \in DOMAIN m : ~m[i].noWAL}
ReplaysIn(m, l) == \E at \in [DOMAIN l -> RecoverableIn(m)] :
  /\ \A i, j \in DOMAIN l : i < j => at[i] < at[j]
  /\ \A k \in RecoverableIn(m) : \E i \in DOMAIN l : at[i] = k
  /\ \A i \in DOMAIN l : l[i] = m[at[i]]
WrittenIn(m, w) == {i \in DOMAIN m : m[i].by = w}
OnceIn(m, w, r) == \E i \in DOMAIN m : WrittenIn(m, w) = {i} /\ m[i] = r

\* What appending does, and what takes it back.
LEMMA AppendFacts ==
  ASSUME NEW S, NEW s \in Seq(S), NEW x \in S
  PROVE  /\ Append(s, x) \in Seq(S) /\ Append(s, x) # <<>>
         /\ Len(s) \in Nat /\ DOMAIN s = 1 .. Len(s)
         /\ DOMAIN Append(s, x) = 1 .. Len(s) + 1
         /\ \A i \in 1 .. Len(s) : Append(s, x)[i] = s[i]
         /\ Append(s, x)[Len(s) + 1] = x
         /\ Front(Append(s, x)) = s /\ Last(Append(s, x)) = x
<1>1. /\ Append(s, x) \in Seq(S) /\ Append(s, x) # <<>>
      /\ Len(s) \in Nat /\ DOMAIN s = 1 .. Len(s) /\ Len(Append(s, x)) = Len(s) + 1
      /\ DOMAIN Append(s, x) = 1 .. Len(s) + 1
      /\ \A i \in 1 .. Len(s) : Append(s, x)[i] = s[i]
      /\ Append(s, x)[Len(s) + 1] = x
  OBVIOUS
<1>2. Len(s) + 1 - 1 = Len(s) BY <1>1
<1>3. /\ SubSeq(Append(s, x), 1, Len(s)) \in Seq(S)
      /\ Len(SubSeq(Append(s, x), 1, Len(s))) = Len(s)
      /\ \A i \in 1 .. Len(s) : SubSeq(Append(s, x), 1, Len(s))[i] = s[i]
  BY <1>1
<1>4. SubSeq(Append(s, x), 1, Len(s)) = s BY <1>1, <1>3
<1>5. QED BY <1>1, <1>2, <1>4 DEF Front, Last

\* A record that goes to both is replayed at its place.
LEMMA ReplaysBoth ==
  ASSUME NEW m \in Seq(Written), NEW l \in Seq(Written), NEW r \in Written,
         ReplaysIn(m, l), ~r.noWAL
  PROVE  ReplaysIn(Append(m, r), Append(l, r))
<1> DEFINE M == Append(m, r)
           L == Append(l, r)
<1>1. /\ Len(m) \in Nat /\ DOMAIN m = 1 .. Len(m) /\ DOMAIN M = 1 .. Len(m) + 1
      /\ \A i \in 1 .. Len(m) : M[i] = m[i]
      /\ M[Len(m) + 1] = r
  BY AppendFacts
<1>2. /\ Len(l) \in Nat /\ DOMAIN l = 1 .. Len(l) /\ DOMAIN L = 1 .. Len(l) + 1
      /\ \A i \in 1 .. Len(l) : L[i] = l[i]
      /\ L[Len(l) + 1] = r
  BY AppendFacts
<1> HIDE DEF M, L
<1>3. RecoverableIn(M) = RecoverableIn(m) \cup {Len(m) + 1} BY <1>1 DEF RecoverableIn
<1>4. \A k \in RecoverableIn(m) : k \in 1 .. Len(m) BY <1>1 DEF RecoverableIn
<1>5. PICK at \in [DOMAIN l -> RecoverableIn(m)] :
        /\ \A i, j \in DOMAIN l : i < j => at[i] < at[j]
        /\ \A k \in RecoverableIn(m) : \E i \in DOMAIN l : at[i] = k
        /\ \A i \in DOMAIN l : l[i] = m[at[i]]
  BY DEF ReplaysIn
<1> DEFINE At == [i \in DOMAIN L |-> IF i = Len(l) + 1 THEN Len(m) + 1 ELSE at[i]]
<1>6. /\ At \in [DOMAIN L -> RecoverableIn(M)]
      /\ At[Len(l) + 1] = Len(m) + 1 /\ \A i \in 1 .. Len(l) : At[i] = at[i]
  BY <1>2, <1>3
<1> HIDE DEF At
<1>7. ASSUME NEW i \in DOMAIN L, NEW j \in DOMAIN L, i < j PROVE At[i] < At[j]
  <2>1. i \in 1 .. Len(l) BY <1>2, <1>7
  <2>2. CASE j = Len(l) + 1 BY <1>1, <1>2, <1>4, <1>6, <2>1, <2>2
  <2>3. CASE j \in 1 .. Len(l) BY <1>2, <1>5, <1>6, <1>7, <2>1, <2>3
  <2>4. QED BY <1>2, <2>2, <2>3
<1>8. ASSUME NEW k \in RecoverableIn(M) PROVE \E i \in DOMAIN L : At[i] = k
  <2>1. CASE k = Len(m) + 1 BY <1>2, <1>6, <2>1
  <2>2. CASE k \in RecoverableIn(m)
    <3>1. PICK i \in DOMAIN l : at[i] = k BY <1>5, <2>2
    <3>2. QED BY <1>2, <1>6, <3>1
  <2>3. QED BY <1>3, <2>1, <2>2
<1>9. ASSUME NEW i \in DOMAIN L PROVE L[i] = M[At[i]]
  <2>1. CASE i = Len(l) + 1 BY <1>1, <1>2, <1>6, <2>1
  <2>2. CASE i \in 1 .. Len(l) BY <1>1, <1>2, <1>4, <1>5, <1>6, <2>2
  <2>3. QED BY <1>2, <2>1, <2>2
<1>10. ReplaysIn(M, L) BY <1>6, <1>7, <1>8, <1>9 DEF ReplaysIn
<1>11. QED BY <1>10 DEF M, L

\* One that bypasses the log is not missed.
LEMMA ReplaysSkipped ==
  ASSUME NEW m \in Seq(Written), NEW l, NEW r \in Written, ReplaysIn(m, l), r.noWAL
  PROVE  ReplaysIn(Append(m, r), l)
<1> DEFINE M == Append(m, r)
<1>1. /\ Len(m) \in Nat /\ DOMAIN m = 1 .. Len(m) /\ DOMAIN M = 1 .. Len(m) + 1
      /\ \A i \in 1 .. Len(m) : M[i] = m[i]
      /\ M[Len(m) + 1] = r
  BY AppendFacts
<1> HIDE DEF M
<1>2. RecoverableIn(M) = RecoverableIn(m) BY <1>1 DEF RecoverableIn
<1>3. \A k \in RecoverableIn(m) : M[k] = m[k] BY <1>1 DEF RecoverableIn
<1>4. ReplaysIn(M, l) BY <1>2, <1>3 DEF ReplaysIn
<1>5. QED BY <1>4 DEF M

\* The memtables get one more record.
LEMMA WrittenGrows ==
  ASSUME NEW m \in Seq(Written), NEW r \in Written, NEW w
  PROVE  /\ r.by # w => /\ WrittenIn(Append(m, r), w) = WrittenIn(m, w)
                        /\ \A x : OnceIn(m, w, x) => OnceIn(Append(m, r), w, x)
         /\ r.by = w /\ WrittenIn(m, w) = {} => OnceIn(Append(m, r), w, r)
<1> DEFINE M == Append(m, r)
<1>1. /\ Len(m) \in Nat /\ DOMAIN m = 1 .. Len(m) /\ DOMAIN M = 1 .. Len(m) + 1
      /\ \A i \in 1 .. Len(m) : M[i] = m[i]
      /\ M[Len(m) + 1] = r
  BY AppendFacts
<1> HIDE DEF M
<1>2. ASSUME r.by # w PROVE WrittenIn(M, w) = WrittenIn(m, w) BY <1>1, <1>2 DEF WrittenIn
<1>3. ASSUME r.by # w, NEW x, OnceIn(m, w, x) PROVE OnceIn(M, w, x)
  BY <1>1, <1>2, <1>3 DEF OnceIn
<1>4. ASSUME r.by = w, WrittenIn(m, w) = {} PROVE OnceIn(M, w, r)
  <2>1. WrittenIn(M, w) = {Len(m) + 1} BY <1>1, <1>4 DEF WrittenIn
  <2>2. QED BY <1>1, <2>1 DEF OnceIn
<1>5. QED BY <1>2, <1>3, <1>4 DEF M

\* A pending write still points at what was submitted.
Undisturbed == \A w \in Writes : deferred[w] = "pending" =>
  content[args[w].batch] = args[w].ops /\ noWAL[args[w].options] = args[w].noWAL

\* The log replays to the memtables, or is one record ahead of them.
LogOK ==
  /\ logged = {} => ReplaysIn(mem, wal)
  /\ \A w \in logged :
       /\ logged = {w}
       /\ IF args[w].noWAL THEN ReplaysIn(mem, wal)
          ELSE wal # <<>> /\ ReplaysIn(mem, Front(wal)) /\ Last(wal) = AsSubmitted(w)

\* The flag a promise is settled from says what the memtables hold.
OutcomeOK == \A w \in Writes :
  /\ IF success[w] THEN OnceIn(mem, w, AsSubmitted(w)) ELSE WrittenIn(mem, w) = {}
  /\ deferred[w] = "none" \/ Contains(queue, w) \/ executing[w] => ~success[w]
  /\ deferred[w] = "resolved" => success[w]
  /\ deferred[w] = "rejected" => ~success[w]

Told == Undisturbed /\ LogOK /\ OutcomeOK

\* Nothing is written and nothing told.
LEMMA InitTold == Init => Told
<1> SUFFICES ASSUME Init PROVE Told OBVIOUS
<1>1. mem = <<>> /\ wal = <<>> /\ DOMAIN mem = {} /\ DOMAIN wal = {} BY DEF Init
<1>2. Undisturbed BY DEF Init, Undisturbed
<1>3. RecoverableIn(mem) = {} BY <1>1 DEF RecoverableIn
<1>4. ReplaysIn(mem, wal)
  <2>1. [i \in {} |-> i] \in [DOMAIN wal -> RecoverableIn(mem)] BY <1>1, <1>3
  <2>2. QED BY <1>1, <1>3, <2>1 DEF ReplaysIn
<1>5. LogOK BY <1>4 DEF Init, LogOK
<1>6. OutcomeOK BY <1>1 DEF Init, OutcomeOK, WrittenIn
<1>7. QED BY <1>2, <1>5, <1>6 DEF Told

\* Who executes is pending, with arguments of its own.
LEMMA ExecutingFacts ==
  ASSUME IInv, NEW w \in Writes, executing[w]
  PROVE  /\ deferred[w] = "pending" /\ w \in DOMAIN args /\ args[w] \in Args
         /\ args[w].batch \in Batches /\ args[w].options \in Options
         /\ AsSubmitted(w) \in Written
         /\ Undisturbed => Record(w, args[w].batch, args[w].options) = AsSubmitted(w)
<1>1. deferred[w] = "pending" BY DEF IInv, PendingAlive, InFlight
<1>2. w \in DOMAIN args /\ args[w] \in Args BY <1>1 DEF IInv, TypeOK
<1>3. QED BY <1>1, <1>2 DEF Args, Written, AsSubmitted, Record, Undisturbed

\* Steps that touch neither the log, the memtables nor a promise's fields.
LEMMA ToldSame ==
  ASSUME IInv, Told, UNCHANGED <<promise, pool, wal, mem>>,
         \A w \in Writes : deferred[w] = "pending" =>
           content'[args[w].batch] = content[args[w].batch]
           /\ noWAL'[args[w].options] = noWAL[args[w].options]
  PROVE  Told'
<1> USE DEF Told, promise, pool
<1>1. Undisturbed' BY DEF Undisturbed
<1>2. LogOK' BY DEF LogOK, AsSubmitted
<1>3. OutcomeOK' BY DEF OutcomeOK, AsSubmitted, Contains
<1>4. QED BY <1>1, <1>2, <1>3

\* Filling, clearing and setting, which a careful client does to no batch or
\* options of a pending write.
LEMMA ToldModify ==
  ASSUME "sync" \in Careful, IInv, Told, NEW h, MayModify(h),
         \A b \in Batches : b # h => content'[b] = content[b],
         \A o \in Options : o # h => noWAL'[o] = noWAL[o],
         UNCHANGED <<promise, pool, db>>
  PROVE  Told'
<1>1. ASSUME NEW w \in Writes, deferred[w] = "pending"
      PROVE  /\ content'[args[w].batch] = content[args[w].batch]
             /\ noWAL'[args[w].options] = noWAL[args[w].options]
  <2>1. args[w].batch \in Batches /\ args[w].options \in Options
    BY <1>1 DEF IInv, TypeOK, Args
  <2>2. args[w].batch # h /\ args[w].options # h
    BY <1>1 DEF MayModify, PendingOn, Pending
  <2>3. QED BY <2>1, <2>2
<1>2. QED BY <1>1, ToldSame DEF db

\* A synchronous write goes to both, and is nobody's promise.
LEMMA ToldWrite ==
  ASSUME IInv, Told, NEW b \in Batches, NEW o \in Options, rocksdb_batch_write(b, o)
  PROVE  Told'
<1> DEFINE r == Record("main", b, o)
<1> USE DEF Told
<1>1. r \in Written /\ r.by = "main" BY DEF IInv, TypeOK, Record, Written
<1>2. /\ logged = {} /\ wal' = (IF r.noWAL THEN wal ELSE Append(wal, r))
      /\ mem' = Append(mem, r) /\ UNCHANGED <<objects, promise, pool, closed>>
  BY DEF rocksdb_batch_write, ToLog
<1>3. mem \in Seq(Written) /\ wal \in Seq(Written) BY DEF IInv, TypeOK
<1>4. ReplaysIn(mem, wal) BY <1>2 DEF LogOK
<1> HIDE DEF r
<1>5. ReplaysIn(mem', wal')
  <2>1. CASE r.noWAL BY <1>1, <1>2, <1>3, <1>4, <2>1, ReplaysSkipped
  <2>2. CASE ~r.noWAL BY <1>1, <1>2, <1>3, <1>4, <2>2, ReplaysBoth
  <2>3. QED BY <2>1, <2>2
<1>6. Undisturbed' BY <1>2 DEF Undisturbed, objects, promise
<1>7. LogOK' BY <1>2, <1>5 DEF LogOK, pool
<1>8. \A w \in Writes : r.by # w BY <1>1, HandlesAssumption
<1>9. ASSUME NEW w \in Writes
      PROVE  /\ WrittenIn(mem', w) = WrittenIn(mem, w)
             /\ \A x : OnceIn(mem, w, x) => OnceIn(mem', w, x)
  BY <1>1, <1>2, <1>3, <1>8, WrittenGrows
<1>10. UNCHANGED <<args, deferred, success, executing, queue>> BY <1>2 DEF promise, pool
<1>11. OutcomeOK' BY <1>9, <1>10 DEF OutcomeOK, AsSubmitted, Contains
<1>12. QED BY <1>6, <1>7, <1>11

\* A new write has written nothing.
LEMMA ToldStart ==
  ASSUME IInv, Told, NEW w \in Writes, NEW b \in Batches, NEW o \in Options,
         rocksdb_batch_write_async(w, b, o)
  PROVE  Told'
<1> USE DEF Told
<1>1. deferred[w] = "none" /\ w \notin logged /\ ~success[w]
  <2>1. deferred[w] = "none" BY DEF IInv, PendingAlive, New, TypeOK, rocksdb_batch_write_async
  <2>2. QED BY <2>1 DEF OutcomeOK, IInv, OnePlace, PendingAlive, InFlight
<1>2. /\ args'[w] = [batch |-> b, options |-> o, ops |-> content[b], noWAL |-> noWAL[o]]
      /\ \A v \in DOMAIN args : v # w => args'[v] = args[v]
      /\ success' = [success EXCEPT ![w] = FALSE]
      /\ executing' = [executing EXCEPT ![w] = FALSE]
      /\ deferred' = [deferred EXCEPT ![w] = "pending"]
      /\ queue' = Append(queue, w)
      /\ UNCHANGED <<content, noWAL, logged, doneq, wal, mem, closed>>
  BY DEF rocksdb_batch_write_async, db
<1>3. DOMAIN args = {v \in Writes : deferred[v] # "none"} BY DEF IInv, TypeOK
<1>4. \A v \in Writes : v # w => deferred'[v] = deferred[v] /\ success'[v] = success[v]
                                 /\ executing'[v] = executing[v]
  BY <1>2 DEF IInv, TypeOK
<1>5. deferred'[w] = "pending" /\ ~success'[w] BY <1>2 DEF IInv, TypeOK
<1>6. Undisturbed' BY <1>2, <1>3, <1>4 DEF Undisturbed
<1>7. \A v \in logged : v \in Writes /\ v # w /\ v \in DOMAIN args
  BY <1>1, ExecutingFacts DEF IInv, OnePlace, TypeOK
<1>8. LogOK' BY <1>2, <1>7 DEF LogOK, AsSubmitted
<1>9. ASSUME NEW v \in Writes, v # w
      PROVE  /\ Contains(queue', v) => Contains(queue, v)
             /\ success[v] => AsSubmitted(v)' = AsSubmitted(v)
  <2>1. Contains(queue', v) => Contains(queue, v)
    BY <1>2, <1>9, AppendNew DEF IInv, TypeOK
  <2>2. success[v] => v \in DOMAIN args BY <1>3 DEF OutcomeOK
  <2>3. QED BY <1>2, <1>9, <2>1, <2>2 DEF AsSubmitted
<1>10. WrittenIn(mem', w) = {} BY <1>1, <1>2 DEF OutcomeOK
<1>11. ASSUME NEW v \in Writes
       PROVE  /\ IF success'[v] THEN OnceIn(mem', v, AsSubmitted(v)') ELSE WrittenIn(mem', v) = {}
              /\ deferred'[v] = "none" \/ Contains(queue', v) \/ executing'[v] => ~success'[v]
              /\ deferred'[v] = "resolved" => success'[v]
              /\ deferred'[v] = "rejected" => ~success'[v]
  <2>1. CASE v = w BY <1>5, <1>10, <2>1
  <2>2. CASE v # w BY <1>2, <1>4, <1>9, <2>2 DEF OutcomeOK
  <2>3. QED BY <2>1, <2>2
<1>12. OutcomeOK' BY <1>11 DEF OutcomeOK
<1>13. QED BY <1>6, <1>8, <1>12

\* Taking an item from the queue writes nothing.
LEMMA ToldBegin ==
  ASSUME IInv, Told, NEW w \in Writes, Begin(w)
  PROVE  Told'
<1> USE DEF Told
<1>1. /\ queue # <<>> /\ w = Head(queue) /\ queue' = Tail(queue)
      /\ executing' = [executing EXCEPT ![w] = TRUE]
      /\ UNCHANGED <<content, noWAL, args, success, deferred, logged, wal, mem>>
  BY DEF Begin, objects, db
<1>2. Contains(queue, w) /\ \A v : Contains(queue', v) <=> Contains(queue, v) /\ v # w
  BY <1>1, TailOfInjective DEF IInv, TypeOK, OnePlace
<1>3. Undisturbed' BY <1>1 DEF Undisturbed
<1>4. LogOK' BY <1>1 DEF LogOK, AsSubmitted
<1>5. \A v \in Writes : v # w => executing'[v] = executing[v] BY <1>1 DEF IInv, TypeOK
<1>6. ~success[w] BY <1>2 DEF OutcomeOK
<1>7. OutcomeOK' BY <1>1, <1>2, <1>5, <1>6 DEF OutcomeOK, AsSubmitted
<1>8. QED BY <1>3, <1>4, <1>7

\* WriteToWAL puts the log one record ahead.
LEMMA ToldLog ==
  ASSUME IInv, Told, NEW w \in Writes, ThreadWritesLog(w)
  PROVE  Told'
<1> DEFINE r == AsSubmitted(w)
<1> USE DEF Told
<1>1. /\ executing[w] /\ logged = {} /\ logged' = {w}
      /\ ToLog(Record(w, args[w].batch, args[w].options))
      /\ UNCHANGED <<content, noWAL, args, success, executing, deferred, queue, mem>>
  BY DEF ThreadWritesLog, objects, promise
<1>2. Record(w, args[w].batch, args[w].options) = r /\ r \in Written
  BY <1>1, ExecutingFacts
<1>3. wal' = (IF args[w].noWAL THEN wal ELSE Append(wal, r))
  BY <1>1, <1>2 DEF ToLog, AsSubmitted
<1>4. ReplaysIn(mem, wal) BY <1>1 DEF LogOK
<1>5. r' = r BY <1>1 DEF AsSubmitted
<1>6. wal \in Seq(Written) BY DEF IInv, TypeOK
<1> HIDE DEF r
<1>7. IF args'[w].noWAL THEN ReplaysIn(mem', wal')
      ELSE wal' # <<>> /\ ReplaysIn(mem', Front(wal')) /\ Last(wal') = r
  <2>1. CASE args[w].noWAL BY <1>1, <1>3, <1>4, <2>1
  <2>2. CASE ~args[w].noWAL
    <3>1. wal' # <<>> /\ Front(wal') = wal /\ Last(wal') = r
      BY <1>2, <1>3, <1>6, <2>2, AppendFacts
    <3>2. QED BY <1>1, <1>4, <2>2, <3>1
  <2>3. QED BY <2>1, <2>2
<1>8. LogOK' BY <1>1, <1>5, <1>7 DEF LogOK, r
<1>9. Undisturbed' BY <1>1 DEF Undisturbed
<1>10. OutcomeOK' BY <1>1 DEF OutcomeOK, AsSubmitted, Contains
<1>11. QED BY <1>8, <1>9, <1>10

\* A write that fails has not reached the log: the flag stays down.
LEMMA ToldFail ==
  ASSUME IInv, Told, NEW w \in Writes, ThreadWriteFails(w)
  PROVE  Told'
<1> USE DEF Told
<1>1. /\ executing[w] /\ success' = [success EXCEPT ![w] = FALSE]
      /\ executing' = [executing EXCEPT ![w] = FALSE]
      /\ UNCHANGED <<content, noWAL, args, deferred, queue, logged, wal, mem>>
  BY DEF ThreadWriteFails, Executed, objects, db
<1>2. ~success[w] BY <1>1 DEF OutcomeOK
<1>3. success' = success /\ \A v \in Writes : executing'[v] => executing[v]
  BY <1>1, <1>2 DEF IInv, TypeOK
<1>4. Undisturbed' BY <1>1 DEF Undisturbed
<1>5. LogOK' BY <1>1 DEF LogOK, AsSubmitted
<1>6. OutcomeOK' BY <1>1, <1>3 DEF OutcomeOK, AsSubmitted, Contains
<1>7. QED BY <1>4, <1>5, <1>6

\* The memtables catch up with the log, and the flag goes up.
LEMMA ToldInsert ==
  ASSUME IInv, Told, NEW w \in Writes, ThreadInsertsIntoMemtable(w)
  PROVE  Told'
<1> DEFINE r == AsSubmitted(w)
<1> USE DEF Told
<1>1. /\ w \in logged /\ logged' = {}
      /\ mem' = Append(mem, Record(w, args[w].batch, args[w].options))
      /\ success' = [success EXCEPT ![w] = TRUE]
      /\ executing' = [executing EXCEPT ![w] = FALSE]
      /\ UNCHANGED <<content, noWAL, args, deferred, queue, wal>>
  BY DEF ThreadInsertsIntoMemtable, Executed, objects
<1>2. executing[w] /\ ~success[w] BY <1>1 DEF IInv, OnePlace, OutcomeOK
<1>3. mem' = Append(mem, r) /\ r \in Written /\ deferred[w] = "pending"
  BY <1>1, <1>2, ExecutingFacts
<1>4. r.by = w /\ r.noWAL = args[w].noWAL BY DEF AsSubmitted
<1>5. mem \in Seq(Written) /\ wal \in Seq(Written) BY DEF IInv, TypeOK
<1>6. IF r.noWAL THEN ReplaysIn(mem, wal)
      ELSE wal # <<>> /\ ReplaysIn(mem, Front(wal)) /\ Last(wal) = r
  BY <1>1, <1>4 DEF LogOK
<1>7. \A v \in Writes : AsSubmitted(v)' = AsSubmitted(v) BY <1>1 DEF AsSubmitted
<1>8. WrittenIn(mem, w) = {} BY <1>2 DEF OutcomeOK
<1> HIDE DEF r
<1>9. ReplaysIn(mem', wal)
  <2>1. CASE r.noWAL BY <1>3, <1>5, <1>6, <2>1, ReplaysSkipped
  <2>2. CASE ~r.noWAL
    <3>1. Front(wal) \in Seq(Written) /\ wal = Append(Front(wal), Last(wal))
      BY <1>5, <1>6, <2>2 DEF Front, Last
    <3>2. QED BY <1>3, <1>5, <1>6, <2>2, <3>1, ReplaysBoth
  <2>3. QED BY <2>1, <2>2
<1>10. LogOK' BY <1>1, <1>9 DEF LogOK
<1>11. Undisturbed' BY <1>1 DEF Undisturbed
<1>12. OnceIn(mem', w, r) BY <1>3, <1>4, <1>5, <1>8, WrittenGrows
<1>13. ASSUME NEW v \in Writes, v # w
       PROVE  /\ WrittenIn(mem', v) = WrittenIn(mem, v)
              /\ \A x : OnceIn(mem, v, x) => OnceIn(mem', v, x)
              /\ success'[v] = success[v] /\ executing'[v] = executing[v]
  <2>1. success'[v] = success[v] /\ executing'[v] = executing[v]
    BY <1>1, <1>13 DEF IInv, TypeOK
  <2>2. QED BY <1>3, <1>4, <1>5, <1>13, <2>1, WrittenGrows
<1>14. success'[w] /\ ~executing'[w] /\ deferred'[w] = "pending" /\ ~Contains(queue', w)
  BY <1>1, <1>2, <1>3 DEF IInv, TypeOK, OnePlace, Contains
<1>15. ASSUME NEW v \in Writes
       PROVE  /\ IF success'[v] THEN OnceIn(mem', v, AsSubmitted(v)') ELSE WrittenIn(mem', v) = {}
              /\ deferred'[v] = "none" \/ Contains(queue', v) \/ executing'[v] => ~success'[v]
              /\ deferred'[v] = "resolved" => success'[v]
              /\ deferred'[v] = "rejected" => ~success'[v]
  <2>1. CASE v = w BY <1>7, <1>12, <1>14, <2>1 DEF r
  <2>2. CASE v # w
    <3>1. Contains(queue', v) <=> Contains(queue, v) BY <1>1 DEF Contains
    <3>2. QED BY <1>1, <1>7, <1>13, <2>2, <3>1 DEF OutcomeOK
  <2>3. QED BY <2>1, <2>2
<1>16. OutcomeOK' BY <1>15 DEF OutcomeOK
<1>17. QED BY <1>10, <1>11, <1>16

\* Finish settles from the flag.
LEMMA ToldFinish ==
  ASSUME IInv, Told, NEW w \in Writes, Finish(w)
  PROVE  Told'
<1> USE DEF Told
<1>1. /\ deferred' = [deferred EXCEPT ![w] = IF success[w] THEN "resolved" ELSE "rejected"]
      /\ UNCHANGED <<content, noWAL, args, executing, success, queue, logged, wal, mem>>
  BY DEF Finish, objects, db
<1>2. Contains(doneq, w) BY TailOfInjective DEF Finish, IInv, TypeOK, OnePlace
<1>3. ~executing[w] /\ ~Contains(queue, w) BY <1>2 DEF IInv, OnePlace
<1>4. /\ deferred'[w] = IF success[w] THEN "resolved" ELSE "rejected"
      /\ \A v \in Writes : v # w => deferred'[v] = deferred[v]
  BY <1>1 DEF IInv, TypeOK
<1>5. Undisturbed' BY <1>1, <1>4 DEF Undisturbed
<1>6. LogOK' BY <1>1 DEF LogOK, AsSubmitted
<1>7. OutcomeOK' BY <1>1, <1>3, <1>4 DEF OutcomeOK, AsSubmitted, Contains
<1>8. QED BY <1>5, <1>6, <1>7

\* Every step.
LEMMA NextTold == "sync" \in Careful => (IInv /\ Told /\ [Next]_vars => Told')
<1> SUFFICES ASSUME "sync" \in Careful, IInv, Told, [Next]_vars PROVE Told' OBVIOUS
<1>1. CASE UNCHANGED <<content, noWAL, promise, pool, wal, mem>> BY <1>1, ToldSame
<1>2. ASSUME NEW b \in Batches,
             rocksdb_batch_clear(b) \/ \E op \in Ops : rocksdb_batch_put(b, op)
      PROVE  Told'
  <2>1. MayModify(b) /\ UNCHANGED <<noWAL, promise, pool, db>>
    BY <1>2 DEF rocksdb_batch_clear, rocksdb_batch_put
  <2>2. \A c \in Batches : c # b => content'[c] = content[c]
    BY <1>2 DEF rocksdb_batch_clear, rocksdb_batch_put, IInv, TypeOK
  <2>3. QED BY <2>1, <2>2, ToldModify
<1>3. ASSUME NEW o \in Options, NEW value \in BOOLEAN,
             rocksdb_write_options_set_disableWAL(o, value)
      PROVE  Told'
  <2>1. MayModify(o) /\ UNCHANGED <<content, promise, pool, db>>
    BY <1>3 DEF rocksdb_write_options_set_disableWAL
  <2>2. \A c \in Options : c # o => noWAL'[c] = noWAL[c]
    BY <1>3 DEF rocksdb_write_options_set_disableWAL, IInv, TypeOK
  <2>3. QED BY <2>1, <2>2, ToldModify
<1>4. CASE JavaScript
  <2>1. \A b \in Batches : rocksdb_batch_init(b) => Told'
    BY <1>1 DEF rocksdb_batch_init, db
  <2>2. \A o \in Options : rocksdb_write_options_init(o) => Told'
    BY <1>1 DEF rocksdb_write_options_init, db
  <2>3. \A h \in Handles : Drop(h) => Told' BY <1>1 DEF Drop, db
  <2>4. rocksdb_close => Told' BY <1>1 DEF rocksdb_close, objects
  <2>5. QED BY <1>2, <1>3, <1>4, <2>1, <2>2, <2>3, <2>4, ToldWrite, ToldStart DEF JavaScript
<1>5. CASE Pool BY <1>5, ToldBegin, ToldLog, ToldFail, ToldInsert DEF Pool
<1>6. CASE EventLoop BY <1>6, ToldFinish DEF EventLoop
<1>7. CASE GarbageCollector BY <1>1, <1>7 DEF GarbageCollector, Collect, db
<1>8. CASE UNCHANGED vars BY <1>1, <1>8 DEF vars, objects, db
<1>9. QED BY <1>4, <1>5, <1>6, <1>7, <1>8 DEF Next

\* From Invariance.
LEMMA ToldAlways == ASSUME "sync" \in Careful PROVE Spec => []Told
<1>1. IInv /\ Told /\ [Next]_vars => Told' BY NextTold
<1>2. QED BY <1>1, InitTold, Invariance, PTL DEF Spec

\* A resolved promise means that the batch as submitted was written once, a
\* rejected one that nothing was: execute() and Finish of BatchWritePromise,
\* for a client that modifies no batch or options of a pending write.
THEOREM PromisesTellTheTruth ==
  ASSUME "sync" \in Careful
  PROVE  Spec => []SettledTellsTheTruth
<1>1. Told => SettledTellsTheTruth
  BY DEF Told, OutcomeOK, SettledTellsTheTruth, OnceIn, WrittenIn, WrittenBy
<1>2. QED BY <1>1, ToldAlways, PTL

\* Replaying the log recovers what was written, whatever writes fail, overlap
\* in the pool or bypass the log.
THEOREM LogReplays ==
  ASSUME "sync" \in Careful
  PROVE  Spec => []LogMatchesMemtables
<1>1. IInv /\ Told => LogMatchesMemtables
  <2> SUFFICES ASSUME IInv, Told PROVE LogMatchesMemtables OBVIOUS
  <2>1. \A l : ReplaysIn(mem, l) => Replays(l)
    BY DEF ReplaysIn, RecoverableIn, Replays, Recoverable
  <2>2. CASE logged = {} BY <2>1, <2>2 DEF Told, LogOK, LogMatchesMemtables
  <2>3. ASSUME NEW w \in logged PROVE LogMatchesMemtables
    <3>1. w \in Writes /\ executing[w] BY <2>3 DEF IInv, TypeOK, OnePlace
    <3>2. Record(w, args[w].batch, args[w].options) = AsSubmitted(w)
      BY <3>1, ExecutingFacts DEF Told
    <3>3. QED BY <2>1, <2>3, <3>2 DEF Told, LogOK, LogMatchesMemtables
  <2>4. QED BY <2>2, <2>3
<1>2. QED BY <1>1, Invariance, ToldAlways, PTL
=============================================================================
