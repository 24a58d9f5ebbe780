-------------------------------- MODULE Mvcc ---------------------------------
(***************************************************************************)
(* The versioned store behind the binding's handles: DBImpl's read path,   *)
(* its snapshots and iterators, the publication of a batch, the switch of  *)
(* memtables, flush and compaction (deps/rocksdb/rocksdb/db).              *)
(*                                                                         *)
(* Three threads.  The JavaScript thread makes one blocking call at a time *)
(* (rocksdb_get, rocksdb_iterator_init, ...).  A writer thread runs one    *)
(* batch: that is the JavaScript thread itself for a synchronous write,    *)
(* and a pool thread for rocksdb_batch_write_async, which overlaps what    *)
(* Async names.  The engine's background thread flushes and compacts.      *)
(*                                                                         *)
(* What a read walks is a SuperVersion: the mutable memtable, the          *)
(* immutable ones and the sorted runs, referenced together.  A memtable is *)
(* an object, so a read that referenced it sees what is inserted later.    *)
(***************************************************************************)
EXTENDS Versions, Sequences, FiniteSets

CONSTANTS
  Keys,        \* user keys, numbers: the order of the keys matters
  Snapshots, Iterators,
  Programs,    \* batches a client writes: sequences of [key, del]
  None,
  Async,       \* what a pool thread's write may overlap: "idle" and calls
  MaxSeq,      \* bound: updates made
  MaxMem       \* bound: memtables ever created

ASSUME KeysAssumption == Keys \subseteq Nat /\ None \notin Nat
ASSUME AsyncAssumption == Async \subseteq {"idle", "get", "iter", "refresh"}
ASSUME BoundsAssumption == MaxSeq \in Nat /\ MaxMem \in Nat \ {0}
ASSUME ProgramsAssumption == \A ops \in Programs :
  ops \in Seq([key : Keys, del : BOOLEAN]) /\ ops # <<>>

VARIABLES
  table,       \* memtable -> its entries
  mem,         \* the mutable memtable
  imm,         \* immutable memtables, newest first
  runs,        \* sorted runs of files, newest first
  lastSeq,     \* VersionSet::LastSequence, the last published number
  snapshots,   \* snapshot -> its number, or None: DBImpl::snapshots_
  iters,       \* iterator -> [seq, sv, explicit], or None
  writer,      \* the batch being inserted: [by, ops, done], or None
  flush,       \* the running flush: [tables, snaps], or None
  compaction,  \* the running compaction: [from, to, snaps], or None
  call,        \* the JavaScript thread's read: see Idle
  got          \* answer of the running Get, or None

vars == <<table, mem, imm, runs, lastSeq, snapshots, iters, writer, flush,
          compaction, call, got>>
store == <<table, mem, imm, runs>>
jobs == <<flush, compaction>>

\* A SuperVersion, and what GetReferencedSuperVersion returns.
SuperVersion == [mem |-> mem, imm |-> imm, runs |-> runs]

\* The levels a read walks, newest first, and all their entries.
Levels(sv) == <<table[sv.mem]>> \o [i \in DOMAIN sv.imm |-> table[sv.imm[i]]] \o sv.runs
Entries(sv) == UNION {Levels(sv)[i] : i \in DOMAIN Levels(sv)}

\* Get stops at the first level that has a visible entry of the key.
GetFrom(sv, k, n) ==
  LET holds == {i \in DOMAIN Levels(sv) : \E e \in Levels(sv)[i] : VisibleAt(e, k, n)}
  IN IF holds = {} THEN Deleted
     ELSE Lookup(Levels(sv)[CHOOSE i \in holds : \A j \in holds : i <= j], k, n)

\* An iterator merges all the levels.
View(sv, n) == [k \in Keys |-> Lookup(Entries(sv), k, n)]

\* op: "idle", "get", "iter" or "refresh"; at: the snapshot the read options
\* name, or None; seq, sv: what the call has read so far, or None; since (for
\* the refinement only): the maps there were since the call began.
Idle == [op |-> "idle", key |-> None, at |-> None, iter |-> None,
         seq |-> None, sv |-> None, since |-> {}]

Ats == Snapshots \cup {None}
Ops == {"idle", "get", "iter", "refresh"}
Entry == [key : Keys, seq : Nat, val : Nat]
Maps == [Keys -> Nat]
SuperVersions == [mem : 1 .. MaxMem, imm : Seq(1 .. MaxMem), runs : Seq(SUBSET Entry)]
IteratorStates == [seq : Nat, sv : SuperVersions, explicit : BOOLEAN]
Writers == [by : {"main", "pool"}, ops : Programs, done : Nat]
Flushes == [tables : Seq(1 .. MaxMem), snaps : SUBSET Nat]
Compactions == [from : Nat, to : Nat, snaps : SUBSET Nat]
Calls == [op : Ops, key : Keys \cup {None}, at : Ats, iter : Iterators \cup {None},
          seq : Nat \cup {None}, sv : SuperVersions \cup {None}, since : SUBSET Maps]

\* None is no map, no iterator and no batch: what there is differs from what
\* there is not.
ASSUME NoneAssumption == None \notin Maps /\ None \notin IteratorStates /\ None \notin Writers

\* Types; iterators read at published numbers, and the jobs hold positions of
\* lists that only they shorten.
TypeOK ==
  /\ table \in [1 .. MaxMem -> SUBSET Entry]
  /\ SuperVersion \in SuperVersions
  /\ lastSeq \in 0 .. MaxSeq
  /\ snapshots \in [Snapshots -> 0 .. MaxSeq \cup {None}]
  /\ iters \in [Iterators -> IteratorStates \cup {None}]
  /\ \A i \in Iterators : iters[i] # None => iters[i].seq <= lastSeq
  /\ writer \in Writers \cup {None} /\ (writer # None => writer.done <= Len(writer.ops))
  /\ flush \in Flushes \cup {None} /\ (flush # None => Len(flush.tables) <= Len(imm))
  /\ compaction \in Compactions \cup {None}
  /\ compaction # None => /\ 1 <= compaction.from /\ compaction.from <= compaction.to
                          /\ compaction.to <= Len(runs)
  /\ call \in Calls
  /\ got \in Nat \cup {None}

Init ==
  /\ table = [t \in 1 .. MaxMem |-> {}] /\ mem = 1 /\ imm = <<>> /\ runs = <<>>
  /\ lastSeq = 0
  /\ snapshots = [s \in Snapshots |-> None]
  /\ iters = [i \in Iterators |-> None]
  /\ writer = None /\ flush = None /\ compaction = None
  /\ call = Idle /\ got = None
-----------------------------------------------------------------------------
\* The JavaScript thread is free: no read call and no synchronous write of its.
JsFree == call = Idle /\ (writer # None => writer.by = "pool")

Listed == {snapshots[s] : s \in {t \in Snapshots : snapshots[t] # None}}

(***************************************************************************)
(* Writing a batch.  The numbers follow the last published one; the        *)
(* entries go in one by one and become visible together at the end.        *)
(***************************************************************************)
WriteBegin(by, ops) ==
  /\ writer = None
  /\ IF by = "pool" THEN call.op \in Async ELSE JsFree
  /\ lastSeq + Len(ops) <= MaxSeq
  /\ writer' = [by |-> by, ops |-> ops, done |-> 0]
  /\ UNCHANGED <<store, lastSeq, snapshots, iters, jobs, call, got>>

\* Mutant: each update is published as it goes in.
InsertPublishes ==
  /\ writer # None /\ writer.done < Len(writer.ops)
  /\ LET op == Head(writer.ops)
         e == [key |-> op.key, seq |-> lastSeq + 1,
               val |-> IF op.del THEN Deleted ELSE lastSeq + 1]
     IN /\ table' = [table EXCEPT ![mem] = @ \cup {e}]
        /\ lastSeq' = lastSeq + 1
        /\ writer' = IF Len(writer.ops) = 1 THEN None
                     ELSE [writer EXCEPT !.ops = Tail(@)]
  /\ UNCHANGED <<mem, imm, runs, snapshots, iters, jobs, call, got>>

Insert ==
  /\ writer # None /\ writer.done < Len(writer.ops)
  /\ LET n == writer.done + 1
         op == writer.ops[n]
         e == [key |-> op.key, seq |-> lastSeq + n,
               val |-> IF op.del THEN Deleted ELSE lastSeq + n]
     IN /\ table' = [table EXCEPT ![mem] = @ \cup {e}]
        /\ writer' = [writer EXCEPT !.done = n]
  /\ UNCHANGED <<mem, imm, runs, lastSeq, snapshots, iters, jobs, call, got>>

\* Mutant: one number too many.
PublishOneMore ==
  /\ writer # None /\ writer.done = Len(writer.ops)
  /\ lastSeq' = lastSeq + Len(writer.ops) + 1
  /\ writer' = None
  /\ UNCHANGED <<store, snapshots, iters, jobs, call, got>>

Publish ==
  /\ writer # None /\ writer.done = Len(writer.ops)
  /\ lastSeq' = lastSeq + Len(writer.ops)
  /\ writer' = None
  /\ call' = IF call = Idle THEN Idle
             ELSE [call EXCEPT !.since = @ \cup {View(SuperVersion, lastSeq')}]
  /\ UNCHANGED <<store, snapshots, iters, jobs, got>>

(***************************************************************************)
(* Snapshots.                                                              *)
(***************************************************************************)
GetSnapshot(s) ==
  /\ JsFree /\ snapshots[s] = None
  /\ snapshots' = [snapshots EXCEPT ![s] = lastSeq]
  /\ UNCHANGED <<store, lastSeq, iters, writer, jobs, call, got>>

ReleaseSnapshot(s) ==
  /\ JsFree /\ snapshots[s] # None
  /\ snapshots' = [snapshots EXCEPT ![s] = None]
  /\ UNCHANGED <<store, lastSeq, iters, writer, jobs, call, got>>

(***************************************************************************)
(* Get: the SuperVersion first, the number second, then the search.        *)
(***************************************************************************)
NumberFor(s) == IF s = None THEN lastSeq ELSE snapshots[s]

Begin(c) ==
  /\ JsFree
  /\ writer # None => c.op \in Async
  /\ c.at # None => snapshots[c.at] # None
  /\ call' = [c EXCEPT !.since = {View(SuperVersion, lastSeq)}]
  /\ UNCHANGED <<store, lastSeq, snapshots, iters, writer, jobs, got>>

GetBegin(k, s) == Begin([Idle EXCEPT !.op = "get", !.key = k, !.at = s, !.sv = SuperVersion])

GetReadsNumber ==
  /\ call.op = "get" /\ call.seq = None
  /\ call' = [call EXCEPT !.seq = NumberFor(call.at)]
  /\ UNCHANGED <<store, lastSeq, snapshots, iters, writer, jobs, got>>

GetSearches ==
  /\ call.op = "get" /\ call.seq # None /\ got = None
  /\ got' = GetFrom(call.sv, call.key, call.seq)
  /\ UNCHANGED <<store, lastSeq, snapshots, iters, writer, jobs, call>>

GetReturns ==
  /\ got # None
  /\ got' = None /\ call' = Idle
  /\ UNCHANGED <<store, lastSeq, snapshots, iters, writer, jobs>>

(***************************************************************************)
(* NewIterator and Refresh: the number first, the SuperVersion second.     *)
(***************************************************************************)
NewIteratorBegin(i, s) ==
  /\ iters[i] = None
  /\ Begin([Idle EXCEPT !.op = "iter", !.iter = i, !.at = s, !.seq = NumberFor(s)])

\* Not supported for an iterator made with a snapshot.
RefreshBegin(i) ==
  /\ iters[i] # None /\ ~iters[i].explicit
  /\ Begin([Idle EXCEPT !.op = "refresh", !.iter = i, !.seq = lastSeq])

\* Mutant: the iterator reads at the number of the moment, not of its snapshot.
ReferencesIgnoringSnapshot ==
  /\ call.op \in {"iter", "refresh"}
  /\ iters' = [iters EXCEPT ![call.iter] =
                 [seq |-> lastSeq, sv |-> SuperVersion, explicit |-> call.at # None]]
  /\ call' = Idle
  /\ UNCHANGED <<store, lastSeq, snapshots, writer, jobs, got>>

\* Refresh on the SuperVersion it already has only moves the number, which
\* referencing that SuperVersion again amounts to.
IteratorReferences ==
  /\ call.op \in {"iter", "refresh"}
  /\ iters' = [iters EXCEPT ![call.iter] =
                 [seq |-> call.seq, sv |-> SuperVersion, explicit |-> call.at # None]]
  /\ call' = Idle
  /\ UNCHANGED <<store, lastSeq, snapshots, writer, jobs, got>>

DeleteIterator(i) ==
  /\ JsFree /\ iters[i] # None
  /\ iters' = [iters EXCEPT ![i] = None]
  /\ UNCHANGED <<store, lastSeq, snapshots, writer, jobs, call, got>>

(***************************************************************************)
(* Memtables and files.                                                    *)
(***************************************************************************)
\* Done by the leader of the write group before it inserts, or as a writer of
\* its own: never while a batch is being inserted.
SwitchMemtable ==
  /\ writer # None => writer.done = 0
  /\ table[mem] # {}
  /\ mem < MaxMem
  /\ imm' = <<mem>> \o imm
  /\ mem' = mem + 1
  /\ UNCHANGED <<table, runs, lastSeq, snapshots, iters, writer, jobs, call, got>>

\* Picks every immutable memtable and the list of snapshots, both under the
\* database mutex; writes the file without it.
FlushBegin ==
  /\ flush = None /\ imm # <<>>
  /\ flush' = [tables |-> imm, snaps |-> Listed]
  /\ UNCHANGED <<store, lastSeq, snapshots, iters, writer, compaction, call, got>>

\* Mutant: the flushed run goes below the older ones.
FlushInstallsLast ==
  /\ flush # None
  /\ LET picked == UNION {table[flush.tables[i]] : i \in DOMAIN flush.tables}
     IN runs' = Append(runs, Rewrite(picked, flush.snaps, Keys, FALSE))
  /\ imm' = SubSeq(imm, 1, Len(imm) - Len(flush.tables))
  /\ flush' = None
  /\ UNCHANGED <<table, mem, lastSeq, snapshots, iters, writer, compaction, call, got>>

FlushInstalls ==
  /\ flush # None
  /\ LET picked == UNION {table[flush.tables[i]] : i \in DOMAIN flush.tables}
     IN runs' = <<Rewrite(picked, flush.snaps, Keys, FALSE)>> \o runs
  /\ imm' = SubSeq(imm, 1, Len(imm) - Len(flush.tables))
  /\ flush' = None
  /\ UNCHANGED <<table, mem, lastSeq, snapshots, iters, writer, compaction, call, got>>

\* Merges neighbouring runs.  Positions count from the oldest run, so a flush
\* that adds a newer one meanwhile moves none of them.
CompactionBegin(from, to) ==
  /\ compaction = None
  /\ 1 <= from /\ from <= to /\ to <= Len(runs)
  /\ compaction' = [from |-> from, to |-> to, snaps |-> Listed]
  /\ UNCHANGED <<store, lastSeq, snapshots, iters, writer, flush, call, got>>

\* KeyNotExistsBeyondOutputLevel looks at the key range of each older file.
Beyond(older) == {k \in Keys : \E i \in DOMAIN older :
  \E e, f \in older[i] : e.key <= k /\ k <= f.key}

CompactionInstalls ==
  /\ compaction # None
  /\ LET n == Len(runs)
         newer == SubSeq(runs, 1, n - compaction.to)
         older == SubSeq(runs, n - compaction.from + 2, n)
         inputs == UNION {runs[i] : i \in n - compaction.to + 1 .. n - compaction.from + 1}
         output == Rewrite(inputs, compaction.snaps, Beyond(older), compaction.from = 1)
     IN runs' = newer \o (IF output = {} THEN <<>> ELSE <<output>>) \o older
  /\ compaction' = None
  /\ UNCHANGED <<table, mem, imm, lastSeq, snapshots, iters, writer, flush, call, got>>

JavaScript ==
  \/ \E ops \in Programs : WriteBegin("main", ops)
  \/ \E s \in Snapshots : GetSnapshot(s) \/ ReleaseSnapshot(s)
  \/ \E k \in Keys, s \in Ats : GetBegin(k, s)
  \/ GetReadsNumber \/ GetSearches \/ GetReturns
  \/ \E i \in Iterators, s \in Ats : NewIteratorBegin(i, s)
  \/ \E i \in Iterators : RefreshBegin(i) \/ DeleteIterator(i)
  \/ IteratorReferences

Writer == Insert \/ Publish \/ \E ops \in Programs : WriteBegin("pool", ops)

Background ==
  \/ SwitchMemtable
  \/ FlushBegin \/ FlushInstalls
  \/ \E from, to \in 1 .. Len(runs) : CompactionBegin(from, to)
  \/ CompactionInstalls

Next == JavaScript \/ Writer \/ Background

Spec == Init /\ [][Next]_vars
-----------------------------------------------------------------------------
(***************************************************************************)
(* The abstract store this one implements.                                 *)
(***************************************************************************)
SnapshotView(s) == IF snapshots[s] = None THEN None ELSE View(SuperVersion, snapshots[s])
IteratorView(i) == IF iters[i] = None THEN None ELSE View(iters[i].sv, iters[i].seq)

Abstract == INSTANCE KVStore WITH
  kv <- View(SuperVersion, lastSeq), seq <- lastSeq,
  snap <- [s \in Snapshots |-> SnapshotView(s)],
  iter <- [i \in Iterators |-> IteratorView(i)],
  call <- [op |-> call.op, key |-> call.key, at |-> call.at, iter |-> call.iter],
  since <- call.since

\* Flushes, compactions and memtable switches are invisible: every snapshot,
\* every iterator and every Get shows a map the store really went through, one
\* whole batch at a time, and a snapshot's map never changes.
ImplementsKVStore == Abstract!KSpec
-----------------------------------------------------------------------------
\* The levels are ordered by age: of two versions of a key, the one in the
\* newer level is the newer one, so Get may stop at the first level that has a
\* visible version and need not look for a better one further down.
LevelsOrdered == LET L == Levels(SuperVersion) IN
  \A i, j \in DOMAIN L : i < j =>
    \A e \in L[i], f \in L[j] : e.key = f.key => e.seq > f.seq

\* PrepareOutput's assertion: the entry whose number becomes zero is never a
\* deletion (compaction_iterator.cc:625).
NoDeletionGetsZero == \A e \in Entries(SuperVersion) : e.seq = 0 => e.val # Deleted

\* What an iterator shows is a map the store had while the iterator was being
\* made, or the one of the snapshot it was made with.
IteratorsShowAMapThatWas == [][\A i \in Iterators :
  iters'[i] # None /\ iters'[i] # iters[i] /\ ~iters'[i].explicit =>
    IteratorView(i)' \in call.since]_vars
=============================================================================
