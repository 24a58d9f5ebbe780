----------------------------- MODULE ReadHandles -----------------------------
(***************************************************************************)
(* The read half of the binding's handles: database, snapshots, read       *)
(* options, iterators, slices and the Buffers slices point into            *)
(* (src/binding.cc), and when the native objects behind them die.          *)
(*                                                                         *)
(* Each handle is an N-API external.  JavaScript decides which handles it  *)
(* can reach; the collector runs the finalizer of any other one, in any    *)
(* order; when the environment goes down every remaining finalizer runs.   *)
(* Native objects point at each other with raw pointers that keep nothing  *)
(* alive: read options at a snapshot and at slices, an iterator at what    *)
(* its options named when it was made, a slice at the bytes of a Buffer, a *)
(* snapshot's finalizer at the database.                                   *)
(*                                                                         *)
(* The database is its last sequence number, its list of snapshots and the *)
(* set of sequence numbers whose state a compaction has made unreadable.   *)
(***************************************************************************)
EXTENDS Naturals, FiniteSets

CONSTANTS
  DB,          \* the database handle
  Snapshots, ReadOpts, Iterators, Slices, Buffers,
  Null,        \* nullptr
  MaxSeq,      \* bound: sequence numbers the run reaches
  Careful      \* the precautions the JavaScript client takes, see below

(***************************************************************************)
(* What the client may be asked to do, the binding doing none of it:       *)
(*   "open"   it calls a function of the database only while it is open;   *)
(*   "pin"    it keeps reachable what a read options or iterator handle it *)
(*            can reach points at;                                         *)
(*   "drain"  it closes the database only once its iterators have been     *)
(*            finalized.                                                   *)
(***************************************************************************)
Precautions == {"open", "pin", "drain"}

ASSUME CarefulAssumption == Careful \subseteq Precautions
ASSUME BoundsAssumption == MaxSeq \in Nat
Handles == {DB} \cup Snapshots \cup ReadOpts \cup Iterators \cup Slices \cup Buffers
ASSUME HandlesAssumption ==
  /\ Null \notin Handles
  /\ DB \notin Snapshots \cup ReadOpts \cup Iterators \cup Slices \cup Buffers
  /\ Snapshots \cap (ReadOpts \cup Iterators \cup Slices \cup Buffers) = {}
  /\ ReadOpts \cap (Iterators \cup Slices \cup Buffers) = {}
  /\ Iterators \cap (Slices \cup Buffers) = {} /\ Slices \cap Buffers = {}

VARIABLES
  life,        \* handle -> "new", "alive" or "freed": its native object
  held,        \* handles JavaScript can reach
  reference,   \* the strong reference rocksdb_open takes on the DB handle
  running,     \* FALSE once the environment goes down
  closed,      \* DBImpl::closed_
  snapshots,   \* DBImpl::snapshots_, the snapshots not released
  number,      \* snapshot -> its sequence number
  buffer,      \* slice -> the Buffer whose bytes it points at
  options,     \* read options -> field -> pointer
  bound,       \* iterator -> field -> pointer, copied from its options
  lastSeq,     \* VersionSet::LastSequence
  purged       \* sequence numbers compaction no longer keeps apart

handles == <<life, held, reference, running>>
pointers == <<buffer, options, bound>>
engine == <<closed, snapshots, number, lastSeq, purged>>
vars == <<handles, pointers, engine>>

SliceFields == {"timestamp", "iterate_lower_bound", "iterate_upper_bound"}
Fields == SliceFields \cup {"snapshot"}
BoundFields == {"iterate_lower_bound", "iterate_upper_bound", "snapshot"}
Target(f) == IF f = "snapshot" THEN Snapshots ELSE Slices

\* Types; a field of read options points at an object of its own kind.
TypeOK ==
  /\ life \in [Handles -> {"new", "alive", "freed"}]
  /\ held \subseteq Handles
  /\ reference \in BOOLEAN /\ running \in BOOLEAN /\ closed \in BOOLEAN
  /\ snapshots \subseteq Snapshots
  /\ number \in [Snapshots -> Nat]
  /\ buffer \in [Slices -> Buffers \cup {Null}]
  /\ options \in [ReadOpts -> [Fields -> Snapshots \cup Slices \cup {Null}]]
  /\ \A r \in ReadOpts, f \in Fields : options[r][f] \in Target(f) \cup {Null}
  /\ bound \in [Iterators -> [BoundFields -> Snapshots \cup Slices \cup {Null}]]
  /\ \A i \in Iterators, f \in BoundFields : bound[i][f] \in Target(f) \cup {Null}
  /\ lastSeq \in Nat
  /\ purged \subseteq Nat

Init ==
  /\ life = [h \in Handles |-> "new"]
  /\ held = {} /\ reference = FALSE /\ running = TRUE /\ closed = FALSE
  /\ snapshots = {} /\ number = [s \in Snapshots |-> 0]
  /\ buffer = [s \in Slices |-> Null]
  /\ options = [r \in ReadOpts |-> [f \in Fields |-> Null]]
  /\ bound = [i \in Iterators |-> [f \in BoundFields |-> Null]]
  /\ lastSeq = 0 /\ purged = {}
-----------------------------------------------------------------------------
Alive(h) == life[h] = "alive"

\* A call can be made on handles JavaScript can reach.
Callable(hs) == running /\ hs \subseteq held

New(h) ==
  /\ running /\ life[h] = "new"
  /\ life' = [life EXCEPT ![h] = "alive"]
  /\ held' = held \cup {h}

\* A database function is called: by a careful client, on an open database.
MayUseDb == Callable({DB}) /\ ("open" \in Careful => ~closed)

\* The objects h points at, and the Buffers those that are slices point at.
Pointers(h) ==
  (IF h \in ReadOpts THEN {options[h][f] : f \in Fields}
   ELSE IF h \in Iterators THEN {bound[h][f] : f \in BoundFields}
   ELSE IF h \in Slices THEN {buffer[h]}
   ELSE {}) \ {Null}

PointsAt(h) == Pointers(h) \cup UNION {Pointers(s) : s \in Pointers(h) \cap Slices}

MayDrop(h) == "pin" \in Careful => \A g \in held \ {h} : h \notin PointsAt(g)
MayClose   == "drain" \in Careful => \A i \in Iterators : ~Alive(i)

(***************************************************************************)
(* JavaScript thread.                                                      *)
(***************************************************************************)
\* Mutant: nothing keeps the handle of an open database.
OpenWithoutReference ==
  /\ New(DB)
  /\ UNCHANGED <<reference, running, pointers, engine>>

rocksdb_open ==
  /\ New(DB)
  /\ reference' = TRUE
  /\ UNCHANGED <<running, pointers, engine>>

\* Mutant: the database closes under its snapshots.
CloseAnyway == closed' = TRUE

\* DBImpl::Close: refused (Aborted) while a snapshot is unreleased, a no-op
\* the second time.  The DBImpl itself stays.
Close == closed' = (closed \/ snapshots = {})

rocksdb_close ==
  /\ Callable({DB}) /\ MayClose
  /\ Close
  /\ UNCHANGED <<handles, pointers, snapshots, number, lastSeq, purged>>

rocksdb_put ==
  /\ MayUseDb /\ ~closed
  /\ lastSeq < MaxSeq
  /\ lastSeq' = lastSeq + 1
  /\ UNCHANGED <<handles, pointers, closed, snapshots, number, purged>>

rocksdb_snapshot_init(s) ==
  /\ MayUseDb
  /\ New(s)
  /\ snapshots' = snapshots \cup {s}
  /\ number' = [number EXCEPT ![s] = lastSeq]
  /\ UNCHANGED <<reference, running, pointers, closed, lastSeq, purged>>

NewBuffer(m) ==
  /\ New(m)
  /\ UNCHANGED <<reference, running, pointers, engine>>

rocksdb_slice(s, m) ==
  /\ Callable({m})
  /\ New(s)
  /\ buffer' = [buffer EXCEPT ![s] = m]
  /\ UNCHANGED <<reference, running, options, bound, engine>>

rocksdb_read_options_init(r) ==
  /\ New(r)
  /\ UNCHANGED <<reference, running, pointers, engine>>

\* Mutant: the snapshot field gets whatever is set.
SetWrongField(r, f, h) ==
  /\ Callable({r, h})
  /\ options' = [options EXCEPT ![r]["snapshot"] = h]
  /\ UNCHANGED <<handles, buffer, bound, engine>>

rocksdb_read_options_set(r, f, h) ==
  /\ Callable({r, h})
  /\ options' = [options EXCEPT ![r][f] = h]
  /\ UNCHANGED <<handles, buffer, bound, engine>>

\* Mutant: resetting a field deletes the object it pointed at.
ResetDeletes(r, f) ==
  /\ Callable({r})
  /\ options[r][f] # Null
  /\ life' = [life EXCEPT ![options[r][f]] = "freed"]
  /\ options' = [options EXCEPT ![r][f] = Null]
  /\ UNCHANGED <<held, reference, running, buffer, bound, engine>>

rocksdb_read_options_reset(r, f) ==
  /\ Callable({r})
  /\ options' = [options EXCEPT ![r][f] = Null]
  /\ UNCHANGED <<handles, buffer, bound, engine>>

\* The iterator keeps a copy of its options, and follows the bounds and, each
\* time it opens a file with range tombstones, the snapshot.
rocksdb_iterator_init(i, r) ==
  /\ MayUseDb /\ Callable({r})
  /\ New(i)
  /\ bound' = [bound EXCEPT ![i] = [f \in BoundFields |-> options[r][f]]]
  /\ UNCHANGED <<reference, running, buffer, options, engine>>

Drop(h) ==
  /\ Callable({h}) /\ MayDrop(h)
  /\ held' = held \ {h}
  /\ UNCHANGED <<life, reference, running, pointers, engine>>

(***************************************************************************)
(* Finalizers.                                                             *)
(***************************************************************************)
Dies(h) == life' = [life EXCEPT ![h] = "freed"] /\ held' = held \ {h}

\* Mutant: the handle dies and its snapshot is not released.
SnapshotLeaks(s) ==
  /\ Dies(s)
  /\ UNCHANGED <<reference, running, pointers, engine>>

rocksdb_snapshot_finalize(s) ==
  /\ snapshots' = snapshots \ {s}
  /\ Dies(s)
  /\ UNCHANGED <<reference, running, pointers, closed, number, lastSeq, purged>>

\* Deletes the reference, closes the database again and deletes it; a Close
\* that is refused does not stop the deletion, whose destructor closes anyway.
rocksdb_finalize ==
  /\ reference' = FALSE
  /\ closed' = TRUE
  /\ Dies(DB)
  /\ UNCHANGED <<running, pointers, snapshots, number, lastSeq, purged>>

\* Slices, read options and iterators are deleted and a Buffer's memory freed.
FinalizeOther(h) ==
  /\ Dies(h)
  /\ UNCHANGED <<reference, running, pointers, engine>>

Finalize(h) ==
  \/ h = DB /\ rocksdb_finalize
  \/ h \in Snapshots /\ rocksdb_snapshot_finalize(h)
  \/ h \notin {DB} \cup Snapshots /\ FinalizeOther(h)

\* The collector picks any handle that nothing keeps.
Collect(h) ==
  /\ running /\ Alive(h) /\ h \notin held
  /\ ~(h = DB /\ reference)
  /\ Finalize(h)

\* The environment goes down: JavaScript stops.  Node runs the remaining
\* finalizers newest handle first, so the database, which exists before any
\* of its snapshots and iterators, comes after them.
TearDown ==
  /\ running
  /\ running' = FALSE /\ held' = {}
  /\ UNCHANGED <<life, reference, pointers, engine>>

RunTeardownFinalizer(h) ==
  /\ ~running /\ Alive(h)
  /\ h = DB => \A g \in Snapshots \cup Iterators : ~Alive(g)
  /\ Finalize(h)

(***************************************************************************)
(* The engine's background thread: a compaction keeps, besides the newest  *)
(* state, only the states listed snapshots need.                           *)
(***************************************************************************)
\* Mutant: the list of snapshots is not consulted.
CompactIgnoringSnapshots ==
  /\ Alive(DB) /\ ~closed
  /\ purged' = purged \cup (0 .. lastSeq - 1)
  /\ UNCHANGED <<handles, pointers, closed, snapshots, number, lastSeq>>

Compact ==
  /\ Alive(DB) /\ ~closed
  /\ purged' = purged \cup ((0 .. lastSeq - 1) \ {number[s] : s \in snapshots})
  /\ UNCHANGED <<handles, pointers, closed, snapshots, number, lastSeq>>

Next ==
  \/ rocksdb_open \/ rocksdb_close \/ rocksdb_put
  \/ \E s \in Snapshots : rocksdb_snapshot_init(s)
  \/ \E m \in Buffers : NewBuffer(m)
  \/ \E s \in Slices, m \in Buffers : rocksdb_slice(s, m)
  \/ \E r \in ReadOpts : rocksdb_read_options_init(r)
  \/ \E r \in ReadOpts, f \in Fields : \/ \E h \in Target(f) : rocksdb_read_options_set(r, f, h)
                                       \/ rocksdb_read_options_reset(r, f)
  \/ \E i \in Iterators, r \in ReadOpts : rocksdb_iterator_init(i, r)
  \/ \E h \in Handles : Drop(h) \/ Collect(h) \/ RunTeardownFinalizer(h)
  \/ TearDown
  \/ Compact

Spec == Init /\ [][Next]_vars

\* The collector gets to every handle it may free, and so does teardown.
Fairness == \A h \in Handles : WF_vars(Collect(h)) /\ WF_vars(RunTeardownFinalizer(h))
FairSpec == Spec /\ Fairness
-----------------------------------------------------------------------------
\* The finalizer of a snapshot still has its database to call ReleaseSnapshot
\* on, open and not deleted: Close refuses while a snapshot is listed, and the
\* strong reference keeps the collector away from the database.
SnapshotFinalizerHasDb == \A s \in Snapshots : Alive(s) => Alive(DB) /\ ~closed

\* The list of unreleased snapshots is exactly the snapshots whose handle is
\* not finalized: none is released early, twice or never.
SnapshotListExact == snapshots = {s \in Snapshots : Alive(s)}

\* The state a listed snapshot stands for is still readable.
SnapshotsReadable == \A s \in snapshots : number[s] \notin purged

\* Reading through read options or an iterator JavaScript can reach follows
\* live pointers only, to the bytes of the Buffer ("pin").
NothingDangles == \A h \in held : \A g \in PointsAt(h) : Alive(g)

\* A Get through these read options answers as of their snapshot.
ReadsAsOfSnapshot == \A r \in held \cap ReadOpts :
  LET s == options[r]["snapshot"] IN s # Null => s \in snapshots /\ number[s] \notin purged

\* An iterator is deleted before the database goes away under it ("drain").
IteratorsGoFirst == \A i \in Iterators : Alive(i) => Alive(DB) /\ ~closed

\* A database that has been closed and that JavaScript has forgotten is freed:
\* "Regardless of the return status, the DB must be freed" (db.h:240).  The
\* reference rocksdb_open takes is deleted by the finalizer it holds off.
ClosedDbIsFreed == closed /\ DB \notin held ~> life[DB] = "freed"
=============================================================================
