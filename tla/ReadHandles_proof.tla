-------------------------- MODULE ReadHandles_proof ---------------------------
(***************************************************************************)
(* Theorems about ReadHandles, for any numbers of snapshots, read options, *)
(* iterators, slices and Buffers, and for any client.                      *)
(***************************************************************************)
EXTENDS ReadHandles, TLAPS

(***************************************************************************)
(* The inductive invariant.  What JavaScript can reach is alive, and       *)
(* nothing is reachable once the environment goes down; while it runs, an  *)
(* open database has its reference; compaction never gets at the current   *)
(* number, which the next snapshot takes.                                  *)
(***************************************************************************)
Reachable ==
  /\ \A h \in held : Alive(h)
  /\ ~running => held = {}

Referenced == running /\ Alive(DB) => reference

Numbered == \A n \in purged : n < lastSeq

Fresh == \A r \in ReadOpts : life[r] = "new" => \A f \in Fields : options[r][f] = Null

\* What the precaution "pin" adds, pointer by pointer.
Pinned == "pin" \in Careful => \A g \in held : Pointers(g) \subseteq held

\* What "open" adds for snapshots, and "drain" with it for iterators.
SnapshotsFirst == "open" \in Careful => SnapshotFinalizerHasDb
Drained == {"open", "drain"} \subseteq Careful => IteratorsGoFirst

IInv == /\ TypeOK /\ Reachable /\ Referenced /\ SnapshotListExact /\ Numbered
        /\ SnapshotsReadable /\ Fresh /\ Pinned /\ SnapshotsFirst /\ Drained
-----------------------------------------------------------------------------
\* Nothing exists yet.
LEMMA InitIInv == Init => IInv
<1> SUFFICES ASSUME Init PROVE IInv OBVIOUS
<1>1. TypeOK BY BoundsAssumption DEF Init, TypeOK, Handles, Target, Fields, BoundFields, SliceFields
<1>2. Reachable /\ Referenced /\ SnapshotListExact /\ SnapshotsReadable
  BY DEF Init, Reachable, Referenced, SnapshotListExact, SnapshotsReadable, Alive, Handles
<1>3. Numbered /\ Fresh /\ Pinned BY DEF Init, Numbered, Fresh, Pinned
<1>4. SnapshotsFirst /\ Drained
  BY DEF Init, SnapshotsFirst, Drained, SnapshotFinalizerHasDb, IteratorsGoFirst, Alive, Handles
<1>5. QED BY <1>1, <1>2, <1>3, <1>4 DEF IInv

\* The collector and teardown finalize only handles JavaScript cannot reach,
\* and the database only when no snapshot and no iterator is left.
LEMMA FinalizedAlone ==
  ASSUME IInv, NEW h \in Handles, Collect(h) \/ RunTeardownFinalizer(h)
  PROVE  /\ Alive(h) /\ h \notin held /\ Finalize(h)
         /\ h = DB => \A g \in Snapshots \cup Iterators : ~Alive(g)
<1>1. CASE Collect(h)
  <2>1. Alive(h) /\ h \notin held /\ Finalize(h) /\ h # DB
    BY <1>1 DEF IInv, Collect, Referenced
  <2>2. QED BY <2>1
<1>2. CASE RunTeardownFinalizer(h)
  BY <1>2 DEF IInv, RunTeardownFinalizer, Reachable
<1>3. QED BY <1>1, <1>2

\* Next with the two ways to a finalizer seen as one.
Finalizing(h) ==
  /\ Alive(h) /\ h \notin held /\ Finalize(h)
  /\ h = DB => \A g \in Snapshots \cup Iterators : ~Alive(g)

Calls ==
  \/ rocksdb_open \/ rocksdb_close \/ rocksdb_put
  \/ \E s \in Snapshots : rocksdb_snapshot_init(s)
  \/ \E m \in Buffers : NewBuffer(m)
  \/ \E s \in Slices, m \in Buffers : rocksdb_slice(s, m)
  \/ \E r \in ReadOpts : rocksdb_read_options_init(r)
  \/ \E r \in ReadOpts, f \in Fields, h \in Handles : h \in Target(f) /\ rocksdb_read_options_set(r, f, h)
  \/ \E r \in ReadOpts, f \in Fields : rocksdb_read_options_reset(r, f)
  \/ \E i \in Iterators, r \in ReadOpts : rocksdb_iterator_init(i, r)
  \/ \E h \in Handles : Drop(h)

LEMMA NextCases ==
  ASSUME IInv, Next
  PROVE  Calls \/ TearDown \/ Compact \/ \E h \in Handles : Finalizing(h)
<1>1. ASSUME NEW h \in Handles, Collect(h) \/ RunTeardownFinalizer(h) PROVE Finalizing(h)
  BY <1>1, FinalizedAlone DEF Finalizing
<1>2. ASSUME NEW f \in Fields PROVE Target(f) \subseteq Handles BY DEF Target, Handles
<1>3. QED BY <1>1, <1>2 DEF Next, Calls

-----------------------------------------------------------------------------
\* Types are preserved.
LEMMA TypePreserved == ASSUME IInv, Next PROVE TypeOK'
<1> USE DEF IInv
<1> SUFFICES ASSUME TypeOK, Calls \/ TearDown \/ Compact \/ \E h \in Handles : Finalizing(h)
             PROVE TypeOK'
  BY NextCases
<1>1. CASE rocksdb_open
  BY <1>1 DEF rocksdb_open, New, TypeOK, pointers, engine, Handles
<1>2. CASE rocksdb_close
  BY <1>2 DEF rocksdb_close, Close, TypeOK, handles, pointers
<1>3. CASE rocksdb_put
  BY <1>3 DEF rocksdb_put, TypeOK, handles, pointers
<1>4. ASSUME NEW s \in Snapshots, rocksdb_snapshot_init(s) PROVE TypeOK'
  BY <1>4 DEF rocksdb_snapshot_init, New, TypeOK, pointers, Handles
<1>5. ASSUME NEW m \in Buffers, NewBuffer(m) PROVE TypeOK'
  BY <1>5 DEF NewBuffer, New, TypeOK, pointers, engine, Handles
<1>6. ASSUME NEW s \in Slices, NEW m \in Buffers, rocksdb_slice(s, m) PROVE TypeOK'
  BY <1>6 DEF rocksdb_slice, New, TypeOK, engine, Handles
<1>7. ASSUME NEW r \in ReadOpts, rocksdb_read_options_init(r) PROVE TypeOK'
  BY <1>7 DEF rocksdb_read_options_init, New, TypeOK, pointers, engine, Handles
<1>8. ASSUME NEW r \in ReadOpts, NEW f \in Fields, NEW h \in Handles, h \in Target(f),
             rocksdb_read_options_set(r, f, h)
      PROVE TypeOK'
  <2>1. h \in Snapshots \cup Slices BY <1>8 DEF Target
  <2>2. options' \in [ReadOpts -> [Fields -> Snapshots \cup Slices \cup {Null}]]
    BY <1>8, <2>1 DEF rocksdb_read_options_set, TypeOK
  <2>3. \A q \in ReadOpts, g \in Fields : options'[q][g] \in Target(g) \cup {Null}
    BY <1>8 DEF rocksdb_read_options_set, TypeOK
  <2>4. QED BY <1>8, <2>2, <2>3 DEF rocksdb_read_options_set, TypeOK, handles, engine
<1>9. ASSUME NEW r \in ReadOpts, NEW f \in Fields, rocksdb_read_options_reset(r, f) PROVE TypeOK'
  <2>1. options' \in [ReadOpts -> [Fields -> Snapshots \cup Slices \cup {Null}]]
    BY <1>9 DEF rocksdb_read_options_reset, TypeOK
  <2>2. \A q \in ReadOpts, g \in Fields : options'[q][g] \in Target(g) \cup {Null}
    BY <1>9 DEF rocksdb_read_options_reset, TypeOK
  <2>3. QED BY <1>9, <2>1, <2>2 DEF rocksdb_read_options_reset, TypeOK, handles, engine
<1>10. ASSUME NEW i \in Iterators, NEW r \in ReadOpts, rocksdb_iterator_init(i, r) PROVE TypeOK'
  <2>1. BoundFields \subseteq Fields BY DEF BoundFields, Fields, SliceFields
  <2>2. bound' \in [Iterators -> [BoundFields -> Snapshots \cup Slices \cup {Null}]]
    BY <1>10, <2>1 DEF rocksdb_iterator_init, TypeOK
  <2>3. \A j \in Iterators, f \in BoundFields : bound'[j][f] \in Target(f) \cup {Null}
    BY <1>10, <2>1 DEF rocksdb_iterator_init, TypeOK
  <2>4. QED BY <1>10, <2>2, <2>3 DEF rocksdb_iterator_init, New, TypeOK, engine, Handles
<1>11. ASSUME NEW h \in Handles, Drop(h) PROVE TypeOK'
  BY <1>11 DEF Drop, TypeOK, pointers, engine
<1>12. CASE TearDown
  BY <1>12 DEF TearDown, TypeOK, pointers, engine
<1>13. CASE Compact
  BY <1>13 DEF Compact, TypeOK, handles, pointers
<1>14. ASSUME NEW h \in Handles, Finalizing(h) PROVE TypeOK'
  <2>1. /\ life' = [life EXCEPT ![h] = "freed"] /\ held' \subseteq held
        /\ reference' \in BOOLEAN /\ closed' \in BOOLEAN /\ snapshots' \subseteq snapshots
        /\ UNCHANGED <<running, buffer, options, bound, number, lastSeq, purged>>
    BY <1>14 DEF Finalizing, Finalize, rocksdb_finalize, rocksdb_snapshot_finalize,
       FinalizeOther, Dies, TypeOK, pointers, engine
  <2>2. life' \in [Handles -> {"new", "alive", "freed"}]
    BY <2>1 DEF TypeOK
  <2>3. QED BY <2>1, <2>2 DEF TypeOK
<1>15. QED
  BY <1>1, <1>2, <1>3, <1>4, <1>5, <1>6, <1>7, <1>8, <1>9, <1>10, <1>11, <1>12, <1>13, <1>14
  DEF Calls

\* What dies was unreachable, what appears is alive.
LEMMA ReachablePreserved == ASSUME IInv, Next PROVE Reachable' /\ Referenced'
<1> SUFFICES ASSUME TypeOK, Reachable, Referenced,
                    Calls \/ TearDown \/ Compact \/ \E h \in Handles : Finalizing(h)
             PROVE Reachable' /\ Referenced'
  BY NextCases DEF IInv
<1> USE DEF Reachable, Referenced, Alive
<1>1. CASE rocksdb_open
  BY <1>1 DEF rocksdb_open, New, TypeOK, Handles
<1>2. CASE rocksdb_close \/ rocksdb_put \/ Compact
  BY <1>2 DEF rocksdb_close, rocksdb_put, Compact, handles
<1>3. ASSUME NEW h \in Handles, New(h), h # DB, UNCHANGED <<reference, running>>
      PROVE Reachable' /\ Referenced'
  BY <1>3 DEF New, TypeOK, Handles
<1>4. ASSUME NEW s \in Snapshots, rocksdb_snapshot_init(s) PROVE Reachable' /\ Referenced'
  BY <1>3, <1>4, HandlesAssumption DEF rocksdb_snapshot_init, Handles
<1>5. ASSUME NEW m \in Buffers, NewBuffer(m) PROVE Reachable' /\ Referenced'
  BY <1>3, <1>5, HandlesAssumption DEF NewBuffer, Handles
<1>6. ASSUME NEW s \in Slices, NEW m \in Buffers, rocksdb_slice(s, m) PROVE Reachable' /\ Referenced'
  BY <1>3, <1>6, HandlesAssumption DEF rocksdb_slice, Handles
<1>7. ASSUME NEW r \in ReadOpts, rocksdb_read_options_init(r) PROVE Reachable' /\ Referenced'
  BY <1>3, <1>7, HandlesAssumption DEF rocksdb_read_options_init, Handles
<1>8. ASSUME NEW i \in Iterators, NEW r \in ReadOpts, rocksdb_iterator_init(i, r)
      PROVE Reachable' /\ Referenced'
  BY <1>3, <1>8, HandlesAssumption DEF rocksdb_iterator_init, Handles
<1>9. ASSUME NEW r \in ReadOpts, NEW f \in Fields, NEW h,
             rocksdb_read_options_set(r, f, h) \/ rocksdb_read_options_reset(r, f)
      PROVE Reachable' /\ Referenced'
  BY <1>9 DEF rocksdb_read_options_set, rocksdb_read_options_reset, handles
<1>10. ASSUME NEW h \in Handles, Drop(h) PROVE Reachable' /\ Referenced'
  BY <1>10 DEF Drop
<1>11. CASE TearDown
  BY <1>11 DEF TearDown
<1>12. ASSUME NEW h \in Handles, Finalizing(h) PROVE Reachable' /\ Referenced'
  <2>1. Dies(h) /\ running' = running /\ (h # DB => reference' = reference)
    BY <1>12 DEF Finalizing, Finalize, rocksdb_finalize, rocksdb_snapshot_finalize, FinalizeOther
  <2>2. QED BY <1>12, <2>1 DEF Finalizing, Dies, TypeOK, Handles
<1>13. QED
  BY <1>1, <1>2, <1>4, <1>5, <1>6, <1>7, <1>8, <1>9, <1>10, <1>11, <1>12 DEF Calls

\* A snapshot is listed by its init and unlisted by its finalizer; the numbers
\* of listed snapshots are spared by compaction and never ahead of the last one.
LEMMA SnapshotsPreserved ==
  ASSUME IInv, Next
  PROVE  SnapshotListExact' /\ Numbered' /\ SnapshotsReadable'
<1> SUFFICES ASSUME TypeOK, SnapshotListExact, Numbered, SnapshotsReadable,
                    Calls \/ TearDown \/ Compact \/ \E h \in Handles : Finalizing(h)
             PROVE SnapshotListExact' /\ Numbered' /\ SnapshotsReadable'
  BY NextCases DEF IInv
<1> USE DEF SnapshotListExact, Numbered, SnapshotsReadable, Alive
<1>1. ASSUME \A s \in Snapshots : life'[s] = life[s],
             UNCHANGED <<snapshots, number, lastSeq, purged>>
      PROVE SnapshotListExact' /\ Numbered' /\ SnapshotsReadable'
  BY <1>1
<1>2. ASSUME NEW h \in Handles \ Snapshots, New(h) \/ Dies(h),
             UNCHANGED <<snapshots, number, lastSeq, purged>>
      PROVE SnapshotListExact' /\ Numbered' /\ SnapshotsReadable'
  BY <1>1, <1>2 DEF New, Dies, TypeOK, Handles
<1>3. CASE rocksdb_open
  BY <1>2, <1>3, HandlesAssumption DEF rocksdb_open, engine, Handles
<1>4. CASE rocksdb_close
  BY <1>1, <1>4 DEF rocksdb_close, handles
<1>5. CASE rocksdb_put
  BY <1>5 DEF rocksdb_put, handles, TypeOK
<1>6. ASSUME NEW s \in Snapshots, rocksdb_snapshot_init(s)
      PROVE SnapshotListExact' /\ Numbered' /\ SnapshotsReadable'
  <2>1. SnapshotListExact' BY <1>6 DEF rocksdb_snapshot_init, New, TypeOK, Handles
  <2>2. lastSeq \notin purged BY DEF TypeOK
  <2>3. QED BY <1>6, <2>1, <2>2 DEF rocksdb_snapshot_init, TypeOK
<1>7. ASSUME NEW m \in Buffers, NewBuffer(m)
      PROVE SnapshotListExact' /\ Numbered' /\ SnapshotsReadable'
  BY <1>2, <1>7, HandlesAssumption DEF NewBuffer, engine, Handles
<1>8. ASSUME NEW s \in Slices, NEW m \in Buffers, rocksdb_slice(s, m)
      PROVE SnapshotListExact' /\ Numbered' /\ SnapshotsReadable'
  BY <1>2, <1>8, HandlesAssumption DEF rocksdb_slice, engine, Handles
<1>9. ASSUME NEW r \in ReadOpts, rocksdb_read_options_init(r)
      PROVE SnapshotListExact' /\ Numbered' /\ SnapshotsReadable'
  BY <1>2, <1>9, HandlesAssumption DEF rocksdb_read_options_init, engine, Handles
<1>10. ASSUME NEW i \in Iterators, NEW r \in ReadOpts, rocksdb_iterator_init(i, r)
       PROVE SnapshotListExact' /\ Numbered' /\ SnapshotsReadable'
  BY <1>2, <1>10, HandlesAssumption DEF rocksdb_iterator_init, engine, Handles
<1>11. ASSUME NEW r \in ReadOpts, NEW f \in Fields, NEW h,
              rocksdb_read_options_set(r, f, h) \/ rocksdb_read_options_reset(r, f)
       PROVE SnapshotListExact' /\ Numbered' /\ SnapshotsReadable'
  BY <1>1, <1>11 DEF rocksdb_read_options_set, rocksdb_read_options_reset, handles, engine
<1>12. ASSUME NEW h \in Handles, Drop(h)
       PROVE SnapshotListExact' /\ Numbered' /\ SnapshotsReadable'
  BY <1>1, <1>12 DEF Drop, engine
<1>13. CASE TearDown
  BY <1>1, <1>13 DEF TearDown, engine
<1>14. CASE Compact
  BY <1>14 DEF Compact, handles, TypeOK
<1>15. ASSUME NEW h \in Handles, Finalizing(h)
       PROVE SnapshotListExact' /\ Numbered' /\ SnapshotsReadable'
  <2>1. CASE h \in Snapshots
    <3>1. rocksdb_snapshot_finalize(h)
      BY <1>15, <2>1, HandlesAssumption DEF Finalizing, Finalize
    <3>2. SnapshotListExact'
      BY <2>1, <3>1 DEF rocksdb_snapshot_finalize, Dies, TypeOK, Handles
    <3>3. QED BY <3>1, <3>2 DEF rocksdb_snapshot_finalize
  <2>2. CASE h \notin Snapshots
    BY <1>2, <1>15, <2>2
    DEF Finalizing, Finalize, rocksdb_finalize, FinalizeOther, engine
  <2>3. QED BY <2>1, <2>2
<1>16. QED
  BY <1>3, <1>4, <1>5, <1>6, <1>7, <1>8, <1>9, <1>10, <1>11, <1>12, <1>13, <1>14, <1>15
  DEF Calls

\* Read options get their pointers only once JavaScript has them.
LEMMA FreshPreserved == ASSUME IInv, Next PROVE Fresh'
<1> SUFFICES ASSUME TypeOK, Reachable, Fresh,
                    Calls \/ TearDown \/ Compact \/ \E h \in Handles : Finalizing(h)
             PROVE Fresh'
  BY NextCases DEF IInv
<1> USE DEF Fresh, Reachable, Alive
<1>1. ASSUME \A r \in ReadOpts : life'[r] = "new" => life[r] = "new", UNCHANGED options
      PROVE Fresh'
  BY <1>1
<1>2. ASSUME NEW h \in Handles, New(h) \/ Dies(h), UNCHANGED options PROVE Fresh'
  BY <1>1, <1>2 DEF New, Dies, TypeOK, Handles
<1>3. ASSUME NEW r \in ReadOpts, NEW f \in Fields, NEW h,
             rocksdb_read_options_set(r, f, h) \/ rocksdb_read_options_reset(r, f)
      PROVE Fresh'
  <2>1. life' = life /\ life[r] = "alive"
    BY <1>3 DEF rocksdb_read_options_set, rocksdb_read_options_reset, Callable, handles
  <2>2. \A q \in ReadOpts : q # r => options'[q] = options[q]
    BY <1>3 DEF rocksdb_read_options_set, rocksdb_read_options_reset, TypeOK
  <2>3. QED BY <2>1, <2>2
<1>4. CASE rocksdb_open BY <1>2, <1>4 DEF rocksdb_open, pointers, Handles
<1>5. CASE rocksdb_close \/ rocksdb_put \/ TearDown \/ Compact
  BY <1>1, <1>5 DEF rocksdb_close, rocksdb_put, TearDown, Compact, handles, pointers
<1>6. ASSUME NEW s \in Snapshots, rocksdb_snapshot_init(s) PROVE Fresh'
  BY <1>2, <1>6 DEF rocksdb_snapshot_init, pointers, Handles
<1>7. ASSUME NEW m \in Buffers, NewBuffer(m) PROVE Fresh'
  BY <1>2, <1>7 DEF NewBuffer, pointers, Handles
<1>8. ASSUME NEW s \in Slices, NEW m \in Buffers, rocksdb_slice(s, m) PROVE Fresh'
  BY <1>2, <1>8 DEF rocksdb_slice, Handles
<1>9. ASSUME NEW r \in ReadOpts, rocksdb_read_options_init(r) PROVE Fresh'
  BY <1>2, <1>9 DEF rocksdb_read_options_init, pointers, Handles
<1>10. ASSUME NEW i \in Iterators, NEW r \in ReadOpts, rocksdb_iterator_init(i, r) PROVE Fresh'
  BY <1>2, <1>10 DEF rocksdb_iterator_init, Handles
<1>11. ASSUME NEW h \in Handles, Drop(h) PROVE Fresh'
  BY <1>1, <1>11 DEF Drop, pointers
<1>12. ASSUME NEW h \in Handles, Finalizing(h) PROVE Fresh'
  BY <1>2, <1>12
  DEF Finalizing, Finalize, rocksdb_finalize, rocksdb_snapshot_finalize, FinalizeOther, pointers
<1>13. QED
  BY <1>3, <1>4, <1>5, <1>6, <1>7, <1>8, <1>9, <1>10, <1>11, <1>12 DEF Calls

\* A client that keeps what its handles point at never loses any of it: a
\* handle gets its pointers from handles that are reachable.
LEMMA PinnedPreserved == ASSUME IInv, Next PROVE Pinned'
<1> SUFFICES ASSUME TypeOK, Reachable, Fresh, "pin" \in Careful,
                    \A g \in held : Pointers(g) \subseteq held,
                    Calls \/ TearDown \/ Compact \/ \E h \in Handles : Finalizing(h),
                    NEW g \in held'
             PROVE Pointers(g)' \subseteq held'
  BY NextCases DEF IInv, Pinned
<1>1. ASSUME held \subseteq held', g \in held, Pointers(g)' \subseteq Pointers(g)
      PROVE Pointers(g)' \subseteq held'
  BY <1>1
<1>2. ASSUME UNCHANGED pointers PROVE Pointers(g)' = Pointers(g)
  BY <1>2 DEF pointers, Pointers
<1>3. ASSUME NEW h \in Handles, New(h), UNCHANGED pointers, g # h \/ Pointers(g) = {}
      PROVE Pointers(g)' \subseteq held'
  BY <1>1, <1>2, <1>3 DEF New
<1>4. CASE rocksdb_open
  <2>1. Pointers(DB) = {} BY HandlesAssumption DEF Pointers
  <2>2. QED BY <1>3, <1>4, <2>1 DEF rocksdb_open, Handles
<1>5. CASE rocksdb_close \/ rocksdb_put \/ TearDown \/ Compact
  <2>1. UNCHANGED pointers /\ (held' = held \/ held' = {})
    BY <1>5 DEF rocksdb_close, rocksdb_put, TearDown, Compact, handles
  <2>2. QED BY <1>1, <1>2, <2>1
<1>6. ASSUME NEW s \in Snapshots, rocksdb_snapshot_init(s) PROVE Pointers(g)' \subseteq held'
  <2>1. Pointers(s) = {} BY HandlesAssumption DEF Pointers
  <2>2. QED BY <1>3, <1>6, <2>1 DEF rocksdb_snapshot_init, Handles
<1>7. ASSUME NEW m \in Buffers, NewBuffer(m) PROVE Pointers(g)' \subseteq held'
  <2>1. Pointers(m) = {} BY HandlesAssumption DEF Pointers
  <2>2. QED BY <1>3, <1>7, <2>1 DEF NewBuffer, Handles
<1>8. ASSUME NEW s \in Slices, NEW m \in Buffers, rocksdb_slice(s, m)
      PROVE Pointers(g)' \subseteq held'
  <2>1. held' = held \cup {s} /\ m \in held /\ options' = options /\ bound' = bound
    BY <1>8 DEF rocksdb_slice, New, Callable
  <2>2. buffer' = [buffer EXCEPT ![s] = m] BY <1>8 DEF rocksdb_slice
  <2>3. CASE g = s
    BY <2>1, <2>2, <2>3, HandlesAssumption DEF Pointers, TypeOK
  <2>4. CASE g # s
    BY <2>1, <2>2, <2>4 DEF Pointers, TypeOK
  <2>5. QED BY <2>3, <2>4
<1>9. ASSUME NEW r \in ReadOpts, rocksdb_read_options_init(r) PROVE Pointers(g)' \subseteq held'
  <2>1. Pointers(r) = {}
    BY <1>9 DEF rocksdb_read_options_init, New, Fresh, Pointers
  <2>2. QED BY <1>3, <1>9, <2>1 DEF rocksdb_read_options_init, Handles
<1>10. ASSUME NEW r \in ReadOpts, NEW f \in Fields, NEW h \in Handles,
              rocksdb_read_options_set(r, f, h)
       PROVE Pointers(g)' \subseteq held'
  <2>1. /\ held' = held /\ h \in held /\ buffer' = buffer /\ bound' = bound
        /\ options' = [options EXCEPT ![r][f] = h]
    BY <1>10 DEF rocksdb_read_options_set, Callable, handles
  <2>2. Pointers(g)' \subseteq Pointers(g) \cup {h}
    BY <2>1 DEF Pointers, TypeOK
  <2>3. QED BY <2>1, <2>2
<1>11. ASSUME NEW r \in ReadOpts, NEW f \in Fields, rocksdb_read_options_reset(r, f)
       PROVE Pointers(g)' \subseteq held'
  <2>1. /\ held' = held /\ buffer' = buffer /\ bound' = bound
        /\ options' = [options EXCEPT ![r][f] = Null]
    BY <1>11 DEF rocksdb_read_options_reset, handles
  <2>2. Pointers(g)' \subseteq Pointers(g) BY <2>1 DEF Pointers, TypeOK
  <2>3. QED BY <2>1, <2>2
<1>12. ASSUME NEW i \in Iterators, NEW r \in ReadOpts, rocksdb_iterator_init(i, r)
       PROVE Pointers(g)' \subseteq held'
  <2>1. /\ held' = held \cup {i} /\ r \in held /\ buffer' = buffer /\ options' = options
        /\ bound' = [bound EXCEPT ![i] = [f \in BoundFields |-> options[r][f]]]
    BY <1>12 DEF rocksdb_iterator_init, New, Callable
  <2>2. CASE g = i
    <3>1. BoundFields \subseteq Fields BY DEF BoundFields, Fields, SliceFields
    <3>2. Pointers(g)' \subseteq Pointers(r)
      BY <2>1, <2>2, <3>1, HandlesAssumption DEF Pointers, TypeOK
    <3>3. QED BY <2>1, <3>2
  <2>3. CASE g # i
    BY <2>1, <2>3 DEF Pointers, TypeOK
  <2>4. QED BY <2>2, <2>3
<1>13. ASSUME NEW h \in Handles, Drop(h) PROVE Pointers(g)' \subseteq held'
  <2>1. UNCHANGED pointers /\ held' = held \ {h} BY <1>13 DEF Drop
  <2>2. h \notin Pointers(g) BY <1>13, <2>1 DEF Drop, MayDrop, PointsAt
  <2>3. QED BY <1>2, <2>1, <2>2
<1>14. ASSUME NEW h \in Handles, Finalizing(h) PROVE Pointers(g)' \subseteq held'
  <2>1. UNCHANGED pointers /\ held' = held
    BY <1>14 DEF Finalizing, Finalize, rocksdb_finalize, rocksdb_snapshot_finalize, FinalizeOther, Dies
  <2>2. QED BY <1>1, <1>2, <2>1
<1>15. QED
  BY <1>4, <1>5, <1>6, <1>7, <1>8, <1>9, <1>10, <1>11, <1>12, <1>13, <1>14 DEF Calls

\* The database of a live snapshot or iterator stays open: whoever would close
\* it is refused or waits, and whoever would free it comes last.
LEMMA DbLastPreserved == ASSUME IInv, Next PROVE SnapshotsFirst' /\ Drained'
<1> SUFFICES ASSUME TypeOK, Reachable, SnapshotListExact, SnapshotsFirst, Drained,
                    Calls \/ TearDown \/ Compact \/ \E h \in Handles : Finalizing(h)
             PROVE SnapshotsFirst' /\ Drained'
  BY NextCases DEF IInv
<1> USE DEF SnapshotsFirst, Drained, SnapshotFinalizerHasDb, IteratorsGoFirst, Reachable, Alive
<1>1. ASSUME \A h \in Snapshots \cup Iterators : life'[h] = "alive" => life[h] = "alive",
             life[DB] = "alive" => life'[DB] = "alive",
             UNCHANGED closed
      PROVE SnapshotsFirst' /\ Drained'
  BY <1>1
<1>2. ASSUME NEW h \in Handles \ (Snapshots \cup Iterators), New(h), UNCHANGED closed
      PROVE SnapshotsFirst' /\ Drained'
  BY <1>1, <1>2 DEF New, TypeOK, Handles
<1>3. ASSUME NEW h \in Handles, New(h), MayUseDb, UNCHANGED closed
      PROVE SnapshotsFirst' /\ Drained'
  BY <1>3 DEF New, MayUseDb, Callable, TypeOK, Handles
<1>4. CASE rocksdb_open
  BY <1>2, <1>4, HandlesAssumption DEF rocksdb_open, engine, Handles
<1>5. CASE rocksdb_close
  BY <1>5 DEF rocksdb_close, Close, MayClose, SnapshotListExact, handles
<1>6. CASE rocksdb_put \/ TearDown \/ Compact
  BY <1>1, <1>6 DEF rocksdb_put, TearDown, Compact, handles, engine
<1>7. ASSUME NEW s \in Snapshots, rocksdb_snapshot_init(s) PROVE SnapshotsFirst' /\ Drained'
  BY <1>3, <1>7 DEF rocksdb_snapshot_init, Handles
<1>8. ASSUME NEW m \in Buffers, NewBuffer(m) PROVE SnapshotsFirst' /\ Drained'
  BY <1>2, <1>8, HandlesAssumption DEF NewBuffer, engine, Handles
<1>9. ASSUME NEW s \in Slices, NEW m \in Buffers, rocksdb_slice(s, m)
      PROVE SnapshotsFirst' /\ Drained'
  BY <1>2, <1>9, HandlesAssumption DEF rocksdb_slice, engine, Handles
<1>10. ASSUME NEW r \in ReadOpts, rocksdb_read_options_init(r) PROVE SnapshotsFirst' /\ Drained'
  BY <1>2, <1>10, HandlesAssumption DEF rocksdb_read_options_init, engine, Handles
<1>11. ASSUME NEW i \in Iterators, NEW r \in ReadOpts, rocksdb_iterator_init(i, r)
       PROVE SnapshotsFirst' /\ Drained'
  BY <1>3, <1>11 DEF rocksdb_iterator_init, engine, Handles
<1>12. ASSUME NEW r \in ReadOpts, NEW f \in Fields, NEW h,
              rocksdb_read_options_set(r, f, h) \/ rocksdb_read_options_reset(r, f)
       PROVE SnapshotsFirst' /\ Drained'
  BY <1>1, <1>12 DEF rocksdb_read_options_set, rocksdb_read_options_reset, handles, engine
<1>13. ASSUME NEW h \in Handles, Drop(h) PROVE SnapshotsFirst' /\ Drained'
  BY <1>1, <1>13 DEF Drop, engine
<1>14. ASSUME NEW h \in Handles, Finalizing(h) PROVE SnapshotsFirst' /\ Drained'
  <2>1. Dies(h)
    BY <1>14 DEF Finalizing, Finalize, rocksdb_finalize, rocksdb_snapshot_finalize, FinalizeOther
  <2>2. \A g \in Handles : life'[g] = "alive" => life[g] = "alive" /\ g # h
    BY <2>1 DEF Dies, TypeOK
  <2>3. Snapshots \cup Iterators \subseteq Handles /\ DB \in Handles BY DEF Handles
  <2>4. CASE h = DB
    BY <1>14, <2>2, <2>3, <2>4 DEF Finalizing
  <2>5. CASE h # DB
    <3>1. life[DB] = "alive" => life'[DB] = "alive" BY <2>1, <2>3, <2>5 DEF Dies, TypeOK
    <3>2. UNCHANGED closed
      BY <1>14, <2>5 DEF Finalizing, Finalize, rocksdb_snapshot_finalize, FinalizeOther, engine
    <3>3. QED BY <1>1, <2>2, <2>3, <3>1, <3>2
  <2>6. QED BY <2>4, <2>5
<1>15. QED
  BY <1>4, <1>5, <1>6, <1>7, <1>8, <1>9, <1>10, <1>11, <1>12, <1>13, <1>14 DEF Calls

\* Together, and for a step that changes nothing.
LEMMA NextIInv == IInv /\ [Next]_vars => IInv'
<1>1. ASSUME IInv, Next PROVE IInv'
  <2>1. TypeOK' BY <1>1, TypePreserved
  <2>2. Reachable' /\ Referenced' BY <1>1, ReachablePreserved
  <2>3. SnapshotListExact' /\ Numbered' /\ SnapshotsReadable' BY <1>1, SnapshotsPreserved
  <2>4. Fresh' /\ Pinned' BY <1>1, FreshPreserved, PinnedPreserved
  <2>5. SnapshotsFirst' /\ Drained' BY <1>1, DbLastPreserved
  <2>6. QED BY <2>1, <2>2, <2>3, <2>4, <2>5 DEF IInv
<1>2. ASSUME IInv, UNCHANGED vars PROVE IInv'
  <2>1. UNCHANGED <<handles, pointers, engine>> BY <1>2 DEF vars
  <2>2. TypeOK' BY <1>2, <2>1 DEF IInv, TypeOK, handles, pointers, engine
  <2>3. Reachable' /\ Referenced' /\ SnapshotListExact' /\ Numbered' /\ SnapshotsReadable' /\ Fresh'
    BY <1>2, <2>1 DEF IInv, Reachable, Referenced, SnapshotListExact, Numbered, SnapshotsReadable,
       Fresh, Alive, handles, pointers, engine
  <2>4. Pinned' BY <1>2, <2>1 DEF IInv, Pinned, Pointers, handles, pointers
  <2>5. SnapshotsFirst' /\ Drained'
    BY <1>2, <2>1 DEF IInv, SnapshotsFirst, Drained, SnapshotFinalizerHasDb, IteratorsGoFirst,
       Alive, handles, engine
  <2>6. QED BY <2>2, <2>3, <2>4, <2>5 DEF IInv
<1>3. QED BY <1>1, <1>2

-----------------------------------------------------------------------------
\* The inductive invariant holds in every reachable state.
THEOREM Invariance == Spec => []IInv
<1>1. Init => IInv BY InitIInv
<1>2. IInv /\ [Next]_vars => IInv' BY NextIInv
<1>3. QED BY <1>1, <1>2, PTL DEF Spec

\* The variables keep their types, whatever the client does.
THEOREM TypeCorrect == Spec => []TypeOK
<1>1. IInv => TypeOK BY DEF IInv
<1>2. QED BY <1>1, Invariance, PTL

\* Whatever the client does, the snapshots the database holds back for are
\* exactly those whose handle is alive: rocksdb_snapshot_finalize releases each
\* of them once.
THEOREM SnapshotsExact == Spec => []SnapshotListExact
<1>1. IInv => SnapshotListExact BY DEF IInv
<1>2. QED BY <1>1, Invariance, PTL

\* And their states stay readable: no compaction gets at the number of a
\* snapshot that is not released.
THEOREM SnapshotsStay == Spec => []SnapshotsReadable
<1>1. IInv => SnapshotsReadable BY DEF IInv
<1>2. QED BY <1>1, Invariance, PTL

\* A client that uses the database only while it is open never has a snapshot
\* finalized after its database: the raw pointer rocksdb_snapshot_finalize gets
\* is good.
THEOREM SnapshotFinalizerSafe ==
  ASSUME "open" \in Careful PROVE Spec => []SnapshotFinalizerHasDb
<1>1. IInv => SnapshotFinalizerHasDb BY DEF IInv, SnapshotsFirst
<1>2. QED BY <1>1, Invariance, PTL

\* One that also closes only after its iterators never leaves an iterator
\* without its database.
THEOREM IteratorsSafe ==
  ASSUME "open" \in Careful, "drain" \in Careful PROVE Spec => []IteratorsGoFirst
<1>1. IInv => IteratorsGoFirst BY DEF IInv, Drained
<1>2. QED BY <1>1, Invariance, PTL

\* A client that keeps what its read options and iterators point at reads
\* through live pointers only.
THEOREM ReadsSafe ==
  ASSUME "pin" \in Careful PROVE Spec => []NothingDangles
<1>1. ASSUME IInv PROVE NothingDangles
  <2>1. ASSUME NEW h \in held, NEW g \in PointsAt(h) PROVE Alive(g)
    <3>1. \A p \in held : Pointers(p) \subseteq held BY <1>1 DEF IInv, Pinned
    <3>2. g \in held BY <2>1, <3>1 DEF PointsAt
    <3>3. QED BY <1>1, <3>2 DEF IInv, Reachable
  <2>2. QED BY <2>1 DEF NothingDangles
<1>2. IInv => NothingDangles BY <1>1
<1>3. QED BY <1>2, Invariance, PTL

\* And it reads as of the snapshot it set.
THEOREM ReadsAsSet ==
  ASSUME "pin" \in Careful PROVE Spec => []ReadsAsOfSnapshot
<1>1. ASSUME IInv PROVE ReadsAsOfSnapshot
  <2>1. ASSUME NEW r \in held \cap ReadOpts, options[r]["snapshot"] # Null
        PROVE  options[r]["snapshot"] \in snapshots /\ number[options[r]["snapshot"]] \notin purged
    <3>1. "snapshot" \in Fields /\ Target("snapshot") = Snapshots BY DEF Fields, Target
    <3>2. options[r]["snapshot"] \in Pointers(r) /\ options[r]["snapshot"] \in Snapshots
      BY <1>1, <2>1, <3>1 DEF IInv, TypeOK, Pointers
    <3>3. Alive(options[r]["snapshot"]) BY <1>1, <3>2 DEF IInv, Pinned, Reachable
    <3>4. QED BY <1>1, <3>2, <3>3 DEF IInv, SnapshotListExact, SnapshotsReadable
  <2>2. QED BY <2>1 DEF ReadsAsOfSnapshot
<1>2. IInv => ReadsAsOfSnapshot BY <1>1
<1>3. QED BY <1>2, Invariance, PTL
=============================================================================
