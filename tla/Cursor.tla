------------------------------- MODULE Cursor --------------------------------
(***************************************************************************)
(* The cursor of an iterator: DBIter (db/db_iter.cc) over the merged       *)
(* entries of the SuperVersion it references, moved by the binding's       *)
(* rocksdb_iterator_* calls, refreshed by ArenaWrappedDBIter::Refresh.     *)
(*                                                                         *)
(* Each loop of DBIter is run one iteration per action, because a pool     *)
(* thread may insert into the memtable between two of them; a call ends    *)
(* when its outermost loop does.  The engine is reduced to what a cursor   *)
(* can tell apart: entries, range tombstones, and whether the SuperVersion *)
(* it references is still the current one.                                 *)
(***************************************************************************)
EXTENDS Versions, Integers, Sequences, FiniteSets

CONSTANTS
  Keys,        \* user keys, numbers
  None,
  Options,     \* read options: [lower, upper, maxSkippable, cacheOnly], and the
               \* column family's max_sequential_skip_in_iterations: maxSkip
  Ranges,      \* ranges a program deletes: [from, to]
  Careful,     \* TRUE when the program does not refresh across a DeleteRange
  MaxSeq,      \* bound: writes made
  MaxVersions  \* bound: SuperVersions installed

ASSUME KeysAssumption == Keys \subseteq Nat /\ None \notin Int
ASSUME BoundsAssumption == MaxSeq \in Nat /\ MaxVersions \in Nat
ASSUME RangesAssumption == Ranges \subseteq [from : Keys, to : Nat] /\ Careful \in BOOLEAN
ASSUME OptionsAssumption == Options \subseteq
  [lower : Keys \cup {None}, upper : Keys \cup {None}, maxSkippable : Nat,
   cacheOnly : BOOLEAN, maxSkip : Nat]

VARIABLES
  log,         \* the writes so far: write n has sequence number n
  entries,     \* the entries of the current SuperVersion
  tombs,       \* its range tombstones
  sv,          \* its number
  opts,        \* the read options the iterator was made with
  view, dels,  \* entries and tombstones of the SuperVersion it references
  it,          \* DBIter's fields, see NewDBIter
  at, innerOk, \* the merging iterator: its entry or None, its status
  pc, loc,     \* the loop that runs and its locals
  call         \* the call of the binding that runs it: see NoCall

db == <<log, entries, tombs, sv>>
ref == <<opts, view, dels>>
inner == <<at, innerOk>>
vars == <<db, ref, it, inner, pc, loc, call>>

Top == MaxSeq + 1   \* kMaxSequenceNumber: before every entry of a key
Past == -1          \* number 0, type deletion: after every entry of a key
NoLocals == [skipping |-> FALSE, n |-> 0, reseek |-> FALSE, found |-> FALSE, from |-> "none"]
\* cur, val, ok (for the refinement only): what JavaScript saw before the call.
NoCall == [op |-> "none", key |-> None, cur |-> None, val |-> 0, ok |-> TRUE]

NewDBIter(n, v) == [dir |-> "forward", valid |-> FALSE, ok |-> TRUE, saved |-> None,
                    pinned |-> 0, zero |-> FALSE, work |-> 0, seq |-> n, sv |-> v]

Max2(a, b) == IF a >= b THEN a ELSE b
-----------------------------------------------------------------------------
(***************************************************************************)
(* The merged entries: by key, newest first.                               *)
(***************************************************************************)
Precedes(e, f) == e.key < f.key \/ (e.key = f.key /\ e.seq > f.seq)
FirstOf(E) == IF E = {} THEN None ELSE CHOOSE e \in E : \A f \in E : f = e \/ Precedes(e, f)
LastOf(E) == IF E = {} THEN None ELSE CHOOSE e \in E : \A f \in E : f = e \/ Precedes(f, e)

After(e) == FirstOf({f \in view : Precedes(e, f)})
Before(e) == LastOf({f \in view : Precedes(f, e)})
\* The first entry at or after (k, n), and the last one at or before it.
SeekTo(k, n) == FirstOf({f \in view : f.key > k \/ (f.key = k /\ f.seq <= n)})
SeekBack(k, n) == LastOf({f \in view : f.key < k \/ (f.key = k /\ f.seq >= n)})

\* The inner iterator moves to e; or it is limited to the block cache
\* (kBlockCacheTier), misses a block there, and is invalid.
Move(e) == \/ at' = e /\ innerOk' = TRUE
           \/ opts.cacheOnly /\ at' = None /\ innerOk' = FALSE

Visible(e) == e.seq <= it.seq
\* range_del_agg_.ShouldDelete
ShouldDelete(e) == \E d \in dels : d.from <= e.key /\ e.key < d.to /\ e.seq < d.seq
Live(e) == e.val # Deleted /\ ~ShouldDelete(e)

BelowLower(k) == opts.lower # None /\ k < opts.lower
AtUpper(k) == opts.upper # None /\ k >= opts.upper
\* TooManyInternalKeysSkipped
TooMany == opts.maxSkippable > 0 /\ it.work > opts.maxSkippable

\* What rocksdb_iterator_valid, _key, _value and _status_code return.
Key(i) == IF i.valid THEN i.saved ELSE None
Value(i, e) == IF ~i.valid THEN 0 ELSE IF i.dir = "reverse" THEN i.pinned ELSE e.val
StatusOk(i, o) == i.ok /\ o
-----------------------------------------------------------------------------
\* The state of key k after n writes, by the log alone; of the whole map.
Touches(w, k) == w.from <= k /\ k < w.to
Wrote(n, k) == {i \in 1 .. n : Touches(log[i], k)}
ValueAt(n, k) ==
  IF Wrote(n, k) = {} THEN 0
  ELSE LET i == CHOOSE i \in Wrote(n, k) : \A j \in Wrote(n, k) : j <= i
       IN IF log[i].kind = "put" THEN i ELSE 0
MapAt(n) == [k \in Keys |-> ValueAt(n, k)]

Writes == [kind : {"put", "delete"}, from : Keys, to : Nat]
Entry == [key : Keys, seq : Nat, val : Nat]
Tombstone == [from : Keys, to : Nat, seq : Nat]
ASSUME NoneAssumption == None \notin Entry

\* Types; the cursor stands on an entry of the SuperVersion it references.
TypeOK ==
  /\ Len(log) <= MaxSeq /\ entries \subseteq Entry /\ tombs \subseteq Tombstone
  /\ sv \in 0 .. MaxVersions /\ opts \in Options
  /\ view \subseteq Entry /\ dels \subseteq Tombstone
  /\ it.dir \in {"forward", "reverse"} /\ it.valid \in BOOLEAN /\ it.ok \in BOOLEAN
  /\ it.saved \in Keys \cup {None} /\ it.seq \in 0 .. Len(log) /\ it.sv \in 0 .. sv
  /\ at \in view \cup {None} /\ innerOk \in BOOLEAN
  /\ pc \in {"new", "idle", "find", "turn", "prev", "value", "back", "end"}
  /\ loc.n \in 0 .. opts.maxSkip + 1 /\ loc.from \in {"none", "turn", "prev"}
  /\ (pc \in {"new", "idle"}) = (call = NoCall)

Init ==
  /\ log = <<>> /\ entries = {} /\ tombs = {} /\ sv = 0
  /\ opts \in Options /\ view = {} /\ dels = {}
  /\ it = NewDBIter(0, 0) /\ at = None /\ innerOk = TRUE
  /\ pc = "new" /\ loc = NoLocals /\ call = NoCall
-----------------------------------------------------------------------------
(***************************************************************************)
(* The database under the iterator.                                        *)
(***************************************************************************)
\* A write of one key, at any moment.  The memtable is an object: an iterator
\* that references the current SuperVersion sees the entry, which is newer
\* than its number.
Write(kind, k) ==
  LET e == [key |-> k, seq |-> Len(log) + 1,
            val |-> IF kind = "put" THEN Len(log) + 1 ELSE Deleted]
  IN /\ Len(log) < MaxSeq
     /\ log' = Append(log, [kind |-> kind, from |-> k, to |-> k + 1])
     /\ entries' = entries \cup {e}
     /\ view' = IF it.sv = sv THEN view \cup {e} ELSE view
     /\ UNCHANGED <<tombs, sv, opts, dels, it, inner, pc, loc, call>>

\* rocksdb_delete_range.  The tombstones an iterator uses were read when it
\* was made (NewRangeTombstoneIterator): it does not see this one.
DeleteRange(r) ==
  /\ Len(log) < MaxSeq
  /\ log' = Append(log, [kind |-> "delete", from |-> r.from, to |-> r.to])
  /\ tombs' = tombs \cup {[from |-> r.from, to |-> r.to, seq |-> Len(log) + 1]}
  /\ UNCHANGED <<entries, sv, ref, it, inner, pc, loc, call>>

\* A flush and a compaction of everything into the last level: hidden and
\* deleted entries go, the others get number 0.  A new SuperVersion.
Compact ==
  /\ sv < MaxVersions
  /\ sv' = sv + 1
  /\ LET covered == {e \in entries : \E d \in tombs :
                       d.from <= e.key /\ e.key < d.to /\ e.seq < d.seq}
     IN entries' = Rewrite(entries \ covered, {}, {}, TRUE)
  /\ tombs' = {}
  /\ UNCHANGED <<log, ref, it, inner, pc, loc, call>>
-----------------------------------------------------------------------------
(***************************************************************************)
(* Creation and Refresh.                                                   *)
(***************************************************************************)
\* NewIteratorImpl, NewInternalIterator.  The order in which the number and
\* the SuperVersion are read is Mvcc's subject.
NewIterator ==
  /\ pc = "new" /\ pc' = "idle"
  /\ view' = entries /\ dels' = tombs
  /\ it' = NewDBIter(Len(log), sv)
  /\ UNCHANGED <<db, opts, inner, loc, call>>

\* On the SuperVersion it already has, Refresh only moves the number.
RefreshInPlace ==
  /\ pc = "idle" /\ it.sv = sv
  /\ Careful => \A i \in it.seq + 1 .. Len(log) : ~\E d \in tombs : d.seq = i
  /\ it' = [it EXCEPT !.seq = Len(log), !.valid = FALSE]
  /\ UNCHANGED <<db, ref, inner, pc, loc, call>>

\* Mutant: Refresh destroys the merging iterator and stays at its entry.
RefreshKeepsInner ==
  /\ pc = "idle" /\ it.sv # sv
  /\ view' = entries /\ dels' = tombs
  /\ it' = NewDBIter(Len(log), sv)
  /\ UNCHANGED <<db, opts, inner, pc, loc, call>>

RefreshAnew ==
  /\ pc = "idle" /\ it.sv # sv
  /\ view' = entries /\ dels' = tombs
  /\ it' = NewDBIter(Len(log), sv) /\ at' = None /\ innerOk' = TRUE
  /\ UNCHANGED <<db, opts, pc, loc, call>>
-----------------------------------------------------------------------------
(***************************************************************************)
(* How calls begin, move on and end.                                       *)
(***************************************************************************)
\* The next iteration, of loop l.
Goto(l, locals, i) == pc' = l /\ loc' = locals /\ it' = i /\ UNCHANGED <<db, ref>>

\* The C++ call is over.
Finish(i) == Goto("end", NoLocals, i)

\* Loop l goes on if the move left the inner iterator on an entry.  Otherwise
\* the cursor is invalid, and nothing reads its direction until it is sought.
GotoIfValid(l, locals, i) ==
  IF at' # None THEN Goto(l, locals, i) ELSE Finish([i EXCEPT !.valid = FALSE])

Calling(op, k) ==
  /\ pc = "idle"
  /\ call' = [op |-> op, key |-> k, cur |-> Key(it), val |-> Value(it, at),
              ok |-> StatusOk(it, innerOk)]

\* The binding reads Valid() and returns to JavaScript.
Return ==
  /\ pc = "end" /\ pc' = "idle" /\ call' = NoCall
  /\ UNCHANGED <<db, ref, it, inner, loc>>

Sought == [it EXCEPT !.ok = TRUE, !.work = 0, !.zero = FALSE]

\* num_internal_keys_skipped_, which only the limit and the statistics read.
Worked(i) == IF opts.maxSkippable = 0 THEN i ELSE [i EXCEPT !.work = @ + 1]
Incomplete(i) == [i EXCEPT !.valid = FALSE, !.ok = FALSE]
-----------------------------------------------------------------------------
(***************************************************************************)
(* The calls.                                                              *)
(***************************************************************************)
SeekForward(k) ==
  LET t == IF BelowLower(k) THEN opts.lower ELSE k
  IN /\ Move(SeekTo(t, it.seq))
     /\ GotoIfValid("find", NoLocals, [Sought EXCEPT !.dir = "forward", !.saved = t])

SeekBackward(k) ==
  /\ Move(IF AtUpper(k) THEN SeekBack(opts.upper, Top) ELSE SeekBack(k, 0))
  /\ GotoIfValid("prev", NoLocals,
       [Sought EXCEPT !.dir = "reverse", !.saved = IF AtUpper(k) THEN opts.upper ELSE k])

Seek(k) == Calling("seek", k) /\ SeekForward(k)
SeekForPrev(k) == Calling("seekPrev", k) /\ SeekBackward(k)

SeekToFirst ==
  /\ Calling("first", None)
  /\ IF opts.lower # None THEN SeekForward(opts.lower)
     ELSE /\ Move(FirstOf(view))
          /\ GotoIfValid("find", NoLocals,
               [Sought EXCEPT !.dir = "forward", !.saved = IF at' = None THEN @ ELSE at'.key])

\* With an upper bound, the key found is below it: SeekToLast's own test for
\* the bound itself is never true.
SeekToLast ==
  /\ Calling("last", None)
  /\ IF opts.upper # None THEN SeekBackward(opts.upper)
     ELSE /\ Move(LastOf(view))
          /\ Goto("prev", NoLocals, [Sought EXCEPT !.dir = "reverse"])

\* Mutant: turning forward keeps is_key_seqnum_zero_.
NextKeepsZero ==
  /\ it.valid /\ Calling("next", None)
  /\ IF it.dir = "forward"
     THEN /\ Move(After(at))
          /\ GotoIfValid("find", [NoLocals EXCEPT !.skipping = TRUE], [it EXCEPT !.work = 0])
     ELSE /\ IF at = None THEN Move(SeekTo(it.saved, Top)) ELSE UNCHANGED inner
          /\ GotoIfValid("turn", NoLocals, [it EXCEPT !.work = 0, !.dir = "forward"])

\* DBIter::Next; backwards, ReverseToForward first finds the current key again.
Next1 ==
  /\ it.valid /\ Calling("next", None)
  /\ IF it.dir = "forward"
     THEN /\ Move(After(at))
          /\ GotoIfValid("find", [NoLocals EXCEPT !.skipping = TRUE], [it EXCEPT !.work = 0])
     ELSE /\ IF at = None THEN Move(SeekTo(it.saved, Top)) ELSE UNCHANGED inner
          /\ GotoIfValid("turn", NoLocals,
               [it EXCEPT !.work = 0, !.zero = FALSE, !.dir = "forward"])

\* DBIter::Prev; forwards, ReverseToBackward first leaves the current key.
Prev1 ==
  /\ it.valid /\ Calling("prev", None)
  /\ IF it.dir = "forward"
     THEN Goto("back", [NoLocals EXCEPT !.from = "turn"],
               [it EXCEPT !.work = 0, !.dir = "reverse"])
     ELSE Goto("prev", NoLocals, [it EXCEPT !.work = 0])
  /\ UNCHANGED inner
-----------------------------------------------------------------------------
(***************************************************************************)
(* FindNextUserEntryInternal: forwards to the next entry to show.          *)
(***************************************************************************)
\* The end of an iteration: one entry on, or a seek when too many entries of
\* one key were skipped.
Advance(i, l) ==
  IF l.n > opts.maxSkip /\ ~l.reseek
  THEN /\ Move(SeekTo(i.saved, IF l.skipping THEN Past ELSE i.seq))
       /\ GotoIfValid("find", [l EXCEPT !.n = 0, !.reseek = TRUE], [i EXCEPT !.zero = FALSE])
  ELSE /\ Move(After(at))
       /\ GotoIfValid("find", l, i)

\* is_key_seqnum_zero_ for the entry at hand; a call's limit counts it.
Seen == [it EXCEPT !.zero = (at.seq = 0)]
Looking == pc = "find" /\ ~AtUpper(at.key) /\ ~TooMany

\* An older entry of a key already shown, deleted or passed.  After an entry
\* with number 0 the key is not compared: there can be no older one.
Repeated == ~it.zero /\ loc.skipping /\ at.key <= it.saved

FindStops ==
  /\ pc = "find" /\ (AtUpper(at.key) \/ TooMany)
  /\ Finish(IF AtUpper(at.key) THEN [Seen EXCEPT !.valid = FALSE] ELSE Incomplete(Seen))
  /\ UNCHANGED <<inner, call>>

FindRepeated ==
  /\ Looking /\ Visible(at) /\ Repeated
  /\ Advance(Worked(Seen), [loc EXCEPT !.n = @ + 1])
  /\ UNCHANGED call

FindDeleted ==
  /\ Looking /\ Visible(at) /\ ~Repeated /\ ~Live(at)
  /\ Advance([Worked(Seen) EXCEPT !.saved = at.key],
             [loc EXCEPT !.skipping = TRUE, !.n = 0, !.reseek = FALSE])
  /\ UNCHANGED call

FindYields ==
  /\ Looking /\ Visible(at) /\ ~Repeated /\ Live(at)
  /\ Finish([Worked(Seen) EXCEPT !.saved = at.key, !.valid = TRUE])
  /\ UNCHANGED <<inner, call>>

\* Mutant: a newer entry of a passed key ends the skipping.
FindNewerForgets ==
  /\ Looking /\ ~Visible(at)
  /\ IF at.key = it.saved
     THEN Advance(Worked(Seen), [loc EXCEPT !.n = @ + 1, !.skipping = FALSE])
     ELSE Advance([Worked(Seen) EXCEPT !.saved = at.key],
                  [loc EXCEPT !.skipping = FALSE, !.n = 0, !.reseek = FALSE])
  /\ UNCHANGED call

\* An entry newer than the iterator.
FindNewer ==
  /\ Looking /\ ~Visible(at)
  /\ IF at.key = it.saved \/ (loc.skipping /\ at.key <= it.saved)
     THEN Advance(Worked(Seen), [loc EXCEPT !.n = @ + 1])
     ELSE Advance([Worked(Seen) EXCEPT !.saved = at.key],
                  [loc EXCEPT !.skipping = FALSE, !.n = 0, !.reseek = FALSE])
  /\ UNCHANGED call

\* ReverseToForward's loop: skip what is before the current key.
Turn ==
  /\ pc = "turn"
  /\ IF at.key >= it.saved
     THEN Goto("find", [NoLocals EXCEPT !.skipping = TRUE], it) /\ UNCHANGED inner
     ELSE Move(After(at)) /\ GotoIfValid("turn", NoLocals, it)
  /\ UNCHANGED call
-----------------------------------------------------------------------------
(***************************************************************************)
(* PrevInternal: FindValueForCurrentKey and FindUserKeyBeforeSavedKey in   *)
(* turns, until a key has a value.                                         *)
(***************************************************************************)
PrevKey ==
  /\ pc = "prev"
  /\ IF at = None THEN Finish([it EXCEPT !.valid = FALSE])
     ELSE IF BelowLower(at.key) THEN Finish([it EXCEPT !.valid = FALSE, !.saved = at.key])
     ELSE Goto("value", NoLocals, [it EXCEPT !.saved = at.key])
  /\ UNCHANGED <<inner, call>>

\* FindValueForCurrentKey goes from the oldest entry of the key to the newest
\* one the iterator may see.
OfCurrentKey == at # None /\ at.key = it.saved /\ Visible(at)

\* Mutant: a value found ends the call where its newest entry is.
ValueStays ==
  /\ pc = "value" /\ ~OfCurrentKey
  /\ IF loc.found THEN Finish([it EXCEPT !.valid = innerOk])
     ELSE IF innerOk THEN Goto("back", [NoLocals EXCEPT !.from = "prev"], [it EXCEPT !.valid = FALSE])
     ELSE Finish([it EXCEPT !.valid = FALSE])
  /\ UNCHANGED <<inner, call>>

ValueKnown ==
  /\ pc = "value" /\ ~OfCurrentKey
  /\ IF innerOk THEN Goto("back", [NoLocals EXCEPT !.from = "prev"], [it EXCEPT !.valid = loc.found])
     ELSE Finish([it EXCEPT !.valid = FALSE])
  /\ UNCHANGED <<inner, call>>

ValueOlder ==
  /\ pc = "value" /\ OfCurrentKey /\ ~TooMany /\ loc.n < opts.maxSkip
  /\ Move(Before(at))
  /\ Goto("value", [loc EXCEPT !.found = Live(at), !.n = @ + 1],
          [Worked(it) EXCEPT !.pinned = IF Live(at) THEN at.val ELSE @])
  /\ UNCHANGED call

\* FindValueForCurrentKeyUsingSeek.
ValueBySeek ==
  /\ pc = "value" /\ OfCurrentKey /\ ~TooMany /\ loc.n >= opts.maxSkip
  /\ Move(SeekTo(it.saved, it.seq))
  /\ IF at' = None THEN Finish([Worked(it) EXCEPT !.valid = FALSE])
     ELSE LET found == at'.key = it.saved /\ Live(at')
          IN Goto("back", [NoLocals EXCEPT !.from = "prev"],
                  [Worked(it) EXCEPT !.valid = found, !.pinned = IF found THEN at'.val ELSE @])
  /\ UNCHANGED call

\* FindUserKeyBeforeSavedKey, called by ReverseToBackward or by PrevInternal.
BackDone ==
  /\ pc = "back" /\ (at # None => at.key < it.saved)
  /\ IF ~innerOk THEN Finish([it EXCEPT !.valid = FALSE])
     ELSE IF loc.from = "turn" THEN Goto("prev", NoLocals, it)
     ELSE IF it.valid THEN Finish(it)
     ELSE IF TooMany THEN Finish(Incomplete(it)) ELSE Goto("prev", NoLocals, it)
  /\ UNCHANGED <<inner, call>>

\* Mutant: the seek that skips the entries of a key is not followed by a Prev.
BackSeeksOnly ==
  /\ pc = "back" /\ at # None /\ at.key >= it.saved /\ ~TooMany
  /\ IF loc.n >= opts.maxSkip
     THEN Move(SeekTo(it.saved, Top)) /\ Goto("back", [loc EXCEPT !.n = 0], Worked(it))
     ELSE Move(Before(at)) /\ Goto("back", [loc EXCEPT !.n = @ + 1], Worked(it))
  /\ UNCHANGED call

BackSteps ==
  /\ pc = "back" /\ at # None /\ at.key >= it.saved /\ ~TooMany
  /\ IF loc.n >= opts.maxSkip
     THEN Move(Before(SeekTo(it.saved, Top))) /\ Goto("back", [loc EXCEPT !.n = 0], Worked(it))
     ELSE Move(Before(at)) /\ Goto("back", [loc EXCEPT !.n = @ + 1], Worked(it))
  /\ UNCHANGED call

\* Either loop, when max_skippable_internal_keys is exceeded.
GiveUp ==
  /\ TooMany
  /\ \/ pc = "value" /\ OfCurrentKey
     \/ pc = "back" /\ at # None /\ at.key >= it.saved
  /\ Finish(Incomplete(it))
  /\ UNCHANGED <<inner, call>>
-----------------------------------------------------------------------------
JavaScript ==
  \/ NewIterator \/ RefreshInPlace \/ RefreshAnew
  \/ \E k \in Keys : Seek(k) \/ SeekForPrev(k)
  \/ SeekToFirst \/ SeekToLast \/ Next1 \/ Prev1

Loops ==
  \/ FindStops \/ FindRepeated \/ FindDeleted \/ FindYields \/ FindNewer
  \/ Turn \/ PrevKey \/ ValueKnown \/ ValueOlder \/ ValueBySeek
  \/ BackDone \/ BackSteps \/ GiveUp \/ Return

Database ==
  \/ \E k \in Keys : Write("put", k) \/ Write("delete", k)
  \/ \E r \in Ranges : DeleteRange(r)
  \/ Compact

Next == JavaScript \/ Loops \/ Database

Spec == Init /\ [][Next]_vars
FairSpec == Spec /\ WF_vars(Loops)
-----------------------------------------------------------------------------
Between == pc \in {"new", "idle"}

\* The iterator is a cursor over the map there was when it was made or last
\* refreshed, whatever is written, deleted or compacted meanwhile: every call
\* leads where that map and the bounds say, or fails with a status.
Abstract == INSTANCE SortedCursor WITH
  map <- MapAt(it.seq), lower <- opts.lower, upper <- opts.upper,
  cur <- IF Between THEN Key(it) ELSE call.cur,
  val <- IF Between THEN Value(it, at) ELSE call.val,
  ok <- IF Between THEN StatusOk(it, innerOk) ELSE call.ok,
  call <- [op |-> call.op, key |-> call.key]

ImplementsSortedCursor == Abstract!SSpec

\* Where a valid cursor leaves the inner iterator, as db_iter.h (56) has it:
\* forwards on the very entry it shows, backwards before every entry of its
\* key, with nothing the iterator could see in between.
PositionMatchesDirection == Between /\ it.valid =>
  IF it.dir = "forward"
  THEN at # None /\ at.key = it.saved /\ Finds(view, at, it.saved, it.seq)
  ELSE /\ at # None => at.key < it.saved
       /\ \A f \in view : f.key < it.saved /\ (at # None => Precedes(at, f)) => ~Visible(f)

\* The assertion of FindNextUserEntryInternal (db_iter.cc 262): the entry that
\* follows one with number 0 is of another key, so it may go uncompared.
ZeroIsTheLast == pc = "find" /\ it.zero /\ loc.skipping /\ Visible(at) => at.key > it.saved

\* Every call returns, however the pool thread writes meanwhile.
CallsReturn == call # NoCall ~> call = NoCall

\* iterator.h (90): Refresh renews the iterator to represent the latest state.
RefreshShowsLatest == Between /\ it.valid => Value(it, at) = ValueAt(it.seq, it.saved)
=============================================================================
