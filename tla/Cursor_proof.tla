---------------------------- MODULE Cursor_proof -----------------------------
(***************************************************************************)
(* Theorems about Cursor: where its loops leave the cursor, and that its   *)
(* calls are those of a cursor over a sorted map, for any keys, read       *)
(* options, ranges and bounds.                                             *)
(***************************************************************************)
EXTENDS Cursor, Versions_proof

-----------------------------------------------------------------------------
(***************************************************************************)
(* The merged entries are a line.                                          *)
(***************************************************************************)

\* Keys and numbers have a bound: a finite database, told without counting.
Sized(E) == \E b \in Nat : \A e \in E : e.key <= b /\ e.seq <= b

\* What the entries of a SuperVersion always are.
Store(E) == E \subseteq Entry /\ Unique(E) /\ Sized(E)

\* The fields of an entry are numbers, its key one of the keys.
LEMMA EntryType ==
  \A e \in Entry : e.key \in Keys /\ e.key \in Nat /\ e.seq \in Nat /\ e.val \in Nat
BY KeysAssumption DEF Entry

\* Entries are what Versions_proof says them to be.
LEMMA EntryOf == Entry = EntriesOf(Keys)
BY DEF Entry, EntriesOf

\* Part of a store is a store.
LEMMA StorePart ==
  ASSUME NEW E, Store(E), NEW F \in SUBSET E
  PROVE  Store(F)
BY DEF Store, Unique, Sized

\* Two entries of a store are the same, or one precedes the other.
LEMMA Ordered ==
  ASSUME NEW E, Store(E)
  PROVE  \A e, f \in E : e = f \/ Precedes(e, f) \/ Precedes(f, e)
<1>1. ASSUME NEW e \in E, NEW f \in E PROVE e = f \/ Precedes(e, f) \/ Precedes(f, e)
  <2>1. /\ e.key \in Nat /\ e.seq \in Nat /\ f.key \in Nat /\ f.seq \in Nat
        /\ (e.key = f.key /\ e.seq = f.seq => e = f)
    BY EntryType DEF Store, Unique
  <2>2. QED BY <2>1 DEF Precedes
<1>2. QED BY <1>1

\* A line of entries that is not empty has a first and a last one.
LEMMA FirstIs ==
  ASSUME NEW E, Store(E), E # {}
  PROVE  FirstOf(E) \in E /\ \A f \in E : f = FirstOf(E) \/ Precedes(FirstOf(E), f)
<1>1. PICK b \in Nat : \A e \in E : e.key <= b /\ e.seq <= b BY DEF Store, Sized
<1>2. \A e \in E : e.key \in Nat /\ e.seq \in Nat BY EntryType DEF Store
<1> DEFINE T == {e.key : e \in E}
<1>3. PICK k \in T : \A i \in T : k <= i
  <2>1. T \subseteq Nat /\ T # {} BY <1>2
  <2>2. QED BY <2>1, Least
<1>4. k \in Nat BY <1>2
<1> DEFINE S == {b - e.seq : e \in {f \in E : f.key = k}}
<1>5. PICK m \in S : \A i \in S : m <= i
  <2>1. \A e \in E : b - e.seq \in Nat BY <1>1, <1>2
  <2>2. S \subseteq Nat /\ S # {} BY <2>1
  <2>3. QED BY <2>2, Least
<1>6. PICK e \in E : e.key = k /\ m = b - e.seq OBVIOUS
<1>7. ASSUME NEW f \in E PROVE f = e \/ Precedes(e, f)
  <2>1. k <= f.key BY <1>3
  <2>2. f.key = k => b - e.seq <= b - f.seq BY <1>5, <1>6
  <2>3. f.key = k => f.seq <= e.seq BY <1>2, <2>2
  <2>4. f.key = k /\ f.seq = e.seq => f = e BY <1>6 DEF Store, Unique
  <2>5. QED BY <1>2, <1>4, <1>6, <2>1, <2>3, <2>4 DEF Precedes
<1>8. QED BY <1>7 DEF FirstOf

\* And a last one.
LEMMA LastIs ==
  ASSUME NEW E, Store(E), E # {}
  PROVE  LastOf(E) \in E /\ \A f \in E : f = LastOf(E) \/ Precedes(f, LastOf(E))
<1>1. PICK b \in Nat : \A e \in E : e.key <= b /\ e.seq <= b BY DEF Store, Sized
<1>2. \A e \in E : e.key \in Nat /\ e.seq \in Nat BY EntryType DEF Store
<1> DEFINE T == {b - e.key : e \in E}
<1>3. PICK k \in T : \A i \in T : k <= i
  <2>1. \A e \in E : b - e.key \in Nat BY <1>1, <1>2
  <2>2. T \subseteq Nat /\ T # {} BY <2>1
  <2>3. QED BY <2>2, Least
<1> DEFINE S == {e.seq : e \in {f \in E : k = b - f.key}}
<1>5. PICK m \in S : \A i \in S : m <= i
  <2>2. S \subseteq Nat /\ S # {} BY <1>2
  <2>3. QED BY <2>2, Least
<1>6. PICK e \in E : k = b - e.key /\ m = e.seq OBVIOUS
<1>7. ASSUME NEW f \in E PROVE f = e \/ Precedes(f, e)
  <2>1. b - e.key <= b - f.key BY <1>3, <1>6
  <2>2. f.key <= e.key BY <1>2, <2>1
  <2>3. f.key = e.key => e.seq <= f.seq BY <1>5, <1>6
  <2>4. f.key = e.key /\ f.seq = e.seq => f = e BY DEF Store, Unique
  <2>5. QED BY <1>2, <2>2, <2>3, <2>4 DEF Precedes
<1>8. QED BY <1>7 DEF LastOf

\* None is no entry, so an end is told from an entry.
LEMMA SomeFirst ==
  ASSUME NEW E, Store(E)
  PROVE  /\ FirstOf(E) = None <=> E = {}
         /\ FirstOf(E) # None => /\ FirstOf(E) \in E
                                 /\ \A f \in E : f = FirstOf(E) \/ Precedes(FirstOf(E), f)
<1>1. CASE E = {} BY <1>1 DEF FirstOf
<1>2. CASE E # {}
  <2>1. FirstOf(E) \in E /\ FirstOf(E) # None BY <1>2, FirstIs, NoneAssumption DEF Store
  <2>2. QED BY <1>2, <2>1, FirstIs
<1>3. QED BY <1>1, <1>2

\* LastOf is None for no entries, and their last one otherwise.
LEMMA SomeLast ==
  ASSUME NEW E, Store(E)
  PROVE  /\ LastOf(E) = None <=> E = {}
         /\ LastOf(E) # None => /\ LastOf(E) \in E
                                /\ \A f \in E : f = LastOf(E) \/ Precedes(f, LastOf(E))
<1>1. CASE E = {} BY <1>1 DEF LastOf
<1>2. CASE E # {}
  <2>1. LastOf(E) \in E /\ LastOf(E) # None BY <1>2, LastIs, NoneAssumption DEF Store
  <2>2. QED BY <1>2, <2>1, LastIs
<1>3. QED BY <1>1, <1>2

\* The merging iterator's moves.  a is where one leads, or None.
IsAfter(e, a) ==
  /\ a = None => \A f \in view : ~Precedes(e, f)
  /\ a # None => /\ a \in view /\ Precedes(e, a)
                 /\ \A f \in view : Precedes(e, f) => f = a \/ Precedes(a, f)
IsBefore(e, a) ==
  /\ a = None => \A f \in view : ~Precedes(f, e)
  /\ a # None => /\ a \in view /\ Precedes(a, e)
                 /\ \A f \in view : Precedes(f, e) => f = a \/ Precedes(f, a)

\* Next() of the merging iterator leads to the next entry, or to the end.
LEMMA AfterIs ==
  ASSUME Store(view), NEW e \in view
  PROVE  IsAfter(e, After(e))
<1> DEFINE E == {f \in view : Precedes(e, f)}
<1>1. Store(E) BY StorePart
<1>2. QED BY <1>1, SomeFirst DEF After, IsAfter

\* Prev() leads to the one before, or to the end.
LEMMA BeforeIs ==
  ASSUME Store(view), NEW e \in view
  PROVE  IsBefore(e, Before(e))
<1> DEFINE E == {f \in view : Precedes(f, e)}
<1>1. Store(E) BY StorePart
<1>2. QED BY <1>1, SomeLast DEF Before, IsBefore

\* The first entry at or after (k, n), the last one at or before it.
From(k, n) == {f \in view : f.key > k \/ (f.key = k /\ f.seq <= n)}
UpTo(k, n) == {f \in view : f.key < k \/ (f.key = k /\ f.seq >= n)}

\* Seek() leads to the first entry at or after (k, n).
LEMMA SeekToIs ==
  ASSUME Store(view), NEW k, NEW n
  PROVE  /\ SeekTo(k, n) = None <=> From(k, n) = {}
         /\ SeekTo(k, n) # None =>
              /\ SeekTo(k, n) \in From(k, n)
              /\ \A f \in From(k, n) : f = SeekTo(k, n) \/ Precedes(SeekTo(k, n), f)
<1>1. Store(From(k, n)) BY StorePart DEF From
<1>2. QED BY <1>1, SomeFirst DEF SeekTo, From

\* SeekForPrev() leads to the last entry at or before (k, n).
LEMMA SeekBackIs ==
  ASSUME Store(view), NEW k, NEW n
  PROVE  /\ SeekBack(k, n) = None <=> UpTo(k, n) = {}
         /\ SeekBack(k, n) # None =>
              /\ SeekBack(k, n) \in UpTo(k, n)
              /\ \A f \in UpTo(k, n) : f = SeekBack(k, n) \/ Precedes(f, SeekBack(k, n))
<1>1. Store(UpTo(k, n)) BY StorePart DEF UpTo
<1>2. QED BY <1>1, SomeLast DEF SeekBack, UpTo

-----------------------------------------------------------------------------
(***************************************************************************)
(* The inductive invariant of the loops.                                   *)
(***************************************************************************)
ItTypes == [dir : {"forward", "reverse"}, valid : BOOLEAN, ok : BOOLEAN,
            saved : Keys \cup {None}, pinned : Nat, zero : BOOLEAN, work : Nat,
            seq : Nat, sv : Nat]
LocTypes == [skipping : BOOLEAN, n : Nat, reseek : BOOLEAN, found : BOOLEAN,
             from : {"none", "turn", "prev"}]
Places == {"new", "idle", "find", "turn", "prev", "value", "back", "end"}

Types ==
  /\ log \in Seq(Writes) /\ Len(log) <= MaxSeq
  /\ Store(entries) /\ \A e \in entries : e.seq <= Len(log)
  /\ tombs \subseteq Tombstone /\ \A d \in tombs : d.seq <= Len(log)
  /\ sv \in 0 .. MaxVersions /\ opts \in Options
  /\ Store(view) /\ \A e \in view : e.seq <= Len(log)
  /\ dels \subseteq Tombstone
  /\ it \in ItTypes /\ it.seq <= Len(log) /\ it.sv <= sv
  /\ at \in view \cup {None} /\ innerOk \in BOOLEAN
  /\ pc \in Places /\ loc \in LocTypes
  /\ (pc \in {"new", "idle"}) = (call = NoCall)

\* The merging iterator's status is OK when it is on an entry, a valid cursor
\* has a key, a skip count is reset in time.
Steady ==
  /\ at # None => innerOk
  /\ it.valid => it.saved # None
  /\ loc.n <= opts.maxSkip
  /\ pc = "new" => at = None /\ innerOk /\ ~it.valid

\* The entry is not before the saved key, after it if that key ended with
\* number 0; and what the iterator could see of the entry's own key before it
\* has been passed over as a repetition.
FindAt == pc = "find" =>
  /\ at # None /\ it.dir = "forward" /\ it.saved # None /\ it.ok
  /\ it.saved <= at.key
  /\ it.zero => it.saved < at.key
  /\ \A f \in view : Visible(f) /\ f.key = at.key /\ Precedes(f, at)
                     => loc.skipping /\ at.key <= it.saved
  /\ loc.reseek => /\ loc.n = 0
                   /\ it.saved < at.key \/ (Visible(at) /\ ~loc.skipping)

\* Turning forwards, what lies behind the entry is before the current key.
TurnAt == pc = "turn" =>
  /\ at # None /\ it.dir = "forward" /\ it.saved # None /\ it.ok /\ ~it.zero
  /\ \A f \in view : Visible(f) /\ Precedes(f, at) => f.key < it.saved

PrevAt == pc = "prev" => it.dir = "reverse" /\ it.ok

\* What the iterator can see and the merging iterator has passed backwards.
Passed(f) == Visible(f) /\ (at # None => Precedes(at, f))

\* Backwards, only entries of the saved key and later ones have been passed.
BackAt == pc \in {"value", "back"} =>
  /\ it.dir = "reverse" /\ it.saved # None /\ it.ok
  /\ innerOk => \A f \in view : Passed(f) => it.saved <= f.key
  /\ pc = "value" /\ at # None => at.key <= it.saved

\* A valid cursor between calls, and where its call ends.
Stands == pc \in {"idle", "end"} /\ it.valid =>
  /\ it.ok /\ innerOk
  /\ it.dir = "forward" => /\ at # None /\ at.key = it.saved /\ Visible(at)
                           /\ \A f \in view : Visible(f) /\ f.key = at.key => f.seq <= at.seq
                           /\ it.zero => at.seq = 0
  /\ it.dir = "reverse" => /\ at # None => at.key < it.saved
                           /\ \A f \in view : Passed(f) => it.saved <= f.key

Position == Steady /\ FindAt /\ TurnAt /\ PrevAt /\ BackAt /\ Stands

\* The constants.
LEMMA OptionTypes ==
  ASSUME opts \in Options
  PROVE  /\ opts.lower \in Keys \cup {None} /\ opts.upper \in Keys \cup {None}
         /\ opts.maxSkippable \in Nat /\ opts.maxSkip \in Nat /\ opts.cacheOnly \in BOOLEAN
BY OptionsAssumption

\* Keys are numbers, and None is not one of them.
LEMMA NoneIs == \A k \in Keys : k \in Nat /\ k # None
BY KeysAssumption

\* A loop begins with locals of the right types.
LEMMA LocalsType == NoLocals \in LocTypes
BY DEF NoLocals, LocTypes

\* A step of a loop, or of a call, leaves the database and the view alone.
LEMMA KeepsTypes ==
  ASSUME Types, UNCHANGED <<db, ref>>, it' \in ItTypes, it'.seq = it.seq, it'.sv = it.sv,
         at' \in view \cup {None}, innerOk' \in BOOLEAN, pc' \in Places, loc' \in LocTypes,
         (pc' \in {"new", "idle"}) = (call' = NoCall)
  PROVE  Types'
BY DEF Types, db, ref

\* A move of the merging iterator leads to e, or it becomes invalid with a status.
LEMMA MoveIs ==
  ASSUME NEW e, Move(e), e \in view \cup {None}
  PROVE  /\ at' \in view \cup {None} /\ innerOk' \in BOOLEAN
         /\ at' # None => at' = e /\ innerOk'
         /\ innerOk' => at' = e
BY DEF Move

\* Noting number 0 and counting the entry changes nothing else of the cursor.
LEMMA SeenIs ==
  ASSUME Types, at # None
  PROVE  /\ Worked(Seen) \in ItTypes
         /\ Worked(Seen).seq = it.seq /\ Worked(Seen).sv = it.sv
         /\ Worked(Seen).dir = it.dir /\ Worked(Seen).ok = it.ok
         /\ Worked(Seen).saved = it.saved /\ Worked(Seen).zero = (at.seq = 0)
         /\ Worked(Seen).valid = it.valid
<1>1. it \in ItTypes BY DEF Types
<1>2. Seen \in ItTypes BY <1>1 DEF Seen, ItTypes
<1>3. /\ Seen.seq = it.seq /\ Seen.sv = it.sv /\ Seen.dir = it.dir /\ Seen.ok = it.ok
      /\ Seen.saved = it.saved /\ Seen.zero = (at.seq = 0) /\ Seen.valid = it.valid
  BY <1>1 DEF Seen, ItTypes
<1> DEFINE s == Seen
<1> HIDE DEF s
<1>4. s \in ItTypes BY <1>2 DEF s
<1>5. /\ Worked(s) \in ItTypes
      /\ Worked(s).seq = s.seq /\ Worked(s).sv = s.sv
      /\ Worked(s).dir = s.dir /\ Worked(s).ok = s.ok
      /\ Worked(s).saved = s.saved /\ Worked(s).zero = s.zero /\ Worked(s).valid = s.valid
  BY <1>4 DEF Worked, ItTypes
<1>6. QED BY <1>3, <1>5 DEF s

-----------------------------------------------------------------------------
(***************************************************************************)
(* Forwards.                                                               *)
(***************************************************************************)

\* The end of an iteration, from an entry the iterator is done with: it was of
\* the key now saved, and no version of that key is left that could be taken for
\* the newest one.
Leaving(i, l) ==
  /\ i \in ItTypes /\ l \in LocTypes /\ i.seq = it.seq /\ i.sv = it.sv
  /\ i.dir = "forward" /\ i.ok /\ i.saved = at.key /\ (i.zero => at.seq = 0)
  /\ l.n <= opts.maxSkip + 1 /\ ~l.reseek
  /\ ~l.skipping => \A f \in view : Visible(f) /\ f.key = at.key => Precedes(at, f)

\* Where Advance leads: one entry on, or beyond the versions of the key.
LEMMA NextEntry ==
  ASSUME Types, at # None, NEW i, NEW l, Leaving(i, l), NEW a, IsAfter(at, a), a # None
  PROVE  /\ i.saved <= a.key /\ (i.zero => i.saved < a.key)
         /\ \A f \in view : Visible(f) /\ f.key = a.key /\ Precedes(f, a)
                            => l.skipping /\ a.key <= i.saved
<1>1. /\ at \in view /\ a \in view /\ Store(view)
      /\ Precedes(at, a) /\ \A f \in view : Precedes(at, f) => f = a \/ Precedes(a, f)
  BY DEF Types, IsAfter
<1>2. \A f \in view : f.key \in Nat /\ f.seq \in Nat BY <1>1, EntryType DEF Store
<1>3. at.key <= a.key BY <1>1, <1>2 DEF Precedes
<1>4. at.seq = 0 => at.key < a.key BY <1>1, <1>2 DEF Precedes
<1>5. ASSUME NEW f \in view, Visible(f), f.key = a.key, Precedes(f, a)
      PROVE  l.skipping /\ a.key <= i.saved
  <2>1. ~ Precedes(at, f)
    <3>1. f # a /\ ~Precedes(a, f) BY <1>1, <1>2, <1>5 DEF Precedes
    <3>2. QED BY <1>1, <3>1
  <2>2. f = at \/ Precedes(f, at) BY <1>1, <2>1, Ordered
  <2>3. f.key <= at.key BY <1>1, <1>2, <2>2 DEF Precedes
  <2>4. f.key = at.key BY <1>1, <1>2, <1>3, <1>5, <2>3
  <2>5. l.skipping BY <1>5, <2>1, <2>4 DEF Leaving
  <2>6. a.key = i.saved BY <1>5, <2>4 DEF Leaving
  <2>7. QED BY <1>1, <1>2, <2>5, <2>6
<1>6. QED BY <1>3, <1>4, <1>5 DEF Leaving

\* A seek leads to entries of the key or of a later one, and passes none the iterator
\* could see of the key it leads to.
LEMMA NextKey ==
  ASSUME Types, NEW k \in Nat, NEW skipping \in BOOLEAN,
         NEW e, e \in From(k, IF skipping THEN Past ELSE it.seq),
         \A f \in From(k, IF skipping THEN Past ELSE it.seq) : f = e \/ Precedes(e, f)
  PROVE  /\ e \in view /\ k <= e.key
         /\ \A f \in view : Visible(f) /\ f.key = e.key => ~Precedes(f, e)
         /\ k < e.key \/ (Visible(e) /\ ~skipping)
<1>1. Store(view) BY DEF Types
<1>2. \A f \in view : f.key \in Nat /\ f.seq \in Nat BY <1>1, EntryType DEF Store
<1>3. e \in view /\ it.seq \in Nat BY DEF From, Types, ItTypes
<1>4. \A f : f \in From(k, IF skipping THEN Past ELSE it.seq)
             <=> f \in view /\ (f.key > k \/ (f.key = k /\ ~skipping /\ f.seq <= it.seq))
  <2>1. CASE skipping BY <1>2, <2>1 DEF From, Past
  <2>2. CASE ~skipping BY <2>2 DEF From
  <2>3. QED BY <2>1, <2>2
<1>5. k < e.key \/ (e.key = k /\ e.seq <= it.seq /\ ~skipping) BY <1>2, <1>3, <1>4
<1>6. ASSUME NEW f \in view, Visible(f), f.key = e.key, Precedes(f, e) PROVE FALSE
  <2>1. f.seq <= it.seq BY <1>6 DEF Visible
  <2>2. f \in From(k, IF skipping THEN Past ELSE it.seq) BY <1>2, <1>3, <1>4, <1>5, <1>6, <2>1
  <2>3. f = e \/ Precedes(e, f) BY <2>2
  <2>4. QED BY <1>2, <1>3, <1>6, <2>3 DEF Precedes
<1>7. k <= e.key BY <1>2, <1>3, <1>5
<1>8. QED BY <1>3, <1>5, <1>6, <1>7 DEF Visible

\* The end of an iteration of FindNextUserEntryInternal keeps the invariant.
LEMMA AdvancePosition ==
  ASSUME Types, Position, pc = "find", at # None, NEW i, NEW l, Leaving(i, l), Advance(i, l),
         UNCHANGED call
  PROVE  Types' /\ Position'
<1>1. /\ at \in view /\ Store(view) /\ opts \in Options /\ it \in ItTypes /\ call # NoCall
  BY DEF Types
<1>2. opts.maxSkip \in Nat BY <1>1, OptionTypes
<1>3. at.key \in Nat /\ at.key \in Keys /\ at.key # None BY <1>1, EntryType, NoneIs DEF Store
<1>4. /\ i \in ItTypes /\ l \in LocTypes /\ i.seq = it.seq /\ i.sv = it.sv
      /\ i.dir = "forward" /\ i.ok /\ i.saved = at.key /\ l.n \in Nat /\ l.skipping \in BOOLEAN
  BY DEF Leaving, LocTypes
<1> DEFINE on == IF l.n > opts.maxSkip /\ ~l.reseek THEN [i EXCEPT !.zero = FALSE] ELSE i
           ln == IF l.n > opts.maxSkip /\ ~l.reseek THEN [l EXCEPT !.n = 0, !.reseek = TRUE] ELSE l
           off == [on EXCEPT !.valid = FALSE]
           s == SeekTo(at.key, IF l.skipping THEN Past ELSE it.seq)
<1>5. /\ on \in ItTypes /\ on.seq = it.seq /\ on.sv = it.sv /\ on.dir = "forward" /\ on.ok
      /\ on.saved = at.key
  BY <1>4 DEF ItTypes
<1>6. ln \in LocTypes /\ ln.skipping = l.skipping /\ ln.n <= opts.maxSkip
  <2>1. CASE l.n > opts.maxSkip /\ ~l.reseek
    <3> DEFINE m == [l EXCEPT !.n = 0, !.reseek = TRUE]
    <3>1. m \in LocTypes /\ m.skipping = l.skipping /\ m.n = 0 BY <1>4 DEF LocTypes
    <3>2. ln = m BY <2>1
    <3> HIDE DEF m, ln
    <3>3. QED BY <1>2, <3>1, <3>2
  <2>2. CASE ~(l.n > opts.maxSkip /\ ~l.reseek)
    <3>1. ln = l BY <2>2
    <3>2. ~(l.n > opts.maxSkip) BY <2>2 DEF Leaving
    <3>3. QED BY <1>2, <1>4, <3>1, <3>2
  <2>3. QED BY <2>1, <2>2
<1>7. off \in ItTypes /\ off.seq = it.seq /\ off.sv = it.sv /\ ~off.valid
  BY <1>5 DEF ItTypes
<1>8. /\ UNCHANGED <<db, ref>>
      /\ at' # None => pc' = "find" /\ loc' = ln /\ it' = on
      /\ at' = None => pc' = "end" /\ loc' = NoLocals /\ it' = off
  BY <1>4 DEF Advance, GotoIfValid, Goto, Finish
<1>9. /\ at' \in view \cup {None} /\ innerOk' \in BOOLEAN /\ (at' # None => innerOk')
  <2>1. After(at) \in view \cup {None} BY <1>1, AfterIs DEF IsAfter
  <2>2. s \in view \cup {None} BY <1>1, SeekToIs DEF From
  <2>3. Move(After(at)) \/ Move(s) BY <1>4 DEF Advance
  <2>4. QED BY <2>1, <2>2, <2>3, MoveIs
<1>10. ASSUME at' # None
       PROVE  /\ at.key <= at'.key /\ (on.zero => at.key < at'.key)
              /\ \A f \in view : Visible(f) /\ f.key = at'.key /\ Precedes(f, at')
                                 => ln.skipping /\ at'.key <= at.key
              /\ ln.reseek => /\ ln.n = 0
                              /\ at.key < at'.key \/ (at'.seq <= it.seq /\ ~ln.skipping)
  <2>2. CASE l.n > opts.maxSkip /\ ~l.reseek
    <3>1. Move(s) BY <1>4, <2>2 DEF Advance
    <3>2. s \in view \cup {None} BY <1>1, SeekToIs DEF From
    <3>3. at' = s BY <1>10, <3>1, <3>2, MoveIs
    <3>4. PICK e : e = at' OBVIOUS
    <3>5. /\ e \in From(at.key, IF l.skipping THEN Past ELSE it.seq)
          /\ \A f \in From(at.key, IF l.skipping THEN Past ELSE it.seq) : f = e \/ Precedes(e, f)
      BY <1>1, <1>10, <3>3, <3>4, SeekToIs
    <3>6. /\ e \in view /\ at.key <= e.key
          /\ \A f \in view : Visible(f) /\ f.key = e.key => ~Precedes(f, e)
          /\ at.key < e.key \/ (Visible(e) /\ ~l.skipping)
      BY <1>3, <1>4, <3>5, NextKey
    <3>7. ~on.zero /\ ln.n = 0 /\ ln.reseek BY <1>4, <2>2 DEF ItTypes, LocTypes
    <3>8. QED BY <1>6, <3>4, <3>6, <3>7 DEF Visible
  <2>3. CASE ~(l.n > opts.maxSkip /\ ~l.reseek)
    <3>1. Move(After(at)) BY <2>3 DEF Advance
    <3>2. After(at) \in view \cup {None} BY <1>1, AfterIs DEF IsAfter
    <3>3. at' = After(at) BY <1>10, <3>1, <3>2, MoveIs
    <3>4. PICK e : e = at' OBVIOUS
    <3>5. IsAfter(at, e) BY <1>1, <3>3, <3>4, AfterIs
    <3>6. /\ i.saved <= e.key /\ (i.zero => i.saved < e.key)
          /\ \A f \in view : Visible(f) /\ f.key = e.key /\ Precedes(f, e)
                            => l.skipping /\ e.key <= i.saved
      BY <1>10, <3>4, <3>5, NextEntry
    <3>7. on = i /\ ln = l /\ ~l.reseek BY <2>3 DEF Leaving
    <3>8. QED BY <1>4, <3>4, <3>6, <3>7
  <2>4. QED BY <2>2, <2>3
<1> HIDE DEF on, off, ln, s
<1>11. Types'
  <2>1. CASE at' # None
    <3>1. QED BY <1>1, <1>5, <1>6, <1>8, <1>9, <2>1, KeepsTypes DEF Places
  <2>2. CASE at' = None
    <3>1. QED BY <1>1, <1>7, <1>8, <1>9, <2>2, KeepsTypes, LocalsType DEF Places
  <2>3. QED BY <2>1, <2>2
<1>12. opts' = opts /\ view' = view BY <1>8 DEF ref
<1>13. Position'
  <2>1. CASE at' # None
    <3>1. pc' = "find" /\ loc' = ln /\ it' = on BY <1>8, <2>1
    <3>2. Steady' BY <1>3, <1>5, <1>6, <1>9, <1>12, <3>1 DEF Steady
    <3>3. FindAt' BY <1>3, <1>5, <1>10, <1>12, <2>1, <3>1 DEF FindAt, Visible
    <3>4. QED BY <3>1, <3>2, <3>3 DEF Position, TurnAt, PrevAt, BackAt, Stands
  <2>2. CASE at' = None
    <3>1. pc' = "end" /\ loc' = NoLocals /\ ~it'.valid BY <1>7, <1>8, <2>2
    <3>2. Steady' BY <1>2, <1>12, <2>2, <3>1 DEF Steady, NoLocals
    <3>3. QED BY <3>1, <3>2 DEF Position, FindAt, TurnAt, PrevAt, BackAt, Stands
  <2>3. QED BY <2>1, <2>2
<1>14. QED BY <1>11, <1>13

\* A call, or a loop, that ends with an invalid cursor.
LEMMA EndsInvalid ==
  ASSUME Types, UNCHANGED <<db, ref>>, at' \in view \cup {None}, innerOk' \in BOOLEAN,
         at' # None => innerOk', pc' = "end", loc' = NoLocals, it' \in ItTypes,
         it'.seq = it.seq, it'.sv = it.sv, ~it'.valid, call' # NoCall
  PROVE  Types' /\ Position'
<1>1. opts.maxSkip \in Nat /\ opts' = opts BY OptionTypes DEF Types, ref
<1>2. Types' BY KeepsTypes, LocalsType DEF Places
<1>3. Steady' BY <1>1 DEF Steady, NoLocals
<1>4. QED BY <1>2, <1>3 DEF Position, FindAt, TurnAt, PrevAt, BackAt, Stands

\* What holds at the start of every iteration of FindNextUserEntryInternal.
LEMMA FindFacts ==
  ASSUME Types, Position, pc = "find"
  PROVE  /\ at # None /\ at \in view /\ Store(view) /\ call # NoCall
         /\ at.key \in Keys /\ at.key \in Nat /\ at.seq \in Nat /\ it.saved \in Nat
         /\ it \in ItTypes /\ it.dir = "forward" /\ it.ok /\ innerOk
         /\ loc \in LocTypes /\ loc.n \in Nat /\ loc.n <= opts.maxSkip /\ opts.maxSkip \in Nat
         /\ it.saved <= at.key /\ (it.zero => it.saved < at.key)
         /\ \A f \in view : Visible(f) /\ f.key = at.key /\ Precedes(f, at)
                            => loc.skipping /\ at.key <= it.saved
         /\ loc.reseek => loc.n = 0 /\ (it.saved < at.key \/ (Visible(at) /\ ~loc.skipping))
<1>1. at # None /\ at \in view BY DEF Types, Position, FindAt
<1>2. at \in Entry BY <1>1 DEF Types, Store
<1>3. it.saved \in Nat BY KeysAssumption DEF Types, ItTypes, Position, FindAt
<1>4. opts.maxSkip \in Nat BY OptionTypes DEF Types
<1>5. loc.n \in Nat BY DEF Types, LocTypes
<1>6. QED BY <1>1, <1>2, <1>3, <1>4, <1>5, EntryType DEF Types, Position, FindAt, Steady

\* The upper bound and the limit on skipped entries end the loop as the invariant
\* allows.
LEMMA FindStopsPosition ==
  ASSUME Types, Position, FindStops
  PROVE  Types' /\ Position'
<1>1. pc = "find" BY DEF FindStops
<1>2. at # None /\ at \in view /\ it \in ItTypes /\ innerOk /\ call # NoCall BY <1>1, FindFacts
<1> DEFINE i == IF AtUpper(at.key) THEN [Seen EXCEPT !.valid = FALSE] ELSE Incomplete(Seen)
<1>3. i \in ItTypes /\ i.seq = it.seq /\ i.sv = it.sv /\ ~i.valid
  BY <1>2 DEF Seen, Incomplete, ItTypes
<1>4. it' = i /\ pc' = "end" /\ loc' = NoLocals /\ UNCHANGED <<db, ref, inner, call>>
  BY DEF FindStops, Finish, Goto
<1> HIDE DEF i
<1>5. QED BY <1>2, <1>3, <1>4, EndsInvalid DEF inner

\* A repeated entry is one Advance may leave: its key is the saved one.
LEMMA FindRepeatedLeaves ==
  ASSUME Types, Position, FindRepeated
  PROVE  Leaving(Worked(Seen), [loc EXCEPT !.n = @ + 1])
<1>1. pc = "find" BY DEF FindRepeated, Looking
<1>2. /\ at # None /\ at.key \in Nat /\ it.saved \in Nat /\ it.saved <= at.key
      /\ loc \in LocTypes /\ loc.n \in Nat /\ loc.n <= opts.maxSkip /\ opts.maxSkip \in Nat
      /\ it.dir = "forward" /\ it.ok
      /\ loc.reseek => it.saved < at.key \/ ~loc.skipping
  BY <1>1, FindFacts
<1>3. loc.skipping /\ at.key <= it.saved BY DEF FindRepeated, Repeated
<1>4. at.key = it.saved /\ ~loc.reseek BY <1>2, <1>3
<1> DEFINE l == [loc EXCEPT !.n = @ + 1]
<1>5. l \in LocTypes /\ l.n = loc.n + 1 /\ ~l.reseek /\ l.skipping BY <1>2, <1>3, <1>4 DEF LocTypes
<1> HIDE DEF l
<1>6. l.n <= opts.maxSkip + 1 BY <1>2, <1>5
<1>7. Leaving(Worked(Seen), l) BY <1>2, <1>4, <1>5, <1>6, SeenIs DEF Leaving
<1>8. QED BY <1>7 DEF l

\* So is a deleted one, whose key is saved and skipped.
LEMMA FindDeletedLeaves ==
  ASSUME Types, Position, FindDeleted
  PROVE  Leaving([Worked(Seen) EXCEPT !.saved = at.key],
                 [loc EXCEPT !.skipping = TRUE, !.n = 0, !.reseek = FALSE])
<1>1. pc = "find" BY DEF FindDeleted, Looking
<1>2. /\ at # None /\ at.key \in Keys /\ loc \in LocTypes /\ opts.maxSkip \in Nat
      /\ it.dir = "forward" /\ it.ok
  BY <1>1, FindFacts
<1> DEFINE l == [loc EXCEPT !.skipping = TRUE, !.n = 0, !.reseek = FALSE]
           w == Worked(Seen)
           i == [w EXCEPT !.saved = at.key]
<1>3. l \in LocTypes /\ l.n = 0 /\ ~l.reseek /\ l.skipping BY <1>2 DEF LocTypes
<1>4. /\ w \in ItTypes /\ w.seq = it.seq /\ w.sv = it.sv /\ w.dir = it.dir /\ w.ok = it.ok
      /\ w.zero = (at.seq = 0)
  BY <1>2, SeenIs
<1> HIDE DEF l, w
<1>5. /\ i \in ItTypes /\ i.seq = w.seq /\ i.sv = w.sv /\ i.dir = w.dir /\ i.ok = w.ok
      /\ i.saved = at.key /\ i.zero = w.zero
  BY <1>2, <1>4 DEF ItTypes
<1> HIDE DEF i
<1>6. l.n <= opts.maxSkip + 1 BY <1>2, <1>3
<1>7. Leaving(i, l) BY <1>2, <1>3, <1>4, <1>5, <1>6 DEF Leaving
<1>8. QED BY <1>7 DEF i, l, w

\* So is one newer than the iterator, whether its key is skipped or new.
LEMMA FindNewerLeaves ==
  ASSUME Types, Position, FindNewer
  PROVE  \E i, l : Leaving(i, l) /\ Advance(i, l) /\ i.valid = it.valid
                   /\ \/ l.skipping = loc.skipping /\ it.saved = at.key
                      \/ ~l.skipping /\ it.saved < at.key
<1>1. pc = "find" /\ ~Visible(at) BY DEF FindNewer, Looking
<1>2. /\ at # None /\ at \in view /\ Store(view) /\ at.key \in Keys /\ at.key \in Nat
      /\ it.saved \in Nat /\ it.saved <= at.key
      /\ loc \in LocTypes /\ loc.n \in Nat /\ loc.n <= opts.maxSkip /\ opts.maxSkip \in Nat
      /\ it.dir = "forward" /\ it.ok
      /\ loc.reseek => it.saved < at.key \/ Visible(at)
      /\ \A f \in view : Visible(f) /\ f.key = at.key /\ Precedes(f, at)
                            => loc.skipping /\ at.key <= it.saved
  BY <1>1, FindFacts
<1>3. \A f \in view : Visible(f) => f # at /\ (Precedes(at, f) \/ Precedes(f, at))
  BY <1>1, <1>2, Ordered
<1> DEFINE same == at.key = it.saved \/ (loc.skipping /\ at.key <= it.saved)
<1> DEFINE w == Worked(Seen)
<1>4. /\ w \in ItTypes /\ w.seq = it.seq /\ w.sv = it.sv /\ w.dir = it.dir /\ w.ok = it.ok
      /\ w.zero = (at.seq = 0) /\ w.saved = it.saved /\ w.valid = it.valid
  BY <1>2, SeenIs
<1>5. CASE same
  <2> DEFINE l == [loc EXCEPT !.n = @ + 1]
  <2>1. at.key = it.saved /\ ~loc.reseek BY <1>1, <1>2, <1>5
  <2>2. l \in LocTypes /\ l.n = loc.n + 1 /\ ~l.reseek /\ l.skipping = loc.skipping
    BY <1>2, <2>1 DEF LocTypes
  <2>3. Advance(w, l) BY <1>5 DEF FindNewer
  <2> HIDE DEF l, w
  <2>4. l.n <= opts.maxSkip + 1 BY <1>2, <2>2
  <2>5. ~l.skipping => \A f \in view : Visible(f) /\ f.key = at.key => Precedes(at, f)
    BY <1>2, <1>3, <2>2
  <2>6. Leaving(w, l) BY <1>2, <1>4, <2>1, <2>2, <2>4, <2>5 DEF Leaving
  <2>7. QED BY <1>4, <2>1, <2>2, <2>3, <2>6
<1>6. CASE ~same
  <2> DEFINE l == [loc EXCEPT !.skipping = FALSE, !.n = 0, !.reseek = FALSE]
             i == [w EXCEPT !.saved = at.key]
  <2>1. l \in LocTypes /\ l.n = 0 /\ ~l.reseek /\ ~l.skipping BY <1>2 DEF LocTypes
  <2>2. Advance(i, l) BY <1>6 DEF FindNewer
  <2>3. ~(loc.skipping /\ at.key <= it.saved) /\ it.saved < at.key BY <1>2, <1>6
  <2> HIDE DEF l, w
  <2>4. /\ i \in ItTypes /\ i.seq = w.seq /\ i.sv = w.sv /\ i.dir = w.dir /\ i.ok = w.ok
        /\ i.saved = at.key /\ i.zero = w.zero /\ i.valid = w.valid
    BY <1>2, <1>4 DEF ItTypes
  <2> HIDE DEF i
  <2>5. l.n <= opts.maxSkip + 1 BY <1>2, <2>1
  <2>6. \A f \in view : Visible(f) /\ f.key = at.key => Precedes(at, f) BY <1>2, <1>3, <2>3
  <2>7. Leaving(i, l) BY <1>2, <1>4, <2>1, <2>4, <2>5, <2>6 DEF Leaving
  <2>8. QED BY <1>4, <2>1, <2>2, <2>3, <2>4, <2>7
<1>7. QED BY <1>5, <1>6

\* The three iterations that go on keep the invariant.
LEMMA FindOnPosition ==
  ASSUME Types, Position, FindRepeated \/ FindDeleted \/ FindNewer
  PROVE  Types' /\ Position'
<1>1. pc = "find" /\ UNCHANGED call BY DEF FindRepeated, FindDeleted, FindNewer, Looking
<1>2. at # None BY <1>1, FindFacts
<1>3. CASE FindRepeated BY <1>1, <1>2, <1>3, FindRepeatedLeaves, AdvancePosition DEF FindRepeated
<1>4. CASE FindDeleted BY <1>1, <1>2, <1>4, FindDeletedLeaves, AdvancePosition DEF FindDeleted
<1>5. CASE FindNewer BY <1>1, <1>2, <1>5, FindNewerLeaves, AdvancePosition
<1>6. QED BY <1>3, <1>4, <1>5

\* What FindYields stops at is the newest version the iterator can see.
LEMMA YieldsNewest ==
  ASSUME Types, Position, pc = "find", Visible(at), ~Repeated
  PROVE  \A f \in view : Visible(f) /\ f.key = at.key => f.seq <= at.seq
<1>1. /\ at # None /\ at \in view /\ Store(view)
      /\ at.key \in Nat /\ at.seq \in Nat /\ it.saved \in Nat
      /\ it.zero => it.saved < at.key
      /\ \A f \in view : Visible(f) /\ f.key = at.key /\ Precedes(f, at)
                            => loc.skipping /\ at.key <= it.saved
  BY FindFacts
<1>2. ~(loc.skipping /\ at.key <= it.saved) BY <1>1 DEF Repeated
<1>3. \A f \in view : f.seq \in Nat BY <1>1, EntryType DEF Store
<1>4. \A f \in view : f.key = at.key /\ f.seq > at.seq => Precedes(f, at) BY DEF Precedes
<1>5. QED BY <1>1, <1>2, <1>3, <1>4

\* So does the iteration that stops at the entry to show.
LEMMA FindYieldsPosition ==
  ASSUME Types, Position, FindYields
  PROVE  Types' /\ Position'
<1>1. pc = "find" /\ Visible(at) /\ ~Repeated BY DEF FindYields, Looking
<1>2. /\ at # None /\ at \in view /\ at.key \in Keys /\ it \in ItTypes /\ it.dir = "forward"
      /\ it.ok /\ innerOk /\ call # NoCall /\ opts.maxSkip \in Nat
  BY <1>1, FindFacts
<1> DEFINE w == Worked(Seen)
           i == [w EXCEPT !.saved = at.key, !.valid = TRUE]
<1>3. /\ w \in ItTypes /\ w.seq = it.seq /\ w.sv = it.sv /\ w.dir = it.dir /\ w.ok = it.ok
      /\ w.zero = (at.seq = 0)
  BY <1>2, SeenIs
<1>4. it' = i /\ pc' = "end" /\ loc' = NoLocals /\ UNCHANGED <<db, ref, inner, call>>
  BY DEF FindYields, Finish, Goto
<1> HIDE DEF w
<1>5. /\ i \in ItTypes /\ i.seq = w.seq /\ i.sv = w.sv /\ i.dir = w.dir /\ i.ok = w.ok
      /\ i.saved = at.key /\ i.zero = w.zero /\ i.valid
  BY <1>2, <1>3 DEF ItTypes
<1> HIDE DEF i
<1>6. at' = at /\ innerOk' = innerOk /\ view' = view /\ opts' = opts BY <1>4 DEF inner, ref
<1>7. Types'
  BY <1>1, <1>2, <1>3, <1>4, <1>5, <1>6, KeepsTypes, LocalsType DEF Places, Types
<1>8. Steady' BY <1>2, <1>4, <1>5, <1>6, NoneIs DEF Steady, NoLocals
<1>9. \A f \in view : Visible(f) /\ f.key = at.key => f.seq <= at.seq BY <1>1, YieldsNewest
<1>10. Stands' BY <1>1, <1>2, <1>3, <1>4, <1>5, <1>6, <1>9 DEF Stands, Visible
<1>11. QED BY <1>4, <1>7, <1>8, <1>10 DEF Position, FindAt, TurnAt, PrevAt, BackAt

\* A seek, or the turn of the direction, leads to an entry where the search for
\* the next one to show may begin.
LEMMA FindBegins ==
  ASSUME Types, UNCHANGED <<db, ref>>, NEW e, at' = e, e \in view, innerOk',
         pc' = "find", it' \in ItTypes, it'.seq = it.seq, it'.sv = it.sv, call' # NoCall,
         loc' \in LocTypes, loc'.n = 0, ~loc'.reseek,
         it'.dir = "forward", it'.ok, it'.saved \in Nat, it'.saved <= e.key,
         it'.zero => it'.saved < e.key,
         \A f \in view : Visible(f) /\ f.key = e.key /\ Precedes(f, e)
                         => loc'.skipping /\ e.key <= it'.saved
  PROVE  Types' /\ Position'
<1>1. opts.maxSkip \in Nat /\ opts' = opts /\ view' = view /\ at' # None
  BY OptionTypes, NoneAssumption DEF Types, ref, Store
<1>2. Types' BY <1>1, KeepsTypes DEF Places
<1>3. it'.saved # None BY KeysAssumption
<1>4. Steady' BY <1>1, <1>3 DEF Steady
<1>5. FindAt' BY <1>1, <1>3 DEF FindAt, Visible
<1>6. QED BY <1>2, <1>4, <1>5 DEF Position, TurnAt, PrevAt, BackAt, Stands

\* The cursor of a seek, and a cursor made invalid.
SoughtAt(d, s) == [Sought EXCEPT !.dir = d, !.saved = s]
Off(i) == [i EXCEPT !.valid = FALSE]

\* What a seek makes of the cursor's fields, whether or not it finds an entry.
LEMMA SoughtIs ==
  ASSUME Types, NEW d \in {"forward", "reverse"}, NEW s \in Keys \cup {None},
         NEW i, i = SoughtAt(d, s)
  PROVE  /\ i \in ItTypes /\ i.seq = it.seq /\ i.sv = it.sv /\ i.dir = d /\ i.ok /\ ~i.zero
         /\ i.saved = s /\ i.valid = it.valid
         /\ Off(i) \in ItTypes
         /\ Off(i).seq = it.seq /\ Off(i).sv = it.sv
         /\ Off(i).ok /\ ~Off(i).valid
<1>1. it \in ItTypes BY DEF Types
<1>2. /\ i \in ItTypes /\ i.seq = it.seq /\ i.sv = it.sv /\ i.dir = d /\ i.ok /\ ~i.zero
      /\ i.saved = s /\ i.valid = it.valid
  BY <1>1 DEF Sought, SoughtAt, ItTypes
<1> DEFINE j == Off(i)
<1>3. j \in ItTypes /\ j.seq = i.seq /\ j.sv = i.sv /\ j.ok = i.ok /\ ~j.valid
  BY <1>2 DEF ItTypes, Off
<1> HIDE DEF j
<1>4. j \in ItTypes /\ j.seq = it.seq /\ j.sv = it.sv /\ j.ok /\ ~j.valid BY <1>2, <1>3
<1>5. QED BY <1>2, <1>4 DEF j

\* Seeks forwards begin FindNextUserEntryInternal in a state the invariant allows.
LEMMA SeekForwardPosition ==
  ASSUME Types, NEW k \in Keys, SeekForward(k), call' # NoCall
  PROVE  Types' /\ Position'
<1>1. Store(view) /\ opts \in Options /\ it \in ItTypes BY DEF Types
<1>2. PICK t \in Keys : t = IF BelowLower(k) THEN opts.lower ELSE k
  BY <1>1, OptionTypes DEF BelowLower
<1>3. t \in Nat BY NoneIs
<1>4. Move(SeekTo(t, it.seq)) BY <1>2 DEF SeekForward
<1>5. PICK i : i = SoughtAt("forward", t) OBVIOUS
<1>6. GotoIfValid("find", NoLocals, i) BY <1>2, <1>5 DEF SeekForward, SoughtAt
<1>7. /\ i \in ItTypes /\ i.seq = it.seq /\ i.sv = it.sv /\ i.dir = "forward" /\ i.ok /\ ~i.zero
      /\ i.saved = t
      /\ Off(i) \in ItTypes
      /\ Off(i).seq = it.seq /\ Off(i).sv = it.sv
      /\ ~Off(i).valid
  BY <1>5, SoughtIs
<1>8. SeekTo(t, it.seq) \in view \cup {None} BY <1>1, SeekToIs DEF From
<1>9. /\ at' \in view \cup {None} /\ innerOk' \in BOOLEAN
      /\ at' # None => at' = SeekTo(t, it.seq) /\ innerOk'
  BY <1>4, <1>8, MoveIs
<1>10. CASE at' = None
  <2>1. /\ UNCHANGED <<db, ref>> /\ pc' = "end" /\ loc' = NoLocals
        /\ it' = Off(i)
    BY <1>6, <1>10 DEF GotoIfValid, Goto, Finish, Off
  <2>2. QED BY <1>7, <1>9, <1>10, <2>1, EndsInvalid
<1>11. CASE at' # None
  <2>1. UNCHANGED <<db, ref>> /\ pc' = "find" /\ loc' = NoLocals /\ it' = i
    BY <1>6, <1>11 DEF GotoIfValid, Goto
  <2>2. PICK e : e = at' OBVIOUS
  <2>3. /\ e \in From(t, IF FALSE THEN Past ELSE it.seq)
        /\ \A f \in From(t, IF FALSE THEN Past ELSE it.seq) : f = e \/ Precedes(e, f)
    BY <1>1, <1>9, <1>11, <2>2, SeekToIs
  <2>4. /\ e \in view /\ t <= e.key
        /\ \A f \in view : Visible(f) /\ f.key = e.key => ~Precedes(f, e)
    BY <1>3, <2>3, NextKey
  <2>5. loc' \in LocTypes /\ loc'.n = 0 /\ ~loc'.reseek BY <2>1, LocalsType DEF NoLocals
  <2>6. QED BY <1>3, <1>7, <1>9, <1>11, <2>1, <2>2, <2>4, <2>5, FindBegins
<1>12. QED BY <1>10, <1>11

\* A step that leaves the loops of one direction for PrevInternal.
LEMMA PrevBegins ==
  ASSUME Types, UNCHANGED <<db, ref>>, at' \in view \cup {None}, innerOk' \in BOOLEAN,
         at' # None => innerOk', pc' = "prev", loc' = NoLocals, it' \in ItTypes,
         it'.seq = it.seq, it'.sv = it.sv, call' # NoCall,
         it'.dir = "reverse", it'.ok, it'.valid => it'.saved # None
  PROVE  Types' /\ Position'
<1>1. opts.maxSkip \in Nat /\ opts' = opts BY OptionTypes DEF Types, ref
<1>2. Types' BY KeepsTypes, LocalsType DEF Places
<1>3. Steady' BY <1>1 DEF Steady, NoLocals
<1>4. QED BY <1>2, <1>3 DEF Position, FindAt, TurnAt, PrevAt, BackAt, Stands

\* Seeks backwards begin PrevInternal in a state the invariant allows.
LEMMA SeekBackwardPosition ==
  ASSUME Types, NEW k \in Keys, SeekBackward(k), call' # NoCall
  PROVE  Types' /\ Position'
<1>1. Store(view) /\ opts \in Options /\ it \in ItTypes BY DEF Types
<1>2. PICK t \in Keys : t = IF AtUpper(k) THEN opts.upper ELSE k
  BY <1>1, OptionTypes DEF AtUpper
<1>3. PICK e : e = IF AtUpper(k) THEN SeekBack(opts.upper, Top) ELSE SeekBack(k, 0) OBVIOUS
<1>4. e \in view \cup {None} BY <1>1, <1>3, SeekBackIs DEF UpTo
<1>5. Move(e) BY <1>3 DEF SeekBackward
<1>6. PICK i : i = SoughtAt("reverse", t) OBVIOUS
<1>7. GotoIfValid("prev", NoLocals, i) BY <1>2, <1>6 DEF SeekBackward, SoughtAt
<1>8. /\ i \in ItTypes /\ i.seq = it.seq /\ i.sv = it.sv /\ i.dir = "reverse" /\ i.ok
      /\ i.saved = t
      /\ Off(i) \in ItTypes
      /\ Off(i).seq = it.seq /\ Off(i).sv = it.sv
      /\ ~Off(i).valid
  BY <1>6, SoughtIs
<1>9. /\ at' \in view \cup {None} /\ innerOk' \in BOOLEAN
      /\ at' # None => at' = e /\ innerOk'
  BY <1>4, <1>5, MoveIs
<1>10. CASE at' = None
  <2>1. /\ UNCHANGED <<db, ref>> /\ pc' = "end" /\ loc' = NoLocals
        /\ it' = Off(i)
    BY <1>7, <1>10 DEF GotoIfValid, Goto, Finish, Off
  <2>2. QED BY <1>8, <1>9, <1>10, <2>1, EndsInvalid
<1>11. CASE at' # None
  <2>1. UNCHANGED <<db, ref>> /\ pc' = "prev" /\ loc' = NoLocals /\ it' = i
    BY <1>7, <1>11 DEF GotoIfValid, Goto
  <2>2. t # None BY NoneIs
  <2>3. QED BY <1>8, <1>9, <2>1, <2>2, PrevBegins
<1>12. QED BY <1>10, <1>11

\* A call begins between calls, and is one.
LEMMA CallingIs ==
  ASSUME NEW op, NEW k, op # "none", Calling(op, k)
  PROVE  pc = "idle" /\ call' # NoCall
BY DEF Calling, NoCall

\* SeekToFirst begins its loop in a state the invariant allows.
LEMMA SeekToFirstPosition ==
  ASSUME Types, Position, SeekToFirst
  PROVE  Types' /\ Position'
<1>1. Store(view) /\ opts \in Options /\ it \in ItTypes BY DEF Types
<1>2. call' # NoCall BY CallingIs DEF SeekToFirst
<1>3. CASE opts.lower # None
  <2>1. opts.lower \in Keys BY <1>1, <1>3, OptionTypes
  <2>2. SeekForward(opts.lower) BY <1>3 DEF SeekToFirst
  <2>3. QED BY <1>2, <2>1, <2>2, SeekForwardPosition
<1>4. CASE opts.lower = None
  <2>1. Move(FirstOf(view)) BY <1>4 DEF SeekToFirst
  <2>2. FirstOf(view) \in view \cup {None} BY <1>1, SomeFirst
  <2>3. /\ at' \in view \cup {None} /\ innerOk' \in BOOLEAN
        /\ at' # None => at' = FirstOf(view) /\ innerOk'
    BY <2>1, <2>2, MoveIs
  <2>4. PICK e : e = at' OBVIOUS
  <2>5. e # None => e \in view /\ e.key \in Keys BY <2>3, <2>4, <1>1, EntryType DEF Store
  <2>6. PICK s \in Keys \cup {None} : s = IF e = None THEN it.saved ELSE e.key
    BY <1>1, <2>5 DEF ItTypes
  <2>7. PICK i : i = SoughtAt("forward", s) OBVIOUS
  <2>8. Sought.saved = it.saved BY <1>1 DEF Sought, ItTypes
  <2>9. GotoIfValid("find", NoLocals, i)
    <3>1. GotoIfValid("find", NoLocals,
            [Sought EXCEPT !.dir = "forward", !.saved = IF at' = None THEN @ ELSE at'.key])
      BY <1>4 DEF SeekToFirst
    <3>2. [Sought EXCEPT !.dir = "forward", !.saved = IF at' = None THEN @ ELSE at'.key] = i
      <4>1. CASE e = None BY <2>4, <2>6, <2>7, <2>8, <4>1, <1>1 DEF Sought, SoughtAt, ItTypes
      <4>2. CASE e # None BY <2>4, <2>6, <2>7, <2>8, <4>2, <1>1 DEF Sought, SoughtAt, ItTypes
      <4>3. QED BY <4>1, <4>2
    <3>3. QED BY <3>1, <3>2
  <2>10. /\ i \in ItTypes /\ i.seq = it.seq /\ i.sv = it.sv /\ i.dir = "forward" /\ i.ok
         /\ ~i.zero /\ i.saved = s
         /\ Off(i) \in ItTypes
         /\ Off(i).seq = it.seq /\ Off(i).sv = it.sv
         /\ ~Off(i).valid
    BY <2>7, SoughtIs
  <2>11. CASE at' = None
    <3>1. /\ UNCHANGED <<db, ref>> /\ pc' = "end" /\ loc' = NoLocals
          /\ it' = Off(i)
      BY <2>9, <2>11 DEF GotoIfValid, Goto, Finish, Off
    <3>2. QED BY <1>2, <2>3, <2>10, <2>11, <3>1, EndsInvalid
  <2>12. CASE at' # None
    <3>1. UNCHANGED <<db, ref>> /\ pc' = "find" /\ loc' = NoLocals /\ it' = i
      BY <2>9, <2>12 DEF GotoIfValid, Goto
    <3>2. /\ e \in view /\ e.key \in Keys /\ s = e.key BY <2>4, <2>5, <2>6, <2>12
    <3>3. \A f \in view : f = e \/ Precedes(e, f)
      BY <1>1, <2>3, <2>4, <2>12, SomeFirst
    <3>4. \A f \in view : ~Precedes(f, e)
      <4>1. \A f \in view : f.key \in Nat /\ f.seq \in Nat BY <1>1, EntryType DEF Store
      <4>2. QED BY <3>2, <3>3, <4>1 DEF Precedes
    <3>5. loc' \in LocTypes /\ loc'.n = 0 /\ ~loc'.reseek BY <3>1, LocalsType DEF NoLocals
    <3>6. i.saved \in Nat /\ i.saved <= e.key BY <2>10, <3>2, NoneIs
    <3>7. QED BY <1>2, <2>3, <2>4, <2>10, <2>12, <3>1, <3>2, <3>4, <3>5, <3>6, FindBegins
  <2>13. QED BY <2>11, <2>12
<1>5. QED BY <1>3, <1>4

\* So does SeekToLast.
LEMMA SeekToLastPosition ==
  ASSUME Types, Position, SeekToLast
  PROVE  Types' /\ Position'
<1>1. Store(view) /\ opts \in Options /\ it \in ItTypes BY DEF Types
<1>2. call' # NoCall BY CallingIs DEF SeekToLast
<1>3. CASE opts.upper # None
  <2>1. opts.upper \in Keys BY <1>1, <1>3, OptionTypes
  <2>2. SeekBackward(opts.upper) BY <1>3 DEF SeekToLast
  <2>3. QED BY <1>2, <2>1, <2>2, SeekBackwardPosition
<1>4. CASE opts.upper = None
  <2>1. Move(LastOf(view)) /\ Goto("prev", NoLocals, [Sought EXCEPT !.dir = "reverse"])
    BY <1>4 DEF SeekToLast
  <2>2. LastOf(view) \in view \cup {None} BY <1>1, SomeLast
  <2>3. /\ at' \in view \cup {None} /\ innerOk' \in BOOLEAN /\ (at' # None => innerOk')
    BY <2>1, <2>2, MoveIs
  <2>4. PICK i : i = [Sought EXCEPT !.dir = "reverse"] OBVIOUS
  <2>5. /\ i \in ItTypes /\ i.seq = it.seq /\ i.sv = it.sv /\ i.dir = "reverse" /\ i.ok
        /\ i.saved = it.saved /\ i.valid = it.valid
    BY <1>1, <2>4 DEF Sought, ItTypes
  <2>6. UNCHANGED <<db, ref>> /\ pc' = "prev" /\ loc' = NoLocals /\ it' = i
    BY <2>1, <2>4 DEF Goto
  <2>7. it.valid => it.saved # None BY DEF Position, Steady
  <2>8. QED BY <1>2, <2>3, <2>5, <2>6, <2>7, PrevBegins
<1>5. QED BY <1>3, <1>4

\* The turn of the direction: its iterations.
LEMMA TurnGoes ==
  ASSUME Types, UNCHANGED <<db, ref>>, NEW e \in view, at' = e, innerOk' \in BOOLEAN, innerOk',
         pc' = "turn", loc' = NoLocals, it' \in ItTypes, it'.seq = it.seq, it'.sv = it.sv,
         call' # NoCall, it'.dir = "forward", it'.ok, ~it'.zero, it'.saved # None,
         \A f \in view : Visible(f) /\ Precedes(f, e) => f.key < it'.saved
  PROVE  Types' /\ Position'
<1>1. opts.maxSkip \in Nat /\ opts' = opts /\ view' = view /\ at' # None
  BY OptionTypes, NoneAssumption DEF Types, ref, Store
<1>2. Types' BY KeepsTypes, LocalsType DEF Places
<1>3. Steady' BY <1>1 DEF Steady, NoLocals
<1>4. TurnAt' BY <1>1 DEF TurnAt, Visible
<1>5. QED BY <1>2, <1>3, <1>4 DEF Position, FindAt, PrevAt, BackAt, Stands

\* What a valid cursor has between calls.
LEMMA StandFacts ==
  ASSUME Types, Position, pc \in {"idle", "end"}, it.valid
  PROVE  /\ it \in ItTypes /\ it.ok /\ innerOk /\ it.saved \in Keys /\ it.saved \in Nat
         /\ it.dir = "forward" =>
              /\ at # None /\ at \in view /\ at.key = it.saved /\ Visible(at)
              /\ \A f \in view : Visible(f) /\ f.key = at.key => f.seq <= at.seq
              /\ it.zero => at.seq = 0
         /\ it.dir # "forward" =>
              /\ it.dir = "reverse"
              /\ at # None => at.key < it.saved
              /\ \A f \in view : Passed(f) => it.saved <= f.key
<1>1. it \in ItTypes /\ at \in view \cup {None} BY DEF Types
<1>2. it.dir \in {"forward", "reverse"} /\ it.saved \in Keys \cup {None} BY <1>1 DEF ItTypes
<1>3. it.saved # None BY DEF Position, Steady
<1>4. Stands BY DEF Position
<1>5. QED BY <1>1, <1>2, <1>3, <1>4, NoneIs DEF Stands

\* DBIter::Next begins its loop, or ReverseToForward's, in a state the invariant allows.
LEMMA NextPosition ==
  ASSUME Types, Position, Next1
  PROVE  Types' /\ Position'
<1>1. it.valid /\ pc = "idle" /\ call' # NoCall BY CallingIs DEF Next1
<1>2. /\ Store(view) /\ opts \in Options /\ it \in ItTypes /\ at \in view \cup {None}
      /\ it.seq \in Nat
  BY DEF Types, ItTypes
<1>3. it.ok /\ innerOk /\ it.saved \in Keys /\ it.saved \in Nat BY <1>1, StandFacts
<1>4. opts.maxSkip \in Nat BY <1>2, OptionTypes
<1>5. \A f \in view : f.key \in Nat /\ f.seq \in Nat /\ f.seq <= MaxSeq
  BY <1>2, EntryType, BoundsAssumption DEF Store, Types
<1>6. CASE it.dir = "forward"
  <2>1. /\ at # None /\ at \in view /\ at.key = it.saved /\ (it.zero => at.seq = 0)
    BY <1>1, <1>6, StandFacts
  <2>2. PICK i : i = [it EXCEPT !.work = 0] OBVIOUS
  <2>3. PICK l : l = [NoLocals EXCEPT !.skipping = TRUE] OBVIOUS
  <2>4. /\ i \in ItTypes /\ i.seq = it.seq /\ i.sv = it.sv /\ i.dir = it.dir /\ i.ok = it.ok
        /\ i.saved = it.saved /\ i.zero = it.zero
        /\ Off(i) \in ItTypes /\ Off(i).seq = it.seq /\ Off(i).sv = it.sv /\ ~Off(i).valid
    <3>1. /\ i \in ItTypes /\ i.seq = it.seq /\ i.sv = it.sv /\ i.dir = it.dir /\ i.ok = it.ok
          /\ i.saved = it.saved /\ i.zero = it.zero
      BY <1>2, <2>2 DEF ItTypes
    <3>2. Off(i) \in ItTypes /\ Off(i).seq = i.seq /\ Off(i).sv = i.sv /\ ~Off(i).valid
      BY <3>1 DEF ItTypes, Off
    <3>3. QED BY <3>1, <3>2
  <2>5. l \in LocTypes /\ l.n = 0 /\ ~l.reseek /\ l.skipping BY <2>3 DEF NoLocals, LocTypes
  <2>6. Move(After(at)) /\ GotoIfValid("find", l, i) BY <1>6, <2>2, <2>3 DEF Next1
  <2>7. After(at) \in view \cup {None} BY <1>2, <2>1, AfterIs DEF IsAfter
  <2>8. /\ at' \in view \cup {None} /\ innerOk' \in BOOLEAN
        /\ at' # None => at' = After(at) /\ innerOk'
    BY <2>6, <2>7, MoveIs
  <2>9. CASE at' = None
    <3>1. UNCHANGED <<db, ref>> /\ pc' = "end" /\ loc' = NoLocals /\ it' = Off(i)
      BY <2>6, <2>9 DEF GotoIfValid, Goto, Finish, Off
    <3>2. QED BY <1>1, <2>4, <2>8, <2>9, <3>1, EndsInvalid
  <2>10. CASE at' # None
    <3>1. UNCHANGED <<db, ref>> /\ pc' = "find" /\ loc' = l /\ it' = i
      BY <2>6, <2>10 DEF GotoIfValid, Goto
    <3>2. PICK e : e = at' OBVIOUS
    <3>3. IsAfter(at, e) /\ e # None /\ e \in view
      BY <1>2, <2>1, <2>8, <2>10, <3>2, AfterIs
    <3>4. 0 <= opts.maxSkip + 1 BY <1>4
    <3>5. Leaving(i, l) BY <1>3, <1>6, <2>1, <2>4, <2>5, <3>4 DEF Leaving
    <3>6. /\ i.saved <= e.key /\ (i.zero => i.saved < e.key)
          /\ \A f \in view : Visible(f) /\ f.key = e.key /\ Precedes(f, e)
                            => l.skipping /\ e.key <= i.saved
      BY <2>1, <3>3, <3>5, NextEntry
    <3>7. QED BY <1>1, <1>3, <1>6, <2>4, <2>5, <2>8, <2>10, <3>1, <3>2, <3>3, <3>6, FindBegins
  <2>11. QED BY <2>9, <2>10
<1>7. CASE it.dir # "forward"
  <2>1. /\ it.dir = "reverse" /\ (at # None => at.key < it.saved)
        /\ \A f \in view : Passed(f) => it.saved <= f.key
    BY <1>1, <1>7, StandFacts
  <2>2. PICK i : i = [it EXCEPT !.work = 0, !.zero = FALSE, !.dir = "forward"] OBVIOUS
  <2>3. /\ i \in ItTypes /\ i.seq = it.seq /\ i.sv = it.sv /\ i.dir = "forward" /\ i.ok
        /\ i.saved = it.saved /\ ~i.zero
        /\ Off(i) \in ItTypes /\ Off(i).seq = it.seq /\ Off(i).sv = it.sv /\ ~Off(i).valid
    <3>1. /\ i \in ItTypes /\ i.seq = it.seq /\ i.sv = it.sv /\ i.dir = "forward" /\ i.ok
          /\ i.saved = it.saved /\ ~i.zero
      BY <1>2, <1>3, <2>2 DEF ItTypes
    <3>2. Off(i) \in ItTypes /\ Off(i).seq = i.seq /\ Off(i).sv = i.sv /\ ~Off(i).valid
      BY <3>1 DEF ItTypes, Off
    <3>3. QED BY <3>1, <3>2
  <2>4. GotoIfValid("turn", NoLocals, i) BY <1>7, <2>2 DEF Next1
  <2>5. IF at = None THEN Move(SeekTo(it.saved, Top)) ELSE UNCHANGED inner
    BY <1>7 DEF Next1
  <2>6. SeekTo(it.saved, Top) \in view \cup {None} BY <1>2, SeekToIs DEF From
  <2>7. /\ at' \in view \cup {None} /\ innerOk' \in BOOLEAN /\ (at' # None => innerOk')
        /\ at' # None => IF at = None THEN at' = SeekTo(it.saved, Top) ELSE at' = at
    BY <1>2, <1>3, <2>5, <2>6, MoveIs DEF inner, Types
  <2>8. CASE at' = None
    <3>1. UNCHANGED <<db, ref>> /\ pc' = "end" /\ loc' = NoLocals /\ it' = Off(i)
      BY <2>4, <2>8 DEF GotoIfValid, Goto, Finish, Off
    <3>2. QED BY <1>1, <2>3, <2>7, <2>8, <3>1, EndsInvalid
  <2>9. CASE at' # None
    <3>1. UNCHANGED <<db, ref>> /\ pc' = "turn" /\ loc' = NoLocals /\ it' = i
      BY <2>4, <2>9 DEF GotoIfValid, Goto
    <3>2. PICK e \in view : e = at' BY <2>7, <2>9
    <3>3. ASSUME NEW f \in view, Precedes(f, e) PROVE f.key < it.saved
      <4>1. CASE at # None
        <5>1. e = at /\ at.key < it.saved BY <2>1, <2>7, <2>9, <3>2, <4>1
        <5>2. QED BY <1>3, <1>5, <3>3, <5>1 DEF Precedes
      <4>2. CASE at = None
        <5>1. /\ e \in From(it.saved, Top)
              /\ \A g \in From(it.saved, Top) : g = e \/ Precedes(e, g)
          BY <1>2, <2>7, <2>9, <3>2, <4>2, SeekToIs
        <5>2. f \notin From(it.saved, Top) BY <1>5, <3>3, <5>1 DEF Precedes
        <5>3. ~(f.key > it.saved) /\ ~(f.key = it.saved /\ f.seq <= Top) BY <5>2 DEF From
        <5>4. f.seq <= Top BY <1>5, BoundsAssumption DEF Top
        <5>5. QED BY <1>3, <1>5, <5>3, <5>4
      <4>3. QED BY <4>1, <4>2
    <3>4. i.saved # None BY <1>3, <2>3, NoneIs
    <3>5. QED BY <1>1, <2>3, <2>7, <2>9, <3>1, <3>2, <3>3, <3>4, TurnGoes
  <2>10. QED BY <2>8, <2>9
<1>8. QED BY <1>6, <1>7

\* ReverseToForward keeps the invariant.
LEMMA TurnPosition ==
  ASSUME Types, Position, Turn
  PROVE  Types' /\ Position'
<1>1. pc = "turn" /\ UNCHANGED call BY DEF Turn
<1>2. /\ Store(view) /\ opts \in Options /\ it \in ItTypes /\ call # NoCall
      /\ at # None /\ at \in view /\ innerOk /\ innerOk \in BOOLEAN
      /\ it.dir = "forward" /\ it.ok /\ ~it.zero /\ it.saved # None
      /\ \A f \in view : Visible(f) /\ Precedes(f, at) => f.key < it.saved
  BY <1>1 DEF Types, Position, TurnAt, Steady
<1>3. it.saved \in Keys /\ it.saved \in Nat BY <1>2, NoneIs DEF ItTypes
<1>4. \A f \in view : f.key \in Nat /\ f.seq \in Nat BY <1>2, EntryType DEF Store
<1>5. CASE at.key >= it.saved
  <2> DEFINE l == [NoLocals EXCEPT !.skipping = TRUE]
  <2>1. l \in LocTypes /\ l.n = 0 /\ ~l.reseek BY DEF NoLocals, LocTypes
  <2>2. /\ UNCHANGED <<db, ref>> /\ pc' = "find" /\ loc' = l /\ it' = it
        /\ at' = at /\ innerOk' = innerOk
    BY <1>5 DEF Turn, Goto, inner
  <2> HIDE DEF l
  <2>3. it.saved <= at.key BY <1>5
  <2>4. \A f \in view : Visible(f) /\ f.key = at.key => ~Precedes(f, at)
    BY <1>2, <1>3, <1>4, <2>3
  <2>5. QED BY <1>1, <1>2, <1>3, <2>1, <2>2, <2>3, <2>4, FindBegins
<1>6. CASE ~(at.key >= it.saved)
  <2>1. Move(After(at)) /\ GotoIfValid("turn", NoLocals, it) BY <1>6 DEF Turn
  <2>2. After(at) \in view \cup {None} BY <1>2, AfterIs DEF IsAfter
  <2>3. /\ at' \in view \cup {None} /\ innerOk' \in BOOLEAN
        /\ at' # None => at' = After(at) /\ innerOk'
    BY <2>1, <2>2, MoveIs
  <2>4. Off(it) \in ItTypes /\ Off(it).seq = it.seq /\ Off(it).sv = it.sv /\ ~Off(it).valid
    BY <1>2 DEF ItTypes, Off
  <2>5. CASE at' = None
    <3>1. UNCHANGED <<db, ref>> /\ pc' = "end" /\ loc' = NoLocals /\ it' = Off(it)
      BY <2>1, <2>5 DEF GotoIfValid, Goto, Finish, Off
    <3>2. QED BY <1>1, <1>2, <2>3, <2>4, <2>5, <3>1, EndsInvalid
  <2>6. CASE at' # None
    <3>1. UNCHANGED <<db, ref>> /\ pc' = "turn" /\ loc' = NoLocals /\ it' = it
      BY <2>1, <2>6 DEF GotoIfValid, Goto
    <3>2. PICK e \in view : e = at' BY <2>3, <2>6
    <3>3. IsAfter(at, e) /\ e # None BY <1>2, <2>3, <2>6, <3>2, AfterIs
    <3>4. ASSUME NEW f \in view, Precedes(f, e) PROVE f.key < it.saved
      <4>1. ~Precedes(at, f) BY <1>4, <3>2, <3>3, <3>4 DEF IsAfter, Precedes
      <4>2. f = at \/ Precedes(f, at) BY <1>2, <4>1, Ordered
      <4>3. f.key <= at.key BY <1>2, <1>4, <4>2 DEF Precedes
      <4>4. QED BY <1>2, <1>3, <1>4, <1>6, <4>3
    <3>5. QED BY <1>1, <1>2, <2>3, <2>6, <3>1, <3>2, <3>4, TurnGoes
  <2>7. QED BY <2>5, <2>6
<1>7. QED BY <1>5, <1>6

-----------------------------------------------------------------------------
(***************************************************************************)
(* Backwards.                                                              *)
(***************************************************************************)

\* The loops of FindValueForCurrentKey and FindUserKeyBeforeSavedKey.
LEMMA BackGoes ==
  ASSUME Types, UNCHANGED <<db, ref>>, NEW e \in view \cup {None}, at' = e,
         innerOk' \in BOOLEAN, at' # None => innerOk',
         pc' \in {"value", "back"}, loc' \in LocTypes, loc'.n <= opts.maxSkip,
         it' \in ItTypes, it'.seq = it.seq, it'.sv = it.sv, call' # NoCall,
         it'.dir = "reverse", it'.ok, it'.saved # None,
         innerOk' => \A f \in view : Visible(f) /\ (e # None => Precedes(e, f))
                                     => it'.saved <= f.key,
         pc' = "value" /\ e # None => e.key <= it'.saved
  PROVE  Types' /\ Position'
<1>1. opts' = opts /\ view' = view BY DEF ref
<1>2. Types' BY KeepsTypes DEF Places
<1>3. Steady' BY <1>1 DEF Steady
<1>4. BackAt' BY <1>1 DEF BackAt, Passed, Visible
<1>5. QED BY <1>2, <1>3, <1>4 DEF Position, FindAt, TurnAt, PrevAt, Stands

\* One entry back from e: what is then passed is of a key not before e's.
LEMMA BehindBefore ==
  ASSUME Store(view), NEW e \in view, NEW s \in Nat, s <= e.key, NEW b, IsBefore(e, b)
  PROVE  /\ \A f \in view : (b # None => Precedes(b, f)) => s <= f.key
         /\ b # None => b.key <= e.key
<1>1. \A f \in view : f.key \in Nat /\ f.seq \in Nat BY EntryType DEF Store
<1>2. ASSUME NEW f \in view, b # None => Precedes(b, f) PROVE s <= f.key
  <2>1. ~Precedes(f, e)
    <3>1. CASE b = None BY <3>1 DEF IsBefore
    <3>2. CASE b # None
      <4>1. b \in view /\ Precedes(b, f) BY <1>2, <3>2 DEF IsBefore
      <4>2. f # b /\ ~Precedes(f, b) BY <1>1, <4>1 DEF Precedes
      <4>3. QED BY <3>2, <4>2 DEF IsBefore
    <3>3. QED BY <3>1, <3>2
  <2>2. f = e \/ Precedes(e, f) BY <2>1, Ordered
  <2>3. e.key <= f.key BY <1>1, <2>2 DEF Precedes
  <2>4. QED BY <1>1, <2>3
<1>3. b # None => b.key <= e.key BY <1>1 DEF IsBefore, Precedes
<1>4. QED BY <1>2, <1>3

\* Counting an entry changes nothing else of the cursor.
LEMMA WorkedIs ==
  ASSUME Types
  PROVE  /\ Worked(it) \in ItTypes
         /\ Worked(it).seq = it.seq /\ Worked(it).sv = it.sv
         /\ Worked(it).dir = it.dir /\ Worked(it).ok = it.ok
         /\ Worked(it).saved = it.saved /\ Worked(it).zero = it.zero
         /\ Worked(it).valid = it.valid /\ Worked(it).pinned = it.pinned
<1>1. it \in ItTypes BY DEF Types
<1>2. QED BY <1>1 DEF Worked, ItTypes

\* What the invariant says of the loops that go backwards.
LEMMA BackFacts ==
  ASSUME Types, Position, pc \in {"value", "back"}
  PROVE  /\ Store(view) /\ opts \in Options /\ it \in ItTypes /\ call # NoCall
         /\ at \in view \cup {None} /\ innerOk \in BOOLEAN /\ (at # None => innerOk)
         /\ it.dir = "reverse" /\ it.ok /\ it.saved \in Keys /\ it.saved \in Nat
         /\ it.saved # None
         /\ loc \in LocTypes /\ loc.n \in Nat /\ loc.n <= opts.maxSkip /\ opts.maxSkip \in Nat
         /\ \A f \in view : f.key \in Nat /\ f.seq \in Nat /\ f.seq <= MaxSeq
         /\ innerOk => \A f \in view : Passed(f) => it.saved <= f.key
         /\ pc = "value" /\ at # None => at.key <= it.saved
<1>1. /\ Store(view) /\ opts \in Options /\ it \in ItTypes /\ call # NoCall
      /\ at \in view \cup {None} /\ innerOk \in BOOLEAN /\ loc \in LocTypes
  BY DEF Types
<1>2. /\ it.dir = "reverse" /\ it.ok /\ it.saved # None
      /\ innerOk => \A f \in view : Passed(f) => it.saved <= f.key
      /\ pc = "value" /\ at # None => at.key <= it.saved
  BY DEF Position, BackAt
<1>3. (at # None => innerOk) /\ loc.n <= opts.maxSkip BY DEF Position, Steady
<1>4. it.saved \in Keys BY <1>1, <1>2 DEF ItTypes
<1>5. opts.maxSkip \in Nat BY <1>1, OptionTypes
<1>6. loc.n \in Nat BY <1>1 DEF LocTypes
<1>7. \A f \in view : f.key \in Nat /\ f.seq \in Nat /\ f.seq <= MaxSeq
  BY <1>1, EntryType, BoundsAssumption DEF Store, Types
<1>8. QED BY <1>1, <1>2, <1>3, <1>4, <1>5, <1>6, <1>7, NoneIs

\* DBIter::Prev begins its loop in a state the invariant allows.
LEMMA PrevPosition ==
  ASSUME Types, Position, Prev1
  PROVE  Types' /\ Position'
<1>1. /\ it.valid /\ pc = "idle" /\ call' # NoCall /\ at' = at /\ innerOk' = innerOk
  BY CallingIs DEF Prev1, inner
<1>2. /\ Store(view) /\ opts \in Options /\ it \in ItTypes /\ at \in view \cup {None}
      /\ innerOk \in BOOLEAN /\ (at # None => innerOk)
  BY DEF Types, Position, Steady
<1>3. it.ok /\ innerOk /\ it.saved \in Keys /\ it.saved \in Nat BY <1>1, StandFacts
<1>4. it.saved # None BY <1>3, NoneIs
<1>5. CASE it.dir = "forward"
  <2>1. at # None /\ at \in view /\ at.key = it.saved BY <1>1, <1>5, StandFacts
  <2> DEFINE l == [NoLocals EXCEPT !.from = "turn"]
             i == [it EXCEPT !.work = 0, !.dir = "reverse"]
  <2>2. l \in LocTypes /\ l.n = 0 BY DEF NoLocals, LocTypes
  <2>3. /\ i \in ItTypes /\ i.seq = it.seq /\ i.sv = it.sv /\ i.dir = "reverse"
        /\ i.ok = it.ok /\ i.saved = it.saved
    BY <1>2 DEF ItTypes
  <2>4. UNCHANGED <<db, ref>> /\ pc' = "back" /\ loc' = l /\ it' = i
    BY <1>5 DEF Prev1, Goto
  <2> HIDE DEF l, i
  <2>5. 0 <= opts.maxSkip BY <1>2, OptionTypes
  <2>6. \A f \in view : Precedes(at, f) => it.saved <= f.key
    <3>1. \A f \in view : f.key \in Nat BY <1>2, EntryType DEF Store
    <3>2. QED BY <1>3, <2>1, <3>1 DEF Precedes
  <2>7. QED BY <1>1, <1>2, <1>3, <1>4, <2>1, <2>2, <2>3, <2>4, <2>5, <2>6, BackGoes
<1>6. CASE it.dir # "forward"
  <2>1. it.dir = "reverse" BY <1>1, <1>6, StandFacts
  <2> DEFINE i == [it EXCEPT !.work = 0]
  <2>2. /\ i \in ItTypes /\ i.seq = it.seq /\ i.sv = it.sv /\ i.dir = it.dir
        /\ i.ok = it.ok /\ i.saved = it.saved
    BY <1>2 DEF ItTypes
  <2>3. UNCHANGED <<db, ref>> /\ pc' = "prev" /\ loc' = NoLocals /\ it' = i
    BY <1>6 DEF Prev1, Goto
  <2> HIDE DEF i
  <2>4. QED BY <1>1, <1>2, <1>3, <1>4, <2>1, <2>2, <2>3, PrevBegins
<1>7. QED BY <1>5, <1>6

\* PrevInternal keeps the invariant when it takes the next key.
LEMMA PrevKeyPosition ==
  ASSUME Types, Position, PrevKey
  PROVE  Types' /\ Position'
<1>1. /\ pc = "prev" /\ at' = at /\ innerOk' = innerOk /\ UNCHANGED call
  BY DEF PrevKey, inner
<1>2. /\ Store(view) /\ opts \in Options /\ it \in ItTypes /\ at \in view \cup {None}
      /\ innerOk \in BOOLEAN /\ (at # None => innerOk) /\ call # NoCall
      /\ it.dir = "reverse" /\ it.ok
  BY <1>1 DEF Types, Position, Steady, PrevAt
<1>3. CASE at = None
  <2> DEFINE i == [it EXCEPT !.valid = FALSE]
  <2>1. i \in ItTypes /\ i.seq = it.seq /\ i.sv = it.sv /\ ~i.valid BY <1>2 DEF ItTypes
  <2>2. UNCHANGED <<db, ref>> /\ pc' = "end" /\ loc' = NoLocals /\ it' = i
    BY <1>3 DEF PrevKey, Finish, Goto
  <2> HIDE DEF i
  <2>3. QED BY <1>1, <1>2, <2>1, <2>2, EndsInvalid
<1>4. CASE at # None
  <2>1. at \in view /\ at.key \in Keys /\ at.key \in Nat BY <1>2, <1>4, EntryType DEF Store
  <2>2. CASE BelowLower(at.key)
    <3> DEFINE i == [it EXCEPT !.valid = FALSE, !.saved = at.key]
    <3>1. i \in ItTypes /\ i.seq = it.seq /\ i.sv = it.sv /\ ~i.valid
      BY <1>2, <2>1 DEF ItTypes
    <3>2. UNCHANGED <<db, ref>> /\ pc' = "end" /\ loc' = NoLocals /\ it' = i
      BY <1>4, <2>2 DEF PrevKey, Finish, Goto
    <3> HIDE DEF i
    <3>3. QED BY <1>1, <1>2, <3>1, <3>2, EndsInvalid
  <2>3. CASE ~BelowLower(at.key)
    <3> DEFINE i == [it EXCEPT !.saved = at.key]
    <3>1. /\ i \in ItTypes /\ i.seq = it.seq /\ i.sv = it.sv /\ i.dir = it.dir
          /\ i.ok = it.ok /\ i.saved = at.key
      BY <1>2, <2>1 DEF ItTypes
    <3>2. UNCHANGED <<db, ref>> /\ pc' = "value" /\ loc' = NoLocals /\ it' = i
      BY <1>4, <2>3 DEF PrevKey, Goto
    <3> HIDE DEF i
    <3>3. loc' \in LocTypes /\ loc'.n <= opts.maxSkip
      BY <1>2, <3>2, LocalsType, OptionTypes DEF NoLocals
    <3>4. \A f \in view : Precedes(at, f) => at.key <= f.key
      <4>1. \A f \in view : f.key \in Nat BY <1>2, EntryType DEF Store
      <4>2. QED BY <2>1, <4>1 DEF Precedes
    <3>5. at.key # None /\ at.key <= at.key BY <2>1, NoneIs
    <3>6. QED BY <1>1, <1>2, <1>4, <2>1, <3>1, <3>2, <3>3, <3>4, <3>5, BackGoes
  <2>4. QED BY <2>2, <2>3
<1>5. QED BY <1>3, <1>4

\* FindValueForCurrentKey keeps the invariant when it knows the value,
LEMMA ValueKnownPosition ==
  ASSUME Types, Position, ValueKnown
  PROVE  Types' /\ Position'
<1>1. pc = "value" /\ at' = at /\ innerOk' = innerOk /\ UNCHANGED call
  BY DEF ValueKnown, inner
<1>2. /\ Store(view) /\ opts \in Options /\ it \in ItTypes /\ call # NoCall
      /\ at \in view \cup {None} /\ innerOk \in BOOLEAN /\ (at # None => innerOk)
      /\ it.dir = "reverse" /\ it.ok /\ it.saved # None /\ opts.maxSkip \in Nat
      /\ loc \in LocTypes
      /\ innerOk => \A f \in view : Passed(f) => it.saved <= f.key
  BY <1>1, BackFacts
<1>3. CASE innerOk
  <2> DEFINE l == [NoLocals EXCEPT !.from = "prev"]
             i == [it EXCEPT !.valid = loc.found]
  <2>1. l \in LocTypes /\ l.n = 0 BY DEF NoLocals, LocTypes
  <2>2. loc.found \in BOOLEAN BY <1>2 DEF LocTypes
  <2>3. /\ i \in ItTypes /\ i.seq = it.seq /\ i.sv = it.sv /\ i.dir = it.dir
        /\ i.ok = it.ok /\ i.saved = it.saved
    BY <1>2, <2>2 DEF ItTypes
  <2>4. UNCHANGED <<db, ref>> /\ pc' = "back" /\ loc' = l /\ it' = i
    BY <1>3 DEF ValueKnown, Goto
  <2> HIDE DEF l, i
  <2>5. 0 <= opts.maxSkip BY <1>2
  <2>6. \A f \in view : Visible(f) /\ (at # None => Precedes(at, f)) => it.saved <= f.key
    BY <1>2, <1>3 DEF Passed
  <2>7. QED BY <1>1, <1>2, <2>1, <2>3, <2>4, <2>5, <2>6, BackGoes
<1>4. CASE ~innerOk
  <2> DEFINE i == [it EXCEPT !.valid = FALSE]
  <2>1. i \in ItTypes /\ i.seq = it.seq /\ i.sv = it.sv /\ ~i.valid BY <1>2 DEF ItTypes
  <2>2. UNCHANGED <<db, ref>> /\ pc' = "end" /\ loc' = NoLocals /\ it' = i
    BY <1>4 DEF ValueKnown, Finish, Goto
  <2> HIDE DEF i
  <2>3. QED BY <1>1, <1>2, <2>1, <2>2, EndsInvalid
<1>5. QED BY <1>3, <1>4

\* when it goes on to the next newer version,
LEMMA ValueOlderPosition ==
  ASSUME Types, Position, ValueOlder
  PROVE  Types' /\ Position'
<1>1. /\ pc = "value" /\ at # None /\ at.key = it.saved /\ UNCHANGED call
      /\ loc.n < opts.maxSkip /\ Move(Before(at))
  BY DEF ValueOlder, OfCurrentKey
<1>2. /\ Store(view) /\ opts \in Options /\ it \in ItTypes /\ call # NoCall
      /\ at \in view \cup {None}
      /\ it.dir = "reverse" /\ it.ok /\ it.saved # None /\ it.saved \in Nat
      /\ opts.maxSkip \in Nat /\ loc \in LocTypes /\ loc.n \in Nat
  BY <1>1, BackFacts
<1>3. at \in view /\ at.val \in Nat BY <1>1, <1>2, EntryType DEF Store
<1>4. Before(at) \in view \cup {None} BY <1>2, <1>3, BeforeIs DEF IsBefore
<1>5. PICK e \in view \cup {None} : e = at' BY <1>1, <1>4, MoveIs
<1>6. innerOk' \in BOOLEAN /\ (at' # None => innerOk') /\ (innerOk' => e = Before(at))
  BY <1>1, <1>4, <1>5, MoveIs
<1> DEFINE w == Worked(it)
           i == [w EXCEPT !.pinned = IF Live(at) THEN at.val ELSE @]
           l == [loc EXCEPT !.found = Live(at), !.n = @ + 1]
<1>7. /\ w \in ItTypes /\ w.seq = it.seq /\ w.sv = it.sv /\ w.dir = it.dir /\ w.ok = it.ok
      /\ w.saved = it.saved
  BY WorkedIs
<1>8. UNCHANGED <<db, ref>> /\ pc' = "value" /\ loc' = l /\ it' = i
  BY DEF ValueOlder, Goto
<1>9. l \in LocTypes /\ l.n = loc.n + 1
  <2>1. PICK b \in BOOLEAN : b = Live(at) BY DEF Live
  <2>2. l = [loc EXCEPT !.found = b, !.n = @ + 1] BY <2>1
  <2>3. loc \in LocTypes BY <1>2
  <2> DEFINE m == [loc EXCEPT !.found = b]
  <2>4. m \in LocTypes /\ m.n = loc.n BY <2>3 DEF LocTypes
  <2>5. l = [m EXCEPT !.n = @ + 1] BY <2>2, <2>3 DEF LocTypes
  <2> HIDE DEF l, m
  <2>6. QED BY <2>4, <2>5 DEF LocTypes
<1> HIDE DEF w, l
<1>10. /\ i \in ItTypes /\ i.seq = w.seq /\ i.sv = w.sv /\ i.dir = w.dir /\ i.ok = w.ok
       /\ i.saved = w.saved
  BY <1>3, <1>7 DEF ItTypes
<1> HIDE DEF i
<1>11. l.n <= opts.maxSkip BY <1>1, <1>2, <1>9
<1>12. IsBefore(at, Before(at)) BY <1>2, <1>3, BeforeIs
<1>13. innerOk' => /\ \A f \in view : (e # None => Precedes(e, f)) => it.saved <= f.key
                   /\ e # None => e.key <= it.saved
  <2>1. it.saved <= at.key BY <1>1, <1>2
  <2>2. QED BY <1>1, <1>2, <1>3, <1>6, <1>12, <2>1, BehindBefore
<1>14. pc' = "value" /\ e # None => e.key <= it.saved BY <1>5, <1>6, <1>13
<1>15. QED BY <1>1, <1>2, <1>5, <1>6, <1>7, <1>8, <1>9, <1>10, <1>11, <1>13, <1>14, BackGoes

\* and when it seeks the newest one.
LEMMA ValueBySeekPosition ==
  ASSUME Types, Position, ValueBySeek
  PROVE  Types' /\ Position'
<1>1. pc = "value" /\ UNCHANGED call /\ Move(SeekTo(it.saved, it.seq))
  BY DEF ValueBySeek
<1>2. /\ Store(view) /\ opts \in Options /\ it \in ItTypes /\ call # NoCall
      /\ it.dir = "reverse" /\ it.ok /\ it.saved # None /\ it.saved \in Nat
      /\ opts.maxSkip \in Nat
      /\ \A f \in view : f.key \in Nat /\ f.seq \in Nat
  BY <1>1, BackFacts
<1>3. SeekTo(it.saved, it.seq) \in view \cup {None} BY <1>2, SeekToIs DEF From
<1>4. PICK e \in view \cup {None} : e = at' BY <1>1, <1>3, MoveIs
<1>5. innerOk' \in BOOLEAN /\ (e # None => innerOk' /\ e = SeekTo(it.saved, it.seq))
  BY <1>1, <1>3, <1>4, MoveIs
<1> DEFINE w == Worked(it)
<1>6. /\ w \in ItTypes /\ w.seq = it.seq /\ w.sv = it.sv /\ w.dir = it.dir /\ w.ok = it.ok
      /\ w.saved = it.saved
  BY WorkedIs
<1>7. CASE e = None
  <2> DEFINE i == [w EXCEPT !.valid = FALSE]
  <2>1. UNCHANGED <<db, ref>> /\ pc' = "end" /\ loc' = NoLocals /\ it' = i
    BY <1>4, <1>7 DEF ValueBySeek, Finish, Goto
  <2> HIDE DEF w
  <2>2. i \in ItTypes /\ i.seq = it.seq /\ i.sv = it.sv /\ ~i.valid BY <1>6 DEF ItTypes
  <2> HIDE DEF i
  <2>3. QED BY <1>1, <1>2, <1>4, <1>5, <1>7, <2>1, <2>2, EndsInvalid
<1>8. CASE e # None
  <2> DEFINE found == e.key = it.saved /\ Live(e)
             i == [w EXCEPT !.valid = found, !.pinned = IF found THEN e.val ELSE @]
             l == [NoLocals EXCEPT !.from = "prev"]
  <2>1. UNCHANGED <<db, ref>> /\ pc' = "back" /\ loc' = l /\ it' = i
    BY <1>4, <1>8 DEF ValueBySeek, Goto, Live, ShouldDelete, ref
  <2>2. l \in LocTypes /\ l.n = 0 BY DEF NoLocals, LocTypes
  <2>3. e \in view /\ e.val \in Nat BY <1>2, <1>8, EntryType DEF Store
  <2>4. found \in BOOLEAN BY DEF Live
  <2> HIDE DEF w, l, found
  <2>5. /\ i \in ItTypes /\ i.seq = w.seq /\ i.sv = w.sv /\ i.dir = w.dir /\ i.ok = w.ok
        /\ i.saved = w.saved
    BY <1>6, <2>3, <2>4 DEF ItTypes
  <2> HIDE DEF i
  <2>6. e \in From(it.saved, it.seq) BY <1>2, <1>5, <1>8, SeekToIs
  <2>7. \A f \in view : Precedes(e, f) => it.saved <= f.key
    BY <1>2, <2>3, <2>6 DEF From, Precedes
  <2>8. 0 <= opts.maxSkip BY <1>2
  <2>9. QED BY <1>1, <1>2, <1>4, <1>5, <1>6, <1>8, <2>1, <2>2, <2>5, <2>7, <2>8, BackGoes
<1>9. QED BY <1>7, <1>8

\* FindUserKeyBeforeSavedKey keeps the invariant at its end.
LEMMA BackDonePosition ==
  ASSUME Types, Position, BackDone
  PROVE  Types' /\ Position'
<1>1. /\ pc = "back" /\ at' = at /\ innerOk' = innerOk /\ UNCHANGED call
      /\ at # None => at.key < it.saved
  BY DEF BackDone, inner
<1>2. /\ Store(view) /\ opts \in Options /\ it \in ItTypes /\ call # NoCall
      /\ at \in view \cup {None} /\ innerOk \in BOOLEAN /\ (at # None => innerOk)
      /\ it.dir = "reverse" /\ it.ok /\ it.saved # None /\ it.saved \in Nat
      /\ innerOk => \A f \in view : Passed(f) => it.saved <= f.key
  BY <1>1, BackFacts
<1> DEFINE off == [it EXCEPT !.valid = FALSE]
           inc == Incomplete(it)
<1>3. off \in ItTypes /\ off.seq = it.seq /\ off.sv = it.sv /\ ~off.valid BY <1>2 DEF ItTypes
<1>4. inc \in ItTypes /\ inc.seq = it.seq /\ inc.sv = it.sv /\ ~inc.valid
  BY <1>2 DEF ItTypes, Incomplete
<1>5. /\ UNCHANGED <<db, ref>> /\ loc' = NoLocals
      /\ \/ pc' = "end" /\ it' = off
         \/ pc' = "prev" /\ it' = it
         \/ innerOk /\ it.valid /\ pc' = "end" /\ it' = it
         \/ pc' = "end" /\ it' = inc
  BY DEF BackDone, Finish, Goto
<1> HIDE DEF off, inc
<1>6. CASE pc' = "end" /\ it' = off BY <1>1, <1>2, <1>3, <1>5, <1>6, EndsInvalid
<1>7. CASE pc' = "prev" /\ it' = it BY <1>1, <1>2, <1>5, <1>7, PrevBegins
<1>8. CASE innerOk /\ it.valid /\ pc' = "end" /\ it' = it
  <2>1. opts.maxSkip \in Nat /\ opts' = opts /\ view' = view BY <1>2, <1>5, OptionTypes DEF ref
  <2>2. Types' BY <1>1, <1>2, <1>5, <1>8, KeepsTypes, LocalsType DEF Places
  <2>3. Steady' BY <1>1, <1>2, <1>5, <1>8, <2>1 DEF Steady, NoLocals
  <2>4. Stands' BY <1>1, <1>2, <1>8, <2>1 DEF Stands, Passed, Visible
  <2>5. QED BY <1>8, <2>2, <2>3, <2>4 DEF Position, FindAt, TurnAt, PrevAt, BackAt
<1>9. CASE pc' = "end" /\ it' = inc BY <1>1, <1>2, <1>4, <1>5, <1>9, EndsInvalid
<1>10. QED BY <1>5, <1>6, <1>7, <1>8, <1>9

\* FindUserKeyBeforeSavedKey's step: one entry back, or before all of the key.
LEMMA BackStepsTo ==
  ASSUME Types, Position, BackSteps
  PROVE  \E s \in view : it.saved <= s.key /\ Move(Before(s))
<1>1. pc = "back" /\ at # None /\ at.key >= it.saved BY DEF BackSteps
<1>2. /\ Store(view) /\ at \in view \cup {None} /\ it.saved \in Nat
      /\ \A f \in view : f.key \in Nat /\ f.seq \in Nat /\ f.seq <= MaxSeq
  BY <1>1, BackFacts
<1>3. at \in view BY <1>1, <1>2
<1>4. CASE loc.n >= opts.maxSkip
  <2>1. PICK s : s = SeekTo(it.saved, Top) OBVIOUS
  <2>2. at.seq <= Top BY <1>2, <1>3, BoundsAssumption DEF Top
  <2>3. at \in From(it.saved, Top) BY <1>1, <1>2, <1>3, <2>2 DEF From
  <2>4. s \in From(it.saved, Top) BY <1>2, <2>1, <2>3, SeekToIs
  <2>5. s \in view /\ it.saved <= s.key BY <1>2, <2>4 DEF From
  <2>6. Move(Before(s)) BY <1>4, <2>1 DEF BackSteps
  <2>7. QED BY <2>5, <2>6
<1>5. CASE ~(loc.n >= opts.maxSkip)
  <2>1. Move(Before(at)) BY <1>5 DEF BackSteps
  <2>2. QED BY <1>1, <1>2, <1>3, <2>1
<1>6. QED BY <1>4, <1>5

\* FindUserKeyBeforeSavedKey keeps the invariant as it goes on.
LEMMA BackStepsPosition ==
  ASSUME Types, Position, BackSteps
  PROVE  Types' /\ Position'
<1>1. pc = "back" /\ UNCHANGED call BY DEF BackSteps
<1>2. /\ Store(view) /\ opts \in Options /\ it \in ItTypes /\ call # NoCall
      /\ it.dir = "reverse" /\ it.ok /\ it.saved # None /\ it.saved \in Nat
      /\ opts.maxSkip \in Nat /\ loc \in LocTypes /\ loc.n \in Nat
  BY <1>1, BackFacts
<1>3. PICK s \in view : it.saved <= s.key /\ Move(Before(s)) BY BackStepsTo
<1>4. IsBefore(s, Before(s)) BY <1>2, BeforeIs
<1>5. Before(s) \in view \cup {None} BY <1>4 DEF IsBefore
<1>6. PICK e \in view \cup {None} : e = at' BY <1>3, <1>5, MoveIs
<1>7. innerOk' \in BOOLEAN /\ (at' # None => innerOk') /\ (innerOk' => e = Before(s))
  BY <1>3, <1>5, <1>6, MoveIs
<1>8. innerOk' => \A f \in view : (e # None => Precedes(e, f)) => it.saved <= f.key
  BY <1>2, <1>3, <1>4, <1>7, BehindBefore
<1> DEFINE w == Worked(it)
<1>9. /\ w \in ItTypes /\ w.seq = it.seq /\ w.sv = it.sv /\ w.dir = it.dir /\ w.ok = it.ok
      /\ w.saved = it.saved
  BY WorkedIs
<1>10. PICK m \in Nat : m <= opts.maxSkip
                        /\ UNCHANGED <<db, ref>> /\ pc' = "back" /\ loc' = [loc EXCEPT !.n = m] /\ it' = w
  <2>1. CASE loc.n >= opts.maxSkip
    <3>1. 0 \in Nat /\ 0 <= opts.maxSkip BY <1>2
    <3>2. UNCHANGED <<db, ref>> /\ pc' = "back" /\ loc' = [loc EXCEPT !.n = 0] /\ it' = w
      BY <2>1 DEF BackSteps, Goto
    <3>3. QED BY <3>1, <3>2
  <2>2. CASE ~(loc.n >= opts.maxSkip)
    <3>1. loc.n + 1 \in Nat /\ loc.n + 1 <= opts.maxSkip BY <1>2, <2>2
    <3>2. UNCHANGED <<db, ref>> /\ pc' = "back" /\ loc' = [loc EXCEPT !.n = loc.n + 1] /\ it' = w
      BY <2>2 DEF BackSteps, Goto
    <3>3. QED BY <3>1, <3>2
  <2>3. QED BY <2>1, <2>2
<1> HIDE DEF w
<1>11. loc' \in LocTypes /\ loc'.n <= opts.maxSkip BY <1>2, <1>10 DEF LocTypes
<1>12. QED BY <1>1, <1>2, <1>6, <1>7, <1>8, <1>9, <1>10, <1>11, BackGoes

\* The limit on skipped entries keeps the invariant.
LEMMA GiveUpPosition ==
  ASSUME Types, Position, GiveUp
  PROVE  Types' /\ Position'
<1>1. /\ pc \in {"value", "back"} /\ at' = at /\ innerOk' = innerOk /\ UNCHANGED call
  BY DEF GiveUp, inner
<1>2. /\ it \in ItTypes /\ call # NoCall
      /\ at \in view \cup {None} /\ innerOk \in BOOLEAN /\ (at # None => innerOk)
  BY <1>1, BackFacts
<1> DEFINE i == Incomplete(it)
<1>3. i \in ItTypes /\ i.seq = it.seq /\ i.sv = it.sv /\ ~i.valid
  BY <1>2 DEF ItTypes, Incomplete
<1>4. UNCHANGED <<db, ref>> /\ pc' = "end" /\ loc' = NoLocals /\ it' = i
  BY DEF GiveUp, Finish, Goto
<1> HIDE DEF i
<1>5. QED BY <1>1, <1>2, <1>3, <1>4, EndsInvalid

-----------------------------------------------------------------------------
(***************************************************************************)
(* The end of a call, and the database under the iterator.                 *)
(***************************************************************************)
\* A call that returns keeps the invariant: it moves nothing.
LEMMA ReturnPosition ==
  ASSUME Types, Position, Return
  PROVE  Types' /\ Position'
<1>1. /\ pc = "end" /\ pc' = "idle" /\ call' = NoCall
      /\ UNCHANGED <<log, entries, tombs, sv, opts, view, dels, it, at, innerOk, loc>>
  BY DEF Return, db, ref, inner
<1>2. Types' BY <1>1 DEF Types, Places
<1>3. Steady' BY <1>1 DEF Position, Steady
<1>4. Stands' BY <1>1 DEF Position, Stands, Visible, Passed
<1>5. QED BY <1>1, <1>2, <1>3, <1>4 DEF Position, FindAt, TurnAt, PrevAt, BackAt

\* A cursor made or refreshed is invalid.
LEMMA RenewPosition ==
  ASSUME Types, Position, NewIterator \/ RefreshInPlace \/ RefreshAnew
  PROVE  Types' /\ Position'
<1>1. /\ log' = log /\ entries' = entries /\ tombs' = tombs /\ sv' = sv /\ opts' = opts
      /\ pc' = "idle" /\ loc' = loc /\ call' = call /\ pc \in {"new", "idle"}
  BY DEF NewIterator, RefreshInPlace, RefreshAnew, db, ref
<1>2. Len(log) \in Nat /\ sv \in Nat /\ it \in ItTypes BY BoundsAssumption DEF Types
<1>3. NewDBIter(Len(log), sv) \in ItTypes
  BY <1>2 DEF NewDBIter, ItTypes
<1>4. /\ it' \in ItTypes /\ it'.seq <= Len(log) /\ it'.sv <= sv /\ ~it'.valid
      /\ (view' = view /\ dels' = dels) \/ (view' = entries /\ dels' = tombs)
  <2>1. CASE NewIterator
    <3>1. it' = NewDBIter(Len(log), sv) /\ view' = entries /\ dels' = tombs
      BY <2>1 DEF NewIterator
    <3>2. QED BY <1>2, <1>3, <3>1 DEF NewDBIter
  <2>2. CASE RefreshAnew
    <3>1. it' = NewDBIter(Len(log), sv) /\ view' = entries /\ dels' = tombs
      BY <2>2 DEF RefreshAnew
    <3>2. QED BY <1>2, <1>3, <3>1 DEF NewDBIter
  <2>3. CASE RefreshInPlace
    <3>1. it' = [it EXCEPT !.seq = Len(log), !.valid = FALSE] /\ view' = view /\ dels' = dels
      BY <2>3 DEF RefreshInPlace, ref
    <3>2. it' \in ItTypes /\ it'.seq = Len(log) /\ it'.sv = it.sv /\ ~it'.valid
      BY <1>2, <3>1 DEF ItTypes
    <3>3. it.sv <= sv BY DEF Types
    <3>4. QED BY <1>2, <3>1, <3>2, <3>3
  <2>4. QED BY <2>1, <2>2, <2>3
<1>5. /\ at' \in view' \cup {None} /\ innerOk' \in BOOLEAN /\ (at' # None => innerOk')
  <2>1. CASE NewIterator
    <3>1. at = None /\ innerOk /\ UNCHANGED inner BY <2>1 DEF NewIterator, Position, Steady
    <3>2. QED BY <3>1 DEF inner
  <2>2. CASE RefreshAnew BY <2>2 DEF RefreshAnew
  <2>3. CASE RefreshInPlace
    BY <2>3 DEF RefreshInPlace, ref, inner, Types, Position, Steady
  <2>4. QED BY <2>1, <2>2, <2>3
<1>6. Types'
  <2>1. Store(view)' /\ (\A e \in view : e.seq <= Len(log))' /\ (dels \subseteq Tombstone)'
    <3>1. CASE view' = view /\ dels' = dels BY <1>1, <3>1 DEF Types
    <3>2. CASE view' = entries /\ dels' = tombs BY <1>1, <3>2 DEF Types
    <3>3. QED BY <1>4, <3>1, <3>2
  <2>2. call = NoCall BY <1>1 DEF Types
  <2>3. QED BY <1>1, <1>4, <1>5, <2>1, <2>2 DEF Types, Places
<1>7. Steady' BY <1>1, <1>4, <1>5 DEF Position, Steady
<1>8. QED BY <1>1, <1>4, <1>6, <1>7 DEF Position, FindAt, TurnAt, PrevAt, BackAt, Stands

\* The database writes what the iterator cannot see: positions stay.
LEMMA PositionStays ==
  ASSUME Types, Position, UNCHANGED <<opts, it, at, innerOk, pc, loc, call>>,
         view \subseteq view', \A f \in view' \ view : f.seq > it.seq,
         \A f \in view' : f.seq \in Nat
  PROVE  Position'
<1>1. it.seq \in Nat BY DEF Types, ItTypes
<1>2. \A f \in view' : Visible(f) => f \in view BY <1>1 DEF Visible
<1>3. Steady' BY DEF Position, Steady
<1>4. FindAt' BY <1>2 DEF Position, FindAt, Visible
<1>5. TurnAt' BY <1>2 DEF Position, TurnAt, Visible
<1>6. PrevAt' BY DEF Position, PrevAt
<1>7. BackAt' BY <1>2 DEF Position, BackAt, Passed, Visible
<1>8. Stands' BY <1>2 DEF Position, Stands, Passed, Visible
<1>9. QED BY <1>3, <1>4, <1>5, <1>6, <1>7, <1>8 DEF Position

\* The log after a write.
LEMMA AppendIs ==
  ASSUME NEW w \in Writes, log \in Seq(Writes), log' = Append(log, w)
  PROVE  log' \in Seq(Writes) /\ Len(log) \in Nat /\ Len(log') = Len(log) + 1
OBVIOUS

\* A store with one more entry, newer than the rest.
LEMMA StoreGrows ==
  ASSUME NEW E, Store(E), NEW n \in Nat, \A f \in E : f.seq <= n,
         NEW e \in Entry, e.seq = n + 1
  PROVE  Store(E \cup {e}) /\ \A f \in E \cup {e} : f.seq <= n + 1
<1>1. \A f \in E \cup {e} : f \in Entry /\ f.key \in Nat /\ f.seq \in Nat
  BY EntryType DEF Store
<1>2. \A f \in E : f.seq # e.seq /\ f.seq <= n + 1 BY <1>1
<1>3. Unique(E \cup {e}) BY <1>2 DEF Store, Unique
<1>4. PICK b \in Nat : \A f \in E : f.key <= b /\ f.seq <= b BY DEF Store, Sized
<1>5. PICK c \in Nat : b <= c /\ e.key <= c /\ e.seq <= c
  <2>1. b + e.key + e.seq \in Nat BY <1>1, <1>4
  <2>2. QED BY <1>1, <1>4, <2>1
<1>6. \A f \in E \cup {e} : f.key <= c /\ f.seq <= c BY <1>1, <1>4, <1>5
<1>7. Sized(E \cup {e}) BY <1>5, <1>6 DEF Sized
<1>8. QED BY <1>1, <1>2, <1>3, <1>7 DEF Store

\* A write under the iterator keeps the invariant: it adds at most an entry the
\* iterator cannot see.
LEMMA WritePosition ==
  ASSUME Types, Position, NEW kind \in {"put", "delete"}, NEW k \in Keys, Write(kind, k)
  PROVE  Types' /\ Position'
<1>1. /\ Store(view) /\ Store(entries) /\ log \in Seq(Writes) /\ Len(log) \in Nat
      /\ \A f \in view : f.seq <= Len(log)
      /\ \A f \in entries : f.seq <= Len(log)
      /\ it \in ItTypes /\ it.seq \in Nat /\ it.seq <= Len(log) /\ MaxSeq \in Nat
  BY BoundsAssumption DEF Types, ItTypes
<1>2. k \in Nat BY NoneIs
<1> DEFINE e == [key |-> k, seq |-> Len(log) + 1,
                 val |-> IF kind = "put" THEN Len(log) + 1 ELSE Deleted]
           w == [kind |-> kind, from |-> k, to |-> k + 1]
<1>3. e \in Entry /\ e.seq = Len(log) + 1 BY <1>1 DEF Entry, Deleted
<1>4. w \in Writes BY <1>2 DEF Writes
<1>5. /\ Len(log) < MaxSeq /\ log' = Append(log, w) /\ entries' = entries \cup {e}
      /\ view' = IF it.sv = sv THEN view \cup {e} ELSE view
      /\ UNCHANGED <<tombs, sv, opts, dels, it, at, innerOk, pc, loc, call>>
  BY DEF Write, inner
<1> HIDE DEF e, w
<1>6. log' \in Seq(Writes) /\ Len(log') = Len(log) + 1 BY <1>1, <1>4, <1>5, AppendIs
<1>7. Store(entries') /\ \A f \in entries' : f.seq <= Len(log) + 1
  BY <1>1, <1>3, <1>5, StoreGrows
<1>8. /\ Store(view') /\ \A f \in view' : f.seq <= Len(log) + 1
      /\ view \subseteq view' /\ \A f \in view' \ view : f.seq > it.seq
  <2>1. CASE it.sv = sv
    <3>1. view' = view \cup {e} BY <1>5, <2>1
    <3>2. Store(view') /\ \A f \in view' : f.seq <= Len(log) + 1
      BY <1>1, <1>3, <3>1, StoreGrows
    <3>3. QED BY <1>1, <1>3, <3>1, <3>2
  <2>2. CASE it.sv # sv
    <3>1. view' = view BY <1>5, <2>2
    <3>2. \A f \in view : f.seq \in Nat BY <1>1, EntryType DEF Store
    <3>3. QED BY <1>1, <3>1, <3>2
  <2>3. QED BY <2>1, <2>2
<1>9. \A d \in tombs : d.seq \in Nat /\ d.seq <= Len(log) BY DEF Types, Tombstone
<1>10. Types'
  <2>1. Len(log') <= MaxSeq BY <1>1, <1>5, <1>6
  <2>2. \A f \in entries' : f.seq <= Len(log') BY <1>6, <1>7
  <2>3. \A f \in view' : f.seq <= Len(log') BY <1>6, <1>8
  <2>4. \A d \in tombs : d.seq <= Len(log') BY <1>1, <1>6, <1>9
  <2>5. it.seq <= Len(log') BY <1>1, <1>6
  <2>6. at \in view' \cup {None} BY <1>8 DEF Types
  <2>7. QED BY <1>5, <1>6, <1>7, <1>8, <2>1, <2>2, <2>3, <2>4, <2>5, <2>6 DEF Types
<1>11. \A f \in view' : f.seq \in Nat BY <1>8, EntryType DEF Store
<1>12. QED BY <1>5, <1>8, <1>10, <1>11, PositionStays

\* So does a DeleteRange: the tombstones the iterator uses stay.
LEMMA DeleteRangePosition ==
  ASSUME Types, Position, NEW r \in Ranges, DeleteRange(r)
  PROVE  Types' /\ Position'
<1>1. /\ Store(view) /\ Store(entries) /\ log \in Seq(Writes) /\ Len(log) \in Nat
      /\ it.seq \in Nat /\ MaxSeq \in Nat
  BY BoundsAssumption DEF Types, ItTypes
<1>2. r.from \in Keys /\ r.to \in Nat BY RangesAssumption
<1> DEFINE d == [from |-> r.from, to |-> r.to, seq |-> Len(log) + 1]
           w == [kind |-> "delete", from |-> r.from, to |-> r.to]
<1>3. d \in Tombstone /\ d.seq = Len(log) + 1 BY <1>1, <1>2 DEF Tombstone
<1>4. w \in Writes BY <1>2 DEF Writes
<1>5. /\ Len(log) < MaxSeq /\ log' = Append(log, w) /\ tombs' = tombs \cup {d}
      /\ UNCHANGED <<entries, sv, opts, view, dels, it, at, innerOk, pc, loc, call>>
  BY DEF DeleteRange, inner, ref
<1> HIDE DEF d, w
<1>6. log' \in Seq(Writes) /\ Len(log') = Len(log) + 1 BY <1>1, <1>4, <1>5, AppendIs
<1>7. \A f \in view \cup entries : f.seq \in Nat BY <1>1, EntryType DEF Store
<1>8. \A c \in tombs : c.seq \in Nat /\ c.seq <= Len(log) BY DEF Types, Tombstone
<1>9. Types'
  <2>1. Len(log') <= MaxSeq BY <1>1, <1>5, <1>6
  <2>2. \A f \in entries : f.seq <= Len(log') BY <1>1, <1>6, <1>7 DEF Types
  <2>3. \A f \in view : f.seq <= Len(log') BY <1>1, <1>6, <1>7 DEF Types
  <2>4. \A c \in tombs' : c.seq <= Len(log') BY <1>1, <1>3, <1>5, <1>6, <1>8
  <2>5. it.seq <= Len(log') BY <1>1, <1>6 DEF Types
  <2>6. tombs' \subseteq Tombstone BY <1>3, <1>5 DEF Types
  <2>7. QED BY <1>1, <1>5, <1>6, <2>1, <2>2, <2>3, <2>4, <2>5, <2>6 DEF Types
<1>10. QED BY <1>5, <1>7, <1>9, PositionStays

\* A compaction writes no more than it read.
LEMMA RewriteStore ==
  ASSUME NEW E, Store(E), NEW n \in Nat, \A f \in E : f.seq <= n
  PROVE  Store(Rewrite(E, {}, {}, TRUE)) /\ \A f \in Rewrite(E, {}, {}, TRUE) : f.seq <= n
<1> DEFINE R == Rewrite(E, {}, {}, TRUE)
<1>1. E \in SUBSET EntriesOf(Keys) /\ Unique(E) /\ Sized(E) BY EntryOf DEF Store
<1>2. R \subseteq Entry /\ Unique(R) BY <1>1, OutputType, OutputUnique, EntryOf
<1>3. ASSUME NEW r \in R PROVE \E e \in E : r.key = e.key /\ r.seq <= e.seq
  <2>1. PICK e \in Kept(E, {}, {}, TRUE) : r = Squash(e, {}, TRUE) BY DEF Rewrite
  <2>2. e \in E /\ e \in EntriesOf(Keys) BY <1>1, <2>1 DEF Kept
  <2>3. r.key = e.key /\ r.seq \in {0, e.seq} BY <2>1, <2>2, SquashType
  <2>4. e.seq \in Nat BY <2>2 DEF EntriesOf
  <2>5. QED BY <2>2, <2>3, <2>4
<1> HIDE DEF R
<1>4. \A f \in R \cup E : f.key \in Nat /\ f.seq \in Nat BY <1>2, EntryType DEF Store
<1>5. PICK b \in Nat : \A e \in E : e.key <= b /\ e.seq <= b BY <1>1 DEF Sized
<1>6. \A r \in R : r.key <= b /\ r.seq <= b /\ r.seq <= n BY <1>3, <1>4, <1>5
<1>7. Sized(R) BY <1>5, <1>6 DEF Sized
<1>8. Store(R) /\ \A f \in R : f.seq <= n BY <1>2, <1>6, <1>7 DEF Store
<1>9. QED BY <1>8 DEF R

\* So does a compaction: the entries the iterator uses stay.
LEMMA CompactPosition ==
  ASSUME Types, Position, Compact
  PROVE  Types' /\ Position'
<1> DEFINE covered == {e \in entries : \E d \in tombs :
                         d.from <= e.key /\ e.key < d.to /\ e.seq < d.seq}
<1>1. /\ sv < MaxVersions /\ sv' = sv + 1 /\ tombs' = {}
      /\ entries' = Rewrite(entries \ covered, {}, {}, TRUE)
      /\ UNCHANGED <<log, opts, view, dels, it, at, innerOk, pc, loc, call>>
  BY DEF Compact, inner, ref
<1> HIDE DEF covered
<1>2. /\ Store(entries) /\ Store(view) /\ Len(log) \in Nat /\ \A f \in entries : f.seq <= Len(log)
      /\ sv \in 0 .. MaxVersions /\ MaxVersions \in Nat /\ it.sv \in Nat /\ it.sv <= sv
  BY BoundsAssumption DEF Types, ItTypes
<1>3. Store(entries \ covered) /\ \A f \in entries \ covered : f.seq <= Len(log)
  BY <1>2, StorePart
<1>4. Store(entries') /\ \A f \in entries' : f.seq <= Len(log) BY <1>1, <1>2, <1>3, RewriteStore
<1>5. sv' \in 0 .. MaxVersions /\ it.sv <= sv' BY <1>1, <1>2
<1>6. Types' BY <1>1, <1>4, <1>5 DEF Types
<1>7. \A f \in view : f.seq \in Nat BY <1>2, EntryType DEF Store
<1>8. QED BY <1>1, <1>6, <1>7, PositionStays

-----------------------------------------------------------------------------
(***************************************************************************)
(* What the runs check about the loops.                                    *)
(***************************************************************************)
LoopInv == Types /\ Position

\* The first part of the invariant holds at the start.
LEMMA LoopInit == Init => LoopInv
<1> SUFFICES ASSUME Init PROVE LoopInv OBVIOUS
<1>1. log \in Seq(Writes) /\ Len(log) = 0 /\ MaxSeq \in Nat /\ MaxVersions \in Nat
  BY BoundsAssumption DEF Init
<1>2. Store({}) BY DEF Store, Unique, Sized
<1>3. it \in ItTypes /\ it.seq = 0 /\ it.sv = 0 /\ ~it.valid BY DEF Init, NewDBIter, ItTypes
<1>4. opts \in Options /\ opts.maxSkip \in Nat BY OptionTypes DEF Init
<1>5. Types BY <1>1, <1>2, <1>3, LocalsType DEF Init, Types, Places
<1>6. Steady BY <1>3, <1>4 DEF Init, Steady, NoLocals
<1>7. QED BY <1>3, <1>5, <1>6 DEF Init, LoopInv, Position, FindAt, TurnAt, PrevAt, BackAt, Stands

\* And every step keeps it.
LEMMA LoopNext == LoopInv /\ [Next]_vars => LoopInv'
<1> SUFFICES ASSUME Types, Position, [Next]_vars PROVE Types' /\ Position' BY DEF LoopInv
<1>1. CASE UNCHANGED vars
  <2>1. UNCHANGED <<log, entries, tombs, sv, opts, view, dels, it, at, innerOk, pc, loc, call>>
    BY <1>1 DEF vars, db, ref, inner
  <2>2. Types' BY <2>1 DEF Types
  <2>3. \A f \in view : f.seq \in Nat BY EntryType DEF Types, Store
  <2>4. QED BY <2>1, <2>2, <2>3, PositionStays
<1>2. CASE Next
  <2>1. CASE NewIterator \/ RefreshInPlace \/ RefreshAnew BY <2>1, RenewPosition
  <2>2. ASSUME NEW k \in Keys, Seek(k) PROVE Types' /\ Position'
    <3>1. call' # NoCall /\ SeekForward(k) BY <2>2, CallingIs DEF Seek
    <3>2. QED BY <3>1, SeekForwardPosition
  <2>3. ASSUME NEW k \in Keys, SeekForPrev(k) PROVE Types' /\ Position'
    <3>1. call' # NoCall /\ SeekBackward(k) BY <2>3, CallingIs DEF SeekForPrev
    <3>2. QED BY <3>1, SeekBackwardPosition
  <2>4. CASE SeekToFirst BY <2>4, SeekToFirstPosition
  <2>5. CASE SeekToLast BY <2>5, SeekToLastPosition
  <2>6. CASE Next1 BY <2>6, NextPosition
  <2>7. CASE Prev1 BY <2>7, PrevPosition
  <2>8. CASE FindStops BY <2>8, FindStopsPosition
  <2>9. CASE FindRepeated \/ FindDeleted \/ FindNewer BY <2>9, FindOnPosition
  <2>10. CASE FindYields BY <2>10, FindYieldsPosition
  <2>11. CASE Turn BY <2>11, TurnPosition
  <2>12. CASE PrevKey BY <2>12, PrevKeyPosition
  <2>13. CASE ValueKnown BY <2>13, ValueKnownPosition
  <2>14. CASE ValueOlder BY <2>14, ValueOlderPosition
  <2>15. CASE ValueBySeek BY <2>15, ValueBySeekPosition
  <2>16. CASE BackDone BY <2>16, BackDonePosition
  <2>17. CASE BackSteps BY <2>17, BackStepsPosition
  <2>18. CASE GiveUp BY <2>18, GiveUpPosition
  <2>19. CASE Return BY <2>19, ReturnPosition
  <2>20. ASSUME NEW k \in Keys, Write("put", k) \/ Write("delete", k) PROVE Types' /\ Position'
    BY <2>20, WritePosition
  <2>21. ASSUME NEW r \in Ranges, DeleteRange(r) PROVE Types' /\ Position'
    BY <2>21, DeleteRangePosition
  <2>22. CASE Compact BY <2>22, CompactPosition
  <2>23. QED
    BY <1>2, <2>1, <2>2, <2>3, <2>4, <2>5, <2>6, <2>7, <2>8, <2>9, <2>10, <2>11, <2>12, <2>13,
       <2>14, <2>15, <2>16, <2>17, <2>18, <2>19, <2>20, <2>21, <2>22
    DEF Next, JavaScript, Loops, Database
<1>3. QED BY <1>1, <1>2

\* Where each loop has the merging iterator is inductive, whatever is written
\* between two of its iterations.
THEOREM LoopInvariance == Spec => []LoopInv
<1>1. QED BY LoopInit, LoopNext, PTL DEF Spec

\* It implies the type invariant.
LEMMA LoopTypes == LoopInv => TypeOK
<1> SUFFICES ASSUME Types, Steady PROVE TypeOK BY DEF LoopInv, Position
<1>1. /\ opts \in Options /\ opts.maxSkip \in Nat BY OptionTypes DEF Types
<1>2. Len(log) <= MaxSeq /\ entries \subseteq Entry /\ tombs \subseteq Tombstone
  BY DEF Types, Store
<1>3. view \subseteq Entry /\ dels \subseteq Tombstone /\ at \in view \cup {None}
  BY DEF Types, Store
<1>4. /\ it.dir \in {"forward", "reverse"} /\ it.valid \in BOOLEAN /\ it.ok \in BOOLEAN
      /\ it.saved \in Keys \cup {None} /\ it.seq \in 0 .. Len(log) /\ it.sv \in 0 .. sv
  <2>1. it \in ItTypes /\ Len(log) \in Nat /\ it.seq <= Len(log) /\ it.sv <= sv
        /\ sv \in 0 .. MaxVersions /\ MaxVersions \in Nat
    BY BoundsAssumption DEF Types
  <2>2. QED BY <2>1 DEF ItTypes
<1>5. loc.n \in 0 .. opts.maxSkip + 1 /\ loc.from \in {"none", "turn", "prev"}
  <2>1. loc \in LocTypes /\ loc.n <= opts.maxSkip BY DEF Types, Steady
  <2>2. QED BY <1>1, <2>1 DEF LocTypes
<1>6. QED BY <1>1, <1>2, <1>3, <1>4, <1>5 DEF Types, TypeOK, Places

\* The types, and the bound of max_sequential_skip_in_iterations on a loop's
\* count of skipped entries.
THEOREM CursorTypes == Spec => []TypeOK
BY LoopInvariance, LoopTypes, PTL

\* db_iter.cc (262): after an entry with number 0 comes another key, so
\* skipping the comparison shows no key twice.
THEOREM ZeroEndsItsKey == Spec => []ZeroIsTheLast
<1>1. LoopInv => ZeroIsTheLast
  <2> SUFFICES ASSUME Types, Position, pc = "find", it.zero PROVE at.key > it.saved
    BY DEF LoopInv, ZeroIsTheLast
  <2>1. at.key \in Nat /\ it.saved \in Nat /\ it.saved < at.key BY FindFacts
  <2>2. QED BY <2>1
<1>2. QED BY <1>1, LoopInvariance, PTL

\* db_iter.h (56): between calls a valid cursor that goes forwards stands on the
\* newest version it may see of its key; one that goes backwards stands before
\* every version of it, and nothing it could see is in between.
THEOREM DirectionsAgree == Spec => []PositionMatchesDirection
<1>1. LoopInv => PositionMatchesDirection
  <2> SUFFICES ASSUME Types, Position, Between, it.valid
               PROVE  IF it.dir = "forward"
                      THEN at # None /\ at.key = it.saved /\ Finds(view, at, it.saved, it.seq)
                      ELSE /\ at # None => at.key < it.saved
                           /\ \A f \in view : f.key < it.saved /\ (at # None => Precedes(at, f))
                                              => ~Visible(f)
    BY DEF LoopInv, PositionMatchesDirection
  <2>1. pc = "idle" BY DEF Between, Position, Steady
  <2>2. CASE it.dir = "forward"
    <3>1. /\ at # None /\ at \in view /\ at.key = it.saved /\ Visible(at)
          /\ \A f \in view : Visible(f) /\ f.key = at.key => f.seq <= at.seq
      BY <2>1, <2>2, StandFacts
    <3>2. Finds(view, at, it.saved, it.seq) BY <3>1 DEF Finds, VisibleAt, Visible
    <3>3. QED BY <2>2, <3>1, <3>2
  <2>3. CASE it.dir # "forward"
    <3>1. /\ it.saved \in Nat /\ (at # None => at.key < it.saved)
          /\ \A f \in view : Passed(f) => it.saved <= f.key
      BY <2>1, <2>3, StandFacts
    <3>2. \A f \in view : f.key \in Nat BY EntryType DEF Types, Store
    <3>3. QED BY <2>3, <3>1, <3>2 DEF Passed
  <2>4. QED BY <2>2, <2>3
<1>2. QED BY <1>1, LoopInvariance, PTL

-----------------------------------------------------------------------------
(***************************************************************************)
(* What the iterator shows.                                                *)
(***************************************************************************)

\* The versions a store V and tombstones D hold stand for the map there was
\* after n writes.
LiveIn(D, e) ==
  e.val # Deleted /\ ~ \E d \in D : d.from <= e.key /\ e.key < d.to /\ e.seq < d.seq
Represents(V, D, n, k) ==
  \/ \E e \in V : Finds(V, e, k, n) /\ LiveIn(D, e) /\ ValueAt(n, k) = e.val
  \/ ValueAt(n, k) = 0 /\ \A e \in V : Finds(V, e, k, n) => ~LiveIn(D, e)

\* The database is its log, the iterator's view is the log up to its number;
\* on the current SuperVersion they are the same but for later tombstones.
Faithful ==
  /\ \A k \in Keys : Represents(entries, tombs, Len(log), k)
  /\ \A k \in Keys : Represents(view, dels, it.seq, k)
  /\ it.sv = sv => /\ view = entries \/ pc = "new"
                   /\ dels \subseteq tombs /\ \A d \in tombs \ dels : it.seq < d.seq
  /\ pc = "new" => it.seq = 0 /\ \A e \in view : e.seq > 0

\* The keys the iterator may stop at, and those a call c may lead to.
Shown == {k \in Keys : /\ ValueAt(it.seq, k) # 0
                       /\ opts.lower # None => opts.lower <= k
                       /\ opts.upper # None => k < opts.upper}
Fits(c, k) == /\ c.op = "seek" => c.key <= k
              /\ c.op = "seekPrev" => k <= c.key
              /\ c.op = "next" => c.cur < k
              /\ c.op = "prev" => k < c.cur
Wanted(c) == {k \in Shown : Fits(c, k)}

Forwards == {"first", "seek", "next"}
Backwards == {"last", "seekPrev", "prev"}

\* A call of the binding.
CallTypes(c) ==
  /\ c.op \in Forwards \cup Backwards
  /\ IF c.op \in {"seek", "seekPrev"} THEN c.key \in Keys ELSE c.key = None
  /\ c.op \in {"next", "prev"} => c.cur \in Keys
CallOK == pc \notin {"new", "idle"} =>
  /\ CallTypes(call)
  /\ pc = "find" => call.op \in Forwards
  /\ pc \in {"prev", "value", "back"} => call.op \in Backwards

\* Forwards: nothing wanted is before the entry, or is a key to be skipped.
FindData == pc = "find" =>
  /\ \A k \in Wanted(call) : at.key <= k /\ (loc.skipping => it.saved < k)
  /\ opts.lower # None => opts.lower <= it.saved
  /\ call.op = "seek" => call.key <= it.saved
  /\ call.op = "next" => call.cur <= it.saved /\ (call.cur = it.saved => loc.skipping)

TurnData == pc = "turn" =>
  /\ call.op = "next" /\ call.cur = it.saved
  /\ opts.lower # None => opts.lower <= it.saved

\* Backwards: nothing wanted is after the entry, which is not after the target
\* of the call itself.
Below(c, k) == /\ opts.upper # None => k < opts.upper
               /\ c.op = "seekPrev" => k <= c.key
               /\ c.op = "prev" => k < c.cur
PrevData == pc = "prev" /\ innerOk =>
  IF at = None THEN Wanted(call) = {}
  ELSE /\ \A k \in Wanted(call) : k <= at.key
       /\ Below(call, at.key)
       /\ \A f \in view : Visible(f) /\ Precedes(at, f) => at.key < f.key

\* FindValueForCurrentKey knows the newest of the key's versions it has passed.
ValueData == pc = "value" =>
  /\ Below(call, it.saved) /\ ~BelowLower(it.saved)
  /\ \A k \in Wanted(call) : k <= it.saved
  /\ innerOk =>
       /\ \A e \in view :
            /\ Passed(e) /\ e.key = it.saved
            /\ \A f \in view : Passed(f) /\ f.key = it.saved => f.seq <= e.seq
            => (loc.found <=> Live(e)) /\ (Live(e) => it.pinned = e.val)
       /\ (\A e \in view : Passed(e) => e.key # it.saved) => ~loc.found

\* FindUserKeyBeforeSavedKey runs when the key's value is known.
BackData == pc = "back" =>
  /\ opts.upper # None => it.saved < opts.upper
  /\ call.op = "seekPrev" => it.saved <= call.key
  /\ call.op = "prev" => it.saved <= call.cur
  /\ \A k \in Wanted(call) : k <= it.saved
  /\ IF loc.from # "turn" /\ it.valid
     THEN it.saved \in Wanted(call) /\ it.pinned = ValueAt(it.seq, it.saved)
     ELSE \A k \in Wanted(call) : k < it.saved

\* A call ends at the first wanted key in its direction, or at none when none
\* is wanted, or its status says that it failed.
EndData == pc = "end" =>
  /\ it.valid => /\ it.saved \in Wanted(call)
                 /\ \A k \in Wanted(call) :
                      IF call.op \in Forwards THEN it.saved <= k ELSE k <= it.saved
                 /\ Value(it, at) = ValueAt(it.seq, it.saved)
  /\ ~it.valid /\ it.ok /\ innerOk => Wanted(call) = {}
IdleData == pc = "idle" /\ it.valid =>
  it.saved \in Shown /\ Value(it, at) = ValueAt(it.seq, it.saved)

Data == /\ Faithful /\ CallOK /\ FindData /\ TurnData /\ PrevData /\ ValueData /\ BackData
        /\ EndData /\ IdleData

\* The newest version of its key the iterator can see.
Newest(e) == e \in view /\ Visible(e)
             /\ \A f \in view : Visible(f) /\ f.key = e.key => f.seq <= e.seq

\* The newest version the iterator sees is what a read at its number finds.
LEMMA NewestFinds ==
  ASSUME Types
  PROVE  \A e, k : Finds(view, e, k, it.seq) <=> Newest(e) /\ e.key = k
BY DEF Finds, Newest, VisibleAt, Visible

\* A key has one newest version.
LEMMA NewestOne ==
  ASSUME Types
  PROVE  \A e, f : Newest(e) /\ Newest(f) /\ e.key = f.key => e = f
<1>1. ASSUME NEW e \in view, NEW f \in view, Newest(e), Newest(f), e.key = f.key PROVE e = f
  <2>1. e.seq \in Nat /\ f.seq \in Nat BY EntryType DEF Types, Store
  <2>2. e.seq <= f.seq /\ f.seq <= e.seq BY <1>1 DEF Newest
  <2>3. QED BY <1>1, <2>1, <2>2 DEF Types, Store, Unique
<1>2. QED BY <1>1 DEF Newest

\* The iterator's tombstones decide what is live.
LEMMA LiveIs == \A e : Live(e) <=> LiveIn(dels, e)
BY DEF Live, LiveIn, ShouldDelete

\* A shown key has a newest version, which is live.
LEMMA ShownHas ==
  ASSUME Types, Faithful, NEW k \in Shown
  PROVE  \E e \in view : e.key = k /\ Newest(e) /\ Live(e) /\ ValueAt(it.seq, k) = e.val
<1>1. k \in Keys /\ ValueAt(it.seq, k) # 0 BY DEF Shown
<1>2. Represents(view, dels, it.seq, k) BY <1>1 DEF Faithful
<1>3. PICK e \in view : Finds(view, e, k, it.seq) /\ LiveIn(dels, e) /\ ValueAt(it.seq, k) = e.val
  BY <1>1, <1>2 DEF Represents
<1>4. QED BY <1>3, NewestFinds, LiveIs

\* And what is newest and live is shown, within the bounds.
LEMMA NewestShown ==
  ASSUME Types, Faithful, NEW e, Newest(e)
  PROVE  /\ e.key \in Keys
         /\ Live(e) => ValueAt(it.seq, e.key) = e.val /\ e.val # 0
         /\ ~Live(e) => e.key \notin Shown
<1>1. e \in view /\ e.key \in Keys BY EntryType DEF Newest, Types, Store
<1>2. Finds(view, e, e.key, it.seq) BY NewestFinds
<1>3. \A f \in view : Finds(view, f, e.key, it.seq) => f = e BY NewestFinds, NewestOne
<1>4. Represents(view, dels, it.seq, e.key) BY <1>1 DEF Faithful
<1>5. CASE Live(e)
  <2>1. LiveIn(dels, e) BY <1>5, LiveIs
  <2>2. ValueAt(it.seq, e.key) = e.val BY <1>1, <1>2, <1>3, <1>4, <2>1 DEF Represents
  <2>3. QED BY <1>1, <1>5, <2>1, <2>2 DEF LiveIn, Deleted
<1>6. CASE ~Live(e)
  <2>1. ~LiveIn(dels, e) BY <1>6, LiveIs
  <2>2. ValueAt(it.seq, e.key) = 0 BY <1>3, <1>4, <2>1 DEF Represents
  <2>3. QED BY <1>1, <1>6, <2>2 DEF Shown
<1>7. QED BY <1>5, <1>6

\* What is wanted is shown, what is shown is a key.
LEMMA ShownTypes == Shown \subseteq Keys /\ Shown \subseteq Nat /\ \A c : Wanted(c) \subseteq Shown
BY NoneIs DEF Shown, Wanted

\* A step of a call that leaves the number and the view alone.
Within(c) ==
  /\ Types /\ Faithful /\ UNCHANGED <<db, ref>> /\ it'.seq = it.seq /\ it'.sv = it.sv
  /\ pc # "new" /\ call' = c /\ CallTypes(c)

\* Shown and wanted keys stay while the log, the options and the number do.
LEMMA ShownStays ==
  ASSUME log' = log, it'.seq = it.seq, opts' = opts
  PROVE  /\ Shown' = Shown
         /\ \A n, k : ValueAt(n, k)' = ValueAt(n, k)
         /\ \A c : Wanted(c)' = Wanted(c)
<1>1. \A n, k : ValueAt(n, k)' = ValueAt(n, k) BY DEF ValueAt, Wrote
<1>2. \A k : ValueAt(it.seq, k)' = ValueAt(it.seq, k) BY DEF ValueAt, Wrote
<1>3. Shown' = Shown BY <1>2 DEF Shown
<1>4. \A c : Wanted(c)' = Wanted(c) BY <1>3 DEF Wanted
<1>5. QED BY <1>1, <1>3, <1>4

\* So does what represents the map, while the database and the view stay.
LEMMA FaithfulStays ==
  ASSUME Faithful, UNCHANGED <<db, ref>>, it'.seq = it.seq, it'.sv = it.sv,
         (pc = "new") = (pc' = "new")
  PROVE  Faithful'
<1>1. log' = log /\ entries' = entries /\ tombs' = tombs /\ sv' = sv /\ view' = view /\ dels' = dels
      /\ opts' = opts
  BY DEF db, ref
<1>2. \A k : Represents(entries, tombs, Len(log), k)' <=> Represents(entries, tombs, Len(log), k)
  BY <1>1 DEF Represents, ValueAt, Wrote
<1>3. \A k : Represents(view, dels, it.seq, k)' <=> Represents(view, dels, it.seq, k)
  BY <1>1 DEF Represents, ValueAt, Wrote
<1>4. QED BY <1>1, <1>2, <1>3 DEF Faithful

-----------------------------------------------------------------------------
(***************************************************************************)
(* Where a step of a call may go.                                          *)
(***************************************************************************)
\* A step within a call leaves what it looks for, and what it looks in, alone.
LEMMA WithinStays ==
  ASSUME NEW c, Within(c), pc' \notin {"new", "idle"}
  PROVE  /\ Faithful' /\ call' = c /\ CallTypes(c) /\ Wanted(c)' = Wanted(c)
         /\ opts' = opts /\ view' = view /\ dels' = dels
         /\ \A k : ValueAt(it.seq, k)' = ValueAt(it.seq, k)
<1>1. log' = log /\ opts' = opts /\ view' = view /\ dels' = dels /\ it'.seq = it.seq
  BY DEF Within, db, ref
<1>2. Faithful' BY FaithfulStays DEF Within
<1>3. \A k : ValueAt(it.seq, k)' = ValueAt(it.seq, k) BY <1>1 DEF ValueAt, Wrote
<1>4. Wanted(c)' = Wanted(c) BY <1>1, ShownStays
<1>5. QED BY <1>1, <1>2, <1>3, <1>4 DEF Within

\* A call's step into FindNextUserEntryInternal,
LEMMA FindReaches ==
  ASSUME NEW c, Within(c), NEW e, at' = e, pc' = "find", c.op \in Forwards,
         \A k \in Wanted(c) : e.key <= k /\ (loc'.skipping => it'.saved < k),
         opts.lower # None => opts.lower <= it'.saved,
         c.op = "seek" => c.key <= it'.saved,
         c.op = "next" => c.cur <= it'.saved /\ (c.cur = it'.saved => loc'.skipping)
  PROVE  Data'
<1>1. /\ Faithful' /\ call' = c /\ CallTypes(c) /\ Wanted(c)' = Wanted(c) /\ opts' = opts
  BY WithinStays
<1>2. CallOK' BY <1>1 DEF CallOK, CallTypes
<1>3. FindData' BY <1>1 DEF FindData, Wanted
<1>4. QED
  BY <1>1, <1>2, <1>3 DEF Data, TurnData, PrevData, ValueData, BackData, EndData, IdleData

\* into ReverseToForward,
LEMMA TurnReaches ==
  ASSUME NEW c, Within(c), pc' = "turn", c.op = "next", c.cur = it'.saved,
         opts.lower # None => opts.lower <= it'.saved
  PROVE  Data'
<1>1. /\ Faithful' /\ call' = c /\ CallTypes(c) /\ opts' = opts BY WithinStays
<1>2. CallOK' BY <1>1 DEF CallOK, CallTypes
<1>3. TurnData' BY <1>1 DEF TurnData
<1>4. QED
  BY <1>1, <1>2, <1>3 DEF Data, FindData, PrevData, ValueData, BackData, EndData, IdleData

\* into PrevInternal,
LEMMA PrevReaches ==
  ASSUME NEW c, Within(c), NEW e, at' = e, pc' = "prev", c.op \in Backwards,
         innerOk' => IF e = None THEN Wanted(c) = {}
                     ELSE /\ \A k \in Wanted(c) : k <= e.key
                          /\ Below(c, e.key)
                          /\ \A f \in view : Visible(f) /\ Precedes(e, f) => e.key < f.key
  PROVE  Data'
<1>1. /\ Faithful' /\ call' = c /\ CallTypes(c) /\ Wanted(c)' = Wanted(c) /\ opts' = opts
      /\ view' = view /\ it'.seq = it.seq
  BY WithinStays DEF Within
<1>2. CallOK' BY <1>1 DEF CallOK, CallTypes
<1>3. Wanted(call)' = Wanted(c) BY <1>1 DEF Wanted
<1>4. PrevData' BY <1>1, <1>3 DEF PrevData, Below, Visible
<1>5. QED
  BY <1>1, <1>2, <1>4 DEF Data, FindData, TurnData, ValueData, BackData, EndData, IdleData

\* The versions a position e has passed backwards.
PassedFrom(e, f) == Visible(f) /\ (e # None => Precedes(e, f))

\* into FindValueForCurrentKey,
LEMMA ValueReaches ==
  ASSUME NEW c, Within(c), NEW e, at' = e, pc' = "value", c.op \in Backwards,
         Below(c, it'.saved), ~BelowLower(it'.saved), \A k \in Wanted(c) : k <= it'.saved,
         innerOk' =>
           /\ \A g \in view :
                /\ PassedFrom(e, g) /\ g.key = it'.saved
                /\ \A f \in view : PassedFrom(e, f) /\ f.key = it'.saved => f.seq <= g.seq
                => (loc'.found <=> Live(g)) /\ (Live(g) => it'.pinned = g.val)
           /\ (\A g \in view : PassedFrom(e, g) => g.key # it'.saved) => ~loc'.found
  PROVE  Data'
<1>1. /\ Faithful' /\ call' = c /\ CallTypes(c) /\ Wanted(c)' = Wanted(c) /\ opts' = opts
      /\ view' = view /\ dels' = dels /\ it'.seq = it.seq
  BY WithinStays DEF Within
<1>2. CallOK' BY <1>1 DEF CallOK, CallTypes
<1>3. Wanted(call)' = Wanted(c) BY <1>1 DEF Wanted
<1>4. \A f : (Passed(f)' <=> PassedFrom(e, f)) BY <1>1 DEF Passed, PassedFrom, Visible
<1>5. \A f : (Live(f)' <=> Live(f)) BY <1>1 DEF Live, ShouldDelete
<1>6. Below(call, it.saved)' /\ ~BelowLower(it.saved)' BY <1>1 DEF Below, BelowLower
<1>7. ValueData' BY <1>1, <1>3, <1>4, <1>5, <1>6 DEF ValueData
<1>8. QED
  BY <1>1, <1>2, <1>7 DEF Data, FindData, TurnData, PrevData, BackData, EndData, IdleData

\* into FindUserKeyBeforeSavedKey,
LEMMA BackReaches ==
  ASSUME NEW c, Within(c), pc' = "back", c.op \in Backwards,
         opts.upper # None => it'.saved < opts.upper,
         c.op = "seekPrev" => it'.saved <= c.key,
         c.op = "prev" => it'.saved <= c.cur,
         \A k \in Wanted(c) : k <= it'.saved,
         IF loc'.from # "turn" /\ it'.valid
         THEN it'.saved \in Wanted(c) /\ it'.pinned = ValueAt(it.seq, it'.saved)
         ELSE \A k \in Wanted(c) : k < it'.saved
  PROVE  Data'
<1>1. /\ Faithful' /\ call' = c /\ CallTypes(c) /\ Wanted(c)' = Wanted(c) /\ opts' = opts
      /\ \A k : ValueAt(it.seq, k)' = ValueAt(it.seq, k)
  BY WithinStays
<1>2. CallOK' BY <1>1 DEF CallOK, CallTypes
<1>3. Wanted(call)' = Wanted(c) BY <1>1 DEF Wanted
<1>4. ValueAt(it.seq, it.saved)' = ValueAt(it.seq, it'.saved)
  <2>1. PICK s : s = it'.saved OBVIOUS
  <2>2. ValueAt(it.seq, it.saved)' = ValueAt(it.seq, s)' BY <2>1 DEF ValueAt, Wrote
  <2>3. QED BY <1>1, <2>1, <2>2
<1>5. BackData' BY <1>1, <1>3, <1>4 DEF BackData
<1>6. QED
  BY <1>1, <1>2, <1>5 DEF Data, FindData, TurnData, PrevData, ValueData, EndData, IdleData

\* A call that ends nowhere: because nothing is wanted, or its status says why.
LEMMA EndsNowhere ==
  ASSUME NEW c, Within(c), pc' = "end", ~it'.valid,
         it'.ok /\ innerOk' => Wanted(c) = {}
  PROVE  Data'
<1>1. /\ Faithful' /\ call' = c /\ CallTypes(c) /\ Wanted(c)' = Wanted(c)
  BY WithinStays
<1>2. CallOK' BY <1>1 DEF CallOK, CallTypes
<1>3. Wanted(call)' = Wanted(c) BY <1>1 DEF Wanted
<1>4. EndData' BY <1>1, <1>3 DEF EndData
<1>5. QED
  BY <1>1, <1>2, <1>4 DEF Data, FindData, TurnData, PrevData, ValueData, BackData, IdleData

\* or to its end at a key keeps the data, when what it has to be there is.
LEMMA EndsAt ==
  ASSUME NEW c, Within(c), pc' = "end", it'.valid, it'.saved \in Wanted(c),
         \A k \in Wanted(c) : IF c.op \in Forwards THEN it'.saved <= k ELSE k <= it'.saved,
         (IF it'.dir = "reverse" THEN it'.pinned ELSE at'.val) = ValueAt(it.seq, it'.saved)
  PROVE  Data'
<1>1. /\ Faithful' /\ call' = c /\ CallTypes(c) /\ Wanted(c)' = Wanted(c)
      /\ \A k : ValueAt(it.seq, k)' = ValueAt(it.seq, k)
  BY WithinStays
<1>2. CallOK' BY <1>1 DEF CallOK, CallTypes
<1>3. Wanted(call)' = Wanted(c) BY <1>1 DEF Wanted
<1>4. ValueAt(it.seq, it.saved)' = ValueAt(it.seq, it'.saved)
  <2>1. PICK s : s = it'.saved OBVIOUS
  <2>2. ValueAt(it.seq, it.saved)' = ValueAt(it.seq, s)' BY <2>1 DEF ValueAt, Wrote
  <2>3. QED BY <1>1, <2>1, <2>2
<1>5. Value(it, at)' = ValueAt(it.seq, it.saved)' BY <1>4 DEF Value
<1>6. EndData' BY <1>1, <1>3, <1>5 DEF EndData
<1>7. QED
  BY <1>1, <1>2, <1>6 DEF Data, FindData, TurnData, PrevData, ValueData, BackData, IdleData

-----------------------------------------------------------------------------
(***************************************************************************)
(* Forwards: what is shown.                                                *)
(***************************************************************************)
\* The steps of the loops are such steps.
LEMMA WithinCall ==
  ASSUME Types, Data, pc \notin {"new", "idle"}, UNCHANGED <<db, ref>>, UNCHANGED call,
         it'.seq = it.seq, it'.sv = it.sv
  PROVE  Within(call)
BY DEF Within, Data, CallOK

\* A call's keys and the bounds are numbers.
LEMMA CallNumbers ==
  ASSUME NEW c, CallTypes(c), opts \in Options
  PROVE  /\ c.op \in {"seek", "seekPrev"} => c.key \in Nat
         /\ c.op \in {"next", "prev"} => c.cur \in Nat
         /\ opts.lower # None => opts.lower \in Nat
         /\ opts.upper # None => opts.upper \in Nat
BY OptionTypes, NoneIs DEF CallTypes

\* What Advance leaves the cursor with, and where it leads.
LEMMA AdvanceOutcome ==
  ASSUME Types, at # None, NEW i, NEW l, Leaving(i, l), Advance(i, l)
  PROVE  /\ UNCHANGED <<db, ref>> /\ it'.seq = it.seq /\ it'.sv = it.sv
         /\ it'.saved = at.key /\ it'.ok
         /\ at' # None => pc' = "find" /\ loc'.skipping = l.skipping
         /\ at' = None => pc' = "end" /\ ~it'.valid
         /\ \/ innerOk' => at' = After(at)
            \/ innerOk' => at' = SeekTo(at.key, IF l.skipping THEN Past ELSE it.seq)
<1>1. at \in view /\ Store(view) BY DEF Types
<1>2. /\ i \in ItTypes /\ l \in LocTypes /\ i.seq = it.seq /\ i.sv = it.sv
      /\ i.ok /\ i.saved = at.key
  BY DEF Leaving
<1> DEFINE on == IF l.n > opts.maxSkip /\ ~l.reseek THEN [i EXCEPT !.zero = FALSE] ELSE i
           ln == IF l.n > opts.maxSkip /\ ~l.reseek THEN [l EXCEPT !.n = 0, !.reseek = TRUE] ELSE l
           off == [on EXCEPT !.valid = FALSE]
           s == SeekTo(at.key, IF l.skipping THEN Past ELSE it.seq)
<1>3. /\ on \in ItTypes /\ on.seq = it.seq /\ on.sv = it.sv /\ on.ok /\ on.saved = at.key
  BY <1>2 DEF ItTypes
<1>4. ln.skipping = l.skipping BY <1>2 DEF LocTypes
<1>5. /\ UNCHANGED <<db, ref>>
      /\ at' # None => pc' = "find" /\ loc' = ln /\ it' = on
      /\ at' = None => pc' = "end" /\ it' = off
  BY <1>2 DEF Advance, GotoIfValid, Goto, Finish
<1>6. Move(After(at)) \/ Move(s) BY <1>2 DEF Advance
<1> HIDE DEF on, ln, s
<1>7. off.seq = it.seq /\ off.sv = it.sv /\ off.ok /\ off.saved = at.key /\ ~off.valid
  BY <1>3 DEF ItTypes
<1> HIDE DEF off
<1>8. (innerOk' => at' = After(at)) \/ (innerOk' => at' = s) BY <1>6 DEF Move
<1>9. QED BY <1>3, <1>4, <1>5, <1>7, <1>8 DEF s

\* The entry that stands for a wanted key lies ahead.
LEMMA WantedAhead ==
  ASSUME Types, Faithful, at # None, NEW i, NEW l, Leaving(i, l), NEW k \in Shown,
         at.key <= k, l.skipping => at.key < k
  PROVE  \E e \in view : /\ e.key = k /\ Precedes(at, e)
                         /\ e \in From(at.key, IF l.skipping THEN Past ELSE it.seq)
<1>1. PICK e \in view : e.key = k /\ Newest(e) BY ShownHas
<1>2. at \in view /\ at.key \in Nat /\ k \in Nat
  BY EntryType, ShownTypes DEF Types, Store
<1>3. CASE at.key < k
  <2>1. Precedes(at, e) /\ e.key > at.key BY <1>1, <1>3 DEF Precedes
  <2>2. QED BY <1>1, <2>1 DEF From
<1>4. CASE ~(at.key < k)
  <2>1. at.key = k /\ ~l.skipping BY <1>2, <1>4
  <2>2. Visible(e) BY <1>1 DEF Newest
  <2>3. Precedes(at, e) BY <1>1, <2>1, <2>2 DEF Leaving
  <2>4. QED BY <1>1, <2>1, <2>2, <2>3 DEF From, Visible
<1>5. QED BY <1>3, <1>4

\* Advance keeps the data when every wanted key lies ahead of it.
LEMMA AdvanceData ==
  ASSUME Types, Position, Data, pc = "find", NEW i, NEW l, Leaving(i, l), Advance(i, l),
         UNCHANGED call,
         \A k \in Wanted(call) : at.key <= k /\ (l.skipping => at.key < k),
         opts.lower # None => opts.lower <= at.key,
         call.op = "seek" => call.key <= at.key,
         call.op = "next" => call.cur <= at.key /\ (call.cur = at.key => l.skipping)
  PROVE  Data'
<1>1. at # None /\ at \in view /\ Store(view) /\ call.op \in Forwards
  BY FindFacts DEF Data, CallOK
<1>2. /\ UNCHANGED <<db, ref>> /\ it'.seq = it.seq /\ it'.sv = it.sv
      /\ it'.saved = at.key /\ it'.ok
      /\ at' # None => pc' = "find" /\ loc'.skipping = l.skipping
      /\ at' = None => pc' = "end" /\ ~it'.valid
      /\ \/ innerOk' => at' = After(at)
         \/ innerOk' => at' = SeekTo(at.key, IF l.skipping THEN Past ELSE it.seq)
  BY <1>1, AdvanceOutcome
<1>3. Within(call) BY <1>2, WithinCall
<1>4. Types' /\ Position' BY <1>1, AdvancePosition
<1>5. PICK a : a = at' OBVIOUS
<1>6. ASSUME NEW k \in Wanted(call), innerOk' PROVE a # None /\ a.key <= k
  <2>1. k \in Shown BY ShownTypes
  <2>2. PICK e \in view : /\ e.key = k /\ Precedes(at, e)
                          /\ e \in From(at.key, IF l.skipping THEN Past ELSE it.seq)
    BY <1>1, <2>1, WantedAhead DEF Data
  <2>3. a # None /\ a \in view /\ (e = a \/ Precedes(a, e))
    <3>1. CASE a = After(at) BY <1>1, <2>2, <3>1, AfterIs DEF IsAfter
    <3>2. CASE a = SeekTo(at.key, IF l.skipping THEN Past ELSE it.seq)
      BY <1>1, <2>2, <3>2, SeekToIs DEF From
    <3>3. QED BY <1>2, <1>5, <1>6, <3>1, <3>2
  <2>4. a.key \in Nat /\ e.key \in Nat BY <1>1, <2>3, EntryType DEF Store
  <2>5. QED BY <2>2, <2>3, <2>4 DEF Precedes
<1>7. CASE at' # None
  <2>1. innerOk' BY <1>4, <1>7 DEF Position, Steady
  <2>2. QED BY <1>1, <1>2, <1>3, <1>5, <1>6, <1>7, <2>1, FindReaches
<1>8. CASE at' = None
  <2>1. innerOk' => Wanted(call) = {} BY <1>5, <1>6, <1>8
  <2>2. QED BY <1>2, <1>3, <1>8, <2>1, EndsNowhere
<1>9. QED BY <1>7, <1>8

\* What the data say of FindNextUserEntryInternal, with the types.
LEMMA FindWanted ==
  ASSUME Types, Position, Data, pc = "find"
  PROVE  /\ \A k \in Wanted(call) : k \in Nat /\ at.key <= k /\ (loc.skipping => it.saved < k)
         /\ call.op \in Forwards /\ CallTypes(call)
         /\ opts.lower # None => opts.lower \in Nat /\ opts.lower <= it.saved
         /\ call.op = "seek" => call.key \in Nat /\ call.key <= it.saved
         /\ call.op = "next" => /\ call.cur \in Nat /\ call.cur <= it.saved
                                /\ call.cur = it.saved => loc.skipping
<1>1. CallTypes(call) /\ call.op \in Forwards BY DEF Data, CallOK
<1>2. \A k \in Wanted(call) : k \in Nat BY ShownTypes
<1>3. opts \in Options BY DEF Types
<1>4. FindData BY DEF Data
<1>5. QED BY <1>1, <1>2, <1>3, <1>4, CallNumbers DEF FindData

\* Nothing wanted has the key of an entry that is the newest one and is not live.
LEMMA DeadUnwanted ==
  ASSUME Types, Position, Data, pc = "find", Visible(at), ~Repeated, ~Live(at)
  PROVE  at.key \notin Wanted(call)
<1>1. at \in view BY FindFacts
<1>2. Newest(at) BY <1>1, YieldsNewest DEF Newest
<1>3. QED BY <1>2, NewestShown, ShownTypes DEF Data

\* The iterations that go on keep the data.
LEMMA FindOnData ==
  ASSUME Types, Position, Data, FindRepeated \/ FindDeleted \/ FindNewer
  PROVE  Data'
<1>1. pc = "find" /\ UNCHANGED call BY DEF FindRepeated, FindDeleted, FindNewer, Looking
<1>2. /\ at # None /\ at.key \in Nat /\ it.saved \in Nat /\ it.saved <= at.key
      /\ loc \in LocTypes
  BY <1>1, FindFacts
<1>3. /\ \A k \in Wanted(call) : k \in Nat /\ at.key <= k /\ (loc.skipping => it.saved < k)
      /\ opts.lower # None => opts.lower \in Nat /\ opts.lower <= it.saved
      /\ call.op = "seek" => call.key \in Nat /\ call.key <= it.saved
      /\ call.op = "next" => /\ call.cur \in Nat /\ call.cur <= it.saved
                             /\ call.cur = it.saved => loc.skipping
  BY <1>1, FindWanted
<1>4. /\ opts.lower # None => opts.lower <= at.key
      /\ call.op = "seek" => call.key <= at.key
      /\ call.op = "next" => call.cur <= at.key
  BY <1>2, <1>3
<1>5. CASE FindRepeated
  <2> DEFINE l == [loc EXCEPT !.n = @ + 1]
  <2>1. loc.skipping /\ at.key <= it.saved BY <1>5 DEF FindRepeated, Repeated
  <2>2. \A k \in Wanted(call) : at.key <= k /\ at.key < k BY <1>2, <1>3, <2>1
  <2>3. l.skipping BY <1>2, <2>1 DEF LocTypes
  <2>4. Leaving(Worked(Seen), l) BY <1>5, FindRepeatedLeaves
  <2>5. Advance(Worked(Seen), l) BY <1>5 DEF FindRepeated
  <2> HIDE DEF l
  <2>6. QED BY <1>1, <1>4, <2>2, <2>3, <2>4, <2>5, AdvanceData
<1>6. CASE FindDeleted
  <2> DEFINE l == [loc EXCEPT !.skipping = TRUE, !.n = 0, !.reseek = FALSE]
             i == [Worked(Seen) EXCEPT !.saved = at.key]
  <2>1. at.key \notin Wanted(call) BY <1>1, <1>6, DeadUnwanted DEF FindDeleted
  <2>2. \A k \in Wanted(call) : at.key <= k /\ at.key < k BY <1>2, <1>3, <2>1
  <2>3. l.skipping BY <1>2 DEF LocTypes
  <2>4. Leaving(i, l) BY <1>6, FindDeletedLeaves
  <2>5. Advance(i, l) BY <1>6 DEF FindDeleted
  <2> HIDE DEF l, i
  <2>6. QED BY <1>1, <1>4, <2>2, <2>3, <2>4, <2>5, AdvanceData
<1>7. CASE FindNewer
  <2>1. PICK i, l : /\ Leaving(i, l) /\ Advance(i, l)
                    /\ \/ l.skipping = loc.skipping /\ it.saved = at.key
                       \/ ~l.skipping /\ it.saved < at.key
    BY <1>7, FindNewerLeaves
  <2>2. \A k \in Wanted(call) : at.key <= k /\ (l.skipping => at.key < k)
    BY <1>3, <2>1
  <2>3. call.op = "next" => call.cur <= at.key /\ (call.cur = at.key => l.skipping)
    <3>1. CASE l.skipping = loc.skipping /\ it.saved = at.key BY <1>3, <1>4, <3>1
    <3>2. CASE ~l.skipping /\ it.saved < at.key BY <1>2, <1>3, <1>4, <3>2
    <3>3. QED BY <2>1, <3>1, <3>2
  <2>4. QED BY <1>1, <1>4, <2>1, <2>2, <2>3, AdvanceData
<1>8. QED BY <1>5, <1>6, <1>7

\* The entry to show is the first wanted one: the call that stops there keeps the data.
LEMMA FindYieldsData ==
  ASSUME Types, Position, Data, FindYields
  PROVE  Data'
<1>1. /\ pc = "find" /\ Visible(at) /\ ~Repeated /\ Live(at) /\ ~AtUpper(at.key)
  BY DEF FindYields, Looking
<1>2. /\ at # None /\ at \in view /\ at.key \in Keys /\ at.key \in Nat /\ it \in ItTypes
      /\ it.saved \in Nat /\ it.saved <= at.key /\ it.dir = "forward"
      /\ it.zero => it.saved < at.key
  BY <1>1, FindFacts
<1>3. /\ \A k \in Wanted(call) : k \in Nat /\ at.key <= k
      /\ call.op \in Forwards
      /\ opts.lower # None => opts.lower \in Nat /\ opts.lower <= it.saved
      /\ call.op = "seek" => call.key \in Nat /\ call.key <= it.saved
      /\ call.op = "next" => /\ call.cur \in Nat /\ call.cur <= it.saved
                             /\ call.cur = it.saved => loc.skipping
  BY <1>1, FindWanted
<1> DEFINE w == Worked(Seen)
           i == [w EXCEPT !.saved = at.key, !.valid = TRUE]
<1>4. w \in ItTypes /\ w.seq = it.seq /\ w.sv = it.sv /\ w.dir = it.dir BY <1>2, SeenIs
<1>5. it' = i /\ pc' = "end" /\ UNCHANGED <<db, ref>> /\ at' = at /\ UNCHANGED call
  BY DEF FindYields, Finish, Goto, inner
<1> HIDE DEF w
<1>6. i.seq = w.seq /\ i.sv = w.sv /\ i.dir = w.dir /\ i.saved = at.key /\ i.valid
  BY <1>2, <1>4 DEF ItTypes
<1> HIDE DEF i
<1>7. Newest(at) BY <1>1, <1>2, YieldsNewest DEF Newest
<1>8. ValueAt(it.seq, at.key) = at.val /\ at.val # 0 BY <1>1, <1>7, NewestShown DEF Data
<1>9. opts.upper # None => at.key < opts.upper
  <2>1. opts.upper # None => opts.upper \in Nat BY OptionTypes, NoneIs DEF Types
  <2>2. QED BY <1>1, <1>2, <2>1 DEF AtUpper
<1>10. opts.lower # None => opts.lower <= at.key BY <1>2, <1>3
<1>11. at.key \in Shown BY <1>2, <1>8, <1>9, <1>10 DEF Shown
<1>12. call.op = "seek" => call.key <= at.key BY <1>2, <1>3
<1>13. call.op = "next" => call.cur < at.key
  <2>1. SUFFICES ASSUME call.op = "next" PROVE call.cur < at.key OBVIOUS
  <2>2. loc.skipping => it.saved < at.key BY <1>1, <1>2 DEF Repeated
  <2>3. QED BY <1>2, <1>3, <2>1, <2>2
<1>14. at.key \in Wanted(call) BY <1>3, <1>11, <1>12, <1>13 DEF Wanted, Fits, Forwards
<1>15. Within(call) BY <1>1, <1>4, <1>5, <1>6, WithinCall
<1>16. it'.dir # "reverse" BY <1>2, <1>4, <1>5, <1>6
<1>17. QED BY <1>3, <1>5, <1>6, <1>8, <1>14, <1>15, <1>16, EndsAt

\* At the upper bound nothing is wanted any more; at the limit the call fails.
LEMMA FindStopsData ==
  ASSUME Types, Position, Data, FindStops
  PROVE  Data'
<1>1. pc = "find" BY DEF FindStops
<1>2. at.key \in Nat /\ it \in ItTypes BY <1>1, FindFacts
<1>3. \A k \in Wanted(call) : k \in Nat /\ at.key <= k BY <1>1, FindWanted
<1> DEFINE i == IF AtUpper(at.key) THEN [Seen EXCEPT !.valid = FALSE] ELSE Incomplete(Seen)
<1>4. i.seq = it.seq /\ i.sv = it.sv /\ ~i.valid /\ (~AtUpper(at.key) => ~i.ok)
  BY <1>2 DEF Seen, Incomplete, ItTypes
<1>5. it' = i /\ pc' = "end" /\ UNCHANGED <<db, ref>> /\ UNCHANGED call
  BY DEF FindStops, Finish, Goto
<1> HIDE DEF i
<1>6. Within(call) BY <1>1, <1>4, <1>5, WithinCall
<1>7. AtUpper(at.key) => Wanted(call) = {}
  <2>1. opts.upper # None => opts.upper \in Nat BY OptionTypes, NoneIs DEF Types
  <2>2. \A k \in Wanted(call) : opts.upper # None => k < opts.upper BY DEF Wanted, Shown
  <2>3. QED BY <1>2, <1>3, <2>1, <2>2 DEF AtUpper
<1>8. QED BY <1>4, <1>5, <1>6, <1>7, EndsNowhere

\* A call that begins.
LEMMA CallingTypes ==
  ASSUME Types, Position, NEW op \in Forwards \cup Backwards, NEW k, Calling(op, k),
         IF op \in {"seek", "seekPrev"} THEN k \in Keys ELSE k = None,
         op \in {"next", "prev"} => it.valid,
         NEW c, c = call'
  PROVE  CallTypes(c) /\ c.op = op /\ c.key = k /\ pc = "idle" /\ (it.valid => c.cur = it.saved)
<1>1. pc = "idle" /\ c = [op |-> op, key |-> k, cur |-> Key(it), val |-> Value(it, at),
                          ok |-> StatusOk(it, innerOk)]
  BY DEF Calling
<1>2. c.op = op /\ c.key = k /\ c.cur = Key(it) BY <1>1
<1>3. it.valid => c.cur = it.saved BY <1>2 DEF Key
<1>4. it.valid => it.saved \in Keys BY <1>1, StandFacts
<1>5. QED BY <1>1, <1>2, <1>3, <1>4 DEF CallTypes

\* What a seek forwards leaves the cursor with, and where it leads.
LEMMA SeekForwardOutcome ==
  ASSUME Types, NEW k \in Keys, SeekForward(k),
         NEW t \in Keys, t = IF BelowLower(k) THEN opts.lower ELSE k
  PROVE  /\ UNCHANGED <<db, ref>> /\ it'.seq = it.seq /\ it'.sv = it.sv /\ it'.ok
         /\ at' # None => pc' = "find" /\ ~loc'.skipping /\ it'.saved = t /\ innerOk'
         /\ at' = None => pc' = "end" /\ ~it'.valid
         /\ innerOk' => at' = SeekTo(t, it.seq)
<1>1. Store(view) BY DEF Types
<1>2. Move(SeekTo(t, it.seq)) BY DEF SeekForward
<1>3. PICK i : i = SoughtAt("forward", t) OBVIOUS
<1>4. GotoIfValid("find", NoLocals, i) BY <1>3 DEF SeekForward, SoughtAt
<1>5. /\ i.seq = it.seq /\ i.sv = it.sv /\ i.ok /\ i.saved = t
      /\ Off(i).seq = it.seq /\ Off(i).sv = it.sv /\ Off(i).ok /\ ~Off(i).valid
  BY <1>3, SoughtIs
<1>6. SeekTo(t, it.seq) \in view \cup {None} BY <1>1, SeekToIs DEF From
<1>7. (at' # None => innerOk') /\ (innerOk' => at' = SeekTo(t, it.seq))
  BY <1>2, <1>6, MoveIs
<1>8. /\ UNCHANGED <<db, ref>>
      /\ at' # None => pc' = "find" /\ loc' = NoLocals /\ it' = i
      /\ at' = None => pc' = "end" /\ it' = Off(i)
  BY <1>4 DEF GotoIfValid, Goto, Finish, Off
<1>9. ~NoLocals.skipping BY DEF NoLocals
<1>10. QED BY <1>5, <1>7, <1>8, <1>9

\* Seek begins its loop before every wanted key.
LEMMA SeekForwardData ==
  ASSUME Types, Position, Data, NEW k \in Keys, SeekForward(k), pc = "idle",
         NEW c, c = call', CallTypes(c), c.op \in {"first", "seek"},
         c.op = "seek" => c.key = k, c.op = "first" => k = opts.lower
  PROVE  Data'
<1>1. Store(view) /\ opts \in Options BY DEF Types
<1>2. PICK t \in Keys : t = IF BelowLower(k) THEN opts.lower ELSE k
  BY <1>1, OptionTypes DEF BelowLower
<1>3. t \in Nat /\ k \in Nat /\ (opts.lower # None => opts.lower \in Nat)
  BY <1>1, NoneIs, OptionTypes
<1>4. k <= t /\ (opts.lower # None => opts.lower <= t)
  BY <1>2, <1>3 DEF BelowLower
<1>5. /\ UNCHANGED <<db, ref>> /\ it'.seq = it.seq /\ it'.sv = it.sv /\ it'.ok
      /\ at' # None => pc' = "find" /\ ~loc'.skipping /\ it'.saved = t /\ innerOk'
      /\ at' = None => pc' = "end" /\ ~it'.valid
      /\ innerOk' => at' = SeekTo(t, it.seq)
  BY <1>2, SeekForwardOutcome
<1>6. Within(c) BY <1>5 DEF Within, Data
<1>7. PICK a : a = at' OBVIOUS
<1>8. ASSUME NEW w \in Wanted(c), innerOk' PROVE a # None /\ a.key <= w
  <2>1. w \in Shown /\ w \in Nat BY ShownTypes
  <2>2. PICK e \in view : e.key = w /\ Newest(e) BY <2>1, ShownHas DEF Data
  <2>3. t <= w
    <3>1. opts.lower # None => opts.lower <= w BY <2>1 DEF Shown
    <3>2. c.op = "seek" => k <= w BY DEF Wanted, Fits
    <3>3. CASE c.op = "seek" BY <1>2, <1>3, <3>1, <3>2, <3>3 DEF BelowLower
    <3>4. CASE c.op = "first"
      <4>1. opts.lower # None BY <3>4, NoneIs
      <4>2. t = opts.lower BY <1>2, <3>4
      <4>3. QED BY <3>1, <4>1, <4>2
    <3>5. QED BY <3>3, <3>4
  <2>4. e \in From(t, it.seq) BY <1>3, <2>1, <2>2, <2>3 DEF From, Newest, Visible
  <2>5. a # None /\ a \in view /\ (e = a \/ Precedes(a, e))
    BY <1>1, <1>5, <1>7, <1>8, <2>4, SeekToIs DEF From
  <2>6. a.key \in Nat /\ e.key \in Nat BY <1>1, <2>5, EntryType DEF Store
  <2>7. QED BY <2>2, <2>5, <2>6 DEF Precedes
<1>9. CASE at' # None
  <2>1. c.op = "seek" => c.key <= t BY <1>4
  <2>2. QED BY <1>4, <1>5, <1>6, <1>7, <1>8, <1>9, <2>1, FindReaches DEF Forwards
<1>10. CASE at' = None
  <2>1. innerOk' => Wanted(c) = {} BY <1>7, <1>8, <1>10
  <2>2. QED BY <1>5, <1>6, <1>10, <2>1, EndsNowhere
<1>11. QED BY <1>9, <1>10

\* So does SeekToFirst,
LEMMA SeekToFirstData ==
  ASSUME Types, Position, Data, SeekToFirst
  PROVE  Data'
<1>1. Store(view) /\ opts \in Options /\ it \in ItTypes BY DEF Types
<1>2. PICK c : c = call' OBVIOUS
<1>3. CallTypes(c) /\ c.op = "first" /\ pc = "idle"
  BY <1>2, CallingTypes DEF SeekToFirst, Forwards
<1>4. CASE opts.lower # None
  <2>1. opts.lower \in Keys BY <1>1, <1>4, OptionTypes
  <2>2. SeekForward(opts.lower) BY <1>4 DEF SeekToFirst
  <2>3. QED BY <1>2, <1>3, <2>1, <2>2, SeekForwardData
<1>5. CASE opts.lower = None
  <2>1. Move(FirstOf(view)) BY <1>5 DEF SeekToFirst
  <2>2. FirstOf(view) \in view \cup {None} BY <1>1, SomeFirst
  <2>3. /\ at' \in view \cup {None} /\ (at' # None => innerOk')
        /\ innerOk' => at' = FirstOf(view)
    BY <2>1, <2>2, MoveIs
  <2>4. PICK a : a = at' OBVIOUS
  <2>5. a # None => a \in view /\ a.key \in Nat BY <1>1, <2>3, <2>4, EntryType DEF Store
  <2>6. PICK i : i = [Sought EXCEPT !.dir = "forward", !.saved = IF a = None THEN @ ELSE a.key]
    OBVIOUS
  <2>7. GotoIfValid("find", NoLocals, i) BY <1>5, <2>4, <2>6 DEF SeekToFirst
  <2>8. i.seq = it.seq /\ i.sv = it.sv /\ (a # None => i.saved = a.key)
    BY <1>1, <2>6 DEF Sought, ItTypes
  <2>9. i \in [DOMAIN it -> UNION {{i[x]} : x \in DOMAIN it}]
    BY <1>1, <2>6 DEF Sought, ItTypes
  <2>10. Off(i).seq = i.seq /\ Off(i).sv = i.sv /\ ~Off(i).valid
    BY <1>1, <2>9 DEF Off, ItTypes
  <2>11. /\ UNCHANGED <<db, ref>>
         /\ at' # None => pc' = "find" /\ loc' = NoLocals /\ it' = i
         /\ at' = None => pc' = "end" /\ it' = Off(i)
    BY <2>7 DEF GotoIfValid, Goto, Finish, Off
  <2>12. Within(c) BY <1>2, <1>3, <2>8, <2>10, <2>11 DEF Within, Data
  <2>13. ASSUME NEW w \in Wanted(c), innerOk' PROVE a # None /\ a.key <= w
    <3>1. PICK e \in view : e.key = w BY ShownTypes, ShownHas DEF Data
    <3>2. a # None /\ (e = a \/ Precedes(a, e))
      BY <1>1, <2>3, <2>4, <2>13, <3>1, SomeFirst
    <3>3. a.key \in Nat /\ e.key \in Nat BY <1>1, <2>5, <3>1, <3>2, EntryType DEF Store
    <3>4. QED BY <3>1, <3>2, <3>3 DEF Precedes
  <2>14. CASE at' # None
    <3>1. ~NoLocals.skipping BY DEF NoLocals
    <3>2. QED BY <1>3, <1>5, <2>3, <2>4, <2>11, <2>12, <2>13, <2>14, <3>1, FindReaches DEF Forwards
  <2>15. CASE at' = None
    <3>1. innerOk' => Wanted(c) = {} BY <2>4, <2>13, <2>15
    <3>2. QED BY <2>10, <2>11, <2>12, <2>15, <3>1, EndsNowhere
  <2>16. QED BY <2>14, <2>15
<1>6. QED BY <1>4, <1>5

\* Where a valid cursor stands when a step is called.
LEMMA IdleFacts ==
  ASSUME Types, Data, pc = "idle", it.valid
  PROVE  /\ it.saved \in Shown /\ it.saved \in Nat
         /\ opts.lower # None => opts.lower <= it.saved
         /\ opts.upper # None => it.saved < opts.upper
<1>1. it.saved \in Shown BY DEF Data, IdleData
<1>2. QED BY <1>1, ShownTypes DEF Shown

\* and Next, whose loop skips the current key; backwards it turns first.
LEMMA NextData ==
  ASSUME Types, Position, Data, Next1
  PROVE  Data'
<1>1. PICK c : c = call' OBVIOUS
<1>2. it.valid BY DEF Next1
<1>3. CallTypes(c) /\ c.op = "next" /\ pc = "idle" /\ c.cur = it.saved
  BY <1>1, <1>2, CallingTypes DEF Next1, Forwards
<1>4. Store(view) /\ opts \in Options /\ it \in ItTypes /\ at \in view \cup {None} BY DEF Types
<1>5. it.saved \in Nat /\ (opts.lower # None => opts.lower <= it.saved)
  BY <1>2, <1>3, IdleFacts
<1>6. \A w \in Wanted(c) : w \in Nat /\ it.saved < w /\ \E e \in view : e.key = w /\ Newest(e)
  <2>1. ASSUME NEW w \in Wanted(c)
        PROVE  w \in Nat /\ it.saved < w /\ \E e \in view : e.key = w /\ Newest(e)
    <3>1. w \in Shown /\ w \in Nat BY ShownTypes
    <3>2. it.saved < w BY <1>3 DEF Wanted, Fits
    <3>3. QED BY <3>1, <3>2, ShownHas DEF Data
  <2>2. QED BY <2>1
<1>7. \A f \in view : f.key \in Nat /\ f.seq \in Nat BY <1>4, EntryType DEF Store
<1>8. PICK a : a = at' OBVIOUS
<1>9. CASE it.dir = "forward"
  <2>1. at # None /\ at \in view /\ at.key = it.saved BY <1>2, <1>3, <1>9, StandFacts
  <2>2. PICK i : i = [it EXCEPT !.work = 0] OBVIOUS
  <2>3. PICK l : l = [NoLocals EXCEPT !.skipping = TRUE] OBVIOUS
  <2>4. i.seq = it.seq /\ i.sv = it.sv /\ i.saved = it.saved /\ i \in ItTypes
    BY <1>4, <2>2 DEF ItTypes
  <2>5. Off(i).seq = i.seq /\ Off(i).sv = i.sv /\ ~Off(i).valid BY <2>4 DEF Off, ItTypes
  <2>6. l.skipping BY <2>3 DEF NoLocals
  <2>7. Move(After(at)) /\ GotoIfValid("find", l, i) BY <1>9, <2>2, <2>3 DEF Next1
  <2>8. (at' # None => innerOk') /\ (innerOk' => at' = After(at))
    <3>1. After(at) \in view \cup {None} BY <1>4, <2>1, AfterIs DEF IsAfter
    <3>2. QED BY <2>7, <3>1, MoveIs
  <2>9. /\ UNCHANGED <<db, ref>>
        /\ at' # None => pc' = "find" /\ loc' = l /\ it' = i
        /\ at' = None => pc' = "end" /\ it' = Off(i)
    BY <2>7 DEF GotoIfValid, Goto, Finish, Off
  <2>10. Within(c) BY <1>1, <1>3, <2>4, <2>5, <2>9 DEF Within, Data
  <2>11. ASSUME NEW w \in Wanted(c), innerOk' PROVE a # None /\ a.key <= w
    <3>1. PICK e \in view : e.key = w BY <1>6
    <3>2. Precedes(at, e) BY <1>6, <2>1, <3>1 DEF Precedes
    <3>3. a # None /\ a \in view /\ (e = a \/ Precedes(a, e))
      BY <1>4, <1>8, <2>1, <2>8, <2>11, <3>2, AfterIs DEF IsAfter
    <3>4. QED BY <1>7, <3>1, <3>3 DEF Precedes
  <2>12. CASE at' # None
    <3>1. \A k \in Wanted(c) : a.key <= k /\ (loc'.skipping => it'.saved < k)
      BY <1>6, <2>4, <2>8, <2>9, <2>11, <2>12
    <3>2. c.cur <= it'.saved /\ loc'.skipping BY <1>3, <1>5, <2>4, <2>6, <2>9, <2>12
    <3>3. QED BY <1>3, <1>5, <1>8, <2>4, <2>9, <2>10, <2>12, <3>1, <3>2, FindReaches DEF Forwards
  <2>13. CASE at' = None
    <3>1. innerOk' => Wanted(c) = {} BY <1>8, <2>11, <2>13
    <3>2. QED BY <2>5, <2>9, <2>10, <2>13, <3>1, EndsNowhere
  <2>14. QED BY <2>12, <2>13
<1>10. CASE it.dir # "forward"
  <2>1. PICK i : i = [it EXCEPT !.work = 0, !.zero = FALSE, !.dir = "forward"] OBVIOUS
  <2>2. i.seq = it.seq /\ i.sv = it.sv /\ i.saved = it.saved /\ i \in ItTypes
    BY <1>4, <2>1 DEF ItTypes
  <2>3. Off(i).seq = i.seq /\ Off(i).sv = i.sv /\ ~Off(i).valid BY <2>2 DEF Off, ItTypes
  <2>4. GotoIfValid("turn", NoLocals, i) BY <1>10, <2>1 DEF Next1
  <2>5. IF at = None THEN Move(SeekTo(it.saved, Top)) ELSE UNCHANGED inner
    BY <1>10 DEF Next1
  <2>6. /\ UNCHANGED <<db, ref>>
        /\ at' # None => pc' = "turn" /\ it' = i
        /\ at' = None => pc' = "end" /\ it' = Off(i)
    BY <2>4 DEF GotoIfValid, Goto, Finish, Off
  <2>7. Within(c) BY <1>1, <1>3, <2>2, <2>3, <2>6 DEF Within, Data
  <2>8. CASE at' # None BY <1>3, <1>5, <2>2, <2>6, <2>7, <2>8, TurnReaches
  <2>9. CASE at' = None
    <3>1. innerOk' => Wanted(c) = {}
      <4>1. SUFFICES ASSUME innerOk', NEW w \in Wanted(c) PROVE FALSE OBVIOUS
      <4>2. at = None BY <2>5, <2>9 DEF inner
      <4>3. SeekTo(it.saved, Top) = None BY <2>5, <2>9, <4>1, <4>2 DEF Move
      <4>4. PICK e \in view : e.key = w BY <1>6
      <4>5. e \in From(it.saved, Top) BY <1>5, <1>6, <4>4 DEF From
      <4>6. QED BY <1>4, <4>3, <4>5, SeekToIs
    <3>2. QED BY <2>3, <2>6, <2>7, <2>9, <3>1, EndsNowhere
  <2>10. QED BY <2>8, <2>9
<1>11. QED BY <1>9, <1>10

\* ReverseToForward ends at the current key or after it, before every wanted one.
LEMMA TurnStepData ==
  ASSUME Types, Position, Data, Turn
  PROVE  Data'
<1>1. pc = "turn" /\ UNCHANGED call BY DEF Turn
<1>2. /\ Store(view) /\ opts \in Options /\ it \in ItTypes
      /\ at # None /\ at \in view /\ it.saved # None
      /\ \A f \in view : Visible(f) /\ Precedes(f, at) => f.key < it.saved
  BY <1>1 DEF Types, Position, TurnAt
<1>3. it.saved \in Nat BY <1>2, NoneIs DEF ItTypes
<1>4. /\ call.op = "next" /\ call.cur = it.saved
      /\ opts.lower # None => opts.lower <= it.saved
  BY <1>1 DEF Data, TurnData
<1>5. \A f \in view : f.key \in Nat /\ f.seq \in Nat BY <1>2, EntryType DEF Store
<1>6. \A w \in Wanted(call) : w \in Nat /\ it.saved < w /\ \E e \in view : e.key = w /\ Newest(e)
  <2>1. ASSUME NEW w \in Wanted(call)
        PROVE  w \in Nat /\ it.saved < w /\ \E e \in view : e.key = w /\ Newest(e)
    <3>1. w \in Shown /\ w \in Nat BY ShownTypes
    <3>2. it.saved < w BY <1>4 DEF Wanted, Fits
    <3>3. QED BY <3>1, <3>2, ShownHas DEF Data
  <2>2. QED BY <2>1
<1>7. CASE at.key >= it.saved
  <2> DEFINE l == [NoLocals EXCEPT !.skipping = TRUE]
  <2>1. l.skipping BY DEF NoLocals
  <2>2. UNCHANGED <<db, ref>> /\ pc' = "find" /\ loc' = l /\ it' = it /\ at' = at
    BY <1>7 DEF Turn, Goto, inner
  <2> HIDE DEF l
  <2>3. Within(call) BY <1>1, <2>2, WithinCall
  <2>4. ASSUME NEW w \in Wanted(call) PROVE at.key <= w
    <3>1. PICK e \in view : e.key = w /\ Newest(e) BY <1>6
    <3>2. ~Precedes(e, at) BY <1>2, <1>3, <1>5, <1>6, <3>1 DEF Newest
    <3>3. e = at \/ Precedes(at, e) BY <1>2, <3>2, Ordered
    <3>4. QED BY <1>2, <1>5, <3>1, <3>3 DEF Precedes
  <2>5. \A k \in Wanted(call) : at.key <= k /\ (loc'.skipping => it'.saved < k)
    BY <1>6, <2>2, <2>4
  <2>6. it.saved <= it.saved BY <1>3
  <2>7. QED BY <1>4, <2>1, <2>2, <2>3, <2>5, <2>6, FindReaches DEF Forwards
<1>8. CASE ~(at.key >= it.saved)
  <2>1. Move(After(at)) /\ GotoIfValid("turn", NoLocals, it) BY <1>8 DEF Turn
  <2>2. Off(it).seq = it.seq /\ Off(it).sv = it.sv /\ ~Off(it).valid BY <1>2 DEF Off, ItTypes
  <2>3. /\ UNCHANGED <<db, ref>>
        /\ at' # None => pc' = "turn" /\ it' = it
        /\ at' = None => pc' = "end" /\ it' = Off(it)
    BY <2>1 DEF GotoIfValid, Goto, Finish, Off
  <2>4. Within(call) BY <1>1, <2>2, <2>3, WithinCall
  <2>5. CASE at' # None BY <1>4, <2>3, <2>4, <2>5, TurnReaches
  <2>6. CASE at' = None
    <3>1. innerOk' => Wanted(call) = {}
      <4>1. SUFFICES ASSUME innerOk', NEW w \in Wanted(call) PROVE FALSE OBVIOUS
      <4>2. After(at) = None BY <2>1, <2>6, <4>1 DEF Move
      <4>3. PICK e \in view : e.key = w BY <1>6
      <4>4. Precedes(at, e) BY <1>2, <1>3, <1>5, <1>6, <1>8, <4>3 DEF Precedes
      <4>5. QED BY <1>2, <4>2, <4>4, AfterIs DEF IsAfter
    <3>2. QED BY <2>2, <2>3, <2>4, <2>6, <3>1, EndsNowhere
  <2>7. QED BY <2>5, <2>6
<1>9. QED BY <1>7, <1>8

-----------------------------------------------------------------------------
(***************************************************************************)
(* Backwards: what is shown.                                               *)
(***************************************************************************)

\* A shown key below all that has been passed lies at the position or before it.
LEMMA NotPassed ==
  ASSUME Types, Faithful, NEW a \in view \cup {None}, NEW s \in Nat,
         \A f \in view : PassedFrom(a, f) => s <= f.key, NEW k \in Shown, k < s
  PROVE  a # None /\ k <= a.key
<1>1. Store(view) BY DEF Types
<1>2. PICK e \in view : e.key = k /\ Newest(e) BY ShownHas
<1>3. e.key \in Nat /\ \A f \in view : f.key \in Nat BY <1>1, EntryType DEF Store
<1>4. ~PassedFrom(a, e) BY <1>2, <1>3
<1>5. a # None /\ ~Precedes(a, e) BY <1>2, <1>4 DEF PassedFrom, Newest
<1>6. e = a \/ Precedes(e, a) BY <1>1, <1>5, Ordered
<1>7. QED BY <1>2, <1>3, <1>5, <1>6 DEF Precedes

\* PrevInternal, begun where all that was passed is of s or later, and no key
\* from s on is wanted.
LEMMA PrevFrom ==
  ASSUME NEW c, Within(c), NEW a \in view \cup {None}, at' = a, pc' = "prev",
         c.op \in Backwards, NEW s \in Nat,
         innerOk' => /\ \A f \in view : PassedFrom(a, f) => s <= f.key
                     /\ a # None => a.key < s,
         \A k \in Wanted(c) : k < s,
         opts.upper # None => s <= opts.upper,
         c.op = "seekPrev" => s <= c.key + 1,
         c.op = "prev" => s <= c.cur
  PROVE  Data'
<1>1. Store(view) /\ opts \in Options /\ Types /\ Faithful /\ CallTypes(c) BY DEF Within, Types
<1>2. ASSUME innerOk', NEW k \in Wanted(c) PROVE a # None /\ k <= a.key
  BY <1>1, <1>2, ShownTypes, NotPassed
<1>3. ASSUME innerOk', a # None
      PROVE  Below(c, a.key) /\ \A f \in view : Visible(f) /\ Precedes(a, f) => a.key < f.key
  <2>1. a.key \in Nat /\ a.key < s /\ \A f \in view : f.key \in Nat
    BY <1>1, <1>3, EntryType DEF Store
  <2>2. opts.upper # None => a.key < opts.upper
    <3>1. opts.upper # None => opts.upper \in Nat BY <1>1, CallNumbers
    <3>2. QED BY <2>1, <3>1
  <2>3. c.op = "seekPrev" => a.key <= c.key
    <3>1. c.op = "seekPrev" => c.key \in Nat BY <1>1, CallNumbers
    <3>2. QED BY <2>1, <3>1
  <2>4. c.op = "prev" => a.key < c.cur
    <3>1. c.op = "prev" => c.cur \in Nat BY <1>1, CallNumbers
    <3>2. QED BY <2>1, <3>1
  <2>5. \A f \in view : Visible(f) /\ Precedes(a, f) => a.key < f.key
    BY <1>3, <2>1 DEF PassedFrom
  <2>6. QED BY <2>2, <2>3, <2>4, <2>5 DEF Below
<1>4. QED BY <1>2, <1>3, PrevReaches

\* Where a backward seek leads: before all keys from s on.
SoughtBack(a, s) ==
  /\ \A f \in view : (a # None => Precedes(a, f)) => s <= f.key
  /\ a # None => a.key < s

\* SeekBack leads to the last entry of the keys before s.
LEMMA SeekBackUnder ==
  ASSUME Types, NEW k \in Nat, NEW n \in {0, Top}, NEW a, a = SeekBack(k, n),
         NEW s \in Nat, s = IF n = 0 THEN k + 1 ELSE k
  PROVE  SoughtBack(a, s)
<1>1. Store(view) /\ MaxSeq \in Nat BY BoundsAssumption DEF Types
<1>2. \A f \in view : f.key \in Nat /\ f.seq \in Nat /\ f.seq <= MaxSeq
  BY <1>1, EntryType DEF Store, Types
<1>3. \A f \in view : f \in UpTo(k, n) <=> f.key < s
  <2>1. CASE n = 0 BY <1>2, <2>1 DEF UpTo
  <2>2. CASE n = Top /\ n # 0 BY <1>1, <1>2, <2>2 DEF UpTo, Top
  <2>3. QED BY <2>1, <2>2
<1>4. a # None => a \in view /\ a \in UpTo(k, n) BY <1>1, SeekBackIs DEF UpTo
<1>5. ASSUME NEW f \in view, a # None => Precedes(a, f) PROVE s <= f.key
  <2>1. SUFFICES ASSUME f.key < s PROVE FALSE BY <1>2
  <2>2. f \in UpTo(k, n) BY <1>3, <2>1
  <2>3. a # None BY <1>1, <2>2, SeekBackIs
  <2>4. f = a \/ Precedes(f, a) BY <1>1, <2>2, <2>3, SeekBackIs
  <2>5. QED BY <1>2, <1>4, <1>5, <2>3, <2>4 DEF Precedes
<1>6. QED BY <1>3, <1>4, <1>5 DEF SoughtBack

\* What a seek backwards leaves the cursor with, and where it leads.
LEMMA SeekBackwardOutcome ==
  ASSUME Types, NEW k \in Keys, SeekBackward(k)
  PROVE  /\ UNCHANGED <<db, ref>> /\ it'.seq = it.seq /\ it'.sv = it.sv
         /\ at' \in view \cup {None} /\ (at' # None => innerOk')
         /\ at' # None => pc' = "prev"
         /\ at' = None => pc' = "end" /\ ~it'.valid
         /\ innerOk' => SoughtBack(at', IF AtUpper(k) THEN opts.upper ELSE k + 1)
<1>1. Store(view) /\ opts \in Options /\ k \in Nat BY NoneIs DEF Types
<1>2. PICK t \in Keys : t = IF AtUpper(k) THEN opts.upper ELSE k
  BY <1>1, OptionTypes DEF AtUpper
<1>3. PICK e : e = IF AtUpper(k) THEN SeekBack(opts.upper, Top) ELSE SeekBack(k, 0) OBVIOUS
<1>4. e \in view \cup {None} BY <1>1, <1>3, SeekBackIs DEF UpTo
<1>5. Move(e) BY <1>3 DEF SeekBackward
<1>6. PICK i : i = SoughtAt("reverse", t) OBVIOUS
<1>7. GotoIfValid("prev", NoLocals, i) BY <1>2, <1>6 DEF SeekBackward, SoughtAt
<1>8. /\ i.seq = it.seq /\ i.sv = it.sv
      /\ Off(i).seq = it.seq /\ Off(i).sv = it.sv /\ ~Off(i).valid
  BY <1>6, SoughtIs
<1>9. at' \in view \cup {None} /\ (at' # None => innerOk') /\ (innerOk' => at' = e)
  BY <1>4, <1>5, MoveIs
<1>10. /\ UNCHANGED <<db, ref>>
       /\ at' # None => pc' = "prev" /\ it' = i
       /\ at' = None => pc' = "end" /\ it' = Off(i)
  BY <1>7 DEF GotoIfValid, Goto, Finish, Off
<1>11. SoughtBack(e, IF AtUpper(k) THEN opts.upper ELSE k + 1)
  <2>1. CASE AtUpper(k)
    <3>1. opts.upper \in Nat /\ e = SeekBack(opts.upper, Top) BY <1>2, <1>3, <2>1, NoneIs
    <3>2. Top # 0 BY BoundsAssumption DEF Top
    <3>3. QED BY <2>1, <3>1, <3>2, SeekBackUnder
  <2>2. CASE ~AtUpper(k)
    <3>1. e = SeekBack(k, 0) /\ k + 1 \in Nat BY <1>1, <1>3, <2>2
    <3>2. QED BY <1>1, <2>2, <3>1, SeekBackUnder
  <2>3. QED BY <2>1, <2>2
<1>12. QED BY <1>8, <1>9, <1>10, <1>11

\* SeekForPrev begins its loop after every wanted key.
LEMMA SeekBackwardData ==
  ASSUME Types, Position, Data, NEW k \in Keys, SeekBackward(k), pc = "idle",
         NEW c, c = call', CallTypes(c), c.op \in {"last", "seekPrev"},
         c.op = "seekPrev" => c.key = k, c.op = "last" => k = opts.upper
  PROVE  Data'
<1>1. Store(view) /\ opts \in Options /\ k \in Nat BY NoneIs DEF Types
<1>2. opts.upper # None => opts.upper \in Nat BY <1>1, CallNumbers
<1>3. PICK s : s = IF AtUpper(k) THEN opts.upper ELSE k + 1 OBVIOUS
<1>4. s \in Nat /\ s <= k + 1 /\ (opts.upper # None => s <= opts.upper)
  BY <1>1, <1>2, <1>3 DEF AtUpper
<1>5. PICK a : a = at' OBVIOUS
<1>6. /\ UNCHANGED <<db, ref>> /\ it'.seq = it.seq /\ it'.sv = it.sv
      /\ a \in view \cup {None} /\ (a # None => innerOk')
      /\ a # None => pc' = "prev"
      /\ a = None => pc' = "end" /\ ~it'.valid
      /\ innerOk' => SoughtBack(a, s)
  BY <1>3, <1>5, SeekBackwardOutcome
<1>7. Within(c) BY <1>6 DEF Within, Data
<1>8. ASSUME NEW w \in Wanted(c) PROVE w < s
  <2>1. w \in Nat /\ w \in Shown BY ShownTypes
  <2>2. opts.upper # None => w < opts.upper BY <2>1 DEF Shown
  <2>3. c.op = "seekPrev" => w <= k BY DEF Wanted, Fits
  <2>4. k \in Keys /\ (c.op = "last" => opts.upper # None /\ AtUpper(k)) BY <1>1, NoneIs DEF AtUpper
  <2>5. CASE AtUpper(k)
    <3>1. opts.upper # None BY <2>5 DEF AtUpper
    <3>2. QED BY <1>3, <2>2, <2>5, <3>1
  <2>6. CASE ~AtUpper(k)
    <3>1. c.op = "seekPrev" BY <2>4, <2>6
    <3>2. w <= k /\ s = k + 1 BY <1>3, <2>3, <2>6, <3>1
    <3>3. QED BY <1>1, <2>1, <3>2
  <2>7. QED BY <2>5, <2>6
<1>9. innerOk' => /\ \A f \in view : PassedFrom(a, f) => s <= f.key
                  /\ a # None => a.key < s
  BY <1>6 DEF SoughtBack, PassedFrom
<1>10. CASE a # None
  <2>1. c.op = "seekPrev" => s <= c.key + 1 BY <1>4
  <2>2. QED BY <1>4, <1>5, <1>6, <1>7, <1>8, <1>9, <1>10, <2>1, PrevFrom DEF Backwards
<1>11. CASE a = None
  <2>1. ASSUME innerOk', NEW w \in Wanted(c) PROVE FALSE
    BY <1>4, <1>6, <1>8, <1>9, <1>11, <2>1, NotPassed, ShownTypes DEF Data
  <2>2. QED BY <1>6, <1>7, <1>11, <2>1, EndsNowhere
<1>12. QED BY <1>10, <1>11

\* So does SeekToLast,
LEMMA SeekToLastData ==
  ASSUME Types, Position, Data, SeekToLast
  PROVE  Data'
<1>1. Store(view) /\ opts \in Options /\ it \in ItTypes BY DEF Types
<1>2. PICK c : c = call' OBVIOUS
<1>3. CallTypes(c) /\ c.op = "last" /\ pc = "idle"
  BY <1>2, CallingTypes DEF SeekToLast, Backwards
<1>4. CASE opts.upper # None
  <2>1. opts.upper \in Keys BY <1>1, <1>4, OptionTypes
  <2>2. SeekBackward(opts.upper) BY <1>4 DEF SeekToLast
  <2>3. QED BY <1>2, <1>3, <2>1, <2>2, SeekBackwardData
<1>5. CASE opts.upper = None
  <2>1. Move(LastOf(view)) /\ Goto("prev", NoLocals, [Sought EXCEPT !.dir = "reverse"])
    BY <1>5 DEF SeekToLast
  <2>2. LastOf(view) \in view \cup {None} BY <1>1, SomeLast
  <2>3. PICK a : a = at' OBVIOUS
  <2>4. a \in view \cup {None} /\ (innerOk' => a = LastOf(view)) BY <2>1, <2>2, <2>3, MoveIs
  <2>5. PICK i : i = [Sought EXCEPT !.dir = "reverse"] OBVIOUS
  <2>6. i.seq = it.seq /\ i.sv = it.sv BY <1>1, <2>5 DEF Sought, ItTypes
  <2>7. UNCHANGED <<db, ref>> /\ pc' = "prev" /\ it' = i BY <2>1, <2>5 DEF Goto
  <2>8. Within(c) BY <1>2, <1>3, <2>6, <2>7 DEF Within, Data
  <2>9. ASSUME innerOk', NEW w \in Wanted(c) PROVE a # None /\ w <= a.key
    <3>1. PICK e \in view : e.key = w BY ShownTypes, ShownHas DEF Data
    <3>2. a # None /\ (e = a \/ Precedes(e, a)) BY <1>1, <2>4, <2>9, <3>1, SomeLast
    <3>3. a.key \in Nat /\ e.key \in Nat BY <1>1, <2>4, <3>1, <3>2, EntryType DEF Store
    <3>4. QED BY <3>1, <3>2, <3>3 DEF Precedes
  <2>10. ASSUME innerOk', a # None, NEW f \in view PROVE ~Precedes(a, f)
    <3>1. f = a \/ Precedes(f, a) BY <1>1, <2>4, <2>10, SomeLast
    <3>2. a \in view /\ f.key \in Nat /\ a.key \in Nat /\ a.seq \in Nat /\ f.seq \in Nat
      BY <1>1, <2>4, <2>10, EntryType DEF Store
    <3>3. QED BY <3>1, <3>2 DEF Precedes
  <2>11. Below(c, a.key) BY <1>3, <1>5 DEF Below
  <2>12. QED BY <1>3, <2>3, <2>7, <2>8, <2>9, <2>10, <2>11, PrevReaches DEF Backwards
<1>6. QED BY <1>4, <1>5

\* and Prev, which leaves the current key first when it turns.
LEMMA PrevStepData ==
  ASSUME Types, Position, Data, Prev1
  PROVE  Data'
<1>1. PICK c : c = call' OBVIOUS
<1>2. it.valid /\ UNCHANGED inner BY DEF Prev1
<1>3. CallTypes(c) /\ c.op = "prev" /\ pc = "idle" /\ c.cur = it.saved
  BY <1>1, <1>2, CallingTypes DEF Prev1, Backwards
<1>4. it \in ItTypes /\ at \in view \cup {None} /\ opts \in Options BY DEF Types
<1>5. /\ it.saved \in Nat
      /\ opts.upper # None => it.saved < opts.upper
  BY <1>2, <1>3, IdleFacts
<1>6. \A w \in Wanted(c) : w \in Nat /\ w < it.saved BY <1>3, ShownTypes DEF Wanted, Fits
<1>7. CASE it.dir = "forward"
  <2> DEFINE l == [NoLocals EXCEPT !.from = "turn"]
             i == [it EXCEPT !.work = 0, !.dir = "reverse"]
  <2>1. l.from = "turn" BY DEF NoLocals
  <2>2. i.seq = it.seq /\ i.sv = it.sv /\ i.saved = it.saved BY <1>4 DEF ItTypes
  <2>3. UNCHANGED <<db, ref>> /\ pc' = "back" /\ loc' = l /\ it' = i
    BY <1>7 DEF Prev1, Goto
  <2> HIDE DEF l, i
  <2>4. Within(c) BY <1>1, <1>3, <2>2, <2>3 DEF Within, Data
  <2>5. c.cur \in Nat /\ it'.saved <= c.cur BY <1>3, <1>5, <2>2, <2>3
  <2>6. \A w \in Wanted(c) : w <= it'.saved /\ w < it'.saved BY <1>5, <1>6, <2>2, <2>3
  <2>7. QED BY <1>3, <1>5, <2>1, <2>2, <2>3, <2>4, <2>5, <2>6, BackReaches DEF Backwards
<1>8. CASE it.dir # "forward"
  <2> DEFINE i == [it EXCEPT !.work = 0]
  <2>1. i.seq = it.seq /\ i.sv = it.sv BY <1>4 DEF ItTypes
  <2>2. UNCHANGED <<db, ref>> /\ pc' = "prev" /\ it' = i BY <1>8 DEF Prev1, Goto
  <2> HIDE DEF i
  <2>3. Within(c) BY <1>1, <1>3, <2>1, <2>2 DEF Within, Data
  <2>4. /\ at # None => at.key < it.saved
        /\ \A f \in view : PassedFrom(at, f) => it.saved <= f.key
    BY <1>2, <1>3, <1>8, StandFacts DEF Passed, PassedFrom
  <2>5. opts.upper # None => it.saved <= opts.upper
    <3>1. opts.upper # None => opts.upper \in Nat BY <1>3, <1>4, CallNumbers
    <3>2. QED BY <1>5, <3>1
  <2>6. it.saved <= c.cur BY <1>3, <1>5
  <2>7. at' = at BY <1>2 DEF inner
  <2>8. QED
    BY <1>3, <1>4, <1>5, <1>6, <2>2, <2>3, <2>4, <2>5, <2>6, <2>7, PrevFrom DEF Backwards
<1>9. QED BY <1>7, <1>8

\* What a loop backwards knows of its call.
LEMMA BackCall ==
  ASSUME Types, Position, Data, pc \in {"prev", "value", "back"}
  PROVE  /\ CallTypes(call) /\ call.op \in Backwards /\ pc \notin {"new", "idle", "find"}
         /\ at \in view \cup {None} /\ (at # None => innerOk)
         /\ it \in ItTypes /\ opts \in Options /\ Store(view) /\ Faithful
         /\ \A f \in view : f.key \in Nat /\ f.seq \in Nat
<1>1. CallTypes(call) /\ call.op \in Backwards /\ Faithful BY DEF Data, CallOK
<1>2. Store(view) /\ \A f \in view : f.key \in Nat /\ f.seq \in Nat
  BY EntryType DEF Types, Store
<1>3. QED BY <1>1, <1>2 DEF Types, Position, Steady

\* PrevInternal keeps the data: the key it takes is the last one that may be wanted.
LEMMA PrevKeyData ==
  ASSUME Types, Position, Data, PrevKey
  PROVE  Data'
<1>1. pc = "prev" /\ at' = at /\ innerOk' = innerOk /\ UNCHANGED call
  BY DEF PrevKey, inner
<1>2. /\ call.op \in Backwards /\ at \in view \cup {None} /\ (at # None => innerOk)
      /\ it \in ItTypes /\ opts \in Options /\ CallTypes(call)
      /\ \A f \in view : f.key \in Nat /\ f.seq \in Nat
  BY <1>1, BackCall
<1>3. innerOk => IF at = None THEN Wanted(call) = {}
                 ELSE /\ \A k \in Wanted(call) : k <= at.key
                      /\ Below(call, at.key)
                      /\ \A f \in view : Visible(f) /\ Precedes(at, f) => at.key < f.key
  BY <1>1 DEF Data, PrevData
<1>4. CASE at = None
  <2> DEFINE i == [it EXCEPT !.valid = FALSE]
  <2>1. i.seq = it.seq /\ i.sv = it.sv /\ ~i.valid BY <1>2 DEF ItTypes
  <2>2. UNCHANGED <<db, ref>> /\ pc' = "end" /\ it' = i BY <1>4 DEF PrevKey, Finish, Goto
  <2> HIDE DEF i
  <2>3. Within(call) BY <1>1, <2>1, <2>2, WithinCall
  <2>4. QED BY <1>1, <1>3, <1>4, <2>1, <2>2, <2>3, EndsNowhere
<1>5. CASE at # None
  <2>1. at \in view /\ at.key \in Nat /\ innerOk BY <1>2, <1>5
  <2>2. CASE BelowLower(at.key)
    <3> DEFINE i == [it EXCEPT !.valid = FALSE, !.saved = at.key]
    <3>1. i.seq = it.seq /\ i.sv = it.sv /\ ~i.valid BY <1>2 DEF ItTypes
    <3>2. UNCHANGED <<db, ref>> /\ pc' = "end" /\ it' = i
      BY <1>5, <2>2 DEF PrevKey, Finish, Goto
    <3> HIDE DEF i
    <3>3. Within(call) BY <1>1, <3>1, <3>2, WithinCall
    <3>4. ASSUME NEW k \in Wanted(call) PROVE FALSE
      <4>1. k \in Shown /\ k \in Nat BY ShownTypes
      <4>2. opts.lower # None /\ opts.lower \in Nat /\ at.key < opts.lower
        BY <1>2, <2>2, CallNumbers DEF BelowLower
      <4>3. opts.lower <= k BY <4>1, <4>2 DEF Shown
      <4>4. k <= at.key BY <1>3, <1>5, <2>1
      <4>5. QED BY <2>1, <4>1, <4>2, <4>3, <4>4
    <3>5. QED BY <3>1, <3>2, <3>3, <3>4, EndsNowhere
  <2>3. CASE ~BelowLower(at.key)
    <3> DEFINE i == [it EXCEPT !.saved = at.key]
    <3>1. i.seq = it.seq /\ i.sv = it.sv /\ i.saved = at.key BY <1>2 DEF ItTypes
    <3>2. UNCHANGED <<db, ref>> /\ pc' = "value" /\ loc' = NoLocals /\ it' = i
      BY <1>5, <2>3 DEF PrevKey, Goto
    <3> HIDE DEF i
    <3>3. Within(call) BY <1>1, <3>1, <3>2, WithinCall
    <3>4. \A g \in view : PassedFrom(at, g) => g.key # at.key
      <4>1. ASSUME NEW g \in view, PassedFrom(at, g) PROVE g.key # at.key
        <5>1. at.key < g.key BY <1>3, <1>5, <2>1, <4>1 DEF PassedFrom
        <5>2. QED BY <1>2, <2>1, <5>1
      <4>2. QED BY <4>1
    <3>5. ~loc'.found BY <3>2 DEF NoLocals
    <3>6. Below(call, it'.saved) /\ ~BelowLower(it'.saved) /\ \A k \in Wanted(call) : k <= it'.saved
      BY <1>3, <1>5, <2>1, <2>3, <3>1, <3>2
    <3>7. \A g \in view : PassedFrom(at, g) => g.key # it'.saved BY <3>1, <3>2, <3>4
    <3>8. QED BY <1>1, <1>2, <3>2, <3>3, <3>5, <3>6, <3>7, ValueReaches
  <2>4. QED BY <2>2, <2>3
<1>6. QED BY <1>4, <1>5

\* What is known of key s once its newest version is.
LEMMA KnownValue ==
  ASSUME Types, Faithful, NEW c, CallTypes(c), c.op \in Backwards, NEW s, Below(c, s),
         ~BelowLower(s), \A k \in Wanted(c) : k <= s,
         NEW g, Newest(g), g.key = s, NEW found, found <=> Live(g),
         NEW p, found => p = g.val
  PROVE  IF found THEN s \in Wanted(c) /\ p = ValueAt(it.seq, s)
         ELSE \A k \in Wanted(c) : k < s
<1>1. opts \in Options BY DEF Types
<1>2. /\ s \in Keys /\ s \in Nat
      /\ Live(g) => ValueAt(it.seq, s) = g.val /\ g.val # 0
      /\ ~Live(g) => s \notin Shown
  BY NewestShown, NoneIs
<1>3. CASE found
  <2>1. p = ValueAt(it.seq, s) /\ ValueAt(it.seq, s) # 0 BY <1>2, <1>3
  <2>2. opts.lower # None => opts.lower <= s
    <3>1. opts.lower # None => opts.lower \in Nat BY <1>1, CallNumbers
    <3>2. QED BY <1>2, <3>1 DEF BelowLower
  <2>3. s \in Shown BY <1>2, <2>1, <2>2 DEF Shown, Below
  <2>4. Fits(c, s) BY DEF Fits, Below, Backwards
  <2>5. QED BY <1>3, <2>1, <2>3, <2>4 DEF Wanted
<1>4. CASE ~found
  <2>1. \A k \in Wanted(c) : k \in Nat /\ k \in Shown BY ShownTypes
  <2>2. s \notin Shown BY <1>2, <1>4
  <2>3. \A k \in Wanted(c) : k < s BY <1>2, <2>1, <2>2
  <2>4. QED BY <1>4, <2>3
<1>5. QED BY <1>3, <1>4

\* A key with a version the iterator can see has a newest one.
LEMMA HasNewest ==
  ASSUME Types, NEW e \in view, Visible(e)
  PROVE  \E g \in view : g.key = e.key /\ Newest(g)
<1> DEFINE E == {f \in view : f.key = e.key /\ Visible(f)}
<1>1. Store(view) BY DEF Types
<1>2. Store(E) /\ E # {} BY <1>1, StorePart
<1>3. PICK g \in E : \A f \in E : f = g \/ Precedes(g, f) BY <1>2, FirstIs
<1>4. \A f \in view : f.key \in Nat /\ f.seq \in Nat BY <1>1, EntryType DEF Store
<1>5. \A f \in view : Visible(f) /\ f.key = g.key => f.seq <= g.seq BY <1>3, <1>4 DEF Precedes
<1>6. QED BY <1>3, <1>5 DEF Newest

\* The value FindValueForCurrentKey has found is the key's.
LEMMA ValueKnownData ==
  ASSUME Types, Position, Data, ValueKnown
  PROVE  Data'
<1>1. /\ pc = "value" /\ at' = at /\ innerOk' = innerOk /\ UNCHANGED call /\ ~OfCurrentKey
  BY DEF ValueKnown, inner
<1>2. /\ CallTypes(call) /\ call.op \in Backwards
      /\ at \in view \cup {None} /\ (at # None => innerOk)
      /\ it \in ItTypes /\ opts \in Options /\ Store(view) /\ Faithful
      /\ \A f \in view : f.key \in Nat /\ f.seq \in Nat
  BY <1>1, BackCall
<1>3. it.saved \in Nat /\ (at # None => at.key <= it.saved) /\ loc.found \in BOOLEAN
  BY <1>1, BackFacts DEF LocTypes
<1>4. ValueData BY DEF Data
<1>5. CASE ~innerOk
  <2> DEFINE i == [it EXCEPT !.valid = FALSE]
  <2>1. i.seq = it.seq /\ i.sv = it.sv /\ ~i.valid BY <1>2 DEF ItTypes
  <2>2. UNCHANGED <<db, ref>> /\ pc' = "end" /\ it' = i BY <1>5 DEF ValueKnown, Finish, Goto
  <2> HIDE DEF i
  <2>3. Within(call) BY <1>1, <2>1, <2>2, WithinCall
  <2>4. QED BY <1>1, <1>5, <2>1, <2>2, <2>3, EndsNowhere
<1>6. CASE innerOk
  <2> DEFINE l == [NoLocals EXCEPT !.from = "prev"]
             i == [it EXCEPT !.valid = loc.found]
  <2>1. l.from = "prev" BY DEF NoLocals
  <2>2. /\ i.seq = it.seq /\ i.sv = it.sv /\ i.valid = loc.found /\ i.saved = it.saved
        /\ i.pinned = it.pinned
    BY <1>2 DEF ItTypes
  <2>3. UNCHANGED <<db, ref>> /\ pc' = "back" /\ loc' = l /\ it' = i
    BY <1>6 DEF ValueKnown, Goto
  <2> HIDE DEF l, i
  <2>4. Within(call) BY <1>1, <2>2, <2>3, WithinCall
  <2>5. \A f \in view : Visible(f) /\ f.key = it.saved => Passed(f)
    <3>1. ASSUME NEW f \in view, Visible(f), f.key = it.saved, at # None PROVE Precedes(at, f)
      <4>1. at \in view /\ at.key \in Nat /\ at.seq \in Nat /\ it.seq \in Nat
        BY <1>2, <3>1 DEF ItTypes
      <4>2. CASE at.key < it.saved BY <3>1, <4>2 DEF Precedes
      <4>3. CASE at.key = it.saved
        <5>1. ~Visible(at) BY <1>1, <3>1, <4>3 DEF OfCurrentKey
        <5>2. f.seq < at.seq BY <1>2, <3>1, <4>1, <5>1 DEF Visible
        <5>3. QED BY <3>1, <4>3, <5>2 DEF Precedes
      <4>4. QED BY <1>3, <3>1, <4>1, <4>2, <4>3
    <3>2. QED BY <3>1 DEF Passed
  <2>6. Below(call, it.saved) /\ ~BelowLower(it.saved) /\ \A k \in Wanted(call) : k <= it.saved
    BY <1>1, <1>4 DEF ValueData
  <2>7. IF loc.found THEN it.saved \in Wanted(call) /\ it.pinned = ValueAt(it.seq, it.saved)
        ELSE \A k \in Wanted(call) : k < it.saved
    <3>1. CASE \E e \in view : Visible(e) /\ e.key = it.saved
      <4>1. PICK g \in view : g.key = it.saved /\ Newest(g) BY <3>1, HasNewest
      <4>2. Passed(g) /\ \A f \in view : Passed(f) /\ f.key = it.saved => f.seq <= g.seq
        BY <2>5, <4>1 DEF Newest, Passed
      <4>3. (loc.found <=> Live(g)) /\ (Live(g) => it.pinned = g.val)
        BY <1>1, <1>4, <1>6, <4>1, <4>2 DEF ValueData
      <4>4. QED BY <1>2, <2>6, <4>1, <4>3, KnownValue
    <3>2. CASE ~ \E e \in view : Visible(e) /\ e.key = it.saved
      <4>1. ~loc.found BY <1>1, <1>4, <1>6, <3>2 DEF ValueData, Passed
      <4>2. ASSUME NEW k \in Wanted(call) PROVE k < it.saved
        <5>1. k \in Shown /\ k \in Nat BY ShownTypes
        <5>2. k # it.saved BY <1>2, <3>2, <5>1, ShownHas DEF Newest
        <5>3. QED BY <1>3, <2>6, <5>1, <5>2
      <4>3. QED BY <4>1, <4>2
    <3>3. QED BY <3>1, <3>2
  <2>8. /\ opts.upper # None => it'.saved < opts.upper
        /\ call.op = "seekPrev" => it'.saved <= call.key
        /\ call.op = "prev" => it'.saved <= call.cur
    <3>1. call.op = "prev" => call.cur \in Nat BY <1>2, CallNumbers
    <3>2. call.op = "prev" => it.saved <= call.cur BY <1>3, <2>6, <3>1 DEF Below
    <3>3. QED BY <2>2, <2>3, <2>6, <3>2 DEF Below
  <2>9. \A k \in Wanted(call) : k <= it'.saved BY <2>2, <2>3, <2>6
  <2>10. IF loc'.from # "turn" /\ it'.valid
         THEN it'.saved \in Wanted(call) /\ it'.pinned = ValueAt(it.seq, it'.saved)
         ELSE \A k \in Wanted(call) : k < it'.saved
    BY <2>1, <2>2, <2>3, <2>7
  <2>11. QED BY <1>2, <2>3, <2>4, <2>8, <2>9, <2>10, BackReaches
<1>7. QED BY <1>5, <1>6

\* The versions it passes get newer, and the last one passed decides.
LEMMA ValueOlderData ==
  ASSUME Types, Position, Data, ValueOlder
  PROVE  Data'
<1>1. /\ pc = "value" /\ at # None /\ at.key = it.saved /\ Visible(at) /\ UNCHANGED call
      /\ Move(Before(at))
  BY DEF ValueOlder, OfCurrentKey
<1>2. /\ CallTypes(call) /\ call.op \in Backwards
      /\ at \in view \cup {None} /\ it \in ItTypes /\ Store(view) /\ Faithful
      /\ \A f \in view : f.key \in Nat /\ f.seq \in Nat
  BY <1>1, BackCall
<1>3. at \in view /\ at.val \in Nat /\ loc \in LocTypes
  BY <1>1, <1>2, EntryType DEF Store, Types
<1>4. IsBefore(at, Before(at)) /\ Before(at) \in view \cup {None}
  BY <1>2, <1>3, BeforeIs DEF IsBefore
<1>5. PICK e : e = at' OBVIOUS
<1>6. innerOk' => e = Before(at) BY <1>1, <1>4, <1>5, MoveIs
<1> DEFINE w == Worked(it)
           i == [w EXCEPT !.pinned = IF Live(at) THEN at.val ELSE @]
           l == [loc EXCEPT !.found = Live(at), !.n = @ + 1]
<1>7. w \in ItTypes /\ w.seq = it.seq /\ w.sv = it.sv /\ w.saved = it.saved BY WorkedIs
<1>8. UNCHANGED <<db, ref>> /\ pc' = "value" /\ loc' = l /\ it' = i BY DEF ValueOlder, Goto
<1>9. l.found <=> Live(at)
  <2>1. PICK b \in BOOLEAN : b = Live(at) BY DEF Live
  <2>2. l = [loc EXCEPT !.found = b, !.n = @ + 1] BY <2>1
  <2> HIDE DEF l
  <2>3. l.found = b BY <1>3, <2>2 DEF LocTypes
  <2>4. QED BY <2>1, <2>3
<1> HIDE DEF w, l
<1>10. i.seq = it.seq /\ i.sv = it.sv /\ i.saved = it.saved /\ (Live(at) => i.pinned = at.val)
  BY <1>7 DEF ItTypes
<1> HIDE DEF i
<1>11. Within(call) BY <1>1, <1>8, <1>10, WithinCall
<1>12. Below(call, it'.saved) /\ ~BelowLower(it'.saved) /\ \A k \in Wanted(call) : k <= it'.saved
  BY <1>1, <1>8, <1>10 DEF Data, ValueData
<1>13. ASSUME innerOk' PROVE PassedFrom(e, at)
  BY <1>1, <1>4, <1>6, <1>13 DEF PassedFrom, IsBefore
<1>14. ASSUME innerOk', NEW g \in view, PassedFrom(e, g), g.key = it'.saved,
              \A f \in view : PassedFrom(e, f) /\ f.key = it'.saved => f.seq <= g.seq
       PROVE  g = at
  <2>1. it'.saved = at.key BY <1>1, <1>8, <1>10
  <2>2. at.seq <= g.seq BY <1>3, <1>13, <1>14, <2>1
  <2>3. ~Precedes(g, at)
    <3>1. ASSUME Precedes(g, at) PROVE FALSE
      <4>1. e # None BY <1>4, <1>6, <1>14, <3>1 DEF IsBefore
      <4>2. e \in view /\ Precedes(e, g) BY <1>4, <1>6, <1>14, <4>1 DEF IsBefore, PassedFrom
      <4>3. g = e \/ Precedes(g, e) BY <1>4, <1>6, <1>14, <3>1, <4>1 DEF IsBefore
      <4>4. QED BY <1>2, <4>2, <4>3 DEF Precedes
    <3>2. QED BY <3>1
  <2>4. g = at \/ Precedes(at, g) BY <1>2, <1>3, <2>3, Ordered
  <2>5. ~Precedes(at, g) BY <1>2, <1>3, <1>14, <2>1, <2>2 DEF Precedes
  <2>6. QED BY <2>4, <2>5
<1>15. innerOk' => \A g \in view :
         /\ PassedFrom(e, g) /\ g.key = it'.saved
         /\ \A f \in view : PassedFrom(e, f) /\ f.key = it'.saved => f.seq <= g.seq
         => (loc'.found <=> Live(g)) /\ (Live(g) => it'.pinned = g.val)
  BY <1>8, <1>9, <1>10, <1>14
<1>16. innerOk' => ((\A g \in view : PassedFrom(e, g) => g.key # it'.saved) => ~loc'.found)
  <2>1. it'.saved = at.key BY <1>1, <1>8, <1>10
  <2>2. QED BY <1>3, <1>13, <2>1
<1>17. QED BY <1>2, <1>5, <1>8, <1>11, <1>12, <1>15, <1>16, ValueReaches

\* The key's newest version, sought from the front.
LEMMA SeekFindsNewest ==
  ASSUME Types, NEW a \in view, Visible(a), NEW e, e = SeekTo(a.key, it.seq)
  PROVE  e # None /\ e.key = a.key /\ Newest(e)
<1>1. Store(view) /\ it.seq \in Nat BY DEF Types, ItTypes
<1>2. \A f \in view : f.key \in Nat /\ f.seq \in Nat BY <1>1, EntryType DEF Store
<1>3. a \in From(a.key, it.seq) BY DEF From, Visible
<1>4. e # None /\ e \in From(a.key, it.seq)
      /\ \A f \in From(a.key, it.seq) : f = e \/ Precedes(e, f)
  BY <1>1, <1>3, SeekToIs
<1>5. e \in view /\ e.key = a.key /\ e.seq <= it.seq
  <2>1. e \in view /\ (e.key > a.key \/ (e.key = a.key /\ e.seq <= it.seq)) BY <1>4 DEF From
  <2>2. a = e \/ Precedes(e, a) BY <1>3, <1>4
  <2>3. e.key <= a.key BY <1>2, <2>1, <2>2 DEF Precedes
  <2>4. QED BY <1>2, <2>1, <2>3
<1>6. ASSUME NEW f \in view, Visible(f), f.key = e.key PROVE f.seq <= e.seq
  <2>1. f \in From(a.key, it.seq) BY <1>5, <1>6 DEF From, Visible
  <2>2. f = e \/ Precedes(e, f) BY <1>4, <2>1
  <2>3. QED BY <1>2, <1>5, <1>6, <2>2 DEF Precedes
<1>7. QED BY <1>4, <1>5, <1>6 DEF Newest, Visible

\* The one it seeks is the newest.
LEMMA ValueBySeekData ==
  ASSUME Types, Position, Data, ValueBySeek
  PROVE  Data'
<1>1. /\ pc = "value" /\ at # None /\ at.key = it.saved /\ Visible(at) /\ UNCHANGED call
      /\ Move(SeekTo(it.saved, it.seq))
  BY DEF ValueBySeek, OfCurrentKey
<1>2. /\ CallTypes(call) /\ call.op \in Backwards
      /\ at \in view \cup {None} /\ it \in ItTypes /\ Store(view) /\ Faithful
      /\ opts \in Options
  BY <1>1, BackCall
<1>3. at \in view /\ it.saved \in Nat BY <1>1, <1>2, BackFacts
<1>4. PICK e : e = SeekTo(it.saved, it.seq) OBVIOUS
<1>5. e # None /\ e.key = it.saved /\ Newest(e) BY <1>1, <1>3, <1>4, SeekFindsNewest
<1>6. e \in view /\ e.val \in Nat BY <1>2, <1>5, EntryType DEF Newest, Store
<1>7. (at' # None => at' = e) /\ (innerOk' => at' = e) BY <1>1, <1>4, <1>6, MoveIs
<1> DEFINE w == Worked(it)
<1>8. w \in ItTypes /\ w.seq = it.seq /\ w.sv = it.sv /\ w.saved = it.saved BY WorkedIs
<1>9. CASE at' = None
  <2> DEFINE i == [w EXCEPT !.valid = FALSE]
  <2>1. UNCHANGED <<db, ref>> /\ pc' = "end" /\ it' = i
    BY <1>9 DEF ValueBySeek, Finish, Goto
  <2> HIDE DEF w
  <2>2. i.seq = it.seq /\ i.sv = it.sv /\ ~i.valid BY <1>8 DEF ItTypes
  <2> HIDE DEF i
  <2>3. Within(call) BY <1>1, <2>1, <2>2, WithinCall
  <2>4. ~innerOk' BY <1>5, <1>7, <1>9
  <2>5. QED BY <2>1, <2>2, <2>3, <2>4, EndsNowhere
<1>10. CASE at' # None
  <2> DEFINE found == e.key = it.saved /\ Live(e)
             i == [w EXCEPT !.valid = found, !.pinned = IF found THEN e.val ELSE @]
             l == [NoLocals EXCEPT !.from = "prev"]
  <2>1. at' = e BY <1>7, <1>10
  <2>2. UNCHANGED <<db, ref>> /\ pc' = "back" /\ loc' = l /\ it' = i
    BY <1>10, <2>1 DEF ValueBySeek, Goto, Live, ShouldDelete, ref
  <2>3. l.from = "prev" BY DEF NoLocals
  <2>4. found \in BOOLEAN /\ (found <=> Live(e)) BY <1>5 DEF Live
  <2> HIDE DEF w, l, found
  <2>5. /\ i.seq = it.seq /\ i.sv = it.sv /\ i.saved = it.saved /\ i.valid = found
        /\ found => i.pinned = e.val
    BY <1>6, <1>8, <2>4 DEF ItTypes
  <2> HIDE DEF i
  <2>6. Within(call) BY <1>1, <2>2, <2>5, WithinCall
  <2>7. Below(call, it.saved) /\ ~BelowLower(it.saved) /\ \A k \in Wanted(call) : k <= it.saved
    BY <1>1 DEF Data, ValueData
  <2>8. IF found THEN it.saved \in Wanted(call) /\ i.pinned = ValueAt(it.seq, it.saved)
        ELSE \A k \in Wanted(call) : k < it.saved
    BY <1>2, <1>5, <2>4, <2>5, <2>7, KnownValue
  <2>9. /\ opts.upper # None => it'.saved < opts.upper
        /\ call.op = "seekPrev" => it'.saved <= call.key
        /\ call.op = "prev" => it'.saved <= call.cur
    <3>1. call.op = "prev" => call.cur \in Nat BY <1>2, CallNumbers
    <3>2. call.op = "prev" => it.saved <= call.cur BY <1>3, <2>7, <3>1 DEF Below
    <3>3. QED BY <2>2, <2>5, <2>7, <3>2 DEF Below
  <2>10. \A k \in Wanted(call) : k <= it'.saved BY <2>2, <2>5, <2>7
  <2>11. IF loc'.from # "turn" /\ it'.valid
         THEN it'.saved \in Wanted(call) /\ it'.pinned = ValueAt(it.seq, it'.saved)
         ELSE \A k \in Wanted(call) : k < it'.saved
    BY <2>2, <2>3, <2>5, <2>8
  <2>12. QED BY <1>2, <2>2, <2>6, <2>9, <2>10, <2>11, BackReaches
<1>11. QED BY <1>9, <1>10

\* FindUserKeyBeforeSavedKey ends before every version of the key.
LEMMA BackDoneData ==
  ASSUME Types, Position, Data, BackDone
  PROVE  Data'
<1>1. /\ pc = "back" /\ at' = at /\ innerOk' = innerOk /\ UNCHANGED call
      /\ at # None => at.key < it.saved
  BY DEF BackDone, inner
<1>2. /\ CallTypes(call) /\ call.op \in Backwards
      /\ at \in view \cup {None} /\ it \in ItTypes /\ opts \in Options
  BY <1>1, BackCall
<1>3. /\ it.dir = "reverse" /\ it.saved \in Nat
      /\ innerOk => \A f \in view : Passed(f) => it.saved <= f.key
  BY <1>1, BackFacts
<1>4. BackData BY DEF Data
<1> DEFINE off == [it EXCEPT !.valid = FALSE]
           inc == Incomplete(it)
<1>5. off.seq = it.seq /\ off.sv = it.sv /\ ~off.valid BY <1>2 DEF ItTypes
<1>6. inc.seq = it.seq /\ inc.sv = it.sv /\ ~inc.valid /\ ~inc.ok
  BY <1>2 DEF ItTypes, Incomplete
<1>7. UNCHANGED <<db, ref>> BY DEF BackDone, Finish, Goto
<1>8. \/ ~innerOk /\ pc' = "end" /\ it' = off
      \/ (loc.from = "turn" \/ ~it.valid) /\ pc' = "prev" /\ it' = it
      \/ loc.from # "turn" /\ it.valid /\ pc' = "end" /\ it' = it
      \/ pc' = "end" /\ it' = inc
  BY DEF BackDone, Finish, Goto
<1> HIDE DEF off, inc
<1>9. CASE ~innerOk /\ pc' = "end" /\ it' = off
  <2>1. Within(call) BY <1>1, <1>5, <1>7, <1>9, WithinCall
  <2>2. QED BY <1>1, <1>5, <1>9, <2>1, EndsNowhere
<1>10. CASE (loc.from = "turn" \/ ~it.valid) /\ pc' = "prev" /\ it' = it
  <2>1. Within(call) BY <1>1, <1>7, <1>10, WithinCall
  <2>2. innerOk' => /\ \A f \in view : PassedFrom(at, f) => it.saved <= f.key
                    /\ at # None => at.key < it.saved
    BY <1>1, <1>3 DEF PassedFrom, Passed
  <2>3. /\ opts.upper # None => it.saved < opts.upper
        /\ call.op = "seekPrev" => it.saved <= call.key
        /\ call.op = "prev" => it.saved <= call.cur
        /\ \A k \in Wanted(call) : k < it.saved
    BY <1>1, <1>4, <1>10 DEF BackData
  <2>4. /\ opts.upper # None => it.saved <= opts.upper
        /\ call.op = "seekPrev" => it.saved <= call.key + 1
    <3>1. opts.upper # None => opts.upper \in Nat BY <1>2, CallNumbers
    <3>2. call.op = "seekPrev" => call.key \in Nat BY <1>2, CallNumbers
    <3>3. opts.upper # None => it.saved <= opts.upper BY <1>3, <2>3, <3>1
    <3>4. call.op = "seekPrev" => it.saved <= call.key + 1 BY <1>3, <2>3, <3>2
    <3>5. QED BY <3>3, <3>4
  <2>5. QED BY <1>1, <1>2, <1>3, <1>10, <2>1, <2>2, <2>3, <2>4, PrevFrom
<1>11. CASE loc.from # "turn" /\ it.valid /\ pc' = "end" /\ it' = it
  <2>1. Within(call) BY <1>1, <1>7, <1>11, WithinCall
  <2>2. it.saved \in Wanted(call) /\ it.pinned = ValueAt(it.seq, it.saved)
        /\ \A k \in Wanted(call) : k <= it.saved
    BY <1>1, <1>4, <1>11 DEF BackData
  <2>3. call.op \notin Forwards BY <1>2 DEF Forwards, Backwards
  <2>4. QED BY <1>3, <1>11, <2>1, <2>2, <2>3, EndsAt
<1>12. CASE pc' = "end" /\ it' = inc
  <2>1. Within(call) BY <1>1, <1>6, <1>7, <1>12, WithinCall
  <2>2. QED BY <1>6, <1>12, <2>1, EndsNowhere
<1>13. QED BY <1>8, <1>9, <1>10, <1>11, <1>12

\* It keeps the data as it goes.
LEMMA BackStepsData ==
  ASSUME Types, Position, Data, BackSteps
  PROVE  Data'
<1>1. pc = "back" /\ UNCHANGED call BY DEF BackSteps
<1>2. CallTypes(call) /\ call.op \in Backwards BY <1>1, BackCall
<1>3. BackData /\ loc \in LocTypes BY DEF Data, Types
<1> DEFINE w == Worked(it)
<1>4. /\ w.seq = it.seq /\ w.sv = it.sv /\ w.saved = it.saved /\ w.valid = it.valid
      /\ w.pinned = it.pinned
  BY WorkedIs
<1>5. UNCHANGED <<db, ref>> /\ pc' = "back" /\ it' = w BY DEF BackSteps, Goto
<1> HIDE DEF w
<1>6. loc'.from = loc.from
  <2>1. loc' = [loc EXCEPT !.n = 0] \/ loc' = [loc EXCEPT !.n = loc.n + 1]
    BY DEF BackSteps, Goto
  <2>2. QED BY <1>3, <2>1 DEF LocTypes
<1>7. Within(call) BY <1>1, <1>4, <1>5, WithinCall
<1>8. PICK s : s = it.saved OBVIOUS
<1>9. it'.saved = s /\ it'.valid = it.valid /\ it'.pinned = it.pinned BY <1>4, <1>5, <1>8
<1>10. /\ opts.upper # None => s < opts.upper
       /\ call.op = "seekPrev" => s <= call.key
       /\ call.op = "prev" => s <= call.cur
       /\ \A k \in Wanted(call) : k <= s
       /\ IF loc.from # "turn" /\ it.valid
          THEN s \in Wanted(call) /\ it.pinned = ValueAt(it.seq, s)
          ELSE \A k \in Wanted(call) : k < s
  BY <1>1, <1>3, <1>8 DEF BackData
<1>11. QED BY <1>2, <1>5, <1>6, <1>7, <1>9, <1>10, BackReaches

\* The limit fails the call.
LEMMA GiveUpData ==
  ASSUME Types, Position, Data, GiveUp
  PROVE  Data'
<1>1. pc \in {"value", "back"} /\ UNCHANGED call BY DEF GiveUp
<1>2. it \in ItTypes BY DEF Types
<1> DEFINE i == Incomplete(it)
<1>3. i.seq = it.seq /\ i.sv = it.sv /\ ~i.valid /\ ~i.ok BY <1>2 DEF ItTypes, Incomplete
<1>4. UNCHANGED <<db, ref>> /\ pc' = "end" /\ it' = i BY DEF GiveUp, Finish, Goto
<1> HIDE DEF i
<1>5. Within(call) BY <1>1, <1>3, <1>4, WithinCall
<1>6. QED BY <1>3, <1>4, <1>5, EndsNowhere

-----------------------------------------------------------------------------
(***************************************************************************)
(* What happens to the data between the calls and under them.              *)
(***************************************************************************)

\* The last of some writes.
LastWrite(S) == CHOOSE i \in S : \A j \in S : j <= i

\* ValueAt by the last write, now and in the next state.
LEMMA ValueIs ==
  ASSUME NEW n, NEW k
  PROVE  /\ ValueAt(n, k) = IF Wrote(n, k) = {} THEN 0
                            ELSE IF log[LastWrite(Wrote(n, k))].kind = "put"
                                 THEN LastWrite(Wrote(n, k)) ELSE 0
         /\ ValueAt(n, k)' = IF Wrote(n, k)' = {} THEN 0
                             ELSE IF log'[LastWrite(Wrote(n, k)')].kind = "put"
                                  THEN LastWrite(Wrote(n, k)') ELSE 0
BY Zenon DEF ValueAt, LastWrite

\* The last write is the greatest.
LEMMA LastWriteIs ==
  ASSUME NEW S, NEW m \in S, S \subseteq Nat, \A j \in S : j <= m
  PROVE  LastWrite(S) = m
<1>1. \A i \in S : (\A j \in S : j <= i) => i = m OBVIOUS
<1>2. QED BY <1>1 DEF LastWrite

\* The state of a key after n writes does not change when more are made.
LEMMA PastStays ==
  ASSUME NEW w \in Writes, log \in Seq(Writes), log' = Append(log, w),
         NEW n \in Nat, n <= Len(log)
  PROVE  \A k : Wrote(n, k)' = Wrote(n, k) /\ ValueAt(n, k)' = ValueAt(n, k)
<1>1. \A i \in 1 .. n : log'[i] = log[i] OBVIOUS
<1>2. \A k : Wrote(n, k)' = Wrote(n, k) BY <1>1 DEF Wrote
<1>3. \A k : Wrote(n, k) \subseteq 1 .. n BY DEF Wrote
<1>4. ASSUME NEW k PROVE ValueAt(n, k)' = ValueAt(n, k)
  <2>1. CASE Wrote(n, k) = {} BY <1>2, <2>1, ValueIs
  <2>2. CASE Wrote(n, k) # {}
    <3>1. PICK m \in Wrote(n, k) : \A j \in Wrote(n, k) : j <= m
      <4> DEFINE T == {n - j : j \in Wrote(n, k)}
      <4>1. T \subseteq Nat /\ T # {} BY <1>3, <2>2
      <4>2. PICK a \in T : \A l \in T : a <= l BY <4>1, Least
      <4>3. PICK j \in Wrote(n, k) : a = n - j OBVIOUS
      <4>4. ASSUME NEW l \in Wrote(n, k) PROVE l <= j
        <5>1. n - j <= n - l BY <4>2, <4>3
        <5>2. QED BY <1>3, <5>1
      <4>5. QED BY <4>4
    <3>2. LastWrite(Wrote(n, k)) = m BY <1>3, <3>1, LastWriteIs
    <3>3. log'[m] = log[m] BY <1>1, <1>3
    <3>4. QED BY <1>2, <3>2, <3>3, ValueIs
  <2>3. QED BY <2>1, <2>2
<1>5. QED BY <1>2, <1>4

\* The last write decides about the keys it touches.
LEMMA LastDecides ==
  ASSUME NEW w \in Writes, log \in Seq(Writes), log' = Append(log, w),
         NEW n \in Nat, n = Len(log), NEW k
  PROVE  /\ Touches(w, k) => ValueAt(n + 1, k)' = IF w.kind = "put" THEN n + 1 ELSE 0
         /\ ~Touches(w, k) => ValueAt(n + 1, k)' = ValueAt(n, k)
<1>1. log'[n + 1] = w /\ \A i \in 1 .. n : log'[i] = log[i] OBVIOUS
<1>2. 1 .. (n + 1) = (1 .. n) \cup {n + 1} OBVIOUS
<1>3. Wrote(n + 1, k)' = Wrote(n, k) \cup (IF Touches(w, k) THEN {n + 1} ELSE {})
  BY <1>1, <1>2 DEF Wrote
<1>4. CASE Touches(w, k)
  <2>1. PICK W : W = Wrote(n + 1, k)' OBVIOUS
  <2>2. n + 1 \in W /\ W \subseteq Nat /\ \A j \in W : j <= n + 1
    BY <1>3, <1>4, <2>1 DEF Wrote
  <2>3. LastWrite(W) = n + 1 BY <2>2, LastWriteIs
  <2>4. ValueAt(n + 1, k)' = IF log'[n + 1].kind = "put" THEN n + 1 ELSE 0
    BY <2>1, <2>2, <2>3, ValueIs
  <2>5. QED BY <1>1, <1>4, <2>4
<1>5. CASE ~Touches(w, k)
  <2>1. Wrote(n + 1, k)' = Wrote(n, k) BY <1>3, <1>5
  <2>2. Wrote(n, k)' = Wrote(n, k) /\ ValueAt(n, k)' = ValueAt(n, k) BY PastStays
  <2>3. ValueAt(n + 1, k)' = ValueAt(n, k)'
    <3>1. PICK W : W = Wrote(n, k)' OBVIOUS
    <3>2. W = Wrote(n + 1, k)' BY <2>1, <2>2, <3>1
    <3>3. QED BY <3>1, <3>2, ValueIs
  <2>4. QED BY <1>5, <2>2, <2>3
<1>6. QED BY <1>4, <1>5

\* Where neither the iterator's fields nor what it can see change.
LEMMA DataStays ==
  ASSUME Types, Data, Faithful',
         UNCHANGED <<opts, dels, it, at, innerOk, pc, loc, call>>,
         view \subseteq view', \A f \in view' \ view : f.seq > it.seq,
         \A f \in view' : f.seq \in Nat,
         \A k : ValueAt(it.seq, k)' = ValueAt(it.seq, k)
  PROVE  Data'
<1>1. it.seq \in Nat BY DEF Types, ItTypes
<1>2. \A f \in view' : Visible(f) => f \in view BY <1>1 DEF Visible
<1>3. \A f : Visible(f)' <=> Visible(f) BY DEF Visible
<1>4. Shown' = Shown BY DEF Shown
<1>5. Wanted(call)' = Wanted(call) BY <1>4 DEF Wanted, Fits
<1>6. \A k : ValueAt(it.seq, k)' = ValueAt(it.seq, k) OBVIOUS
<1>7. ValueAt(it.seq, it.saved)' = ValueAt(it.seq, it.saved) BY <1>6
<1>8. CallOK' BY DEF Data, CallOK
<1>9. FindData' BY <1>5 DEF Data, FindData
<1>10. TurnData' BY DEF Data, TurnData
<1>11. PrevData' BY <1>2, <1>3, <1>5 DEF Data, PrevData, Below
<1>12. ValueData'
  <2>1. \A f : (Passed(f)' <=> Passed(f)) BY <1>3 DEF Passed
  <2>2. \A f \in view' : Passed(f) => f \in view BY <1>2 DEF Passed
  <2>3. \A f : (Live(f)' <=> Live(f)) BY DEF Live, ShouldDelete
  <2>4. Below(call, it.saved)' <=> Below(call, it.saved) BY DEF Below
  <2>5. BelowLower(it.saved)' <=> BelowLower(it.saved) BY DEF BelowLower
  <2>6. ValueData BY DEF Data
  <2>7. SUFFICES ASSUME pc = "value" PROVE ValueData' BY DEF ValueData
  <2>8. Below(call, it.saved)' /\ ~BelowLower(it.saved)' /\ \A k \in Wanted(call) : k <= it.saved
    BY <2>4, <2>5, <2>6, <2>7 DEF ValueData
  <2>9. ASSUME innerOk, NEW e \in view', Passed(e), e.key = it.saved,
               \A f \in view' : Passed(f) /\ f.key = it.saved => f.seq <= e.seq
        PROVE  (loc.found <=> Live(e)) /\ (Live(e) => it.pinned = e.val)
    <3>1. e \in view /\ \A f \in view : Passed(f) /\ f.key = it.saved => f.seq <= e.seq
      BY <2>2, <2>9
    <3>2. QED BY <2>6, <2>7, <2>9, <3>1 DEF ValueData
  <2>10. innerOk => ((\A e \in view' : Passed(e) => e.key # it.saved) => ~loc.found)
    BY <2>6, <2>7 DEF ValueData
  <2>11. QED BY <1>5, <2>1, <2>3, <2>8, <2>9, <2>10 DEF ValueData
<1>13. BackData' BY <1>5, <1>7 DEF Data, BackData
<1>14. EndData' BY <1>5, <1>7 DEF Data, EndData, Value
<1>15. IdleData' BY <1>4, <1>7 DEF Data, IdleData, Value
<1>16. QED BY <1>8, <1>9, <1>10, <1>11, <1>12, <1>13, <1>14, <1>15 DEF Data

\* Growth of the log under the iterator.
LEMMA LogGrows ==
  ASSUME Types, NEW w \in Writes, log' = Append(log, w), it' = it
  PROVE  /\ \A k : ValueAt(it.seq, k)' = ValueAt(it.seq, k)
         /\ Len(log') = Len(log) + 1 /\ Len(log) \in Nat
<1>1. log \in Seq(Writes) /\ it.seq <= Len(log) /\ it.seq \in Nat BY DEF Types, ItTypes
<1>2. PICK s \in Nat : s = it.seq BY <1>1
<1>3. \A k : ValueAt(s, k)' = ValueAt(s, k) BY <1>1, <1>2, PastStays
<1>4. it'.seq = s BY <1>2
<1>5. \A k : ValueAt(it.seq, k)' = ValueAt(s, k)' BY <1>4 DEF ValueAt, Wrote
<1>6. QED BY <1>1, <1>2, <1>3, <1>5, AppendIs

\* What represents the map for the iterator still does, when only entries it
\* cannot see come along.
LEMMA ViewStays ==
  ASSUME Types, NEW k \in Keys, Represents(view, dels, it.seq, k),
         it' = it, dels' = dels, view \subseteq view', \A f \in view' \ view : f.seq > it.seq,
         \A f \in view' : f.seq \in Nat,
         ValueAt(it.seq, k)' = ValueAt(it.seq, k)
  PROVE  Represents(view, dels, it.seq, k)'
<1>1. it.seq \in Nat BY DEF Types, ItTypes
<1>2. \A f : f \in view' /\ VisibleAt(f, k, it.seq) <=> f \in view /\ VisibleAt(f, k, it.seq)
  BY <1>1 DEF VisibleAt
<1>3. \A f : Finds(view', f, k, it.seq) <=> Finds(view, f, k, it.seq) BY <1>2 DEF Finds
<1>4. QED BY <1>3 DEF Represents, Finds

\* A cursor that returns shows what its call found.
LEMMA ReturnData ==
  ASSUME Types, Position, Data, Return
  PROVE  Data'
<1>1. pc = "end" /\ pc' = "idle" /\ UNCHANGED <<db, ref>> /\ it' = it /\ at' = at
  BY DEF Return, inner
<1>2. log' = log /\ opts' = opts BY <1>1 DEF db, ref
<1>3. Faithful' BY <1>1, FaithfulStays DEF Data
<1>4. Shown' = Shown /\ \A k : ValueAt(it.seq, k)' = ValueAt(it.seq, k)
  BY <1>1, <1>2 DEF Shown, ValueAt, Wrote
<1>5. ValueAt(it.seq, it.saved)' = ValueAt(it.seq, it.saved) BY <1>1, <1>2 DEF ValueAt, Wrote
<1>6. IdleData'
  <2>1. it.valid => it.saved \in Shown /\ Value(it, at) = ValueAt(it.seq, it.saved)
    BY <1>1 DEF Data, EndData, Wanted
  <2>2. QED BY <1>1, <1>4, <1>5, <2>1 DEF IdleData, Value
<1>7. QED
  BY <1>1, <1>3, <1>6 DEF Data, CallOK, FindData, TurnData, PrevData, ValueData, BackData, EndData

\* A cursor made or refreshed represents the database of that moment.
LEMMA RenewFaithful ==
  ASSUME Types, Data, Careful, NewIterator \/ RefreshInPlace \/ RefreshAnew
  PROVE  Faithful'
<1>1. /\ log' = log /\ entries' = entries /\ tombs' = tombs /\ sv' = sv
      /\ pc' = "idle" /\ pc \in {"new", "idle"}
  BY DEF NewIterator, RefreshInPlace, RefreshAnew, db, ref
<1>2. Len(log) \in Nat /\ it \in ItTypes /\ Faithful BY DEF Types, Data
<1>3. view' = entries /\ dels' = tombs /\ it'.seq = Len(log) /\ it'.sv = sv
  <2>1. CASE NewIterator BY <2>1 DEF NewIterator, NewDBIter
  <2>2. CASE RefreshAnew BY <2>2 DEF RefreshAnew, NewDBIter
  <2>3. CASE RefreshInPlace
    <3>1. /\ pc = "idle" /\ it.sv = sv /\ it' = [it EXCEPT !.seq = Len(log), !.valid = FALSE]
          /\ view' = view /\ dels' = dels
          /\ \A i \in it.seq + 1 .. Len(log) : ~\E d \in tombs : d.seq = i
      BY <2>3 DEF RefreshInPlace, ref
    <3>2. it'.seq = Len(log) /\ it'.sv = sv BY <1>2, <3>1 DEF ItTypes
    <3>3. view = entries /\ dels \subseteq tombs /\ \A d \in tombs \ dels : it.seq < d.seq
      BY <1>2, <3>1 DEF Faithful
    <3>4. it.seq \in Nat /\ \A d \in tombs : d.seq \in Nat /\ d.seq <= Len(log)
      BY <1>2 DEF Types, ItTypes, Tombstone
    <3>5. \A d \in tombs : ~(it.seq < d.seq) BY <1>2, <3>1, <3>4
    <3>6. dels = tombs BY <3>3, <3>5
    <3>7. QED BY <3>1, <3>2, <3>3, <3>6
  <2>4. QED BY <2>1, <2>2, <2>3
<1>4. PICK n : n = Len(log) OBVIOUS
<1>5. \A k : /\ Represents(entries, tombs, Len(log), k)' <=> Represents(entries, tombs, n, k)
             /\ Represents(view, dels, it.seq, k)' <=> Represents(entries, tombs, n, k)
  BY <1>1, <1>3, <1>4 DEF Represents, ValueAt, Wrote
<1>6. \A k \in Keys : Represents(entries, tombs, n, k) BY <1>2, <1>4 DEF Faithful
<1>7. QED BY <1>1, <1>3, <1>5, <1>6 DEF Faithful

\* So it keeps the data: it is invalid.
LEMMA RenewData ==
  ASSUME Types, Data, Careful, NewIterator \/ RefreshInPlace \/ RefreshAnew
  PROVE  Data'
<1>1. pc' = "idle" BY DEF NewIterator, RefreshInPlace, RefreshAnew
<1>2. ~it'.valid
  <2>1. it \in ItTypes BY DEF Types
  <2>2. CASE NewIterator \/ RefreshAnew BY <2>2 DEF NewIterator, RefreshAnew, NewDBIter
  <2>3. CASE RefreshInPlace BY <2>1, <2>3 DEF RefreshInPlace, ItTypes
  <2>4. QED BY <2>2, <2>3
<1>3. Faithful' BY RenewFaithful
<1>4. QED
  BY <1>1, <1>2, <1>3 DEF Data, CallOK, FindData, TurnData, PrevData, ValueData, BackData,
                          EndData, IdleData

\* A write changes the map of the database, not the iterator's: the entry it adds
\* is newer than the iterator's number.
LEMMA WriteFaithful ==
  ASSUME Types, Faithful, NEW kind \in {"put", "delete"}, NEW k \in Keys, Write(kind, k)
  PROVE  Faithful' /\ Len(log') = Len(log) + 1 /\ \A j : ValueAt(it.seq, j)' = ValueAt(it.seq, j)
<1>1. /\ Store(view) /\ Store(entries) /\ log \in Seq(Writes)
      /\ it \in ItTypes /\ it.seq \in Nat /\ it.seq <= Len(log)
  BY DEF Types, ItTypes
<1>2. PICK n \in Nat : n = Len(log) BY <1>1
<1>3. PICK e : e = [key |-> k, seq |-> Len(log) + 1,
                    val |-> IF kind = "put" THEN Len(log) + 1 ELSE Deleted]
  OBVIOUS
<1>4. PICK w : w = [kind |-> kind, from |-> k, to |-> k + 1] OBVIOUS
<1>5. e.key = k /\ e.seq = n + 1 /\ e.val = (IF kind = "put" THEN n + 1 ELSE 0)
  BY <1>2, <1>3 DEF Deleted
<1>6. k \in Nat /\ w \in Writes /\ w.kind = kind /\ w.from = k /\ w.to = k + 1
  <2>1. k \in Nat BY NoneIs
  <2>2. QED BY <1>4, <2>1 DEF Writes
<1>7. /\ log' = Append(log, w) /\ entries' = entries \cup {e}
      /\ view' = IF it.sv = sv THEN view \cup {e} ELSE view
      /\ UNCHANGED <<tombs, sv, opts, dels, it, at, innerOk, pc, loc, call>>
  BY <1>3, <1>4 DEF Write, inner
<1>8. \A j \in Keys : Touches(w, j) <=> j = k
  BY <1>6, NoneIs DEF Touches
<1>9. \A f \in entries : f.seq \in Nat /\ f.seq <= n BY <1>1, <1>2, EntryType DEF Types, Store
<1>10. (\A j : ValueAt(it.seq, j)' = ValueAt(it.seq, j)) /\ Len(log') = n + 1
  BY <1>2, <1>6, <1>7, LogGrows
<1>11. ASSUME NEW j \in Keys PROVE Represents(entries, tombs, Len(log), j)'
  <2>1. Represents(entries, tombs, n, j) BY <1>2 DEF Faithful
  <2>2. CASE j = k
    <3>1. Touches(w, j) BY <1>8, <2>2
    <3>2. ValueAt(n + 1, j)' = e.val BY <1>1, <1>2, <1>5, <1>6, <1>7, <3>1, LastDecides
    <3>3. \A f \in entries' : Finds(entries', f, j, n + 1) => f = e
      BY <1>2, <1>5, <1>7, <1>9, <2>2 DEF Finds, VisibleAt
    <3>4. Finds(entries', e, j, n + 1)
      BY <1>2, <1>5, <1>7, <1>9, <2>2 DEF Finds, VisibleAt
    <3>5. LiveIn(tombs, e) <=> e.val # 0
      <4>1. \A d \in tombs : ~(e.seq < d.seq)
        <5>1. \A d \in tombs : d.seq \in Nat /\ d.seq <= n BY <1>2 DEF Types, Tombstone
        <5>2. QED BY <1>2, <1>5, <5>1
      <4>2. QED BY <4>1 DEF LiveIn, Deleted
    <3>6. ValueAt(Len(log), j)' = e.val BY <1>10, <3>2 DEF ValueAt, Wrote
    <3>7. QED BY <1>7, <1>10, <3>3, <3>4, <3>5, <3>6 DEF Represents
  <2>3. CASE j # k
    <3>1. ~Touches(w, j) BY <1>8, <2>3
    <3>2. ValueAt(n + 1, j)' = ValueAt(n, j) BY <1>1, <1>2, <1>6, <1>7, <3>1, LastDecides
    <3>3. \A f : f \in entries' /\ VisibleAt(f, j, n + 1) <=> f \in entries /\ VisibleAt(f, j, n)
      BY <1>2, <1>5, <1>7, <1>9, <2>3 DEF VisibleAt
    <3>4. \A f : Finds(entries', f, j, n + 1) <=> Finds(entries, f, j, n)
      BY <3>3 DEF Finds
    <3>5. ValueAt(Len(log), j)' = ValueAt(n, j) BY <1>10, <3>2 DEF ValueAt, Wrote
    <3>6. QED BY <1>7, <1>10, <2>1, <3>4, <3>5 DEF Represents, Finds
  <2>4. QED BY <2>2, <2>3
<1>12. view \subseteq view' /\ (\A f \in view' \ view : f.seq > it.seq) /\ \A f \in view' : f.seq \in Nat
  <2>1. \A f \in view : f.seq \in Nat BY <1>1, EntryType DEF Store
  <2>2. e.seq > it.seq /\ e.seq \in Nat BY <1>1, <1>2, <1>5
  <2>3. view' = view \/ view' = view \cup {e} BY <1>7
  <2>4. QED BY <2>1, <2>2, <2>3
<1>13. \A j \in Keys : Represents(view, dels, it.seq, j)'
  BY <1>7, <1>10, <1>12, ViewStays DEF Faithful
<1>14. it'.sv = sv' => /\ view' = entries' \/ pc' = "new"
                       /\ dels' \subseteq tombs' /\ \A d \in tombs' \ dels' : it'.seq < d.seq
  BY <1>7 DEF Faithful
<1>15. pc' = "new" => it'.seq = 0 /\ \A f \in view' : f.seq > 0
  <2>1. e.seq > 0 BY <1>2, <1>5
  <2>2. view' = view \/ view' = view \cup {e} BY <1>7
  <2>3. QED BY <1>7, <2>1, <2>2 DEF Faithful
<1>16. QED BY <1>2, <1>10, <1>11, <1>13, <1>14, <1>15 DEF Faithful

\* So it keeps the data.
LEMMA WriteData ==
  ASSUME Types, Data, NEW kind \in {"put", "delete"}, NEW k \in Keys, Write(kind, k)
  PROVE  Data'
<1>1. /\ Store(view) /\ it.seq \in Nat /\ it.seq <= Len(log) /\ Len(log) \in Nat
  BY DEF Types, ItTypes
<1>2. Faithful' /\ \A j : ValueAt(it.seq, j)' = ValueAt(it.seq, j)
  BY WriteFaithful DEF Data
<1> DEFINE e == [key |-> k, seq |-> Len(log) + 1,
                 val |-> IF kind = "put" THEN Len(log) + 1 ELSE Deleted]
<1>3. /\ e.seq = Len(log) + 1 /\ view' = IF it.sv = sv THEN view \cup {e} ELSE view
      /\ UNCHANGED <<opts, dels, it, at, innerOk, pc, loc, call>>
  BY DEF Write, inner
<1> HIDE DEF e
<1>4. view \subseteq view' /\ (\A f \in view' \ view : f.seq > it.seq) /\ \A f \in view' : f.seq \in Nat
  <2>1. \A f \in view : f.seq \in Nat BY <1>1, EntryType DEF Store
  <2>2. e.seq > it.seq /\ e.seq \in Nat BY <1>1, <1>3
  <2>3. view' = view \/ view' = view \cup {e} BY <1>3
  <2>4. QED BY <2>1, <2>2, <2>3
<1>5. QED BY <1>2, <1>3, <1>4, DataStays

\* A DeleteRange does not change the iterator's map either: its tombstones stay.
LEMMA DeleteRangeFaithful ==
  ASSUME Types, Faithful, NEW r \in Ranges, DeleteRange(r)
  PROVE  Faithful' /\ \A j : ValueAt(it.seq, j)' = ValueAt(it.seq, j)
<1>1. /\ Store(view) /\ Store(entries) /\ log \in Seq(Writes)
      /\ it \in ItTypes /\ it.seq \in Nat /\ it.seq <= Len(log)
  BY DEF Types, ItTypes
<1>2. PICK n \in Nat : n = Len(log) BY <1>1
<1>3. r.from \in Keys /\ r.to \in Nat BY RangesAssumption
<1>4. PICK d : d = [from |-> r.from, to |-> r.to, seq |-> Len(log) + 1] OBVIOUS
<1>5. PICK w : w = [kind |-> "delete", from |-> r.from, to |-> r.to] OBVIOUS
<1>6. d.from = r.from /\ d.to = r.to /\ d.seq = n + 1 BY <1>2, <1>4
<1>7. w \in Writes /\ w.kind = "delete" /\ w.from = r.from /\ w.to = r.to
  BY <1>3, <1>5 DEF Writes
<1>8. /\ log' = Append(log, w) /\ tombs' = tombs \cup {d}
      /\ UNCHANGED <<entries, sv, opts, view, dels, it, at, innerOk, pc, loc, call>>
  BY <1>4, <1>5 DEF DeleteRange, inner, ref
<1>9. \A f \in entries : f.seq \in Nat /\ f.seq <= n BY <1>1, <1>2, EntryType DEF Types, Store
<1>10. (\A j : ValueAt(it.seq, j)' = ValueAt(it.seq, j)) /\ Len(log') = n + 1
  BY <1>2, <1>7, <1>8, LogGrows
<1>11. ASSUME NEW j \in Keys PROVE Represents(entries, tombs, Len(log), j)'
  <2>1. Represents(entries, tombs, n, j) BY <1>2 DEF Faithful
  <2>2. \A f : f \in entries /\ VisibleAt(f, j, n + 1) <=> f \in entries /\ VisibleAt(f, j, n)
    BY <1>2, <1>9 DEF VisibleAt
  <2>3. \A f : Finds(entries, f, j, n + 1) <=> Finds(entries, f, j, n) BY <2>2 DEF Finds
  <2>4. CASE Touches(w, j)
    <3>1. ValueAt(n + 1, j)' = 0 BY <1>1, <1>2, <1>7, <1>8, <2>4, LastDecides
    <3>2. \A f \in entries : f.key = j => ~LiveIn(tombs', f)
      <4>1. ASSUME NEW f \in entries, f.key = j PROVE ~LiveIn(tombs', f)
        <5>1. d \in tombs' /\ d.from <= f.key /\ f.key < d.to
          BY <1>6, <1>7, <1>8, <2>4, <4>1 DEF Touches
        <5>2. f.seq < d.seq BY <1>2, <1>6, <1>9
        <5>3. QED BY <5>1, <5>2 DEF LiveIn
      <4>2. QED BY <4>1
    <3>3. ValueAt(Len(log), j)' = 0 BY <1>10, <3>1 DEF ValueAt, Wrote
    <3>4. QED BY <1>8, <1>10, <3>2, <3>3 DEF Represents, Finds, VisibleAt
  <2>5. CASE ~Touches(w, j)
    <3>1. ValueAt(n + 1, j)' = ValueAt(n, j) BY <1>1, <1>2, <1>7, <1>8, <2>5, LastDecides
    <3>2. \A f : f.key = j => (LiveIn(tombs', f) <=> LiveIn(tombs, f))
      BY <1>6, <1>7, <1>8, <2>5 DEF LiveIn, Touches
    <3>3. ValueAt(Len(log), j)' = ValueAt(n, j) BY <1>10, <3>1 DEF ValueAt, Wrote
    <3>4. QED BY <1>8, <1>10, <2>1, <2>3, <3>2, <3>3 DEF Represents, Finds, VisibleAt
  <2>6. QED BY <2>4, <2>5
<1>12. \A f \in view : f.seq \in Nat BY <1>1, EntryType DEF Store
<1>13. \A j \in Keys : Represents(view, dels, it.seq, j)'
  BY <1>8, <1>10, <1>12, ViewStays DEF Faithful
<1>14. it'.sv = sv' => /\ view' = entries' \/ pc' = "new"
                       /\ dels' \subseteq tombs' /\ \A c \in tombs' \ dels' : it'.seq < c.seq
  <2>1. it.seq < d.seq BY <1>1, <1>2, <1>6
  <2>2. QED BY <1>8, <2>1 DEF Faithful
<1>15. pc' = "new" => it'.seq = 0 /\ \A f \in view' : f.seq > 0 BY <1>8 DEF Faithful
<1>16. QED BY <1>10, <1>11, <1>13, <1>14, <1>15 DEF Faithful

\* So it keeps the data.
LEMMA DeleteRangeData ==
  ASSUME Types, Data, NEW r \in Ranges, DeleteRange(r)
  PROVE  Data'
<1>1. Faithful' /\ \A j : ValueAt(it.seq, j)' = ValueAt(it.seq, j)
  BY DeleteRangeFaithful DEF Data
<1>2. UNCHANGED <<opts, view, dels, it, at, innerOk, pc, loc, call>>
  BY DEF DeleteRange, inner, ref
<1>3. \A f \in view : f.seq \in Nat BY EntryType DEF Types, Store
<1>4. QED BY <1>1, <1>2, <1>3, DataStays

\* A compaction of everything into the last level: the newest entry of a key,
\* unless it is a deletion, is all that is left of the key.
Compacted(E, R) ==
  /\ \A r \in R : \E e \in E : /\ r.key = e.key /\ r.val = e.val /\ r.seq = 0
                               /\ e.val # Deleted
                               /\ \A f \in E : f.key = e.key => f.seq <= e.seq
  /\ \A e \in E : e.val # Deleted /\ (\A f \in E : f.key = e.key => f.seq <= e.seq)
       => \E r \in R : r.key = e.key /\ r.val = e.val /\ r.seq = 0

\* What Rewrite makes of entries without snapshots in the last level.
LEMMA CompactKeeps ==
  ASSUME NEW E, Store(E)
  PROVE  Compacted(E, Rewrite(E, {}, {}, TRUE))
<1> DEFINE R == Rewrite(E, {}, {}, TRUE)
<1>1. E \in SUBSET EntriesOf(Keys) /\ \A f \in E : f.seq \in Nat
  BY EntryOf, EntryType DEF Store
<1>2. \A e \in E : /\ Squash(e, {}, TRUE).key = e.key /\ Squash(e, {}, TRUE).val = e.val
                   /\ Squash(e, {}, TRUE).seq = 0
  <2>1. ASSUME NEW e \in E PROVE /\ Squash(e, {}, TRUE).key = e.key /\ Squash(e, {}, TRUE).val = e.val
                                 /\ Squash(e, {}, TRUE).seq = 0
    <3>1. e \in EntriesOf(Keys) BY <1>1
    <3>2. Squash(e, {}, TRUE) = [e EXCEPT !.seq = 0] BY DEF Squash, InEarliest
    <3>3. QED BY <3>1, <3>2 DEF EntriesOf
  <2>2. QED BY <2>1
<1>3. \A e \in E : Hidden(E, e, {}) <=> \E f \in E : f.key = e.key /\ f.seq > e.seq
  BY DEF Hidden, SameStripe
<1>4. \A e \in E : ObsoleteDeletion(E, e, {}, {}, TRUE) <=> e.val = Deleted
  BY DEF ObsoleteDeletion, InEarliest
<1>5. \A e \in E : e \in Kept(E, {}, {}, TRUE)
                   <=> e.val # Deleted /\ \A f \in E : f.key = e.key => f.seq <= e.seq
  <2>1. \A e \in E : e \in Kept(E, {}, {}, TRUE)
                    <=> ~Hidden(E, e, {}) /\ ~ObsoleteDeletion(E, e, {}, {}, TRUE)
    BY DEF Kept
  <2>2. \A e \in E : ~Hidden(E, e, {}) <=> \A f \in E : f.key = e.key => f.seq <= e.seq
    BY <1>1, <1>3
  <2>3. QED BY <1>4, <2>1, <2>2
<1>6. Kept(E, {}, {}, TRUE) \subseteq E BY DEF Kept
<1>7. R = {Squash(e, {}, TRUE) : e \in Kept(E, {}, {}, TRUE)} BY DEF Rewrite
<1>8. ASSUME NEW r \in R
      PROVE  \E e \in E : /\ r.key = e.key /\ r.val = e.val /\ r.seq = 0 /\ e.val # Deleted
                          /\ \A f \in E : f.key = e.key => f.seq <= e.seq
  BY <1>2, <1>5, <1>6, <1>7
<1>9. ASSUME NEW e \in E, e.val # Deleted, \A f \in E : f.key = e.key => f.seq <= e.seq
      PROVE  \E r \in R : r.key = e.key /\ r.val = e.val /\ r.seq = 0
  BY <1>2, <1>5, <1>7, <1>9
<1>10. QED BY <1>8, <1>9 DEF Compacted

\* A compaction changes no map.
LEMMA CompactFaithful ==
  ASSUME Types, Faithful, Compact
  PROVE  Faithful'
<1>1. PICK C : C = {e \in entries : \E d \in tombs :
                      d.from <= e.key /\ e.key < d.to /\ e.seq < d.seq}
  OBVIOUS
<1>2. PICK R : R = Rewrite(entries \ C, {}, {}, TRUE) OBVIOUS
<1>3. /\ entries' = R /\ tombs' = {} /\ sv' = sv + 1
      /\ UNCHANGED <<log, opts, view, dels, it, at, innerOk, pc, loc, call>>
  BY <1>1, <1>2 DEF Compact, inner, ref
<1>4. /\ Store(entries) /\ sv \in Nat /\ it \in ItTypes /\ it.sv <= sv
  BY BoundsAssumption DEF Types
<1>5. PICK n \in Nat : n = Len(log) BY DEF Types
<1>6. \A f \in entries : f.seq \in Nat /\ f.seq <= n /\ f.key \in Nat
  BY <1>4, <1>5, EntryType DEF Types, Store
<1>7. \A e \in entries : e \in C <=> \E d \in tombs : d.from <= e.key /\ e.key < d.to /\ e.seq < d.seq
  BY <1>1
<1>8. Store(entries \ C) BY <1>4, StorePart
<1>9. /\ \A r \in R : \E e \in entries \ C :
           /\ r.key = e.key /\ r.val = e.val /\ r.seq = 0 /\ e.val # Deleted
           /\ \A f \in entries \ C : f.key = e.key => f.seq <= e.seq
      /\ \A e \in entries \ C :
           e.val # Deleted /\ (\A f \in entries \ C : f.key = e.key => f.seq <= e.seq)
           => \E r \in R : r.key = e.key /\ r.val = e.val /\ r.seq = 0
  <2>1. PICK E : E = entries \ C OBVIOUS
  <2>2. Compacted(E, R) BY <1>2, <1>8, <2>1, CompactKeeps
  <2>3. QED BY <2>1, <2>2 DEF Compacted
<1>10. \A d \in tombs : d.seq \in Nat BY DEF Types, Tombstone
<1>11. ASSUME NEW k \in Keys PROVE Represents(R, {}, n, k)
  <2>1. Represents(entries, tombs, n, k) BY <1>5 DEF Faithful
  <2>2. CASE \E e \in entries : Finds(entries, e, k, n) /\ LiveIn(tombs, e) /\ ValueAt(n, k) = e.val
    <3>1. PICK e \in entries : Finds(entries, e, k, n) /\ LiveIn(tombs, e) /\ ValueAt(n, k) = e.val
      BY <2>2
    <3>2. e \in entries \ C /\ e.val # Deleted /\ e.key = k BY <1>7, <3>1 DEF LiveIn, Finds, VisibleAt
    <3>3. \A f \in entries \ C : f.key = e.key => f.seq <= e.seq
      BY <1>6, <3>1, <3>2 DEF Finds, VisibleAt
    <3>4. PICK r \in R : r.key = e.key /\ r.val = e.val /\ r.seq = 0 BY <1>9, <3>2, <3>3
    <3>5. \A f \in R : f.seq <= 0 BY <1>9
    <3>6. Finds(R, r, k, n) BY <1>5, <3>2, <3>4, <3>5 DEF Finds, VisibleAt
    <3>7. LiveIn({}, r) BY <3>2, <3>4 DEF LiveIn
    <3>8. QED BY <3>1, <3>4, <3>6, <3>7 DEF Represents
  <2>3. CASE ValueAt(n, k) = 0 /\ \A e \in entries : Finds(entries, e, k, n) => ~LiveIn(tombs, e)
    <3>1. ASSUME NEW r \in R, r.key = k PROVE FALSE
      <4>1. PICK e \in entries \ C : /\ k = e.key /\ e.val # Deleted
                                     /\ \A f \in entries \ C : f.key = e.key => f.seq <= e.seq
        BY <1>9, <3>1
      <4>2. PICK g \in entries : Finds(entries, g, k, n)
        <5>1. entries \in SUBSET EntriesOf(Keys) BY <1>4, EntryOf DEF Store
        <5>2. VisibleAt(e, k, n) BY <1>6, <4>1 DEF VisibleAt
        <5>3. QED BY <4>1, <5>1, <5>2, SomethingFound
      <4>3. g.key = k /\ e.seq <= g.seq BY <1>6, <4>1, <4>2 DEF Finds, VisibleAt
      <4>4. g.val = Deleted \/ \E d \in tombs : d.from <= g.key /\ g.key < d.to /\ g.seq < d.seq
        BY <2>3, <4>2 DEF LiveIn
      <4>5. CASE \E d \in tombs : d.from <= g.key /\ g.key < d.to /\ g.seq < d.seq
        <5>1. PICK d \in tombs : d.from <= g.key /\ g.key < d.to /\ g.seq < d.seq BY <4>5
        <5>2. e.key = g.key /\ e.seq < d.seq BY <1>6, <1>10, <4>1, <4>3, <5>1
        <5>3. QED BY <1>7, <4>1, <5>1, <5>2
      <4>6. CASE g.val = Deleted /\ ~ \E d \in tombs : d.from <= g.key /\ g.key < d.to /\ g.seq < d.seq
        <5>1. g \in entries \ C BY <1>7, <4>6
        <5>2. g.seq = e.seq BY <1>6, <4>1, <4>3, <5>1
        <5>3. g = e BY <1>4, <4>1, <4>3, <5>2 DEF Store, Unique
        <5>4. QED BY <4>1, <4>6, <5>3
      <4>7. QED BY <4>4, <4>5, <4>6
    <3>2. \A r \in R : Finds(R, r, k, n) => ~LiveIn({}, r) BY <3>1 DEF Finds, VisibleAt
    <3>3. QED BY <2>3, <3>2 DEF Represents
  <2>4. QED BY <2>1, <2>2, <2>3 DEF Represents
<1>12. \A k \in Keys : Represents(entries, tombs, Len(log), k)'
  <2>1. \A k : Represents(entries, tombs, Len(log), k)' <=> Represents(R, {}, n, k)
    BY <1>3, <1>5 DEF Represents, ValueAt, Wrote
  <2>2. QED BY <1>11, <2>1
<1>13. \A k \in Keys : Represents(view, dels, it.seq, k)'
  <2>1. \A k : Represents(view, dels, it.seq, k)' <=> Represents(view, dels, it.seq, k)
    BY <1>3 DEF Represents, ValueAt, Wrote
  <2>2. QED BY <2>1 DEF Faithful
<1>14. it'.sv # sv'
  <2>1. it.sv \in Nat BY <1>4 DEF ItTypes
  <2>2. QED BY <1>3, <1>4, <2>1
<1>15. pc' = "new" => it'.seq = 0 /\ \A f \in view' : f.seq > 0 BY <1>3 DEF Faithful
<1>16. QED BY <1>12, <1>13, <1>14, <1>15 DEF Faithful

\* So it keeps the data.
LEMMA CompactData ==
  ASSUME Types, Data, Compact
  PROVE  Data'
<1>1. Faithful' BY CompactFaithful DEF Data
<1>2. UNCHANGED <<log, opts, view, dels, it, at, innerOk, pc, loc, call>>
  BY DEF Compact, inner, ref
<1>3. \A f \in view : f.seq \in Nat BY EntryType DEF Types, Store
<1>4. \A k : ValueAt(it.seq, k)' = ValueAt(it.seq, k) BY <1>2 DEF ValueAt, Wrote
<1>5. QED BY <1>1, <1>2, <1>3, <1>4, DataStays

\* All of it.
CursorInv == Types /\ Position /\ Data

\* The last part of the invariant holds at the start.
LEMMA DataInit == Init => Data
<1> SUFFICES ASSUME Init PROVE Data OBVIOUS
<1>1. Len(log) = 0 /\ log = <<>> /\ it.seq = 0 /\ it.sv = 0 /\ sv = 0 /\ pc = "new"
  BY DEF Init, NewDBIter
<1>2. \A k : Wrote(0, k) = {} BY DEF Wrote
<1>3. \A k : ValueAt(0, k) = 0 BY <1>2, ValueIs
<1>4. \A k : Represents({}, {}, 0, k) BY <1>3 DEF Represents
<1>5. Faithful BY <1>1, <1>4 DEF Init, Faithful
<1>6. QED
  BY <1>1, <1>5 DEF Data, CallOK, FindData, TurnData, PrevData, ValueData, BackData, EndData,
                    IdleData

\* And every step keeps it.
LEMMA DataNext ==
  ASSUME Careful, CursorInv, [Next]_vars
  PROVE  Data'
<1>1. Types /\ Position /\ Data BY DEF CursorInv
<1>2. CASE UNCHANGED vars
  <2>1. UNCHANGED <<log, entries, tombs, sv, opts, view, dels, it, at, innerOk, pc, loc, call>>
    BY <1>2 DEF vars, db, ref, inner
  <2>2. Faithful' BY <1>1, <2>1, FaithfulStays DEF Data, db, ref
  <2>3. \A f \in view : f.seq \in Nat BY <1>1, EntryType DEF Types, Store
  <2>4. \A k : ValueAt(it.seq, k)' = ValueAt(it.seq, k) BY <2>1 DEF ValueAt, Wrote
  <2>5. QED BY <1>1, <2>1, <2>2, <2>3, <2>4, DataStays
<1>3. CASE Next
  <2>1. CASE NewIterator \/ RefreshInPlace \/ RefreshAnew BY <1>1, <2>1, RenewData
  <2>2. ASSUME NEW k \in Keys, Seek(k) PROVE Data'
    <3>1. PICK c : c = call' OBVIOUS
    <3>2. SeekForward(k) BY <2>2 DEF Seek
    <3>3. CallTypes(c) /\ c.op = "seek" /\ c.key = k /\ pc = "idle"
      BY <1>1, <2>2, <3>1, CallingTypes DEF Seek, Forwards
    <3>4. QED BY <1>1, <3>1, <3>2, <3>3, SeekForwardData
  <2>3. ASSUME NEW k \in Keys, SeekForPrev(k) PROVE Data'
    <3>1. PICK c : c = call' OBVIOUS
    <3>2. SeekBackward(k) BY <2>3 DEF SeekForPrev
    <3>3. CallTypes(c) /\ c.op = "seekPrev" /\ c.key = k /\ pc = "idle"
      BY <1>1, <2>3, <3>1, CallingTypes DEF SeekForPrev, Backwards
    <3>4. QED BY <1>1, <3>1, <3>2, <3>3, SeekBackwardData
  <2>4. CASE SeekToFirst BY <1>1, <2>4, SeekToFirstData
  <2>5. CASE SeekToLast BY <1>1, <2>5, SeekToLastData
  <2>6. CASE Next1 BY <1>1, <2>6, NextData
  <2>7. CASE Prev1 BY <1>1, <2>7, PrevStepData
  <2>8. CASE FindStops BY <1>1, <2>8, FindStopsData
  <2>9. CASE FindRepeated \/ FindDeleted \/ FindNewer BY <1>1, <2>9, FindOnData
  <2>10. CASE FindYields BY <1>1, <2>10, FindYieldsData
  <2>11. CASE Turn BY <1>1, <2>11, TurnStepData
  <2>12. CASE PrevKey BY <1>1, <2>12, PrevKeyData
  <2>13. CASE ValueKnown BY <1>1, <2>13, ValueKnownData
  <2>14. CASE ValueOlder BY <1>1, <2>14, ValueOlderData
  <2>15. CASE ValueBySeek BY <1>1, <2>15, ValueBySeekData
  <2>16. CASE BackDone BY <1>1, <2>16, BackDoneData
  <2>17. CASE BackSteps BY <1>1, <2>17, BackStepsData
  <2>18. CASE GiveUp BY <1>1, <2>18, GiveUpData
  <2>19. CASE Return BY <1>1, <2>19, ReturnData
  <2>20. ASSUME NEW k \in Keys, Write("put", k) \/ Write("delete", k) PROVE Data'
    BY <1>1, <2>20, WriteData
  <2>21. ASSUME NEW r \in Ranges, DeleteRange(r) PROVE Data'
    BY <1>1, <2>21, DeleteRangeData
  <2>22. CASE Compact BY <1>1, <2>22, CompactData
  <2>23. QED
    BY <1>3, <2>1, <2>2, <2>3, <2>4, <2>5, <2>6, <2>7, <2>8, <2>9, <2>10, <2>11, <2>12, <2>13,
       <2>14, <2>15, <2>16, <2>17, <2>18, <2>19, <2>20, <2>21, <2>22
    DEF Next, JavaScript, Loops, Database
<1>4. QED BY <1>2, <1>3

\* Unless the iterator is refreshed across a DeleteRange, every loop finds what
\* the map at the iterator's number holds, and every call that ends without an
\* error has led where that map and the bounds say.
THEOREM CursorInvariance ==
  ASSUME Careful
  PROVE  Spec => []CursorInv
<1>1. Init => CursorInv BY LoopInit, DataInit DEF CursorInv, LoopInv
<1>2. CursorInv /\ [Next]_vars => CursorInv'
  <2> SUFFICES ASSUME CursorInv, [Next]_vars PROVE CursorInv' OBVIOUS
  <2>1. LoopInv BY DEF CursorInv, LoopInv
  <2>2. LoopInv' BY <2>1, LoopNext
  <2>3. QED BY <2>2, DataNext DEF CursorInv, LoopInv
<1>3. QED BY <1>1, <1>2, PTL DEF Spec

-----------------------------------------------------------------------------
(***************************************************************************)
(* Cursor implements SortedCursor, step by step.                           *)
(***************************************************************************)

\* What the abstract cursor sees.
SeenMap == MapAt(it.seq)
SeenCur == IF Between THEN Key(it) ELSE call.cur
SeenVal == IF Between THEN Value(it, at) ELSE call.val
SeenOk == IF Between THEN StatusOk(it, innerOk) ELSE call.ok
SeenCall == [op |-> call.op, key |-> call.key]
SeenBy == <<SeenMap, opts, SeenCur, SeenVal, SeenOk, SeenCall>>

\* One step of the abstract cursor each, over what it sees.
LEMMA SeenStutters == UNCHANGED SeenBy => UNCHANGED Abstract!svars
BY DEF SeenBy, SeenMap, SeenCur, SeenVal, SeenOk, SeenCall, Abstract!svars

\* It is made or refreshed.
LEMMA SeenRenew ==
  ASSUME SeenCall = Abstract!NoCall, SeenCall' = Abstract!NoCall, SeenMap' \in [Keys -> Nat],
         SeenCur' = None, SeenVal' = 0, SeenOk' \in BOOLEAN, opts' = opts
  PROVE  Abstract!SNext
<1>1. Abstract!SRenew BY DEF Abstract!SRenew, SeenMap, SeenCur, SeenVal, SeenOk, SeenCall
<1>2. QED BY <1>1 DEF Abstract!SNext

\* A call begins.
LEMMA SeenBegin ==
  ASSUME SeenCall = Abstract!NoCall, NEW c \in Abstract!Moves \cup Abstract!Steps,
         c \in Abstract!Steps => SeenCur # None, SeenCall' = c,
         UNCHANGED <<SeenMap, opts, SeenCur, SeenVal, SeenOk>>
  PROVE  Abstract!SNext
<1>1. Abstract!SCall(c) BY DEF Abstract!SCall, SeenMap, SeenCur, SeenVal, SeenOk, SeenCall
<1>2. QED BY <1>1 DEF Abstract!SNext

\* A call arrives.
LEMMA SeenArrive ==
  ASSUME SeenCall # Abstract!NoCall, SeenCall' = Abstract!NoCall,
         SeenCur' = Abstract!Target(SeenCall), SeenOk' = TRUE,
         SeenVal' = IF SeenCur' = None THEN 0 ELSE SeenMap[SeenCur'],
         UNCHANGED <<SeenMap, opts>>
  PROVE  Abstract!SNext
<1>1. Abstract!SArrive BY DEF Abstract!SArrive, SeenMap, SeenCur, SeenVal, SeenOk, SeenCall
<1>2. QED BY <1>1 DEF Abstract!SNext

\* A call fails.
LEMMA SeenFail ==
  ASSUME SeenCall # Abstract!NoCall, SeenCall' = Abstract!NoCall,
         SeenCur' = None, SeenOk' = FALSE, SeenVal' = 0, UNCHANGED <<SeenMap, opts>>
  PROVE  Abstract!SNext
<1>1. Abstract!SFail BY DEF Abstract!SFail, SeenMap, SeenCur, SeenVal, SeenOk, SeenCall
<1>2. QED BY <1>1 DEF Abstract!SNext

\* The first and the last of some keys.
LEMMA LeastIs ==
  ASSUME NEW S, S \subseteq Nat, NEW k \in S, \A l \in S : k <= l
  PROVE  Abstract!Least(S) = k
<1>1. \A i \in S : (\A l \in S : i <= l) => i = k OBVIOUS
<1>2. QED BY <1>1 DEF Abstract!Least

\* The same of the last.
LEMMA GreatestIs ==
  ASSUME NEW S, S \subseteq Nat, NEW k \in S, \A l \in S : l <= k
  PROVE  Abstract!Greatest(S) = k
<1>1. \A i \in S : (\A l \in S : l <= i) => i = k OBVIOUS
<1>2. QED BY <1>1 DEF Abstract!Greatest

\* Where a call should lead: the first or the last of the keys it wants.
LEMMA TargetIs ==
  ASSUME Types, pc = "end", CallTypes(call)
  PROVE  Abstract!Target(SeenCall) = IF call.op \in Forwards THEN Abstract!Least(Wanted(call))
                                     ELSE Abstract!Greatest(Wanted(call))
<1>1. opts \in Options /\ ~Between BY DEF Types, Between
<1>2. /\ call.op \in {"seek", "seekPrev"} => call.key \in Nat
      /\ call.op \in {"next", "prev"} => call.cur \in Nat
      /\ opts.lower # None => opts.lower \in Nat
      /\ opts.upper # None => opts.upper \in Nat
  BY <1>1, CallNumbers
<1>3. Abstract!Shown = Shown
  <2>1. \A k \in Keys : k \in Nat /\ MapAt(it.seq)[k] = ValueAt(it.seq, k)
    BY NoneIs DEF MapAt
  <2>2. QED BY <1>2, <2>1 DEF Abstract!Shown, Shown
<1>4. \A k \in Shown : k \in Nat BY ShownTypes
<1>5. SeenCall.op = call.op /\ SeenCall.key = call.key BY DEF SeenCall
<1>6. CASE call.op = "first"
  <2>1. Wanted(call) = Shown BY <1>6 DEF Wanted, Fits
  <2>2. QED BY <1>3, <1>5, <1>6, <2>1 DEF Abstract!Target, Forwards
<1>7. CASE call.op = "last"
  <2>1. Wanted(call) = Shown BY <1>7 DEF Wanted, Fits
  <2>2. QED BY <1>3, <1>5, <1>7, <2>1 DEF Abstract!Target, Forwards
<1>8. CASE call.op = "seek"
  <2>1. Wanted(call) = {k \in Shown : k >= SeenCall.key}
    BY <1>2, <1>4, <1>5, <1>8 DEF Wanted, Fits
  <2>2. QED BY <1>3, <1>5, <1>8, <2>1 DEF Abstract!Target, Forwards
<1>9. CASE call.op = "seekPrev"
  <2>1. Wanted(call) = {k \in Shown : k <= SeenCall.key}
    BY <1>2, <1>4, <1>5, <1>9 DEF Wanted, Fits
  <2>2. QED BY <1>3, <1>5, <1>9, <2>1 DEF Abstract!Target, Forwards
<1>10. CASE call.op = "next"
  <2>1. Wanted(call) = {k \in Shown : k > call.cur}
    BY <1>2, <1>4, <1>10 DEF Wanted, Fits
  <2>2. QED BY <1>1, <1>3, <1>5, <1>10, <2>1 DEF Abstract!Target, Forwards
<1>11. CASE call.op = "prev"
  <2>1. Wanted(call) = {k \in Shown : k < call.cur}
    BY <1>2, <1>4, <1>11 DEF Wanted, Fits
  <2>2. QED BY <1>1, <1>3, <1>5, <1>11, <2>1 DEF Abstract!Target, Forwards
<1>12. QED BY <1>6, <1>7, <1>8, <1>9, <1>10, <1>11 DEF CallTypes, Forwards, Backwards

\* A step of a call leaves the database, the view and the number alone.
Inside == UNCHANGED <<db, ref>> /\ it'.seq = it.seq

\* Then the abstract cursor's map and bounds stay.
LEMMA SeenMapStays == Inside => SeenMap' = SeenMap /\ opts' = opts
BY DEF Inside, SeenMap, MapAt, ValueAt, Wrote, db, ref

\* So does whatever Goto and its kin end with.
LEMMA GoesInside ==
  ASSUME NEW p, NEW l, NEW i \in ItTypes, i.seq = it.seq,
         Goto(p, l, i) \/ GotoIfValid(p, l, i) \/ Finish(i)
  PROVE  Inside
<1>1. [i EXCEPT !.valid = FALSE].seq = i.seq BY DEF ItTypes
<1>2. UNCHANGED <<db, ref>> /\ (it' = i \/ it' = [i EXCEPT !.valid = FALSE])
  BY DEF GotoIfValid, Finish, Goto
<1>3. QED BY <1>1, <1>2 DEF Inside

\* The beginning of a call is such a step.
LEMMA CallsInside ==
  ASSUME Types, Position,
         SeekToFirst \/ SeekToLast \/ Next1 \/ Prev1 \/ \E k \in Keys : Seek(k) \/ SeekForPrev(k)
  PROVE  Inside
<1>1. Store(view) /\ opts \in Options /\ it \in ItTypes BY DEF Types
<1>2. ASSUME NEW k \in Keys, SeekForward(k) PROVE Inside
  <2>1. PICK t \in Keys : t = IF BelowLower(k) THEN opts.lower ELSE k
    BY <1>1, OptionTypes DEF BelowLower
  <2>2. QED BY <1>2, <2>1, SeekForwardOutcome DEF Inside
<1>3. ASSUME NEW k \in Keys, SeekBackward(k) PROVE Inside
  BY <1>3, SeekBackwardOutcome DEF Inside
<1>4. CASE SeekToFirst
  <2>1. CASE opts.lower # None
    <3>1. opts.lower \in Keys /\ SeekForward(opts.lower)
      BY <1>1, <1>4, <2>1, OptionTypes DEF SeekToFirst
    <3>2. QED BY <1>2, <3>1
  <2>2. CASE opts.lower = None
    <3>1. Move(FirstOf(view)) BY <1>4, <2>2 DEF SeekToFirst
    <3>2. PICK a \in view \cup {None} : a = at'
      <4>1. FirstOf(view) \in view \cup {None} BY <1>1, SomeFirst
      <4>2. QED BY <3>1, <4>1, MoveIs
    <3>3. a # None => a.key \in Keys BY <1>1, EntryType DEF Store
    <3>4. PICK i : i = [Sought EXCEPT !.dir = "forward", !.saved = IF a = None THEN @ ELSE a.key]
      OBVIOUS
    <3>5. GotoIfValid("find", NoLocals, i) BY <1>4, <2>2, <3>2, <3>4 DEF SeekToFirst
    <3>6. Sought \in ItTypes /\ Sought.seq = it.seq BY <1>1 DEF Sought, ItTypes
    <3>7. PICK s \in ItTypes : s = Sought BY <3>6
    <3>8. i \in ItTypes /\ i.seq = s.seq
      <4>1. CASE a = None BY <3>4, <3>7, <4>1 DEF ItTypes
      <4>2. CASE a # None BY <3>3, <3>4, <3>7, <4>2 DEF ItTypes
      <4>3. QED BY <4>1, <4>2
    <3>9. QED BY <3>5, <3>6, <3>7, <3>8, GoesInside
  <2>3. QED BY <2>1, <2>2
<1>5. CASE SeekToLast
  <2>1. CASE opts.upper # None
    <3>1. opts.upper \in Keys /\ SeekBackward(opts.upper)
      BY <1>1, <1>5, <2>1, OptionTypes DEF SeekToLast
    <3>2. QED BY <1>3, <3>1
  <2>2. CASE opts.upper = None
    <3>1. PICK i : i = [Sought EXCEPT !.dir = "reverse"] OBVIOUS
    <3>2. i \in ItTypes /\ i.seq = it.seq BY <1>1, <3>1 DEF Sought, ItTypes
    <3>3. Goto("prev", NoLocals, i) BY <1>5, <2>2, <3>1 DEF SeekToLast
    <3>4. QED BY <3>2, <3>3, GoesInside
  <2>3. QED BY <2>1, <2>2
<1>6. CASE Next1
  <2>1. CASE it.dir = "forward"
    <3>1. PICK i : i = [it EXCEPT !.work = 0] OBVIOUS
    <3>2. i \in ItTypes /\ i.seq = it.seq BY <1>1, <3>1 DEF ItTypes
    <3>3. GotoIfValid("find", [NoLocals EXCEPT !.skipping = TRUE], i)
      BY <1>6, <2>1, <3>1 DEF Next1
    <3>4. QED BY <3>2, <3>3, GoesInside
  <2>2. CASE it.dir # "forward"
    <3>1. PICK i : i = [it EXCEPT !.work = 0, !.zero = FALSE, !.dir = "forward"] OBVIOUS
    <3>2. i \in ItTypes /\ i.seq = it.seq BY <1>1, <3>1 DEF ItTypes
    <3>3. GotoIfValid("turn", NoLocals, i) BY <1>6, <2>2, <3>1 DEF Next1
    <3>4. QED BY <3>2, <3>3, GoesInside
  <2>3. QED BY <2>1, <2>2
<1>7. CASE Prev1
  <2>1. CASE it.dir = "forward"
    <3>1. PICK i : i = [it EXCEPT !.work = 0, !.dir = "reverse"] OBVIOUS
    <3>2. i \in ItTypes /\ i.seq = it.seq BY <1>1, <3>1 DEF ItTypes
    <3>3. Goto("back", [NoLocals EXCEPT !.from = "turn"], i) BY <1>7, <2>1, <3>1 DEF Prev1
    <3>4. QED BY <3>2, <3>3, GoesInside
  <2>2. CASE it.dir # "forward"
    <3>1. PICK i : i = [it EXCEPT !.work = 0] OBVIOUS
    <3>2. i \in ItTypes /\ i.seq = it.seq BY <1>1, <3>1 DEF ItTypes
    <3>3. Goto("prev", NoLocals, i) BY <1>7, <2>2, <3>1 DEF Prev1
    <3>4. QED BY <3>2, <3>3, GoesInside
  <2>3. QED BY <2>1, <2>2
<1>8. QED BY <1>2, <1>3, <1>4, <1>5, <1>6, <1>7 DEF Seek, SeekForPrev

\* So is an iteration of a loop.
LEMMA LoopsInside ==
  ASSUME Types, Position,
         \/ FindStops \/ FindRepeated \/ FindDeleted \/ FindYields \/ FindNewer
         \/ Turn \/ PrevKey \/ ValueKnown \/ ValueOlder \/ ValueBySeek
         \/ BackDone \/ BackSteps \/ GiveUp
  PROVE  Inside /\ call' = call
<1>1. Store(view) /\ opts \in Options /\ it \in ItTypes /\ at \in view \cup {None} BY DEF Types
<1>2. call' = call
  BY DEF FindStops, FindRepeated, FindDeleted, FindYields, FindNewer, Turn, PrevKey, ValueKnown,
         ValueOlder, ValueBySeek, BackDone, BackSteps, GiveUp
<1>3. \A p, l : Goto(p, l, it) \/ GotoIfValid(p, l, it) \/ Finish(it) => Inside
  BY <1>1, GoesInside
<1>4. /\ [it EXCEPT !.valid = FALSE] \in ItTypes /\ [it EXCEPT !.valid = FALSE].seq = it.seq
      /\ Incomplete(it) \in ItTypes /\ Incomplete(it).seq = it.seq
  BY <1>1 DEF ItTypes, Incomplete
<1>5. pc = "find" => at # None /\ at \in view /\ at.key \in Keys
  <2>1. pc = "find" => at # None BY DEF Position, FindAt
  <2>2. QED BY <1>1, <2>1, EntryType DEF Store
<1>6. CASE FindStops
  <2>1. PICK i : i = IF AtUpper(at.key) THEN [Seen EXCEPT !.valid = FALSE] ELSE Incomplete(Seen)
    OBVIOUS
  <2>2. i \in ItTypes /\ i.seq = it.seq BY <1>1, <2>1 DEF Seen, Incomplete, ItTypes
  <2>3. Finish(i) BY <1>6, <2>1 DEF FindStops
  <2>4. QED BY <1>2, <2>2, <2>3, GoesInside
<1>7. ASSUME pc = "find", NEW i, NEW l, Leaving(i, l), Advance(i, l) PROVE Inside
  BY <1>5, <1>7, AdvanceOutcome DEF Inside
<1>8. CASE FindRepeated
  <2>1. pc = "find" BY <1>8 DEF FindRepeated, Looking
  <2>2. Leaving(Worked(Seen), [loc EXCEPT !.n = @ + 1]) BY <1>8, FindRepeatedLeaves
  <2>3. Advance(Worked(Seen), [loc EXCEPT !.n = @ + 1]) BY <1>8 DEF FindRepeated
  <2>4. QED BY <1>2, <1>7, <2>1, <2>2, <2>3
<1>9. CASE FindDeleted
  <2>1. pc = "find" BY <1>9 DEF FindDeleted, Looking
  <2> DEFINE l == [loc EXCEPT !.skipping = TRUE, !.n = 0, !.reseek = FALSE]
             i == [Worked(Seen) EXCEPT !.saved = at.key]
  <2>2. Leaving(i, l) BY <1>9, FindDeletedLeaves
  <2>3. Advance(i, l) BY <1>9 DEF FindDeleted
  <2>4. QED BY <1>2, <1>7, <2>1, <2>2, <2>3
<1>10. CASE FindNewer
  <2>1. pc = "find" BY <1>10 DEF FindNewer, Looking
  <2>2. PICK i, l : Leaving(i, l) /\ Advance(i, l) BY <1>10, FindNewerLeaves
  <2>3. QED BY <1>2, <1>7, <2>1, <2>2
<1>11. CASE FindYields
  <2>1. pc = "find" BY <1>11 DEF FindYields, Looking
  <2>2. PICK w \in ItTypes : w = Worked(Seen) /\ w.seq = it.seq BY <1>5, <2>1, SeenIs
  <2>3. PICK i : i = [w EXCEPT !.saved = at.key, !.valid = TRUE] OBVIOUS
  <2>4. i \in ItTypes /\ i.seq = it.seq BY <1>5, <2>1, <2>2, <2>3 DEF ItTypes
  <2>5. Finish(i) BY <1>11, <2>2, <2>3 DEF FindYields
  <2>6. QED BY <1>2, <2>4, <2>5, GoesInside
<1>12. CASE Turn BY <1>2, <1>3, <1>12 DEF Turn
<1>13. CASE PrevKey
  <2>1. PICK i : /\ Finish(i) \/ Goto("value", NoLocals, i)
                 /\ \/ i = [it EXCEPT !.valid = FALSE]
                    \/ at # None /\ i = [it EXCEPT !.valid = FALSE, !.saved = at.key]
                    \/ at # None /\ i = [it EXCEPT !.saved = at.key]
    BY <1>13 DEF PrevKey
  <2>2. at # None => at.key \in Keys BY <1>1, EntryType DEF Store
  <2>3. i \in ItTypes /\ i.seq = it.seq
    <3>1. CASE i = [it EXCEPT !.valid = FALSE] BY <1>4, <3>1
    <3>2. CASE at # None /\ i = [it EXCEPT !.valid = FALSE, !.saved = at.key]
      BY <1>1, <2>2, <3>2 DEF ItTypes
    <3>3. CASE at # None /\ i = [it EXCEPT !.saved = at.key] BY <1>1, <2>2, <3>3 DEF ItTypes
    <3>4. QED BY <2>1, <3>1, <3>2, <3>3
  <2>4. QED BY <1>2, <2>1, <2>3, GoesInside
<1>14. CASE ValueKnown
  <2>1. loc.found \in BOOLEAN BY DEF Types, LocTypes
  <2>2. [it EXCEPT !.valid = loc.found] \in ItTypes /\ [it EXCEPT !.valid = loc.found].seq = it.seq
    BY <1>1, <2>1 DEF ItTypes
  <2>3. QED BY <1>2, <1>4, <1>14, <2>2, GoesInside DEF ValueKnown
<1>15. PICK w \in ItTypes : w = Worked(it) /\ w.seq = it.seq BY WorkedIs
<1>16. CASE ValueOlder
  <2>1. PICK i : /\ i = [w EXCEPT !.pinned = IF Live(at) THEN at.val ELSE @]
                 /\ Goto("value", [loc EXCEPT !.found = Live(at), !.n = @ + 1], i)
    BY <1>15, <1>16 DEF ValueOlder
  <2>2. at.val \in Nat BY <1>1, <1>16, EntryType DEF ValueOlder, OfCurrentKey, Store
  <2>3. i \in ItTypes /\ i.seq = it.seq BY <1>15, <2>1, <2>2 DEF ItTypes
  <2>4. QED BY <1>2, <2>1, <2>3, GoesInside
<1>17. CASE ValueBySeek
  <2>1. PICK e : e = at' OBVIOUS
  <2>2. CASE e = None
    <3>1. PICK i : i = [w EXCEPT !.valid = FALSE] /\ Finish(i)
      BY <1>15, <1>17, <2>1, <2>2 DEF ValueBySeek
    <3>2. i \in ItTypes /\ i.seq = it.seq BY <1>15, <3>1 DEF ItTypes
    <3>3. QED BY <1>2, <3>1, <3>2, GoesInside
  <2>3. CASE e # None
    <3>1. Move(SeekTo(it.saved, it.seq)) BY <1>17 DEF ValueBySeek
    <3>2. SeekTo(it.saved, it.seq) \in view \cup {None} BY <1>1, SeekToIs DEF From
    <3>3. e \in view /\ e.val \in Nat BY <1>1, <2>1, <2>3, <3>1, <3>2, MoveIs, EntryType DEF Store
    <3>4. PICK b \in BOOLEAN : b = (e.key = it.saved /\ Live(e)') BY DEF Live
    <3>5. PICK i : /\ i = [w EXCEPT !.valid = b, !.pinned = IF b THEN e.val ELSE @]
                   /\ Goto("back", [NoLocals EXCEPT !.from = "prev"], i)
      BY <1>15, <1>17, <2>1, <2>3, <3>4 DEF ValueBySeek, Goto, ref, Live, ShouldDelete
    <3>6. i \in ItTypes /\ i.seq = it.seq BY <1>15, <3>3, <3>5 DEF ItTypes
    <3>7. QED BY <1>2, <3>5, <3>6, GoesInside
  <2>4. QED BY <2>2, <2>3
<1>18. CASE BackDone
  BY <1>1, <1>2, <1>4, <1>18, GoesInside DEF BackDone
<1>19. CASE BackSteps
  <2>1. Goto("back", [loc EXCEPT !.n = 0], w) \/ Goto("back", [loc EXCEPT !.n = @ + 1], w)
    BY <1>15, <1>19 DEF BackSteps
  <2>2. QED BY <1>2, <1>15, <2>1, GoesInside
<1>20. CASE GiveUp BY <1>2, <1>4, <1>20, GoesInside DEF GiveUp
<1>21. QED
  BY <1>6, <1>8, <1>9, <1>10, <1>11, <1>12, <1>13, <1>14, <1>16, <1>17, <1>18, <1>19, <1>20

\* The state of a key is a number.
LEMMA ValueType ==
  ASSUME NEW n \in Nat, NEW k
  PROVE  ValueAt(n, k) \in Nat
<1>1. CASE Wrote(n, k) = {} BY <1>1, ValueIs
<1>2. CASE Wrote(n, k) # {}
  <2>1. Wrote(n, k) \subseteq 1 .. n BY DEF Wrote
  <2>2. PICK m \in Wrote(n, k) : \A j \in Wrote(n, k) : j <= m
    <3> DEFINE T == {n - j : j \in Wrote(n, k)}
    <3>1. T \subseteq Nat /\ T # {} BY <1>2, <2>1
    <3>2. PICK a \in T : \A l \in T : a <= l BY <3>1, Least
    <3>3. PICK j \in Wrote(n, k) : a = n - j OBVIOUS
    <3>4. ASSUME NEW l \in Wrote(n, k) PROVE l <= j
      <4>1. n - j <= n - l BY <3>2, <3>3
      <4>2. QED BY <2>1, <4>1
    <3>5. QED BY <3>4
  <2>3. LastWrite(Wrote(n, k)) = m BY <2>1, <2>2, LastWriteIs
  <2>4. QED BY <1>2, <2>1, <2>3, ValueIs
<1>3. QED BY <1>1, <1>2

\* Between calls the abstract cursor executes none.
LEMMA SeenIdle ==
  ASSUME call = NoCall
  PROVE  SeenCall = Abstract!NoCall
BY DEF SeenCall, NoCall, Abstract!NoCall

\* During a call it executes one.
LEMMA SeenBusy ==
  ASSUME CallTypes(call)
  PROVE  SeenCall # Abstract!NoCall
<1>1. call.op # "none" BY DEF CallTypes, Forwards, Backwards
<1>2. QED BY <1>1 DEF SeenCall, Abstract!NoCall

\* Creation and Refresh renew the abstract cursor.
LEMMA RenewRefines ==
  ASSUME Types, Position, NewIterator \/ RefreshInPlace \/ RefreshAnew
  PROVE  Abstract!SNext
<1>1. /\ log' = log /\ opts' = opts /\ call' = call /\ pc' = "idle" /\ pc \in {"new", "idle"}
  BY DEF NewIterator, RefreshInPlace, RefreshAnew, db, ref
<1>2. it \in ItTypes /\ innerOk \in BOOLEAN /\ Len(log) \in Nat /\ call = NoCall
  BY <1>1 DEF Types
<1>3. ~it'.valid /\ it'.ok \in BOOLEAN /\ it'.seq = Len(log) /\ innerOk' \in BOOLEAN
  <2>1. CASE NewIterator BY <1>2, <2>1 DEF NewIterator, NewDBIter, inner
  <2>2. CASE RefreshAnew BY <1>2, <2>2 DEF RefreshAnew, NewDBIter
  <2>3. CASE RefreshInPlace BY <1>2, <2>3 DEF RefreshInPlace, ItTypes, inner
  <2>4. QED BY <2>1, <2>2, <2>3
<1>4. SeenCall = Abstract!NoCall BY <1>2, SeenIdle
<1>5. SeenCall' = Abstract!NoCall BY <1>1, <1>4 DEF SeenCall
<1>6. SeenCur' = None /\ SeenVal' = 0 BY <1>1, <1>3 DEF SeenCur, SeenVal, Between, Key, Value
<1>7. SeenOk' \in BOOLEAN BY <1>1, <1>3 DEF SeenOk, Between, StatusOk
<1>8. SeenMap' \in [Keys -> Nat]
  <2>1. PICK n \in Nat : n = it'.seq BY <1>2, <1>3
  <2>2. \A k : ValueAt(it.seq, k)' = ValueAt(n, k) BY <1>1, <2>1 DEF ValueAt, Wrote
  <2>3. \A k : ValueAt(n, k) \in Nat BY ValueType
  <2>4. QED BY <2>2, <2>3 DEF SeenMap, MapAt
<1>9. QED BY <1>1, <1>4, <1>5, <1>6, <1>7, <1>8, SeenRenew

\* A call of the binding begins a call of the abstract cursor.
LEMMA CallRefines ==
  ASSUME Types, Position, Types',
         NEW op \in Forwards \cup Backwards, NEW k \in Keys \cup {None}, Calling(op, k),
         IF op \in {"seek", "seekPrev"} THEN k \in Keys ELSE k = None,
         op \in {"next", "prev"} => it.valid, Inside
  PROVE  Abstract!SNext
<1>1. /\ pc = "idle" /\ call = NoCall
      /\ call' = [op |-> op, key |-> k, cur |-> Key(it), val |-> Value(it, at),
                  ok |-> StatusOk(it, innerOk)]
  BY DEF Calling, Types
<1>2. PICK c : c = [op |-> op, key |-> k] OBVIOUS
<1>3. call'.op = op /\ call'.key = k BY <1>1
<1>4. op # "none" BY DEF Forwards, Backwards
<1>5. call' # NoCall BY <1>3, <1>4 DEF NoCall
<1>6. ~Between' BY <1>5 DEF Types, Between
<1>7. SeenCall' = c BY <1>2, <1>3 DEF SeenCall
<1>8. SeenCur' = SeenCur /\ SeenVal' = SeenVal /\ SeenOk' = SeenOk
  BY <1>1, <1>6 DEF SeenCur, SeenVal, SeenOk, Between
<1>9. SeenMap' = SeenMap /\ opts' = opts BY SeenMapStays
<1>10. c \in Abstract!Moves \cup Abstract!Steps
  BY <1>2 DEF Abstract!Moves, Abstract!Steps, Forwards, Backwards
<1>11. c \in Abstract!Steps => SeenCur # None
  <2>1. c \in Abstract!Steps => op \in {"next", "prev"} BY <1>2 DEF Abstract!Steps
  <2>2. it.valid => Key(it) # None BY <1>1, StandFacts, NoneIs DEF Key
  <2>3. QED BY <1>1, <2>1, <2>2 DEF SeenCur, Between
<1>12. SeenCall = Abstract!NoCall BY <1>1, SeenIdle
<1>13. QED BY <1>7, <1>8, <1>9, <1>10, <1>11, <1>12, SeenBegin

\* So does each of the six calls.
LEMMA CallsRefine ==
  ASSUME Types, Position, Types',
         SeekToFirst \/ SeekToLast \/ Next1 \/ Prev1 \/ \E k \in Keys : Seek(k) \/ SeekForPrev(k)
  PROVE  Abstract!SNext
<1>1. Inside BY CallsInside
<1>2. CASE SeekToFirst
  <2>1. Calling("first", None) BY <1>2 DEF SeekToFirst
  <2>2. QED BY <1>1, <2>1, CallRefines DEF Forwards
<1>3. CASE SeekToLast
  <2>1. Calling("last", None) BY <1>3 DEF SeekToLast
  <2>2. QED BY <1>1, <2>1, CallRefines DEF Backwards
<1>4. CASE Next1
  <2>1. Calling("next", None) /\ it.valid BY <1>4 DEF Next1
  <2>2. QED BY <1>1, <2>1, CallRefines DEF Forwards
<1>5. CASE Prev1
  <2>1. Calling("prev", None) /\ it.valid BY <1>5 DEF Prev1
  <2>2. QED BY <1>1, <2>1, CallRefines DEF Backwards
<1>6. ASSUME NEW k \in Keys, Seek(k) PROVE Abstract!SNext
  <2>1. Calling("seek", k) BY <1>6 DEF Seek
  <2>2. QED BY <1>1, <2>1, CallRefines DEF Forwards
<1>7. ASSUME NEW k \in Keys, SeekForPrev(k) PROVE Abstract!SNext
  <2>1. Calling("seekPrev", k) BY <1>7 DEF SeekForPrev
  <2>2. QED BY <1>1, <2>1, CallRefines DEF Backwards
<1>8. QED BY <1>2, <1>3, <1>4, <1>5, <1>6, <1>7

\* A step of a loop is none of the abstract cursor's.
LEMMA LoopsRefine ==
  ASSUME Types, Position, Types',
         \/ FindStops \/ FindRepeated \/ FindDeleted \/ FindYields \/ FindNewer
         \/ Turn \/ PrevKey \/ ValueKnown \/ ValueOlder \/ ValueBySeek
         \/ BackDone \/ BackSteps \/ GiveUp
  PROVE  UNCHANGED Abstract!svars
<1>1. Inside /\ call' = call BY LoopsInside
<1>2. pc \notin {"new", "idle"}
  BY DEF FindStops, FindRepeated, FindDeleted, FindYields, FindNewer, Turn, PrevKey, ValueKnown,
         ValueOlder, ValueBySeek, BackDone, BackSteps, GiveUp, Looking
<1>3. call # NoCall BY <1>2 DEF Types
<1>4. ~Between /\ ~Between' BY <1>1, <1>2, <1>3 DEF Types, Between
<1>5. SeenMap' = SeenMap /\ opts' = opts BY <1>1, SeenMapStays
<1>6. SeenCur' = SeenCur /\ SeenVal' = SeenVal /\ SeenOk' = SeenOk /\ SeenCall' = SeenCall
  BY <1>1, <1>4 DEF SeenCur, SeenVal, SeenOk, SeenCall
<1>7. QED BY <1>5, <1>6, SeenStutters DEF SeenBy

\* A call that returns is the abstract cursor's arrival or its failure.
LEMMA ReturnRefines ==
  ASSUME Types, Position, Data, Return
  PROVE  Abstract!SNext
<1>1. /\ pc = "end" /\ pc' = "idle" /\ call' = NoCall
      /\ UNCHANGED <<db, ref>> /\ it' = it /\ at' = at /\ innerOk' = innerOk
  BY DEF Return, inner
<1>2. CallTypes(call) /\ EndData BY <1>1 DEF Data, CallOK
<1>3. SeenCall # Abstract!NoCall BY <1>2, SeenBusy
<1>4. SeenCall' = Abstract!NoCall BY <1>1 DEF SeenCall, NoCall, Abstract!NoCall
<1>5. SeenMap' = SeenMap /\ opts' = opts BY <1>1, SeenMapStays DEF Inside
<1>6. /\ SeenCur' = Key(it) /\ SeenVal' = Value(it, at) /\ SeenOk' = StatusOk(it, innerOk)
  BY <1>1 DEF SeenCur, SeenVal, SeenOk, Between
<1>7. /\ Wanted(call) \subseteq Keys /\ Wanted(call) \subseteq Nat
      /\ it \in ItTypes /\ innerOk \in BOOLEAN
  BY ShownTypes DEF Types
<1>8. Abstract!Target(SeenCall) = IF call.op \in Forwards THEN Abstract!Least(Wanted(call))
                                  ELSE Abstract!Greatest(Wanted(call))
  BY <1>1, <1>2, TargetIs
<1>9. CASE it.valid
  <2>1. /\ it.saved \in Wanted(call) /\ Value(it, at) = ValueAt(it.seq, it.saved)
        /\ \A k \in Wanted(call) : IF call.op \in Forwards THEN it.saved <= k ELSE k <= it.saved
    BY <1>1, <1>2, <1>9 DEF EndData
  <2>2. PICK k \in Wanted(call) : k = it.saved BY <2>1
  <2>3. Abstract!Target(SeenCall) = k
    <3>1. CASE call.op \in Forwards
      <4>1. \A l \in Wanted(call) : k <= l BY <2>1, <2>2, <3>1
      <4>2. Abstract!Least(Wanted(call)) = k BY <1>7, <2>2, <4>1, LeastIs
      <4>3. QED BY <1>8, <3>1, <4>2
    <3>2. CASE call.op \notin Forwards
      <4>1. \A l \in Wanted(call) : l <= k BY <2>1, <2>2, <3>2
      <4>2. Abstract!Greatest(Wanted(call)) = k BY <1>7, <2>2, <4>1, GreatestIs
      <4>3. QED BY <1>8, <3>2, <4>2
    <3>3. QED BY <3>1, <3>2
  <2>4. SeenCur' = k /\ k # None BY <1>6, <1>7, <1>9, <2>2, NoneIs DEF Key
  <2>5. SeenVal' = SeenMap[k] BY <1>6, <1>7, <2>1, <2>2 DEF SeenMap, MapAt
  <2>6. SeenOk' = TRUE BY <1>1, <1>6, <1>9, StandFacts DEF StatusOk
  <2>7. QED BY <1>3, <1>4, <1>5, <2>3, <2>4, <2>5, <2>6, SeenArrive
<1>10. CASE ~it.valid /\ it.ok /\ innerOk
  <2>1. Wanted(call) = {} BY <1>1, <1>2, <1>10 DEF EndData
  <2>2. Abstract!Target(SeenCall) = None BY <1>8, <2>1 DEF Abstract!Least, Abstract!Greatest
  <2>3. SeenCur' = None /\ SeenVal' = 0 /\ SeenOk' = TRUE
    BY <1>6, <1>10 DEF Key, Value, StatusOk
  <2>4. QED BY <1>3, <1>4, <1>5, <2>2, <2>3, SeenArrive
<1>11. CASE ~it.valid /\ ~(it.ok /\ innerOk)
  <2>1. SeenCur' = None /\ SeenVal' = 0 /\ SeenOk' = FALSE
    BY <1>6, <1>7, <1>11 DEF Key, Value, StatusOk
  <2>2. QED BY <1>3, <1>4, <1>5, <2>1, SeenFail
<1>12. QED BY <1>9, <1>10, <1>11

\* Where the iterator's map, its fields and its call stay, so does the abstract
\* cursor.
LEMMA SeenStays ==
  ASSUME UNCHANGED <<opts, it, at, innerOk, pc, call>>,
         \A k : ValueAt(it.seq, k)' = ValueAt(it.seq, k)
  PROVE  UNCHANGED Abstract!svars
<1>1. SeenMap' = SeenMap BY DEF SeenMap, MapAt
<1>2. SeenCur' = SeenCur /\ SeenVal' = SeenVal /\ SeenOk' = SeenOk /\ SeenCall' = SeenCall
  BY DEF SeenCur, SeenVal, SeenOk, SeenCall, Between, Key, Value, StatusOk
<1>3. QED BY <1>1, <1>2, SeenStutters DEF SeenBy

\* What happens to the database is no step of the abstract cursor.
LEMMA DatabaseRefines ==
  ASSUME Types, Faithful, Database
  PROVE  UNCHANGED Abstract!svars
<1>1. ASSUME NEW kind \in {"put", "delete"}, NEW k \in Keys, Write(kind, k)
      PROVE  UNCHANGED Abstract!svars
  <2>1. \A j : ValueAt(it.seq, j)' = ValueAt(it.seq, j) BY <1>1, WriteFaithful
  <2>2. UNCHANGED <<opts, it, at, innerOk, pc, call>> BY <1>1 DEF Write, inner
  <2>3. QED BY <2>1, <2>2, SeenStays
<1>2. ASSUME NEW r \in Ranges, DeleteRange(r)
      PROVE  UNCHANGED Abstract!svars
  <2>1. \A j : ValueAt(it.seq, j)' = ValueAt(it.seq, j) BY <1>2, DeleteRangeFaithful
  <2>2. UNCHANGED <<opts, it, at, innerOk, pc, call>> BY <1>2 DEF DeleteRange, inner, ref
  <2>3. QED BY <2>1, <2>2, SeenStays
<1>3. CASE Compact
  <2>1. UNCHANGED <<log, opts, it, at, innerOk, pc, call>> BY <1>3 DEF Compact, inner, ref
  <2>2. \A j : ValueAt(it.seq, j)' = ValueAt(it.seq, j) BY <2>1 DEF ValueAt, Wrote
  <2>3. QED BY <2>1, <2>2, SeenStays
<1>4. QED BY <1>1, <1>2, <1>3 DEF Database

\* The cursor starts as the abstract cursor does.
LEMMA SeenInit == Init => Abstract!SInit
<1> SUFFICES ASSUME Init PROVE Abstract!SInit OBVIOUS
<1>1. /\ opts \in Options /\ it = NewDBIter(0, 0) /\ at = None /\ innerOk = TRUE
      /\ pc = "new" /\ call = NoCall
  BY DEF Init
<1>2. opts.lower \in Keys \cup {None} /\ opts.upper \in Keys \cup {None} BY <1>1, OptionTypes
<1>3. \A k : Wrote(0, k) = {} BY DEF Wrote
<1>4. \A k : ValueAt(0, k) = 0 BY <1>3, ValueIs
<1>5. it.seq = 0 /\ ~it.valid /\ it.ok BY <1>1 DEF NewDBIter
<1>6. SeenMap = [k \in Keys |-> 0] BY <1>4, <1>5 DEF SeenMap, MapAt
<1>7. SeenCur = None /\ SeenVal = 0 /\ SeenOk = TRUE
  BY <1>1, <1>5 DEF SeenCur, SeenVal, SeenOk, Between, Key, Value, StatusOk
<1>8. SeenCall = Abstract!NoCall BY <1>1, SeenIdle
<1>9. QED
  BY <1>2, <1>6, <1>7, <1>8 DEF Abstract!SInit, SeenMap, SeenCur, SeenVal, SeenOk, SeenCall

\* Every step is one of the abstract cursor, or none.
LEMMA SeenNext ==
  ASSUME CursorInv, Types', [Next]_vars
  PROVE  [Abstract!SNext]_(Abstract!svars)
<1>1. Types /\ Position /\ Data /\ Faithful BY DEF CursorInv, Data
<1>2. CASE UNCHANGED vars
  <2>1. UNCHANGED <<log, opts, it, at, innerOk, pc, call>>
    BY <1>2 DEF vars, db, ref, inner
  <2>2. \A j : ValueAt(it.seq, j)' = ValueAt(it.seq, j) BY <2>1 DEF ValueAt, Wrote
  <2>3. UNCHANGED Abstract!svars BY <2>1, <2>2, SeenStays
  <2>4. QED BY <2>3
<1>3. CASE Database BY <1>1, <1>3, DatabaseRefines
<1>4. CASE JavaScript
  <2>1. CASE NewIterator \/ RefreshInPlace \/ RefreshAnew BY <1>1, <2>1, RenewRefines
  <2>2. CASE \/ SeekToFirst \/ SeekToLast \/ Next1 \/ Prev1
             \/ \E k \in Keys : Seek(k) \/ SeekForPrev(k)
    BY <1>1, <2>2, CallsRefine
  <2>3. QED BY <1>4, <2>1, <2>2 DEF JavaScript
<1>5. CASE Loops
  <2>1. CASE Return BY <1>1, <2>1, ReturnRefines
  <2>2. CASE \/ FindStops \/ FindRepeated \/ FindDeleted \/ FindYields \/ FindNewer
             \/ Turn \/ PrevKey \/ ValueKnown \/ ValueOlder \/ ValueBySeek
             \/ BackDone \/ BackSteps \/ GiveUp
    BY <1>1, <2>2, LoopsRefine
  <2>3. QED BY <1>5, <2>1, <2>2 DEF Loops
<1>6. QED BY <1>2, <1>3, <1>4, <1>5 DEF Next

\* Unless it is refreshed across a DeleteRange, the iterator is a cursor over
\* the map there was when it was made or last refreshed: every call leads where
\* that map and the bounds say, or fails and its status says so, whatever is
\* written, deleted or compacted between and during the calls.
THEOREM CursorImplementsSorted ==
  ASSUME Careful
  PROVE  Spec => ImplementsSortedCursor
<1>1. CursorInv' => Types' BY DEF CursorInv
<1>2. CursorInv /\ CursorInv' /\ [Next]_vars => [Abstract!SNext]_(Abstract!svars)
  BY <1>1, SeenNext
<1>3. QED
  BY <1>2, SeenInit, CursorInvariance, PTL DEF Spec, ImplementsSortedCursor, Abstract!SSpec
=============================================================================
