----------------------------- MODULE Mvcc_proof ------------------------------
(***************************************************************************)
(* Theorems about Mvcc: its types, the order of its levels, and that it    *)
(* implements KVStore, for any keys, batches, snapshots and iterators.     *)
(*                                                                         *)
(* What a reader walks is a stack of levels (Levels_proof).  The first     *)
(* half says what each operation does to the stack of one SuperVersion;    *)
(* the second carries that through the steps of the system.                *)
(***************************************************************************)
EXTENDS Mvcc, Levels_proof

Tables == [1 .. MaxMem -> SUBSET Entry]

\* The levels of sv over the tables tb, how many they are, what they hold.
LevelsIn(tb, sv) == <<tb[sv.mem]>> \o [i \in DOMAIN sv.imm |-> tb[sv.imm[i]]] \o sv.runs
Depth(sv) == 1 + Len(sv.imm) + Len(sv.runs)
Holds(tb, sv) == Between(LevelsIn(tb, sv), 1, Depth(sv))
ViewIn(tb, sv, n) == [k \in Keys |-> Lookup(Holds(tb, sv), k, n)]

\* The tables when m is the mutable one, n the last published number and d
\* updates of a batch are in: the newer numbers are in the mutable table.
TablesIn(tb, m, n, d) ==
  /\ tb \in Tables /\ m \in 1 .. MaxMem /\ n \in Nat /\ d \in Nat
  /\ \A t \in 1 .. MaxMem : t > m => tb[t] = {}
  /\ \A t \in 1 .. MaxMem : \A e \in tb[t] : e.seq > 0 /\ e.seq <= n + d
  /\ \A t \in 1 .. MaxMem : t # m => \A e \in tb[t] : e.seq <= n

\* A SuperVersion somebody may read: its levels are ordered by age, only the
\* mutable memtable can still grow, and its files hold published updates.
Good(tb, m, n, sv) ==
  /\ sv \in SuperVersions
  /\ sv.mem <= m /\ \A i \in 1 .. Len(sv.imm) : sv.imm[i] < sv.mem
  /\ \A i \in 1 .. Len(sv.runs) : \A e \in sv.runs[i] : e.seq <= n
  /\ Sound(Keys, Depth(sv), LevelsIn(tb, sv))

-----------------------------------------------------------------------------
(***************************************************************************)
(* One SuperVersion.                                                       *)
(***************************************************************************)

\* Sequences of memtables and of runs.
LEMMA SeqParts ==
  /\ \A s \in Seq(1 .. MaxMem) : /\ Len(s) \in Nat /\ DOMAIN s = 1 .. Len(s)
                                 /\ \A i \in 1 .. Len(s) : s[i] \in 1 .. MaxMem
  /\ \A s \in Seq(SUBSET Entry) : /\ Len(s) \in Nat /\ s \in [1 .. Len(s) -> SUBSET Entry]
                                  /\ \A i \in 1 .. Len(s) : s[i] \in SUBSET Entry
<1> SUFFICES ASSUME NEW S
             PROVE  \A s \in Seq(S) : /\ Len(s) \in Nat /\ DOMAIN s = 1 .. Len(s)
                                     /\ s \in [1 .. Len(s) -> S]
                                     /\ \A i \in 1 .. Len(s) : s[i] \in S
  OBVIOUS
<1>1. QED OBVIOUS

\* Of a concatenation.
LEMMA ConcatParts ==
  \A s, t \in Seq(SUBSET Entry) :
    /\ s \o t \in Seq(SUBSET Entry) /\ Len(s \o t) = Len(s) + Len(t)
    /\ \A i \in 1 .. Len(s) : (s \o t)[i] = s[i]
    /\ \A i \in 1 .. Len(t) : (s \o t)[Len(s) + i] = t[i]
<1> SUFFICES ASSUME NEW S
             PROVE  \A s, t \in Seq(S) :
                      /\ s \o t \in Seq(S) /\ Len(s \o t) = Len(s) + Len(t)
                      /\ \A i \in 1 .. Len(s) : (s \o t)[i] = s[i]
                      /\ \A i \in 1 .. Len(t) : (s \o t)[Len(s) + i] = t[i]
  OBVIOUS
<1>1. QED OBVIOUS

\* The parts of a SuperVersion.
LEMMA SuperVersionTypes ==
  ASSUME NEW sv \in SuperVersions
  PROVE  /\ sv.mem \in 1 .. MaxMem /\ sv.mem \in Nat
         /\ sv.imm \in Seq(1 .. MaxMem) /\ sv.runs \in Seq(SUBSET Entry)
         /\ Len(sv.imm) \in Nat /\ Len(sv.runs) \in Nat
         /\ \A i \in 1 .. Len(sv.imm) : sv.imm[i] \in 1 .. MaxMem
         /\ \A i \in 1 .. Len(sv.runs) : sv.runs[i] \in SUBSET Entry
         /\ Depth(sv) \in Nat
<1>1. sv.mem \in 1 .. MaxMem /\ sv.imm \in Seq(1 .. MaxMem) /\ sv.runs \in Seq(SUBSET Entry)
  BY DEF SuperVersions
<1>2. Len(sv.imm) \in Nat /\ \A i \in 1 .. Len(sv.imm) : sv.imm[i] \in 1 .. MaxMem
  BY <1>1, SeqParts
<1>3. Len(sv.runs) \in Nat /\ \A i \in 1 .. Len(sv.runs) : sv.runs[i] \in SUBSET Entry
  BY <1>1, SeqParts
<1>4. sv.mem \in Nat BY <1>1
<1>5. Depth(sv) \in Nat
  <2>1. \A a, b \in Nat : 1 + a + b \in Nat OBVIOUS
  <2>2. QED BY <1>2, <1>3, <2>1 DEF Depth
<1>6. QED BY <1>1, <1>2, <1>3, <1>4, <1>5

\* The memtable first, then the immutable ones, then the runs.
LEMMA LevelsAre ==
  ASSUME NEW tb \in Tables, NEW sv \in SuperVersions
  PROVE  /\ Len(LevelsIn(tb, sv)) = Depth(sv)
         /\ LevelsIn(tb, sv) \in [1 .. Depth(sv) -> SUBSET Entry]
         /\ LevelsIn(tb, sv)[1] = tb[sv.mem]
         /\ \A i \in 1 .. Len(sv.imm) : LevelsIn(tb, sv)[1 + i] = tb[sv.imm[i]]
         /\ \A i \in 1 .. Len(sv.runs) : LevelsIn(tb, sv)[1 + Len(sv.imm) + i] = sv.runs[i]
<1> DEFINE top == <<tb[sv.mem]>>
           mid == [i \in DOMAIN sv.imm |-> tb[sv.imm[i]]]
           L == (top \o mid) \o sv.runs
<1>1. /\ sv.mem \in 1 .. MaxMem /\ sv.imm \in Seq(1 .. MaxMem) /\ sv.runs \in Seq(SUBSET Entry)
      /\ Len(sv.imm) \in Nat /\ Len(sv.runs) \in Nat
      /\ \A i \in 1 .. Len(sv.imm) : sv.imm[i] \in 1 .. MaxMem
  BY SuperVersionTypes
<1>2. top \in Seq(SUBSET Entry) /\ Len(top) = 1 /\ top[1] = tb[sv.mem]
  BY <1>1 DEF Tables
<1>3. mid \in Seq(SUBSET Entry) /\ Len(mid) = Len(sv.imm)
      /\ \A i \in 1 .. Len(sv.imm) : mid[i] = tb[sv.imm[i]]
  <2>1. DOMAIN sv.imm = 1 .. Len(sv.imm) BY <1>1, SeqParts
  <2>2. mid \in [1 .. Len(sv.imm) -> SUBSET Entry] BY <1>1, <2>1 DEF Tables
  <2>3. \A i \in 1 .. Len(sv.imm) : mid[i] = tb[sv.imm[i]] BY <2>1
  <2> HIDE DEF mid
  <2> DEFINE S == SUBSET Entry
  <2>4. mid \in [1 .. Len(sv.imm) -> S] BY <2>2
  <2> HIDE DEF S
  <2>5. mid \in Seq(S) /\ Len(mid) = Len(sv.imm) BY <1>1, <2>4
  <2>6. QED BY <2>3, <2>5 DEF S
<1> HIDE DEF top, mid
<1>4. /\ top \o mid \in Seq(SUBSET Entry) /\ Len(top \o mid) = 1 + Len(sv.imm)
      /\ (top \o mid)[1] = tb[sv.mem]
      /\ \A i \in 1 .. Len(sv.imm) : (top \o mid)[1 + i] = tb[sv.imm[i]]
  <2>1. top \o mid \in Seq(SUBSET Entry) /\ Len(top \o mid) = Len(top) + Len(mid)
    BY <1>2, <1>3, ConcatParts
  <2>2. \A i \in 1 .. Len(top) : (top \o mid)[i] = top[i] BY <1>2, <1>3, ConcatParts
  <2>3. \A i \in 1 .. Len(mid) : (top \o mid)[Len(top) + i] = mid[i]
    BY <1>2, <1>3, ConcatParts
  <2>4. 1 \in 1 .. Len(top) BY <1>2
  <2>5. QED BY <1>2, <1>3, <2>1, <2>2, <2>3, <2>4
<1>5. /\ L \in Seq(SUBSET Entry) /\ Len(L) = 1 + Len(sv.imm) + Len(sv.runs)
      /\ L[1] = tb[sv.mem]
      /\ \A i \in 1 .. Len(sv.imm) : L[1 + i] = tb[sv.imm[i]]
      /\ \A i \in 1 .. Len(sv.runs) : L[1 + Len(sv.imm) + i] = sv.runs[i]
  <2> DEFINE H == top \o mid
  <2>1. /\ H \in Seq(SUBSET Entry) /\ Len(H) = 1 + Len(sv.imm) /\ H[1] = tb[sv.mem]
        /\ \A i \in 1 .. Len(sv.imm) : H[1 + i] = tb[sv.imm[i]]
    BY <1>4
  <2> HIDE DEF H
  <2>2. H \o sv.runs \in Seq(SUBSET Entry) /\ Len(H \o sv.runs) = Len(H) + Len(sv.runs)
    BY <1>1, <2>1, ConcatParts
  <2>3. \A i \in 1 .. Len(H) : (H \o sv.runs)[i] = H[i] BY <1>1, <2>1, ConcatParts
  <2>4. \A i \in 1 .. Len(sv.runs) : (H \o sv.runs)[Len(H) + i] = sv.runs[i]
    BY <1>1, <2>1, ConcatParts
  <2>5. 1 \in 1 .. Len(H) /\ \A i \in 1 .. Len(sv.imm) : 1 + i \in 1 .. Len(H) BY <1>1, <2>1
  <2>6. QED BY <1>1, <2>1, <2>2, <2>3, <2>4, <2>5 DEF H
<1>6. L = LevelsIn(tb, sv) BY DEF LevelsIn, top, mid
<1>7. Len(L) = Depth(sv) BY <1>5 DEF Depth
<1>8. L \in [1 .. Depth(sv) -> SUBSET Entry]
  <2> HIDE DEF L
  <2>1. L \in [1 .. Len(L) -> SUBSET Entry] BY <1>5, SeqParts
  <2>2. QED BY <1>7, <2>1
<1> HIDE DEF L
<1>9. QED BY <1>5, <1>6, <1>7, <1>8

\* Every level is the top one, an immutable memtable or a run.
LEMMA LevelCases ==
  ASSUME NEW sv \in SuperVersions, NEW j \in 1 .. Depth(sv)
  PROVE  \/ j = 1
         \/ \E i \in 1 .. Len(sv.imm) : j = 1 + i
         \/ \E i \in 1 .. Len(sv.runs) : j = 1 + Len(sv.imm) + i
<1>1. \A a, b \in Nat : \A c \in 1 .. 1 + a + b :
        \/ c = 1
        \/ \E i \in 1 .. a : c = 1 + i
        \/ \E i \in 1 .. b : c = 1 + a + i
  <2>1. SUFFICES ASSUME NEW a \in Nat, NEW b \in Nat, NEW c \in 1 .. 1 + a + b,
                        c # 1
                 PROVE  \/ \E i \in 1 .. a : c = 1 + i
                        \/ \E i \in 1 .. b : c = 1 + a + i
    OBVIOUS
  <2>2. CASE c <= 1 + a
    <3>1. c - 1 \in 1 .. a /\ c = 1 + (c - 1) BY <2>1, <2>2
    <3>2. QED BY <3>1
  <2>3. CASE c > 1 + a
    <3>1. c - (1 + a) \in 1 .. b /\ c = 1 + a + (c - (1 + a)) BY <2>3
    <3>2. QED BY <3>1
  <2>4. QED BY <2>2, <2>3
<1>2. Len(sv.imm) \in Nat /\ Len(sv.runs) \in Nat BY SuperVersionTypes
<1>3. j \in 1 .. 1 + Len(sv.imm) + Len(sv.runs) BY DEF Depth
<1>4. QED BY <1>1, <1>2, <1>3

\* Reading by name: what the model's operators say of the levels.
LEMMA EntriesAre ==
  ASSUME table \in Tables, NEW sv \in SuperVersions
  PROVE  /\ Levels(sv) = LevelsIn(table, sv)
         /\ DOMAIN Levels(sv) = 1 .. Depth(sv)
         /\ Entries(sv) = Holds(table, sv)
         /\ \A n : View(sv, n) = ViewIn(table, sv, n)
         /\ \A k, n : GetFrom(sv, k, n) = Found(Depth(sv), LevelsIn(table, sv), k, n)
<1>1. Levels(sv) = LevelsIn(table, sv) BY DEF Levels, LevelsIn
<1>2. DOMAIN LevelsIn(table, sv) = 1 .. Depth(sv) BY LevelsAre
<1>3. Entries(sv) = Holds(table, sv) BY <1>1, <1>2 DEF Entries, Holds, Between
<1>4. \A n : View(sv, n) = ViewIn(table, sv, n) BY <1>3 DEF View, ViewIn
<1>5. \A k, n : GetFrom(sv, k, n) = Found(Depth(sv), LevelsIn(table, sv), k, n)
  BY <1>1, <1>2 DEF GetFrom, Found
<1>6. QED BY <1>1, <1>2, <1>3, <1>4, <1>5

\* Versions_proof's entries are this module's.
LEMMA EntryIs == Entry = EntriesOf(Keys)
BY DEF Entry, EntriesOf

\* Where an entry somebody reads is.
LEMMA HeldIn ==
  ASSUME NEW tb \in Tables, NEW sv \in SuperVersions
  PROVE  /\ \A e \in Holds(tb, sv) :
              \/ e \in tb[sv.mem]
              \/ \E i \in 1 .. Len(sv.imm) : e \in tb[sv.imm[i]]
              \/ \E i \in 1 .. Len(sv.runs) : e \in sv.runs[i]
         /\ tb[sv.mem] \subseteq Holds(tb, sv)
<1>1. ASSUME NEW e \in Holds(tb, sv)
      PROVE  \/ e \in tb[sv.mem]
             \/ \E i \in 1 .. Len(sv.imm) : e \in tb[sv.imm[i]]
             \/ \E i \in 1 .. Len(sv.runs) : e \in sv.runs[i]
  <2>1. PICK j \in 1 .. Depth(sv) : e \in LevelsIn(tb, sv)[j] BY DEF Holds, Between
  <2>2. CASE j = 1 BY <2>1, <2>2, LevelsAre
  <2>3. CASE \E i \in 1 .. Len(sv.imm) : j = 1 + i BY <2>1, <2>3, LevelsAre
  <2>4. CASE \E i \in 1 .. Len(sv.runs) : j = 1 + Len(sv.imm) + i BY <2>1, <2>4, LevelsAre
  <2>5. QED BY <2>2, <2>3, <2>4, LevelCases
<1>2. tb[sv.mem] \subseteq Holds(tb, sv)
  <2>1. \A a, b \in Nat : 1 \in 1 .. 1 + a + b OBVIOUS
  <2>2. 1 \in 1 .. Depth(sv) BY <2>1, SuperVersionTypes DEF Depth
  <2>3. LevelsIn(tb, sv)[1] = tb[sv.mem] BY LevelsAre
  <2>4. QED BY <2>2, <2>3 DEF Holds, Between
<1>3. QED BY <1>1, <1>2

\* What a SuperVersion in use holds: entries with different numbers, the
\* unpublished ones only in the mutable memtable.
LEMMA GoodHolds ==
  ASSUME NEW tb, NEW m, NEW n, NEW d, NEW sv, TablesIn(tb, m, n, d), Good(tb, m, n, sv)
  PROVE  /\ Holds(tb, sv) \in SUBSET EntriesOf(Keys) /\ Unique(Holds(tb, sv))
         /\ \A e \in Holds(tb, sv) : e.seq \in Nat /\ e.seq <= n + d
         /\ \A e \in Holds(tb, sv) : e.seq > n => sv.mem = m /\ e \in tb[m]
<1>1. tb \in Tables /\ n \in Nat /\ d \in Nat /\ sv \in SuperVersions
      /\ Sound(Keys, Depth(sv), LevelsIn(tb, sv)) /\ Depth(sv) \in Nat
  BY SuperVersionTypes DEF TablesIn, Good
<1>2. Holds(tb, sv) \in SUBSET EntriesOf(Keys) /\ Unique(Holds(tb, sv))
  BY <1>1, BetweenType, BetweenUnique DEF Holds
<1>3. ASSUME NEW e \in Holds(tb, sv)
      PROVE  e.seq \in Nat /\ e.seq <= n + d /\ (e.seq > n => sv.mem = m /\ e \in tb[m])
  <2>1. e.seq \in Nat BY <1>2 DEF EntriesOf
  <2>2. ASSUME NEW t \in 1 .. MaxMem, e \in tb[t]
        PROVE  e.seq <= n + d /\ (e.seq > n => t = m)
    BY <1>1, <2>1, <2>2 DEF TablesIn
  <2>3. CASE e \in tb[sv.mem]
    <3>1. sv.mem \in 1 .. MaxMem BY <1>1, SuperVersionTypes
    <3>2. QED BY <2>1, <2>2, <2>3, <3>1
  <2>4. ASSUME NEW i \in 1 .. Len(sv.imm), e \in tb[sv.imm[i]]
        PROVE  e.seq <= n + d /\ ~(e.seq > n)
    <3>1. sv.imm[i] \in 1 .. MaxMem /\ sv.mem \in 1 .. MaxMem BY <1>1, SuperVersionTypes
    <3>2. sv.imm[i] < sv.mem /\ sv.mem <= m /\ m \in 1 .. MaxMem BY DEF Good, TablesIn
    <3>3. sv.imm[i] # m BY <3>1, <3>2
    <3>4. QED BY <2>2, <2>4, <3>1, <3>3
  <2>5. ASSUME NEW i \in 1 .. Len(sv.runs), e \in sv.runs[i]
        PROVE  e.seq <= n + d /\ ~(e.seq > n)
    <3>1. e.seq <= n BY <2>5 DEF Good
    <3>2. QED BY <1>1, <2>1, <3>1
  <2>6. QED BY <1>1, <2>1, <2>3, <2>4, <2>5, HeldIn
<1>4. QED BY <1>2, <1>3

\* A later number, and a newer mutable memtable, leave a SuperVersion good.
LEMMA GoodLater ==
  ASSUME NEW tb, NEW m \in Nat, NEW n \in Nat, NEW mm \in Nat, NEW nn \in Nat,
         m <= mm, n <= nn, NEW sv, Good(tb, m, n, sv)
  PROVE  Good(tb, mm, nn, sv)
<1>1. sv \in SuperVersions /\ sv.mem \in Nat BY SuperVersionTypes DEF Good
<1>2. sv.mem <= mm BY <1>1 DEF Good
<1>3. ASSUME NEW i \in 1 .. Len(sv.runs), NEW e \in sv.runs[i] PROVE e.seq <= nn
  <2>1. sv.runs[i] \in SUBSET Entry BY <1>1, SuperVersionTypes
  <2>2. e.seq \in Nat BY <2>1 DEF Entry
  <2>3. e.seq <= n BY DEF Good
  <2>4. QED BY <2>2, <2>3
<1>4. QED BY <1>2, <1>3 DEF Good

\* Inserting the next update of a batch: every SuperVersion stays good, and no
\* read at a published number sees the update.
With(tb, m, e) == [tb EXCEPT ![m] = @ \cup {e}]

\* The tables stay in order,
LEMMA TablesInserted ==
  ASSUME NEW tb, NEW m, NEW n, NEW d, TablesIn(tb, m, n, d),
         NEW e \in Entry, e.seq = n + (d + 1)
  PROVE  TablesIn(With(tb, m, e), m, n, d + 1)
<1> DEFINE new == With(tb, m, e)
<1>1. tb \in Tables /\ m \in 1 .. MaxMem /\ n \in Nat /\ d \in Nat BY DEF TablesIn
<1>2. new \in Tables BY <1>1 DEF Tables, With
<1>3. \A t \in 1 .. MaxMem : t # m => new[t] = tb[t] BY <1>1 DEF Tables, With
<1>4. new[m] = tb[m] \cup {e} BY <1>1 DEF Tables, With
<1> HIDE DEF new
<1>5. \A t \in 1 .. MaxMem : t > m => new[t] = {} BY <1>1, <1>3 DEF TablesIn
<1>6. ASSUME NEW t \in 1 .. MaxMem, NEW f \in new[t] PROVE f.seq > 0 /\ f.seq <= n + (d + 1)
  <2>1. CASE f = e BY <1>1, <2>1
  <2>2. CASE f # e
    <3>1. f \in tb[t] BY <1>3, <1>4, <2>2
    <3>2. f.seq > 0 /\ f.seq <= n + d BY <3>1 DEF TablesIn
    <3>3. tb[t] \subseteq Entry BY <1>1 DEF Tables
    <3>4. f.seq \in Nat BY <3>1, <3>3 DEF Entry
    <3>5. QED BY <1>1, <3>2, <3>4
  <2>3. QED BY <2>1, <2>2
<1>7. \A t \in 1 .. MaxMem : t # m => \A f \in new[t] : f.seq <= n BY <1>3 DEF TablesIn
<1>8. QED BY <1>1, <1>2, <1>5, <1>6, <1>7 DEF TablesIn, new

\* and so does every SuperVersion somebody may read.
LEMMA GoodInserted ==
  ASSUME NEW tb, NEW m, NEW n, NEW d, TablesIn(tb, m, n, d),
         NEW e \in Entry, e.seq = n + (d + 1), NEW sv, Good(tb, m, n, sv)
  PROVE  /\ Good(With(tb, m, e), m, n, sv)
         /\ \A k, j : j \in Nat /\ j <= n =>
              Lookup(Holds(With(tb, m, e), sv), k, j) = Lookup(Holds(tb, sv), k, j)
<1> DEFINE new == With(tb, m, e)
           L == LevelsIn(tb, sv)
           M == LevelsIn(new, sv)
           p == Depth(sv)
<1>1. /\ tb \in Tables /\ m \in 1 .. MaxMem /\ n \in Nat /\ d \in Nat
      /\ sv \in SuperVersions /\ sv.mem \in 1 .. MaxMem /\ p \in Nat
      /\ Sound(Keys, p, L)
  BY SuperVersionTypes DEF TablesIn, Good
<1>2. new \in Tables BY TablesInserted DEF TablesIn
<1>3. \A t \in 1 .. MaxMem : t # m => new[t] = tb[t] BY <1>1 DEF Tables, With
<1>4. new[m] = tb[m] \cup {e} BY <1>1 DEF Tables, With
<1> HIDE DEF new
<1>5. \A i \in 1 .. Len(sv.imm) : new[sv.imm[i]] = tb[sv.imm[i]]
  <2>1. ASSUME NEW i \in 1 .. Len(sv.imm) PROVE new[sv.imm[i]] = tb[sv.imm[i]]
    <3>1. sv.imm[i] \in 1 .. MaxMem BY <1>1, SuperVersionTypes
    <3>2. sv.imm[i] < sv.mem /\ sv.mem <= m BY DEF Good
    <3>3. sv.imm[i] # m BY <1>1, <3>1, <3>2
    <3>4. QED BY <1>3, <3>1, <3>3
  <2>2. QED BY <2>1
<1>6. /\ L \in [1 .. p -> SUBSET Entry] /\ L[1] = tb[sv.mem]
      /\ \A i \in 1 .. Len(sv.imm) : L[1 + i] = tb[sv.imm[i]]
      /\ \A i \in 1 .. Len(sv.runs) : L[1 + Len(sv.imm) + i] = sv.runs[i]
  BY <1>1, LevelsAre
<1>7. /\ M \in [1 .. p -> SUBSET Entry] /\ M[1] = new[sv.mem]
      /\ \A i \in 1 .. Len(sv.imm) : M[1 + i] = new[sv.imm[i]]
      /\ \A i \in 1 .. Len(sv.runs) : M[1 + Len(sv.imm) + i] = sv.runs[i]
  BY <1>1, <1>2, LevelsAre
<1>8. ASSUME NEW j \in 1 .. p, j # 1 PROVE M[j] = L[j]
  <2>1. CASE \E i \in 1 .. Len(sv.imm) : j = 1 + i BY <1>5, <1>6, <1>7, <2>1
  <2>2. CASE \E i \in 1 .. Len(sv.runs) : j = 1 + Len(sv.imm) + i BY <1>6, <1>7, <2>2
  <2>3. QED BY <1>1, <1>8, <2>1, <2>2, LevelCases
<1>9. CASE sv.mem # m
  <2>1. M[1] = L[1] BY <1>1, <1>3, <1>6, <1>7, <1>9
  <2>2. \A j \in 1 .. p : M[j] = L[j] BY <1>8, <2>1
  <2>3. M \in [1 .. p -> SUBSET EntriesOf(Keys)] BY <1>7, EntryIs
  <2> HIDE DEF L, M, p
  <2>4. Sound(Keys, p, M) /\ Between(M, 1, p) = Between(L, 1, p)
    BY <1>1, <2>2, <2>3, SameSound
  <2>5. QED BY <2>4 DEF Good, Holds, L, M, p, new
<1>10. CASE sv.mem = m
  <2>1. M[1] = L[1] \cup {e} BY <1>4, <1>6, <1>7, <1>10
  <2>2. p >= 1
    <3>1. \A a, b \in Nat : 1 + a + b >= 1 OBVIOUS
    <3>2. QED BY <1>1, <3>1, SuperVersionTypes DEF Depth
  <2>3. \A i \in 2 .. p : M[i] = L[i] BY <1>1, <1>8
  <2>4. Topped(p, L, M, e) BY <2>1, <2>2, <2>3 DEF Topped
  <2>5. \A f \in Between(L, 1, p) : f.seq < e.seq
    <3>1. \A f \in Between(L, 1, p) : f.seq \in Nat /\ f.seq <= n + d BY GoodHolds DEF Holds
    <3>2. QED BY <1>1, <3>1
  <2>6. M \in [1 .. p -> SUBSET EntriesOf(Keys)] /\ e \in EntriesOf(Keys)
    BY <1>7, EntryIs
  <2> HIDE DEF L, M, p
  <2>7. Sound(Keys, p, M) BY <1>1, <2>4, <2>5, <2>6, ToppedSound
  <2>8. ASSUME NEW k, NEW j \in Nat, j <= n
        PROVE  Lookup(Between(M, 1, p), k, j) = Lookup(Between(L, 1, p), k, j)
    <3>1. j < e.seq BY <1>1, <2>8
    <3>2. QED BY <1>1, <2>4, <2>5, <2>6, <3>1, ToppedInvisible
  <2>9. QED BY <2>7, <2>8 DEF Good, Holds, L, M, p, new
<1>11. QED BY <1>9, <1>10

\* Publishing the d updates of a batch.
LEMMA TablesPublished ==
  ASSUME NEW tb, NEW m, NEW n, NEW d, TablesIn(tb, m, n, d)
  PROVE  TablesIn(tb, m, n + d, 0)
<1>1. tb \in Tables /\ m \in 1 .. MaxMem /\ n \in Nat /\ d \in Nat BY DEF TablesIn
<1>2. \A t \in 1 .. MaxMem : \A e \in tb[t] : e.seq > 0 /\ e.seq <= n + d BY DEF TablesIn
<1>3. \A t \in 1 .. MaxMem : t > m => tb[t] = {} BY DEF TablesIn
<1>4. n + d \in Nat /\ (n + d) + 0 = n + d BY <1>1
<1>5. QED BY <1>1, <1>2, <1>3, <1>4 DEF TablesIn

\* A SuperVersion without the mutable memtable sees nothing of it.
LEMMA PublishedBelow ==
  ASSUME NEW tb, NEW m, NEW n, NEW d, TablesIn(tb, m, n, d), NEW sv, Good(tb, m, n, sv),
         sv.mem # m
  PROVE  ViewIn(tb, sv, n + d) = ViewIn(tb, sv, n)
<1> DEFINE E == Holds(tb, sv)
<1>1. n \in Nat /\ n + d \in Nat /\ n <= n + d BY DEF TablesIn
<1>2. E \in SUBSET EntriesOf(Keys) /\ Unique(E) /\ \A e \in E : e.seq \in Nat /\ ~(e.seq > n)
  BY GoodHolds
<1> HIDE DEF E
<1>3. \A k : \A e \in E : VisibleAt(e, k, n + d) <=> VisibleAt(e, k, n)
  BY <1>1, <1>2 DEF VisibleAt
<1>4. ASSUME NEW k \in Keys PROVE Lookup(E, k, n + d) = Lookup(E, k, n)
  BY <1>1, <1>2, <1>3, LookupSame
<1>5. QED BY <1>4 DEF ViewIn, E

\* One with it sees the batch, as KVStore's Apply has it.
LEMMA PublishedInserted ==
  ASSUME NEW tb, NEW m, NEW n, NEW d, TablesIn(tb, m, n, d), NEW sv, Good(tb, m, n, sv),
         sv.mem = m, NEW ops, Inserted(tb[m], ops, d, n)
  PROVE  Inserted(Holds(tb, sv), ops, d, n)
<1>1. \A e \in Holds(tb, sv) : e.seq > n => e \in tb[m] BY GoodHolds
<1>2. tb \in Tables /\ sv \in SuperVersions BY DEF TablesIn, Good
<1>3. tb[m] \subseteq Holds(tb, sv) BY <1>2, HeldIn
<1>4. QED BY <1>1, <1>3 DEF Inserted

\* A set of numbers up to d that is not empty has a greatest one.
LEMMA Greatest ==
  ASSUME NEW d \in Nat, NEW T \in SUBSET (1 .. d), T # {}
  PROVE  \E m \in T : \A i \in T : i <= m
<1> DEFINE U == {d - i : i \in T}
<1>1. U \subseteq Nat /\ U # {}
  <2>1. \A i \in T : d - i \in Nat OBVIOUS
  <2>2. QED BY <2>1
<1>2. PICK u \in U : \A v \in U : u <= v BY <1>1, Least
<1>3. PICK m \in T : u = d - m OBVIOUS
<1>4. ASSUME NEW i \in T PROVE i <= m
  <2>1. d - m <= d - i BY <1>2, <1>3
  <2>2. QED BY <2>1
<1>5. QED BY <1>4

\* KVStore's Last is the last update of the key.
LEMMA LastIs ==
  ASSUME NEW ops, NEW d \in Nat, DOMAIN ops = 1 .. d, NEW k, \E i \in 1 .. d : ops[i].key = k
  PROVE  /\ Abstract!Last(ops, k) \in 1 .. d
         /\ ops[Abstract!Last(ops, k)].key = k
         /\ \A j \in 1 .. d : ops[j].key = k => j <= Abstract!Last(ops, k)
<1> DEFINE T == {i \in 1 .. d : ops[i].key = k}
<1>1. T \in SUBSET (1 .. d) /\ T # {} OBVIOUS
<1>2. \E m \in T : \A i \in T : i <= m BY <1>1, Greatest
<1>3. \E i \in DOMAIN ops : ops[i].key = k /\ \A j \in DOMAIN ops : ops[j].key = k => j <= i
  BY <1>2
<1> DEFINE c == CHOOSE i \in DOMAIN ops :
                  ops[i].key = k /\ \A j \in DOMAIN ops : ops[j].key = k => j <= i
<1>4. c \in DOMAIN ops /\ ops[c].key = k /\ \A j \in DOMAIN ops : ops[j].key = k => j <= c
  BY <1>3
<1>5. c = Abstract!Last(ops, k) BY DEF Abstract!Last
<1> HIDE DEF c
<1>6. QED BY <1>4, <1>5

\* Publish (WriteImpl's SetLastSequence): when the published number passes a
\* batch, a SuperVersion with the mutable memtable shows KVStore's Apply of the
\* whole batch to what it showed before.
THEOREM PublishedView ==
  ASSUME NEW tb, NEW m, NEW n, NEW d, TablesIn(tb, m, n, d), NEW sv, Good(tb, m, n, sv),
         sv.mem = m, NEW ops, DOMAIN ops = 1 .. d, Inserted(tb[m], ops, d, n)
  PROVE  ViewIn(tb, sv, n + d) = Abstract!Apply(ViewIn(tb, sv, n), ops, n)
<1> DEFINE E == Holds(tb, sv)
           A == Abstract!Apply(ViewIn(tb, sv, n), ops, n)
<1>1. n \in Nat /\ d \in Nat BY DEF TablesIn
<1>2. E \in SUBSET EntriesOf(Keys) /\ Unique(E) BY GoodHolds
<1>3. Inserted(E, ops, d, n) BY PublishedInserted
<1>4. \A k \in Keys : A[k] =
        IF \E i \in 1 .. d : ops[i].key = k
        THEN IF ops[Abstract!Last(ops, k)].del THEN 0 ELSE n + Abstract!Last(ops, k)
        ELSE Lookup(E, k, n)
  BY DEF Abstract!Apply, ViewIn
<1>5. A = [k \in Keys |-> A[k]] BY DEF Abstract!Apply
<1> HIDE DEF E, A
<1>6. ASSUME NEW k \in Keys PROVE Lookup(E, k, n + d) = A[k]
  <2>1. CASE \E i \in 1 .. d : ops[i].key = k
    <3> DEFINE c == Abstract!Last(ops, k)
    <3>1. c \in 1 .. d /\ ops[c].key = k /\ \A j \in 1 .. d : ops[j].key = k => j <= c
      BY <1>1, <2>1, LastIs
    <3>2. A[k] = IF ops[c].del THEN 0 ELSE n + c BY <1>4, <2>1
    <3> HIDE DEF c
    <3>3. ASSUME NEW i \in 1 .. d, ops[i].key = k, \A j \in 1 .. d : ops[j].key = k => j <= i
          PROVE  Lookup(E, k, n + d) = IF ops[i].del THEN Deleted ELSE n + i
      BY <1>1, <1>2, <1>3, <3>3, PublishedLast
    <3>4. QED BY <3>1, <3>2, <3>3 DEF Deleted
  <2>2. CASE ~\E i \in 1 .. d : ops[i].key = k
    <3>1. Lookup(E, k, n + d) = Lookup(E, k, n)
      BY <1>1, <1>2, <1>3, <2>2, PublishedUntouched
    <3>2. QED BY <1>4, <2>2, <3>1
  <2>3. QED BY <2>1, <2>2
<1>7. ViewIn(tb, sv, n + d) = [k \in Keys |-> A[k]] BY <1>6 DEF ViewIn, E
<1>8. QED BY <1>5, <1>7 DEF A

\* A new mutable memtable.
Switched(sv) == [mem |-> sv.mem + 1, imm |-> <<sv.mem>> \o sv.imm, runs |-> sv.runs]

\* The tables stay in order: the next memtable is still empty.
LEMMA TablesSwitched ==
  ASSUME NEW tb, NEW m, NEW n, TablesIn(tb, m, n, 0), m < MaxMem
  PROVE  TablesIn(tb, m + 1, n, 0)
<1>1. tb \in Tables /\ m \in 1 .. MaxMem /\ n \in Nat BY DEF TablesIn
<1>2. \A t \in 1 .. MaxMem : \A e \in tb[t] : e.seq > 0 /\ e.seq <= n + 0 BY DEF TablesIn
<1>3. \A t \in 1 .. MaxMem : t > m => tb[t] = {} BY DEF TablesIn
<1>4. m + 1 \in 1 .. MaxMem BY <1>1, BoundsAssumption
<1>5. \A t \in 1 .. MaxMem : t > m + 1 => t > m BY <1>1
<1>6. n + 0 = n BY <1>1
<1>7. QED BY <1>1, <1>2, <1>3, <1>4, <1>5, <1>6 DEF TablesIn

\* An element in front of a sequence, and the parts of one.
LEMMA PrependParts ==
  /\ \A a \in 1 .. MaxMem : \A s \in Seq(1 .. MaxMem) :
       /\ <<a>> \o s \in Seq(1 .. MaxMem) /\ Len(<<a>> \o s) = 1 + Len(s)
       /\ (<<a>> \o s)[1] = a /\ \A i \in 1 .. Len(s) : (<<a>> \o s)[1 + i] = s[i]
  /\ \A a \in SUBSET Entry : \A s \in Seq(SUBSET Entry) :
       /\ <<a>> \o s \in Seq(SUBSET Entry) /\ Len(<<a>> \o s) = 1 + Len(s)
       /\ (<<a>> \o s)[1] = a /\ \A i \in 1 .. Len(s) : (<<a>> \o s)[1 + i] = s[i]
<1> SUFFICES ASSUME NEW S
             PROVE  \A a \in S : \A s \in Seq(S) :
                      /\ <<a>> \o s \in Seq(S) /\ Len(<<a>> \o s) = 1 + Len(s)
                      /\ (<<a>> \o s)[1] = a /\ \A i \in 1 .. Len(s) : (<<a>> \o s)[1 + i] = s[i]
  OBVIOUS
<1>1. QED OBVIOUS

\* Of a beginning,
LEMMA FrontParts ==
  /\ \A s \in Seq(1 .. MaxMem) : \A c \in 0 .. Len(s) :
       /\ SubSeq(s, 1, c) \in Seq(1 .. MaxMem) /\ Len(SubSeq(s, 1, c)) = c
       /\ \A i \in 1 .. c : SubSeq(s, 1, c)[i] = s[i]
  /\ \A s \in Seq(SUBSET Entry) : \A c \in 0 .. Len(s) :
       /\ SubSeq(s, 1, c) \in Seq(SUBSET Entry) /\ Len(SubSeq(s, 1, c)) = c
       /\ \A i \in 1 .. c : SubSeq(s, 1, c)[i] = s[i]
<1> SUFFICES ASSUME NEW S
             PROVE  \A s \in Seq(S) : \A c \in 0 .. Len(s) :
                      /\ SubSeq(s, 1, c) \in Seq(S) /\ Len(SubSeq(s, 1, c)) = c
                      /\ \A i \in 1 .. c : SubSeq(s, 1, c)[i] = s[i]
  OBVIOUS
<1>1. QED OBVIOUS

\* and of an end of a sequence.
LEMMA BackParts ==
  \A s \in Seq(SUBSET Entry) : \A c \in 0 .. Len(s) :
    /\ SubSeq(s, c + 1, Len(s)) \in Seq(SUBSET Entry)
    /\ Len(SubSeq(s, c + 1, Len(s))) = Len(s) - c
    /\ \A i \in 1 .. Len(s) - c : SubSeq(s, c + 1, Len(s))[i] = s[c + i]
<1> SUFFICES ASSUME NEW S
             PROVE  \A s \in Seq(S) : \A c \in 0 .. Len(s) :
                      /\ SubSeq(s, c + 1, Len(s)) \in Seq(S)
                      /\ Len(SubSeq(s, c + 1, Len(s))) = Len(s) - c
                      /\ \A i \in 1 .. Len(s) - c : SubSeq(s, c + 1, Len(s))[i] = s[c + i]
  OBVIOUS
<1>1. QED OBVIOUS

\* The new SuperVersion is good and holds the same entries.
LEMMA GoodSwitched ==
  ASSUME NEW tb, NEW m, NEW n, TablesIn(tb, m, n, 0), m < MaxMem,
         NEW sv, Good(tb, m, n, sv), sv.mem = m
  PROVE  Good(tb, m + 1, n, Switched(sv)) /\ Holds(tb, Switched(sv)) = Holds(tb, sv)
<1> DEFINE new == Switched(sv)
           L == LevelsIn(tb, sv)
           M == LevelsIn(tb, new)
           p == Depth(sv)
<1>1. /\ tb \in Tables /\ m \in 1 .. MaxMem /\ m \in Nat /\ n \in Nat
      /\ sv \in SuperVersions /\ sv.imm \in Seq(1 .. MaxMem) /\ sv.runs \in Seq(SUBSET Entry)
      /\ Len(sv.imm) \in Nat /\ Len(sv.runs) \in Nat /\ p \in Nat /\ Sound(Keys, p, L)
  BY SuperVersionTypes DEF TablesIn, Good
<1>2. /\ new.mem = m + 1 /\ new.imm = <<m>> \o sv.imm /\ new.runs = sv.runs
      /\ new = [mem |-> new.mem, imm |-> new.imm, runs |-> new.runs]
  BY DEF Switched
<1> HIDE DEF new
<1>3. /\ new.imm \in Seq(1 .. MaxMem) /\ Len(new.imm) = 1 + Len(sv.imm)
      /\ new.imm[1] = m /\ \A i \in 1 .. Len(sv.imm) : new.imm[1 + i] = sv.imm[i]
  BY <1>1, <1>2, PrependParts
<1>4. new.mem \in 1 .. MaxMem BY <1>1, <1>2, BoundsAssumption
<1>5. new \in SuperVersions BY <1>1, <1>2, <1>3, <1>4 DEF SuperVersions
<1>6. Depth(new) = p + 1
  <2>1. \A a, b \in Nat : 1 + (1 + a) + b = (1 + a + b) + 1 OBVIOUS
  <2>2. QED BY <1>1, <1>2, <1>3, <2>1 DEF Depth
<1>7. /\ L \in [1 .. p -> SUBSET Entry] /\ L[1] = tb[m]
      /\ \A i \in 1 .. Len(sv.imm) : L[1 + i] = tb[sv.imm[i]]
      /\ \A i \in 1 .. Len(sv.runs) : L[1 + Len(sv.imm) + i] = sv.runs[i]
  BY <1>1, LevelsAre
<1>8. /\ M \in [1 .. p + 1 -> SUBSET Entry] /\ M[1] = tb[m + 1]
      /\ \A i \in 1 .. 1 + Len(sv.imm) : M[1 + i] = tb[new.imm[i]]
      /\ \A i \in 1 .. Len(sv.runs) : M[1 + (1 + Len(sv.imm)) + i] = sv.runs[i]
  <2>1. /\ M \in [1 .. Depth(new) -> SUBSET Entry] /\ M[1] = tb[new.mem]
        /\ \A i \in 1 .. Len(new.imm) : M[1 + i] = tb[new.imm[i]]
        /\ \A i \in 1 .. Len(new.runs) : M[1 + Len(new.imm) + i] = new.runs[i]
    BY <1>1, <1>5, LevelsAre
  <2> HIDE DEF M
  <2>2. QED BY <1>2, <1>3, <1>6, <2>1
<1> HIDE DEF L, M, p
<1>9. Pushed(p, L, M)
  <2>1. M[1] = {}
    <3>1. m + 1 > m /\ m + 1 \in 1 .. MaxMem BY <1>1, <1>2, <1>4
    <3>2. QED BY <1>8, <3>1 DEF TablesIn
  <2>2. ASSUME NEW i \in 1 .. p PROVE M[i + 1] = L[i]
    <3>1. CASE i = 1
      <4>1. 1 \in 1 .. 1 + Len(sv.imm) BY <1>1
      <4>2. M[1 + 1] = tb[m] BY <1>3, <1>8, <4>1
      <4>3. QED BY <1>7, <3>1, <4>2
    <3>2. ASSUME NEW j \in 1 .. Len(sv.imm), i = 1 + j PROVE M[i + 1] = L[i]
      <4>1. 1 + j \in 1 .. 1 + Len(sv.imm) /\ i + 1 = 1 + (1 + j) BY <1>1, <3>2
      <4>2. M[1 + (1 + j)] = tb[sv.imm[j]] BY <1>3, <1>8, <4>1
      <4>3. QED BY <1>7, <3>2, <4>1, <4>2
    <3>3. ASSUME NEW j \in 1 .. Len(sv.runs), i = 1 + Len(sv.imm) + j PROVE M[i + 1] = L[i]
      <4>1. i + 1 = 1 + (1 + Len(sv.imm)) + j BY <1>1, <3>3
      <4>2. M[1 + (1 + Len(sv.imm)) + j] = sv.runs[j] BY <1>8
      <4>3. QED BY <1>7, <3>3, <4>1, <4>2
    <3>4. QED BY <1>1, <3>1, <3>2, <3>3, LevelCases DEF p
  <2>3. QED BY <2>1, <2>2 DEF Pushed
<1>10. M \in [1 .. p + 1 -> SUBSET EntriesOf(Keys)] BY <1>8, EntryIs
<1>11. Sound(Keys, p + 1, M) /\ Between(M, 1, p + 1) = Between(L, 1, p)
  <2>1. ASSUME NEW q, q = p + 1 PROVE Sound(Keys, q, M) /\ Between(M, 1, q) = Between(L, 1, p)
    <3>1. M \in [1 .. q -> SUBSET EntriesOf(Keys)] BY <1>10, <2>1
    <3>2. p \in Nat /\ Sound(Keys, p, L) BY <1>1
    <3>3. QED BY <1>9, <2>1, <3>1, <3>2, PushedSound
  <2>2. QED BY <2>1
<1>12. \A i \in 1 .. Len(new.imm) : new.imm[i] < new.mem
  <2>1. ASSUME NEW i \in 1 .. 1 + Len(sv.imm) PROVE new.imm[i] < m + 1
    <3>1. CASE i = 1 BY <1>1, <1>3, <3>1
    <3>2. CASE i # 1
      <4>1. i - 1 \in 1 .. Len(sv.imm) /\ i = 1 + (i - 1) BY <1>1, <3>2
      <4>2. new.imm[i] = sv.imm[i - 1] BY <1>3, <4>1
      <4>3. sv.imm[i - 1] < m BY <4>1 DEF Good
      <4>4. sv.imm[i - 1] \in Nat BY <1>1, <4>1, SuperVersionTypes
      <4>5. QED BY <1>1, <4>2, <4>3, <4>4
    <3>3. QED BY <3>1, <3>2
  <2>2. QED BY <1>2, <1>3, <2>1
<1>13. \A i \in 1 .. Len(new.runs) : \A e \in new.runs[i] : e.seq <= n BY <1>2 DEF Good
<1>14. new.mem <= m + 1 BY <1>1, <1>2
<1>15. Good(tb, m + 1, n, new)
  BY <1>5, <1>6, <1>11, <1>12, <1>13, <1>14 DEF Good, M, p
<1>16. Holds(tb, new) = Holds(tb, sv) BY <1>6, <1>11 DEF Holds, L, M, p
<1>17. QED BY <1>15, <1>16 DEF new

-----------------------------------------------------------------------------
(***************************************************************************)
(* What a background job does to the current SuperVersion.                 *)
(***************************************************************************)

\* A SuperVersion whose levels come from rewriting the levels a + 1 .. b of sv.
Rewritten(tb, sv, new, a, b, x, S, beyond, bottom) ==
  /\ LevelJob(Depth(sv), LevelsIn(tb, sv), a, b, S, beyond, bottom)
  /\ Spliced(Depth(sv), LevelsIn(tb, sv), Depth(new), LevelsIn(tb, new), a, b, x,
             Rewrite(Between(LevelsIn(tb, sv), a + 1, b), S, beyond, bottom))

\* It is good, and nobody who may still read notices.
LEMMA GoodRewritten ==
  ASSUME NEW tb \in Tables, NEW m, NEW n, NEW sv, Good(tb, m, n, sv),
         NEW new \in SuperVersions, new.mem = sv.mem,
         \A i \in 1 .. Len(new.imm) : new.imm[i] < new.mem,
         \A i \in 1 .. Len(new.runs) : \A e \in new.runs[i] : e.seq <= n,
         NEW a \in Nat, NEW b \in Nat, NEW x, NEW S, NEW beyond, NEW bottom,
         Rewritten(tb, sv, new, a, b, x, S, beyond, bottom)
  PROVE  /\ Good(tb, m, n, new)
         /\ Unseen(Between(LevelsIn(tb, sv), a + 1, b), S, Holds(tb, sv), Holds(tb, new))
<1> DEFINE L == LevelsIn(tb, sv)
           M == LevelsIn(tb, new)
           p == Depth(sv)
           q == Depth(new)
<1>1. sv \in SuperVersions /\ sv.mem <= m /\ Sound(Keys, p, L) BY DEF Good
<1>2. p \in Nat /\ q \in Nat BY <1>1, SuperVersionTypes
<1>3. M \in [1 .. q -> SUBSET EntriesOf(Keys)] BY LevelsAre, EntryIs
<1>4. /\ LevelJob(p, L, a, b, S, beyond, bottom)
      /\ Spliced(p, L, q, M, a, b, x, Rewrite(Between(L, a + 1, b), S, beyond, bottom))
  BY DEF Rewritten
<1> HIDE DEF L, M, p, q
<1>5. Sound(Keys, q, M) BY <1>1, <1>2, <1>3, <1>4, SplicedSound
<1>6. Unseen(Between(L, a + 1, b), S, Between(L, 1, p), Between(M, 1, q))
  BY <1>1, <1>2, <1>3, <1>4, SplicedInvisible
<1>7. Good(tb, m, n, new) BY <1>1, <1>5 DEF Good, M, q
<1>8. QED BY <1>6, <1>7 DEF Holds, L, M, p, q

\* Flush: the c oldest immutable memtables become the newest run.
PickedIn(tb, sv, c) == UNION {tb[sv.imm[i]] : i \in Len(sv.imm) - c + 1 .. Len(sv.imm)}

\* A flush is such a rewriting of the lowest memtables.
LEMMA FlushedLevels ==
  ASSUME NEW tb \in Tables, NEW sv \in SuperVersions, NEW c \in 0 .. Len(sv.imm),
         NEW S \in SUBSET Nat, NEW new \in SuperVersions,
         new.mem = sv.mem, new.imm = SubSeq(sv.imm, 1, Len(sv.imm) - c),
         new.runs = <<Rewrite(PickedIn(tb, sv, c), S, Keys, FALSE)>> \o sv.runs
  PROVE  LET a == 1 + (Len(sv.imm) - c)
             b == 1 + Len(sv.imm)
         IN /\ a \in Nat /\ b \in Nat
            /\ Between(LevelsIn(tb, sv), a + 1, b) = PickedIn(tb, sv, c)
            /\ Rewritten(tb, sv, new, a, b, 1, S, Keys, FALSE)
<1> DEFINE L == LevelsIn(tb, sv)
           M == LevelsIn(tb, new)
           E == PickedIn(tb, sv, c)
           R == Rewrite(E, S, Keys, FALSE)
           u == Len(sv.imm)
           v == Len(sv.runs)
           a == 1 + (u - c)
           b == 1 + u
           p == 1 + u + v
           q == a + 1 + v
<1>1. /\ u \in Nat /\ v \in Nat /\ c \in 0 .. u /\ sv.imm \in Seq(1 .. MaxMem) /\ sv.runs \in Seq(SUBSET Entry)
      /\ \A i \in 1 .. u : sv.imm[i] \in 1 .. MaxMem
  BY SuperVersionTypes
<1>2. /\ a \in Nat /\ b \in Nat /\ p \in Nat /\ q \in Nat /\ a <= b /\ b <= p
      /\ q = a + 1 + (p - b) /\ p - b = v
  <2> HIDE DEF u, v
  <2>1. u \in Nat /\ v \in Nat /\ c \in 0 .. u BY <1>1
  <2>2. QED BY <2>1
<1>3. Depth(sv) = p BY DEF Depth
<1>4. /\ L \in [1 .. p -> SUBSET Entry] /\ L[1] = tb[sv.mem]
      /\ \A i \in 1 .. u : L[1 + i] = tb[sv.imm[i]]
      /\ \A i \in 1 .. v : L[1 + u + i] = sv.runs[i]
  BY <1>3, LevelsAre
<1>5. E \in SUBSET EntriesOf(Keys)
  <2>1. \A i \in u - c + 1 .. u : i \in 1 .. u BY <1>1
  <2>2. \A i \in u - c + 1 .. u : tb[sv.imm[i]] \subseteq EntriesOf(Keys)
    BY <1>1, <2>1, EntryIs DEF Tables
  <2>3. QED BY <2>2 DEF PickedIn
<1>6. R \in SUBSET Entry BY <1>5, OutputType, EntryIs
<1>7. /\ Len(new.imm) = u - c /\ \A i \in 1 .. u - c : new.imm[i] = sv.imm[i]
  BY <1>1, FrontParts
<1>8. Len(new.runs) = 1 + v /\ new.runs[1] = R /\ \A i \in 1 .. v : new.runs[1 + i] = sv.runs[i]
  <2>1. new.runs = <<R>> \o sv.runs OBVIOUS
  <2> HIDE DEF R, v
  <2>2. /\ Len(<<R>> \o sv.runs) = 1 + Len(sv.runs) /\ (<<R>> \o sv.runs)[1] = R
        /\ \A i \in 1 .. Len(sv.runs) : (<<R>> \o sv.runs)[1 + i] = sv.runs[i]
    BY <1>1, <1>6, PrependParts
  <2>3. QED BY <2>1, <2>2 DEF v
<1>9. Depth(new) = q
  <2>1. \A x, y \in Nat : \A z \in 0 .. x : 1 + (x - z) + (1 + y) = (1 + (x - z)) + 1 + y OBVIOUS
  <2>2. QED BY <1>1, <1>7, <1>8, <2>1 DEF Depth
<1>10. /\ M[1] = tb[sv.mem] /\ \A i \in 1 .. u - c : M[1 + i] = tb[sv.imm[i]]
       /\ \A i \in 1 .. 1 + v : M[1 + (u - c) + i] = new.runs[i]
  <2>1. /\ M[1] = tb[new.mem]
        /\ \A i \in 1 .. Len(new.imm) : M[1 + i] = tb[new.imm[i]]
        /\ \A i \in 1 .. Len(new.runs) : M[1 + Len(new.imm) + i] = new.runs[i]
    BY LevelsAre
  <2> HIDE DEF M, R
  <2>2. QED BY <1>7, <1>8, <2>1
<1> HIDE DEF L, M, R
<1>11. Between(L, a + 1, b) = E
  <2>1. ASSUME NEW e, e \in Between(L, a + 1, b) PROVE e \in E
    <3>1. PICK j \in a + 1 .. b : e \in L[j] BY <2>1 DEF Between
    <3>2. j - 1 \in u - c + 1 .. u /\ j - 1 \in 1 .. u /\ j = 1 + (j - 1) BY <1>1
    <3>3. L[j] = tb[sv.imm[j - 1]] BY <1>4, <3>2
    <3>4. QED BY <3>1, <3>2, <3>3 DEF PickedIn
  <2>2. ASSUME NEW e, e \in E PROVE e \in Between(L, a + 1, b)
    <3>1. PICK i \in u - c + 1 .. u : e \in tb[sv.imm[i]] BY <2>2 DEF PickedIn
    <3>2. i \in 1 .. u /\ 1 + i \in a + 1 .. b BY <1>1
    <3>3. L[1 + i] = tb[sv.imm[i]] BY <1>4, <3>2
    <3>4. QED BY <3>1, <3>2, <3>3 DEF Between
  <2>3. QED BY <2>1, <2>2
<1>12. \A i \in 1 .. a : M[i] = L[i]
  <2>1. ASSUME NEW i \in 1 .. a, i # 1 PROVE M[i] = L[i]
    <3>1. i - 1 \in 1 .. u - c /\ i - 1 \in 1 .. u /\ i = 1 + (i - 1) BY <1>1, <2>1
    <3>2. QED BY <1>4, <1>10, <3>1
  <2>2. QED BY <1>4, <1>10, <2>1
<1>13. M[a + 1] = R
  <2>1. 1 \in 1 .. 1 + v BY <1>1
  <2>2. M[1 + (u - c) + 1] = new.runs[1] BY <1>10, <2>1
  <2>3. QED BY <1>8, <2>2
<1>14. \A i \in 1 .. p - b : M[(a + 1) + i] = L[b + i]
  <2>1. ASSUME NEW i \in 1 .. v PROVE M[(a + 1) + i] = L[b + i]
    <3>1. 1 + i \in 1 .. 1 + v /\ 1 + (u - c) + (1 + i) = (a + 1) + i
      <4> HIDE DEF u, v
      <4>1. u \in Nat /\ v \in Nat /\ c \in 0 .. u BY <1>1
      <4>2. QED BY <4>1
    <3>2. M[1 + (u - c) + (1 + i)] = sv.runs[i] BY <1>8, <1>10, <3>1
    <3>3. L[1 + u + i] = sv.runs[i] BY <1>4
    <3>4. QED BY <3>1, <3>2, <3>3
  <2>2. QED BY <1>2, <2>1
<1>15. Spliced(p, L, q, M, a, b, 1, R) BY <1>2, <1>12, <1>13, <1>14 DEF Spliced
<1>16. LevelJob(p, L, a, b, S, Keys, FALSE)
  <2>1. ASSUME NEW f \in Between(L, b + 1, p) PROVE f.key \in Keys
    <3>1. PICK i \in b + 1 .. p : f \in L[i] BY DEF Between
    <3>2. i \in 1 .. p
      <4> HIDE DEF p, b
      <4>1. QED BY <1>2
    <3>3. f \in Entry BY <1>4, <3>1, <3>2
    <3>4. QED BY <3>3 DEF Entry
  <2>2. QED BY <2>1 DEF LevelJob
<1>17. Rewritten(tb, sv, new, a, b, 1, S, Keys, FALSE)
  BY <1>3, <1>9, <1>11, <1>15, <1>16 DEF Rewritten, L, M, R
<1>18. QED BY <1>2, <1>11, <1>17 DEF L

\* An entry whose number became zero is no deletion.
NoZero(rs) == \A i \in 1 .. Len(rs) : \A e \in rs[i] : e.seq = 0 => e.val # Deleted

Flushed(tb, sv, c, S) ==
  [mem |-> sv.mem, imm |-> SubSeq(sv.imm, 1, Len(sv.imm) - c),
   runs |-> <<Rewrite(PickedIn(tb, sv, c), S, Keys, FALSE)>> \o sv.runs]

\* After a flush the levels are ordered as before, and nobody notices it who
\* may still read.
THEOREM GoodFlushed ==
  ASSUME NEW tb, NEW m, NEW n, NEW d, TablesIn(tb, m, n, d), NEW sv, Good(tb, m, n, sv),
         NoZero(sv.runs), NEW c \in 0 .. Len(sv.imm), NEW S \in SUBSET Nat
  PROVE  /\ Good(tb, m, n, Flushed(tb, sv, c, S)) /\ NoZero(Flushed(tb, sv, c, S).runs)
         /\ Unseen(PickedIn(tb, sv, c), S, Holds(tb, sv), Holds(tb, Flushed(tb, sv, c, S)))
<1> DEFINE new == Flushed(tb, sv, c, S)
           E == PickedIn(tb, sv, c)
           R == Rewrite(E, S, Keys, FALSE)
<1>1. /\ tb \in Tables /\ m \in 1 .. MaxMem /\ n \in Nat
      /\ sv \in SuperVersions /\ sv.mem \in 1 .. MaxMem /\ sv.mem <= m
      /\ sv.imm \in Seq(1 .. MaxMem) /\ sv.runs \in Seq(SUBSET Entry)
      /\ Len(sv.imm) \in Nat /\ Len(sv.runs) \in Nat
      /\ \A i \in 1 .. Len(sv.imm) : sv.imm[i] \in 1 .. MaxMem /\ sv.imm[i] < sv.mem
  BY SuperVersionTypes DEF TablesIn, Good
<1>2. ASSUME NEW e \in E PROVE e \in Entry /\ e.seq \in Nat /\ e.seq > 0 /\ e.seq <= n
  <2>1. PICK i \in Len(sv.imm) - c + 1 .. Len(sv.imm) : e \in tb[sv.imm[i]] BY DEF PickedIn
  <2>2. i \in 1 .. Len(sv.imm) BY <1>1
  <2>3. sv.imm[i] \in 1 .. MaxMem /\ sv.imm[i] # m BY <1>1, <2>2
  <2>4. tb[sv.imm[i]] \in SUBSET Entry BY <1>1, <2>3 DEF Tables
  <2>5. e \in Entry /\ e.seq \in Nat BY <2>1, <2>4 DEF Entry
  <2>6. e.seq > 0 /\ e.seq <= n BY <2>1, <2>3 DEF TablesIn
  <2>7. QED BY <2>5, <2>6
<1>3. E \in SUBSET EntriesOf(Keys) BY <1>2, EntryIs
<1> HIDE DEF E
<1>4. R \in SUBSET Entry BY <1>3, OutputType, EntryIs
<1>5. ASSUME NEW r \in R PROVE r.seq <= n /\ (r.seq = 0 => r.val # Deleted)
  <2>1. PICK e \in E : r.seq <= e.seq
    <3>1. \A bottom \in BOOLEAN : \A q \in Rewrite(E, S, Keys, bottom) : \E f \in E : q.seq <= f.seq
      BY <1>3, OutputFrom
    <3>2. QED BY <3>1
  <2>2. r.seq \in Nat BY <1>4 DEF Entry
  <2>3. \A f \in E : f.seq = 0 => f.val # Deleted BY <1>2
  <2>4. r.seq = 0 => r.val # Deleted BY <1>3, <2>3, OutputZero
  <2>5. QED BY <1>1, <1>2, <2>1, <2>2, <2>4
<1>6. /\ new.mem = sv.mem /\ new.imm = SubSeq(sv.imm, 1, Len(sv.imm) - c)
      /\ new.runs = <<R>> \o sv.runs
      /\ new = [mem |-> new.mem, imm |-> new.imm, runs |-> new.runs]
  BY DEF Flushed, E
<1> HIDE DEF new, R
<1>7. /\ new.imm \in Seq(1 .. MaxMem) /\ Len(new.imm) = Len(sv.imm) - c
      /\ \A i \in 1 .. Len(sv.imm) - c : new.imm[i] = sv.imm[i]
  <2> DEFINE w == Len(sv.imm) - c
  <2>1. w \in 0 .. Len(sv.imm) BY <1>1
  <2>2. new.imm = SubSeq(sv.imm, 1, w) BY <1>6
  <2> HIDE DEF w
  <2>3. new.imm \in Seq(1 .. MaxMem) /\ Len(new.imm) = w /\ \A i \in 1 .. w : new.imm[i] = sv.imm[i]
    BY <1>1, <2>1, <2>2, FrontParts
  <2>4. QED BY <2>3 DEF w
<1>8. /\ new.runs \in Seq(SUBSET Entry) /\ Len(new.runs) = 1 + Len(sv.runs)
      /\ new.runs[1] = R /\ \A i \in 1 .. Len(sv.runs) : new.runs[1 + i] = sv.runs[i]
  <2> DEFINE t == <<R>> \o sv.runs
  <2>1. /\ t \in Seq(SUBSET Entry) /\ Len(t) = 1 + Len(sv.runs)
        /\ t[1] = R /\ \A i \in 1 .. Len(sv.runs) : t[1 + i] = sv.runs[i]
    <3>1. R \in SUBSET Entry /\ sv.runs \in Seq(SUBSET Entry) BY <1>1, <1>4
    <3>2. QED BY <3>1, PrependParts
  <2>2. new.runs = t BY <1>6
  <2> HIDE DEF t
  <2>3. QED BY <2>1, <2>2
<1>9. new \in SuperVersions BY <1>1, <1>6, <1>7, <1>8 DEF SuperVersions
<1>10. \A i \in 1 .. Len(new.imm) : new.imm[i] < new.mem
  <2>1. \A i \in 1 .. Len(sv.imm) - c : i \in 1 .. Len(sv.imm) BY <1>1
  <2>2. QED BY <1>1, <1>6, <1>7, <2>1
<1>11. ASSUME NEW i \in 1 .. Len(new.runs), NEW e \in new.runs[i]
       PROVE  e.seq <= n /\ (e.seq = 0 => e.val # Deleted)
  <2>1. CASE i = 1 BY <1>5, <1>8, <2>1
  <2>2. CASE i # 1
    <3>1. i - 1 \in 1 .. Len(sv.runs) /\ i = 1 + (i - 1) BY <1>1, <1>8, <2>2
    <3>2. new.runs[i] = sv.runs[i - 1] BY <1>8, <3>1
    <3>3. QED BY <3>1, <3>2 DEF Good, NoZero
  <2>3. QED BY <2>1, <2>2
<1>12. LET a == 1 + (Len(sv.imm) - c)
           b == 1 + Len(sv.imm)
       IN /\ a \in Nat /\ b \in Nat
          /\ Between(LevelsIn(tb, sv), a + 1, b) = E
          /\ Rewritten(tb, sv, new, a, b, 1, S, Keys, FALSE)
  BY <1>1, <1>6, <1>9, FlushedLevels DEF E, R
<1>13. Good(tb, m, n, new) /\ Unseen(E, S, Holds(tb, sv), Holds(tb, new))
  <2>1. PICK a \in Nat, b \in Nat :
          /\ Between(LevelsIn(tb, sv), a + 1, b) = E
          /\ Rewritten(tb, sv, new, a, b, 1, S, Keys, FALSE)
    BY <1>12
  <2>2. \A i \in 1 .. Len(new.runs) : \A e \in new.runs[i] : e.seq <= n BY <1>11
  <2>3. QED BY <1>1, <1>6, <1>9, <1>10, <2>1, <2>2, GoodRewritten
<1>14. NoZero(new.runs) BY <1>11 DEF NoZero
<1>15. QED BY <1>13, <1>14 DEF new, E

\* Compaction: the runs g + 1 .. h become at most one.
MergedIn(rs, g, h) == UNION {rs[i] : i \in g + 1 .. h}
OlderRuns(rs, h) == SubSeq(rs, h + 1, Len(rs))
OutputOf(rs, g, h, S, bottom) == Rewrite(MergedIn(rs, g, h), S, Beyond(OlderRuns(rs, h)), bottom)
RunsCompacted(rs, g, h, R) ==
  SubSeq(rs, 1, g) \o (IF R = {} THEN <<>> ELSE <<R>>) \o OlderRuns(rs, h)

AreCompacted(rs, new, g, h, R, x) ==
  /\ new \in Seq(SUBSET Entry) /\ Len(new) = g + x + (Len(rs) - h)
  /\ \A i \in 1 .. g : new[i] = rs[i]
  /\ x = 1 => new[g + 1] = R
  /\ \A i \in 1 .. Len(rs) - h : new[(g + x) + i] = rs[h + i]

\* The runs a compaction leaves.
LEMMA CompactedParts ==
  ASSUME NEW rs \in Seq(SUBSET Entry), NEW g \in 0 .. Len(rs), NEW h \in g .. Len(rs),
         NEW R \in SUBSET Entry, NEW x, x = (IF R = {} THEN 0 ELSE 1)
  PROVE  AreCompacted(rs, RunsCompacted(rs, g, h, R), g, h, R, x)
<1> DEFINE front == SubSeq(rs, 1, g)
           mid == IF R = {} THEN <<>> ELSE <<R>>
           back == SubSeq(rs, h + 1, Len(rs))
           N == Len(rs)
<1>1. N \in Nat /\ g \in Nat /\ h \in Nat /\ g <= h /\ h <= N /\ h \in 0 .. N /\ x \in {0, 1}
  BY SeqParts
<1>2. front \in Seq(SUBSET Entry) /\ Len(front) = g /\ \A i \in 1 .. g : front[i] = rs[i]
  BY FrontParts
<1>3. mid \in Seq(SUBSET Entry) /\ Len(mid) = x /\ (x = 1 => mid[1] = R)
  <2>1. CASE R = {} BY <2>1
  <2>2. CASE R # {}
    <3>1. ASSUME NEW T, NEW t \in T PROVE <<t>> \in Seq(T) /\ Len(<<t>>) = 1 /\ <<t>>[1] = t
      OBVIOUS
    <3>2. mid = <<R>> /\ x = 1 BY <2>2
    <3> HIDE DEF mid
    <3>3. QED BY <3>1, <3>2
  <2>3. QED BY <2>1, <2>2
<1>4. /\ back \in Seq(SUBSET Entry) /\ Len(back) = N - h
      /\ \A i \in 1 .. N - h : back[i] = rs[h + i]
  BY <1>1, BackParts
<1>5. RunsCompacted(rs, g, h, R) = (front \o mid) \o back BY DEF RunsCompacted, OlderRuns
<1> HIDE DEF front, mid, back, N
<1> DEFINE s == front \o mid
<1>6. s \in Seq(SUBSET Entry) /\ Len(s) = g + x
  <2>1. front \in Seq(SUBSET Entry) /\ mid \in Seq(SUBSET Entry) BY <1>2, <1>3
  <2>2. s \in Seq(SUBSET Entry) /\ Len(s) = Len(front) + Len(mid) BY <2>1, ConcatParts
  <2>3. Len(front) = g /\ Len(mid) = x BY <1>2, <1>3
  <2> HIDE DEF s
  <2>4. QED BY <2>2, <2>3
<1>7. \A i \in 1 .. g : s[i] = rs[i] BY <1>2, <1>3, ConcatParts
<1>8. x = 1 => s[g + 1] = R
  <2>1. \A i \in 1 .. Len(mid) : s[Len(front) + i] = mid[i] BY <1>2, <1>3, ConcatParts
  <2>2. x = 1 => 1 \in 1 .. Len(mid) BY <1>3
  <2>3. QED BY <1>2, <1>3, <2>1, <2>2
<1> HIDE DEF s
<1> DEFINE w == s \o back
<1>9. w \in Seq(SUBSET Entry) /\ Len(w) = Len(s) + Len(back) BY <1>4, <1>6, ConcatParts
<1>10. \A i \in 1 .. Len(s) : w[i] = s[i] BY <1>4, <1>6, ConcatParts
<1>11. \A i \in 1 .. Len(back) : w[Len(s) + i] = back[i] BY <1>4, <1>6, ConcatParts
<1> HIDE DEF w
<1>12. Len(w) = g + x + (N - h) BY <1>4, <1>6, <1>9
<1>13. \A i \in 1 .. g : w[i] = rs[i]
  <2>1. \A i \in 1 .. g : i \in 1 .. g + x BY <1>1
  <2>2. QED BY <1>6, <1>7, <1>10, <2>1
<1>14. x = 1 => w[g + 1] = R
  <2>1. x = 1 => g + 1 \in 1 .. g + x BY <1>1
  <2>2. QED BY <1>6, <1>8, <1>10, <2>1
<1>15. \A i \in 1 .. N - h : w[(g + x) + i] = rs[h + i] BY <1>4, <1>6, <1>11
<1>16. w = RunsCompacted(rs, g, h, R) BY <1>5 DEF w, s
<1>17. QED BY <1>9, <1>12, <1>13, <1>14, <1>15, <1>16 DEF N, AreCompacted

Compacted(sv, g, h, S, bottom) ==
  [mem |-> sv.mem, imm |-> sv.imm,
   runs |-> RunsCompacted(sv.runs, g, h, OutputOf(sv.runs, g, h, S, bottom))]

\* What it reads and writes are entries.
LEMMA OutputOfType ==
  ASSUME NEW sv \in SuperVersions, NEW g \in 0 .. Len(sv.runs), NEW h \in g .. Len(sv.runs),
         NEW S \in SUBSET Nat, NEW bottom \in BOOLEAN
  PROVE  /\ MergedIn(sv.runs, g, h) \in SUBSET EntriesOf(Keys)
         /\ OutputOf(sv.runs, g, h, S, bottom) \in SUBSET Entry
<1>1. \A i \in g + 1 .. h : i \in 1 .. Len(sv.runs) BY SuperVersionTypes
<1>2. \A i \in g + 1 .. h : sv.runs[i] \in SUBSET Entry BY <1>1, SuperVersionTypes
<1>3. MergedIn(sv.runs, g, h) \in SUBSET EntriesOf(Keys) BY <1>2, EntryIs DEF MergedIn
<1>4. QED BY <1>3, OutputType, EntryIs DEF OutputOf

\* new comes from sv by rewriting neighbouring levels with the entries E.
ComesFrom(tb, sv, new, E, S, bottom) ==
  \E a \in Nat, b \in Nat : \E x, beyond :
    /\ Between(LevelsIn(tb, sv), a + 1, b) = E
    /\ Rewritten(tb, sv, new, a, b, x, S, beyond, bottom)

\* A compaction is a rewriting of neighbouring levels too.
LEMMA CompactedLevels ==
  ASSUME NEW tb \in Tables, NEW sv \in SuperVersions, NEW g \in 0 .. Len(sv.runs),
         NEW h \in g .. Len(sv.runs), NEW S \in SUBSET Nat, NEW bottom \in BOOLEAN,
         bottom => h = Len(sv.runs), NEW new \in SuperVersions,
         new = Compacted(sv, g, h, S, bottom)
  PROVE  ComesFrom(tb, sv, new, MergedIn(sv.runs, g, h), S, bottom)
<1> DEFINE L == LevelsIn(tb, sv)
           M == LevelsIn(tb, new)
           E == MergedIn(sv.runs, g, h)
           older == OlderRuns(sv.runs, h)
           beyond == Beyond(older)
           R == OutputOf(sv.runs, g, h, S, bottom)
           x == IF R = {} THEN 0 ELSE 1
           u == Len(sv.imm)
           r == Len(sv.runs)
           a == (1 + u) + g
           b == (1 + u) + h
           p == (1 + u) + r
           q == a + x + (r - h)
<1>1. u \in Nat /\ r \in Nat /\ sv.runs \in Seq(SUBSET Entry) /\ R \in SUBSET Entry
  BY SuperVersionTypes, OutputOfType
<1>2. /\ a \in Nat /\ b \in Nat /\ p \in Nat /\ q \in Nat /\ a <= b /\ b <= p /\ x \in {0, 1}
      /\ q = a + x + (p - b) /\ p - b = r - h /\ g \in Nat /\ h \in Nat
  <2> HIDE DEF u, r, R
  <2>1. u \in Nat /\ r \in Nat /\ g \in 0 .. r /\ h \in g .. r BY <1>1 DEF r
  <2>2. x \in {0, 1} OBVIOUS
  <2> HIDE DEF x
  <2>3. QED BY <2>1, <2>2
<1>3. Depth(sv) = p BY DEF Depth
<1>4. /\ L \in [1 .. p -> SUBSET Entry] /\ L[1] = tb[sv.mem]
      /\ \A i \in 1 .. u : L[1 + i] = tb[sv.imm[i]]
      /\ \A i \in 1 .. r : L[(1 + u) + i] = sv.runs[i]
  BY <1>3, LevelsAre
<1>5. new.mem = sv.mem /\ new.imm = sv.imm /\ new.runs = RunsCompacted(sv.runs, g, h, R)
  BY DEF Compacted
<1>6. /\ Len(new.runs) = g + x + (r - h)
      /\ \A i \in 1 .. g : new.runs[i] = sv.runs[i]
      /\ x = 1 => new.runs[g + 1] = R
      /\ \A i \in 1 .. r - h : new.runs[(g + x) + i] = sv.runs[h + i]
  <2> HIDE DEF R
  <2>1. x = (IF R = {} THEN 0 ELSE 1) OBVIOUS
  <2> HIDE DEF x
  <2>2. sv.runs \in Seq(SUBSET Entry) /\ R \in SUBSET Entry BY <1>1
  <2>3. AreCompacted(sv.runs, RunsCompacted(sv.runs, g, h, R), g, h, R, x)
    BY <2>1, <2>2, CompactedParts
  <2>4. QED BY <1>5, <2>3 DEF AreCompacted
<1>7. Depth(new) = q
  <2> HIDE DEF R, x, r
  <2>1. Depth(new) = 1 + u + (g + x + (r - h)) BY <1>5, <1>6 DEF Depth
  <2> HIDE DEF u
  <2>2. u \in Nat /\ r \in Nat /\ g \in Nat /\ h \in Nat /\ x \in {0, 1} BY <1>1, <1>2
  <2>3. 1 + u + (g + x + (r - h)) = ((1 + u) + g) + x + (r - h) BY <2>2
  <2>4. QED BY <2>1, <2>3
<1>8. /\ M[1] = tb[sv.mem] /\ \A i \in 1 .. u : M[1 + i] = tb[sv.imm[i]]
      /\ \A i \in 1 .. g + x + (r - h) : M[(1 + u) + i] = new.runs[i]
  <2>1. /\ M[1] = tb[new.mem]
        /\ \A i \in 1 .. Len(new.imm) : M[1 + i] = tb[new.imm[i]]
        /\ \A i \in 1 .. Len(new.runs) : M[1 + Len(new.imm) + i] = new.runs[i]
    BY LevelsAre
  <2> HIDE DEF M, R, x
  <2>2. QED BY <1>5, <1>6, <2>1
<1> HIDE DEF L, M, R, x, E, u, r, beyond, older
<1>9. Between(L, a + 1, b) = E
  <2>1. ASSUME NEW e, e \in Between(L, a + 1, b) PROVE e \in E
    <3>1. PICK j \in a + 1 .. b : e \in L[j] BY <2>1 DEF Between
    <3>2. j - (1 + u) \in g + 1 .. h /\ j - (1 + u) \in 1 .. r /\ j = (1 + u) + (j - (1 + u))
      BY <1>1, <1>2
    <3>3. L[(1 + u) + (j - (1 + u))] = sv.runs[j - (1 + u)] BY <1>4, <3>2
    <3>4. QED BY <3>1, <3>2, <3>3 DEF E, MergedIn
  <2>2. ASSUME NEW e, e \in E PROVE e \in Between(L, a + 1, b)
    <3>1. PICK i \in g + 1 .. h : e \in sv.runs[i] BY <2>2 DEF E, MergedIn
    <3>2. i \in 1 .. r /\ (1 + u) + i \in a + 1 .. b BY <1>1, <1>2
    <3>3. L[(1 + u) + i] = sv.runs[i] BY <1>4, <3>2
    <3>4. QED BY <3>1, <3>2, <3>3 DEF Between
  <2>3. QED BY <2>1, <2>2
<1>10. \A i \in 1 .. a : M[i] = L[i]
  <2>1. ASSUME NEW i \in 1 .. a PROVE M[i] = L[i]
    <3>1. CASE i = 1 BY <1>4, <1>8, <3>1
    <3>2. CASE i # 1 /\ i <= 1 + u
      <4>1. i - 1 \in 1 .. u /\ i = 1 + (i - 1) BY <1>1, <3>2
      <4>2. QED BY <1>4, <1>8, <4>1
    <3>3. CASE i > 1 + u
      <4> DEFINE j == i - (1 + u)
      <4>1. /\ j \in 1 .. g /\ j \in 1 .. r /\ j \in 1 .. g + x + (r - h) /\ i = (1 + u) + j
        BY <1>1, <1>2, <3>3
      <4> HIDE DEF j
      <4>2. QED BY <1>4, <1>6, <1>8, <4>1
    <3>4. QED BY <1>1, <3>1, <3>2, <3>3
  <2>2. QED BY <2>1
<1>11. IF x = 1 THEN M[a + 1] = R ELSE R = {}
  <2>1. CASE x = 1
    <3>1. g + 1 \in 1 .. g + x + (r - h) /\ (1 + u) + (g + 1) = a + 1 BY <1>1, <1>2, <2>1
    <3>2. M[(1 + u) + (g + 1)] = new.runs[g + 1] BY <1>8, <3>1
    <3>3. M[a + 1] = new.runs[g + 1] BY <3>1, <3>2
    <3>4. QED BY <1>6, <2>1, <3>3
  <2>2. CASE x # 1 BY <2>2 DEF x
  <2>3. QED BY <2>1, <2>2
<1>12. \A i \in 1 .. p - b : M[(a + x) + i] = L[b + i]
  <2>1. ASSUME NEW i \in 1 .. r - h PROVE M[(a + x) + i] = L[b + i]
    <3>1. /\ (g + x) + i \in 1 .. g + x + (r - h) /\ (1 + u) + ((g + x) + i) = (a + x) + i
          /\ h + i \in 1 .. r /\ (1 + u) + (h + i) = b + i
      BY <1>1, <1>2
    <3>2. M[(1 + u) + ((g + x) + i)] = new.runs[(g + x) + i] BY <1>8, <3>1
    <3>3. L[(1 + u) + (h + i)] = sv.runs[h + i] BY <1>4, <3>1
    <3>4. QED BY <1>6, <3>1, <3>2, <3>3
  <2>2. QED BY <1>2, <2>1
<1>13. Spliced(p, L, q, M, a, b, x, R) BY <1>2, <1>10, <1>11, <1>12 DEF Spliced
<1>14. ASSUME NEW f \in Between(L, b + 1, p) PROVE f.key \in beyond
  <2>1. PICK j \in b + 1 .. p : f \in L[j] BY DEF Between
  <2> DEFINE i == j - b
  <2>2. i \in 1 .. r - h /\ h + i \in 1 .. r /\ (1 + u) + (h + i) = j BY <1>1, <1>2
  <2> HIDE DEF i
  <2>3. L[(1 + u) + (h + i)] = sv.runs[h + i] BY <1>4, <2>2
  <2>4. f \in sv.runs[h + i] BY <2>1, <2>2, <2>3
  <2>5. f.key \in Keys
    <3>1. sv.runs[h + i] \in SUBSET Entry BY <1>1, <2>2, SeqParts DEF r
    <3>2. QED BY <2>4, <3>1 DEF Entry
  <2>6. Len(older) = r - h /\ older \in Seq(SUBSET Entry) /\ older[i] = sv.runs[h + i]
    <3>1. h \in 0 .. r BY <1>1, <1>2
    <3>2. QED BY <1>1, <2>2, <3>1, BackParts DEF older, OlderRuns, r
  <2>7. i \in DOMAIN older BY <2>2, <2>6, SeqParts
  <2>8. f.key <= f.key
    <3>1. f.key \in Nat BY <2>5, KeysAssumption
    <3>2. QED BY <3>1
  <2>9. QED BY <2>4, <2>5, <2>6, <2>7, <2>8 DEF beyond, Beyond
<1>15. bottom => b = p BY DEF r
<1>16. LevelJob(p, L, a, b, S, beyond, bottom) BY <1>14, <1>15 DEF LevelJob
<1>17. R = Rewrite(E, S, beyond, bottom) BY DEF R, OutputOf, E, beyond, older
<1>18. Rewritten(tb, sv, new, a, b, x, S, beyond, bottom)
  BY <1>3, <1>7, <1>9, <1>13, <1>16, <1>17 DEF Rewritten, L, M
<1>19. QED BY <1>2, <1>9, <1>18 DEF L, E, ComesFrom

\* After a compaction the same holds.
THEOREM GoodCompacted ==
  ASSUME NEW tb, NEW m, NEW n, NEW d, TablesIn(tb, m, n, d), NEW sv, Good(tb, m, n, sv),
         NoZero(sv.runs), NEW g \in 0 .. Len(sv.runs), NEW h \in g .. Len(sv.runs),
         NEW S \in SUBSET Nat, NEW bottom \in BOOLEAN, bottom => h = Len(sv.runs)
  PROVE  /\ Good(tb, m, n, Compacted(sv, g, h, S, bottom))
         /\ NoZero(Compacted(sv, g, h, S, bottom).runs)
         /\ Unseen(MergedIn(sv.runs, g, h), S, Holds(tb, sv),
                   Holds(tb, Compacted(sv, g, h, S, bottom)))
<1> DEFINE new == Compacted(sv, g, h, S, bottom)
           E == MergedIn(sv.runs, g, h)
           R == OutputOf(sv.runs, g, h, S, bottom)
           x == IF R = {} THEN 0 ELSE 1
           r == Len(sv.runs)
<1>1. /\ tb \in Tables /\ n \in Nat /\ sv \in SuperVersions /\ sv.mem \in 1 .. MaxMem
      /\ sv.imm \in Seq(1 .. MaxMem) /\ sv.runs \in Seq(SUBSET Entry) /\ r \in Nat
      /\ \A i \in 1 .. Len(sv.imm) : sv.imm[i] < sv.mem
  BY SuperVersionTypes DEF TablesIn, Good
<1>2. E \in SUBSET EntriesOf(Keys) /\ R \in SUBSET Entry BY <1>1, OutputOfType
<1>3. ASSUME NEW e \in E PROVE e.seq \in Nat /\ e.seq <= n /\ (e.seq = 0 => e.val # Deleted)
  <2>1. PICK i \in g + 1 .. h : e \in sv.runs[i] BY DEF MergedIn
  <2>2. i \in 1 .. r BY <1>1
  <2>3. e.seq <= n /\ (e.seq = 0 => e.val # Deleted) BY <2>1, <2>2 DEF Good, NoZero
  <2>4. e.seq \in Nat BY <1>2 DEF EntriesOf
  <2>5. QED BY <2>3, <2>4
<1>4. ASSUME NEW e \in R PROVE e.seq <= n /\ (e.seq = 0 => e.val # Deleted)
  <2> DEFINE beyond == Beyond(OlderRuns(sv.runs, h))
  <2>1. e \in Rewrite(E, S, beyond, bottom) BY DEF OutputOf
  <2> HIDE DEF E, beyond
  <2>2. PICK f \in E : e.seq <= f.seq BY <1>2, <2>1, OutputFrom
  <2>3. e.seq \in Nat BY <1>2 DEF Entry
  <2>4. e.seq = 0 => e.val # Deleted BY <1>2, <1>3, <2>1, OutputZero
  <2>5. QED BY <1>1, <1>3, <2>2, <2>3, <2>4
<1>5. /\ new.mem = sv.mem /\ new.imm = sv.imm /\ new.runs = RunsCompacted(sv.runs, g, h, R)
      /\ new = [mem |-> new.mem, imm |-> new.imm, runs |-> new.runs]
  BY DEF Compacted
<1>6. AreCompacted(sv.runs, new.runs, g, h, R, x)
  <2> HIDE DEF R, new
  <2>1. x = (IF R = {} THEN 0 ELSE 1) OBVIOUS
  <2> HIDE DEF x
  <2>2. QED BY <1>1, <1>2, <1>5, <2>1, CompactedParts
<1> HIDE DEF new, R, E
<1>7. x \in {0, 1} OBVIOUS
<1> HIDE DEF x
<1>8. /\ new.runs \in Seq(SUBSET Entry) /\ Len(new.runs) = g + x + (r - h)
      /\ \A i \in 1 .. g : new.runs[i] = sv.runs[i]
      /\ x = 1 => new.runs[g + 1] = R
      /\ \A i \in 1 .. r - h : new.runs[(g + x) + i] = sv.runs[h + i]
  BY <1>6 DEF AreCompacted
<1>9. new \in SuperVersions BY <1>1, <1>5, <1>8 DEF SuperVersions
<1> HIDE DEF r
<1>10. ASSUME NEW i \in 1 .. Len(new.runs), NEW e \in new.runs[i]
       PROVE  e.seq <= n /\ (e.seq = 0 => e.val # Deleted)
  <2>1. \A j \in 1 .. r : \A f \in sv.runs[j] : f.seq <= n /\ (f.seq = 0 => f.val # Deleted)
    BY DEF Good, NoZero, r
  <2>2. r \in Nat /\ g \in 0 .. r /\ h \in g .. r /\ i \in 1 .. g + x + (r - h) BY <1>1, <1>8 DEF r
  <2>3. CASE i <= g
    <3>1. i \in 1 .. g /\ i \in 1 .. r BY <2>2, <2>3
    <3>2. QED BY <1>8, <2>1, <3>1
  <2>4. CASE i > g /\ i <= g + x
    <3>1. x = 1 /\ i = g + 1 BY <1>7, <2>2, <2>4
    <3>2. QED BY <1>4, <1>8, <3>1
  <2>5. CASE i > g + x
    <3> DEFINE j == i - (g + x)
    <3>1. j \in 1 .. r - h /\ i = (g + x) + j /\ h + j \in 1 .. r BY <1>7, <2>2, <2>5
    <3> HIDE DEF j
    <3>2. new.runs[(g + x) + j] = sv.runs[h + j] BY <1>8, <3>1
    <3>3. e \in sv.runs[h + j] BY <3>1, <3>2
    <3>4. QED BY <2>1, <3>1, <3>3
  <2>6. QED BY <1>7, <2>2, <2>3, <2>4, <2>5
<1>11. PICK a \in Nat, b \in Nat :
         \E y, beyond : /\ Between(LevelsIn(tb, sv), a + 1, b) = E
                        /\ Rewritten(tb, sv, new, a, b, y, S, beyond, bottom)
  <2>1. ComesFrom(tb, sv, new, E, S, bottom) BY <1>1, <1>9, CompactedLevels DEF new, E
  <2>2. QED BY <2>1 DEF ComesFrom
<1>12. Good(tb, m, n, new) /\ Unseen(E, S, Holds(tb, sv), Holds(tb, new))
  <2>1. \A i \in 1 .. Len(new.runs) : \A e \in new.runs[i] : e.seq <= n BY <1>10
  <2>2. \A i \in 1 .. Len(new.imm) : new.imm[i] < new.mem BY <1>1, <1>5
  <2>3. PICK y, beyond : /\ Between(LevelsIn(tb, sv), a + 1, b) = E
                         /\ Rewritten(tb, sv, new, a, b, y, S, beyond, bottom)
    BY <1>11
  <2>4. QED BY <1>1, <1>5, <1>9, <2>1, <2>2, <2>3, GoodRewritten
<1>13. NoZero(new.runs) BY <1>10 DEF NoZero
<1>14. QED BY <1>12, <1>13 DEF new, E

\* A lookup finds a value,
LEMMA LookupType ==
  ASSUME NEW E \in SUBSET EntriesOf(Keys), NEW k, NEW n \in Nat
  PROVE  Lookup(E, k, n) \in Nat
<1>1. CASE \E e \in E : VisibleAt(e, k, n)
  <2>1. \E e \in E : Finds(E, e, k, n) BY <1>1, SomethingFound
  <2>2. (CHOOSE e \in E : Finds(E, e, k, n)) \in E BY <2>1
  <2>3. (CHOOSE e \in E : Finds(E, e, k, n)).val \in Nat BY <2>2 DEF EntriesOf
  <2>4. QED BY <1>1, <2>3 DEF Lookup
<1>2. CASE ~\E e \in E : VisibleAt(e, k, n) BY <1>2 DEF Lookup, Deleted
<1>3. QED BY <1>1, <1>2

\* so what a SuperVersion shows is a map.
LEMMA ViewType ==
  ASSUME NEW tb, NEW m, NEW n, NEW d, TablesIn(tb, m, n, d), NEW sv, Good(tb, m, n, sv)
  PROVE  \A j \in Nat : ViewIn(tb, sv, j) \in Maps
<1> DEFINE E == Holds(tb, sv)
<1>1. E \in SUBSET EntriesOf(Keys) BY GoodHolds
<1> HIDE DEF E
<1>2. \A j \in Nat : \A k \in Keys : Lookup(E, k, j) \in Nat BY <1>1, LookupType
<1>3. QED BY <1>2 DEF ViewIn, Maps, E

-----------------------------------------------------------------------------
(***************************************************************************)
(* The inductive invariant.                                                *)
(***************************************************************************)

Done == IF writer = None THEN 0 ELSE writer.done

\* The tables, the current SuperVersion and the published number.
StoreOK ==
  /\ TablesIn(table, mem, lastSeq, Done)
  /\ Good(table, mem, lastSeq, SuperVersion)
  /\ NoZero(runs)
  /\ lastSeq <= MaxSeq

SnapshotsOK ==
  /\ snapshots \in [Snapshots -> 0 .. MaxSeq \cup {None}]
  /\ \A s \in Snapshots : snapshots[s] # None => snapshots[s] <= lastSeq

\* An iterator keeps a SuperVersion whose levels are still ordered.
ItersOK ==
  /\ iters \in [Iterators -> IteratorStates \cup {None}]
  /\ \A i \in Iterators : iters[i] # None =>
       iters[i].seq <= lastSeq /\ Good(table, mem, lastSeq, iters[i].sv)

\* Exactly the updates of the batch done so far are above the published number.
WriterOK ==
  /\ writer \in Writers \cup {None}
  /\ writer # None => /\ writer.done <= Len(writer.ops)
                      /\ lastSeq + Len(writer.ops) <= MaxSeq
                      /\ Inserted(table[mem], writer.ops, writer.done, lastSeq)

\* A flush works on the oldest memtables there are, a compaction on runs that
\* stay neighbours; every snapshot there is was taken into account, or sees all
\* of the input.
PickedNow == PickedIn(table, SuperVersion, Len(flush.tables))
FlushOK ==
  /\ flush \in Flushes \cup {None}
  /\ flush # None =>
       /\ Len(flush.tables) <= Len(imm)
       /\ \A i \in 1 .. Len(flush.tables) :
            flush.tables[i] = imm[(Len(imm) - Len(flush.tables)) + i]
       /\ \A s \in Snapshots : snapshots[s] # None =>
            Readable(PickedNow, flush.snaps, snapshots[s])

MergedNow == MergedIn(runs, Len(runs) - compaction.to, (Len(runs) - compaction.from) + 1)
CompactionOK ==
  /\ compaction \in Compactions \cup {None}
  /\ compaction # None =>
       /\ 1 <= compaction.from /\ compaction.from <= compaction.to
       /\ compaction.to <= Len(runs)
       /\ \A s \in Snapshots : snapshots[s] # None =>
            Readable(MergedNow, compaction.snaps, snapshots[s])

CallOK ==
  /\ call \in Calls /\ got \in Nat \cup {None}
  /\ call.op = "idle" => call = Idle
  /\ call.op # "idle" /\ call.at # None => snapshots[call.at] # None
  /\ call.op = "get" => /\ call.key \in Keys /\ call.iter = None
                        /\ Good(table, mem, lastSeq, call.sv)
  /\ call.op \in {"iter", "refresh"} => call.iter \in Iterators /\ call.seq # None
  /\ call.op = "refresh" => call.at = None
  /\ call.seq # None => call.seq <= lastSeq
  /\ got # None => call.op = "get"

Inv == /\ StoreOK /\ SnapshotsOK /\ ItersOK /\ WriterOK /\ FlushOK /\ CompactionOK /\ CallOK

\* It implies the types,
LEMMA InvType == Inv => TypeOK
<1> SUFFICES ASSUME Inv PROVE TypeOK OBVIOUS
<1> USE DEF Inv
<1>1. table \in [1 .. MaxMem -> SUBSET Entry] /\ SuperVersion \in SuperVersions
      /\ lastSeq \in 0 .. MaxSeq
  BY BoundsAssumption DEF StoreOK, TablesIn, Good, Tables
<1>2. snapshots \in [Snapshots -> 0 .. MaxSeq \cup {None}] BY DEF SnapshotsOK
<1>3. /\ iters \in [Iterators -> IteratorStates \cup {None}]
      /\ \A i \in Iterators : iters[i] # None => iters[i].seq <= lastSeq
  BY DEF ItersOK
<1>4. writer \in Writers \cup {None} /\ (writer # None => writer.done <= Len(writer.ops))
  BY DEF WriterOK
<1>5. flush \in Flushes \cup {None} /\ (flush # None => Len(flush.tables) <= Len(imm))
  BY DEF FlushOK
<1>6. /\ compaction \in Compactions \cup {None}
      /\ compaction # None => /\ 1 <= compaction.from /\ compaction.from <= compaction.to
                              /\ compaction.to <= Len(runs)
  BY DEF CompactionOK
<1>7. call \in Calls /\ got \in Nat \cup {None} BY DEF CallOK
<1>8. QED BY <1>1, <1>2, <1>3, <1>4, <1>5, <1>6, <1>7 DEF TypeOK

\* holds at first,
LEMMA InitInv == Init => Inv
<1> SUFFICES ASSUME Init PROVE Inv OBVIOUS
<1> USE DEF Init
<1>1. StoreOK
  <2> DEFINE sv == SuperVersion
             L == LevelsIn(table, sv)
  <2>1. TablesIn(table, mem, lastSeq, Done)
    BY BoundsAssumption DEF TablesIn, Tables, Done
  <2>2. /\ sv.mem = 1 /\ sv.imm = <<>> /\ sv.runs = <<>> /\ mem = 1 /\ lastSeq = 0
        /\ Len(sv.imm) = 0 /\ Len(sv.runs) = 0
    BY DEF SuperVersion
  <2>3. sv \in SuperVersions BY BoundsAssumption DEF SuperVersion, SuperVersions
  <2>4. Depth(sv) = 1 BY <2>2 DEF Depth
  <2>5. table \in Tables BY <2>1 DEF TablesIn
  <2>6. L \in [1 .. 1 -> SUBSET Entry] /\ L[1] = table[1]
    <3> HIDE DEF L
    <3>1. L \in [1 .. Depth(sv) -> SUBSET Entry] /\ L[1] = table[sv.mem]
      BY <2>3, <2>5, LevelsAre DEF L
    <3>2. QED BY <2>2, <2>4, <3>1
  <2>7. L[1] = {} BY <2>6, BoundsAssumption
  <2> HIDE DEF L, sv
  <2>8. Sound(Keys, 1, L)
    <3>1. \A i \in 1 .. 1 : i = 1 OBVIOUS
    <3>2. \A i, j \in 1 .. 1 : ~(i < j) OBVIOUS
    <3>3. \A i \in 1 .. 1 : Unique(L[i]) BY <2>7, <3>1 DEF Unique
    <3>4. QED BY <2>6, <3>2, <3>3, EntryIs DEF Sound
  <2>9. Good(table, mem, lastSeq, sv)
    <3>1. sv.mem <= mem BY <2>2
    <3>2. \A i \in 1 .. Len(sv.imm) : sv.imm[i] < sv.mem BY <2>2
    <3>3. \A i \in 1 .. Len(sv.runs) : \A e \in sv.runs[i] : e.seq <= lastSeq BY <2>2
    <3>4. Sound(Keys, Depth(sv), LevelsIn(table, sv)) BY <2>4, <2>8 DEF L
    <3>5. QED BY <2>3, <3>1, <3>2, <3>3, <3>4 DEF Good
  <2>10. NoZero(runs) BY DEF NoZero
  <2>11. lastSeq <= MaxSeq BY BoundsAssumption
  <2>12. QED BY <2>1, <2>9, <2>10, <2>11 DEF StoreOK, sv
<1>2. SnapshotsOK BY DEF SnapshotsOK
<1>3. ItersOK BY DEF ItersOK
<1>4. WriterOK BY DEF WriterOK
<1>5. FlushOK BY DEF FlushOK
<1>6. CompactionOK BY DEF CompactionOK
<1>7. CallOK
  <2>1. call = Idle /\ got = None OBVIOUS
  <2>2. Idle \in Calls BY DEF Idle, Calls, Ops, Ats
  <2>3. Idle.op = "idle" /\ Idle.seq = None BY DEF Idle
  <2>4. QED BY <2>1, <2>2, <2>3 DEF CallOK
<1>8. QED BY <1>1, <1>2, <1>3, <1>4, <1>5, <1>6, <1>7 DEF Inv

\* What a step leaves alone stays as it was.
LEMMA Unchanged ==
  /\ StoreOK /\ UNCHANGED <<store, lastSeq, writer>> => StoreOK'
  /\ SnapshotsOK /\ UNCHANGED <<lastSeq, snapshots>> => SnapshotsOK'
  /\ ItersOK /\ UNCHANGED <<table, mem, lastSeq, iters>> => ItersOK'
  /\ WriterOK /\ UNCHANGED <<table, mem, lastSeq, writer>> => WriterOK'
  /\ FlushOK /\ UNCHANGED <<table, imm, snapshots, flush>> => FlushOK'
  /\ CompactionOK /\ UNCHANGED <<runs, snapshots, compaction>> => CompactionOK'
  /\ CallOK /\ UNCHANGED <<table, mem, lastSeq, snapshots, call, got>> => CallOK'
<1>1. StoreOK /\ UNCHANGED <<store, lastSeq, writer>> => StoreOK'
  <2>1. UNCHANGED <<store, lastSeq, writer>> => UNCHANGED <<SuperVersion, Done>>
    BY DEF store, SuperVersion, Done
  <2>2. QED BY <2>1 DEF StoreOK, store
<1>2. SnapshotsOK /\ UNCHANGED <<lastSeq, snapshots>> => SnapshotsOK' BY DEF SnapshotsOK
<1>3. ItersOK /\ UNCHANGED <<table, mem, lastSeq, iters>> => ItersOK' BY DEF ItersOK
<1>4. WriterOK /\ UNCHANGED <<table, mem, lastSeq, writer>> => WriterOK' BY DEF WriterOK
<1>5. FlushOK /\ UNCHANGED <<table, imm, snapshots, flush>> => FlushOK'
  <2>1. UNCHANGED <<table, imm, flush>> => PickedNow' = PickedNow
    BY DEF PickedNow, PickedIn, SuperVersion
  <2>2. QED BY <2>1 DEF FlushOK
<1>6. CompactionOK /\ UNCHANGED <<runs, snapshots, compaction>> => CompactionOK'
  BY DEF CompactionOK, MergedNow
<1>7. CallOK /\ UNCHANGED <<table, mem, lastSeq, snapshots, call, got>> => CallOK' BY DEF CallOK
<1>8. QED BY <1>1, <1>2, <1>3, <1>4, <1>5, <1>6, <1>7

\* Its parts, as the proofs below need them: of the store,
LEMMA StoreFacts ==
  ASSUME StoreOK
  PROVE  /\ lastSeq \in Nat /\ lastSeq \in 0 .. MaxSeq
         /\ mem \in 1 .. MaxMem /\ mem \in Nat /\ table \in Tables
         /\ SuperVersion \in SuperVersions /\ SuperVersion.mem = mem
         /\ SuperVersion.imm = imm /\ SuperVersion.runs = runs
         /\ imm \in Seq(1 .. MaxMem) /\ runs \in Seq(SUBSET Entry)
         /\ Len(imm) \in Nat /\ Len(runs) \in Nat /\ Done \in Nat
         /\ \A i \in 1 .. Len(imm) : imm[i] \in 1 .. MaxMem /\ imm[i] < mem
<1>1. lastSeq \in Nat /\ lastSeq <= MaxSeq /\ mem \in 1 .. MaxMem /\ table \in Tables /\ Done \in Nat
  BY DEF StoreOK, TablesIn
<1>2. SuperVersion \in SuperVersions BY DEF StoreOK, Good
<1>3. SuperVersion.mem = mem /\ SuperVersion.imm = imm /\ SuperVersion.runs = runs
  BY DEF SuperVersion
<1>4. /\ imm \in Seq(1 .. MaxMem) /\ runs \in Seq(SUBSET Entry)
      /\ Len(imm) \in Nat /\ Len(runs) \in Nat
      /\ \A i \in 1 .. Len(imm) : imm[i] \in 1 .. MaxMem
  BY <1>2, <1>3, SuperVersionTypes
<1>5. \A i \in 1 .. Len(imm) : imm[i] < mem BY <1>3 DEF StoreOK, Good
<1>6. lastSeq \in 0 .. MaxSeq BY <1>1, BoundsAssumption
<1>7. QED BY <1>1, <1>2, <1>3, <1>4, <1>5, <1>6

\* What a job reads is published.
LEMMA PickedBelow ==
  ASSUME StoreOK, NEW c \in 0 .. Len(imm)
  PROVE  \A e \in PickedIn(table, SuperVersion, c) : e.seq <= lastSeq
<1> SUFFICES ASSUME NEW e \in PickedIn(table, SuperVersion, c) PROVE e.seq <= lastSeq OBVIOUS
<1>1. PICK i \in Len(imm) - c + 1 .. Len(imm) : e \in table[imm[i]]
  BY StoreFacts DEF PickedIn
<1>2. i \in 1 .. Len(imm) BY StoreFacts
<1>3. imm[i] \in 1 .. MaxMem /\ imm[i] < mem /\ mem \in Nat BY <1>2, StoreFacts
<1>4. imm[i] # mem BY <1>3
<1>5. QED BY <1>1, <1>3, <1>4 DEF StoreOK, TablesIn

\* The runs hold published updates only.
LEMMA MergedBelow ==
  ASSUME StoreOK, NEW g \in 0 .. Len(runs), NEW h \in g .. Len(runs)
  PROVE  \A e \in MergedIn(runs, g, h) : e.seq <= lastSeq
<1> SUFFICES ASSUME NEW e \in MergedIn(runs, g, h) PROVE e.seq <= lastSeq OBVIOUS
<1>1. PICK i \in g + 1 .. h : e \in runs[i] BY DEF MergedIn
<1>2. i \in 1 .. Len(runs) BY StoreFacts
<1>3. QED BY <1>1, <1>2, StoreFacts DEF StoreOK, Good

\* The positions of a running compaction.
LEMMA MergedRange ==
  ASSUME StoreOK, CompactionOK, compaction # None
  PROVE  /\ Len(runs) - compaction.to \in 0 .. Len(runs)
         /\ (Len(runs) - compaction.from) + 1 \in Len(runs) - compaction.to .. Len(runs)
         /\ compaction.from \in Nat /\ compaction.to \in Nat /\ compaction.snaps \in SUBSET Nat
<1>1. compaction \in Compactions BY DEF CompactionOK
<1>2. compaction.from \in Nat /\ compaction.to \in Nat /\ compaction.snaps \in SUBSET Nat
  BY <1>1 DEF Compactions
<1>3. /\ 1 <= compaction.from /\ compaction.from <= compaction.to
      /\ compaction.to <= Len(runs) /\ Len(runs) \in Nat
  BY StoreFacts DEF CompactionOK
<1>4. QED BY <1>2, <1>3

\* The memtables of a running flush.
LEMMA FlushRange ==
  ASSUME StoreOK, FlushOK, flush # None
  PROVE  /\ flush.tables \in Seq(1 .. MaxMem) /\ flush.snaps \in SUBSET Nat
         /\ Len(flush.tables) \in 0 .. Len(imm) /\ Len(flush.tables) \in Nat
<1>1. flush \in Flushes BY DEF FlushOK
<1>2. flush.tables \in Seq(1 .. MaxMem) /\ flush.snaps \in SUBSET Nat BY <1>1 DEF Flushes
<1>3. Len(flush.tables) \in Nat BY <1>2, SeqParts
<1>4. Len(flush.tables) <= Len(imm) /\ Len(imm) \in Nat BY StoreFacts DEF FlushOK
<1>5. QED BY <1>2, <1>3, <1>4

\* The list of snapshots a job takes holds numbers.
LEMMA ListedIn == ASSUME SnapshotsOK PROVE Listed \in SUBSET Nat
<1>1. \A s \in Snapshots : snapshots[s] # None => snapshots[s] \in Nat BY DEF SnapshotsOK
<1>2. QED BY <1>1 DEF Listed

-----------------------------------------------------------------------------
(***************************************************************************)
(* Every step keeps it.                                                    *)
(***************************************************************************)

\* A batch that begins has inserted nothing yet.
LEMMA WriteBeginKeeps ==
  ASSUME Inv, NEW by \in {"main", "pool"}, NEW ops \in Programs, WriteBegin(by, ops)
  PROVE  Inv'
<1>1. StoreOK /\ SnapshotsOK /\ ItersOK /\ WriterOK /\ FlushOK /\ CompactionOK /\ CallOK
  BY DEF Inv
<1>2. /\ writer = None /\ lastSeq + Len(ops) <= MaxSeq
      /\ writer' = [by |-> by, ops |-> ops, done |-> 0]
      /\ UNCHANGED <<table, mem, imm, runs, lastSeq, snapshots, iters, flush, compaction, call, got>>
  BY DEF WriteBegin, store, jobs
<1>3. writer'.ops = ops /\ writer'.done = 0 /\ writer' \in Writers
  BY <1>2 DEF Writers
<1>4. Len(ops) \in Nat /\ 0 <= Len(ops)
  <2>1. ops \in Seq([key : Keys, del : BOOLEAN]) BY ProgramsAssumption
  <2>2. QED BY <2>1
<1>5. Done' = Done BY <1>2, <1>3 DEF Done
<1>6. StoreOK'
  <2>1. UNCHANGED SuperVersion BY <1>2 DEF SuperVersion
  <2>2. QED BY <1>1, <1>2, <1>5, <2>1 DEF StoreOK
<1>7. WriterOK'
  <2>1. \A e \in table[mem] : ~(e.seq > lastSeq)
    <3>1. TablesIn(table, mem, lastSeq, 0) BY <1>1, <1>2 DEF StoreOK, Done
    <3>2. table[mem] \in SUBSET Entry /\ mem \in 1 .. MaxMem BY <1>1, StoreFacts DEF Tables
    <3>3. \A e \in table[mem] : e.seq <= lastSeq + 0 BY <3>1, <3>2 DEF TablesIn
    <3>4. \A e \in table[mem] : e.seq \in Nat BY <3>2 DEF Entry
    <3>5. QED BY <1>1, <3>3, <3>4, StoreFacts
  <2>2. Inserted(table[mem], ops, 0, lastSeq) BY <2>1 DEF Inserted
  <2>3. QED BY <1>2, <1>3, <1>4, <2>2 DEF WriterOK
<1>8. QED BY <1>1, <1>2, <1>6, <1>7, Unchanged DEF Inv

\* A new snapshot is not older than anything a running job reads.
LEMMA GetSnapshotKeeps ==
  ASSUME Inv, NEW s \in Snapshots, GetSnapshot(s)
  PROVE  Inv'
<1>1. StoreOK /\ SnapshotsOK /\ ItersOK /\ WriterOK /\ FlushOK /\ CompactionOK /\ CallOK
  BY DEF Inv
<1>2. /\ call = Idle /\ snapshots' = [snapshots EXCEPT ![s] = lastSeq]
      /\ UNCHANGED <<store, lastSeq, iters, writer, jobs, call, got>>
      /\ UNCHANGED <<table, mem, imm, runs, flush, compaction>>
  BY DEF GetSnapshot, JsFree, store, jobs
<1>3. lastSeq \in 0 .. MaxSeq /\ lastSeq \in Nat BY <1>1, StoreFacts
<1>4. \A t \in Snapshots : snapshots'[t] = IF t = s THEN lastSeq ELSE snapshots[t]
  BY <1>1, <1>2 DEF SnapshotsOK
<1>5. SnapshotsOK'
  <2>1. snapshots' \in [Snapshots -> 0 .. MaxSeq \cup {None}] BY <1>1, <1>2, <1>3 DEF SnapshotsOK
  <2>2. \A t \in Snapshots : snapshots'[t] # None => snapshots'[t] <= lastSeq
    BY <1>1, <1>3, <1>4 DEF SnapshotsOK
  <2>3. QED BY <1>2, <2>1, <2>2 DEF SnapshotsOK
<1>6. FlushOK'
  <2>1. CASE flush = None BY <1>1, <1>2, <2>1 DEF FlushOK
  <2>2. CASE flush # None
    <3>1. \A e \in PickedNow : e.seq <= lastSeq
      BY <1>1, <2>2, FlushRange, PickedBelow DEF PickedNow
    <3>2. \A t \in Snapshots : snapshots'[t] # None => Readable(PickedNow, flush.snaps, snapshots'[t])
      BY <1>1, <1>4, <2>2, <3>1 DEF FlushOK, Readable
    <3>3. PickedNow' = PickedNow BY <1>2 DEF PickedNow, PickedIn, SuperVersion
    <3>4. QED BY <1>1, <1>2, <3>2, <3>3 DEF FlushOK
  <2>3. QED BY <2>1, <2>2
<1>7. CompactionOK'
  <2>1. CASE compaction = None BY <1>1, <1>2, <2>1 DEF CompactionOK
  <2>2. CASE compaction # None
    <3>1. \A e \in MergedNow : e.seq <= lastSeq
      BY <1>1, <2>2, MergedRange, MergedBelow DEF MergedNow
    <3>2. \A t \in Snapshots : snapshots'[t] # None =>
            Readable(MergedNow, compaction.snaps, snapshots'[t])
      BY <1>1, <1>4, <2>2, <3>1 DEF CompactionOK, Readable
    <3>3. MergedNow' = MergedNow BY <1>2 DEF MergedNow
    <3>4. QED BY <1>1, <1>2, <3>2, <3>3 DEF CompactionOK
  <2>3. QED BY <2>1, <2>2
<1>8. CallOK'
  <2>1. call.op = "idle" BY <1>2 DEF Idle
  <2>2. QED BY <1>1, <1>2, <2>1 DEF CallOK
<1>9. QED BY <1>1, <1>2, <1>5, <1>6, <1>7, <1>8, Unchanged DEF Inv

\* A released one is no longer to be respected.
LEMMA ReleaseSnapshotKeeps ==
  ASSUME Inv, NEW s \in Snapshots, ReleaseSnapshot(s)
  PROVE  Inv'
<1>1. StoreOK /\ SnapshotsOK /\ ItersOK /\ WriterOK /\ FlushOK /\ CompactionOK /\ CallOK
  BY DEF Inv
<1>2. /\ call = Idle /\ snapshots' = [snapshots EXCEPT ![s] = None]
      /\ UNCHANGED <<store, lastSeq, iters, writer, jobs, call, got>>
      /\ UNCHANGED <<table, mem, imm, runs, flush, compaction>>
  BY DEF ReleaseSnapshot, JsFree, store, jobs
<1>3. \A t \in Snapshots : snapshots'[t] = IF t = s THEN None ELSE snapshots[t]
  BY <1>1, <1>2 DEF SnapshotsOK
<1>4. SnapshotsOK' BY <1>1, <1>2, <1>3 DEF SnapshotsOK
<1>5. FlushOK'
  <2>1. PickedNow' = PickedNow BY <1>2 DEF PickedNow, PickedIn, SuperVersion
  <2>2. QED BY <1>1, <1>2, <1>3, <2>1 DEF FlushOK
<1>6. CompactionOK'
  <2>1. MergedNow' = MergedNow BY <1>2 DEF MergedNow
  <2>2. QED BY <1>1, <1>2, <1>3, <2>1 DEF CompactionOK
<1>7. CallOK'
  <2>1. call.op = "idle" BY <1>2 DEF Idle
  <2>2. QED BY <1>1, <1>2, <2>1 DEF CallOK
<1>8. QED BY <1>1, <1>2, <1>4, <1>5, <1>6, <1>7, Unchanged DEF Inv

\* The view of a good SuperVersion is a map.
LEMMA ViewNow ==
  ASSUME StoreOK, NEW sv, Good(table, mem, lastSeq, sv), NEW n \in Nat
  PROVE  View(sv, n) = ViewIn(table, sv, n) /\ View(sv, n) \in Maps
<1>1. TablesIn(table, mem, lastSeq, Done) BY DEF StoreOK
<1>2. table \in Tables /\ sv \in SuperVersions BY <1>1 DEF TablesIn, Good
<1>3. View(sv, n) = ViewIn(table, sv, n) BY <1>2, EntriesAre
<1>4. ViewIn(table, sv, n) \in Maps BY <1>1, ViewType
<1>5. QED BY <1>3, <1>4

\* A call that begins.
LEMMA BeginKeeps ==
  ASSUME Inv, NEW c \in Calls, Begin(c), c.op # "idle",
         c.op = "get" => c.key \in Keys /\ c.iter = None /\ c.sv = SuperVersion,
         c.op \in {"iter", "refresh"} => c.iter \in Iterators /\ c.seq # None,
         c.op = "refresh" => c.at = None,
         c.seq # None => c.seq <= lastSeq
  PROVE  Inv'
<1>1. StoreOK /\ SnapshotsOK /\ ItersOK /\ WriterOK /\ FlushOK /\ CompactionOK /\ CallOK
  BY DEF Inv
<1>2. /\ call = Idle /\ call' = [c EXCEPT !.since = {View(SuperVersion, lastSeq)}]
      /\ c.at # None => snapshots[c.at] # None
      /\ UNCHANGED <<store, lastSeq, snapshots, iters, writer, jobs, got>>
      /\ UNCHANGED <<table, mem, imm, runs, flush, compaction>>
  BY DEF Begin, JsFree, store, jobs
<1>3. View(SuperVersion, lastSeq) \in Maps BY <1>1, ViewNow, StoreFacts DEF StoreOK
<1>4. /\ call' \in Calls /\ call'.op = c.op /\ call'.key = c.key /\ call'.at = c.at
      /\ call'.iter = c.iter /\ call'.seq = c.seq /\ call'.sv = c.sv
  BY <1>2, <1>3 DEF Calls
<1>5. CallOK'
  <2>1. got = None
    <3>1. Idle.op = "idle" BY DEF Idle
    <3>2. QED BY <1>1, <1>2, <3>1 DEF CallOK
  <2>2. Good(table, mem, lastSeq, SuperVersion) BY <1>1 DEF StoreOK
  <2>3. QED BY <1>2, <1>4, <2>1, <2>2 DEF CallOK
<1>6. QED BY <1>1, <1>2, <1>5, Unchanged DEF Inv

\* The three calls.
LEMMA GetBeginKeeps ==
  ASSUME Inv, NEW k \in Keys, NEW s \in Ats, GetBegin(k, s)
  PROVE  Inv'
<1> DEFINE c == [Idle EXCEPT !.op = "get", !.key = k, !.at = s, !.sv = SuperVersion]
<1>1. /\ c.op = "get" /\ c.key = k /\ c.at = s /\ c.iter = None /\ c.seq = None
      /\ c.sv = SuperVersion
  BY DEF Idle
<1>2. SuperVersion \in SuperVersions BY StoreFacts DEF Inv
<1>3. c \in Calls BY <1>2 DEF Idle, Calls, Ops
<1>4. Begin(c) BY DEF GetBegin
<1> HIDE DEF c
<1>5. QED BY <1>1, <1>3, <1>4, BeginKeeps

\* The number a call reads is published.
LEMMA NumberForType ==
  ASSUME Inv, NEW s \in Ats, s # None => snapshots[s] # None
  PROVE  NumberFor(s) \in Nat /\ NumberFor(s) <= lastSeq
<1>1. lastSeq \in Nat BY StoreFacts DEF Inv
<1>2. CASE s = None BY <1>1, <1>2 DEF NumberFor
<1>3. CASE s # None
  <2>1. s \in Snapshots BY <1>3 DEF Ats
  <2>2. snapshots[s] \in 0 .. MaxSeq /\ snapshots[s] <= lastSeq BY <1>3, <2>1 DEF Inv, SnapshotsOK
  <2>3. QED BY <1>3, <2>2, BoundsAssumption DEF NumberFor
<1>4. QED BY <1>2, <1>3

\* NewIterator begins.
LEMMA NewIteratorBeginKeeps ==
  ASSUME Inv, NEW i \in Iterators, NEW s \in Ats, NewIteratorBegin(i, s)
  PROVE  Inv'
<1> DEFINE c == [Idle EXCEPT !.op = "iter", !.iter = i, !.at = s, !.seq = NumberFor(s)]
<1>1. /\ c.op = "iter" /\ c.key = None /\ c.at = s /\ c.iter = i /\ c.seq = NumberFor(s)
      /\ c.sv = None
  BY DEF Idle
<1>2. Begin(c) BY DEF NewIteratorBegin
<1>3. s # None => snapshots[s] # None BY <1>1, <1>2 DEF Begin
<1>4. NumberFor(s) \in Nat /\ NumberFor(s) <= lastSeq BY <1>3, NumberForType
<1>5. c \in Calls BY <1>4 DEF Idle, Calls, Ops
<1>6. NumberFor(s) # None BY <1>4, KeysAssumption
<1> HIDE DEF c
<1>7. QED BY <1>1, <1>2, <1>4, <1>5, <1>6, BeginKeeps

\* Refresh begins.
LEMMA RefreshBeginKeeps ==
  ASSUME Inv, NEW i \in Iterators, RefreshBegin(i)
  PROVE  Inv'
<1> DEFINE c == [Idle EXCEPT !.op = "refresh", !.iter = i, !.seq = lastSeq]
<1>1. /\ c.op = "refresh" /\ c.key = None /\ c.at = None /\ c.iter = i /\ c.seq = lastSeq
      /\ c.sv = None
  BY DEF Idle
<1>2. Begin(c) BY DEF RefreshBegin
<1>3. lastSeq \in Nat BY StoreFacts DEF Inv
<1>4. c \in Calls BY <1>3 DEF Idle, Calls, Ops, Ats
<1>5. lastSeq # None /\ lastSeq <= lastSeq BY <1>3, KeysAssumption
<1> HIDE DEF c
<1>6. QED BY <1>1, <1>2, <1>4, <1>5, BeginKeeps

\* Get takes its number.
LEMMA GetReadsNumberKeeps ==
  ASSUME Inv, GetReadsNumber
  PROVE  Inv'
<1>1. StoreOK /\ SnapshotsOK /\ ItersOK /\ WriterOK /\ FlushOK /\ CompactionOK /\ CallOK
  BY DEF Inv
<1>2. /\ call.op = "get" /\ call' = [call EXCEPT !.seq = NumberFor(call.at)]
      /\ UNCHANGED <<store, lastSeq, snapshots, iters, writer, jobs, got>>
      /\ UNCHANGED <<table, mem, imm, runs, flush, compaction>>
  BY DEF GetReadsNumber, store, jobs
<1>3. call \in Calls /\ call.at \in Ats BY <1>1 DEF CallOK, Calls
<1>4. call.at # None => snapshots[call.at] # None BY <1>1, <1>2 DEF CallOK
<1>5. NumberFor(call.at) \in Nat /\ NumberFor(call.at) <= lastSeq
  BY <1>3, <1>4, NumberForType
<1>6. /\ call' \in Calls /\ call'.op = call.op /\ call'.key = call.key /\ call'.at = call.at
      /\ call'.iter = call.iter /\ call'.seq = NumberFor(call.at) /\ call'.sv = call.sv
  BY <1>2, <1>3, <1>5 DEF Calls
<1>7. CallOK' BY <1>1, <1>2, <1>5, <1>6 DEF CallOK
<1>8. QED BY <1>1, <1>2, <1>7, Unchanged DEF Inv

\* What a Get finds is what a read of all levels finds.
LEMMA GetFinds ==
  ASSUME StoreOK, NEW sv, Good(table, mem, lastSeq, sv), NEW k \in Keys, NEW n \in Nat
  PROVE  GetFrom(sv, k, n) = View(sv, n)[k] /\ GetFrom(sv, k, n) \in Nat
<1> DEFINE L == LevelsIn(table, sv)
           p == Depth(sv)
<1>1. TablesIn(table, mem, lastSeq, Done) BY DEF StoreOK
<1>2. table \in Tables /\ sv \in SuperVersions /\ Sound(Keys, p, L) BY <1>1 DEF TablesIn, Good
<1>3. p \in Nat BY <1>2, SuperVersionTypes
<1>4. GetFrom(sv, k, n) = Found(p, L, k, n) BY <1>2, EntriesAre
<1>5. Found(p, L, k, n) = Lookup(Between(L, 1, p), k, n)
  <2> HIDE DEF L, p
  <2>1. QED BY <1>2, <1>3, FirstLevelDecides
<1>6. View(sv, n) = ViewIn(table, sv, n) /\ View(sv, n) \in Maps BY ViewNow
<1>7. View(sv, n)[k] = Lookup(Between(L, 1, p), k, n) BY <1>6 DEF ViewIn, Holds
<1>8. View(sv, n)[k] \in Nat BY <1>6 DEF Maps
<1>9. QED BY <1>4, <1>5, <1>7, <1>8

\* Get searches.
LEMMA GetSearchesKeeps ==
  ASSUME Inv, GetSearches
  PROVE  Inv'
<1>1. StoreOK /\ SnapshotsOK /\ ItersOK /\ WriterOK /\ FlushOK /\ CompactionOK /\ CallOK
  BY DEF Inv
<1>2. /\ call.op = "get" /\ call.seq # None /\ got' = GetFrom(call.sv, call.key, call.seq)
      /\ UNCHANGED <<store, lastSeq, snapshots, iters, writer, jobs, call>>
      /\ UNCHANGED <<table, mem, imm, runs, flush, compaction>>
  BY DEF GetSearches, store, jobs
<1>3. call.seq \in Nat /\ call.key \in Keys /\ Good(table, mem, lastSeq, call.sv)
  BY <1>1, <1>2 DEF CallOK, Calls
<1>4. got' \in Nat BY <1>1, <1>2, <1>3, GetFinds
<1>5. CallOK' BY <1>1, <1>2, <1>4 DEF CallOK
<1>6. QED BY <1>1, <1>2, <1>5, Unchanged DEF Inv

\* Of no call nothing is to be shown.
LEMMA IdleCall == ASSUME call' = Idle, got' = None PROVE CallOK'
<1>1. Idle \in Calls /\ Idle.op = "idle" /\ Idle.seq = None BY DEF Idle, Calls, Ops, Ats
<1>2. QED BY <1>1 DEF CallOK

\* Get returns.
LEMMA GetReturnsKeeps ==
  ASSUME Inv, GetReturns
  PROVE  Inv'
<1>1. StoreOK /\ SnapshotsOK /\ ItersOK /\ WriterOK /\ FlushOK /\ CompactionOK /\ CallOK
  BY DEF Inv
<1>2. /\ got' = None /\ call' = Idle
      /\ UNCHANGED <<store, lastSeq, snapshots, iters, writer, jobs>>
      /\ UNCHANGED <<table, mem, imm, runs, flush, compaction>>
  BY DEF GetReturns, store, jobs
<1>3. CallOK' BY <1>2, IdleCall
<1>4. QED BY <1>1, <1>2, <1>3, Unchanged DEF Inv

\* An iterator takes the current SuperVersion, which is good.
LEMMA IteratorReferencesKeeps ==
  ASSUME Inv, IteratorReferences
  PROVE  Inv'
<1> DEFINE it == [seq |-> call.seq, sv |-> SuperVersion, explicit |-> call.at # None]
<1>1. StoreOK /\ SnapshotsOK /\ ItersOK /\ WriterOK /\ FlushOK /\ CompactionOK /\ CallOK
  BY DEF Inv
<1>2. /\ call.op \in {"iter", "refresh"} /\ call' = Idle
      /\ iters' = [iters EXCEPT ![call.iter] = it]
      /\ UNCHANGED <<store, lastSeq, snapshots, writer, jobs, got>>
      /\ UNCHANGED <<table, mem, imm, runs, flush, compaction>>
  BY DEF IteratorReferences, store, jobs
<1>3. call.iter \in Iterators /\ call.seq \in Nat /\ call.seq <= lastSeq /\ got = None
  BY <1>1, <1>2 DEF CallOK, Calls
<1>4. SuperVersion \in SuperVersions /\ Good(table, mem, lastSeq, SuperVersion)
  BY <1>1, StoreFacts DEF StoreOK
<1>5. it \in IteratorStates /\ it.seq = call.seq /\ it.sv = SuperVersion
  BY <1>3, <1>4 DEF IteratorStates
<1> HIDE DEF it
<1>6. ItersOK'
  <2>1. iters' \in [Iterators -> IteratorStates \cup {None}] BY <1>1, <1>2, <1>5 DEF ItersOK
  <2>2. \A i \in Iterators : iters'[i] = IF i = call.iter THEN it ELSE iters[i]
    BY <1>1, <1>2 DEF ItersOK
  <2>3. \A i \in Iterators : iters'[i] # None =>
          iters'[i].seq <= lastSeq /\ Good(table, mem, lastSeq, iters'[i].sv)
    BY <1>1, <1>3, <1>4, <1>5, <2>2 DEF ItersOK
  <2>4. QED BY <1>2, <2>1, <2>3 DEF ItersOK
<1>7. CallOK' BY <1>2, <1>3, IdleCall
<1>8. QED BY <1>1, <1>2, <1>6, <1>7, Unchanged DEF Inv

\* An iterator is deleted.
LEMMA DeleteIteratorKeeps ==
  ASSUME Inv, NEW i \in Iterators, DeleteIterator(i)
  PROVE  Inv'
<1>1. StoreOK /\ SnapshotsOK /\ ItersOK /\ WriterOK /\ FlushOK /\ CompactionOK /\ CallOK
  BY DEF Inv
<1>2. /\ iters' = [iters EXCEPT ![i] = None]
      /\ UNCHANGED <<store, lastSeq, snapshots, writer, jobs, call, got>>
      /\ UNCHANGED <<table, mem, imm, runs, flush, compaction>>
  BY DEF DeleteIterator, store, jobs
<1>3. ItersOK'
  <2>1. \A j \in Iterators : iters'[j] = IF j = i THEN None ELSE iters[j]
    BY <1>1, <1>2 DEF ItersOK
  <2>2. QED BY <1>1, <1>2, <2>1 DEF ItersOK
<1>4. QED BY <1>1, <1>2, <1>3, Unchanged DEF Inv

\* The entry an Insert adds is the next update of the batch.
LEMMA InsertStep ==
  ASSUME Inv, Insert
  PROVE  LET n == writer.done + 1
             e == Update(writer.ops, n, lastSeq)
         IN /\ writer # None /\ writer \in Writers /\ Done = writer.done /\ writer.done \in Nat
            /\ n \in Nat /\ n \in 1 .. Len(writer.ops) /\ n <= Len(writer.ops)
            /\ e \in Entry /\ e.seq = lastSeq + (writer.done + 1)
            /\ table' = With(table, mem, e) /\ writer' = [writer EXCEPT !.done = n]
            /\ UNCHANGED <<mem, imm, runs, lastSeq, snapshots, iters, flush, compaction, call, got>>
<1> DEFINE n == writer.done + 1
           op == writer.ops[n]
           e == [key |-> op.key, seq |-> lastSeq + n,
                 val |-> IF op.del THEN Deleted ELSE lastSeq + n]
<1>1. StoreOK /\ WriterOK BY DEF Inv
<1>2. /\ writer # None /\ writer.done < Len(writer.ops)
      /\ table' = With(table, mem, e) /\ writer' = [writer EXCEPT !.done = n]
      /\ UNCHANGED <<mem, imm, runs, lastSeq, snapshots, iters, flush, compaction, call, got>>
  BY DEF Insert, jobs, With
<1>3. writer \in Writers BY <1>1, <1>2 DEF WriterOK
<1>4. writer.done \in Nat /\ writer.ops \in Seq([key : Keys, del : BOOLEAN])
  BY <1>3, ProgramsAssumption DEF Writers
<1>5. n \in Nat /\ n \in 1 .. Len(writer.ops) /\ n <= Len(writer.ops)
      /\ op \in [key : Keys, del : BOOLEAN]
  <2>1. ASSUME NEW T PROVE \A s \in Seq(T) : Len(s) \in Nat /\ \A i \in 1 .. Len(s) : s[i] \in T
    OBVIOUS
  <2>2. Len(writer.ops) \in Nat
        /\ \A i \in 1 .. Len(writer.ops) : writer.ops[i] \in [key : Keys, del : BOOLEAN]
    BY <1>4, <2>1
  <2>3. n \in Nat /\ n \in 1 .. Len(writer.ops) /\ n <= Len(writer.ops) BY <1>2, <1>4, <2>2
  <2>4. QED BY <2>2, <2>3
<1>6. lastSeq \in Nat /\ lastSeq + n \in Nat BY <1>1, <1>5, StoreFacts
<1>7. e \in Entry /\ e.seq = lastSeq + n /\ e = Update(writer.ops, n, lastSeq)
  BY <1>5, <1>6 DEF Entry, Deleted, Update
<1>8. Done = writer.done BY <1>2 DEF Done
<1> HIDE DEF e
<1>9. QED BY <1>2, <1>3, <1>4, <1>5, <1>7, <1>8

\* Every SuperVersion in use stays good under the insertion.
LEMMA InsertKeeps ==
  ASSUME Inv, Insert
  PROVE  Inv'
<1> DEFINE n == writer.done + 1
           e == Update(writer.ops, n, lastSeq)
<1>1. StoreOK /\ SnapshotsOK /\ ItersOK /\ WriterOK /\ FlushOK /\ CompactionOK /\ CallOK
  BY DEF Inv
<1>2. /\ writer # None /\ writer \in Writers /\ Done = writer.done /\ writer.done \in Nat
      /\ table' = With(table, mem, e) /\ writer' = [writer EXCEPT !.done = n]
      /\ UNCHANGED <<mem, imm, runs, lastSeq, snapshots, iters, flush, compaction, call, got>>
  BY InsertStep
<1>3. /\ n \in Nat /\ n \in 1 .. Len(writer.ops) /\ n <= Len(writer.ops)
      /\ e \in Entry /\ e.seq = lastSeq + (writer.done + 1)
  BY InsertStep
<1>4. writer' \in Writers /\ writer'.done = n /\ writer'.ops = writer.ops
  BY <1>2, <1>3 DEF Writers
<1>5. writer' # None /\ Done' = n BY <1>4, NoneAssumption DEF Done
<1> HIDE DEF e
<1>6. TablesIn(table, mem, lastSeq, writer.done) BY <1>1, <1>2 DEF StoreOK
<1>7. TablesIn(table', mem', lastSeq', Done')
  <2>1. TablesIn(With(table, mem, e), mem, lastSeq, writer.done + 1)
    BY <1>3, <1>6, TablesInserted
  <2>2. QED BY <1>2, <1>5, <2>1
<1>8. ASSUME NEW sv, Good(table, mem, lastSeq, sv) PROVE Good(table', mem', lastSeq', sv)
  <2>1. Good(With(table, mem, e), mem, lastSeq, sv)
    BY <1>3, <1>6, <1>8, GoodInserted
  <2>2. QED BY <1>2, <2>1
<1>9. table \in Tables /\ mem \in 1 .. MaxMem BY <1>1, StoreFacts
<1>10. \A t \in 1 .. MaxMem : table'[t] = IF t = mem THEN table[mem] \cup {e} ELSE table[t]
  BY <1>2, <1>9 DEF Tables, With
<1>11. StoreOK'
  <2>1. SuperVersion' = SuperVersion BY <1>2 DEF SuperVersion
  <2>2. Good(table', mem', lastSeq', SuperVersion') BY <1>1, <1>8, <2>1 DEF StoreOK
  <2>3. QED BY <1>1, <1>2, <1>7, <2>2 DEF StoreOK
<1>12. ItersOK' BY <1>1, <1>2, <1>8 DEF ItersOK
<1>13. WriterOK'
  <2>1. Inserted(table[mem], writer.ops, writer.done, lastSeq) /\ lastSeq + Len(writer.ops) <= MaxSeq
    BY <1>1, <1>2 DEF WriterOK
  <2>2. table'[mem] = table[mem] \cup {e} BY <1>9, <1>10
  <2>3. \A i \in 1 .. n : i = n \/ i \in 1 .. writer.done BY <1>2
  <2>4. \A i \in 1 .. writer.done : i \in 1 .. n BY <1>2
  <2>5. n \in 1 .. n BY <1>2
  <2> HIDE DEF n
  <2>6. Inserted(table'[mem], writer.ops, n, lastSeq)
    BY <2>1, <2>2, <2>3, <2>4, <2>5 DEF Inserted, e
  <2>7. QED BY <1>2, <1>3, <1>4, <2>1, <2>6 DEF WriterOK
<1>14. FlushOK'
  <2>1. CASE flush = None BY <1>1, <1>2, <2>1 DEF FlushOK
  <2>2. CASE flush # None
    <3>1. Len(flush.tables) \in 0 .. Len(imm) BY <1>1, <2>2, FlushRange
    <3>2. \A i \in Len(imm) - Len(flush.tables) + 1 .. Len(imm) : table'[imm[i]] = table[imm[i]]
      <4>1. ASSUME NEW i \in Len(imm) - Len(flush.tables) + 1 .. Len(imm)
            PROVE  table'[imm[i]] = table[imm[i]]
        <5>1. i \in 1 .. Len(imm) BY <1>1, <3>1, StoreFacts
        <5>2. imm[i] \in 1 .. MaxMem /\ imm[i] < mem /\ mem \in Nat BY <1>1, <5>1, StoreFacts
        <5>3. imm[i] # mem BY <5>2
        <5>4. QED BY <1>10, <5>2, <5>3
      <4>2. QED BY <4>1
    <3>3. PickedNow' = UNION {table'[imm[i]] : i \in Len(imm) - Len(flush.tables) + 1 .. Len(imm)}
      BY <1>2 DEF PickedNow, PickedIn, SuperVersion
    <3>4. PickedNow = UNION {table[imm[i]] : i \in Len(imm) - Len(flush.tables) + 1 .. Len(imm)}
      BY DEF PickedNow, PickedIn, SuperVersion
    <3>5. PickedNow' = PickedNow BY <3>2, <3>3, <3>4
    <3>6. QED BY <1>1, <1>2, <3>5 DEF FlushOK
  <2>3. QED BY <2>1, <2>2
<1>15. CallOK' BY <1>1, <1>2, <1>8 DEF CallOK
<1>16. QED BY <1>1, <1>2, <1>11, <1>12, <1>13, <1>14, <1>15, Unchanged DEF Inv

\* Publishing makes all of the batch visible, so nothing is above the number.
LEMMA PublishKeeps ==
  ASSUME Inv, Publish
  PROVE  Inv'
<1>1. StoreOK /\ SnapshotsOK /\ ItersOK /\ WriterOK /\ FlushOK /\ CompactionOK /\ CallOK
  BY DEF Inv
<1>2. /\ writer # None /\ writer.done = Len(writer.ops)
      /\ lastSeq' = lastSeq + writer.done /\ writer' = None
      /\ call' = IF call = Idle THEN Idle
                 ELSE [call EXCEPT !.since = @ \cup {View(SuperVersion, lastSeq')}]
      /\ UNCHANGED <<store, snapshots, iters, jobs, got>>
      /\ UNCHANGED <<table, mem, imm, runs, flush, compaction>>
  BY DEF Publish, store, jobs
<1>3. Done = writer.done /\ Done' = 0 BY <1>2 DEF Done
<1>4. lastSeq \in Nat /\ Done \in Nat /\ mem \in Nat BY <1>1, StoreFacts
<1>5. lastSeq' \in Nat /\ lastSeq <= lastSeq' /\ mem <= mem BY <1>2, <1>3, <1>4
<1>6. TablesIn(table, mem, lastSeq', 0)
  <2>1. TablesIn(table, mem, lastSeq, Done) BY <1>1 DEF StoreOK
  <2>2. TablesIn(table, mem, lastSeq + Done, 0) BY <2>1, TablesPublished
  <2>3. QED BY <1>2, <1>3, <2>2
<1>7. ASSUME NEW sv, Good(table, mem, lastSeq, sv) PROVE Good(table, mem, lastSeq', sv)
  <2>1. \A n \in Nat : lastSeq <= n => Good(table, mem, n, sv) BY <1>4, <1>5, <1>7, GoodLater
  <2>2. QED BY <1>5, <2>1
<1>8. StoreOK'
  <2>1. SuperVersion' = SuperVersion BY <1>2 DEF SuperVersion
  <2>2. Good(table, mem, lastSeq', SuperVersion) BY <1>1, <1>7 DEF StoreOK
  <2>3. lastSeq' <= MaxSeq BY <1>1, <1>2 DEF WriterOK
  <2>4. QED BY <1>1, <1>2, <1>3, <1>6, <2>1, <2>2, <2>3 DEF StoreOK
<1>9. SnapshotsOK'
  <2>1. ASSUME NEW s \in Snapshots, snapshots[s] # None PROVE snapshots[s] <= lastSeq'
    <3>1. snapshots[s] \in 0 .. MaxSeq /\ snapshots[s] <= lastSeq BY <1>1, <2>1 DEF SnapshotsOK
    <3>2. QED BY <1>4, <1>5, <3>1, BoundsAssumption
  <2>2. QED BY <1>1, <1>2, <2>1 DEF SnapshotsOK
<1>10. ItersOK'
  <2>1. ASSUME NEW i \in Iterators, iters[i] # None
        PROVE  iters[i].seq <= lastSeq' /\ Good(table, mem, lastSeq', iters[i].sv)
    <3>1. iters[i] \in IteratorStates /\ iters[i].seq <= lastSeq
          /\ Good(table, mem, lastSeq, iters[i].sv)
      BY <1>1, <2>1 DEF ItersOK
    <3>2. iters[i].seq \in Nat BY <3>1 DEF IteratorStates
    <3>3. iters[i].seq <= lastSeq' BY <1>4, <1>5, <3>1, <3>2
    <3>4. QED BY <1>7, <3>1, <3>3
  <2>2. QED BY <1>1, <1>2, <2>1 DEF ItersOK
<1>11. WriterOK' BY <1>2 DEF WriterOK
<1>12. CallOK'
  <2>1. CASE call = Idle
    <3>1. call' = Idle BY <1>2, <2>1
    <3>2. got = None
      <4>1. Idle.op = "idle" BY DEF Idle
      <4>2. QED BY <1>1, <2>1, <4>1 DEF CallOK
    <3>3. QED BY <1>2, <3>1, <3>2, IdleCall
  <2>2. CASE call # Idle
    <3>1. View(SuperVersion, lastSeq') \in Maps
      <4>1. \A n \in Nat : View(SuperVersion, n) \in Maps BY <1>1, ViewNow DEF StoreOK
      <4>2. QED BY <1>5, <4>1
    <3>2. call' = [call EXCEPT !.since = @ \cup {View(SuperVersion, lastSeq')}] BY <1>2, <2>2
    <3>3. call \in Calls BY <1>1 DEF CallOK
    <3>4. /\ call' \in Calls /\ call'.op = call.op /\ call'.key = call.key /\ call'.at = call.at
          /\ call'.iter = call.iter /\ call'.seq = call.seq /\ call'.sv = call.sv
      BY <3>1, <3>2, <3>3 DEF Calls
    <3>5. call.seq # None => call.seq <= lastSeq'
      <4>1. call.seq # None => call.seq \in Nat BY <3>3 DEF Calls
      <4>2. call.seq # None => call.seq <= lastSeq BY <1>1 DEF CallOK
      <4>3. QED BY <1>4, <1>5, <4>1, <4>2
    <3>6. call.op # "idle" BY <1>1, <2>2 DEF CallOK
    <3>7. call.op = "get" => Good(table, mem, lastSeq', call.sv) BY <1>1, <1>7 DEF CallOK
    <3>8. QED BY <1>1, <1>2, <3>4, <3>5, <3>6, <3>7 DEF CallOK
  <2>3. QED BY <2>1, <2>2
<1>13. QED BY <1>1, <1>2, <1>8, <1>9, <1>10, <1>11, <1>12, Unchanged DEF Inv

\* The running flush still has the oldest memtables.
LEMMA SwitchMemtableKeeps ==
  ASSUME Inv, SwitchMemtable
  PROVE  Inv'
<1> DEFINE c == Len(flush.tables)
           u == Len(imm)
<1>1. StoreOK /\ SnapshotsOK /\ ItersOK /\ WriterOK /\ FlushOK /\ CompactionOK /\ CallOK
  BY DEF Inv
<1>2. /\ writer # None => writer.done = 0
      /\ mem < MaxMem /\ imm' = <<mem>> \o imm /\ mem' = mem + 1
      /\ UNCHANGED <<table, runs, lastSeq, snapshots, iters, writer, flush, compaction, call, got>>
  BY DEF SwitchMemtable, jobs
<1>3. Done = 0 /\ Done' = 0 BY <1>2 DEF Done
<1>4. /\ lastSeq \in Nat /\ mem \in Nat /\ mem + 1 \in Nat /\ mem <= mem + 1 /\ lastSeq <= lastSeq
      /\ mem \in 1 .. MaxMem /\ imm \in Seq(1 .. MaxMem) /\ u \in Nat
  BY <1>1, StoreFacts
<1>5. TablesIn(table, mem, lastSeq, 0) BY <1>1, <1>3 DEF StoreOK
<1>6. TablesIn(table, mem + 1, lastSeq, 0) BY <1>2, <1>5, TablesSwitched
<1>7. ASSUME NEW sv, Good(table, mem, lastSeq, sv) PROVE Good(table, mem + 1, lastSeq, sv)
  <2>1. \A m \in Nat : mem <= m => Good(table, m, lastSeq, sv) BY <1>4, <1>7, GoodLater
  <2>2. QED BY <1>4, <2>1
<1>8. StoreOK'
  <2>1. SuperVersion' = Switched(SuperVersion) BY <1>2 DEF SuperVersion, Switched
  <2>2. Good(table, mem, lastSeq, SuperVersion) /\ SuperVersion.mem = mem
    BY <1>1, StoreFacts DEF StoreOK
  <2>3. Good(table, mem + 1, lastSeq, Switched(SuperVersion))
    BY <1>2, <1>5, <2>2, GoodSwitched
  <2>4. QED BY <1>1, <1>2, <1>3, <1>6, <2>1, <2>3 DEF StoreOK
<1>9. ItersOK' BY <1>1, <1>2, <1>7 DEF ItersOK
<1>10. WriterOK'
  <2>1. CASE writer = None BY <1>2, <2>1 DEF WriterOK
  <2>2. CASE writer # None
    <3>1. mem + 1 \in 1 .. MaxMem /\ mem + 1 > mem BY <1>2, <1>4, BoundsAssumption
    <3>2. table[mem + 1] = {} BY <1>5, <3>1 DEF TablesIn
    <3>3. Inserted(table[mem + 1], writer.ops, 0, lastSeq) BY <3>2 DEF Inserted
    <3>4. QED BY <1>1, <1>2, <2>2, <3>3 DEF WriterOK
  <2>3. QED BY <2>1, <2>2
<1>11. FlushOK'
  <2>1. CASE flush = None BY <1>1, <1>2, <2>1 DEF FlushOK
  <2>2. CASE flush # None
    <3>1. c \in 0 .. u /\ c \in Nat BY <1>1, <2>2, FlushRange
    <3>2. /\ Len(imm') = 1 + u /\ \A i \in 1 .. u : imm'[1 + i] = imm[i]
      BY <1>2, <1>4, PrependParts
    <3>3. \A i \in 1 .. c : flush.tables[i] = imm[(u - c) + i] BY <1>1, <2>2 DEF FlushOK
    <3>4. PickedNow' = UNION {table[imm'[i]] : i \in Len(imm') - c + 1 .. Len(imm')}
      <4>1. PickedNow' = UNION {table'[imm'[i]] :
                                i \in Len(imm') - Len(flush'.tables) + 1 .. Len(imm')}
        BY DEF PickedNow, PickedIn, SuperVersion
      <4>2. table' = table /\ flush' = flush BY <1>2
      <4>3. QED BY <4>1, <4>2
    <3>5. PickedNow = UNION {table[imm[i]] : i \in u - c + 1 .. u}
      BY DEF PickedNow, PickedIn, SuperVersion
    <3> HIDE DEF c, u
    <3>6. \A i \in 1 .. c : flush.tables[i] = imm'[((1 + u) - c) + i]
      <4>1. ASSUME NEW i \in 1 .. c PROVE flush.tables[i] = imm'[((1 + u) - c) + i]
        <5>1. (u - c) + i \in 1 .. u /\ ((1 + u) - c) + i = 1 + ((u - c) + i) BY <1>4, <3>1
        <5>2. imm'[1 + ((u - c) + i)] = imm[(u - c) + i] BY <3>2, <5>1
        <5>3. QED BY <3>3, <5>1, <5>2
      <4>2. QED BY <4>1
    <3>7. PickedNow' = PickedNow
      <4>1. ASSUME NEW e, e \in PickedNow' PROVE e \in PickedNow
        <5>1. PICK i \in (1 + u) - c + 1 .. 1 + u : e \in table[imm'[i]] BY <3>2, <3>4, <4>1
        <5>2. i - 1 \in u - c + 1 .. u /\ i - 1 \in 1 .. u /\ i = 1 + (i - 1) BY <1>4, <3>1
        <5>3. imm'[1 + (i - 1)] = imm[i - 1] BY <3>2, <5>2
        <5>4. e \in table[imm[i - 1]] BY <5>1, <5>2, <5>3
        <5>5. QED BY <3>5, <5>2, <5>4
      <4>2. ASSUME NEW e, e \in PickedNow PROVE e \in PickedNow'
        <5>1. PICK i \in u - c + 1 .. u : e \in table[imm[i]] BY <3>5, <4>2
        <5>2. 1 + i \in (1 + u) - c + 1 .. 1 + u /\ i \in 1 .. u BY <1>4, <3>1
        <5>3. imm'[1 + i] = imm[i] BY <3>2, <5>2
        <5>4. e \in table[imm'[1 + i]] BY <5>1, <5>3
        <5>5. QED BY <3>2, <3>4, <5>2, <5>4
      <4>3. QED BY <4>1, <4>2
    <3>8. c <= 1 + u BY <1>4, <3>1
    <3>9. QED BY <1>1, <1>2, <2>2, <3>2, <3>6, <3>7, <3>8 DEF FlushOK, c
  <2>3. QED BY <2>1, <2>2
<1>12. CallOK' BY <1>1, <1>2, <1>7 DEF CallOK
<1>13. QED BY <1>1, <1>2, <1>8, <1>9, <1>10, <1>11, <1>12, Unchanged DEF Inv

\* The flush takes all immutable memtables and all snapshots there are.
LEMMA FlushBeginKeeps ==
  ASSUME Inv, FlushBegin
  PROVE  Inv'
<1>1. StoreOK /\ SnapshotsOK /\ ItersOK /\ WriterOK /\ FlushOK /\ CompactionOK /\ CallOK
  BY DEF Inv
<1>2. /\ flush' = [tables |-> imm, snaps |-> Listed]
      /\ UNCHANGED <<store, lastSeq, snapshots, iters, writer, compaction, call, got>>
      /\ UNCHANGED <<table, mem, imm, runs>>
  BY DEF FlushBegin, store
<1>3. flush'.tables = imm /\ flush'.snaps = Listed BY <1>2
<1>4. flush' \in Flushes BY <1>1, <1>2, StoreFacts, ListedIn DEF Flushes
<1>5. Len(imm) \in Nat BY <1>1, StoreFacts
<1>6. \A i \in 1 .. Len(imm) : (Len(imm) - Len(imm)) + i = i
  <2> DEFINE u == Len(imm)
  <2>1. u \in Nat BY <1>5
  <2> HIDE DEF u
  <2>2. \A i \in 1 .. u : (u - u) + i = i BY <2>1
  <2>3. QED BY <2>2 DEF u
<1>7. \A s \in Snapshots : snapshots[s] # None => snapshots[s] \in Listed BY DEF Listed
<1>8. FlushOK'
  <2>1. Len(imm) <= Len(imm) BY <1>5
  <2>2. \A i \in 1 .. Len(imm) : imm[i] = imm[(Len(imm) - Len(imm)) + i] BY <1>6
  <2>3. QED BY <1>2, <1>3, <1>4, <1>7, <2>1, <2>2 DEF FlushOK, Readable
<1>9. QED BY <1>1, <1>2, <1>8, Unchanged DEF Inv

\* The compaction takes all snapshots there are.
LEMMA CompactionBeginKeeps ==
  ASSUME Inv, NEW from \in 1 .. Len(runs), NEW to \in 1 .. Len(runs), CompactionBegin(from, to)
  PROVE  Inv'
<1>1. StoreOK /\ SnapshotsOK /\ ItersOK /\ WriterOK /\ FlushOK /\ CompactionOK /\ CallOK
  BY DEF Inv
<1>2. /\ 1 <= from /\ from <= to /\ to <= Len(runs)
      /\ compaction' = [from |-> from, to |-> to, snaps |-> Listed]
      /\ UNCHANGED <<store, lastSeq, snapshots, iters, writer, flush, call, got>>
      /\ UNCHANGED <<table, mem, imm, runs>>
  BY DEF CompactionBegin, store
<1>3. compaction'.from = from /\ compaction'.to = to /\ compaction'.snaps = Listed BY <1>2
<1>4. compaction' \in Compactions BY <1>1, <1>2, ListedIn DEF Compactions
<1>5. \A s \in Snapshots : snapshots[s] # None => snapshots[s] \in Listed BY DEF Listed
<1>6. CompactionOK' BY <1>2, <1>3, <1>4, <1>5 DEF CompactionOK, Readable
<1>7. QED BY <1>1, <1>2, <1>6, Unchanged DEF Inv

\* What the jobs install.
LEMMA FlushStep ==
  ASSUME Inv, FlushInstalls
  PROVE  /\ flush # None /\ Len(flush.tables) \in 0 .. Len(imm) /\ flush.snaps \in SUBSET Nat
         /\ SuperVersion' = Flushed(table, SuperVersion, Len(flush.tables), flush.snaps)
         /\ flush' = None
         /\ UNCHANGED <<table, mem, lastSeq, snapshots, iters, writer, compaction, call, got>>
<1> DEFINE c == Len(flush.tables)
           u == Len(imm)
           picked == UNION {table[flush.tables[i]] : i \in DOMAIN flush.tables}
<1>1. StoreOK /\ FlushOK BY DEF Inv
<1>2. /\ flush # None /\ runs' = <<Rewrite(picked, flush.snaps, Keys, FALSE)>> \o runs
      /\ imm' = SubSeq(imm, 1, u - c) /\ flush' = None
      /\ UNCHANGED <<table, mem, lastSeq, snapshots, iters, writer, compaction, call, got>>
  BY DEF FlushInstalls
<1>3. flush.tables \in Seq(1 .. MaxMem) /\ c \in 0 .. u /\ c \in Nat /\ flush.snaps \in SUBSET Nat
  BY <1>1, <1>2, FlushRange
<1>4. DOMAIN flush.tables = 1 .. c BY <1>3, SeqParts
<1>5. \A i \in 1 .. c : flush.tables[i] = imm[(u - c) + i] BY <1>1, <1>2 DEF FlushOK
<1>6. u \in Nat BY <1>1, StoreFacts
<1>7. PickedIn(table, SuperVersion, c) = UNION {table[imm[i]] : i \in u - c + 1 .. u}
  BY DEF PickedIn, SuperVersion
<1> HIDE DEF c, u
<1>8. picked = PickedIn(table, SuperVersion, c)
  <2>1. ASSUME NEW e, e \in picked PROVE e \in PickedIn(table, SuperVersion, c)
    <3>1. PICK i \in 1 .. c : e \in table[flush.tables[i]] BY <1>4, <2>1
    <3>2. (u - c) + i \in u - c + 1 .. u BY <1>3, <1>6
    <3>3. e \in table[imm[(u - c) + i]] BY <1>5, <3>1
    <3>4. QED BY <1>7, <3>2, <3>3
  <2>2. ASSUME NEW e, e \in PickedIn(table, SuperVersion, c) PROVE e \in picked
    <3>1. PICK i \in u - c + 1 .. u : e \in table[imm[i]] BY <1>7, <2>2
    <3>2. i - (u - c) \in 1 .. c /\ (u - c) + (i - (u - c)) = i BY <1>3, <1>6
    <3>3. flush.tables[i - (u - c)] = imm[(u - c) + (i - (u - c))] BY <1>5, <3>2
    <3>4. e \in table[flush.tables[i - (u - c)]] BY <3>1, <3>2, <3>3
    <3>5. QED BY <1>4, <3>2, <3>4
  <2>3. QED BY <2>1, <2>2
<1> HIDE DEF picked
<1>9. SuperVersion' = Flushed(table, SuperVersion, c, flush.snaps)
  BY <1>2, <1>8 DEF SuperVersion, Flushed, u
<1>10. QED BY <1>2, <1>3, <1>9 DEF c, u

\* The same for a compaction.
LEMMA CompactionStep ==
  ASSUME Inv, CompactionInstalls
  PROVE  LET g == Len(runs) - compaction.to
             h == (Len(runs) - compaction.from) + 1
         IN /\ compaction # None /\ g \in 0 .. Len(runs) /\ h \in g .. Len(runs)
            /\ compaction.snaps \in SUBSET Nat
            /\ (compaction.from = 1) => h = Len(runs)
            /\ SuperVersion' = Compacted(SuperVersion, g, h, compaction.snaps, compaction.from = 1)
            /\ compaction' = None
            /\ UNCHANGED <<table, mem, imm, lastSeq, snapshots, iters, writer, flush, call, got>>
<1> DEFINE n == Len(runs)
           from == compaction.from
           to == compaction.to
           g == n - to
           h == (n - from) + 1
           newer == SubSeq(runs, 1, n - to)
           older == SubSeq(runs, n - from + 2, n)
           inputs == UNION {runs[i] : i \in n - to + 1 .. n - from + 1}
           output == Rewrite(inputs, compaction.snaps, Beyond(older), from = 1)
<1>1. StoreOK /\ CompactionOK BY DEF Inv
<1>2. /\ compaction # None /\ compaction' = None
      /\ runs' = newer \o (IF output = {} THEN <<>> ELSE <<output>>) \o older
      /\ UNCHANGED <<table, mem, imm, lastSeq, snapshots, iters, writer, flush, call, got>>
  BY DEF CompactionInstalls
<1>3. g \in 0 .. n /\ h \in g .. n /\ from \in Nat /\ to \in Nat /\ compaction.snaps \in SUBSET Nat
  BY <1>1, <1>2, MergedRange
<1>4. n \in Nat BY <1>1, StoreFacts
<1>5. n - from + 2 = h + 1 /\ ((from = 1) => h = n)
  <2> HIDE DEF n, from
  <2>1. QED BY <1>3, <1>4
<1>6. older = OlderRuns(runs, h)
  <2>1. older = SubSeq(runs, h + 1, n) BY <1>5
  <2>2. QED BY <2>1 DEF OlderRuns
<1>7. inputs = MergedIn(runs, g, h) BY DEF MergedIn
<1>8. output = OutputOf(runs, g, h, compaction.snaps, from = 1) BY <1>6, <1>7 DEF OutputOf
<1>9. runs' = RunsCompacted(runs, g, h, output) BY <1>2, <1>6 DEF RunsCompacted
<1>10. SuperVersion' = Compacted(SuperVersion, g, h, compaction.snaps, from = 1)
  <2> HIDE DEF output, g, h, from
  <2>1. SuperVersion' = [mem |-> mem, imm |-> imm, runs |-> RunsCompacted(runs, g, h, output)]
    BY <1>2, <1>9 DEF SuperVersion
  <2>2. SuperVersion.mem = mem /\ SuperVersion.imm = imm /\ SuperVersion.runs = runs
    BY DEF SuperVersion
  <2>3. QED BY <1>8, <2>1, <2>2 DEF Compacted
<1>11. QED BY <1>2, <1>3, <1>5, <1>10

\* A flush moves no run a running compaction counted from the oldest.
LEMMA FlushInstallsKeeps ==
  ASSUME Inv, FlushInstalls
  PROVE  Inv'
<1> DEFINE new == Flushed(table, SuperVersion, Len(flush.tables), flush.snaps)
<1>1. StoreOK /\ SnapshotsOK /\ ItersOK /\ WriterOK /\ FlushOK /\ CompactionOK /\ CallOK
  BY DEF Inv
<1>2. /\ flush # None /\ Len(flush.tables) \in 0 .. Len(imm) /\ flush.snaps \in SUBSET Nat
      /\ SuperVersion' = new /\ flush' = None
      /\ UNCHANGED <<table, mem, lastSeq, snapshots, iters, writer, compaction, call, got>>
  BY FlushStep
<1>3. SuperVersion.imm = imm /\ SuperVersion.runs = runs /\ runs' = SuperVersion'.runs
  BY DEF SuperVersion
<1>4. Good(table, mem, lastSeq, new) /\ NoZero(new.runs)
  <2>1. TablesIn(table, mem, lastSeq, Done) /\ Good(table, mem, lastSeq, SuperVersion) /\ NoZero(runs)
    BY <1>1 DEF StoreOK
  <2>2. QED BY <1>2, <1>3, <2>1, GoodFlushed
<1>5. StoreOK'
  <2>1. Done' = Done BY <1>2 DEF Done
  <2>2. NoZero(runs') BY <1>2, <1>3, <1>4
  <2>3. Good(table, mem, lastSeq, SuperVersion') BY <1>2, <1>4
  <2>4. QED BY <1>1, <1>2, <2>1, <2>2, <2>3 DEF StoreOK
<1>6. FlushOK' BY <1>2 DEF FlushOK
<1>7. CompactionOK'
  <2>1. CASE compaction = None BY <1>2, <2>1 DEF CompactionOK
  <2>2. CASE compaction # None
    <3> DEFINE R == Rewrite(PickedIn(table, SuperVersion, Len(flush.tables)), flush.snaps, Keys, FALSE)
               n == Len(runs)
               from == compaction.from
               to == compaction.to
    <3>1. runs' = <<R>> \o runs BY <1>2, <1>3 DEF Flushed
    <3>2. runs \in Seq(SUBSET Entry) /\ n \in Nat BY <1>1, StoreFacts
    <3>3. new \in SuperVersions BY <1>4 DEF Good
    <3>4. runs' \in Seq(SUBSET Entry) BY <1>2, <1>3, <3>3, SuperVersionTypes
    <3>5. Len(runs') = 1 + n /\ \A i \in 1 .. n : runs'[1 + i] = runs[i]
      <4>1. ASSUME NEW S, NEW a PROVE \A s \in Seq(S) :
              Len(<<a>> \o s) = 1 + Len(s) /\ \A i \in 1 .. Len(s) : (<<a>> \o s)[1 + i] = s[i]
        OBVIOUS
      <4> HIDE DEF R
      <4>2. QED BY <3>1, <3>2, <4>1
    <3>6. n - to \in 0 .. n /\ (n - from) + 1 \in n - to .. n /\ from \in Nat /\ to \in Nat
      BY <1>1, <2>2, MergedRange
    <3>7. MergedNow = UNION {runs[i] : i \in (n - to) + 1 .. (n - from) + 1}
      BY DEF MergedNow, MergedIn
    <3>8. MergedNow' = UNION {runs'[i] : i \in ((1 + n) - to) + 1 .. ((1 + n) - from) + 1}
      BY <1>2, <3>5 DEF MergedNow, MergedIn
    <3> HIDE DEF n, from, to
    <3>9. MergedNow' = MergedNow
      <4>1. ASSUME NEW e, e \in MergedNow' PROVE e \in MergedNow
        <5>1. PICK i \in ((1 + n) - to) + 1 .. ((1 + n) - from) + 1 : e \in runs'[i]
          BY <3>8, <4>1
        <5>2. i - 1 \in (n - to) + 1 .. (n - from) + 1 /\ i - 1 \in 1 .. n /\ i = 1 + (i - 1)
          BY <3>2, <3>6
        <5>3. runs'[1 + (i - 1)] = runs[i - 1] BY <3>5, <5>2
        <5>4. e \in runs[i - 1] BY <5>1, <5>2, <5>3
        <5>5. QED BY <3>7, <5>2, <5>4
      <4>2. ASSUME NEW e, e \in MergedNow PROVE e \in MergedNow'
        <5>1. PICK i \in (n - to) + 1 .. (n - from) + 1 : e \in runs[i] BY <3>7, <4>2
        <5>2. 1 + i \in ((1 + n) - to) + 1 .. ((1 + n) - from) + 1 /\ i \in 1 .. n
          BY <3>2, <3>6
        <5>3. e \in runs'[1 + i] BY <3>5, <5>1, <5>2
        <5>4. QED BY <3>8, <5>2, <5>3
      <4>3. QED BY <4>1, <4>2
    <3>10. to <= Len(runs') BY <3>2, <3>5, <3>6
    <3>11. QED BY <1>1, <1>2, <2>2, <3>9, <3>10 DEF CompactionOK, to
  <2>3. QED BY <2>1, <2>2
<1>8. QED BY <1>1, <1>2, <1>5, <1>6, <1>7, Unchanged DEF Inv

\* A compaction moves no memtable a running flush took.
LEMMA CompactionInstallsKeeps ==
  ASSUME Inv, CompactionInstalls
  PROVE  Inv'
<1> DEFINE g == Len(runs) - compaction.to
           h == (Len(runs) - compaction.from) + 1
           bottom == compaction.from = 1
           new == Compacted(SuperVersion, g, h, compaction.snaps, bottom)
<1>1. StoreOK /\ SnapshotsOK /\ ItersOK /\ WriterOK /\ FlushOK /\ CompactionOK /\ CallOK
  BY DEF Inv
<1>2. /\ compaction # None /\ g \in 0 .. Len(runs) /\ h \in g .. Len(runs)
      /\ compaction.snaps \in SUBSET Nat /\ (bottom => h = Len(runs)) /\ bottom \in BOOLEAN
      /\ SuperVersion' = new /\ compaction' = None
      /\ UNCHANGED <<table, mem, imm, lastSeq, snapshots, iters, writer, flush, call, got>>
  BY CompactionStep
<1>3. SuperVersion.runs = runs /\ runs' = SuperVersion'.runs BY DEF SuperVersion
<1> HIDE DEF g, h, bottom
<1>4. Good(table, mem, lastSeq, new) /\ NoZero(new.runs)
  <2>1. TablesIn(table, mem, lastSeq, Done) /\ Good(table, mem, lastSeq, SuperVersion) /\ NoZero(runs)
    BY <1>1 DEF StoreOK
  <2>2. QED BY <1>2, <1>3, <2>1, GoodCompacted
<1>5. StoreOK'
  <2>1. Done' = Done BY <1>2 DEF Done
  <2>2. NoZero(runs') BY <1>2, <1>3, <1>4
  <2>3. Good(table, mem, lastSeq, SuperVersion') BY <1>2, <1>4
  <2>4. QED BY <1>1, <1>2, <2>1, <2>2, <2>3 DEF StoreOK
<1>6. CompactionOK' BY <1>2 DEF CompactionOK
<1>7. QED BY <1>1, <1>2, <1>5, <1>6, Unchanged DEF Inv

\* Every step keeps it.
LEMMA StepInv == Inv /\ [Next]_vars => Inv'
<1> SUFFICES ASSUME Inv, [Next]_vars PROVE Inv' OBVIOUS
<1>1. CASE UNCHANGED vars
  <2>1. UNCHANGED <<table, mem, imm, runs, lastSeq, snapshots, iters, writer, flush, compaction, call, got>>
        /\ UNCHANGED store
    BY <1>1 DEF vars, store
  <2>2. QED BY <2>1, Unchanged DEF Inv
<1>2. ASSUME NEW ops \in Programs, WriteBegin("main", ops) PROVE Inv' BY <1>2, WriteBeginKeeps
<1>3. ASSUME NEW s \in Snapshots, GetSnapshot(s) PROVE Inv' BY <1>3, GetSnapshotKeeps
<1>4. ASSUME NEW s \in Snapshots, ReleaseSnapshot(s) PROVE Inv' BY <1>4, ReleaseSnapshotKeeps
<1>5. ASSUME NEW k \in Keys, NEW s \in Ats, GetBegin(k, s) PROVE Inv' BY <1>5, GetBeginKeeps
<1>6. CASE GetReadsNumber BY <1>6, GetReadsNumberKeeps
<1>7. CASE GetSearches BY <1>7, GetSearchesKeeps
<1>8. CASE GetReturns BY <1>8, GetReturnsKeeps
<1>9. ASSUME NEW i \in Iterators, NEW s \in Ats, NewIteratorBegin(i, s) PROVE Inv'
  BY <1>9, NewIteratorBeginKeeps
<1>10. ASSUME NEW i \in Iterators, RefreshBegin(i) PROVE Inv' BY <1>10, RefreshBeginKeeps
<1>11. ASSUME NEW i \in Iterators, DeleteIterator(i) PROVE Inv' BY <1>11, DeleteIteratorKeeps
<1>12. CASE IteratorReferences BY <1>12, IteratorReferencesKeeps
<1>13. CASE Insert BY <1>13, InsertKeeps
<1>14. CASE Publish BY <1>14, PublishKeeps
<1>15. ASSUME NEW ops \in Programs, WriteBegin("pool", ops) PROVE Inv' BY <1>15, WriteBeginKeeps
<1>16. CASE SwitchMemtable BY <1>16, SwitchMemtableKeeps
<1>17. CASE FlushBegin BY <1>17, FlushBeginKeeps
<1>18. CASE FlushInstalls BY <1>18, FlushInstallsKeeps
<1>19. ASSUME NEW from \in 1 .. Len(runs), NEW to \in 1 .. Len(runs), CompactionBegin(from, to)
       PROVE  Inv'
  BY <1>19, CompactionBeginKeeps
<1>20. CASE CompactionInstalls BY <1>20, CompactionInstallsKeeps
<1>21. CASE JavaScript
  BY <1>2, <1>3, <1>4, <1>5, <1>6, <1>7, <1>8, <1>9, <1>10, <1>11, <1>12, <1>21 DEF JavaScript
<1>22. CASE Writer BY <1>13, <1>14, <1>15, <1>22 DEF Writer
<1>23. CASE Background BY <1>16, <1>17, <1>18, <1>19, <1>20, <1>23 DEF Background
<1>24. QED BY <1>1, <1>21, <1>22, <1>23 DEF Next

\* In every state the levels of the current SuperVersion, of every iterator and
\* of a running Get are ordered by age, only the batch being inserted is above
\* the published number, and no running flush or compaction will drop what a
\* snapshot can see.
THEOREM Invariance == Spec => []Inv
<1>1. QED BY InitInv, StepInv, PTL DEF Spec

\* Every variable keeps its type: iterators read at published numbers, and the
\* positions a running flush or compaction remembers stay inside the lists that
\* a memtable switch and the other job change meanwhile.
THEOREM Types == Spec => []TypeOK
<1>1. QED BY Invariance, InvType, PTL

\* Get may stop at the first level that has a visible version (db_impl.cc
\* GetImpl): the memtable switch, flushes and compactions keep the levels
\* ordered by age.
THEOREM LevelsStayOrdered == Spec => []LevelsOrdered
<1>1. Inv => LevelsOrdered
  <2> SUFFICES ASSUME Inv PROVE LevelsOrdered OBVIOUS
  <2> DEFINE L == LevelsIn(table, SuperVersion)
             p == Depth(SuperVersion)
  <2>1. table \in Tables /\ SuperVersion \in SuperVersions BY StoreFacts DEF Inv
  <2>2. Levels(SuperVersion) = L /\ DOMAIN Levels(SuperVersion) = 1 .. p BY <2>1, EntriesAre
  <2>3. Sound(Keys, p, L) BY DEF Inv, StoreOK, Good
  <2> HIDE DEF L, p
  <2>4. ASSUME NEW i \in 1 .. p, NEW j \in 1 .. p, i < j, NEW e \in L[i], NEW f \in L[j],
               e.key = f.key
        PROVE  e.seq > f.seq
    <3>1. f.seq < e.seq BY <2>3, <2>4 DEF Sound, Newer
    <3>2. QED BY <3>1
  <2>5. QED BY <2>2, <2>4 DEF LevelsOrdered
<1>2. QED BY <1>1, Invariance, PTL

\* PrepareOutput's assertion (compaction_iterator.cc:625): the entry whose
\* number a compaction of the last run makes zero is never a deletion.
THEOREM ZeroIsNoDeletion == Spec => []NoDeletionGetsZero
<1>1. Inv => NoDeletionGetsZero
  <2> SUFFICES ASSUME Inv, NEW e \in Entries(SuperVersion), e.seq = 0 PROVE e.val # Deleted
    BY DEF NoDeletionGetsZero
  <2>1. table \in Tables /\ SuperVersion \in SuperVersions BY StoreFacts DEF Inv
  <2>2. e \in Holds(table, SuperVersion) BY <2>1, EntriesAre
  <2>3. ASSUME NEW t \in 1 .. MaxMem, e \in table[t] PROVE FALSE
    <3>1. e.seq > 0 BY <2>3 DEF Inv, StoreOK, TablesIn
    <3>2. QED BY <3>1
  <2>4. ~(e \in table[SuperVersion.mem]) BY <2>1, <2>3, SuperVersionTypes
  <2>5. ~\E i \in 1 .. Len(SuperVersion.imm) : e \in table[SuperVersion.imm[i]]
    BY <2>1, <2>3, SuperVersionTypes
  <2>6. PICK i \in 1 .. Len(SuperVersion.runs) : e \in SuperVersion.runs[i]
    BY <2>1, <2>2, <2>4, <2>5, HeldIn
  <2>7. i \in 1 .. Len(runs) /\ e \in runs[i] BY <2>6 DEF SuperVersion
  <2>8. QED BY <2>7 DEF Inv, StoreOK, NoZero
<1>2. QED BY <1>1, Invariance, PTL
-----------------------------------------------------------------------------
(***************************************************************************)
(* What a step does to what is read.                                       *)
(***************************************************************************)

\* What a SuperVersion shows at a published number never changes.
LEMMA OldViews ==
  ASSUME Inv, Next
  PROVE  \A sv : Good(table, mem, lastSeq, sv) => \A j \in Nat : j <= lastSeq =>
           ViewIn(table', sv, j) = ViewIn(table, sv, j)
<1>1. CASE Insert
  <2> DEFINE e == Update(writer.ops, writer.done + 1, lastSeq)
  <2>1. e \in Entry /\ e.seq = lastSeq + (writer.done + 1) /\ table' = With(table, mem, e)
    BY <1>1, InsertStep
  <2>2. TablesIn(table, mem, lastSeq, writer.done)
    <3>1. Done = writer.done BY <1>1, InsertStep
    <3>2. QED BY <3>1 DEF Inv, StoreOK
  <2> HIDE DEF e
  <2>3. ASSUME NEW sv, Good(table, mem, lastSeq, sv), NEW j \in Nat, j <= lastSeq
        PROVE  ViewIn(table', sv, j) = ViewIn(table, sv, j)
    <3>1. \A k : Lookup(Holds(With(table, mem, e), sv), k, j) = Lookup(Holds(table, sv), k, j)
      BY <2>1, <2>2, <2>3, GoodInserted
    <3>2. QED BY <2>1, <3>1 DEF ViewIn
  <2>4. QED BY <2>3
<1>2. CASE ~Insert
  <2>1. JavaScript => UNCHANGED table
    BY DEF JavaScript, WriteBegin, GetSnapshot, ReleaseSnapshot, GetBegin, Begin, GetReadsNumber,
       GetSearches, GetReturns, NewIteratorBegin, RefreshBegin, DeleteIterator,
       IteratorReferences, store
  <2>2. Writer => UNCHANGED table BY <1>2 DEF Writer, Publish, WriteBegin, store
  <2>3. Background => UNCHANGED table
    BY DEF Background, SwitchMemtable, FlushBegin, FlushInstalls, CompactionBegin,
       CompactionInstalls, store
  <2>4. UNCHANGED table BY <2>1, <2>2, <2>3 DEF Next
  <2>5. QED BY <2>4
<1>3. QED BY <1>1, <1>2

\* The current SuperVersion shows the same map at the published number and at
\* every snapshot there is, whatever is inserted, switched, flushed or merged.
THEOREM CurrentViews ==
  ASSUME Inv, Next, NEW j \in Nat, j <= lastSeq,
         j = lastSeq \/ \E s \in Snapshots : snapshots[s] # None /\ snapshots[s] = j
  PROVE  ViewIn(table', SuperVersion', j) = ViewIn(table, SuperVersion, j)
<1> DEFINE sv == SuperVersion
<1>1. StoreOK /\ FlushOK /\ CompactionOK BY DEF Inv
<1>2. /\ TablesIn(table, mem, lastSeq, Done) /\ Good(table, mem, lastSeq, sv) /\ NoZero(sv.runs)
      /\ sv.mem = mem /\ sv.imm = imm /\ sv.runs = runs
  BY <1>1 DEF StoreOK, SuperVersion
<1>3. CASE FlushInstalls
  <2> DEFINE c == Len(flush.tables)
             E == PickedIn(table, sv, c)
             new == Flushed(table, sv, c, flush.snaps)
  <2>1. flush # None /\ c \in 0 .. Len(imm) /\ flush.snaps \in SUBSET Nat
        /\ SuperVersion' = new /\ table' = table
    BY <1>3, FlushStep
  <2>2. Unseen(E, flush.snaps, Holds(table, sv), Holds(table, new))
    BY <1>2, <2>1, GoodFlushed
  <2>3. \A e \in E : e.seq <= lastSeq BY <1>1, <2>1, PickedBelow
  <2>4. \A s \in Snapshots : snapshots[s] # None => Readable(E, flush.snaps, snapshots[s])
    BY <1>1, <2>1 DEF FlushOK, PickedNow
  <2>5. Readable(E, flush.snaps, j) BY <2>3, <2>4 DEF Readable
  <2> HIDE DEF E, new
  <2>6. \A k : Lookup(Holds(table, new), k, j) = Lookup(Holds(table, sv), k, j)
    BY <2>2, <2>5 DEF Unseen
  <2>7. QED BY <2>1, <2>6 DEF ViewIn
<1>4. CASE CompactionInstalls
  <2> DEFINE g == Len(runs) - compaction.to
             h == (Len(runs) - compaction.from) + 1
             E == MergedIn(runs, g, h)
             bottom == compaction.from = 1
             new == Compacted(sv, g, h, compaction.snaps, bottom)
  <2>1. /\ compaction # None /\ g \in 0 .. Len(runs) /\ h \in g .. Len(runs)
        /\ compaction.snaps \in SUBSET Nat /\ (bottom => h = Len(runs)) /\ bottom \in BOOLEAN
        /\ SuperVersion' = new /\ table' = table
    BY <1>4, CompactionStep
  <2>2. \A s \in Snapshots : snapshots[s] # None => Readable(E, compaction.snaps, snapshots[s])
    BY <1>1, <2>1 DEF CompactionOK, MergedNow
  <2> HIDE DEF g, h, bottom, sv
  <2>3. Unseen(E, compaction.snaps, Holds(table, sv), Holds(table, new))
    BY <1>2, <2>1, GoodCompacted
  <2>4. \A e \in E : e.seq <= lastSeq BY <1>1, <2>1, MergedBelow
  <2>5. Readable(E, compaction.snaps, j) BY <2>2, <2>4 DEF Readable
  <2> HIDE DEF E, new
  <2>6. \A k : Lookup(Holds(table, new), k, j) = Lookup(Holds(table, sv), k, j)
    BY <2>3, <2>5 DEF Unseen
  <2>7. QED BY <2>1, <2>6 DEF ViewIn, sv
<1>5. CASE SwitchMemtable
  <2>1. /\ mem < MaxMem /\ imm' = <<mem>> \o imm /\ mem' = mem + 1 /\ table' = table
        /\ runs' = runs /\ (writer # None => writer.done = 0)
    BY <1>5 DEF SwitchMemtable
  <2>2. Done = 0 BY <2>1 DEF Done
  <2>3. SuperVersion' = Switched(sv) BY <1>2, <2>1 DEF SuperVersion, Switched
  <2>4. Holds(table, Switched(sv)) = Holds(table, sv) BY <1>2, <2>1, <2>2, GoodSwitched
  <2>5. QED BY <2>1, <2>3, <2>4 DEF ViewIn
<1>6. CASE UNCHANGED <<mem, imm, runs>>
  <2>1. SuperVersion' = sv BY <1>6 DEF SuperVersion
  <2>2. QED BY <1>2, <2>1, OldViews
<1>7. JavaScript => UNCHANGED <<mem, imm, runs>>
  BY DEF JavaScript, WriteBegin, GetSnapshot, ReleaseSnapshot, GetBegin, Begin, GetReadsNumber,
     GetSearches, GetReturns, NewIteratorBegin, RefreshBegin, DeleteIterator,
     IteratorReferences, store
<1>8. Writer => UNCHANGED <<mem, imm, runs>> BY DEF Writer, Insert, Publish, WriteBegin, store
<1>9. FlushBegin => UNCHANGED <<mem, imm, runs>> BY DEF FlushBegin, store
<1>10. (\E from, to \in 1 .. Len(runs) : CompactionBegin(from, to)) => UNCHANGED <<mem, imm, runs>>
  BY DEF CompactionBegin, store
<1>11. QED BY <1>3, <1>4, <1>5, <1>6, <1>7, <1>8, <1>9, <1>10 DEF Next, Background

\* The mutable memtable is replaced by the next one, or not at all.
LEMMA MemGrows == ASSUME Next PROVE mem' = mem \/ mem' = mem + 1
<1>1. JavaScript => mem' = mem
  BY DEF JavaScript, WriteBegin, GetSnapshot, ReleaseSnapshot, GetBegin, Begin, GetReadsNumber,
     GetSearches, GetReturns, NewIteratorBegin, RefreshBegin, DeleteIterator,
     IteratorReferences, store
<1>2. Writer => mem' = mem BY DEF Writer, Insert, Publish, WriteBegin, store
<1>3. Background => mem' = mem \/ mem' = mem + 1
  BY DEF Background, SwitchMemtable, FlushBegin, FlushInstalls, CompactionBegin,
     CompactionInstalls, store
<1>4. QED BY <1>1, <1>2, <1>3 DEF Next

\* Publishing a batch changes it as KVStore's KWrite does, for every
\* SuperVersion that has the mutable memtable.
LEMMA PublishStep ==
  ASSUME Inv, Publish
  PROVE  /\ lastSeq' = lastSeq + Len(writer.ops) /\ writer # None /\ writer.ops \in Programs
         /\ lastSeq \in Nat /\ lastSeq' \in Nat
         /\ UNCHANGED <<table, mem, imm, runs, snapshots, iters, got, SuperVersion>>
         /\ \A sv : Good(table, mem, lastSeq, sv) =>
              ViewIn(table, sv, lastSeq') =
                IF sv.mem = mem THEN Abstract!Apply(ViewIn(table, sv, lastSeq), writer.ops, lastSeq)
                ELSE ViewIn(table, sv, lastSeq)
<1> DEFINE d == writer.done
<1>1. StoreOK /\ WriterOK BY DEF Inv
<1>2. /\ writer # None /\ d = Len(writer.ops) /\ lastSeq' = lastSeq + d
      /\ UNCHANGED <<table, mem, imm, runs, snapshots, iters, got>>
  BY DEF Publish, store
<1>3. UNCHANGED SuperVersion BY <1>2 DEF SuperVersion
<1>4. writer.ops \in Programs /\ d \in Nat /\ Inserted(table[mem], writer.ops, d, lastSeq)
  BY <1>1, <1>2 DEF WriterOK, Writers
<1>5. DOMAIN writer.ops = 1 .. d
  <2>1. writer.ops \in Seq([key : Keys, del : BOOLEAN]) BY <1>4, ProgramsAssumption
  <2>2. QED BY <1>2, <2>1
<1>6. TablesIn(table, mem, lastSeq, d)
  <2>1. Done = d BY <1>2 DEF Done
  <2>2. QED BY <1>1, <2>1 DEF StoreOK
<1>7. lastSeq \in Nat /\ lastSeq' \in Nat BY <1>1, <1>2, <1>4, StoreFacts
<1> HIDE DEF d
<1>8. ASSUME NEW sv, Good(table, mem, lastSeq, sv)
      PROVE  ViewIn(table, sv, lastSeq') =
               IF sv.mem = mem THEN Abstract!Apply(ViewIn(table, sv, lastSeq), writer.ops, lastSeq)
               ELSE ViewIn(table, sv, lastSeq)
  <2>1. CASE sv.mem = mem
    <3>1. ViewIn(table, sv, lastSeq + d)
            = Abstract!Apply(ViewIn(table, sv, lastSeq), writer.ops, lastSeq)
      BY <1>4, <1>5, <1>6, <1>8, <2>1, PublishedView
    <3>2. QED BY <1>2, <2>1, <3>1
  <2>2. CASE sv.mem # mem
    <3>1. ViewIn(table, sv, lastSeq + d) = ViewIn(table, sv, lastSeq)
      BY <1>6, <1>8, <2>2, PublishedBelow
    <3>2. QED BY <1>2, <2>2, <3>1
  <2>3. QED BY <2>1, <2>2
<1>9. QED BY <1>2, <1>3, <1>4, <1>7, <1>8
-----------------------------------------------------------------------------
(***************************************************************************)
(* Mvcc implements KVStore, step by step.                                  *)
(***************************************************************************)

\* What the abstract store sees.
Kv == View(SuperVersion, lastSeq)
Snap == [s \in Snapshots |-> SnapshotView(s)]
Iter == [i \in Iterators |-> IteratorView(i)]
Asked == [op |-> call.op, key |-> call.key, at |-> call.at, iter |-> call.iter]
Since == call.since
Seen == <<Kv, lastSeq, Snap, Iter, Asked, Since, got>>

\* One step of the abstract store each, over what it sees.
LEMMA SeenStutters == UNCHANGED Seen => UNCHANGED Abstract!kvars
BY DEF Seen, Kv, Snap, Iter, Asked, Since, Abstract!kvars

\* A batch.
LEMMA SeenWrites ==
  ASSUME NEW ops \in Programs, Kv' = Abstract!Apply(Kv, ops, lastSeq),
         lastSeq' = lastSeq + Len(ops),
         Since' = IF Asked = Abstract!Idle THEN {} ELSE Since \cup {Kv'},
         UNCHANGED <<Snap, Iter, Asked, got>>
  PROVE  Abstract!KNext
<1>1. Abstract!KWrite(ops) BY DEF Abstract!KWrite, Kv, Snap, Iter, Asked, Since
<1>2. QED BY <1>1 DEF Abstract!KNext

\* A snapshot is taken.
LEMMA SeenSnapshot ==
  ASSUME NEW s \in Snapshots, Asked = Abstract!Idle, Snap[s] = None,
         Snap' = [Snap EXCEPT ![s] = Kv], UNCHANGED <<Kv, lastSeq, Iter, Asked, Since, got>>
  PROVE  Abstract!KNext
<1>1. Abstract!KSnapshot(s) BY DEF Abstract!KSnapshot, Kv, Snap, Iter, Asked, Since
<1>2. QED BY <1>1 DEF Abstract!KNext

\* A snapshot is released.
LEMMA SeenRelease ==
  ASSUME NEW s \in Snapshots, Asked = Abstract!Idle,
         Snap' = [Snap EXCEPT ![s] = None], UNCHANGED <<Kv, lastSeq, Iter, Asked, Since, got>>
  PROVE  Abstract!KNext
<1>1. Abstract!KRelease(s) BY DEF Abstract!KRelease, Kv, Snap, Iter, Asked, Since
<1>2. QED BY <1>1 DEF Abstract!KNext

\* An iterator is deleted.
LEMMA SeenDelete ==
  ASSUME NEW i \in Iterators, Asked = Abstract!Idle,
         Iter' = [Iter EXCEPT ![i] = None], UNCHANGED <<Kv, lastSeq, Snap, Asked, Since, got>>
  PROVE  Abstract!KNext
<1>1. Abstract!KDelete(i) BY DEF Abstract!KDelete, Kv, Snap, Iter, Asked, Since
<1>2. QED BY <1>1 DEF Abstract!KNext

\* A call begins.
LEMMA SeenBegin ==
  ASSUME NEW c \in Abstract!Calls, Asked = Abstract!Idle, Asked' = c,
         c.at # None => Snap[c.at] # None, Since' = {Kv},
         UNCHANGED <<Kv, lastSeq, Snap, Iter, got>>
  PROVE  Abstract!KNext
<1>1. Abstract!KBegin(c) BY DEF Abstract!KBegin, Kv, Snap, Iter, Asked, Since
<1>2. QED BY <1>1 DEF Abstract!KNext

\* The maps a call may answer from.
Given == IF Asked.at = None THEN Since ELSE {Snap[Asked.at]}

\* A Get answers.
LEMMA SeenGet ==
  ASSUME Asked.op = "get", got = None, NEW m \in Given, got' = m[Asked.key],
         UNCHANGED <<Kv, lastSeq, Snap, Iter, Asked, Since>>
  PROVE  Abstract!KNext
<1>1. Abstract!KGet
  BY DEF Abstract!KGet, Abstract!Answers, Given, Kv, Snap, Iter, Asked, Since
<1>2. QED BY <1>1 DEF Abstract!KNext

\* A Get returns.
LEMMA SeenReturn ==
  ASSUME got # None, got' = None, Asked' = Abstract!Idle, Since' = {},
         UNCHANGED <<Kv, lastSeq, Snap, Iter>>
  PROVE  Abstract!KNext
<1>1. Abstract!KReturn BY DEF Abstract!KReturn, Kv, Snap, Iter, Asked, Since
<1>2. QED BY <1>1 DEF Abstract!KNext

\* An iterator is made or refreshed.
LEMMA SeenIterator ==
  ASSUME Asked.op \in {"iter", "refresh"}, Asked' = Abstract!Idle, Since' = {},
         NEW m \in Given, Iter' = [Iter EXCEPT ![Asked.iter] = m],
         UNCHANGED <<Kv, lastSeq, Snap, got>>
  PROVE  Abstract!KNext
<1>1. Abstract!KIterator
  BY DEF Abstract!KIterator, Abstract!Answers, Given, Kv, Snap, Iter, Asked, Since
<1>2. QED BY <1>1 DEF Abstract!KNext

\* In terms of what is in the levels.
SeenIn ==
  /\ Kv = ViewIn(table, SuperVersion, lastSeq) /\ Kv \in Maps
  /\ \A s \in Snapshots : snapshots[s] = None => Snap[s] = None
  /\ \A s \in Snapshots : snapshots[s] # None =>
       /\ Snap[s] = ViewIn(table, SuperVersion, snapshots[s])
       /\ Snap[s] \in Maps /\ snapshots[s] \in Nat /\ snapshots[s] <= lastSeq
  /\ \A i \in Iterators : iters[i] = None => Iter[i] = None
  /\ \A i \in Iterators : iters[i] # None =>
       /\ Iter[i] = ViewIn(table, iters[i].sv, iters[i].seq)
       /\ iters[i] \in IteratorStates /\ iters[i].seq \in Nat
       /\ iters[i].seq <= lastSeq /\ Good(table, mem, lastSeq, iters[i].sv)
  /\ DOMAIN Snap = Snapshots /\ DOMAIN Iter = Iterators

\* It follows from the invariant.
LEMMA SeenNow == Inv => SeenIn
<1> SUFFICES ASSUME Inv PROVE SeenIn OBVIOUS
<1>1. StoreOK /\ SnapshotsOK /\ ItersOK BY DEF Inv
<1>2. Good(table, mem, lastSeq, SuperVersion) /\ lastSeq \in Nat BY <1>1, StoreFacts DEF StoreOK
<1>3. Kv = ViewIn(table, SuperVersion, lastSeq) /\ Kv \in Maps BY <1>1, <1>2, ViewNow DEF Kv
<1>4. ASSUME NEW s \in Snapshots, snapshots[s] # None
      PROVE  /\ Snap[s] = ViewIn(table, SuperVersion, snapshots[s])
             /\ Snap[s] \in Maps /\ snapshots[s] \in Nat /\ snapshots[s] <= lastSeq
  <2>1. snapshots[s] \in Nat /\ snapshots[s] <= lastSeq BY <1>1, <1>4 DEF SnapshotsOK
  <2>2. Snap[s] = View(SuperVersion, snapshots[s]) BY <1>4 DEF Snap, SnapshotView
  <2>3. QED BY <1>1, <1>2, <2>1, <2>2, ViewNow
<1>5. ASSUME NEW i \in Iterators, iters[i] # None
      PROVE  /\ Iter[i] = ViewIn(table, iters[i].sv, iters[i].seq)
             /\ iters[i] \in IteratorStates /\ iters[i].seq \in Nat
             /\ iters[i].seq <= lastSeq /\ Good(table, mem, lastSeq, iters[i].sv)
  <2>1. /\ iters[i] \in IteratorStates /\ iters[i].seq <= lastSeq
        /\ Good(table, mem, lastSeq, iters[i].sv)
    BY <1>1, <1>5 DEF ItersOK
  <2>2. iters[i].seq \in Nat BY <2>1 DEF IteratorStates
  <2>3. Iter[i] = View(iters[i].sv, iters[i].seq) BY <1>5 DEF Iter, IteratorView
  <2>4. QED BY <1>1, <2>1, <2>2, <2>3, ViewNow
<1>6. \A s \in Snapshots : snapshots[s] = None => Snap[s] = None BY DEF Snap, SnapshotView
<1>7. \A i \in Iterators : iters[i] = None => Iter[i] = None BY DEF Iter, IteratorView
<1>8. DOMAIN Snap = Snapshots /\ DOMAIN Iter = Iterators BY DEF Snap, Iter
<1>9. QED BY <1>3, <1>4, <1>5, <1>6, <1>7, <1>8 DEF SeenIn

\* None of it changes but by the step that is meant to.
LEMMA SeenStays ==
  ASSUME Inv, Next, Inv'
  PROVE  /\ lastSeq' = lastSeq => Kv' = Kv
         /\ \A s \in Snapshots : snapshots'[s] = snapshots[s] => Snap'[s] = Snap[s]
         /\ \A i \in Iterators : iters'[i] = iters[i] => Iter'[i] = Iter[i]
         /\ snapshots' = snapshots => Snap' = Snap
         /\ iters' = iters => Iter' = Iter
<1>0. SeenIn /\ SeenIn'
  <2>1. Inv' => SeenIn' BY SeenNow, PTL
  <2>2. QED BY SeenNow, <2>1
<1>1. ASSUME lastSeq' = lastSeq PROVE Kv' = Kv
  <2>1. lastSeq \in Nat BY StoreFacts DEF Inv
  <2>2. Kv = ViewIn(table, SuperVersion, lastSeq) BY <1>0 DEF SeenIn
  <2>3. Kv' = ViewIn(table', SuperVersion', lastSeq') BY <1>0 DEF SeenIn
  <2>4. ViewIn(table', SuperVersion', lastSeq) = ViewIn(table, SuperVersion, lastSeq)
    BY <2>1, CurrentViews
  <2>5. QED BY <1>1, <2>2, <2>3, <2>4
<1>2. ASSUME NEW s \in Snapshots, snapshots'[s] = snapshots[s] PROVE Snap'[s] = Snap[s]
  <2>1. CASE snapshots[s] = None BY <1>2, <2>1, <1>0 DEF SeenIn
  <2>2. CASE snapshots[s] # None
    <3>1. snapshots[s] \in Nat /\ snapshots[s] <= lastSeq
          /\ Snap[s] = ViewIn(table, SuperVersion, snapshots[s])
      BY <1>0, <2>2 DEF SeenIn
    <3>2. Snap'[s] = ViewIn(table', SuperVersion', snapshots'[s]) BY <1>0, <1>2, <2>2 DEF SeenIn
    <3>3. ViewIn(table', SuperVersion', snapshots[s]) = ViewIn(table, SuperVersion, snapshots[s])
      BY <2>2, <3>1, CurrentViews
    <3>4. QED BY <1>2, <3>1, <3>2, <3>3
  <2>3. QED BY <2>1, <2>2
<1>3. ASSUME NEW i \in Iterators, iters'[i] = iters[i] PROVE Iter'[i] = Iter[i]
  <2>1. CASE iters[i] = None BY <1>3, <2>1, <1>0 DEF SeenIn
  <2>2. CASE iters[i] # None
    <3>1. /\ iters[i].seq \in Nat /\ iters[i].seq <= lastSeq
          /\ Good(table, mem, lastSeq, iters[i].sv)
          /\ Iter[i] = ViewIn(table, iters[i].sv, iters[i].seq)
      BY <1>0, <2>2 DEF SeenIn
    <3>2. Iter'[i] = ViewIn(table', iters'[i].sv, iters'[i].seq) BY <1>0, <1>3, <2>2 DEF SeenIn
    <3>3. ViewIn(table', iters[i].sv, iters[i].seq) = ViewIn(table, iters[i].sv, iters[i].seq)
      BY <3>1, OldViews
    <3>4. QED BY <1>3, <3>1, <3>2, <3>3
  <2>3. QED BY <2>1, <2>2
<1>4. snapshots' = snapshots => Snap' = Snap
  <2>1. Snap' = [s \in Snapshots |-> Snap'[s]] BY DEF Snap
  <2>2. Snap = [s \in Snapshots |-> Snap[s]] BY DEF Snap
  <2>3. QED BY <1>2, <2>1, <2>2
<1>5. iters' = iters => Iter' = Iter
  <2>1. Iter' = [i \in Iterators |-> Iter'[i]] BY DEF Iter
  <2>2. Iter = [i \in Iterators |-> Iter[i]] BY DEF Iter
  <2>3. QED BY <1>3, <2>1, <2>2
<1>6. QED BY <1>1, <1>2, <1>3, <1>4, <1>5
(***************************************************************************)
(* What a running call will answer, when no pool thread's write overlaps   *)
(* the making of an iterator.  Without that the claim is false: see the    *)
(* run Mvcc_iterator_race.                                                 *)
(***************************************************************************)

\* The map there is now is one the call overlapped.
OverlapOK == call.op # "idle" => ViewIn(table, SuperVersion, lastSeq) \in call.since

\* A Get of the latest map: what it reads is a map it overlapped, also when it
\* has the SuperVersion and not yet the number.
LatestOK == call.op = "get" /\ call.at = None =>
  /\ call.seq = None => ViewIn(table, call.sv, lastSeq) \in call.since
  /\ call.seq # None => ViewIn(table, call.sv, call.seq) \in call.since
  /\ call.sv.mem = mem => ViewIn(table, call.sv, lastSeq) = ViewIn(table, SuperVersion, lastSeq)

\* A Get at a snapshot: the SuperVersion it holds shows the snapshot's map.
NamedOK == call.op = "get" /\ call.at # None =>
  /\ ViewIn(table, call.sv, snapshots[call.at]) = ViewIn(table, SuperVersion, snapshots[call.at])
  /\ call.seq # None => call.seq = snapshots[call.at]

\* An iterator being made reads at the number of the moment.
MadeOK == call.op \in {"iter", "refresh"} =>
  /\ writer = None
  /\ call.seq = IF call.at = None THEN lastSeq ELSE snapshots[call.at]

AnswersOK == OverlapOK /\ LatestOK /\ NamedOK /\ MadeOK

\* No call, nothing to answer.
LEMMA IdleAnswers == ASSUME call' = Idle PROVE AnswersOK'
<1>1. Idle.op = "idle" BY DEF Idle
<1>2. QED BY <1>1 DEF AnswersOK, OverlapOK, LatestOK, NamedOK, MadeOK

\* What a call may name.
LEMMA CallFacts ==
  ASSUME Inv
  PROVE  /\ call \in Calls /\ call.at \in Ats
         /\ call.op \in {"idle", "get", "iter", "refresh"}
         /\ call.op = "idle" => call = Idle
         /\ call.seq # None => call.seq \in Nat /\ call.seq <= lastSeq
         /\ call.op # "idle" /\ call.at # None =>
              /\ call.at \in Snapshots /\ snapshots[call.at] # None
              /\ snapshots[call.at] \in Nat /\ snapshots[call.at] <= lastSeq
         /\ call.op = "get" => call.key \in Keys /\ call.iter = None
         /\ call.op = "get" => call.sv \in SuperVersions /\ Good(table, mem, lastSeq, call.sv)
         /\ call.op \in {"iter", "refresh"} => call.iter \in Iterators /\ call.seq \in Nat
         /\ call.op = "refresh" => call.at = None
         /\ got # None => call.op = "get"
<1>1. CallOK /\ SnapshotsOK BY DEF Inv
<1>2. call \in Calls BY <1>1 DEF CallOK
<1>3. call.at \in Ats /\ call.op \in {"idle", "get", "iter", "refresh"}
      /\ (call.seq # None => call.seq \in Nat)
  BY <1>2 DEF Calls, Ops
<1>4. ASSUME call.op # "idle", call.at # None
      PROVE  /\ call.at \in Snapshots /\ snapshots[call.at] # None
             /\ snapshots[call.at] \in Nat /\ snapshots[call.at] <= lastSeq
  <2>1. call.at \in Snapshots BY <1>3, <1>4 DEF Ats
  <2>2. snapshots[call.at] # None BY <1>1, <1>4 DEF CallOK
  <2>3. snapshots[call.at] \in 0 .. MaxSeq /\ snapshots[call.at] <= lastSeq
    BY <1>1, <2>1, <2>2 DEF SnapshotsOK
  <2>4. QED BY <2>1, <2>2, <2>3, BoundsAssumption
<1>5. call.op = "get" => call.sv \in SuperVersions /\ Good(table, mem, lastSeq, call.sv)
  BY <1>1 DEF CallOK, Good
<1>6. QED BY <1>1, <1>2, <1>3, <1>4, <1>5 DEF CallOK

\* A step that is neither the call's nor a publication changes no answer.
LEMMA OthersKeepAnswers ==
  ASSUME Inv, Next, AnswersOK, UNCHANGED <<call, lastSeq, snapshots>>,
         call.op \in {"iter", "refresh"} => writer' = None
  PROVE  AnswersOK'
<1>1. CASE call.op = "idle" BY <1>1 DEF AnswersOK, OverlapOK, LatestOK, NamedOK, MadeOK
<1>2. CASE call.op # "idle"
  <2>1. lastSeq \in Nat /\ lastSeq <= lastSeq /\ mem \in Nat BY StoreFacts DEF Inv
  <2>2. ViewIn(table', SuperVersion', lastSeq) = ViewIn(table, SuperVersion, lastSeq)
    BY <2>1, CurrentViews
  <2>3. OverlapOK' BY <2>2 DEF AnswersOK, OverlapOK
  <2>4. MadeOK' BY DEF AnswersOK, MadeOK
  <2>5. LatestOK'
    <3>1. SUFFICES ASSUME call.op = "get", call.at = None
                   PROVE  /\ call.seq = None => ViewIn(table', call.sv, lastSeq) \in call.since
                          /\ call.seq # None => ViewIn(table', call.sv, call.seq) \in call.since
                          /\ call.sv.mem = mem' => ViewIn(table', call.sv, lastSeq)
                                                     = ViewIn(table', SuperVersion', lastSeq)
      BY DEF LatestOK
    <3>2. call.sv \in SuperVersions /\ Good(table, mem, lastSeq, call.sv) BY <3>1, CallFacts
    <3>3. ViewIn(table', call.sv, lastSeq) = ViewIn(table, call.sv, lastSeq)
      BY <2>1, <3>2, OldViews
    <3>4. call.seq # None => ViewIn(table', call.sv, call.seq) = ViewIn(table, call.sv, call.seq)
      BY <3>2, CallFacts, OldViews
    <3>5. call.sv.mem = mem' => call.sv.mem = mem
      <4>1. call.sv.mem \in Nat /\ call.sv.mem <= mem BY <3>2, SuperVersionTypes DEF Good
      <4>2. mem' = mem \/ mem' = mem + 1 BY MemGrows
      <4>3. QED BY <2>1, <4>1, <4>2
    <3>6. QED BY <2>2, <3>1, <3>3, <3>4, <3>5 DEF AnswersOK, LatestOK
  <2>6. NamedOK'
    <3>1. SUFFICES ASSUME call.op = "get", call.at # None
                   PROVE  /\ ViewIn(table', call.sv, snapshots[call.at])
                               = ViewIn(table', SuperVersion', snapshots[call.at])
                          /\ call.seq # None => call.seq = snapshots[call.at]
      BY DEF NamedOK
    <3>2. /\ call.at \in Snapshots /\ snapshots[call.at] # None
          /\ snapshots[call.at] \in Nat /\ snapshots[call.at] <= lastSeq
          /\ Good(table, mem, lastSeq, call.sv)
      BY <3>1, <1>2, CallFacts
    <3>3. ViewIn(table', call.sv, snapshots[call.at]) = ViewIn(table, call.sv, snapshots[call.at])
      BY <3>2, OldViews
    <3>4. ViewIn(table', SuperVersion', snapshots[call.at])
            = ViewIn(table, SuperVersion, snapshots[call.at])
      BY <3>2, CurrentViews
    <3>5. QED BY <3>1, <3>3, <3>4 DEF AnswersOK, NamedOK
  <2>7. QED BY <2>3, <2>4, <2>5, <2>6 DEF AnswersOK
<1>3. QED BY <1>1, <1>2

\* A pool thread's write overlaps no making of an iterator.  The binding does
\* not see to it (rocksdb_batch_write_async against rocksdb_iterator_init), so
\* this is what its user has to; a Get may be overlapped.
NoWriteWhileMaking == Async \subseteq {"idle", "get"}

\* A call begins with the map of the moment.
LEMMA BeginAnswers ==
  ASSUME NoWriteWhileMaking, Inv, NEW c \in Calls, Begin(c),
         c.op = "get" => c.sv = SuperVersion /\ c.seq = None,
         c.op \in {"iter", "refresh"} =>
           c.seq = IF c.at = None THEN lastSeq ELSE snapshots[c.at]
  PROVE  AnswersOK'
<1> DEFINE now == ViewIn(table, SuperVersion, lastSeq)
<1>1. /\ call' = [c EXCEPT !.since = {View(SuperVersion, lastSeq)}]
      /\ writer # None => c.op \in Async
      /\ UNCHANGED <<table, mem, imm, runs, lastSeq, snapshots, writer>>
  BY DEF Begin, store
<1>2. View(SuperVersion, lastSeq) = now BY SeenNow DEF SeenIn, Kv
<1>3. UNCHANGED SuperVersion BY <1>1 DEF SuperVersion
<1>4. /\ call'.op = c.op /\ call'.at = c.at /\ call'.seq = c.seq /\ call'.sv = c.sv
      /\ call'.since = {now}
  BY <1>1, <1>2 DEF Calls
<1> HIDE DEF now
<1>5. OverlapOK' BY <1>1, <1>3, <1>4 DEF OverlapOK, now
<1>6. LatestOK' BY <1>1, <1>3, <1>4 DEF LatestOK, now
<1>7. NamedOK' BY <1>1, <1>3, <1>4 DEF NamedOK
<1>8. MadeOK'
  <2>1. c.op \in {"iter", "refresh"} => writer = None BY <1>1 DEF NoWriteWhileMaking
  <2>2. QED BY <1>1, <1>4, <2>1 DEF MadeOK
<1>9. QED BY <1>5, <1>6, <1>7, <1>8 DEF AnswersOK

\* The number is taken after the SuperVersion (GetImpl): what it shows then is a
\* map the call overlapped.
LEMMA GetReadsNumberAnswers ==
  ASSUME Inv, AnswersOK, GetReadsNumber
  PROVE  AnswersOK'
<1>1. /\ call.op = "get" /\ call.seq = None
      /\ call' = [call EXCEPT !.seq = NumberFor(call.at)]
      /\ UNCHANGED <<table, mem, imm, runs, lastSeq, snapshots>>
  BY DEF GetReadsNumber, store
<1>2. UNCHANGED SuperVersion BY <1>1 DEF SuperVersion
<1>3. call \in Calls BY CallFacts
<1>4. /\ call'.op = "get" /\ call'.at = call.at /\ call'.sv = call.sv
      /\ call'.since = call.since
      /\ call'.seq = IF call.at = None THEN lastSeq ELSE snapshots[call.at]
  BY <1>1, <1>3 DEF Calls, NumberFor
<1>5. call'.seq # None
  <2>1. lastSeq \in Nat BY StoreFacts DEF Inv
  <2>2. call.at # None => snapshots[call.at] \in Nat BY <1>1, CallFacts
  <2>3. QED BY <1>4, <2>1, <2>2, KeysAssumption
<1>6. OverlapOK' BY <1>1, <1>2, <1>4 DEF AnswersOK, OverlapOK
<1>7. LatestOK' BY <1>1, <1>2, <1>4, <1>5 DEF AnswersOK, LatestOK
<1>8. NamedOK' BY <1>1, <1>2, <1>4 DEF AnswersOK, NamedOK
<1>9. MadeOK' BY <1>4 DEF MadeOK
<1>10. QED BY <1>6, <1>7, <1>8, <1>9 DEF AnswersOK

\* A publication while a Get has its SuperVersion and not its number: the map it
\* will show moves on with the published one, or stays when the memtable is old.
LEMMA PublishAnswers ==
  ASSUME Inv, AnswersOK, Publish
  PROVE  AnswersOK'
<1> DEFINE sv == SuperVersion
           new == ViewIn(table, sv, lastSeq')
<1>1. /\ call' = IF call = Idle THEN Idle
                 ELSE [call EXCEPT !.since = @ \cup {View(sv, lastSeq')}]
      /\ writer # None
  BY DEF Publish
<1>2. /\ lastSeq \in Nat /\ lastSeq' \in Nat
      /\ UNCHANGED <<table, mem, imm, runs, snapshots, iters, got, SuperVersion>>
      /\ \A s : Good(table, mem, lastSeq, s) =>
           ViewIn(table, s, lastSeq') =
             IF s.mem = mem THEN Abstract!Apply(ViewIn(table, s, lastSeq), writer.ops, lastSeq)
             ELSE ViewIn(table, s, lastSeq)
  BY PublishStep
<1>3. CASE call = Idle BY <1>1, <1>3, IdleAnswers
<1>4. CASE call # Idle
  <2>1. Good(table, mem, lastSeq, sv) /\ sv.mem = mem BY StoreFacts DEF Inv, StoreOK
  <2>2. View(sv, lastSeq') = new
    <3>1. \A n \in Nat : View(sv, n) = ViewIn(table, sv, n) BY <2>1, ViewNow DEF Inv
    <3>2. QED BY <1>2, <3>1
  <2>3. call \in Calls /\ call.op # "idle" BY <1>4, CallFacts
  <2>4. /\ call'.op = call.op /\ call'.at = call.at /\ call'.seq = call.seq
        /\ call'.sv = call.sv /\ call'.since = call.since \cup {new}
    BY <1>1, <1>4, <2>2, <2>3 DEF Calls
  <2> HIDE DEF new
  <2>5. new = Abstract!Apply(ViewIn(table, sv, lastSeq), writer.ops, lastSeq)
    BY <1>2, <2>1 DEF new
  <2>6. OverlapOK' BY <1>2, <2>4 DEF OverlapOK, new
  <2>7. LatestOK'
    <3>1. SUFFICES ASSUME call.op = "get", call.at = None
                   PROVE  /\ call.seq = None => ViewIn(table, call.sv, lastSeq') \in call'.since
                          /\ call.seq # None => ViewIn(table, call.sv, call.seq) \in call'.since
                          /\ call.sv.mem = mem => ViewIn(table, call.sv, lastSeq') = new
      BY <1>2, <2>4 DEF LatestOK, new
    <3>2. Good(table, mem, lastSeq, call.sv) BY <3>1, CallFacts
    <3>3. call.sv.mem = mem => ViewIn(table, call.sv, lastSeq') = new
      BY <1>2, <2>5, <3>1, <3>2 DEF AnswersOK, LatestOK
    <3>4. call.sv.mem # mem => ViewIn(table, call.sv, lastSeq') = ViewIn(table, call.sv, lastSeq)
      BY <1>2, <3>2
    <3>5. QED BY <2>4, <3>1, <3>3, <3>4 DEF AnswersOK, LatestOK
  <2>8. NamedOK' BY <1>2, <2>4 DEF AnswersOK, NamedOK
  <2>9. MadeOK' BY <1>1, <2>4 DEF AnswersOK, MadeOK
  <2>10. QED BY <2>6, <2>7, <2>8, <2>9 DEF AnswersOK
<1>5. QED BY <1>3, <1>4

\* Every step keeps the answers.
LEMMA AnswersStep ==
  ASSUME NoWriteWhileMaking, Inv, AnswersOK, [Next]_vars
  PROVE  AnswersOK'
<1>1. CASE UNCHANGED vars
  <2>1. UNCHANGED <<table, lastSeq, snapshots, call, writer, mem, SuperVersion>>
    BY <1>1 DEF vars, SuperVersion
  <2>2. QED BY <2>1 DEF AnswersOK, OverlapOK, LatestOK, NamedOK, MadeOK
<1>2. ASSUME Next, UNCHANGED <<call, lastSeq, snapshots, writer>> PROVE AnswersOK'
  BY <1>2, OthersKeepAnswers DEF AnswersOK, MadeOK
<1>3. ASSUME Next, NEW by \in {"main", "pool"}, NEW ops \in Programs, WriteBegin(by, ops)
      PROVE  AnswersOK'
  <2>1. UNCHANGED <<call, lastSeq, snapshots>> BY <1>3 DEF WriteBegin
  <2>2. ~(call.op \in {"iter", "refresh"})
    <3>1. CASE by = "pool" BY <1>3, <3>1 DEF WriteBegin, NoWriteWhileMaking
    <3>2. CASE by # "pool" BY <1>3, <3>2 DEF WriteBegin, JsFree, Idle
    <3>3. QED BY <3>1, <3>2
  <2>3. QED BY <1>3, <2>1, <2>2, OthersKeepAnswers
<1>4. ASSUME NEW s \in Snapshots, GetSnapshot(s) \/ ReleaseSnapshot(s) PROVE AnswersOK'
  <2>1. call' = Idle BY <1>4 DEF GetSnapshot, ReleaseSnapshot, JsFree
  <2>2. QED BY <2>1, IdleAnswers
<1>5. ASSUME NEW k \in Keys, NEW s \in Ats, GetBegin(k, s) PROVE AnswersOK'
  <2> DEFINE c == [Idle EXCEPT !.op = "get", !.key = k, !.at = s, !.sv = SuperVersion]
  <2>1. c.op = "get" /\ c.sv = SuperVersion /\ c.seq = None BY DEF Idle
  <2>2. SuperVersion \in SuperVersions BY StoreFacts DEF Inv
  <2>3. c \in Calls BY <2>2 DEF Idle, Calls, Ops
  <2>4. Begin(c) BY <1>5 DEF GetBegin
  <2> HIDE DEF c
  <2>5. QED BY <2>1, <2>3, <2>4, BeginAnswers
<1>6. ASSUME NEW i \in Iterators, NEW s \in Ats, NewIteratorBegin(i, s) PROVE AnswersOK'
  <2> DEFINE c == [Idle EXCEPT !.op = "iter", !.iter = i, !.at = s, !.seq = NumberFor(s)]
  <2>1. c.op = "iter" /\ c.at = s /\ c.seq = NumberFor(s) BY DEF Idle
  <2>2. Begin(c) BY <1>6 DEF NewIteratorBegin
  <2>3. s # None => snapshots[s] # None BY <2>1, <2>2 DEF Begin
  <2>4. NumberFor(s) \in Nat BY <2>3, NumberForType
  <2>5. c \in Calls BY <2>4 DEF Idle, Calls, Ops
  <2> HIDE DEF c
  <2>6. c.seq = IF c.at = None THEN lastSeq ELSE snapshots[c.at] BY <2>1 DEF NumberFor
  <2>7. QED BY <2>1, <2>2, <2>5, <2>6, BeginAnswers
<1>7. ASSUME NEW i \in Iterators, RefreshBegin(i) PROVE AnswersOK'
  <2> DEFINE c == [Idle EXCEPT !.op = "refresh", !.iter = i, !.seq = lastSeq]
  <2>1. c.op = "refresh" /\ c.at = None /\ c.seq = lastSeq BY DEF Idle
  <2>2. Begin(c) BY <1>7 DEF RefreshBegin
  <2>3. lastSeq \in Nat BY StoreFacts DEF Inv
  <2>4. c \in Calls BY <2>3 DEF Idle, Calls, Ops, Ats
  <2> HIDE DEF c
  <2>5. QED BY <2>1, <2>2, <2>4, BeginAnswers
<1>8. CASE GetReadsNumber BY <1>8, GetReadsNumberAnswers
<1>9. ASSUME GetReturns \/ IteratorReferences PROVE AnswersOK'
  <2>1. call' = Idle BY <1>9 DEF GetReturns, IteratorReferences
  <2>2. QED BY <2>1, IdleAnswers
<1>10. ASSUME NEW i \in Iterators, DeleteIterator(i) PROVE AnswersOK'
  <2>1. call' = Idle BY <1>10 DEF DeleteIterator, JsFree
  <2>2. QED BY <2>1, IdleAnswers
<1>11. ASSUME Next, Insert PROVE AnswersOK'
  <2>1. UNCHANGED <<call, lastSeq, snapshots>> /\ writer # None BY <1>11 DEF Insert
  <2>2. QED BY <1>11, <2>1, OthersKeepAnswers DEF AnswersOK, MadeOK
<1>12. CASE Publish BY <1>12, PublishAnswers
<1>13. GetSearches => UNCHANGED <<call, lastSeq, snapshots, writer>> BY DEF GetSearches
<1>14. Background => UNCHANGED <<call, lastSeq, snapshots, writer>>
  BY DEF Background, SwitchMemtable, FlushBegin, FlushInstalls, CompactionBegin,
     CompactionInstalls
<1>15. ASSUME Next, JavaScript PROVE AnswersOK'
  BY <1>2, <1>3, <1>4, <1>5, <1>6, <1>7, <1>8, <1>9, <1>10, <1>13, <1>15 DEF JavaScript
<1>16. ASSUME Next, Writer PROVE AnswersOK' BY <1>3, <1>11, <1>12, <1>16 DEF Writer
<1>17. QED BY <1>1, <1>2, <1>14, <1>15, <1>16 DEF Next

-----------------------------------------------------------------------------
(***************************************************************************)
(* The steps as the abstract store sees them.                              *)
(***************************************************************************)

\* What the steps that stutter have in common.
LEMMA Stutter ==
  ASSUME Inv, Next, Inv', UNCHANGED <<lastSeq, snapshots, iters, Asked, Since, got>>
  PROVE  UNCHANGED Seen
BY SeenStays DEF Seen

\* Publish is KWrite.
LEMMA SeenPublish ==
  ASSUME Inv, Next, Inv', Publish
  PROVE  Abstract!KNext
<1> DEFINE ops == writer.ops
<1>1. /\ ops \in Programs /\ lastSeq' = lastSeq + Len(ops)
      /\ UNCHANGED <<table, mem, snapshots, iters, got, SuperVersion>>
      /\ \A sv : Good(table, mem, lastSeq, sv) =>
           ViewIn(table, sv, lastSeq') =
             IF sv.mem = mem THEN Abstract!Apply(ViewIn(table, sv, lastSeq), ops, lastSeq)
             ELSE ViewIn(table, sv, lastSeq)
  BY PublishStep
<1> HIDE DEF ops
<1>2. SeenIn /\ SeenIn'
  <2>1. Inv' => SeenIn' BY SeenNow, PTL
  <2>2. QED BY SeenNow, <2>1
<1>3. Kv = ViewIn(table, SuperVersion, lastSeq) /\ Kv' = ViewIn(table, SuperVersion, lastSeq')
  BY <1>1, <1>2 DEF SeenIn
<1>4. Good(table, mem, lastSeq, SuperVersion) /\ SuperVersion.mem = mem
  BY StoreFacts DEF Inv, StoreOK
<1>5. Kv' = Abstract!Apply(Kv, ops, lastSeq) BY <1>1, <1>3, <1>4
<1>6. UNCHANGED <<Snap, Iter>> BY <1>1, SeenStays
<1>7. /\ call' = IF call = Idle THEN Idle
                 ELSE [call EXCEPT !.since = @ \cup {View(SuperVersion, lastSeq')}]
  BY DEF Publish
<1>8. View(SuperVersion, lastSeq') = Kv'
  <2>1. \A n \in Nat : View(SuperVersion, n) = ViewIn(table, SuperVersion, n)
    BY <1>4, ViewNow DEF Inv
  <2>2. lastSeq' \in Nat BY PublishStep
  <2>3. QED BY <1>3, <2>1, <2>2
<1>9. UNCHANGED Asked /\ Since' = IF Asked = Abstract!Idle THEN {} ELSE Since \cup {Kv'}
  <2>1. CASE call = Idle
    <3>1. call' = Idle BY <1>7, <2>1
    <3>2. Since' = {} BY <3>1 DEF Since, Idle
    <3>3. Asked = Abstract!Idle BY <2>1 DEF Asked, Idle, Abstract!Idle
    <3>4. Asked' = Asked BY <2>1, <3>1 DEF Asked
    <3>5. QED BY <3>2, <3>3, <3>4
  <2>2. CASE call # Idle
    <3>1. call \in Calls /\ call.op # "idle" BY <2>2, CallFacts
    <3>2. call' = [call EXCEPT !.since = @ \cup {Kv'}] BY <1>7, <1>8, <2>2
    <3>3. /\ call'.op = call.op /\ call'.key = call.key /\ call'.at = call.at
          /\ call'.iter = call.iter /\ call'.since = call.since \cup {Kv'}
      BY <3>1, <3>2 DEF Calls
    <3>4. Asked # Abstract!Idle BY <3>1 DEF Asked, Abstract!Idle
    <3>5. QED BY <3>3, <3>4 DEF Asked, Since
  <2>3. QED BY <2>1, <2>2
<1>10. QED BY <1>1, <1>5, <1>6, <1>9, SeenWrites

\* GetSnapshot is KSnapshot and ReleaseSnapshot is KRelease.
LEMMA SeenNamed ==
  ASSUME Inv, Next, Inv'
  PROVE  /\ \A s \in Snapshots : GetSnapshot(s) => Abstract!KNext
         /\ \A s \in Snapshots : ReleaseSnapshot(s) => Abstract!KNext
<1>1. SeenIn /\ SeenIn'
  <2>1. Inv' => SeenIn' BY SeenNow, PTL
  <2>2. QED BY SeenNow, <2>1
<1>2. Snap' = [s \in Snapshots |-> Snap'[s]] /\ Snap = [s \in Snapshots |-> Snap[s]] BY DEF Snap
<1>3. snapshots \in [Snapshots -> 0 .. MaxSeq \cup {None}] BY DEF Inv, SnapshotsOK
<1>4. ASSUME call = Idle, UNCHANGED <<call, lastSeq, iters, got>>
      PROVE  Asked = Abstract!Idle /\ UNCHANGED <<Kv, lastSeq, Iter, Asked, Since, got>>
  <2>1. UNCHANGED <<Asked, Since>> BY <1>4 DEF Asked, Since
  <2>2. UNCHANGED <<Kv, Iter>> BY <1>4, SeenStays
  <2>3. QED BY <1>4, <2>1, <2>2 DEF Asked, Idle, Abstract!Idle
<1>5. ASSUME NEW s \in Snapshots, GetSnapshot(s) PROVE Abstract!KNext
  <2>1. /\ call = Idle /\ snapshots[s] = None /\ snapshots' = [snapshots EXCEPT ![s] = lastSeq]
        /\ UNCHANGED <<table, mem, imm, runs, call, lastSeq, iters, got>>
    BY <1>5 DEF GetSnapshot, JsFree, store
  <2>2. \A t \in Snapshots : snapshots'[t] = IF t = s THEN lastSeq ELSE snapshots[t]
    BY <1>3, <2>1
  <2>3. lastSeq # None
    <3>1. lastSeq \in Nat BY StoreFacts DEF Inv
    <3>2. QED BY <3>1, KeysAssumption
  <2>4. Snap'[s] = Kv' BY <1>1, <2>1, <2>2, <2>3 DEF SeenIn
  <2>5. \A t \in Snapshots : t # s => Snap'[t] = Snap[t] BY <2>2, SeenStays
  <2>6. Kv' = Kv BY <1>4, <2>1
  <2>7. Snap' = [Snap EXCEPT ![s] = Kv] BY <1>2, <2>4, <2>5, <2>6
  <2>8. Snap[s] = None BY <1>1, <2>1 DEF SeenIn
  <2>9. QED BY <1>4, <2>1, <2>7, <2>8, SeenSnapshot
<1>6. ASSUME NEW s \in Snapshots, ReleaseSnapshot(s) PROVE Abstract!KNext
  <2>1. /\ call = Idle /\ snapshots' = [snapshots EXCEPT ![s] = None]
        /\ UNCHANGED <<call, lastSeq, iters, got>>
    BY <1>6 DEF ReleaseSnapshot, JsFree
  <2>2. \A t \in Snapshots : snapshots'[t] = IF t = s THEN None ELSE snapshots[t]
    BY <1>3, <2>1
  <2>3. Snap'[s] = None BY <1>1, <2>2 DEF SeenIn
  <2>4. \A t \in Snapshots : t # s => Snap'[t] = Snap[t] BY <2>2, SeenStays
  <2>5. Snap' = [Snap EXCEPT ![s] = None] BY <1>2, <2>3, <2>4
  <2>6. QED BY <1>4, <2>1, <2>5, SeenRelease
<1>7. QED BY <1>5, <1>6

\* An iterator is made: it shows a map the call may answer with.
LEMMA IteratorMade ==
  ASSUME Inv, Next, Inv', AnswersOK, IteratorReferences
  PROVE  /\ call.op \in {"iter", "refresh"} /\ call.iter \in Iterators /\ call' = Idle
         /\ UNCHANGED <<lastSeq, snapshots, got>>
         /\ \A j \in Iterators : j # call.iter => iters'[j] = iters[j]
         /\ iters'[call.iter] # None /\ iters'[call.iter].explicit = (call.at # None)
         /\ Iter'[call.iter] \in Given
<1> DEFINE it == [seq |-> call.seq, sv |-> SuperVersion, explicit |-> call.at # None]
           i == call.iter
           m == ViewIn(table, SuperVersion, call.seq)
<1>1. SeenIn /\ SeenIn'
  <2>1. Inv' => SeenIn' BY SeenNow, PTL
  <2>2. QED BY SeenNow, <2>1
<1>2. /\ call.op \in {"iter", "refresh"} /\ call' = Idle /\ iters' = [iters EXCEPT ![i] = it]
      /\ UNCHANGED <<table, mem, imm, runs, lastSeq, snapshots, got>>
  BY DEF IteratorReferences, store
<1>3. i \in Iterators /\ call.seq \in Nat BY <1>2, CallFacts
<1>4. /\ it \in IteratorStates /\ it.seq = call.seq /\ it.sv = SuperVersion
      /\ it.explicit = (call.at # None)
  <2>1. SuperVersion \in SuperVersions BY StoreFacts DEF Inv
  <2>2. QED BY <1>3, <2>1 DEF IteratorStates
<1>5. iters \in [Iterators -> IteratorStates \cup {None}] BY DEF Inv, ItersOK
<1> HIDE DEF it, i
<1>6. it # None BY <1>4, NoneAssumption
<1>7. \A j \in Iterators : iters'[j] = IF j = i THEN it ELSE iters[j] BY <1>2, <1>5
<1>8. Iter'[i] = m BY <1>1, <1>2, <1>3, <1>4, <1>6, <1>7 DEF SeenIn
<1>9. m \in Given
  <2>1. CASE call.at = None
    <3>1. call.seq = lastSeq /\ m \in call.since
      BY <1>2, <2>1 DEF AnswersOK, MadeOK, OverlapOK
    <3>2. QED BY <2>1, <3>1 DEF Given, Asked, Since
  <2>2. CASE call.at # None
    <3>1. call.seq = snapshots[call.at] BY <1>2, <2>2 DEF AnswersOK, MadeOK
    <3>2. call.at \in Snapshots /\ snapshots[call.at] # None BY <1>2, <2>2, CallFacts
    <3>3. m = Snap[call.at] BY <1>1, <3>1, <3>2 DEF SeenIn
    <3>4. QED BY <2>2, <3>3 DEF Given, Asked
  <2>3. QED BY <2>1, <2>2
<1> HIDE DEF m
<1>10. QED BY <1>2, <1>3, <1>4, <1>6, <1>7, <1>8, <1>9 DEF i

\* DeleteIterator is KDelete and IteratorReferences is KIterator.
LEMMA SeenIterators ==
  ASSUME Inv, Next, Inv', AnswersOK
  PROVE  /\ \A i \in Iterators : DeleteIterator(i) => Abstract!KNext
         /\ IteratorReferences => Abstract!KNext
<1>1. SeenIn'
  <2>1. Inv' => SeenIn' BY SeenNow, PTL
  <2>2. QED BY <2>1
<1>2. Iter' = [i \in Iterators |-> Iter'[i]] /\ Iter = [i \in Iterators |-> Iter[i]] BY DEF Iter
<1>3. iters \in [Iterators -> IteratorStates \cup {None}] BY DEF Inv, ItersOK
<1>4. ASSUME NEW i \in Iterators, DeleteIterator(i) PROVE Abstract!KNext
  <2>1. /\ call = Idle /\ iters' = [iters EXCEPT ![i] = None]
        /\ UNCHANGED <<call, lastSeq, snapshots, got>>
    BY <1>4 DEF DeleteIterator, JsFree
  <2>2. \A j \in Iterators : iters'[j] = IF j = i THEN None ELSE iters[j] BY <1>3, <2>1
  <2>3. Iter'[i] = None BY <1>1, <2>2 DEF SeenIn
  <2>4. \A j \in Iterators : j # i => Iter'[j] = Iter[j] BY <2>2, SeenStays
  <2>5. Iter' = [Iter EXCEPT ![i] = None] BY <1>2, <2>3, <2>4
  <2>6. UNCHANGED <<Kv, Snap, Asked, Since>> BY <2>1, SeenStays DEF Asked, Since
  <2>7. Asked = Abstract!Idle BY <2>1 DEF Asked, Idle, Abstract!Idle
  <2>8. QED BY <2>1, <2>5, <2>6, <2>7, SeenDelete
<1>5. ASSUME IteratorReferences PROVE Abstract!KNext
  <2> DEFINE i == call.iter
             m == Iter'[i]
  <2>1. /\ call.op \in {"iter", "refresh"} /\ i \in Iterators /\ call' = Idle
        /\ UNCHANGED <<lastSeq, snapshots, got>>
        /\ \A j \in Iterators : j # i => iters'[j] = iters[j]
        /\ m \in Given
    BY <1>5, IteratorMade
  <2>2. \A j \in Iterators : j # i => Iter'[j] = Iter[j] BY <2>1, SeenStays
  <2>3. Iter' = [Iter EXCEPT ![i] = m] BY <1>2, <2>2
  <2>4. UNCHANGED <<Kv, Snap>> BY <2>1, SeenStays
  <2>5. Asked' = Abstract!Idle /\ Since' = {} BY <2>1 DEF Asked, Since, Idle, Abstract!Idle
  <2>6. Asked.op = call.op /\ Asked.iter = i BY DEF Asked
  <2> HIDE DEF m, i
  <2>7. QED BY <2>1, <2>3, <2>4, <2>5, <2>6, SeenIterator
<1>6. QED BY <1>4, <1>5

\* GetSearches is KGet and GetReturns is KReturn.
LEMMA SeenReads ==
  ASSUME Inv, Next, Inv', AnswersOK
  PROVE  /\ GetSearches => Abstract!KNext
         /\ GetReturns => Abstract!KNext
<1>1. SeenIn BY SeenNow
<1>2. ASSUME GetSearches PROVE Abstract!KNext
  <2> DEFINE m == ViewIn(table, call.sv, call.seq)
  <2>1. /\ call.op = "get" /\ call.seq # None /\ got = None
        /\ got' = GetFrom(call.sv, call.key, call.seq)
        /\ UNCHANGED <<lastSeq, snapshots, iters, call>>
    BY <1>2 DEF GetSearches
  <2>2. /\ call.seq \in Nat /\ call.key \in Keys /\ Good(table, mem, lastSeq, call.sv)
    BY <2>1, CallFacts
  <2>3. got' = m[call.key]
    <3>1. GetFrom(call.sv, call.key, call.seq) = View(call.sv, call.seq)[call.key]
      BY <2>2, GetFinds DEF Inv
    <3>2. View(call.sv, call.seq) = m BY <2>2, ViewNow DEF Inv
    <3>3. QED BY <2>1, <3>1, <3>2
  <2>4. m \in Given
    <3>1. CASE call.at = None
      <4>1. m \in call.since BY <2>1, <3>1 DEF AnswersOK, LatestOK
      <4>2. QED BY <3>1, <4>1 DEF Given, Asked, Since
    <3>2. CASE call.at # None
      <4>1. call.at \in Snapshots /\ snapshots[call.at] # None BY <2>1, <3>2, CallFacts
      <4>2. m = ViewIn(table, SuperVersion, snapshots[call.at])
        BY <2>1, <3>2 DEF AnswersOK, NamedOK
      <4>3. m = Snap[call.at] BY <1>1, <4>1, <4>2 DEF SeenIn
      <4>4. QED BY <3>2, <4>3 DEF Given, Asked
    <3>3. QED BY <3>1, <3>2
  <2>5. UNCHANGED <<Kv, Snap, Iter, Asked, Since>> BY <2>1, SeenStays DEF Asked, Since
  <2>6. Asked.op = "get" /\ Asked.key = call.key BY <2>1 DEF Asked
  <2> HIDE DEF m
  <2>7. QED BY <2>1, <2>3, <2>4, <2>5, <2>6, SeenGet
<1>3. ASSUME GetReturns PROVE Abstract!KNext
  <2>1. got # None /\ got' = None /\ call' = Idle /\ UNCHANGED <<lastSeq, snapshots, iters>>
    BY <1>3 DEF GetReturns
  <2>2. UNCHANGED <<Kv, Snap, Iter>> BY <2>1, SeenStays
  <2>3. Asked' = Abstract!Idle /\ Since' = {} BY <2>1 DEF Asked, Since, Idle, Abstract!Idle
  <2>4. QED BY <2>1, <2>2, <2>3, SeenReturn
<1>4. QED BY <1>2, <1>3

\* A call begins: c is what is asked.
LEMMA SeenBegins ==
  ASSUME Inv, Next, Inv', NEW c \in Calls, Begin(c),
         [op |-> c.op, key |-> c.key, at |-> c.at, iter |-> c.iter] \in Abstract!Calls
  PROVE  Abstract!KNext
<1> DEFINE a == [op |-> c.op, key |-> c.key, at |-> c.at, iter |-> c.iter]
<1>1. /\ call = Idle /\ call' = [c EXCEPT !.since = {View(SuperVersion, lastSeq)}]
      /\ c.at # None => snapshots[c.at] # None
      /\ UNCHANGED <<lastSeq, snapshots, iters, got>>
  BY DEF Begin, JsFree
<1>2. Asked' = a /\ Since' = {Kv} BY <1>1 DEF Asked, Since, Kv, Calls
<1>3. Asked = Abstract!Idle BY <1>1 DEF Asked, Idle, Abstract!Idle
<1>4. UNCHANGED <<Kv, Snap, Iter>> BY <1>1, SeenStays
<1>5. a \in Abstract!Calls /\ a.at = c.at OBVIOUS
<1>6. c.at # None => Snap[c.at] # None
  <2>1. c.at # None => c.at \in Snapshots BY DEF Calls, Ats
  <2>2. c.at # None => Snap[c.at] \in Maps BY <1>1, <2>1, SeenNow DEF SeenIn
  <2>3. QED BY <2>2, NoneAssumption
<1> HIDE DEF a
<1>7. QED BY <1>1, <1>2, <1>3, <1>4, <1>5, <1>6, SeenBegin

\* Every step is one of the abstract store, or none it sees.
LEMMA SeenStep ==
  ASSUME Inv, AnswersOK, Next, Inv'
  PROVE  Abstract!KNext \/ UNCHANGED Seen
<1>1. ASSUME UNCHANGED <<lastSeq, snapshots, iters, call, got>> PROVE UNCHANGED Seen
  <2>1. UNCHANGED <<Asked, Since>> BY <1>1 DEF Asked, Since
  <2>2. QED BY <1>1, <2>1, Stutter
<1>2. ASSUME NEW by \in {"main", "pool"}, NEW ops \in Programs, WriteBegin(by, ops)
      PROVE  UNCHANGED Seen
  BY <1>1, <1>2 DEF WriteBegin
<1>3. ASSUME NEW k \in Keys, NEW s \in Ats, GetBegin(k, s) PROVE Abstract!KNext
  <2> DEFINE c == [Idle EXCEPT !.op = "get", !.key = k, !.at = s, !.sv = SuperVersion]
  <2>1. c.op = "get" /\ c.key = k /\ c.at = s /\ c.iter = None BY DEF Idle
  <2>2. SuperVersion \in SuperVersions BY StoreFacts DEF Inv
  <2>3. c \in Calls BY <2>2 DEF Idle, Calls, Ops
  <2>4. Begin(c) BY <1>3 DEF GetBegin
  <2> HIDE DEF c
  <2>5. [op |-> c.op, key |-> c.key, at |-> c.at, iter |-> c.iter] \in Abstract!Calls
    BY <2>1 DEF Abstract!Calls, Ats
  <2>6. QED BY <2>3, <2>4, <2>5, SeenBegins
<1>4. ASSUME NEW i \in Iterators, NEW s \in Ats, NewIteratorBegin(i, s) PROVE Abstract!KNext
  <2> DEFINE c == [Idle EXCEPT !.op = "iter", !.iter = i, !.at = s, !.seq = NumberFor(s)]
  <2>1. c.op = "iter" /\ c.key = None /\ c.at = s /\ c.iter = i BY DEF Idle
  <2>2. Begin(c) BY <1>4 DEF NewIteratorBegin
  <2>3. s # None => snapshots[s] # None BY <2>1, <2>2 DEF Begin
  <2>4. NumberFor(s) \in Nat BY <2>3, NumberForType
  <2>5. c \in Calls BY <2>4 DEF Idle, Calls, Ops
  <2> HIDE DEF c
  <2>6. [op |-> c.op, key |-> c.key, at |-> c.at, iter |-> c.iter] \in Abstract!Calls
    BY <2>1 DEF Abstract!Calls, Ats
  <2>7. QED BY <2>2, <2>5, <2>6, SeenBegins
<1>5. ASSUME NEW i \in Iterators, RefreshBegin(i) PROVE Abstract!KNext
  <2> DEFINE c == [Idle EXCEPT !.op = "refresh", !.iter = i, !.seq = lastSeq]
  <2>1. c.op = "refresh" /\ c.key = None /\ c.at = None /\ c.iter = i BY DEF Idle
  <2>2. Begin(c) BY <1>5 DEF RefreshBegin
  <2>3. lastSeq \in Nat BY StoreFacts DEF Inv
  <2>4. c \in Calls BY <2>3 DEF Idle, Calls, Ops, Ats
  <2> HIDE DEF c
  <2>5. [op |-> c.op, key |-> c.key, at |-> c.at, iter |-> c.iter] \in Abstract!Calls
    BY <2>1 DEF Abstract!Calls, Ats
  <2>6. QED BY <2>2, <2>4, <2>5, SeenBegins
<1>6. CASE GetReadsNumber
  <2>1. /\ call' = [call EXCEPT !.seq = NumberFor(call.at)]
        /\ UNCHANGED <<lastSeq, snapshots, iters, got>>
    BY <1>6 DEF GetReadsNumber
  <2>2. call \in Calls BY CallFacts
  <2>3. UNCHANGED <<Asked, Since>> BY <2>1, <2>2 DEF Calls, Asked, Since
  <2>4. QED BY <2>1, <2>3, Stutter
<1>7. Insert => UNCHANGED Seen BY <1>1 DEF Insert
<1>8. Background => UNCHANGED Seen
  BY <1>1 DEF Background, SwitchMemtable, FlushBegin, FlushInstalls, CompactionBegin,
     CompactionInstalls
<1>9. JavaScript => Abstract!KNext \/ UNCHANGED Seen
  BY <1>2, <1>3, <1>4, <1>5, <1>6, SeenNamed, SeenIterators, SeenReads DEF JavaScript
<1>10. Writer => Abstract!KNext \/ UNCHANGED Seen
  BY <1>2, <1>7, SeenPublish DEF Writer
<1>11. QED BY <1>8, <1>9, <1>10 DEF Next

\* Both begin empty.
LEMMA SeenInit == Init => Abstract!KInit
<1> SUFFICES ASSUME Init PROVE Abstract!KInit OBVIOUS
<1>1. SeenIn BY InitInv, SeenNow
<1>2. Holds(table, SuperVersion) = {}
  <2>1. /\ table = [t \in 1 .. MaxMem |-> {}] /\ SuperVersion.mem = 1
        /\ Len(SuperVersion.imm) = 0 /\ Len(SuperVersion.runs) = 0
    BY DEF Init, SuperVersion
  <2>2. SuperVersion \in SuperVersions /\ table \in Tables BY InitInv, StoreFacts DEF Inv
  <2>3. table[SuperVersion.mem] = {} BY <2>1, BoundsAssumption
  <2>4. ASSUME NEW e \in Holds(table, SuperVersion) PROVE FALSE
    <3>1. ~\E i \in 1 .. Len(SuperVersion.imm) : e \in table[SuperVersion.imm[i]] BY <2>1
    <3>2. ~\E i \in 1 .. Len(SuperVersion.runs) : e \in SuperVersion.runs[i] BY <2>1
    <3>3. QED BY <2>2, <2>3, <3>1, <3>2, HeldIn
  <2>5. QED BY <2>4
<1>3. Kv = [k \in Keys |-> 0]
  <2>1. \A k \in Keys : Lookup({}, k, lastSeq) = 0 BY DEF Lookup, Deleted
  <2>2. QED BY <1>1, <1>2, <2>1 DEF SeenIn, ViewIn
<1>4. Snap = [s \in Snapshots |-> None] /\ Iter = [i \in Iterators |-> None]
  BY DEF Init, Snap, Iter, SnapshotView, IteratorView
<1>5. lastSeq = 0 /\ got = None BY DEF Init
<1>6. Asked = Abstract!Idle /\ Since = {} BY DEF Init, Idle, Abstract!Idle, Asked, Since
<1>7. QED BY <1>3, <1>4, <1>5, <1>6 DEF Abstract!KInit, Kv, Snap, Iter, Asked, Since

\* Under a pool thread's write that overlaps no making of an iterator, the
\* store answers as KVStore does: a batch appears at once, a Get shows a map of
\* the time of its call, a snapshot and an iterator keep the map they were made
\* with, and no flush, compaction or memtable switch is seen.
THEOREM Refines == ASSUME NoWriteWhileMaking PROVE Spec => ImplementsKVStore
<1>1. Init => AnswersOK
  <2>1. Idle.op = "idle" BY DEF Idle
  <2>2. QED BY <2>1 DEF Init, AnswersOK, OverlapOK, LatestOK, NamedOK, MadeOK
<1>2. Inv /\ AnswersOK /\ [Next]_vars => AnswersOK' BY AnswersStep
<1>3. Inv /\ AnswersOK /\ Inv' /\ [Next]_vars => [Abstract!KNext]_(Abstract!kvars)
  <2> SUFFICES ASSUME Inv, AnswersOK, Inv', [Next]_vars
               PROVE  Abstract!KNext \/ UNCHANGED Abstract!kvars
    OBVIOUS
  <2>1. CASE Next BY <2>1, SeenStep, SeenStutters
  <2>2. CASE UNCHANGED vars
    <3>1. UNCHANGED <<lastSeq, call, got, SuperVersion, table, snapshots, iters>>
      BY <2>2 DEF vars, SuperVersion
    <3>2. SeenIn /\ SeenIn'
      <4>1. Inv' => SeenIn' BY SeenNow, PTL
      <4>2. QED BY SeenNow, <4>1
    <3>3. UNCHANGED Kv BY <3>1, <3>2 DEF SeenIn
    <3>4. UNCHANGED Snap
      <4>1. \A s \in Snapshots : Snap'[s] = Snap[s] BY <3>1, <3>2 DEF SeenIn
      <4>2. Snap' = [s \in Snapshots |-> Snap'[s]] /\ Snap = [s \in Snapshots |-> Snap[s]]
        BY DEF Snap
      <4>3. QED BY <4>1, <4>2
    <3>5. UNCHANGED Iter
      <4>1. \A i \in Iterators : Iter'[i] = Iter[i] BY <3>1, <3>2 DEF SeenIn
      <4>2. Iter' = [i \in Iterators |-> Iter'[i]] /\ Iter = [i \in Iterators |-> Iter[i]]
        BY DEF Iter
      <4>3. QED BY <4>1, <4>2
    <3>6. UNCHANGED <<Asked, Since>> BY <3>1 DEF Asked, Since
    <3>7. QED BY <3>1, <3>3, <3>4, <3>5, <3>6, SeenStutters DEF Seen
  <2>3. QED BY <2>1, <2>2
<1>4. QED BY <1>1, <1>2, <1>3, SeenInit, Invariance, PTL DEF Spec, ImplementsKVStore, Abstract!KSpec

\* Then an iterator made without a snapshot shows a map there was while it was
\* being made: the run Mvcc_iterator_race violates it only by a write that
\* overlaps the making.
THEOREM IteratorsShowTheirTime ==
  ASSUME NoWriteWhileMaking PROVE Spec => IteratorsShowAMapThatWas
<1> DEFINE Shows == \A i \in Iterators :
      iters'[i] # None /\ iters'[i] # iters[i] /\ ~iters'[i].explicit =>
        IteratorView(i)' \in call.since
<1>1. Init => AnswersOK
  <2>1. Idle.op = "idle" BY DEF Idle
  <2>2. QED BY <2>1 DEF Init, AnswersOK, OverlapOK, LatestOK, NamedOK, MadeOK
<1>2. Inv /\ AnswersOK /\ [Next]_vars => AnswersOK' BY AnswersStep
<1>3. Inv /\ AnswersOK /\ Inv' /\ [Next]_vars => [Shows]_vars
  <2> SUFFICES ASSUME Inv, AnswersOK, Inv', Next PROVE Shows OBVIOUS
  <2>1. iters \in [Iterators -> IteratorStates \cup {None}] BY DEF Inv, ItersOK
  <2>2. ASSUME IteratorReferences PROVE Shows
    <3>1. /\ \A j \in Iterators : j # call.iter => iters'[j] = iters[j]
          /\ iters'[call.iter].explicit = (call.at # None)
          /\ Iter'[call.iter] \in Given
      BY <2>2, IteratorMade
    <3>2. \A i \in Iterators : Iter'[i] = IteratorView(i)' BY DEF Iter
    <3>3. call.at = None => Given = call.since BY DEF Given, Asked, Since
    <3>4. ASSUME NEW i \in Iterators, iters'[i] # iters[i], ~iters'[i].explicit
          PROVE  IteratorView(i)' \in call.since
      <4>1. i = call.iter BY <3>1, <3>4
      <4>2. call.at = None BY <3>1, <3>4, <4>1
      <4>3. Iter'[i] \in call.since BY <3>1, <3>3, <4>1, <4>2
      <4>4. QED BY <3>2, <4>3
    <3>5. QED BY <3>4
  <2>3. ASSUME NEW k \in Iterators, DeleteIterator(k) PROVE Shows
    <3>1. \A j \in Iterators : iters'[j] = IF j = k THEN None ELSE iters[j]
      BY <2>1, <2>3 DEF DeleteIterator
    <3>2. QED BY <3>1
  <2>4. iters' = iters => Shows OBVIOUS
  <2>5. JavaScript => \/ iters' = iters \/ IteratorReferences
                      \/ \E k \in Iterators : DeleteIterator(k)
    BY DEF JavaScript, WriteBegin, GetSnapshot, ReleaseSnapshot, GetBegin, Begin, GetReadsNumber,
       GetSearches, GetReturns, NewIteratorBegin, RefreshBegin
  <2>6. Writer => iters' = iters BY DEF Writer, Insert, Publish, WriteBegin
  <2>7. Background => iters' = iters
    BY DEF Background, SwitchMemtable, FlushBegin, FlushInstalls, CompactionBegin,
       CompactionInstalls
  <2> HIDE DEF Shows
  <2>8. QED BY <2>2, <2>3, <2>4, <2>5, <2>6, <2>7 DEF Next
<1>4. QED BY <1>1, <1>2, <1>3, Invariance, PTL DEF Spec, IteratorsShowAMapThatWas
=============================================================================
