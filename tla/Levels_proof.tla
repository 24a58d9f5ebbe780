---------------------------- MODULE Levels_proof -----------------------------
(***************************************************************************)
(* Theorems about a stack of levels: the sets of entries a read of the     *)
(* versioned store walks, newest level first (GetImpl and NewInternal-     *)
(* Iterator, db/db_impl/db_impl.cc).  L[1] .. L[p] are the mutable         *)
(* memtable, the immutable ones and the sorted runs of files.              *)
(***************************************************************************)
EXTENDS Versions_proof

\* The entries of the levels from a to b.
Between(L, a, b) == UNION {L[i] : i \in a .. b}

\* The levels are ordered by age, and none holds two versions with one number.
Newer(A, B) == \A e \in A, f \in B : e.key = f.key => f.seq < e.seq
Sound(K, p, L) ==
  /\ L \in [1 .. p -> SUBSET EntriesOf(K)]
  /\ \A i, j \in 1 .. p : i < j => Newer(L[i], L[j])
  /\ \A i \in 1 .. p : Unique(L[i])

-----------------------------------------------------------------------------
(***************************************************************************)
(* Two sets of entries.                                                    *)
(***************************************************************************)

\* A set above another one: numbers stay different.
LEMMA UnionUnique ==
  ASSUME NEW K, NEW A \in SUBSET EntriesOf(K), NEW B \in SUBSET EntriesOf(K),
         Unique(A), Unique(B), Newer(A, B)
  PROVE  Unique(A \cup B)
<1>1. \A e \in A \cup B : e.seq \in Nat BY DEF EntriesOf
<1>2. \A e \in A, f \in B : ~(e.key = f.key /\ e.seq = f.seq) BY <1>1 DEF Newer
<1>3. QED BY <1>2 DEF Unique

\* Entries that a read does not see change nothing of what it finds.
LEMMA LookupInvisible ==
  ASSUME NEW K, NEW E \in SUBSET EntriesOf(K), NEW F \in SUBSET EntriesOf(K),
         E \subseteq F, Unique(F), NEW k, NEW n \in Nat,
         \A e \in F : VisibleAt(e, k, n) => e \in E
  PROVE  Lookup(F, k, n) = Lookup(E, k, n)
<1>1. CASE ~\E e \in E : VisibleAt(e, k, n)
  <2>1. ~\E e \in F : VisibleAt(e, k, n) BY <1>1
  <2>2. QED BY <1>1, <2>1 DEF Lookup
<1>2. CASE \E e \in E : VisibleAt(e, k, n)
  <2>1. PICK a \in E : Finds(E, a, k, n) BY <1>2, SomethingFound
  <2>2. VisibleAt(a, k, n) /\ \A f \in E : VisibleAt(f, k, n) => f.seq <= a.seq
    BY <2>1 DEF Finds
  <2>3. \A e \in F : e.seq \in Nat BY DEF EntriesOf
  <2>4. ASSUME NEW e \in F, VisibleAt(e, k, n), a.seq <= e.seq PROVE e = a
    <3>1. e \in E /\ e.seq <= a.seq BY <2>2, <2>4
    <3>2. e.seq = a.seq BY <2>3, <2>4, <3>1
    <3>3. e.key = a.key BY <2>2, <2>4 DEF VisibleAt
    <3>4. QED BY <3>1, <3>2, <3>3 DEF Unique
  <2>5. \A e \in E : Finds(E, e, k, n) => e.val = a.val BY <2>2, <2>4 DEF Finds
  <2>6. \A e \in F : Finds(F, e, k, n) => e.val = a.val BY <2>2, <2>4 DEF Finds
  <2>7. \E e \in F : VisibleAt(e, k, n) BY <1>2
  <2>8. Lookup(E, k, n) = a.val BY <1>2, <2>5, LookupFinds
  <2>9. Lookup(F, k, n) = a.val BY <2>6, <2>7, LookupFinds
  <2>10. QED BY <2>8, <2>9
<1>3. QED BY <1>1, <1>2

\* A read of newer entries on top of older ones: the newer ones decide when
\* one of them is visible.
LEMMA LookupNewer ==
  ASSUME NEW K, NEW A \in SUBSET EntriesOf(K), NEW B \in SUBSET EntriesOf(K),
         Unique(A), Newer(A, B), NEW k, NEW n \in Nat,
         \E e \in A : VisibleAt(e, k, n)
  PROVE  Lookup(A \cup B, k, n) = Lookup(A, k, n)
<1> DEFINE F == A \cup B
<1>0. F \in SUBSET EntriesOf(K) OBVIOUS
<1>1. PICK a \in A : Finds(A, a, k, n) BY SomethingFound
<1>2. VisibleAt(a, k, n) /\ \A f \in A : VisibleAt(f, k, n) => f.seq <= a.seq
  BY <1>1 DEF Finds
<1>3. \A e \in F : e.seq \in Nat BY DEF EntriesOf
<1>4. ASSUME NEW e \in A, VisibleAt(e, k, n), a.seq <= e.seq PROVE e = a
  <2>1. e.seq = a.seq BY <1>2, <1>3, <1>4
  <2>2. e.key = a.key BY <1>2, <1>4 DEF VisibleAt
  <2>3. QED BY <2>1, <2>2 DEF Unique
<1>5. ASSUME NEW e \in B, VisibleAt(e, k, n), a.seq <= e.seq PROVE FALSE
  <2>1. e.key = a.key BY <1>2, <1>5 DEF VisibleAt
  <2>2. e.seq < a.seq BY <2>1 DEF Newer
  <2>3. QED BY <1>3, <1>5, <2>2
<1>6. \A e \in A : Finds(A, e, k, n) => e.val = a.val BY <1>2, <1>4 DEF Finds
<1>7. \A e \in F : Finds(F, e, k, n) => e.val = a.val BY <1>2, <1>4, <1>5 DEF Finds
<1>8. \E e \in F : VisibleAt(e, k, n) OBVIOUS
<1>9. Lookup(A, k, n) = a.val BY <1>6, LookupFinds
<1>10. Lookup(F, k, n) = a.val
  <2> HIDE DEF F
  <2>1. QED BY <1>0, <1>7, <1>8, LookupFinds
<1>11. QED BY <1>9, <1>10

-----------------------------------------------------------------------------
(***************************************************************************)
(* A stack of levels.                                                      *)
(***************************************************************************)

\* Sound speaks of the levels only.
LEMMA SameSound ==
  ASSUME NEW K, NEW p, NEW L, NEW M, Sound(K, p, L),
         M \in [1 .. p -> SUBSET EntriesOf(K)], \A i \in 1 .. p : M[i] = L[i]
  PROVE  Sound(K, p, M) /\ Between(M, 1, p) = Between(L, 1, p)
<1>1. Sound(K, p, M) BY DEF Sound
<1>2. QED BY <1>1 DEF Between

\* What some levels hold are entries,
LEMMA BetweenType ==
  ASSUME NEW K, NEW p \in Nat, NEW L, Sound(K, p, L),
         NEW a \in Nat, NEW b \in Nat, 1 <= a, b <= p
  PROVE  Between(L, a, b) \in SUBSET EntriesOf(K)
<1>1. \A i \in a .. b : i \in 1 .. p OBVIOUS
<1>2. \A i \in a .. b : L[i] \in SUBSET EntriesOf(K) BY <1>1 DEF Sound
<1>3. QED BY <1>2 DEF Between

\* with different numbers.
LEMMA BetweenUnique ==
  ASSUME NEW K, NEW p \in Nat, NEW L, Sound(K, p, L),
         NEW a \in Nat, NEW b \in Nat, 1 <= a, b <= p
  PROVE  Unique(Between(L, a, b))
<1> SUFFICES ASSUME NEW e \in Between(L, a, b), NEW f \in Between(L, a, b),
                    e.key = f.key, e.seq = f.seq
             PROVE  e = f
  BY DEF Unique
<1>1. PICK i \in a .. b : e \in L[i] BY DEF Between
<1>2. PICK j \in a .. b : f \in L[j] BY DEF Between
<1>3. i \in 1 .. p /\ j \in 1 .. p OBVIOUS
<1>4. e.seq \in Nat /\ f.seq \in Nat
  <2>1. e \in EntriesOf(K) /\ f \in EntriesOf(K) BY BetweenType
  <2>2. QED BY <2>1 DEF EntriesOf
<1>5. CASE i = j BY <1>1, <1>2, <1>3, <1>5 DEF Sound, Unique
<1>6. CASE i < j
  <2>1. Newer(L[i], L[j]) BY <1>3, <1>6 DEF Sound
  <2>2. f.seq < e.seq BY <1>1, <1>2, <2>1 DEF Newer
  <2>3. QED BY <1>4, <2>2
<1>7. CASE j < i
  <2>1. Newer(L[j], L[i]) BY <1>3, <1>7 DEF Sound
  <2>2. e.seq < f.seq BY <1>1, <1>2, <2>1 DEF Newer
  <2>3. QED BY <1>4, <2>2
<1>8. QED BY <1>3, <1>5, <1>6, <1>7

\* Higher segments are newer than lower ones.
LEMMA BetweenNewer ==
  ASSUME NEW K, NEW p \in Nat, NEW L, Sound(K, p, L),
         NEW a \in Nat, NEW b \in Nat, NEW c \in Nat, NEW d \in Nat,
         1 <= a, b < c, d <= p
  PROVE  Newer(Between(L, a, b), Between(L, c, d))
<1> SUFFICES ASSUME NEW e \in Between(L, a, b), NEW f \in Between(L, c, d), e.key = f.key
             PROVE  f.seq < e.seq
  BY DEF Newer
<1>1. PICK i \in a .. b : e \in L[i] BY DEF Between
<1>2. PICK j \in c .. d : f \in L[j] BY DEF Between
<1>3. i \in 1 .. p /\ j \in 1 .. p /\ i < j OBVIOUS
<1>4. Newer(L[i], L[j]) BY <1>3 DEF Sound
<1>5. QED BY <1>1, <1>2, <1>4 DEF Newer

\* A range of levels in two.
LEMMA BetweenSplit ==
  ASSUME NEW L, NEW a \in Nat, NEW b \in Nat, NEW c \in Nat, a <= b + 1, b <= c
  PROVE  Between(L, a, c) = Between(L, a, b) \cup Between(L, b + 1, c)
<1>1. a .. c = (a .. b) \cup (b + 1 .. c) OBVIOUS
<1>2. QED BY <1>1 DEF Between

\* GetFrom: a read stops at the first level with a visible version of the key.
Found(p, L, k, n) ==
  LET holds == {i \in 1 .. p : \E e \in L[i] : VisibleAt(e, k, n)}
  IN IF holds = {} THEN Deleted
     ELSE Lookup(L[CHOOSE i \in holds : \A j \in holds : i <= j], k, n)

\* It need not look further down: it finds what a read of all levels finds.
THEOREM FirstLevelDecides ==
  ASSUME NEW K, NEW p \in Nat, NEW L, Sound(K, p, L), NEW k, NEW n \in Nat
  PROVE  Found(p, L, k, n) = Lookup(Between(L, 1, p), k, n)
<1> DEFINE A == Between(L, 1, p)
           holds == {i \in 1 .. p : \E e \in L[i] : VisibleAt(e, k, n)}
           c == CHOOSE i \in holds : \A j \in holds : i <= j
<1>1. \A e : e \in A <=> \E i \in 1 .. p : e \in L[i] BY DEF Between
<1>2. A \in SUBSET EntriesOf(K) /\ Unique(A) BY BetweenType, BetweenUnique
<1>3. CASE holds = {}
  <2>1. ~\E e \in A : VisibleAt(e, k, n) BY <1>1, <1>3
  <2>2. Lookup(A, k, n) = Deleted BY <2>1 DEF Lookup
  <2>3. QED BY <1>3, <2>2 DEF Found
<1>4. CASE holds # {}
  <2>1. holds \subseteq Nat OBVIOUS
  <2>2. \E i \in holds : \A j \in holds : i <= j BY <1>4, <2>1, Least
  <2>3. c \in holds /\ \A j \in holds : c <= j BY <2>2
  <2>4. Found(p, L, k, n) = Lookup(L[c], k, n) BY <1>4 DEF Found
  <2> HIDE DEF c
  <2>5. c \in 1 .. p /\ L[c] \in SUBSET EntriesOf(K) /\ \E e \in L[c] : VisibleAt(e, k, n)
    BY <2>3 DEF Sound
  <2>6. PICK a \in L[c] : Finds(L[c], a, k, n) BY <2>5, SomethingFound
  <2>7. VisibleAt(a, k, n) /\ a \in A BY <1>1, <2>5, <2>6 DEF Finds
  <2>8. ASSUME NEW f \in A, VisibleAt(f, k, n) PROVE f.seq <= a.seq
    <3>1. PICK j \in 1 .. p : f \in L[j] BY <1>1
    <3>2. j \in holds BY <2>8, <3>1
    <3>3. c <= j BY <2>3, <3>2
    <3>4. a.key = f.key BY <2>7, <2>8 DEF VisibleAt
    <3>5. a.seq \in Nat /\ f.seq \in Nat BY <1>2, <2>7 DEF EntriesOf
    <3>6. CASE j = c BY <2>6, <2>8, <3>1, <3>6 DEF Finds
    <3>7. CASE c < j
      <4>1. Newer(L[c], L[j]) BY <2>5, <3>7 DEF Sound
      <4>2. f.seq < a.seq BY <3>1, <3>4, <4>1 DEF Newer
      <4>3. QED BY <3>5, <4>2
    <3>8. QED BY <2>5, <3>3, <3>6, <3>7
  <2>9. ASSUME NEW e \in A, VisibleAt(e, k, n), a.seq <= e.seq PROVE e = a
    <3>1. e.seq <= a.seq BY <2>8, <2>9
    <3>2. a.seq \in Nat /\ e.seq \in Nat BY <1>2, <2>7 DEF EntriesOf
    <3>3. e.seq = a.seq BY <2>9, <3>1, <3>2
    <3>4. e.key = a.key BY <2>7, <2>9 DEF VisibleAt
    <3>5. QED BY <1>2, <2>7, <3>3, <3>4 DEF Unique
  <2>10. \A e \in A : Finds(A, e, k, n) => e.val = a.val BY <2>7, <2>9 DEF Finds
  <2>11. \A e \in L[c] : Finds(L[c], e, k, n) => e.val = a.val
    BY <1>1, <2>5, <2>6, <2>7, <2>9 DEF Finds
  <2>12. Lookup(L[c], k, n) = a.val BY <2>5, <2>11, LookupFinds
  <2>13. Lookup(A, k, n) = a.val
    <3>1. \E e \in A : VisibleAt(e, k, n) BY <2>7
    <3> HIDE DEF A
    <3>2. QED BY <1>2, <2>10, <3>1, LookupFinds
  <2>14. QED BY <2>4, <2>12, <2>13
<1>5. QED BY <1>3, <1>4

-----------------------------------------------------------------------------
(***************************************************************************)
(* Writing into the top level.                                             *)
(***************************************************************************)

\* An entry newer than all others goes into the top level.
Topped(p, L, M, e) ==
  /\ p >= 1 /\ M[1] = L[1] \cup {e}
  /\ \A i \in 2 .. p : M[i] = L[i]

\* What the stack holds then.
LEMMA ToppedHolds ==
  ASSUME NEW p \in Nat, NEW L, NEW M, NEW e, Topped(p, L, M, e)
  PROVE  Between(M, 1, p) = Between(L, 1, p) \cup {e}
<1>1. 1 .. p = {1} \cup (2 .. p) BY DEF Topped
<1>2. QED BY <1>1 DEF Topped, Between

\* The levels stay ordered by age.
THEOREM ToppedSound ==
  ASSUME NEW K, NEW p \in Nat, NEW L, NEW M, NEW e \in EntriesOf(K), Sound(K, p, L),
         M \in [1 .. p -> SUBSET EntriesOf(K)], Topped(p, L, M, e),
         \A f \in Between(L, 1, p) : f.seq < e.seq
  PROVE  Sound(K, p, M)
<1>1. \A i \in 1 .. p : \A f \in L[i] : f.seq < e.seq BY DEF Between
<1>2. \A i \in 1 .. p : L[i] \in SUBSET EntriesOf(K) BY DEF Sound
<1>3. 1 \in 1 .. p BY DEF Topped
<1>4. \A i \in 1 .. p : i # 1 => M[i] = L[i]
  <2>1. \A i \in 1 .. p : i # 1 => i \in 2 .. p OBVIOUS
  <2>2. QED BY <2>1 DEF Topped
<1>5. ASSUME NEW i \in 1 .. p, NEW j \in 1 .. p, i < j PROVE Newer(M[i], M[j])
  <2>1. j # 1 BY <1>5
  <2>2. Newer(L[i], L[j]) BY <1>5 DEF Sound
  <2>3. CASE i = 1
    <3>1. M[i] = L[i] \cup {e} BY <2>3 DEF Topped
    <3>2. QED BY <1>1, <1>4, <2>1, <2>2, <3>1 DEF Newer
  <2>4. CASE i # 1 BY <1>4, <2>1, <2>2, <2>4
  <2>5. QED BY <2>3, <2>4
<1>6. ASSUME NEW i \in 1 .. p PROVE Unique(M[i])
  <2>1. Unique(L[i]) BY DEF Sound
  <2>2. CASE i = 1
    <3>1. M[i] = {e} \cup L[i] BY <2>2 DEF Topped
    <3>2. Unique({e}) /\ Newer({e}, L[i]) BY <1>1 DEF Unique, Newer
    <3>3. {e} \in SUBSET EntriesOf(K) OBVIOUS
    <3>4. QED BY <1>2, <2>1, <3>1, <3>2, <3>3, UnionUnique
  <2>3. CASE i # 1 BY <1>4, <2>1, <2>3
  <2>4. QED BY <2>2, <2>3
<1>7. QED BY <1>5, <1>6 DEF Sound

\* No read at an older number sees it.
THEOREM ToppedInvisible ==
  ASSUME NEW K, NEW p \in Nat, NEW L, NEW M, NEW e \in EntriesOf(K), Sound(K, p, L),
         M \in [1 .. p -> SUBSET EntriesOf(K)], Topped(p, L, M, e),
         \A f \in Between(L, 1, p) : f.seq < e.seq,
         NEW k, NEW n \in Nat, n < e.seq
  PROVE  Lookup(Between(M, 1, p), k, n) = Lookup(Between(L, 1, p), k, n)
<1> DEFINE A == Between(L, 1, p)
           B == Between(M, 1, p)
<1>1. Sound(K, p, M) BY ToppedSound
<1>2. A \in SUBSET EntriesOf(K) /\ B \in SUBSET EntriesOf(K) /\ Unique(B)
  BY <1>1, BetweenType, BetweenUnique
<1>3. B = A \cup {e} BY ToppedHolds
<1>4. e.seq \in Nat BY DEF EntriesOf
<1>5. \A f \in B : VisibleAt(f, k, n) => f \in A BY <1>3, <1>4 DEF VisibleAt
<1>6. A \subseteq B BY <1>3
<1> HIDE DEF A, B
<1>7. Lookup(B, k, n) = Lookup(A, k, n) BY <1>2, <1>5, <1>6, LookupInvisible
<1>8. QED BY <1>7 DEF A, B

\* A new, empty memtable on top.
Pushed(p, L, M) == M[1] = {} /\ \A i \in 1 .. p : M[i + 1] = L[i]

\* SwitchMemtable: the levels stay ordered by age and hold the same entries.
THEOREM PushedSound ==
  ASSUME NEW K, NEW p \in Nat, NEW L, NEW q, q = p + 1, NEW M, Sound(K, p, L),
         M \in [1 .. q -> SUBSET EntriesOf(K)], Pushed(p, L, M)
  PROVE  Sound(K, q, M) /\ Between(M, 1, q) = Between(L, 1, p)
<1>1. \A i \in 1 .. q : i = 1 \/ (i - 1 \in 1 .. p /\ M[i] = L[i - 1])
  <2>1. ASSUME NEW i \in 1 .. q, i # 1 PROVE i - 1 \in 1 .. p /\ M[i] = L[i - 1]
    <3>1. i - 1 \in 1 .. p /\ (i - 1) + 1 = i BY <2>1
    <3>2. M[(i - 1) + 1] = L[i - 1] BY <3>1 DEF Pushed
    <3>3. QED BY <3>1, <3>2
  <2>2. QED BY <2>1
<1>2. M[1] = {} BY DEF Pushed
<1>3. ASSUME NEW i \in 1 .. q, NEW j \in 1 .. q, i < j PROVE Newer(M[i], M[j])
  <2>1. CASE i = 1 BY <1>2, <2>1 DEF Newer
  <2>2. CASE i # 1
    <3>1. i - 1 \in 1 .. p /\ M[i] = L[i - 1] BY <1>1, <2>2
    <3>2. j # 1 BY <1>3, <2>2
    <3>3. j - 1 \in 1 .. p /\ M[j] = L[j - 1] BY <1>1, <3>2
    <3>4. i - 1 < j - 1 BY <1>3
    <3>5. Newer(L[i - 1], L[j - 1]) BY <3>1, <3>3, <3>4 DEF Sound
    <3>6. QED BY <3>1, <3>3, <3>5
  <2>3. QED BY <2>1, <2>2
<1>4. ASSUME NEW i \in 1 .. q PROVE Unique(M[i])
  <2>1. CASE i = 1 BY <1>2, <2>1 DEF Unique
  <2>2. CASE i # 1
    <3>1. i - 1 \in 1 .. p /\ M[i] = L[i - 1] BY <1>1, <2>2
    <3>2. QED BY <3>1 DEF Sound
  <2>3. QED BY <2>1, <2>2
<1>5. Sound(K, q, M) BY <1>3, <1>4 DEF Sound
<1>6. ASSUME NEW e PROVE e \in Between(M, 1, q) <=> e \in Between(L, 1, p)
  <2>1. ASSUME NEW i \in 1 .. q, e \in M[i] PROVE \E j \in 1 .. p : e \in L[j]
    <3>1. i # 1 BY <1>2, <2>1
    <3>2. i - 1 \in 1 .. p /\ M[i] = L[i - 1] BY <1>1, <3>1
    <3>3. QED BY <2>1, <3>2
  <2>2. ASSUME NEW j \in 1 .. p, e \in L[j] PROVE \E i \in 1 .. q : e \in M[i]
    <3>1. j + 1 \in 1 .. q /\ M[j + 1] = L[j] BY DEF Pushed
    <3>2. QED BY <2>2, <3>1
  <2>3. QED BY <2>1, <2>2 DEF Between
<1>7. QED BY <1>5, <1>6

-----------------------------------------------------------------------------
(***************************************************************************)
(* Publishing a batch.                                                     *)
(***************************************************************************)

\* A read finds the same at two numbers that no version of the key lies between.
LEMMA LookupSame ==
  ASSUME NEW K, NEW E \in SUBSET EntriesOf(K), Unique(E), NEW k,
         NEW m \in Nat, NEW n \in Nat,
         \A e \in E : VisibleAt(e, k, m) <=> VisibleAt(e, k, n)
  PROVE  Lookup(E, k, m) = Lookup(E, k, n)
<1>1. CASE ~\E e \in E : VisibleAt(e, k, n) BY <1>1 DEF Lookup
<1>2. CASE \E e \in E : VisibleAt(e, k, n)
  <2>1. PICK a \in E : Finds(E, a, k, n) BY <1>2, SomethingFound
  <2>2. VisibleAt(a, k, n) /\ VisibleAt(a, k, m) BY <2>1 DEF Finds
  <2>3. ASSUME NEW e \in E, VisibleAt(e, k, n), a.seq <= e.seq PROVE e = a
    <3>1. e.seq <= a.seq BY <2>1, <2>3 DEF Finds
    <3>2. e.seq \in Nat /\ a.seq \in Nat BY DEF EntriesOf
    <3>3. e.seq = a.seq /\ e.key = a.key BY <2>2, <2>3, <3>1, <3>2 DEF VisibleAt
    <3>4. QED BY <3>3 DEF Unique
  <2>4. \A e \in E : Finds(E, e, k, n) => e.val = a.val BY <2>2, <2>3 DEF Finds
  <2>5. \A e \in E : Finds(E, e, k, m) => e.val = a.val BY <2>2, <2>3 DEF Finds
  <2>6. Lookup(E, k, n) = a.val BY <1>2, <2>4, LookupFinds
  <2>7. \E e \in E : VisibleAt(e, k, m) BY <2>2
  <2>8. Lookup(E, k, m) = a.val BY <2>5, <2>7, LookupFinds
  <2>9. QED BY <2>6, <2>8
<1>3. QED BY <1>1, <1>2

\* A version that is visible and the newest one is what a read finds.
LEMMA LookupNewest ==
  ASSUME NEW K, NEW E \in SUBSET EntriesOf(K), Unique(E), NEW k, NEW n \in Nat,
         NEW a \in E, VisibleAt(a, k, n), \A f \in E : VisibleAt(f, k, n) => f.seq <= a.seq
  PROVE  Lookup(E, k, n) = a.val
<1>1. ASSUME NEW e \in E, VisibleAt(e, k, n), a.seq <= e.seq PROVE e = a
  <2>1. e.seq <= a.seq BY <1>1
  <2>2. e.seq \in Nat /\ a.seq \in Nat BY DEF EntriesOf
  <2>3. e.seq = a.seq /\ e.key = a.key BY <1>1, <2>1, <2>2 DEF VisibleAt
  <2>4. QED BY <2>3 DEF Unique
<1>2. \A e \in E : Finds(E, e, k, n) => e.val = a.val BY <1>1 DEF Finds
<1>3. \E e \in E : VisibleAt(e, k, n) OBVIOUS
<1>4. QED BY <1>2, <1>3, LookupFinds

\* Update number i of a batch that follows the number n.
Update(ops, i, n) == [key |-> ops[i].key, seq |-> n + i,
                      val |-> IF ops[i].del THEN Deleted ELSE n + i]

\* The entries of E newer than n are the first d updates of the batch.
Inserted(E, ops, d, n) ==
  /\ \A e \in E : e.seq > n => \E i \in 1 .. d : e = Update(ops, i, n)
  /\ \A i \in 1 .. d : Update(ops, i, n) \in E

\* Publishing moves a read over the whole batch: the last update of a key
\* decides, and a key without one reads as before.
THEOREM PublishedUntouched ==
  ASSUME NEW K, NEW E \in SUBSET EntriesOf(K), Unique(E), NEW ops, NEW d \in Nat,
         NEW n \in Nat, Inserted(E, ops, d, n), NEW k, \A i \in 1 .. d : ops[i].key # k
  PROVE  Lookup(E, k, n + d) = Lookup(E, k, n)
<1>1. ASSUME NEW e \in E, e.key = k PROVE e.seq <= n
  <2>1. SUFFICES ASSUME e.seq > n PROVE FALSE BY DEF EntriesOf
  <2>2. PICK i \in 1 .. d : e = Update(ops, i, n) BY <2>1 DEF Inserted
  <2>3. QED BY <1>1, <2>2 DEF Update
<1>2. \A e \in E : e.seq \in Nat BY DEF EntriesOf
<1>3. \A e \in E : VisibleAt(e, k, n + d) <=> VisibleAt(e, k, n) BY <1>1, <1>2 DEF VisibleAt
<1>4. n + d \in Nat OBVIOUS
<1>5. QED BY <1>3, <1>4, LookupSame

\* The last update of a key decides what a read at the batch's last number finds.
THEOREM PublishedLast ==
  ASSUME NEW K, NEW E \in SUBSET EntriesOf(K), Unique(E), NEW ops, NEW d \in Nat,
         NEW n \in Nat, Inserted(E, ops, d, n), NEW k, NEW i \in 1 .. d, ops[i].key = k,
         \A j \in 1 .. d : ops[j].key = k => j <= i
  PROVE  Lookup(E, k, n + d) = IF ops[i].del THEN Deleted ELSE n + i
<1> DEFINE a == Update(ops, i, n)
<1>1. a \in E BY DEF Inserted
<1>2. a.key = k /\ a.seq = n + i /\ a.val = (IF ops[i].del THEN Deleted ELSE n + i)
  BY DEF Update
<1>3. VisibleAt(a, k, n + d) BY <1>2 DEF VisibleAt
<1>4. ASSUME NEW f \in E, VisibleAt(f, k, n + d) PROVE f.seq <= n + i
  <2>1. f.seq \in Nat /\ f.key = k BY <1>4 DEF EntriesOf, VisibleAt
  <2>2. CASE f.seq > n
    <3>1. PICK j \in 1 .. d : f = Update(ops, j, n) BY <2>2 DEF Inserted
    <3>2. f.key = ops[j].key /\ f.seq = n + j BY <3>1 DEF Update
    <3>3. j <= i BY <2>1, <3>2
    <3>4. QED BY <3>2, <3>3
  <2>3. CASE ~(f.seq > n) BY <2>1, <2>3
  <2>4. QED BY <2>2, <2>3
<1>5. n + d \in Nat OBVIOUS
<1> HIDE DEF a
<1>6. Lookup(E, k, n + d) = a.val BY <1>1, <1>2, <1>3, <1>4, <1>5, LookupNewest
<1>7. QED BY <1>2, <1>6

-----------------------------------------------------------------------------
(***************************************************************************)
(* Rewriting a segment of the stack: a flush or a compaction takes the     *)
(* levels from a + 1 to b away and puts at most one level in their place.  *)
(***************************************************************************)

\* x is the number of levels put in, R their entries.
Spliced(p, L, q, M, a, b, x, R) ==
  /\ a <= b /\ b <= p /\ x \in {0, 1} /\ q = a + x + (p - b)
  /\ \A i \in 1 .. a : M[i] = L[i]
  /\ IF x = 1 THEN M[a + 1] = R ELSE R = {}
  /\ \A i \in 1 .. p - b : M[(a + x) + i] = L[b + i]

\* Where a level of the new stack comes from.
Origin(p, L, M, a, b, x, R, i) ==
  \/ i \in 1 .. a /\ M[i] = L[i]
  \/ x = 1 /\ i = a + 1 /\ M[i] = R
  \/ i > a + x /\ i - (a + x) \in 1 .. p - b /\ M[i] = L[b + (i - (a + x))]

\* Every level of the new stack has one.
LEMMA Origins ==
  ASSUME NEW p \in Nat, NEW L, NEW q \in Nat, NEW M, NEW a \in Nat, NEW b \in Nat, NEW x, NEW R,
         Spliced(p, L, q, M, a, b, x, R)
  PROVE  \A i \in 1 .. q : Origin(p, L, M, a, b, x, R, i)
<1> SUFFICES ASSUME NEW i \in 1 .. q PROVE Origin(p, L, M, a, b, x, R, i)
  OBVIOUS
<1>1. /\ a <= b /\ b <= p /\ x \in {0, 1} /\ q = a + x + (p - b)
      /\ \A j \in 1 .. a : M[j] = L[j]
      /\ IF x = 1 THEN M[a + 1] = R ELSE R = {}
      /\ \A j \in 1 .. p - b : M[(a + x) + j] = L[b + j]
  BY DEF Spliced
<1>2. CASE i <= a BY <1>1, <1>2 DEF Origin
<1>3. CASE i = a + 1 /\ x = 1 BY <1>1, <1>3 DEF Origin
<1>4. CASE i > a + x
  <2>1. i - (a + x) \in 1 .. p - b /\ (a + x) + (i - (a + x)) = i BY <1>1, <1>4
  <2>2. M[(a + x) + (i - (a + x))] = L[b + (i - (a + x))] BY <1>1, <2>1
  <2>3. QED BY <1>4, <2>1, <2>2 DEF Origin
<1>5. i <= a \/ (i = a + 1 /\ x = 1) \/ i > a + x BY <1>1
<1>6. QED BY <1>2, <1>3, <1>4, <1>5

\* The entries of the new stack: the newer levels, the output, the older ones.
LEMMA SplicedHolds ==
  ASSUME NEW p \in Nat, NEW L, NEW q \in Nat, NEW M, NEW a \in Nat, NEW b \in Nat, NEW x, NEW R,
         Spliced(p, L, q, M, a, b, x, R)
  PROVE  Between(M, 1, q) = Between(L, 1, a) \cup (R \cup Between(L, b + 1, p))
<1>1. /\ a <= b /\ b <= p /\ x \in {0, 1} /\ q = a + x + (p - b)
      /\ \A j \in 1 .. a : M[j] = L[j]
      /\ IF x = 1 THEN M[a + 1] = R ELSE R = {}
      /\ \A j \in 1 .. p - b : M[(a + x) + j] = L[b + j]
  BY DEF Spliced
<1>2. ASSUME NEW e, e \in Between(M, 1, q)
      PROVE  e \in Between(L, 1, a) \cup (R \cup Between(L, b + 1, p))
  <2>1. PICK i \in 1 .. q : e \in M[i] BY <1>2 DEF Between
  <2>2. CASE i \in 1 .. a /\ M[i] = L[i] BY <2>1, <2>2 DEF Between
  <2>3. CASE M[i] = R BY <2>1, <2>3
  <2>4. CASE i - (a + x) \in 1 .. p - b /\ M[i] = L[b + (i - (a + x))]
    <3>1. b + (i - (a + x)) \in b + 1 .. p BY <1>1, <2>4
    <3>2. QED BY <2>1, <2>4, <3>1 DEF Between
  <2>5. Origin(p, L, M, a, b, x, R, i) BY Origins
  <2>6. QED BY <2>2, <2>3, <2>4, <2>5 DEF Origin
<1>3. ASSUME NEW e, e \in Between(L, 1, a) PROVE e \in Between(M, 1, q)
  <2>1. PICK i \in 1 .. a : e \in L[i] BY <1>3 DEF Between
  <2>2. i \in 1 .. q /\ M[i] = L[i] BY <1>1
  <2>3. QED BY <2>1, <2>2 DEF Between
<1>4. ASSUME NEW e, e \in R PROVE e \in Between(M, 1, q)
  <2>1. x = 1 /\ M[a + 1] = R BY <1>1, <1>4
  <2>2. a + 1 \in 1 .. q BY <1>1, <2>1
  <2>3. QED BY <1>4, <2>1, <2>2 DEF Between
<1>5. ASSUME NEW e, e \in Between(L, b + 1, p) PROVE e \in Between(M, 1, q)
  <2>1. PICK j \in b + 1 .. p : e \in L[j] BY <1>5 DEF Between
  <2>2. j - b \in 1 .. p - b /\ b + (j - b) = j /\ (a + x) + (j - b) \in 1 .. q BY <1>1
  <2>3. M[(a + x) + (j - b)] = L[b + (j - b)] BY <1>1, <2>2
  <2>4. e \in M[(a + x) + (j - b)] BY <2>1, <2>2, <2>3
  <2>5. QED BY <2>2, <2>4 DEF Between
<1>6. QED BY <1>2, <1>3, <1>4, <1>5

\* A job on the levels a + 1 .. b: what it is told of the levels below is true,
\* and only one that has nothing below works on the last level.
LevelJob(p, L, a, b, S, beyond, bottom) ==
  /\ S \subseteq Nat /\ bottom \in BOOLEAN /\ (bottom => b = p)
  /\ \A f \in Between(L, b + 1, p) : f.key \in beyond

\* The output of the job is older than what lies above and newer than what lies
\* below, as its input was.
LEMMA OutputBetween ==
  ASSUME NEW K, NEW E \in SUBSET EntriesOf(K), NEW S, NEW beyond, NEW bottom \in BOOLEAN,
         NEW N \in SUBSET EntriesOf(K), NEW O \in SUBSET EntriesOf(K),
         Newer(N, E), Newer(E, O), bottom => O = {}
  PROVE  /\ Newer(N, Rewrite(E, S, beyond, bottom))
         /\ Newer(Rewrite(E, S, beyond, bottom), O)
<1> DEFINE R == Rewrite(E, S, beyond, bottom)
<1>1. ASSUME NEW r \in R
      PROVE  \E e \in E : r.key = e.key /\ r.seq <= e.seq /\ (r = e \/ bottom)
             /\ r.seq \in Nat /\ e.seq \in Nat
  <2>1. PICK e \in E : r.key = e.key /\ r.seq <= e.seq /\ (r = e \/ bottom)
    BY OutputFrom
  <2>2. r \in EntriesOf(K) BY OutputType
  <2>3. r.seq \in Nat /\ e.seq \in Nat BY <2>2 DEF EntriesOf
  <2>4. QED BY <2>1, <2>3
<1> HIDE DEF R
<1>2. ASSUME NEW m \in N, NEW r \in R, m.key = r.key PROVE r.seq < m.seq
  <2>1. PICK e \in E : r.key = e.key /\ r.seq <= e.seq /\ r.seq \in Nat /\ e.seq \in Nat
    BY <1>1
  <2>2. e.seq < m.seq /\ m.seq \in Nat BY <1>2, <2>1 DEF Newer, EntriesOf
  <2>3. QED BY <2>1, <2>2
<1>3. ASSUME NEW r \in R, NEW f \in O, r.key = f.key PROVE f.seq < r.seq
  <2>1. PICK e \in E : r.key = e.key /\ r = e BY <1>1, <1>3
  <2>2. QED BY <1>3, <2>1 DEF Newer
<1>4. QED BY <1>2, <1>3 DEF Newer, R

\* Levels stay ordered by age.
THEOREM SplicedSound ==
  ASSUME NEW K, NEW p \in Nat, NEW L, NEW q \in Nat, NEW M, NEW a \in Nat, NEW b \in Nat,
         NEW x, NEW S, NEW beyond, NEW bottom, Sound(K, p, L),
         M \in [1 .. q -> SUBSET EntriesOf(K)],
         LevelJob(p, L, a, b, S, beyond, bottom),
         Spliced(p, L, q, M, a, b, x, Rewrite(Between(L, a + 1, b), S, beyond, bottom))
  PROVE  Sound(K, q, M)
<1> DEFINE N == Between(L, 1, a)
           E == Between(L, a + 1, b)
           O == Between(L, b + 1, p)
           R == Rewrite(E, S, beyond, bottom)
<1>1. a <= b /\ b <= p /\ x \in {0, 1} BY DEF Spliced
<1>2. N \in SUBSET EntriesOf(K) /\ E \in SUBSET EntriesOf(K) /\ O \in SUBSET EntriesOf(K)
      /\ Unique(E)
  BY <1>1, BetweenType, BetweenUnique
<1>3. Newer(N, E) /\ Newer(E, O) BY <1>1, BetweenNewer
<1>4. S \in SUBSET Nat /\ bottom \in BOOLEAN BY DEF LevelJob
<1>5. bottom => O = {}
  <2>1. bottom => b + 1 .. p = {} BY DEF LevelJob
  <2>2. QED BY <2>1 DEF Between
<1>6. \A i \in 1 .. q :
         \/ i \in 1 .. a /\ M[i] = L[i]
         \/ x = 1 /\ i = a + 1 /\ M[i] = R
         \/ i > a + x /\ i - (a + x) \in 1 .. p - b /\ M[i] = L[b + (i - (a + x))]
  <2>1. Spliced(p, L, q, M, a, b, x, R) OBVIOUS
  <2> HIDE DEF R
  <2>2. \A i \in 1 .. q : Origin(p, L, M, a, b, x, R, i) BY <2>1, Origins
  <2>3. QED BY <2>2 DEF Origin
<1>7. Unique(R) BY <1>2, <1>4, OutputUnique
<1> HIDE DEF N, E, O, R
<1>8. Newer(N, R) /\ Newer(R, O)
  BY <1>2, <1>3, <1>4, <1>5, OutputBetween DEF R
<1>9. ASSUME NEW i \in 1 .. a PROVE L[i] \subseteq N BY DEF N, Between
<1>10. ASSUME NEW i \in 1 .. p - b PROVE L[b + i] \subseteq O
  <2>1. b + i \in b + 1 .. p BY <1>1
  <2>2. QED BY <2>1 DEF O, Between
<1>11. ASSUME NEW i \in 1 .. q, NEW j \in 1 .. q, i < j PROVE Newer(M[i], M[j])
  <2>1. CASE i \in 1 .. a /\ M[i] = L[i]
    <3>1. CASE j \in 1 .. a /\ M[j] = L[j]
      <4>1. i \in 1 .. p /\ j \in 1 .. p BY <1>1, <2>1, <3>1
      <4>2. QED BY <1>11, <2>1, <3>1, <4>1 DEF Sound
    <3>2. CASE M[j] = R BY <1>8, <1>9, <2>1, <3>2 DEF Newer
    <3>3. CASE j - (a + x) \in 1 .. p - b /\ M[j] = L[b + (j - (a + x))]
      <4>1. i \in 1 .. p /\ b + (j - (a + x)) \in 1 .. p /\ i < b + (j - (a + x))
        BY <1>1, <2>1, <3>3
      <4>2. QED BY <2>1, <3>3, <4>1 DEF Sound
    <3>4. QED BY <1>6, <3>1, <3>2, <3>3
  <2>2. CASE x = 1 /\ i = a + 1 /\ M[i] = R
    <3>1. ~(j \in 1 .. a) /\ ~(j = a + 1) BY <1>11, <2>2
    <3>2. j - (a + x) \in 1 .. p - b /\ M[j] = L[b + (j - (a + x))] BY <1>6, <3>1
    <3>3. M[j] \subseteq O BY <1>10, <3>2
    <3>4. QED BY <1>8, <2>2, <3>3 DEF Newer
  <2>3. CASE i > a + x /\ i - (a + x) \in 1 .. p - b /\ M[i] = L[b + (i - (a + x))]
    <3>1. ~(j \in 1 .. a) /\ ~(x = 1 /\ j = a + 1) BY <1>1, <1>11, <2>3
    <3>2. j - (a + x) \in 1 .. p - b /\ M[j] = L[b + (j - (a + x))] BY <1>6, <3>1
    <3>3. /\ b + (i - (a + x)) \in 1 .. p /\ b + (j - (a + x)) \in 1 .. p
          /\ b + (i - (a + x)) < b + (j - (a + x))
      <4>1. i - (a + x) < j - (a + x) BY <1>1, <1>11
      <4>2. \A u, v \in 1 .. p - b : b + u \in 1 .. p /\ (u < v => b + u < b + v) BY <1>1
      <4>3. QED BY <2>3, <3>2, <4>1, <4>2
    <3>4. Newer(L[b + (i - (a + x))], L[b + (j - (a + x))]) BY <3>3 DEF Sound
    <3>5. QED BY <2>3, <3>2, <3>4
  <2>4. QED BY <1>6, <2>1, <2>2, <2>3
<1>12. ASSUME NEW i \in 1 .. q PROVE Unique(M[i])
  <2>1. CASE i \in 1 .. a /\ M[i] = L[i]
    <3>1. i \in 1 .. p BY <1>1, <2>1
    <3>2. QED BY <2>1, <3>1 DEF Sound
  <2>2. CASE M[i] = R BY <1>7, <2>2
  <2>3. CASE i - (a + x) \in 1 .. p - b /\ M[i] = L[b + (i - (a + x))]
    <3>1. b + (i - (a + x)) \in 1 .. p BY <1>1, <2>3
    <3>2. QED BY <2>3, <3>1 DEF Sound
  <2>4. QED BY <1>6, <2>1, <2>2, <2>3
<1>13. QED BY <1>11, <1>12 DEF Sound

\* A and B answer alike to everybody who may still read when a job rewrites E
\* for the snapshots S.
Unseen(E, S, A, B) == \A k : \A n \in Nat : Readable(E, S, n) => Lookup(B, k, n) = Lookup(A, k, n)

\* Nobody who may still read notices, at any depth of the stack.
THEOREM SplicedInvisible ==
  ASSUME NEW K, NEW p \in Nat, NEW L, NEW q \in Nat, NEW M, NEW a \in Nat, NEW b \in Nat,
         NEW x, NEW S, NEW beyond, NEW bottom, Sound(K, p, L),
         M \in [1 .. q -> SUBSET EntriesOf(K)],
         LevelJob(p, L, a, b, S, beyond, bottom),
         Spliced(p, L, q, M, a, b, x, Rewrite(Between(L, a + 1, b), S, beyond, bottom))
  PROVE  Unseen(Between(L, a + 1, b), S, Between(L, 1, p), Between(M, 1, q))
<1> SUFFICES ASSUME NEW k, NEW n \in Nat, Readable(Between(L, a + 1, b), S, n)
             PROVE  Lookup(Between(M, 1, q), k, n) = Lookup(Between(L, 1, p), k, n)
  BY DEF Unseen
<1> DEFINE N == Between(L, 1, a)
           E == Between(L, a + 1, b)
           O == Between(L, b + 1, p)
           R == Rewrite(E, S, beyond, bottom)
<1>1. a <= b /\ b <= p BY DEF Spliced
<1>2. N \in SUBSET EntriesOf(K) /\ E \in SUBSET EntriesOf(K) /\ O \in SUBSET EntriesOf(K)
      /\ Unique(N)
  BY <1>1, BetweenType, BetweenUnique
<1>3. Newer(N, E) /\ Newer(E, O) /\ Newer(N, O) BY <1>1, BetweenNewer
<1>4. S \in SUBSET Nat /\ bottom \in BOOLEAN BY DEF LevelJob
<1>5. bottom => O = {}
  <2>1. bottom => b + 1 .. p = {} BY DEF LevelJob
  <2>2. QED BY <2>1 DEF Between
<1>6. R \in SUBSET EntriesOf(K) BY <1>2, <1>4, OutputType
<1>7. Newer(N, R) BY <1>2, <1>3, <1>4, <1>5, OutputBetween
<1>8. E \cup O = Between(L, a + 1, p)
  <2>1. ASSUME NEW u \in Nat, u <= b + 1
        PROVE  Between(L, u, b) \cup Between(L, b + 1, p) = Between(L, u, p)
    BY <1>1, <2>1, BetweenSplit
  <2>2. a + 1 \in Nat /\ a + 1 <= b + 1 BY <1>1
  <2>3. QED BY <2>1, <2>2
<1>9. Between(L, 1, p) = N \cup (E \cup O)
  <2>1. 1 \in Nat /\ 1 <= a + 1 /\ a <= p BY <1>1
  <2>2. Between(L, 1, p) = N \cup Between(L, a + 1, p) BY <2>1, BetweenSplit
  <2>3. QED BY <1>8, <2>2
<1>10. Between(M, 1, q) = N \cup (R \cup O) BY SplicedHolds
<1>11. Unique(E \cup O)
  <2>1. a + 1 \in Nat /\ 1 <= a + 1 /\ p <= p OBVIOUS
  <2>2. Unique(Between(L, a + 1, p)) BY <2>1, BetweenUnique
  <2>3. QED BY <1>8, <2>2
<1>12. Sound(K, q, M) BY SplicedSound
<1>13. Unique(N \cup (E \cup O)) /\ Unique(N \cup (R \cup O))
  <2>1. Unique(Between(L, 1, p)) BY BetweenUnique
  <2>2. Unique(Between(M, 1, q))
    <3>1. CASE q = 0 BY <3>1 DEF Between, Unique
    <3>2. CASE q >= 1 BY <1>12, <3>2, BetweenUnique
    <3>3. QED BY <3>1, <3>2
  <2>3. QED BY <1>9, <1>10, <2>1, <2>2
<1>14. Job(K, E, O, S, beyond, bottom)
  <2>1. \A f \in O : f.key \in beyond BY DEF LevelJob
  <2>2. \A e \in E, f \in O : e.key = f.key => f.seq < e.seq BY <1>3 DEF Newer
  <2>3. QED BY <1>2, <1>4, <1>5, <1>11, <2>1, <2>2 DEF Job
<1>15. Lookup(R \cup O, k, n) = Lookup(E \cup O, k, n) BY <1>14, RewriteIsInvisible
<1>16. Newer(N, E \cup O) /\ Newer(N, R \cup O) BY <1>3, <1>7 DEF Newer
<1>17. E \cup O \in SUBSET EntriesOf(K) /\ R \cup O \in SUBSET EntriesOf(K) BY <1>2, <1>6
<1> HIDE DEF N, E, O, R
<1> DEFINE old == E \cup O
           new == R \cup O
<1>a. old \in SUBSET EntriesOf(K) /\ new \in SUBSET EntriesOf(K) BY <1>17
<1>b. Newer(N, old) /\ Newer(N, new) BY <1>16
<1>c. Unique(N \cup old) /\ Unique(N \cup new) BY <1>13
<1>d. Lookup(new, k, n) = Lookup(old, k, n) BY <1>15
<1>e. Between(L, 1, p) = N \cup old /\ Between(M, 1, q) = N \cup new BY <1>9, <1>10
<1> HIDE DEF old, new
<1>18. CASE \E e \in N : VisibleAt(e, k, n)
  <2>1. Lookup(N \cup old, k, n) = Lookup(N, k, n) BY <1>2, <1>a, <1>b, <1>18, LookupNewer
  <2>2. Lookup(N \cup new, k, n) = Lookup(N, k, n) BY <1>2, <1>a, <1>b, <1>18, LookupNewer
  <2>3. QED BY <1>e, <2>1, <2>2
<1>19. CASE ~\E e \in N : VisibleAt(e, k, n)
  <2>1. ASSUME NEW O1 \in SUBSET EntriesOf(K), Unique(N \cup O1)
        PROVE  Lookup(N \cup O1, k, n) = Lookup(O1, k, n)
    <3> DEFINE F == N \cup O1
    <3>1. /\ F \in SUBSET EntriesOf(K) /\ O1 \subseteq F /\ Unique(F)
          /\ \A e \in F : VisibleAt(e, k, n) => e \in O1
      BY <1>2, <1>19, <2>1
    <3> HIDE DEF F
    <3>2. Lookup(F, k, n) = Lookup(O1, k, n) BY <3>1, LookupInvisible
    <3>3. QED BY <3>2 DEF F
  <2>2. Lookup(N \cup old, k, n) = Lookup(old, k, n) BY <1>a, <1>c, <2>1
  <2>3. Lookup(N \cup new, k, n) = Lookup(new, k, n) BY <1>a, <1>c, <2>1
  <2>4. QED BY <1>d, <1>e, <2>2, <2>3
<1>20. QED BY <1>18, <1>19
=============================================================================
