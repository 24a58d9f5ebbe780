--------------------------- MODULE Versions_proof ----------------------------
(***************************************************************************)
(* Theorems about Versions: what a flush or a compaction writes out reads  *)
(* like what it took in, at the number of every snapshot it knew of and at *)
(* every number not below its entries, whatever the entries are.           *)
(***************************************************************************)
EXTENDS Versions, WellFoundedInduction, TLAPS

EntriesOf(K) == [key : K, seq : Nat, val : Nat]

\* No key has two versions with one number.
Unique(E) == \A e, f \in E : e.key = f.key /\ e.seq = f.seq => e = f

-----------------------------------------------------------------------------
(***************************************************************************)
(* Reading.                                                                *)
(***************************************************************************)

\* A non-empty set of natural numbers has a least element.
LEMMA Least ==
  ASSUME NEW T, T \subseteq Nat, T # {}
  PROVE  \E m \in T : \A i \in T : m <= i
<1> DEFINE R == OpToRel(<, Nat)
<1>1. IsWellFoundedOn(R, Nat) BY NatLessThanWellFounded
<1>2. \A i, j \in Nat : i < j => <<i, j>> \in R BY DEF OpToRel
<1> HIDE DEF R
<1>3. PICK m \in T : \A i \in T : ~ (<<i, m>> \in R) BY <1>1, WFMin
<1>4. ASSUME NEW i \in T PROVE m <= i
  <2>1. i \in Nat /\ m \in Nat OBVIOUS
  <2>2. ~(i < m) BY <1>2, <1>3, <2>1
  <2>3. QED BY <2>1, <2>2
<1>5. QED BY <1>4

\* A read that sees a version of the key finds a newest one.
LEMMA SomethingFound ==
  ASSUME NEW K, NEW E \in SUBSET EntriesOf(K), NEW k, NEW n \in Nat,
         \E e \in E : VisibleAt(e, k, n)
  PROVE  \E e \in E : Finds(E, e, k, n)
<1> DEFINE V == {e \in E : VisibleAt(e, k, n)}
           T == {n - e.seq : e \in V}
<1>1. \A e \in V : e.seq \in Nat /\ e.seq <= n BY DEF VisibleAt, EntriesOf
<1>2. T \subseteq Nat BY <1>1
<1>3. V # {} OBVIOUS
<1>4. T # {} BY <1>3
<1>5. PICK m \in T : \A i \in T : m <= i BY <1>2, <1>4, Least
<1>6. PICK e \in V : m = n - e.seq OBVIOUS
<1>7. ASSUME NEW f \in V PROVE f.seq <= e.seq
  <2>1. n - f.seq \in T OBVIOUS
  <2>2. n - e.seq <= n - f.seq BY <1>5, <1>6, <2>1
  <2>3. QED BY <1>1, <2>2
<1>8. QED BY <1>7 DEF Finds

\* When every newest visible version has the value v, and there is none only
\* if v is Deleted, then a read answers v.
LEMMA LookupIs ==
  ASSUME NEW K, NEW E \in SUBSET EntriesOf(K), NEW k, NEW n \in Nat, NEW v,
         \A e \in E : Finds(E, e, k, n) => e.val = v,
         (\E e \in E : VisibleAt(e, k, n)) \/ v = Deleted
  PROVE  Lookup(E, k, n) = v
<1>1. CASE \E e \in E : VisibleAt(e, k, n)
  <2>1. \E e \in E : Finds(E, e, k, n) BY <1>1, SomethingFound
  <2> DEFINE c == CHOOSE e \in E : Finds(E, e, k, n)
  <2>2. c \in E /\ Finds(E, c, k, n) BY <2>1
  <2>3. c.val = v BY <2>2
  <2>4. QED BY <1>1, <2>3 DEF Lookup
<1>2. CASE ~\E e \in E : VisibleAt(e, k, n)
  BY <1>2 DEF Lookup
<1>3. QED BY <1>1, <1>2

\* The same for a read that sees something.
LEMMA LookupFinds ==
  ASSUME NEW K, NEW E \in SUBSET EntriesOf(K), NEW k, NEW n \in Nat, NEW v,
         \A e \in E : Finds(E, e, k, n) => e.val = v,
         \E e \in E : VisibleAt(e, k, n)
  PROVE  Lookup(E, k, n) = v
BY LookupIs

-----------------------------------------------------------------------------
(***************************************************************************)
(* Rewriting.  E is what the job rewrites, O the older entries below it,   *)
(* S the snapshots it knows of, n a number somebody may still read at.     *)
(***************************************************************************)
Readable(E, S, n) == n \in S \/ \A e \in E : e.seq <= n

\* The assumptions a job meets: no two versions alike, O older than E and
\* inside the range "beyond" names, nothing below the last run.
Job(K, E, O, S, beyond, bottom) ==
  /\ E \subseteq EntriesOf(K) /\ O \subseteq EntriesOf(K) /\ Unique(E \cup O)
  /\ S \subseteq Nat
  /\ \A e \in E, f \in O : e.key = f.key => f.seq < e.seq
  /\ \A f \in O : f.key \in beyond
  /\ bottom \in BOOLEAN /\ (bottom => O = {})

LEMMA SquashType ==
  ASSUME NEW K, NEW e \in EntriesOf(K), NEW S, NEW bottom \in BOOLEAN
  PROVE  /\ Squash(e, S, bottom) \in EntriesOf(K)
         /\ Squash(e, S, bottom).key = e.key /\ Squash(e, S, bottom).val = e.val
         /\ Squash(e, S, bottom).seq \in {0, e.seq}
         /\ ~(bottom /\ InEarliest(e, S)) => Squash(e, S, bottom) = e
         /\ bottom /\ InEarliest(e, S) => Squash(e, S, bottom).seq = 0
BY DEF Squash, EntriesOf

\* Setting a number to zero makes no version visible that was not.
LEMMA SquashVisible ==
  ASSUME NEW K, NEW E \in SUBSET EntriesOf(K), NEW e \in E, NEW S \in SUBSET Nat,
         NEW bottom \in BOOLEAN, NEW k, NEW n \in Nat, Readable(E, S, n)
  PROVE  VisibleAt(Squash(e, S, bottom), k, n) <=> VisibleAt(e, k, n)
<1>1. e \in EntriesOf(K) /\ e.seq \in Nat BY DEF EntriesOf
<1>2. CASE bottom /\ InEarliest(e, S)
  <2>1. e.seq <= n BY <1>2 DEF Readable, InEarliest
  <2>2. Squash(e, S, bottom).key = e.key /\ Squash(e, S, bottom).seq = 0
    BY <1>1, <1>2 DEF Squash, EntriesOf
  <2>3. 0 <= n OBVIOUS
  <2>4. QED BY <2>1, <2>2, <2>3 DEF VisibleAt
<1>3. CASE ~(bottom /\ InEarliest(e, S))
  <2>1. Squash(e, S, bottom) = e BY <1>1, <1>3, SquashType
  <2>2. QED BY <2>1
<1>4. QED BY <1>2, <1>3

\* What a reader finds is hidden by nothing: a newer version in its stripe
\* would be visible too.
LEMMA FoundIsNotHidden ==
  ASSUME NEW K, NEW E \in SUBSET EntriesOf(K), NEW S \in SUBSET Nat, NEW k, NEW n \in Nat,
         Readable(E, S, n),
         NEW a \in E, VisibleAt(a, k, n), \A f \in E : VisibleAt(f, k, n) => f.seq <= a.seq
  PROVE  ~Hidden(E, a, S)
<1> SUFFICES ASSUME NEW f \in E, f.key = a.key, f.seq > a.seq, SameStripe(a.seq, f.seq, S)
             PROVE  FALSE
  BY DEF Hidden
<1>1. a.seq \in Nat /\ f.seq \in Nat BY DEF EntriesOf
<1>2. f.seq <= n BY DEF Readable, SameStripe, VisibleAt
<1>3. VisibleAt(f, k, n) BY <1>2 DEF VisibleAt
<1>4. QED BY <1>1, <1>3

\* A version that a found one of its stripe outdates is not written out.
LEMMA OutdatedIsDropped ==
  ASSUME NEW K, NEW E \in SUBSET EntriesOf(K), NEW S \in SUBSET Nat, NEW beyond, NEW bottom,
         NEW a \in E, NEW e \in E, e.key = a.key, e.seq < a.seq, SameStripe(e.seq, a.seq, S)
  PROVE  e \notin Kept(E, S, beyond, bottom)
<1>1. a.seq > e.seq BY DEF EntriesOf
<1>2. Hidden(E, e, S) BY <1>1 DEF Hidden
<1>3. QED BY <1>2 DEF Kept

\* So is every older version of one that all snapshots see.
LEMMA EarliestOutdates ==
  ASSUME NEW K, NEW E \in SUBSET EntriesOf(K), NEW S \in SUBSET Nat, NEW beyond, NEW bottom,
         NEW a \in E, InEarliest(a, S), NEW e \in E, e.key = a.key, e.seq < a.seq
  PROVE  e \notin Kept(E, S, beyond, bottom)
<1>1. \A s \in S : a.seq <= s /\ e.seq <= s BY DEF InEarliest, EntriesOf
<1>2. SameStripe(e.seq, a.seq, S) BY <1>1 DEF SameStripe
<1>3. QED BY <1>2, OutdatedIsDropped

\* The rewritten entries that a reader sees come from kept entries it saw.
LEMMA SeenInOutput ==
  ASSUME NEW K, NEW E \in SUBSET EntriesOf(K), NEW S \in SUBSET Nat, NEW beyond,
         NEW bottom \in BOOLEAN, NEW k, NEW n \in Nat, Readable(E, S, n),
         NEW r \in Rewrite(E, S, beyond, bottom), VisibleAt(r, k, n)
  PROVE  \E e \in Kept(E, S, beyond, bottom) :
           /\ e \in E /\ r = Squash(e, S, bottom) /\ VisibleAt(e, k, n)
           /\ r.val = e.val /\ r.seq \in {0, e.seq}
<1>1. PICK e \in Kept(E, S, beyond, bottom) : r = Squash(e, S, bottom) BY DEF Rewrite
<1>2. e \in E BY DEF Kept
<1>3. VisibleAt(e, k, n) BY <1>1, <1>2, SquashVisible
<1>4. r.val = e.val /\ r.seq \in {0, e.seq} BY <1>1, <1>2, SquashType
<1>5. QED BY <1>1, <1>2, <1>3, <1>4

LEMMA OutputType ==
  ASSUME NEW K, NEW E \in SUBSET EntriesOf(K), NEW S, NEW beyond, NEW bottom \in BOOLEAN
  PROVE  Rewrite(E, S, beyond, bottom) \subseteq EntriesOf(K)
<1>1. ASSUME NEW r \in Rewrite(E, S, beyond, bottom) PROVE r \in EntriesOf(K)
  <2>1. PICK e \in Kept(E, S, beyond, bottom) : r = Squash(e, S, bottom) BY DEF Rewrite
  <2>2. e \in EntriesOf(K) BY DEF Kept
  <2>3. QED BY <2>1, <2>2, SquashType
<1>2. QED BY <1>1

\* Rewriting the entries of a flush or a compaction changes no read: not at the
\* number of a snapshot the job knew of, and not at any number its entries do
\* not exceed, where every later snapshot, Get and iterator reads.
THEOREM RewriteIsInvisible ==
  ASSUME NEW K, NEW E, NEW O, NEW S, NEW beyond, NEW bottom,
         Job(K, E, O, S, beyond, bottom),
         NEW k, NEW n \in Nat, Readable(E, S, n)
  PROVE  Lookup(Rewrite(E, S, beyond, bottom) \cup O, k, n) = Lookup(E \cup O, k, n)
<1> DEFINE A == E \cup O
           out == Rewrite(E, S, beyond, bottom)
           B == out \cup O
           kept == Kept(E, S, beyond, bottom)
<1>1. /\ E \in SUBSET EntriesOf(K) /\ O \in SUBSET EntriesOf(K) /\ S \in SUBSET Nat
      /\ bottom \in BOOLEAN
  BY DEF Job
<1>2. A \in SUBSET EntriesOf(K) /\ B \in SUBSET EntriesOf(K) BY <1>1, OutputType
<1>3. \A e \in A \cup B : e.seq \in Nat BY <1>2 DEF EntriesOf
<1>4. \A r \in out : VisibleAt(r, k, n) => \E e \in kept :
        /\ e \in E /\ r = Squash(e, S, bottom) /\ VisibleAt(e, k, n)
        /\ r.val = e.val /\ r.seq \in {0, e.seq}
  BY <1>1, SeenInOutput
<1> SUFFICES ASSUME NEW v, v = Lookup(A, k, n) PROVE Lookup(B, k, n) = v
  OBVIOUS
<1> HIDE DEF A, B, out, kept
<1>5. CASE ~\E e \in A : VisibleAt(e, k, n)
  <2>1. v = Deleted BY <1>5 DEF Lookup
  <2>2. ~\E e \in B : VisibleAt(e, k, n) BY <1>4, <1>5 DEF A, B
  <2>3. QED BY <1>2, <2>1, <2>2, LookupIs DEF Finds
<1>6. CASE \E e \in A : VisibleAt(e, k, n)
  <2>1. PICK a \in A : Finds(A, a, k, n) BY <1>2, <1>6, SomethingFound
  <2>2. a.key = k /\ a.seq <= n /\ \A f \in A : VisibleAt(f, k, n) => f.seq <= a.seq
    BY <2>1 DEF Finds, VisibleAt
  <2>3. ASSUME NEW e \in A, Finds(A, e, k, n) PROVE e = a
    <3>1. e.key = k /\ e.seq <= a.seq /\ a.seq <= e.seq
      BY <2>1, <2>3 DEF Finds, VisibleAt
    <3>2. e.key = a.key /\ e.seq = a.seq BY <1>3, <2>2, <3>1
    <3>3. QED BY <3>2 DEF Job, Unique, A
  <2>4. v = a.val BY <1>2, <1>6, <2>3, LookupIs
  <2>5. CASE a \in O
    <3>1. ~\E e \in E : VisibleAt(e, k, n)
      <4>1. SUFFICES ASSUME NEW e \in E, VisibleAt(e, k, n) PROVE FALSE OBVIOUS
      <4>2. e.seq <= a.seq BY <2>2, <4>1 DEF A
      <4>3. a.seq < e.seq BY <2>2, <2>5, <4>1 DEF Job, VisibleAt
      <4>4. e \in A BY DEF A
      <4>5. QED BY <1>3, <4>2, <4>3, <4>4
    <3>2. ~\E r \in out : VisibleAt(r, k, n) BY <1>4, <3>1
    <3>3. \A r \in B : VisibleAt(r, k, n) => r \in A BY <3>2 DEF A, B
    <3>4. a \in B /\ VisibleAt(a, k, n) BY <2>2, <2>5 DEF B, VisibleAt
    <3>5. ASSUME NEW r \in B, Finds(B, r, k, n) PROVE r.val = v
      <4>1. r \in A /\ r.key = k /\ r.seq <= n /\ a.seq <= r.seq
        BY <3>3, <3>4, <3>5 DEF Finds, VisibleAt
      <4>2. r.seq <= a.seq BY <2>2, <4>1 DEF VisibleAt
      <4>3. r = a BY <1>3, <2>2, <4>1, <4>2 DEF Job, Unique, A
      <4>4. QED BY <2>4, <4>3
    <3>6. \E r \in B : VisibleAt(r, k, n) BY <3>4
    <3>7. \A r \in B : Finds(B, r, k, n) => r.val = v BY <3>5
    <3>8. B \in SUBSET EntriesOf(K) BY <1>2
    <3>9. QED BY <3>6, <3>7, <3>8, LookupFinds
  <2>6. CASE a \in E
    <3>1. VisibleAt(a, k, n) BY <2>2 DEF VisibleAt
    <3>2. ~Hidden(E, a, S)
      <4>1. \A f \in E : VisibleAt(f, k, n) => f.seq <= a.seq BY <2>2 DEF A
      <4>2. QED BY <1>1, <2>6, <3>1, <4>1, FoundIsNotHidden
    <3>3. \A e \in kept : e \in E /\ VisibleAt(e, k, n) => e.seq <= a.seq /\ e.key = a.key
      BY <2>2 DEF A, VisibleAt
    <3>4. \A e \in E : e.key = a.key /\ e.seq <= a.seq => e = a \/ e.seq < a.seq
      <4>1. ASSUME NEW e \in E, e.key = a.key, e.seq <= a.seq, ~(e.seq < a.seq) PROVE e = a
        <5>1. e.seq = a.seq BY <1>3, <4>1 DEF A
        <5>2. QED BY <4>1, <5>1 DEF Job, Unique, A
      <4>2. QED BY <4>1
    <3>5. CASE a \in kept
      <4>1. Squash(a, S, bottom) \in B BY <3>5 DEF B, out, Rewrite, kept
      <4>2. VisibleAt(Squash(a, S, bottom), k, n) BY <1>1, <2>6, <3>1, SquashVisible
      <4>3. ASSUME NEW r \in out, Finds(B, r, k, n) PROVE r.val = v
        <5>1. VisibleAt(r, k, n) /\ Squash(a, S, bottom).seq <= r.seq
          BY <4>1, <4>2, <4>3 DEF Finds
        <5>2. PICK e \in kept : /\ e \in E /\ r = Squash(e, S, bottom)
                                /\ VisibleAt(e, k, n) /\ r.val = e.val /\ r.seq \in {0, e.seq}
          BY <1>4, <5>1
        <5>3. e = a \/ e.seq < a.seq BY <3>3, <3>4, <5>2
        <5>4. CASE bottom /\ InEarliest(a, S)
          <6>1. ~(e.seq < a.seq)
            BY <1>1, <2>6, <3>3, <5>2, <5>4, EarliestOutdates DEF kept
          <6>2. QED BY <2>4, <5>2, <5>3, <6>1
        <5>5. CASE ~(bottom /\ InEarliest(a, S))
          <6>1. Squash(a, S, bottom) = a BY <5>5 DEF Squash
          <6>2. a.seq <= r.seq /\ r.seq \in {0, e.seq} BY <5>1, <5>2, <6>1
          <6>3. a.seq \in Nat /\ e.seq \in Nat BY <1>3, <2>6, <5>2 DEF A
          <6>4. ~(e.seq < a.seq) BY <6>2, <6>3
          <6>5. QED BY <2>4, <5>2, <5>3, <6>4
        <5>6. QED BY <5>4, <5>5
      <4>4. ASSUME NEW r \in O, Finds(B, r, k, n) PROVE r.val = v
        <5>1. r.key = a.key /\ r.seq < a.seq /\ Squash(a, S, bottom).seq <= r.seq
          BY <2>2, <2>6, <4>1, <4>2, <4>4 DEF Finds, VisibleAt, Job
        <5>2. ~bottom BY DEF Job
        <5>3. Squash(a, S, bottom) = a BY <5>2 DEF Squash
        <5>4. a.seq \in Nat /\ r.seq \in Nat BY <1>3, <2>6 DEF A
        <5>5. QED BY <5>1, <5>3, <5>4
      <4>5. \A r \in B : Finds(B, r, k, n) => r.val = v BY <4>3, <4>4 DEF B
      <4>6. \E r \in B : VisibleAt(r, k, n) BY <4>1, <4>2
      <4>7. B \in SUBSET EntriesOf(K) BY <1>2
      <4>8. QED BY <4>5, <4>6, <4>7, LookupFinds
    <3>6. CASE a \notin kept
      <4>1. ObsoleteDeletion(E, a, S, beyond, bottom) BY <2>6, <3>2, <3>6 DEF kept, Kept
      <4>2. v = Deleted BY <2>4, <4>1 DEF ObsoleteDeletion
      <4>3. ASSUME NEW f \in O PROVE ~VisibleAt(f, k, n)
        BY <2>2, <4>1 DEF ObsoleteDeletion, Job, VisibleAt
      <4>4. ASSUME NEW e \in kept, e \in E, VisibleAt(e, k, n) PROVE FALSE
        <5>1. e.key = a.key /\ e.seq < a.seq BY <3>3, <3>4, <3>6, <4>4
        <5>2. CASE InEarliest(a, S)
          BY <1>1, <2>6, <4>4, <5>1, <5>2, EarliestOutdates DEF kept
        <5>3. CASE SameStripe(e.seq, a.seq, S)
          BY <1>1, <2>6, <4>4, <5>1, <5>3, OutdatedIsDropped DEF kept
        <5>4. InEarliest(a, S) \/ SameStripe(e.seq, a.seq, S)
          BY <4>1, <4>4, <5>1 DEF ObsoleteDeletion, SameStripe
        <5>5. QED BY <5>2, <5>3, <5>4
      <4>5. ~\E r \in B : VisibleAt(r, k, n) BY <1>4, <4>3, <4>4 DEF B
      <4>6. QED BY <1>2, <4>2, <4>5, LookupIs DEF Finds
    <3>7. QED BY <3>5, <3>6
  <2>7. QED BY <2>5, <2>6 DEF A
<1>7. QED BY <1>5, <1>6

-----------------------------------------------------------------------------
(***************************************************************************)
(* What a job writes out.                                                  *)
(***************************************************************************)

\* Each entry of the output was one of the input, and is no newer than it was.
LEMMA OutputFrom ==
  ASSUME NEW K, NEW E \in SUBSET EntriesOf(K), NEW S, NEW beyond, NEW bottom \in BOOLEAN,
         NEW r \in Rewrite(E, S, beyond, bottom)
  PROVE  \E e \in E : /\ e \in Kept(E, S, beyond, bottom) /\ r = Squash(e, S, bottom)
                      /\ r.key = e.key /\ r.val = e.val /\ r.seq <= e.seq
                      /\ (r = e \/ (bottom /\ InEarliest(e, S) /\ r.seq = 0))
<1>1. PICK e \in Kept(E, S, beyond, bottom) : r = Squash(e, S, bottom) BY DEF Rewrite
<1>2. e \in E /\ e \in EntriesOf(K) BY DEF Kept
<1>3. r.key = e.key /\ r.val = e.val BY <1>1, <1>2, SquashType
<1>4. r = e \/ (bottom /\ InEarliest(e, S) /\ r.seq = 0) BY <1>1, <1>2, SquashType
<1>5. e.seq \in Nat BY <1>2 DEF EntriesOf
<1>6. r.seq <= e.seq BY <1>4, <1>5
<1>7. QED BY <1>1, <1>2, <1>3, <1>4, <1>6

\* The output holds no two versions with one number: of two that every snapshot
\* sees, the older one is not written out, so at most one number becomes zero.
LEMMA OutputUnique ==
  ASSUME NEW K, NEW E \in SUBSET EntriesOf(K), Unique(E), NEW S \in SUBSET Nat,
         NEW beyond, NEW bottom \in BOOLEAN
  PROVE  Unique(Rewrite(E, S, beyond, bottom))
<1> SUFFICES ASSUME NEW r \in Rewrite(E, S, beyond, bottom),
                    NEW q \in Rewrite(E, S, beyond, bottom),
                    r.key = q.key, r.seq = q.seq
             PROVE  r = q
  BY DEF Unique
<1>1. PICK e \in E : /\ e \in Kept(E, S, beyond, bottom) /\ r = Squash(e, S, bottom)
                     /\ r.key = e.key /\ r.val = e.val /\ r.seq <= e.seq
                     /\ (r = e \/ (bottom /\ InEarliest(e, S) /\ r.seq = 0))
  BY OutputFrom
<1>2. PICK f \in E : /\ f \in Kept(E, S, beyond, bottom) /\ q = Squash(f, S, bottom)
                     /\ q.key = f.key /\ q.val = f.val /\ q.seq <= f.seq
                     /\ (q = f \/ (bottom /\ InEarliest(f, S) /\ q.seq = 0))
  BY OutputFrom
<1>3. e.key = f.key /\ e.seq \in Nat /\ f.seq \in Nat BY <1>1, <1>2 DEF EntriesOf
<1>4. \A x \in E : x.seq = 0 => InEarliest(x, S)
  <2>1. \A s \in S : 0 <= s OBVIOUS
  <2>2. QED BY <2>1 DEF InEarliest
<1>5. CASE e.seq = f.seq
  <2>1. e = f BY <1>3, <1>5 DEF Unique
  <2>2. QED BY <1>1, <1>2, <2>1
<1>6. CASE e.seq # f.seq
  <2>1. InEarliest(e, S) /\ InEarliest(f, S) BY <1>1, <1>2, <1>3, <1>4, <1>6
  <2>2. CASE e.seq < f.seq BY <1>1, <1>2, <1>3, <2>1, <2>2, EarliestOutdates
  <2>3. CASE f.seq < e.seq BY <1>1, <1>2, <1>3, <2>1, <2>3, EarliestOutdates
  <2>4. QED BY <1>3, <1>6, <2>2, <2>3
<1>7. QED BY <1>5, <1>6

\* PrepareOutput's assertion: an entry whose number becomes zero is no
\* deletion, since a deletion that every snapshot sees is dropped from the last
\* run: whatever is older is in its stripe.
LEMMA OutputZero ==
  ASSUME NEW K, NEW E \in SUBSET EntriesOf(K), NEW S \in SUBSET Nat,
         NEW beyond, NEW bottom \in BOOLEAN,
         \A e \in E : e.seq = 0 => e.val # Deleted,
         NEW r \in Rewrite(E, S, beyond, bottom), r.seq = 0
  PROVE  r.val # Deleted
<1>1. PICK e \in E : /\ e \in Kept(E, S, beyond, bottom) /\ r = Squash(e, S, bottom)
                     /\ r.key = e.key /\ r.val = e.val /\ r.seq <= e.seq
                     /\ (r = e \/ (bottom /\ InEarliest(e, S) /\ r.seq = 0))
  BY OutputFrom
<1>2. CASE r = e BY <1>1, <1>2
<1>3. CASE bottom /\ InEarliest(e, S)
  <2>1. SUFFICES ASSUME e.val = Deleted PROVE FALSE BY <1>1
  <2>2. ASSUME NEW f \in E, f.seq < e.seq PROVE SameStripe(e.seq, f.seq, S)
    <3>1. \A s \in S : e.seq <= s /\ f.seq <= s BY <1>3, <2>2 DEF InEarliest, EntriesOf
    <3>2. QED BY <3>1 DEF SameStripe
  <2>3. ObsoleteDeletion(E, e, S, beyond, bottom) BY <1>3, <2>1, <2>2 DEF ObsoleteDeletion
  <2>4. QED BY <1>1, <2>3 DEF Kept
<1>4. QED BY <1>1, <1>2, <1>3
=============================================================================
