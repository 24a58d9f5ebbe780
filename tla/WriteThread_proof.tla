--------------------------- MODULE WriteThread_proof ---------------------------
(***************************************************************************)
(* Theorems about WriteThread, for any number of writers, write stalls,    *)
(* failures and crashes, for a program whose writes all have the same      *)
(* no_slowdown: what keeps the group commit together.                      *)
(***************************************************************************)
EXTENDS WriteThread, FiniteSetTheorems, TLAPS

\* The program never mixes the two kinds of writes.  When it does, the links
\* can go wrong (the run stall_links shows how).
Uniform == \A m \in Mixes : \A v, w \in Writers : m[v].noSlowdown = m[w].noSlowdown

-----------------------------------------------------------------------------
(***************************************************************************)
(* Greatest elements.                                                      *)
(***************************************************************************)
\* A finite set of numbers that is not empty has a greatest one.
LEMMA HasGreatest ==
  ASSUME NEW S, S \subseteq Nat, IsFiniteSet(S), S # {}
  PROVE  \E n \in S : \A m \in S : m <= n
<1> DEFINE Bad == {T \in SUBSET S : T # {} /\ ~ \E n \in T : \A m \in T : m <= n}
<1> DEFINE R == StrictSubsetOrdering(S)
<1>1. IsWellFoundedOn(R, FiniteSubsetsOf(S))
  BY FS_StrictSubsetOrderingWellFounded
<1>2. FiniteSubsetsOf(S) = SUBSET S
  BY FS_FiniteSubsetsOfFinite
<1>3. SUFFICES ASSUME Bad # {} PROVE FALSE
  OBVIOUS
<1>4. PICK T \in Bad : \A U \in Bad : <<U, T>> \notin R
  <2>1. Bad \subseteq FiniteSubsetsOf(S)
    BY <1>2
  <2> HIDE DEF R, Bad
  <2> QED BY <2>1, <1>1, <1>3, WFMin
<1>5. PICK n \in T : TRUE
  OBVIOUS
<1>6. T \ {n} \notin Bad
  BY <1>4, <1>5 DEF StrictSubsetOrdering
<1>7. \E k \in T : \A m \in T : m <= k
  <2>1. CASE T \ {n} = {}
    BY <1>5, <2>1
  <2>2. CASE T \ {n} # {}
    <3>1. PICK k \in T \ {n} : \A m \in T \ {n} : m <= k
      BY <1>6, <2>2
    <3>2. k \in Nat /\ n \in Nat
      BY <3>1, <1>5
    <3>3. CASE n <= k
      BY <3>1, <3>3
    <3>4. CASE k < n
      BY <3>1, <3>2, <3>4, <1>5
    <3>5. QED BY <3>2, <3>3, <3>4
  <2>3. QED BY <2>1, <2>2
<1>8. QED BY <1>7

LEMMA GreatestType ==
  ASSUME NEW S, S \subseteq Nat, IsFiniteSet(S)
  PROVE  Greatest(S) \in Nat
BY HasGreatest DEF Greatest

\* The image of a finite set under a function is finite.
LEMMA FiniteImage ==
  ASSUME NEW S, IsFiniteSet(S), NEW f, DOMAIN f = S, NEW T, T = {f[x] : x \in S},
         f \in [S -> T]
  PROVE  IsFiniteSet(T)
<1>1. f \in Surjection(S, T)
  BY DEF Surjection
<1>2. QED BY <1>1, FS_Surjection

-----------------------------------------------------------------------------
(***************************************************************************)
(* Types.                                                                  *)
(***************************************************************************)
\* What the provers need to know about the kinds of writes.
LEMMA KindTypes ==
  ASSUME kind \in Mixes
  PROVE  /\ kind \in [Writers -> Kinds]
         /\ \A w \in Writers : /\ kind[w].sync \in BOOLEAN /\ kind[w].noSlowdown \in BOOLEAN
                               /\ kind[w].disableWAL \in BOOLEAN /\ kind[w].broken \in BOOLEAN
BY MixesAssumption DEF Kinds

LEMMA RangeInSet ==
  ASSUME NEW S, NEW s \in Seq(S)
  PROVE  Range(s) \subseteq S
BY DEF Range

\* The number of a batch in the log is a number.
LEMMA LogNumType ==
  ASSUME TypeOK, NEW w \in Writers
  PROVE  LogNum(w) \in Nat
<1>1. CASE ~Logged(w)
  BY <1>1 DEF LogNum, TypeOK
<1>2. CASE Logged(w)
  <2> DEFINE r == CHOOSE r \in Range(log) : w \in Range(r.batches)
             i == CHOOSE i \in DOMAIN r.batches : r.batches[i] = w
  <2>1. r \in Range(log) /\ w \in Range(r.batches)
    BY <1>2 DEF Logged
  <2>2. r \in [batches : Seq(Writers), first : Nat, torn : BOOLEAN]
    <3>1. Range(log) \subseteq [batches : Seq(Writers), first : Nat, torn : BOOLEAN]
      BY RangeInSet DEF TypeOK
    <3> HIDE DEF r
    <3> QED BY <3>1, <2>1
  <2>3. i \in DOMAIN r.batches
    <3> HIDE DEF r
    <3> QED BY <2>1 DEF Range
  <2>4. i \in Nat /\ i >= 1 /\ r.first \in Nat
    <3> HIDE DEF r, i
    <3> QED BY <2>2, <2>3
  <2>5. LogNum(w) = r.first - 1 + i
    BY <1>2 DEF LogNum
  <2>6. QED BY <2>4, <2>5
<1>3. QED BY <1>1, <1>2

\* The writers of a group.
LEMMA MembersType ==
  ASSUME TypeOK, NEW L \in Writers
  PROVE  /\ Members(L) \subseteq Writers
         /\ \A w : w \in Members(L) <=>
                  \E i \in 1 .. Len(group[L].members) : group[L].members[i] = w
<1>1. group[L].members \in Seq(Writers)
  BY DEF TypeOK
<1>2. QED BY <1>1 DEF Members, Range

\* A batch has a place in its group.
LEMMA NumberedType ==
  ASSUME TypeOK, NEW L \in Writers
  PROVE  Numbered(L) \in [Writers -> Nat]
<1>1. ASSUME NEW w \in Writers, w \in Members(L)
      PROVE  lastSeq + (CHOOSE i \in DOMAIN group[L].members : group[L].members[i] = w) \in Nat
  <2> DEFINE P(i) == i \in DOMAIN group[L].members /\ group[L].members[i] = w
             i == CHOOSE i \in DOMAIN group[L].members : group[L].members[i] = w
  <2>1. group[L].members \in Seq(Writers)
    BY DEF TypeOK
  <2>2. \E j \in DOMAIN group[L].members : group[L].members[j] = w
    BY <1>1, <2>1 DEF Members, Range
  <2>3. i \in DOMAIN group[L].members
    BY <2>2
  <2>4. i \in Nat
    <3> HIDE DEF i
    <3> QED BY <2>1, <2>3
  <2> HIDE DEF i
  <2>5. lastSeq + i \in Nat
    BY <2>4 DEF TypeOK
  <2> QED BY <2>5 DEF i
<1>2. \A w \in Writers : num[w] \in Nat
  BY DEF TypeOK
<1>3. QED BY <1>1, <1>2 DEF Numbered

-----------------------------------------------------------------------------
(***************************************************************************)
(* The inductive invariant.                                                *)
(***************************************************************************)
InGroup(w, L) == \E i \in 1 .. Len(group[L].members) : group[L].members[i] = w

\* What a writer in the queue may be doing.
Waiting(w) == pc[w] = "await" /\ state[w] = "init"
Early(w) == Leads(w) \/ pc[w] \in {"stall", "enter", "log", "sync", "insert"}
Inserts(w) == (pc[w] = "await" /\ state[w] = "parallel") \/ pc[w] = "inserted"
Finished(w) == pc[w] = "finish" /\ state[w] = "parallel"
Late(w) == pc[w] \in {"publish", "exit"}

\* The types the steps of the queue depend on.
ThreadTypes ==
  /\ queue \in Seq(Writers) /\ newer \in [Writers -> Writers \cup {None}]
  /\ state \in [Writers -> {"init", "leader", "parallel", "completed"}]
  /\ pc \in [Writers -> {"start", "await", "stall", "enter", "log", "sync", "insert", "inserted",
                         "finish", "publish", "exit", "release", "done", "gone"}]
  /\ \A L \in Writers : /\ group[L].members \in Seq(Writers)
                        /\ group[L].running \in Nat /\ group[L].left \in Nat

\* A writer is in the queue once, and not after it was told to go.
QueueOK ==
  /\ \A i, j \in 1 .. Len(queue) : queue[i] = queue[j] => i = j
  /\ \A i \in 1 .. Len(queue) :
       \/ Waiting(queue[i]) \/ Early(queue[i]) \/ Inserts(queue[i])
       \/ Finished(queue[i]) \/ Late(queue[i])

\* A writer is in one group ever and once, behind the leader, which is its first; the
\* group some of which is still in the queue is the front of the queue.
GroupsOK ==
  /\ \A L \in Writers : group[L].members # <<>> => group[L].members[1] = L
  /\ \A L \in Writers : \A i, j \in 1 .. Len(group[L].members) :
       group[L].members[i] = group[L].members[j] => i = j
  /\ \A L, w \in Writers : InGroup(w, L) => pc[w] # "start"
  /\ \A K, L, w \in Writers : InGroup(w, K) /\ InGroup(w, L) => K = L
  /\ \A L \in Writers : \A i \in 1 .. Len(queue) : InGroup(queue[i], L) =>
       /\ Len(group[L].members) <= Len(queue)
       /\ \A j \in 1 .. Len(group[L].members) : group[L].members[j] = queue[j]

FreshOK == \A w \in Writers : pc[w] = "start" => state[w] = "init" /\ newer[w] = None

\* Links are made from the front of the queue on, each to the next writer.
LinksOK == \A i \in 1 .. Len(queue) : newer[queue[i]] # None =>
  /\ i < Len(queue) /\ newer[queue[i]] = queue[i + 1]
  /\ \A j \in 1 .. i : newer[queue[j]] # None

\* Until its group inserts or leaves, the leader is the only one at the head
\* of the queue that does not wait; then those of its group are the only ones.
HeadOK ==
  /\ \A w \in Writers : Early(w) =>
       queue # <<>> /\ w = queue[1] /\ \A i \in 2 .. Len(queue) : Waiting(queue[i])
  /\ \A w \in Writers : Leads(w) \/ pc[w] \in {"stall", "enter"} => group[w].members = <<>>
  /\ \A w \in Writers : pc[w] \in {"log", "sync", "insert"} => group[w].members # <<>>
  /\ \A w \in Writers : Late(w) \/ Inserts(w) => queue # <<>> /\ InGroup(w, queue[1])
  /\ \A w \in Writers : pc[w] = "stall" => state[w] = "leader"
  /\ \A w \in Writers : pc[w] = "inserted" => state[w] = "parallel"
  /\ \A i \in 2 .. Len(queue) : i > Len(group[queue[1]].members) => Waiting(queue[i])

\* The right to touch the shared state is one writer's, or a whole group's.
TokenOK ==
  /\ \A v, w \in Writers : (Early(v) \/ Late(v)) /\ (Early(w) \/ Late(w)) => v = w
  /\ \A v, w \in Writers : Early(v) \/ Late(v) => ~Inserts(w)

\* WriteGroup::running counts those that have not finished inserting.
CountOK == Inserting # {} => group[queue[1]].running = Cardinality(Inserting)

\* Those a group that leaves has not told to go are still there.
Leaving(w, L) ==
  /\ group[L].left \in 1 .. Len(group[L].members)
  /\ \A i \in 1 .. group[L].left :
       \/ group[L].members[i] = w
       \/ Waiting(group[L].members[i]) \/ Finished(group[L].members[i])
  /\ \A v \in Writers : InGroup(v, L) /\ pc[v] = "release" => v = w
ReleaseOK == \A w \in Writers : pc[w] = "release" =>
  /\ \E L \in Writers : InGroup(w, L)
  /\ \A L \in Writers : InGroup(w, L) => Leaving(w, L)

\* During a stall nobody can be turned away.
StallOK == stalled => \A w \in Writers : ~kind[w].noSlowdown

Shape == /\ QueueOK /\ GroupsOK /\ FreshOK /\ LinksOK /\ HeadOK /\ TokenOK
         /\ CountOK /\ ReleaseOK
IInv == TypeOK /\ Shape /\ StallOK

LEMMA Types == ASSUME TypeOK PROVE ThreadTypes
BY DEF TypeOK, ThreadTypes

\* A leader is a member of its group.
LEMMA LeaderInGroup ==
  ASSUME ThreadTypes, GroupsOK, NEW L \in Writers, group[L].members # <<>>
  PROVE  InGroup(L, L)
<1>1. group[L].members \in Seq(Writers) /\ Len(group[L].members) >= 1
  BY DEF ThreadTypes
<1>2. group[L].members[1] = L
  BY DEF GroupsOK
<1>3. QED BY <1>1, <1>2 DEF InGroup

\* A step that leaves the groups and the queue alone and lets nobody start.
LEMMA GroupsKept ==
  ASSUME GroupsOK, UNCHANGED queue,
         \A L \in Writers : group'[L].members = group[L].members,
         \A w \in Writers : pc'[w] = "start" => pc[w] = "start"
  PROVE  GroupsOK'
<1>1. \A L, w \in Writers : InGroup(w, L)' <=> InGroup(w, L)
  BY DEF InGroup
<1>2. \A L \in Writers, i \in 1 .. Len(queue') : InGroup(queue[i], L)' <=> InGroup(queue[i], L)
  BY DEF InGroup
<1>3. \A L \in Writers : group'[L].members # <<>> => group'[L].members[1] = L
  BY DEF GroupsOK
<1>4. \A L, w \in Writers : InGroup(w, L)' => pc'[w] # "start"
  BY <1>1 DEF GroupsOK
<1>5. \A K, L, w \in Writers : InGroup(w, K)' /\ InGroup(w, L)' => K = L
  BY <1>1 DEF GroupsOK
<1>6. \A L \in Writers : \A i \in 1 .. Len(queue') : InGroup(queue[i], L)' =>
        /\ Len(group'[L].members) <= Len(queue')
        /\ \A j \in 1 .. Len(group'[L].members) : group'[L].members[j] = queue'[j]
  BY <1>2 DEF GroupsOK
<1>7. \A L \in Writers : \A i, j \in 1 .. Len(group'[L].members) :
        group'[L].members[i] = group'[L].members[j] => i = j
  BY DEF GroupsOK
<1>8. QED BY <1>3, <1>4, <1>5, <1>6, <1>7 DEF GroupsOK

\* A step that leaves alone a writer that leaves and those it has to tell.
LEMMA LeavingKept ==
  ASSUME ThreadTypes, NEW w \in Writers, NEW L \in Writers, Leaving(w, L),
         group'[L].members = group[L].members, group'[L].left = group[L].left,
         \A v \in Writers : InGroup(v, L) /\ (Waiting(v) \/ Finished(v)) =>
                            (Waiting(v) \/ Finished(v))',
         \A v \in Writers : InGroup(v, L) /\ pc'[v] = "release" => pc[v] = "release"
  PROVE  Leaving(w, L)'
<1>1. \A v \in Writers : InGroup(v, L)' <=> InGroup(v, L)
  BY DEF InGroup
<1>2. \A i \in 1 .. group[L].left :
        group[L].members[i] \in Writers /\ InGroup(group[L].members[i], L)
  BY DEF ThreadTypes, InGroup, Leaving
<1>3. \A i \in 1 .. group[L].left :
        \/ group[L].members[i] = w
        \/ (Waiting(group[L].members[i]) \/ Finished(group[L].members[i]))
  BY DEF Leaving
<1>4. \A i \in 1 .. group'[L].left :
        \/ group'[L].members[i] = w
        \/ (Waiting(group[L].members[i]) \/ Finished(group[L].members[i]))'
  BY <1>2, <1>3 DEF Waiting, Finished
<1>5. QED BY <1>1, <1>4 DEF Leaving

LEMMA ReleaseKept ==
  ASSUME ThreadTypes, ReleaseOK,
         \A w \in Writers : pc'[w] = "release" => pc[w] = "release",
         \A w, L \in Writers : pc[w] = "release" /\ (InGroup(w, L) \/ InGroup(w, L)') =>
           /\ group'[L].members = group[L].members /\ group'[L].left = group[L].left
           /\ \A v \in Writers : InGroup(v, L) /\ (Waiting(v) \/ Finished(v)) =>
                                 (Waiting(v) \/ Finished(v))'
  PROVE  ReleaseOK'
<1>1. SUFFICES ASSUME NEW w \in Writers, pc'[w] = "release"
      PROVE  /\ \E L \in Writers : InGroup(w, L)'
             /\ \A L \in Writers : InGroup(w, L)' => Leaving(w, L)'
  BY DEF ReleaseOK
<1>2. pc[w] = "release"
  BY <1>1
<1>3. \E L \in Writers : InGroup(w, L)'
  <2>1. PICK L \in Writers : InGroup(w, L)
    BY <1>2 DEF ReleaseOK
  <2>2. InGroup(w, L)'
    BY <1>2, <2>1 DEF InGroup
  <2>3. QED BY <2>2
<1>4. ASSUME NEW L \in Writers, InGroup(w, L)'
      PROVE  Leaving(w, L)'
  <2>1. /\ group'[L].members = group[L].members /\ group'[L].left = group[L].left
        /\ \A v \in Writers : InGroup(v, L) /\ (Waiting(v) \/ Finished(v)) =>
                              (Waiting(v) \/ Finished(v))'
    BY <1>2, <1>4
  <2>2. InGroup(w, L)
    BY <1>4, <2>1 DEF InGroup
  <2>3. Leaving(w, L)
    BY <1>2, <2>2 DEF ReleaseOK
  <2>4. QED BY <2>1, <2>3, LeavingKept
<1>5. QED BY <1>3, <1>4

\* A step that leaves the queue, the links, the states and the groups alone
\* and moves the writer that may touch the shared state on.
LEMMA HolderMoves ==
  ASSUME ThreadTypes, Shape, ThreadTypes', NEW w \in Writers, NEW p,
         pc' = [pc EXCEPT ![w] = p],
         UNCHANGED <<queue, newer, state>>,
         \A L \in Writers : /\ group'[L].members = group[L].members
                            /\ group'[L].running = group[L].running
                            /\ group'[L].left = group[L].left,
         \/ Leads(w) /\ p \in {"stall", "enter"}
         \/ pc[w] = "stall" /\ p = "await"
         \/ pc[w] \in {"log", "sync", "insert"} /\ p \in {"sync", "insert", "publish"}
         \/ pc[w] = "publish" /\ p = "exit"
  PROVE  Shape'
<1>1. \A v \in Writers : v # w => pc'[v] = pc[v]
  BY DEF ThreadTypes
<1>2. pc'[w] = p
  BY DEF ThreadTypes
<1>3. \A v, L \in Writers : InGroup(v, L)' <=> InGroup(v, L)
  BY DEF InGroup
<1>4. \A v \in Writers : v # w =>
        /\ Waiting(v)' <=> Waiting(v)
        /\ Early(v)' <=> Early(v)
        /\ Inserts(v)' <=> Inserts(v)
        /\ Finished(v)' <=> Finished(v)
        /\ Late(v)' <=> Late(v)
        /\ Leads(v)' <=> Leads(v)
  BY <1>1 DEF Waiting, Early, Inserts, Finished, Late, Leads
<1>5. /\ Early(w) \/ Late(w)
      /\ Early(w)' \/ Late(w)'
      /\ ~Waiting(w) /\ ~Inserts(w) /\ ~Finished(w)
      /\ ~Waiting(w)' /\ ~Inserts(w)' /\ ~Finished(w)'
      /\ pc[w] # "start" /\ p # "start" /\ pc[w] # "release" /\ p # "release"
  BY <1>2 DEF Waiting, Early, Inserts, Finished, Late, Leads, Shape, HeadOK
<1>6. queue \in Seq(Writers) /\ \A i \in 1 .. Len(queue) : queue[i] \in Writers
  BY DEF ThreadTypes
<1>7. QueueOK'
  BY <1>4, <1>5, <1>6 DEF Shape, QueueOK
<1>8. GroupsOK'
  BY <1>1, <1>2, <1>5, GroupsKept DEF Shape
<1>9. FreshOK'
  BY <1>1, <1>2, <1>5 DEF Shape, FreshOK
<1>10. LinksOK'
  BY DEF Shape, LinksOK
<1>11. w = queue[1] => \A i \in 2 .. Len(queue) : queue[i] # w
  BY <1>6 DEF Shape, QueueOK
<1>12. HeadOK'
  <2>1. ASSUME NEW v \in Writers, Early(v)'
        PROVE  queue # <<>> /\ v = queue[1] /\ \A i \in 2 .. Len(queue) : Waiting(queue[i])'
    <3>1. Early(v)
      BY <1>2, <1>4, <2>1 DEF Early, Leads
    <3>2. /\ queue # <<>> /\ v = queue[1] /\ \A i \in 2 .. Len(queue) : Waiting(queue[i])
      BY <3>1 DEF Shape, HeadOK
    <3>3. v = w
      BY <1>5, <3>1 DEF Shape, TokenOK
    <3>4. QED BY <1>4, <1>6, <1>11, <3>2, <3>3
  <2>2. \A v \in Writers : (Leads(v) \/ pc[v] \in {"stall", "enter"})' => group'[v].members = <<>>
    BY <1>1, <1>2, <1>4 DEF Shape, HeadOK, Leads
  <2>3. \A v \in Writers : pc'[v] \in {"log", "sync", "insert"} => group'[v].members # <<>>
    BY <1>1, <1>2 DEF Shape, HeadOK
  <2>4. ASSUME NEW v \in Writers, (Late(v) \/ Inserts(v))'
        PROVE  queue # <<>> /\ InGroup(v, queue[1])'
    <3>1. CASE Late(v) \/ Inserts(v)
      BY <1>3, <1>6, <3>1 DEF Shape, HeadOK, ThreadTypes
    <3>2. CASE ~(Late(v) \/ Inserts(v))
      <4>1. v = w /\ pc[w] \in {"log", "sync", "insert"}
        BY <1>2, <1>4, <1>5, <2>4, <3>2 DEF Late
      <4>2. w = queue[1] /\ queue # <<>> /\ group[w].members # <<>>
        BY <4>1 DEF Shape, HeadOK, Early
      <4>3. InGroup(w, w)
        BY <4>2, LeaderInGroup DEF Shape
      <4>4. QED BY <1>3, <4>1, <4>2, <4>3
    <3>3. QED BY <3>1, <3>2
  <2>5. \A v \in Writers : pc'[v] = "stall" => state'[v] = "leader"
    BY <1>1, <1>2 DEF Shape, HeadOK, Leads
  <2>6. \A v \in Writers : pc'[v] = "inserted" => state'[v] = "parallel"
    BY <1>1, <1>2 DEF Shape, HeadOK
  <2>7. \A i \in 2 .. Len(queue) : i > Len(group[queue[1]].members) => Waiting(queue[i])'
    BY <1>4, <1>5, <1>6 DEF Shape, HeadOK
  <2>8. QED
    BY <1>6, <2>1, <2>2, <2>3, <2>4, <2>5, <2>6, <2>7 DEF HeadOK
<1>13. TokenOK'
  BY <1>4, <1>5 DEF Shape, TokenOK
<1>14. CountOK'
  <2>1. Inserting' = Inserting
    BY <1>4, <1>5 DEF Inserting, Inserts
  <2>2. Inserting = {}
    BY <1>5 DEF Shape, TokenOK, Inserting, Inserts
  <2>3. QED BY <2>1, <2>2 DEF CountOK
<1>15. ReleaseOK'
  <2>1. \A v \in Writers : pc'[v] = "release" => pc[v] = "release"
    BY <1>1, <1>2, <1>5
  <2>2. \A v \in Writers : Waiting(v) \/ Finished(v) => (Waiting(v) \/ Finished(v))'
    BY <1>4, <1>5
  <2>3. QED BY <1>3, <2>1, <2>2, ReleaseKept DEF Shape
<1>16. QED
  BY <1>7, <1>8, <1>9, <1>10, <1>12, <1>13, <1>14, <1>15 DEF Shape

-----------------------------------------------------------------------------
(***************************************************************************)
(* Links.                                                                  *)
(***************************************************************************)
LEMMA FirstMissingIsAfterLinked ==
  ASSUME ThreadTypes
  PROVE  /\ FirstMissing \in Nat /\ FirstMissing >= 1
         /\ FirstMissing > 1 => FirstMissing - 1 \in Linked
         /\ \A j \in Linked : j < FirstMissing
<1>1. Linked \subseteq Nat /\ Linked \subseteq 1 .. Len(queue) - 1 /\ Len(queue) \in Nat
  BY DEF Linked, ThreadTypes
<1>2. CASE Linked = {}
  BY <1>2 DEF FirstMissing
<1>3. CASE Linked # {}
  <2>1. IsFiniteSet(Linked)
    <3>1. IsFiniteSet(1 .. Len(queue) - 1)
      BY <1>1, FS_Interval
    <3>2. QED BY <1>1, <3>1, FS_Subset
  <2>2. \E i \in Linked : \A j \in Linked : j <= i
    BY <1>1, <1>3, <2>1, HasGreatest
  <2> DEFINE i == CHOOSE i \in Linked : \A j \in Linked : j <= i
  <2>3. i \in Linked /\ \A j \in Linked : j <= i
    BY <2>2
  <2>4. FirstMissing = 1 + i
    BY <1>3 DEF FirstMissing
  <2> HIDE DEF i
  <2>5. QED BY <1>1, <2>3, <2>4
<1>4. QED BY <1>2, <1>3

\* CreateMissingNewerLinks links the whole queue and touches nobody else, and
\* the link it stops at is the one it would have made.
LEMMA NewLinks ==
  ASSUME ThreadTypes, QueueOK, LinksOK
  PROVE  /\ LinksAgree
         /\ WithMissing \in [Writers -> Writers \cup {None}]
         /\ \A i \in 1 .. Len(queue) - 1 : WithMissing[queue[i]] = queue[i + 1]
         /\ \A i \in 1 .. Len(queue) : WithMissing[queue[i]] # None => i < Len(queue)
         /\ \A w \in Writers : (\A i \in 1 .. Len(queue) : queue[i] # w) =>
                               WithMissing[w] = newer[w]
<1> DEFINE F == FirstMissing
<1>1. /\ Len(queue) \in Nat /\ \A i \in 1 .. Len(queue) : queue[i] \in Writers
      /\ \A w \in Writers : newer[w] \in Writers \cup {None}
  BY DEF ThreadTypes
<1>2. /\ F \in Nat /\ F >= 1
      /\ F > 1 => F - 1 \in Linked
      /\ \A j \in Linked : j < F
  BY FirstMissingIsAfterLinked
<1>3. Linked = {i \in 1 .. Len(queue) - 1 : newer[queue[i]] # None}
  BY DEF Linked
<1>4. \A i \in 1 .. Len(queue) - 1 : i < F => newer[queue[i]] = queue[i + 1]
  <2>1. ASSUME NEW i \in 1 .. Len(queue) - 1, i < F PROVE newer[queue[i]] = queue[i + 1]
    <3>1. F - 1 \in 1 .. Len(queue) /\ newer[queue[F - 1]] # None /\ i \in 1 .. F - 1
      BY <1>1, <1>2, <1>3, <2>1
    <3>2. newer[queue[i]] # None
      BY <3>1 DEF LinksOK
    <3>3. QED BY <1>1, <3>2 DEF LinksOK
  <2>2. QED BY <2>1
<1>5. LinksAgree
  <2>1. CASE F > 1
    <3>1. F - 1 \in 1 .. Len(queue) - 1 /\ F - 1 < F /\ (F - 1) + 1 = F
      BY <1>1, <1>2, <1>3, <2>1
    <3>2. newer[queue[F - 1]] = queue[F]
      BY <1>4, <3>1
    <3>3. QED BY <3>2 DEF LinksAgree
  <2>2. QED BY <2>1 DEF LinksAgree
<1>6. ASSUME NEW w \in Writers
      PROVE  WithMissing[w] = IF \E i \in F .. Len(queue) - 1 : queue[i] = w
                              THEN queue[(CHOOSE i \in F .. Len(queue) - 1 : queue[i] = w) + 1]
                              ELSE newer[w]
  BY DEF WithMissing
<1>7. ASSUME NEW i \in F .. Len(queue) - 1
      PROVE  WithMissing[queue[i]] = queue[i + 1]
  <2> DEFINE k == CHOOSE k \in F .. Len(queue) - 1 : queue[k] = queue[i]
  <2>1. k \in F .. Len(queue) - 1 /\ queue[k] = queue[i]
    OBVIOUS
  <2>2. queue[i] \in Writers /\ i \in 1 .. Len(queue)
    BY <1>1, <1>2
  <2>3. WithMissing[queue[i]] = queue[k + 1]
    BY <1>6, <2>2
  <2> HIDE DEF k
  <2>4. k = i
    BY <1>1, <1>2, <2>1 DEF QueueOK
  <2>5. QED BY <2>3, <2>4
<1>8. ASSUME NEW i \in 1 .. Len(queue), i < F \/ i = Len(queue)
      PROVE  WithMissing[queue[i]] = newer[queue[i]]
  <2>1. ~ \E k \in F .. Len(queue) - 1 : queue[k] = queue[i]
    BY <1>1, <1>2, <1>8 DEF QueueOK
  <2>2. QED BY <1>1, <1>6, <2>1
<1>9. \A i \in 1 .. Len(queue) - 1 : WithMissing[queue[i]] = queue[i + 1]
  <2>1. ASSUME NEW i \in 1 .. Len(queue) - 1 PROVE WithMissing[queue[i]] = queue[i + 1]
    <3>1. CASE i < F
      BY <1>1, <1>4, <1>8, <3>1
    <3>2. CASE i >= F
      <4>1. i \in F .. Len(queue) - 1
        BY <1>1, <1>2, <3>2
      <4>2. QED BY <1>7, <4>1
    <3>3. QED BY <1>1, <1>2, <3>1, <3>2
  <2>2. QED BY <2>1
<1>10. \A i \in 1 .. Len(queue) : WithMissing[queue[i]] # None => i < Len(queue)
  <2>1. ASSUME NEW i \in 1 .. Len(queue), i = Len(queue) PROVE WithMissing[queue[i]] = None
    BY <1>1, <1>8, <2>1 DEF LinksOK
  <2>2. QED BY <1>1, <2>1
<1>11. \A w \in Writers : (\A i \in 1 .. Len(queue) : queue[i] # w) => WithMissing[w] = newer[w]
  <2>1. ASSUME NEW w \in Writers, \A i \in 1 .. Len(queue) : queue[i] # w
        PROVE  WithMissing[w] = newer[w]
    <3>1. ASSUME NEW k \in F .. Len(queue) - 1
          PROVE  queue[k] # w
      <4>1. k \in 1 .. Len(queue)
        BY <1>1, <1>2
      <4>2. QED BY <2>1, <4>1
    <3>2. ~ \E k \in F .. Len(queue) - 1 : queue[k] = w
      BY <3>1
    <3> HIDE DEF F
    <3>3. QED BY <1>6, <3>2
  <2>2. QED BY <2>1
<1>12. WithMissing \in [Writers -> Writers \cup {None}]
  <2>1. ASSUME NEW w \in Writers PROVE WithMissing[w] \in Writers \cup {None}
    <3>1. CASE \E i \in 1 .. Len(queue) : queue[i] = w
      <4>1. PICK i \in 1 .. Len(queue) : queue[i] = w
        BY <3>1
      <4>2. CASE i < Len(queue)
        BY <1>1, <1>9, <4>1, <4>2
      <4>3. CASE i = Len(queue)
        BY <1>1, <1>10, <4>1, <4>3
      <4>4. QED BY <1>1, <4>2, <4>3
    <3>2. CASE \A i \in 1 .. Len(queue) : queue[i] # w
      BY <1>1, <1>11, <3>2
    <3>3. QED BY <3>1, <3>2
  <2>2. WithMissing = [w \in Writers |-> WithMissing[w]]
    BY DEF WithMissing
  <2>3. QED BY <2>1, <2>2
<1>13. QED BY <1>5, <1>9, <1>10, <1>11, <1>12

-----------------------------------------------------------------------------
(***************************************************************************)
(* The steps that change the queue, the groups or the states.              *)
(***************************************************************************)
\* What a writer in the queue, or about to join it, does when it does nothing.
LEMMA QueueTypes ==
  ASSUME ThreadTypes
  PROVE  /\ Len(queue) \in Nat /\ \A i \in 1 .. Len(queue) : queue[i] \in Writers
         /\ queue = <<>> <=> Len(queue) = 0
         /\ \A L \in Writers :
              /\ Len(group[L].members) \in Nat
              /\ \A i \in 1 .. Len(group[L].members) : group[L].members[i] \in Writers
              /\ group[L].members = <<>> <=> Len(group[L].members) = 0
BY DEF ThreadTypes

\* A writer joins the queue.
LEMMA JoinKeeps ==
  ASSUME ThreadTypes, Shape, ThreadTypes', NEW w \in Writers,
         pc[w] = "start", pc' = [pc EXCEPT ![w] = "await"],
         queue' = Append(queue, w),
         state' = [state EXCEPT ![w] = IF queue = <<>> THEN "leader" ELSE @],
         UNCHANGED <<newer, group>>
  PROVE  Shape'
<1>1. /\ Len(queue) \in Nat /\ \A i \in 1 .. Len(queue) : queue[i] \in Writers
      /\ Len(queue') = Len(queue) + 1 /\ queue'[Len(queue) + 1] = w
      /\ \A i \in 1 .. Len(queue) : queue'[i] = queue[i]
      /\ queue' # <<>>
      /\ queue = <<>> <=> Len(queue) = 0
  BY DEF ThreadTypes
<1>2. \A v \in Writers : v # w => pc'[v] = pc[v] /\ state'[v] = state[v]
  BY DEF ThreadTypes
<1>3. /\ pc'[w] = "await" /\ newer[w] = None
      /\ queue = <<>> => state'[w] = "leader"
      /\ queue # <<>> => state'[w] = "init"
  BY DEF ThreadTypes, Shape, FreshOK
<1>4. \A i \in 1 .. Len(queue) : queue[i] # w
  BY DEF Shape, QueueOK, Waiting, Early, Leads, Inserts, Finished, Late
<1>5. \A v, L \in Writers : InGroup(v, L)' <=> InGroup(v, L)
  BY DEF InGroup
<1>6. \A v \in Writers : v # w =>
        /\ Waiting(v)' <=> Waiting(v)
        /\ Early(v)' <=> Early(v)
        /\ Inserts(v)' <=> Inserts(v)
        /\ Finished(v)' <=> Finished(v)
        /\ Late(v)' <=> Late(v)
        /\ Leads(v)' <=> Leads(v)
  BY <1>2 DEF Waiting, Early, Inserts, Finished, Late, Leads
<1>7. /\ ~Waiting(w) /\ ~Early(w) /\ ~Inserts(w) /\ ~Finished(w) /\ ~Late(w)
      /\ ~Inserts(w)' /\ ~Finished(w)' /\ ~Late(w)'
      /\ queue = <<>> => Early(w)' /\ ~Waiting(w)'
      /\ queue # <<>> => Waiting(w)' /\ ~Early(w)'
  BY <1>3 DEF Waiting, Early, Inserts, Finished, Late, Leads
<1>8. \A L \in Writers : ~InGroup(w, L)
  BY DEF Shape, GroupsOK
<1>9. \A v \in Writers : Early(v) \/ Late(v) \/ Inserts(v) => queue # <<>>
  BY DEF Shape, HeadOK
<1>10. QueueOK'
  BY <1>1, <1>4, <1>6, <1>7 DEF Shape, QueueOK
<1>11. GroupsOK'
  <2>1. \A L \in Writers : group'[L].members # <<>> => group'[L].members[1] = L
    BY DEF Shape, GroupsOK
  <2>2. \A L, v \in Writers : InGroup(v, L)' => pc'[v] # "start"
    BY <1>2, <1>3, <1>5 DEF Shape, GroupsOK
  <2>3. \A K, L, v \in Writers : InGroup(v, K)' /\ InGroup(v, L)' => K = L
    BY <1>5 DEF Shape, GroupsOK
  <2>4. ASSUME NEW L \in Writers, NEW i \in 1 .. Len(queue'), InGroup(queue[i], L)'
        PROVE  /\ Len(group'[L].members) <= Len(queue')
               /\ \A j \in 1 .. Len(group'[L].members) : group'[L].members[j] = queue'[j]
    <3>1. i \in 1 .. Len(queue) /\ InGroup(queue[i], L)
      BY <1>1, <1>5, <1>8, <2>4
    <3>2. /\ Len(group[L].members) <= Len(queue)
          /\ \A j \in 1 .. Len(group[L].members) : group[L].members[j] = queue[j]
      BY <3>1 DEF Shape, GroupsOK
    <3>3. QED BY <1>1, <3>2, QueueTypes
  <2>5. \A L \in Writers : \A i, j \in 1 .. Len(group'[L].members) :
          group'[L].members[i] = group'[L].members[j] => i = j
    BY DEF Shape, GroupsOK
  <2>6. QED BY <2>1, <2>2, <2>3, <2>4, <2>5 DEF GroupsOK
<1>12. FreshOK'
  BY <1>2, <1>3 DEF Shape, FreshOK
<1>13. LinksOK'
  BY <1>1, <1>3 DEF Shape, LinksOK
<1>14. HeadOK'
  <2>1. CASE queue = <<>>
    <3>1. queue'[1] = w /\ Len(queue') = 1
      BY <1>1, <2>1
    <3>2. group[w].members = <<>>
      BY <1>8, LeaderInGroup DEF Shape
    <3>3. \A v \in Writers : v # w => pc[v] \notin {"stall", "enter", "log", "sync", "insert"}
      BY <1>9, <2>1 DEF Early
    <3>4. QED
      BY <1>1, <1>2, <1>3, <1>6, <1>7, <1>9, <2>1, <3>1, <3>2, <3>3 DEF HeadOK, Early, Leads, Shape
  <2>2. CASE queue # <<>>
    <3>1. queue'[1] = queue[1] /\ queue[1] \in Writers /\ queue[1] # w
      BY <1>1, <1>4, <2>2
    <3>2. \A v \in Writers : Early(v)' =>
            queue' # <<>> /\ v = queue'[1] /\ \A i \in 2 .. Len(queue') : Waiting(queue[i])'
      BY <1>1, <1>4, <1>6, <1>7, <2>2, <3>1 DEF Shape, HeadOK
    <3>3. \A v \in Writers : (Leads(v) \/ pc[v] \in {"stall", "enter"})' => group'[v].members = <<>>
      BY <1>2, <1>3, <1>6, <2>2 DEF Shape, HeadOK, Leads
    <3>4. \A v \in Writers : pc'[v] \in {"log", "sync", "insert"} => group'[v].members # <<>>
      BY <1>2, <1>3 DEF Shape, HeadOK
    <3>5. \A v \in Writers : (Late(v) \/ Inserts(v))' => queue' # <<>> /\ InGroup(v, queue[1])'
      BY <1>1, <1>5, <1>6, <1>7, <3>1 DEF Shape, HeadOK
    <3>6. /\ \A v \in Writers : pc'[v] = "stall" => state'[v] = "leader"
          /\ \A v \in Writers : pc'[v] = "inserted" => state'[v] = "parallel"
      BY <1>2, <1>3 DEF Shape, HeadOK
    <3>7. \A i \in 2 .. Len(queue') : i > Len(group'[queue'[1]].members) => Waiting(queue[i])'
      BY <1>1, <1>4, <1>6, <1>7, <2>2, <3>1 DEF Shape, HeadOK
    <3>8. QED BY <3>2, <3>3, <3>4, <3>5, <3>6, <3>7 DEF HeadOK
  <2>3. QED BY <2>1, <2>2
<1>15. TokenOK'
  BY <1>6, <1>7, <1>9 DEF Shape, TokenOK
<1>16. CountOK'
  <2>1. Inserting' = Inserting
    BY <1>6, <1>7 DEF Inserting, Inserts
  <2>2. Inserting # {} => queue # <<>>
    BY <1>9 DEF Inserting, Inserts
  <2>3. QED BY <1>1, <2>1, <2>2 DEF Shape, CountOK
<1>17. ReleaseOK'
  <2>1. \A v \in Writers : pc'[v] = "release" => pc[v] = "release"
    BY <1>2, <1>3
  <2>2. \A v \in Writers : Waiting(v) \/ Finished(v) => (Waiting(v) \/ Finished(v))'
    BY <1>6, <1>7
  <2>3. QED BY <2>1, <2>2, ReleaseKept DEF Shape
<1>18. QED
  BY <1>10, <1>11, <1>12, <1>13, <1>14, <1>15, <1>16, <1>17 DEF Shape

\* The leader takes the front of the queue for its group.
LEMMA EnterKeeps ==
  ASSUME ThreadTypes, Shape, ThreadTypes', NEW w \in Writers, NEW p,
         pc[w] = "enter", p \in {"publish", "insert", "log"}, pc' = [pc EXCEPT ![w] = p],
         NEW n \in 1 .. Len(queue), group'[w].members = SubSeq(queue, 1, n),
         \A L \in Writers : L # w => group'[L] = group[L],
         newer' = WithMissing, UNCHANGED <<queue, state>>
  PROVE  Shape'
<1>1. /\ Len(queue) \in Nat /\ \A i \in 1 .. Len(queue) : queue[i] \in Writers
      /\ queue = <<>> <=> Len(queue) = 0
      /\ Len(group'[w].members) = n
      /\ \A i \in 1 .. n : group'[w].members[i] = queue[i]
  BY DEF ThreadTypes
<1>2. \A v \in Writers : v # w => pc'[v] = pc[v]
  BY DEF ThreadTypes
<1>3. pc'[w] = p
  BY DEF ThreadTypes
<1>4. /\ Early(w)
      /\ ~Waiting(w) /\ ~Inserts(w) /\ ~Finished(w)
      /\ ~Waiting(w)' /\ ~Inserts(w)' /\ ~Finished(w)' /\ ~Leads(w)'
      /\ Early(w)' \/ Late(w)'
  BY <1>3 DEF Waiting, Early, Inserts, Finished, Late, Leads
<1>5. \A v \in Writers : v # w =>
        /\ Waiting(v)' <=> Waiting(v)
        /\ Early(v)' <=> Early(v)
        /\ Inserts(v)' <=> Inserts(v)
        /\ Finished(v)' <=> Finished(v)
        /\ Late(v)' <=> Late(v)
        /\ Leads(v)' <=> Leads(v)
  BY <1>2 DEF Waiting, Early, Inserts, Finished, Late, Leads
<1>6. w = queue[1] /\ queue # <<>> /\ \A i \in 2 .. Len(queue) : Waiting(queue[i])
  BY <1>4 DEF Shape, HeadOK
<1>7. \A v \in Writers : v # w => ~Early(v) /\ ~Late(v)
  BY <1>4 DEF Shape, TokenOK
<1>8. \A v \in Writers : ~Inserts(v)
  BY <1>4 DEF Shape, TokenOK
<1>9. \A L \in Writers : ~InGroup(w, L)
  <2>1. group[w].members = <<>>
    BY DEF Shape, HeadOK
  <2>2. ASSUME NEW L \in Writers, InGroup(w, L) PROVE FALSE
    <3>1. Len(group[L].members) >= 1 /\ group[L].members # <<>> /\ 1 \in 1 .. Len(group[L].members)
      BY <2>2, QueueTypes DEF InGroup
    <3>2. group[L].members[1] = L /\ group[L].members[1] = queue[1]
      BY <1>1, <1>6, <2>2, <3>1 DEF Shape, GroupsOK
    <3>3. QED BY <1>6, <2>1, <3>1, <3>2
  <2>3. QED BY <2>2
<1>10. \A v, L \in Writers : L # w => (InGroup(v, L)' <=> InGroup(v, L))
  BY DEF InGroup
<1>11. \A v \in Writers : InGroup(v, w)' <=> \E i \in 1 .. n : queue[i] = v
  BY <1>1 DEF InGroup
<1>12. \A L \in Writers, i \in 1 .. Len(queue) : L # w => ~InGroup(queue[i], L)
  <2>1. ASSUME NEW L \in Writers, NEW i \in 1 .. Len(queue), InGroup(queue[i], L) PROVE FALSE
    <3>1. Len(group[L].members) >= 1 /\ group[L].members # <<>>
      BY <2>1, QueueTypes DEF InGroup
    <3>2. group[L].members[1] = queue[1]
      BY <2>1, <3>1, QueueTypes DEF Shape, GroupsOK
    <3>3. InGroup(w, L)
      BY <1>6, <3>1, <3>2, QueueTypes DEF InGroup
    <3>4. QED BY <1>9, <3>3
  <2>2. QED BY <2>1
<1>13. QueueOK'
  BY <1>1, <1>4, <1>5 DEF Shape, QueueOK
<1>14. GroupsOK'
  <2>1. \A L \in Writers : group'[L].members # <<>> => group'[L].members[1] = L
    BY <1>1, <1>6 DEF Shape, GroupsOK
  <2>2. \A L, v \in Writers : InGroup(v, L)' => pc'[v] # "start"
    <3>1. \A i \in 1 .. Len(queue) : pc'[queue[i]] # "start"
      BY <1>1, <1>13 DEF QueueOK, Waiting, Early, Inserts, Finished, Late, Leads
    <3>2. \A v \in Writers : InGroup(v, w)' => pc'[v] # "start"
      BY <1>1, <1>11, <3>1
    <3>3. \A L, v \in Writers : L # w /\ InGroup(v, L)' => pc'[v] # "start"
      BY <1>2, <1>3, <1>10 DEF Shape, GroupsOK
    <3>4. QED BY <3>2, <3>3
  <2>3. \A K, L, v \in Writers : InGroup(v, K)' /\ InGroup(v, L)' => K = L
    <3>1. ASSUME NEW L \in Writers, NEW v \in Writers, L # w, InGroup(v, w)', InGroup(v, L)'
          PROVE  FALSE
      BY <1>1, <1>10, <1>11, <1>12, <3>1
    <3>2. QED BY <1>10, <3>1 DEF Shape, GroupsOK
  <2>4. ASSUME NEW L \in Writers, NEW i \in 1 .. Len(queue'), InGroup(queue[i], L)'
        PROVE  /\ Len(group'[L].members) <= Len(queue')
               /\ \A j \in 1 .. Len(group'[L].members) : group'[L].members[j] = queue'[j]
    <3>1. L = w
      BY <1>1, <1>10, <1>12, <2>4
    <3>2. QED BY <1>1, <3>1
  <2>5. \A L \in Writers : \A i, j \in 1 .. Len(group'[L].members) :
          group'[L].members[i] = group'[L].members[j] => i = j
    <3>1. \A i, j \in 1 .. n : group'[w].members[i] = group'[w].members[j] => i = j
      BY <1>1 DEF Shape, QueueOK
    <3>2. QED BY <1>1, <3>1 DEF Shape, GroupsOK
  <2>6. QED BY <2>1, <2>2, <2>3, <2>4, <2>5 DEF GroupsOK
<1>15. FreshOK'
  <2>1. ASSUME NEW v \in Writers, pc'[v] = "start" PROVE state'[v] = "init" /\ newer'[v] = None
    <3>1. pc[v] = "start" /\ v # w
      BY <1>2, <1>3, <2>1
    <3>2. \A i \in 1 .. Len(queue) : queue[i] # v
      BY <3>1 DEF Shape, QueueOK, Waiting, Early, Inserts, Finished, Late, Leads
    <3>3. WithMissing[v] = newer[v]
      BY <3>2, NewLinks DEF Shape
    <3>4. QED BY <3>1, <3>3 DEF Shape, FreshOK
  <2>2. QED BY <2>1 DEF FreshOK
<1>16. LinksOK'
  <2>1. /\ \A i \in 1 .. Len(queue) - 1 : newer'[queue[i]] = queue[i + 1]
        /\ \A i \in 1 .. Len(queue) : newer'[queue[i]] # None => i < Len(queue)
    BY NewLinks DEF Shape
  <2>2. \A i \in 1 .. Len(queue) - 1 : newer'[queue[i]] # None
    BY <1>1, <2>1, WritersAssumption
  <2>3. QED BY <1>1, <2>1, <2>2 DEF LinksOK
<1>17. HeadOK'
  <2>1. \A i \in 2 .. Len(queue) : queue[i] # w /\ queue[i] \in Writers
    BY <1>1, <1>6 DEF Shape, QueueOK
  <2>2. \A i \in 2 .. Len(queue') : Waiting(queue[i])'
    BY <1>5, <1>6, <2>1
  <2>3. \A v \in Writers : Early(v)' =>
          queue' # <<>> /\ v = queue'[1] /\ \A i \in 2 .. Len(queue') : Waiting(queue[i])'
    BY <1>5, <1>6, <1>7, <2>2
  <2>4. \A v \in Writers : (Leads(v) \/ pc[v] \in {"stall", "enter"})' => group'[v].members = <<>>
    BY <1>2, <1>3, <1>4, <1>5 DEF Shape, HeadOK
  <2>5. \A v \in Writers : pc'[v] \in {"log", "sync", "insert"} => group'[v].members # <<>>
    <3>1. group'[w].members # <<>>
      BY <1>1
    <3>2. QED BY <1>2, <3>1 DEF Shape, HeadOK
  <2>6. \A v \in Writers : (Late(v) \/ Inserts(v))' => queue' # <<>> /\ InGroup(v, queue[1])'
    <3>1. \A v \in Writers : (Late(v) \/ Inserts(v))' => v = w
      BY <1>4, <1>5, <1>7, <1>8
    <3>2. InGroup(w, w)'
      BY <1>1, <1>6, <1>11
    <3>3. queue'[1] = w
      BY <1>6
    <3>4. QED BY <1>6, <3>1, <3>2, <3>3 DEF InGroup
  <2>7. \A v \in Writers : pc'[v] = "stall" => state'[v] = "leader"
    BY <1>2, <1>3 DEF Shape, HeadOK
  <2>8. \A v \in Writers : pc'[v] = "inserted" => state'[v] = "parallel"
    BY <1>2, <1>3 DEF Shape, HeadOK
  <2>9. QED BY <2>2, <2>3, <2>4, <2>5, <2>6, <2>7, <2>8 DEF HeadOK
<1>18. TokenOK'
  BY <1>4, <1>5, <1>7, <1>8 DEF TokenOK
<1>19. CountOK'
  BY <1>4, <1>5, <1>8 DEF CountOK, Inserting, Inserts
<1>20. ReleaseOK'
  <2>1. \A v \in Writers : pc'[v] = "release" => pc[v] = "release"
    BY <1>2, <1>3
  <2>2. \A v \in Writers : Waiting(v) \/ Finished(v) => (Waiting(v) \/ Finished(v))'
    BY <1>4, <1>5
  <2>3. ASSUME NEW v \in Writers, NEW L \in Writers, pc[v] = "release",
               InGroup(v, L) \/ InGroup(v, L)'
        PROVE  L # w
    <3>1. \A i \in 1 .. Len(queue) : queue[i] # v
      BY <2>3 DEF Shape, QueueOK, Waiting, Early, Inserts, Finished, Late, Leads
    <3>2. ~InGroup(v, w)'
      BY <1>1, <1>11, <3>1
    <3>3. ~InGroup(v, w)
      BY <1>9, LeaderInGroup, QueueTypes DEF Shape, InGroup
    <3>4. QED BY <2>3, <3>2, <3>3
  <2>4. QED BY <2>1, <2>2, <2>3, ReleaseKept DEF Shape
<1>21. QED
  BY <1>13, <1>14, <1>15, <1>16, <1>17, <1>18, <1>19, <1>20 DEF Shape

\* The members of a group of several are told to insert.
LEMMA LaunchKeeps ==
  ASSUME ThreadTypes, Shape, ThreadTypes', NEW w \in Writers,
         pc[w] = "insert", Len(group[w].members) > 1, pc' = [pc EXCEPT ![w] = "await"],
         state' = [v \in Writers |-> IF v \in Members(w) THEN "parallel" ELSE state[v]],
         \A v \in Writers : v \in Members(w) <=> InGroup(v, w),
         group'[w].running = Len(group[w].members),
         \A L \in Writers : /\ group'[L].members = group[L].members
                            /\ group'[L].left = group[L].left,
         UNCHANGED <<queue, newer>>
  PROVE  Shape'
<1> DEFINE n == Len(group[w].members)
<1>1. /\ Len(queue) \in Nat /\ \A i \in 1 .. Len(queue) : queue[i] \in Writers
      /\ queue = <<>> <=> Len(queue) = 0
      /\ n \in Nat /\ n > 1 /\ group[w].members # <<>>
  BY QueueTypes
<1>2. \A v \in Writers : v # w => pc'[v] = pc[v]
  BY DEF ThreadTypes
<1>3. /\ pc'[w] = "await"
      /\ \A v \in Writers : InGroup(v, w) => state'[v] = "parallel"
      /\ \A v \in Writers : ~InGroup(v, w) => state'[v] = state[v]
  BY DEF ThreadTypes
<1>4. Early(w) /\ ~Waiting(w) /\ ~Inserts(w) /\ ~Finished(w) /\ ~Leads(w)
  BY DEF Waiting, Early, Inserts, Finished, Leads
<1>5. w = queue[1] /\ queue # <<>> /\ \A i \in 2 .. Len(queue) : Waiting(queue[i])
  BY <1>4 DEF Shape, HeadOK
<1>6. InGroup(w, w)
  BY <1>1, LeaderInGroup DEF Shape
<1>7. n <= Len(queue) /\ \A i \in 1 .. n : group[w].members[i] = queue[i]
  BY <1>1, <1>5, <1>6 DEF Shape, GroupsOK
<1>8. \A v \in Writers : InGroup(v, w) <=> \E i \in 1 .. n : queue[i] = v
  BY <1>7 DEF InGroup
<1>9. \A v, L \in Writers : InGroup(v, L)' <=> InGroup(v, L)
  BY DEF InGroup
<1>10. \A v \in Writers : v # w => ~Early(v) /\ ~Late(v)
  BY <1>4 DEF Shape, TokenOK
<1>11. ~Late(w) /\ \A v \in Writers : ~Inserts(v)
  BY <1>4 DEF Shape, TokenOK, Late
<1>12. \A v \in Writers : InGroup(v, w) => pc'[v] = "await"
  BY <1>1, <1>2, <1>3, <1>5, <1>7, <1>8 DEF Waiting
<1>13. \A v \in Writers : InGroup(v, w) => Inserts(v)' /\ ~Early(v)' /\ ~Late(v)' /\ ~Leads(v)'
  BY <1>3, <1>12 DEF Inserts, Early, Late, Leads
<1>14. \A v \in Writers : ~InGroup(v, w) =>
        /\ Waiting(v)' <=> Waiting(v)
        /\ Early(v)' <=> Early(v)
        /\ Inserts(v)' <=> Inserts(v)
        /\ Finished(v)' <=> Finished(v)
        /\ Late(v)' <=> Late(v)
        /\ Leads(v)' <=> Leads(v)
  BY <1>2, <1>3, <1>6 DEF Waiting, Early, Inserts, Finished, Late, Leads
<1>15. \A v \in Writers : ~Early(v)' /\ ~Late(v)' /\ (Inserts(v)' <=> InGroup(v, w))
  BY <1>6, <1>10, <1>11, <1>13, <1>14
<1>16. QueueOK'
  BY <1>1, <1>13, <1>14 DEF Shape, QueueOK
<1>17. GroupsOK'
  BY <1>2, <1>3, GroupsKept DEF Shape
<1>18. FreshOK'
  BY <1>2, <1>3, <1>12 DEF Shape, FreshOK
<1>19. LinksOK'
  BY DEF Shape, LinksOK
<1>20. HeadOK'
  <2>1. \A v \in Writers : pc'[v] \notin {"stall", "enter", "log", "sync", "insert"}
    BY <1>15 DEF Early
  <2>2. \A v \in Writers : (Late(v) \/ Inserts(v))' => queue' # <<>> /\ InGroup(v, queue[1])'
    BY <1>5, <1>9, <1>15 DEF InGroup
  <2>3. \A v \in Writers : pc'[v] = "inserted" => state'[v] = "parallel"
    BY <1>15, <1>13, <1>12 DEF Inserts
  <2>4. \A i \in 2 .. Len(queue) : i > n => ~InGroup(queue[i], w)
    BY <1>1, <1>7, <1>8 DEF Shape, QueueOK
  <2>5. \A i \in 2 .. Len(queue') : i > Len(group'[queue'[1]].members) => Waiting(queue[i])'
    BY <1>1, <1>5, <1>14, <2>4
  <2>6. QED BY <1>15, <2>1, <2>2, <2>3, <2>5 DEF HeadOK, Early
<1>21. TokenOK'
  BY <1>15 DEF TokenOK
<1>22. CountOK'
  <2>1. Inserting' = {v \in Writers : InGroup(v, w)}
    BY <1>15 DEF Inserting, Inserts
  <2>2. Inserting' = {queue[i] : i \in 1 .. n}
    BY <1>1, <1>7, <1>8, <2>1
  <2>3. Cardinality(Inserting') = n
    <3> DEFINE f == [i \in 1 .. n |-> queue[i]]
               T == {queue[i] : i \in 1 .. n}
    <3>1. f \in Bijection(1 .. n, T)
      BY <1>1, <1>7 DEF Bijection, Injection, Surjection, IsInjective, Shape, QueueOK
    <3>2. IsFiniteSet(1 .. n) /\ Cardinality(1 .. n) = n
      BY <1>1, FS_Interval
    <3>3. ExistsBijection(1 .. n, T)
      BY <3>1 DEF ExistsBijection
    <3>4. Cardinality(T) = Cardinality(1 .. n)
      BY <3>2, <3>3, FS_Bijection
    <3>5. QED BY <2>2, <3>2, <3>4
  <2>4. group'[queue'[1]].running = n
    BY <1>5
  <2>5. QED BY <2>3, <2>4 DEF CountOK
<1>23. ReleaseOK'
  <2>1. \A v \in Writers : pc'[v] = "release" => pc[v] = "release"
    BY <1>2, <1>3
  <2>2. \A v, L \in Writers : pc[v] = "release" /\ InGroup(v, L) => L # w
    BY <1>2, <1>3, <1>12
  <2>3. \A v, L \in Writers : L # w /\ InGroup(v, L) => ~InGroup(v, w)
    BY DEF Shape, GroupsOK
  <2>4. \A v, L \in Writers : L # w /\ InGroup(v, L) /\ (Waiting(v) \/ Finished(v)) =>
                                                        (Waiting(v) \/ Finished(v))'
    BY <1>14, <2>3
  <2>5. QED BY <1>9, <2>1, <2>2, <2>4, ReleaseKept DEF Shape
<1>24. QED
  BY <1>16, <1>17, <1>18, <1>19, <1>20, <1>21, <1>22, <1>23 DEF Shape

\* A member inserts its batch, and counts itself out.
LEMMA InsertOwnKeeps ==
  ASSUME ThreadTypes, Shape, ThreadTypes', NEW w \in Writers,
         pc[w] = "await", state[w] = "parallel", pc' = [pc EXCEPT ![w] = "inserted"],
         UNCHANGED <<queue, newer, state, group>>
  PROVE  Shape'
<1>1. pc'[w] = "inserted" /\ \A v \in Writers : v # w => pc'[v] = pc[v]
  BY DEF ThreadTypes
<1>2. \A v \in Writers :
        /\ Waiting(v)' <=> Waiting(v)
        /\ Early(v)' <=> Early(v)
        /\ Inserts(v)' <=> Inserts(v)
        /\ Finished(v)' <=> Finished(v)
        /\ Late(v)' <=> Late(v)
        /\ Leads(v)' <=> Leads(v)
  BY <1>1 DEF Waiting, Early, Inserts, Finished, Late, Leads
<1>3. \A v, L \in Writers : InGroup(v, L)' <=> InGroup(v, L)
  BY DEF InGroup
<1>4. /\ Len(queue) \in Nat /\ \A i \in 1 .. Len(queue) : queue[i] \in Writers
      /\ queue = <<>> <=> Len(queue) = 0
  BY QueueTypes
<1>5. QueueOK'
  BY <1>2, <1>4 DEF Shape, QueueOK
<1>6. GroupsOK'
  BY <1>1, GroupsKept DEF Shape
<1>7. FreshOK'
  BY <1>1 DEF Shape, FreshOK
<1>8. LinksOK'
  BY DEF Shape, LinksOK
<1>9. HeadOK'
  <2>1. \A v \in Writers : Early(v)' =>
          queue' # <<>> /\ v = queue'[1] /\ \A i \in 2 .. Len(queue') : Waiting(queue[i])'
    BY <1>2, <1>4 DEF Shape, HeadOK
  <2>2. \A v \in Writers : (Leads(v) \/ pc[v] \in {"stall", "enter"})' => group'[v].members = <<>>
    BY <1>1, <1>2 DEF Shape, HeadOK
  <2>3. \A v \in Writers : pc'[v] \in {"log", "sync", "insert"} => group'[v].members # <<>>
    BY <1>1 DEF Shape, HeadOK
  <2>4. \A v \in Writers : (Late(v) \/ Inserts(v))' => queue' # <<>> /\ InGroup(v, queue[1])'
    BY <1>2, <1>3, <1>4 DEF Shape, HeadOK
  <2>5. /\ \A v \in Writers : pc'[v] = "stall" => state'[v] = "leader"
        /\ \A v \in Writers : pc'[v] = "inserted" => state'[v] = "parallel"
    BY <1>1 DEF Shape, HeadOK
  <2>6. \A i \in 2 .. Len(queue') : i > Len(group'[queue'[1]].members) => Waiting(queue[i])'
    BY <1>2, <1>4 DEF Shape, HeadOK
  <2>7. QED BY <2>1, <2>2, <2>3, <2>4, <2>5, <2>6 DEF HeadOK
<1>10. TokenOK'
  BY <1>2 DEF Shape, TokenOK
<1>11. CountOK'
  BY <1>2 DEF Shape, CountOK, Inserting, Inserts
<1>12. ReleaseOK'
  BY <1>1, <1>2, <1>3, ReleaseKept DEF Shape
<1>13. QED
  BY <1>5, <1>6, <1>7, <1>8, <1>9, <1>10, <1>11, <1>12 DEF Shape

LEMMA CompleteKeeps ==
  ASSUME ThreadTypes, Shape, ThreadTypes', NEW w \in Writers, NEW L \in Writers, NEW p,
         pc[w] = "inserted", InGroup(w, L),
         p = IF group[L].running = 1 THEN "publish" ELSE "finish",
         pc' = [pc EXCEPT ![w] = p],
         group'[L].running = group[L].running - 1,
         \A K \in Writers : /\ group'[K].members = group[K].members
                            /\ group'[K].left = group[K].left
                            /\ K # L => group'[K].running = group[K].running,
         UNCHANGED <<queue, newer, state>>
  PROVE  Shape'
<1>1. pc'[w] = p /\ p \in {"publish", "finish"} /\ \A v \in Writers : v # w => pc'[v] = pc[v]
  BY DEF ThreadTypes
<1>2. \A v \in Writers : v # w =>
        /\ Waiting(v)' <=> Waiting(v)
        /\ Early(v)' <=> Early(v)
        /\ Inserts(v)' <=> Inserts(v)
        /\ Finished(v)' <=> Finished(v)
        /\ Late(v)' <=> Late(v)
        /\ Leads(v)' <=> Leads(v)
  BY <1>1 DEF Waiting, Early, Inserts, Finished, Late, Leads
<1>3. /\ Inserts(w) /\ ~Waiting(w) /\ ~Early(w) /\ ~Finished(w) /\ ~Late(w)
      /\ state[w] = "parallel"
      /\ ~Waiting(w)' /\ ~Early(w)' /\ ~Inserts(w)' /\ ~Leads(w)'
      /\ p = "publish" => Late(w)'
      /\ p = "finish" => Finished(w)' /\ ~Late(w)'
  BY <1>1 DEF Shape, HeadOK, Waiting, Early, Inserts, Finished, Late, Leads
<1>4. \A v \in Writers : ~Early(v) /\ ~Late(v)
  BY <1>3 DEF Shape, TokenOK
<1>5. \A v, K \in Writers : InGroup(v, K)' <=> InGroup(v, K)
  BY DEF InGroup
<1>6. /\ Len(queue) \in Nat /\ \A i \in 1 .. Len(queue) : queue[i] \in Writers
      /\ queue = <<>> <=> Len(queue) = 0
  BY QueueTypes
<1>7. queue # <<>> /\ queue[1] = L
  BY <1>3, <1>6 DEF Shape, HeadOK, GroupsOK
<1>8. InGroup(queue[1], L)
  <2>1. group[L].members # <<>>
    BY QueueTypes DEF InGroup
  <2>2. QED BY <1>7, <2>1, LeaderInGroup DEF Shape
<1>9. /\ Inserting \subseteq Writers /\ w \in Inserting /\ IsFiniteSet(Inserting)
      /\ Inserting' = Inserting \ {w}
      /\ group[L].running = Cardinality(Inserting) /\ Cardinality(Inserting) \in Nat
  <2>1. Inserting \subseteq Writers /\ w \in Inserting
    BY <1>3 DEF Inserting, Inserts
  <2>2. IsFiniteSet(Inserting)
    BY <2>1, WritersAssumption, FS_Subset
  <2>3. Inserting' = Inserting \ {w}
    BY <1>2, <1>3 DEF Inserting, Inserts
  <2>4. group[L].running = Cardinality(Inserting)
    BY <1>7, <2>1 DEF Shape, CountOK
  <2>5. QED BY <2>1, <2>2, <2>3, <2>4, FS_CardinalityType
<1>10. Cardinality(Inserting') = group'[L].running
  BY <1>9, FS_RemoveElement
<1>11. p = "publish" => \A v \in Writers : ~Inserts(v)'
  <2>1. p = "publish" => Cardinality(Inserting') = 0
    BY <1>9, <1>10
  <2>2. IsFiniteSet(Inserting')
    BY <1>9, FS_RemoveElement
  <2>3. p = "publish" => Inserting' = {}
    BY <2>1, <2>2, FS_EmptySet
  <2>4. QED BY <2>3 DEF Inserting, Inserts
<1>12. QueueOK'
  BY <1>1, <1>2, <1>3, <1>6 DEF Shape, QueueOK
<1>13. GroupsOK'
  BY <1>1, GroupsKept DEF Shape
<1>14. FreshOK'
  BY <1>1 DEF Shape, FreshOK
<1>15. LinksOK'
  BY DEF Shape, LinksOK
<1>16. HeadOK'
  <2>1. \A v \in Writers : ~Early(v)'
    BY <1>2, <1>3, <1>4
  <2>2. \A v \in Writers : pc'[v] \notin {"stall", "enter", "log", "sync", "insert"} /\ ~Leads(v)'
    BY <2>1 DEF Early
  <2>3. \A v \in Writers : (Late(v) \/ Inserts(v))' => InGroup(v, L)
    BY <1>2, <1>3, <1>7 DEF Shape, HeadOK
  <2>4. \A v \in Writers : (Late(v) \/ Inserts(v))' => queue' # <<>> /\ InGroup(v, queue[1])'
    BY <1>5, <1>7, <2>3
  <2>5. \A v \in Writers : pc'[v] = "inserted" => state'[v] = "parallel"
    BY <1>1 DEF Shape, HeadOK
  <2>6. \A i \in 2 .. Len(queue') : i > Len(group'[queue'[1]].members) => Waiting(queue[i])'
    BY <1>2, <1>3, <1>6, <1>7 DEF Shape, HeadOK
  <2>7. QED BY <2>1, <2>2, <2>4, <2>5, <2>6 DEF HeadOK
<1>17. TokenOK'
  BY <1>1, <1>2, <1>3, <1>4, <1>11 DEF TokenOK
<1>18. CountOK'
  BY <1>7, <1>10 DEF CountOK
<1>19. ReleaseOK'
  <2>1. \A v \in Writers : pc'[v] = "release" => pc[v] = "release"
    BY <1>1
  <2>2. \A v \in Writers : Waiting(v) \/ Finished(v) => (Waiting(v) \/ Finished(v))'
    BY <1>2, <1>3
  <2>3. QED BY <1>5, <2>1, <2>2, ReleaseKept DEF Shape
<1>20. QED
  BY <1>12, <1>13, <1>14, <1>15, <1>16, <1>17, <1>18, <1>19 DEF Shape

\* Who is not in the queue has no part in what those in it do.
LEMMA OutsideQueue ==
  ASSUME ThreadTypes, Shape, NEW w \in Writers, \A i \in 1 .. Len(queue) : queue[i] # w
  PROVE  ~Early(w) /\ ~Late(w) /\ ~Inserts(w)
<1>1. /\ Len(queue) \in Nat /\ \A i \in 1 .. Len(queue) : queue[i] \in Writers
      /\ queue = <<>> <=> Len(queue) = 0
  BY QueueTypes
<1>2. ~Early(w)
  BY <1>1 DEF Shape, HeadOK
<1>3. ASSUME Late(w) \/ Inserts(w) PROVE FALSE
  <2>1. queue # <<>> /\ InGroup(w, queue[1]) /\ queue[1] \in Writers /\ 1 \in 1 .. Len(queue)
    BY <1>1, <1>3 DEF Shape, HeadOK
  <2>2. InGroup(queue[1], queue[1])
    BY <2>1, LeaderInGroup, QueueTypes DEF Shape, InGroup
  <2>3. /\ Len(group[queue[1]].members) <= Len(queue)
        /\ \A j \in 1 .. Len(group[queue[1]].members) : group[queue[1]].members[j] = queue[j]
    BY <2>1, <2>2 DEF Shape, GroupsOK
  <2>4. QED BY <1>1, <2>1, <2>3, QueueTypes DEF InGroup
<1>4. QED BY <1>2, <1>3

\* A group one of which has left the queue has left it altogether.
LEMMA GroupLeftQueue ==
  ASSUME ThreadTypes, Shape, NEW w \in Writers, NEW v \in Writers, NEW L \in Writers,
         InGroup(w, L), InGroup(v, L), \A i \in 1 .. Len(queue) : queue[i] # w
  PROVE  \A i \in 1 .. Len(queue) : queue[i] # v
<1>1. ASSUME NEW i \in 1 .. Len(queue), queue[i] = v PROVE FALSE
  <2>1. /\ Len(group[L].members) <= Len(queue)
        /\ \A j \in 1 .. Len(group[L].members) : group[L].members[j] = queue[j]
    BY <1>1 DEF Shape, GroupsOK
  <2>2. QED BY <2>1, QueueTypes DEF InGroup
<1>2. QED BY <1>1

\* Who is told to leave, or leaves, is not in the queue.
LEMMA OutOfQueue ==
  ASSUME ThreadTypes, Shape, NEW w \in Writers,
         \/ pc[w] \in {"start", "release", "done", "gone"}
         \/ (state[w] = "completed" /\ pc[w] \in {"await", "finish"})
  PROVE  \A i \in 1 .. Len(queue) : queue[i] # w
BY DEF Shape, QueueOK, Waiting, Early, Inserts, Finished, Late, Leads

\* What is behind the first n elements of a sequence.
LEMMA Suffix ==
  ASSUME NEW s \in Seq(Writers), NEW n \in 0 .. Len(s)
  PROVE  \A t : /\ n = Len(s) => t = <<>>
                /\ n # Len(s) => t = SubSeq(s, n + 1, Len(s))
                => /\ Len(t) \in Nat /\ Len(t) = Len(s) - n
                   /\ \A i \in 1 .. Len(s) - n : t[i] = s[i + n]
<1> SUFFICES ASSUME NEW t, n = Len(s) => t = <<>>, n # Len(s) => t = SubSeq(s, n + 1, Len(s))
             PROVE  /\ Len(t) \in Nat /\ Len(t) = Len(s) - n
                    /\ \A i \in 1 .. Len(s) - n : t[i] = s[i + n]
  OBVIOUS
<1>1. CASE n = Len(s)
  BY <1>1
<1>2. CASE n # Len(s)
  <2>1. t = SubSeq(s, n + 1, Len(s)) /\ n + 1 \in 1 .. Len(s) /\ Len(s) \in Nat
    BY <1>2
  <2>2. Len(t) \in Nat /\ Len(t) = Len(s) - n
    BY <2>1
  <2>3. ASSUME NEW i \in 1 .. Len(s) - n PROVE t[i] = s[i + n]
    <3>1. t[i] = s[(n + 1) + i - 1]
      BY <2>1
    <3>2. (n + 1) + i - 1 = i + n
      BY <2>1
    <3>3. QED BY <3>1, <3>2
  <2>4. QED BY <2>2, <2>3
<1>3. QED BY <1>1, <1>2

LEMMA Shift ==
  \A m, n \in Nat : \A i \in 1 .. m - n : /\ i + n \in Nat /\ i + n \in n + 1 .. m
                                         /\ i + n \in 1 .. m
OBVIOUS

LEMMA NextIndex == \A i, n \in Int : (i + 1) + n = (i + n) + 1
OBVIOUS

\* The queue is left to the writer behind the group.
OthersSame(L) ==
  \A K \in Writers : /\ group'[K].members = group[K].members
                     /\ group'[K].running = group[K].running
                     /\ K # L => group'[K].left = group[K].left
HandsOver(w, L, size) ==
  /\ pc[w] = "exit" /\ InGroup(w, L) /\ pc' = [pc EXCEPT ![w] = "release"]
  /\ size = Len(group[L].members)
  /\ Len(queue) = size => queue' = <<>> /\ UNCHANGED <<newer, state>>
  /\ Len(queue) # size => queue' = SubSeq(queue, size + 1, Len(queue))
  /\ Len(queue) # size => newer' = WithMissing
  /\ Len(queue) # size =>
       state' = [state EXCEPT ![WithMissing[group[L].members[size]]] = "leader"]
  /\ group'[L].left = size
  /\ OthersSame(L)

LEMMA HandoffKeeps ==
  ASSUME ThreadTypes, Shape, ThreadTypes', NEW w \in Writers, NEW L \in Writers,
         NEW size \in Nat, HandsOver(w, L, size)
  PROVE  Shape'
<1>a. pc[w] = "exit" /\ InGroup(w, L) /\ pc' = [pc EXCEPT ![w] = "release"]
  BY DEF HandsOver
<1>b. size = Len(group[L].members)
  BY DEF HandsOver
<1>c. Len(queue) = size => queue' = <<>> /\ UNCHANGED <<newer, state>>
  BY DEF HandsOver
<1>d. Len(queue) # size => queue' = SubSeq(queue, size + 1, Len(queue))
  BY DEF HandsOver
<1>e. Len(queue) # size => newer' = WithMissing
  BY DEF HandsOver
<1>f. Len(queue) # size =>
        state' = [state EXCEPT ![WithMissing[group[L].members[size]]] = "leader"]
  BY DEF HandsOver
<1>g. group'[L].left = size
  BY DEF HandsOver
<1>h. \A K \in Writers : /\ group'[K].members = group[K].members
                         /\ group'[K].running = group[K].running
                         /\ K # L => group'[K].left = group[K].left
  BY DEF HandsOver, OthersSame
<1> USE <1>a, <1>b, <1>c, <1>d, <1>e, <1>f, <1>g, <1>h
<1>1. /\ Len(queue) \in Nat /\ \A i \in 1 .. Len(queue) : queue[i] \in Writers
      /\ queue = <<>> <=> Len(queue) = 0
      /\ size \in Nat /\ size >= 1 /\ group[L].members # <<>>
  BY QueueTypes DEF InGroup
<1>2. pc'[w] = "release" /\ \A v \in Writers : v # w => pc'[v] = pc[v]
  BY DEF ThreadTypes
<1>3. Late(w) /\ ~Early(w) /\ ~Waiting(w) /\ ~Finished(w) /\ ~Inserts(w)
  BY DEF Late, Early, Leads, Waiting, Finished, Inserts
<1>4. queue # <<>> /\ queue[1] = L /\ InGroup(L, L)
  BY <1>1, <1>3, LeaderInGroup DEF Shape, HeadOK, GroupsOK
<1>5. size <= Len(queue) /\ \A j \in 1 .. size : group[L].members[j] = queue[j]
  BY <1>1, <1>4 DEF Shape, GroupsOK
<1>6. \A v \in Writers : InGroup(v, L) <=> \E i \in 1 .. size : queue[i] = v
  BY <1>5 DEF InGroup
<1>7. \A i \in size + 1 .. Len(queue) : Waiting(queue[i])
  BY <1>1, <1>4 DEF Shape, HeadOK
<1>8. /\ \A v \in Writers : v # w => ~Early(v) /\ ~Late(v)
      /\ \A v \in Writers : ~Inserts(v)
  BY <1>3 DEF Shape, TokenOK
<1>9. /\ Len(queue') \in Nat /\ Len(queue') = Len(queue) - size
      /\ \A i \in 1 .. Len(queue) - size : queue'[i] = queue[i + size]
  <2>1. queue \in Seq(Writers) /\ size \in 0 .. Len(queue)
    BY <1>1, <1>5 DEF ThreadTypes
  <2>2. /\ size = Len(queue) => queue' = <<>>
        /\ size # Len(queue) => queue' = SubSeq(queue, size + 1, Len(queue))
    OBVIOUS
  <2>3. \A t : /\ size = Len(queue) => t = <<>>
               /\ size # Len(queue) => t = SubSeq(queue, size + 1, Len(queue))
               => /\ Len(t) \in Nat /\ Len(t) = Len(queue) - size
                  /\ \A i \in 1 .. Len(queue) - size : t[i] = queue[i + size]
    BY <2>1, Suffix, Zenon
  <2>4. QED BY <2>2, <2>3
<1>moved. \A i \in 1 .. Len(queue') :
            /\ queue'[i] = queue[i + size] /\ i \in 1 .. Len(queue) - size
            /\ i + size \in Nat /\ i + size \in size + 1 .. Len(queue)
            /\ i + size \in 1 .. Len(queue)
  <2>1. \A i \in 1 .. Len(queue') : i \in 1 .. Len(queue) - size
    BY <1>9
  <2>2. \A i \in 1 .. Len(queue) - size : queue'[i] = queue[i + size]
    BY <1>9
  <2>3. \A i \in 1 .. Len(queue) - size :
          i + size \in Nat /\ i + size \in size + 1 .. Len(queue) /\ i + size \in 1 .. Len(queue)
    BY <1>1, Shift
  <2>4. QED BY <2>1, <2>2, <2>3
<1>10. Len(queue) # size =>
         /\ queue[size + 1] \in Writers /\ size + 1 \in 1 .. Len(queue)
         /\ WithMissing[group[L].members[size]] = queue[size + 1]
  <2>1. ASSUME Len(queue) # size PROVE size \in 1 .. Len(queue) - 1
    BY <1>1, <1>5, <2>1
  <2>2. group[L].members[size] = queue[size]
    BY <1>1, <1>5
  <2>3. \A i \in 1 .. Len(queue) - 1 : WithMissing[queue[i]] = queue[i + 1]
    BY NewLinks DEF Shape
  <2>4. ASSUME Len(queue) # size
        PROVE  WithMissing[queue[size]] = queue[size + 1] /\ size + 1 \in 1 .. Len(queue)
    <3>1. size \in 1 .. Len(queue) - 1
      BY <2>1, <2>4
    <3>2. size + 1 \in 1 .. Len(queue)
      BY <1>1, <3>1
    <3>3. QED BY <2>3, <3>1, <3>2
  <2>5. QED BY <1>1, <2>2, <2>4
<1>11. \A v \in Writers : (\A i \in 1 .. Len(queue') : queue'[i] # v) => state'[v] = state[v]
  <2>1. CASE Len(queue) = size
    BY <2>1
  <2>2. CASE Len(queue) # size
    <3>0. 1 \in 1 .. Len(queue') /\ 1 + size = size + 1
      BY <1>1, <1>5, <1>9, <2>2
    <3>1. queue'[1] = queue[size + 1] /\ 1 \in 1 .. Len(queue')
      BY <1>moved, <3>0
    <3>2. state' = [state EXCEPT ![queue[size + 1]] = "leader"]
      BY <1>10, <2>2
    <3>3. QED BY <3>1, <3>2 DEF ThreadTypes
  <2>3. QED BY <2>1, <2>2
<1>12. \A i \in 1 .. Len(queue') : /\ queue'[i] \in Writers
                                   /\ \A j \in 1 .. size : queue[j] # queue'[i]
                                   /\ queue'[i] # w
  <2>1. ASSUME NEW i \in 1 .. Len(queue')
        PROVE  /\ queue'[i] \in Writers
               /\ \A j \in 1 .. size : queue[j] # queue'[i]
    <3>1. /\ queue'[i] = queue[i + size] /\ i + size \in Nat
          /\ i + size \in size + 1 .. Len(queue) /\ i + size \in 1 .. Len(queue)
      BY <1>moved, <2>1
    <3>2. queue'[i] \in Writers
      BY <1>1, <3>1
    <3>3. ASSUME NEW j \in 1 .. size
          PROVE  queue[j] # queue'[i]
      <4>1. j \in 1 .. Len(queue) /\ j # i + size
        BY <1>1, <1>5, <3>1
      <4>2. queue[j] = queue[i + size] => j = i + size
        BY <3>1, <4>1 DEF Shape, QueueOK
      <4>3. QED BY <3>1, <4>1, <4>2
    <3>4. QED BY <3>2, <3>3
  <2>2. PICK k \in 1 .. size : queue[k] = w
    BY <1>6
  <2>3. QED BY <2>1, <2>2
<1>13. \A i \in 2 .. Len(queue') : Waiting(queue[i])'
  <2>1. ASSUME NEW i \in 2 .. Len(queue')
        PROVE  pc'[queue'[i]] = "await" /\ state'[queue'[i]] = "init"
    <3>1. /\ Len(queue) # size /\ queue'[i] = queue[i + size]
          /\ i + size \in size + 1 .. Len(queue) /\ i + size \in 1 .. Len(queue)
      <4>1. i \in 1 .. Len(queue') /\ Len(queue') # 0
        BY <1>9, <2>1
      <4>2. Len(queue) # size
        BY <1>9, <4>1
      <4>3. QED BY <1>moved, <4>1, <4>2
    <3>2. queue[i + size] # queue[size + 1]
      <4>1. size + 1 \in 1 .. Len(queue) /\ i + size # size + 1
        BY <1>1, <1>10, <2>1, <3>1
      <4>2. queue[i + size] = queue[size + 1] => i + size = size + 1
        BY <3>1, <4>1 DEF Shape, QueueOK
      <4>3. QED BY <4>1, <4>2
    <3>3. state' = [state EXCEPT ![queue[size + 1]] = "leader"]
      BY <1>10, <3>1
    <3>4. Waiting(queue[i + size])
      BY <1>7, <3>1
    <3>5. QED BY <1>2, <1>12, <2>1, <3>1, <3>2, <3>3, <3>4 DEF Waiting, ThreadTypes
  <2>2. QED BY <2>1 DEF Waiting
<1>14. Len(queue') > 0 => Leads(queue[1])' /\ Early(queue[1])'
  <2>1. ASSUME Len(queue') > 0 PROVE pc'[queue'[1]] = "await" /\ state'[queue'[1]] = "leader"
    <3>1. Len(queue) # size /\ queue'[1] = queue[size + 1]
      BY <1>1, <1>5, <1>9, <2>1
    <3>2. state' = [state EXCEPT ![queue[size + 1]] = "leader"]
      BY <1>10, <3>1
    <3>3. Waiting(queue[size + 1])
      BY <1>7, <1>10, <3>1, <1>1
    <3>4. queue[size + 1] # w
      BY <1>12, <1>9, <1>1, <2>1, <3>1
    <3>5. QED BY <1>2, <1>10, <3>1, <3>2, <3>3, <3>4 DEF Waiting, ThreadTypes
  <2>2. QED BY <2>1 DEF Leads, Early
<1>15. \A v \in Writers : (\A i \in 1 .. Len(queue') : queue'[i] # v) =>
         /\ ~Early(v)' /\ ~Late(v)' /\ ~Inserts(v)' /\ ~Leads(v)'
         /\ (Waiting(v) \/ Finished(v)) => (Waiting(v) \/ Finished(v))'
  BY <1>2, <1>3, <1>8, <1>11 DEF Early, Late, Inserts, Leads, Waiting, Finished
<1>16. \A i \in 1 .. Len(queue') : ~Late(queue[i])' /\ ~Inserts(queue[i])'
  <2>1. \A i \in 2 .. Len(queue') : ~Late(queue[i])' /\ ~Inserts(queue[i])'
    BY <1>13 DEF Waiting, Late, Inserts
  <2>2. Len(queue') > 0 => ~Late(queue[1])' /\ ~Inserts(queue[1])'
    BY <1>14 DEF Leads, Late, Inserts
  <2>3. QED BY <1>1, <1>9, <2>1, <2>2
<1>17. \A v \in Writers : ~Late(v)' /\ ~Inserts(v)'
  <2>1. ASSUME NEW v \in Writers PROVE ~Late(v)' /\ ~Inserts(v)'
    <3>1. CASE \E i \in 1 .. Len(queue') : queue'[i] = v
      BY <1>16, <3>1 DEF Late, Inserts
    <3>2. CASE \A i \in 1 .. Len(queue') : queue'[i] # v
      BY <1>15, <3>2
    <3>3. QED BY <3>1, <3>2
  <2>2. QED BY <2>1
<1>18. \A v \in Writers : Early(v)' => Len(queue') > 0 /\ queue'[1] = v
  <2>1. ASSUME NEW v \in Writers, Early(v)' PROVE Len(queue') > 0 /\ queue'[1] = v
    <3>1. PICK i \in 1 .. Len(queue') : queue'[i] = v
      BY <1>15, <2>1
    <3>2. CASE i = 1
      BY <1>1, <1>9, <3>1, <3>2
    <3>3. CASE i \in 2 .. Len(queue')
      BY <1>13, <2>1, <3>1, <3>3 DEF Waiting, Early, Leads
    <3>4. QED BY <3>2, <3>3
  <2>2. QED BY <2>1
<1>19. \A v, K \in Writers : InGroup(v, K)' <=> InGroup(v, K)
  BY DEF InGroup
<1>20. \A K \in Writers, i \in 1 .. Len(queue') : ~InGroup(queue'[i], K)
  <2>1. ASSUME NEW K \in Writers, NEW i \in 1 .. Len(queue'), InGroup(queue'[i], K) PROVE FALSE
    <3>1. i + size \in 1 .. Len(queue) /\ queue'[i] = queue[i + size]
      BY <1>moved, <2>1
    <3>2. /\ Len(group[K].members) >= 1 /\ group[K].members # <<>>
          /\ group[K].members[1] = queue[1]
      <4>1. \E j \in 1 .. Len(group[K].members) : group[K].members[j] = queue'[i]
        BY <2>1 DEF InGroup
      <4>2. Len(group[K].members) \in Nat /\ (group[K].members = <<>> <=> Len(group[K].members) = 0)
        BY QueueTypes
      <4>3. Len(group[K].members) >= 1 /\ group[K].members # <<>>
        BY <4>1, <4>2
      <4>4. InGroup(queue[i + size], K)
        BY <3>1, <4>1 DEF InGroup
      <4>5. \A j \in 1 .. Len(group[K].members) : group[K].members[j] = queue[j]
        BY <3>1, <4>4 DEF Shape, GroupsOK
      <4>6. QED BY <4>2, <4>3, <4>5
    <3>3. K = L
      BY <1>4, <3>2 DEF Shape, GroupsOK
    <3>4. QED BY <1>6, <1>12, <2>1, <3>3
  <2>2. QED BY <2>1
<1>21. QueueOK'
  <2>1. ASSUME NEW i \in 1 .. Len(queue'), NEW j \in 1 .. Len(queue'), queue'[i] = queue'[j]
        PROVE  i = j
    <3>1. /\ queue'[i] = queue[i + size] /\ queue'[j] = queue[j + size]
          /\ i + size \in 1 .. Len(queue) /\ j + size \in 1 .. Len(queue)
      BY <1>moved
    <3>2. \A k, l \in 1 .. Len(queue) : queue[k] = queue[l] => k = l
      BY DEF Shape, QueueOK
    <3>3. i + size = j + size
      BY <2>1, <3>1, <3>2
    <3>4. i \in Int /\ j \in Int /\ size \in Int
      BY <1>1, <1>9
    <3>5. QED BY <3>3, <3>4
  <2>2. \A i \in 1 .. Len(queue') : Waiting(queue[i])' \/ Early(queue[i])'
    <3>1. Len(queue') > 0 => Early(queue[1])'
      BY <1>14
    <3>2. \A i \in 1 .. Len(queue') : i = 1 \/ i \in 2 .. Len(queue')
      BY <1>1, <1>9
    <3>3. \A i \in 2 .. Len(queue') : Waiting(queue[i])'
      BY <1>13
    <3>4. \A i \in 1 .. Len(queue') : i = 1 => Len(queue') > 0
      BY <1>1, <1>9
    <3>5. QED BY <3>1, <3>2, <3>3, <3>4
  <2>3. QED BY <2>1, <2>2 DEF QueueOK
<1>22. GroupsOK'
  <2>1. \A K \in Writers : group'[K].members # <<>> => group'[K].members[1] = K
    BY DEF Shape, GroupsOK
  <2>2. \A K, v \in Writers : InGroup(v, K)' => pc'[v] # "start"
    BY <1>2, <1>19 DEF Shape, GroupsOK
  <2>3. \A J, K, v \in Writers : InGroup(v, J)' /\ InGroup(v, K)' => J = K
    BY <1>19 DEF Shape, GroupsOK
  <2>4. \A K \in Writers : \A i, j \in 1 .. Len(group'[K].members) :
          group'[K].members[i] = group'[K].members[j] => i = j
    BY DEF Shape, GroupsOK
  <2>5. \A K \in Writers, i \in 1 .. Len(queue') : ~InGroup(queue[i], K)'
    BY <1>20 DEF InGroup
  <2>6. QED BY <2>1, <2>2, <2>3, <2>4, <2>5 DEF GroupsOK
<1>23. FreshOK'
  <2>1. ASSUME NEW v \in Writers, pc'[v] = "start" PROVE state'[v] = "init" /\ newer'[v] = None
    <3>1. pc[v] = "start" /\ state[v] = "init" /\ newer[v] = None
      BY <1>2, <2>1 DEF Shape, FreshOK
    <3>2. \A i \in 1 .. Len(queue) : queue[i] # v
      BY <3>1, OutOfQueue
    <3>3. state'[v] = state[v]
      BY <1>1, <1>5, <1>9, <1>11, <3>2
    <3>4. WithMissing[v] = newer[v]
      BY <3>2, NewLinks DEF Shape
    <3>5. QED BY <3>1, <3>3, <3>4
  <2>2. QED BY <2>1 DEF FreshOK
<1>24. LinksOK'
  <2>1. CASE Len(queue) = size
    BY <1>9, <2>1, <1>1 DEF LinksOK
  <2>2. CASE Len(queue) # size
    <3>1. /\ \A i \in 1 .. Len(queue) - 1 : newer'[queue[i]] = queue[i + 1]
          /\ \A i \in 1 .. Len(queue) : newer'[queue[i]] # None => i < Len(queue)
      BY <2>2, NewLinks DEF Shape
    <3>2. \A i \in 1 .. Len(queue') - 1 :
            newer'[queue'[i]] = queue'[i + 1] /\ queue'[i + 1] \in Writers
      <4>1. ASSUME NEW i \in 1 .. Len(queue') - 1
            PROVE  newer'[queue'[i]] = queue'[i + 1]
        <5>1. /\ i \in 1 .. Len(queue) - size /\ i + 1 \in 1 .. Len(queue) - size
              /\ i + size \in 1 .. Len(queue) - 1
          BY <1>1, <1>5, <1>9
        <5>2. queue'[i] = queue[i + size] /\ queue'[i + 1] = queue[(i + size) + 1]
          <6>1. i \in Int /\ size \in Int
            BY <1>9
          <6>2. (i + 1) + size = (i + size) + 1
            BY <6>1, NextIndex
          <6>3. QED BY <1>9, <5>1, <6>2
        <5>3. QED BY <3>1, <5>1, <5>2
      <4>2. \A i \in 1 .. Len(queue') - 1 : i + 1 \in 1 .. Len(queue')
        BY <1>1, <1>5, <1>9
      <4>3. QED BY <1>12, <4>1, <4>2
    <3>3. ASSUME NEW i \in 1 .. Len(queue'), newer'[queue'[i]] # None
          PROVE  i < Len(queue')
      <4>1. i + size \in 1 .. Len(queue) /\ queue'[i] = queue[i + size]
        BY <1>moved, <3>3
      <4>2. i + size < Len(queue)
        BY <3>1, <3>3, <4>1
      <4>3. QED BY <1>1, <1>9, <4>2
    <3>4. \A i \in 1 .. Len(queue') - 1 : newer'[queue'[i]] # None
      BY <3>2, WritersAssumption
    <3>5. ASSUME NEW i \in 1 .. Len(queue'), newer'[queue'[i]] # None
          PROVE  /\ i < Len(queue') /\ newer'[queue'[i]] = queue'[i + 1]
                 /\ \A j \in 1 .. i : newer'[queue'[j]] # None
      <4>1. /\ i < Len(queue') /\ i \in 1 .. Len(queue') - 1
            /\ \A j \in 1 .. i : j \in 1 .. Len(queue') - 1
        BY <1>9, <3>3, <3>5
      <4>2. QED BY <3>2, <3>4, <4>1
    <3>6. QED BY <3>5 DEF LinksOK
  <2>3. QED BY <2>1, <2>2
<1>25. HeadOK'
  <2>1. \A v \in Writers : Early(v)' =>
          queue' # <<>> /\ v = queue'[1] /\ \A i \in 2 .. Len(queue') : Waiting(queue[i])'
    BY <1>13, <1>18
  <2>2. ASSUME NEW v \in Writers, Early(v)'
        PROVE  /\ pc'[v] \notin {"stall", "enter", "log", "sync", "insert", "inserted"}
               /\ group'[v].members = <<>>
    <3>1. queue'[1] = v /\ Len(queue') > 0
      BY <1>18, <2>2
    <3>2. pc'[v] = "await"
      BY <1>14, <3>1 DEF Leads
    <3>3. ~InGroup(v, v)
      BY <1>1, <1>9, <1>20, <3>1
    <3>4. QED BY <3>2, <3>3, LeaderInGroup DEF Shape
  <2>3. \A v \in Writers : pc'[v] \notin {"stall", "enter", "log", "sync", "insert", "inserted"}
    BY <1>17, <2>2 DEF Early, Inserts
  <2>4. \A v \in Writers : Leads(v)' => group'[v].members = <<>>
    BY <2>2 DEF Early
  <2>5. QED BY <1>13, <1>17, <2>1, <2>3, <2>4 DEF HeadOK
<1>26. TokenOK'
  BY <1>17, <1>18 DEF TokenOK
<1>27. CountOK'
  BY <1>17 DEF CountOK, Inserting, Inserts
<1>28. ReleaseOK'
  <2>1. ASSUME NEW v \in Writers, v # w, pc'[v] = "release"
        PROVE  /\ \E K \in Writers : InGroup(v, K)'
               /\ \A K \in Writers : InGroup(v, K)' => Leaving(v, K)'
    <3>1. pc[v] = "release" /\ \A i \in 1 .. Len(queue) : queue[i] # v
      BY <1>2, <2>1, OutOfQueue
    <3>2. \E K \in Writers : InGroup(v, K)'
      BY <1>19, <3>1 DEF Shape, ReleaseOK
    <3>3. ASSUME NEW K \in Writers, InGroup(v, K)' PROVE Leaving(v, K)'
      <4>1. InGroup(v, K) /\ Leaving(v, K)
        BY <1>19, <3>1, <3>3 DEF Shape, ReleaseOK
      <4>2. K # L
        BY <1>1, <1>5, <1>6, <3>1, <4>1
      <4>3. ~InGroup(w, K)
        BY <4>2 DEF Shape, GroupsOK
      <4>4. \A u \in Writers : InGroup(u, K) => u # w /\ \A i \in 1 .. Len(queue') : queue'[i] # u
        BY <1>20, <4>3
      <4>5. QED BY <1>2, <1>15, <4>1, <4>2, <4>4, LeavingKept
    <3>4. QED BY <3>2, <3>3
  <2>2. \E K \in Writers : InGroup(w, K)'
    BY <1>19
  <2>3. ASSUME NEW K \in Writers, InGroup(w, K)' PROVE Leaving(w, K)'
    <3>1. K = L
      BY <1>19, <2>3 DEF Shape, GroupsOK
    <3>2. ASSUME NEW i \in 1 .. size
          PROVE  \/ group'[L].members[i] = w
                 \/ (Waiting(group[L].members[i]) \/ Finished(group[L].members[i]))'
      <4>1. queue[i] \in Writers /\ i \in 1 .. Len(queue)
        BY <1>1, <1>5
      <4>2. queue[i] = w \/ Waiting(queue[i]) \/ Finished(queue[i])
        BY <1>8, <4>1 DEF Shape, QueueOK
      <4>3. \A j \in 1 .. Len(queue') : queue'[j] # queue[i]
        BY <1>12
      <4> DEFINE u == queue[i]
      <4>4. (Waiting(u) \/ Finished(u)) /\ u # w => pc'[u] = pc[u] /\ state'[u] = state[u]
        BY <1>2, <1>11, <4>1, <4>3
      <4>5. group'[L].members[i] = u
        BY <1>5
      <4>6. QED BY <4>2, <4>4, <4>5 DEF Waiting, Finished
    <3>3. ASSUME NEW v \in Writers, InGroup(v, L)', pc'[v] = "release" PROVE v = w
      <4>1. \E i \in 1 .. Len(queue) : queue[i] = v
        BY <1>1, <1>5, <1>6, <1>19, <3>3
      <4>2. pc[v] # "release"
        BY <4>1, OutOfQueue
      <4>3. QED BY <1>2, <3>3, <4>2
    <3>4. /\ group'[L].left = size /\ group'[L].members = group[L].members
          /\ size \in 1 .. Len(group'[L].members)
      BY <1>1
    <3>5. QED BY <3>1, <3>2, <3>3, <3>4 DEF Leaving
  <2>4. QED BY <2>1, <2>2, <2>3 DEF ReleaseOK
<1>29. QED
  BY <1>21, <1>22, <1>23, <1>24, <1>25, <1>26, <1>27, <1>28 DEF Shape

\* A writer that leaves tells a member of its group to, or returns.
LEMMA TellKeeps ==
  ASSUME ThreadTypes, Shape, ThreadTypes', NEW w \in Writers, NEW L \in Writers, NEW v \in Writers,
         pc[w] = "release", InGroup(w, L), InGroup(v, L),
         \A u \in Writers : u # v => state'[u] = state[u],
         state'[v] \in {"completed", state[v]},
         \A K \in Writers : /\ group'[K].members = group[K].members
                            /\ group'[K].running = group[K].running
                            /\ K # L => group'[K].left = group[K].left,
         \/ /\ UNCHANGED pc
            /\ group[L].left > 1 /\ group'[L].left = group[L].left - 1
            /\ v = group[L].members[group[L].left]
         \/ pc' = [pc EXCEPT ![w] = "done"],
         UNCHANGED <<queue, newer>>
  PROVE  Shape'
<1>1. /\ Len(queue) \in Nat /\ \A i \in 1 .. Len(queue) : queue[i] \in Writers
      /\ queue = <<>> <=> Len(queue) = 0
  BY QueueTypes
<1>2. pc'[w] \in {"release", "done"} /\ \A u \in Writers : u # w => pc'[u] = pc[u]
  BY DEF ThreadTypes
<1>3. \A i \in 1 .. Len(queue) : queue[i] # w
  BY OutOfQueue
<1>4. \A i \in 1 .. Len(queue) : queue[i] # v
  BY <1>3, GroupLeftQueue
<1>5. ~Early(v) /\ ~Late(v) /\ ~Inserts(v)
  BY <1>4, OutsideQueue
<1>6. \A u \in Writers : u # v =>
        /\ Early(u)' <=> Early(u)
        /\ Inserts(u)' <=> Inserts(u)
        /\ Late(u)' <=> Late(u)
        /\ Leads(u)' <=> Leads(u)
        /\ Waiting(u)' <=> Waiting(u)
        /\ Finished(u)' <=> Finished(u)
  BY <1>2 DEF Early, Inserts, Late, Leads, Waiting, Finished
<1>7. ~Early(v)' /\ ~Late(v)' /\ ~Inserts(v)' /\ ~Leads(v)'
  BY <1>2, <1>5 DEF Early, Inserts, Late, Leads
<1>8. \A u, K \in Writers : InGroup(u, K)' <=> InGroup(u, K)
  BY DEF InGroup
<1>9. pc[v] # "start"
  BY DEF Shape, GroupsOK
<1>10. QueueOK'
  BY <1>1, <1>4, <1>6 DEF Shape, QueueOK
<1>11. GroupsOK'
  BY <1>2, GroupsKept DEF Shape
<1>12. FreshOK'
  BY <1>2, <1>9 DEF Shape, FreshOK
<1>13. LinksOK'
  BY DEF Shape, LinksOK
<1>14. HeadOK'
  <2>1. \A u \in Writers : Early(u)' =>
          queue' # <<>> /\ u = queue'[1] /\ \A i \in 2 .. Len(queue') : Waiting(queue[i])'
    BY <1>1, <1>4, <1>6, <1>7 DEF Shape, HeadOK
  <2>2. \A u \in Writers : (Leads(u) \/ pc[u] \in {"stall", "enter"})' => group'[u].members = <<>>
    BY <1>2, <1>6, <1>7 DEF Shape, HeadOK
  <2>3. \A u \in Writers : pc'[u] \in {"log", "sync", "insert"} => group'[u].members # <<>>
    BY <1>2 DEF Shape, HeadOK
  <2>4. \A u \in Writers : (Late(u) \/ Inserts(u))' => queue' # <<>> /\ InGroup(u, queue[1])'
    BY <1>1, <1>6, <1>7, <1>8 DEF Shape, HeadOK
  <2>5. ASSUME NEW u \in Writers
        PROVE  /\ pc'[u] = "stall" => state'[u] = "leader"
               /\ pc'[u] = "inserted" => state'[u] = "parallel"
    <3>1. CASE u = v
      BY <1>7, <3>1 DEF Early, Inserts
    <3>2. CASE u # v
      BY <1>2, <3>2 DEF Shape, HeadOK
    <3>3. QED BY <3>1, <3>2
  <2>6. \A i \in 2 .. Len(queue') : i > Len(group'[queue'[1]].members) => Waiting(queue[i])'
    BY <1>1, <1>4, <1>6 DEF Shape, HeadOK
  <2>7. QED BY <2>1, <2>2, <2>3, <2>4, <2>5, <2>6 DEF HeadOK
<1>15. TokenOK'
  BY <1>6, <1>7 DEF Shape, TokenOK
<1>16. CountOK'
  <2>1. Inserting' = Inserting
    BY <1>5, <1>6, <1>7 DEF Inserting, Inserts
  <2>2. Inserting # {} => queue # <<>>
    BY DEF Inserting, Inserts, Shape, HeadOK
  <2>3. QED BY <1>1, <2>1, <2>2 DEF Shape, CountOK
<1>17. ReleaseOK'
  <2>1. Leaving(w, L)
    BY DEF Shape, ReleaseOK
  <2>2. ASSUME NEW u \in Writers, pc'[u] = "release"
        PROVE  /\ \E K \in Writers : InGroup(u, K)'
               /\ \A K \in Writers : InGroup(u, K)' => Leaving(u, K)'
    <3>1. pc[u] = "release"
      BY <1>2, <2>2
    <3>2. \E K \in Writers : InGroup(u, K)'
      BY <1>8, <3>1 DEF Shape, ReleaseOK
    <3>3. ASSUME NEW K \in Writers, InGroup(u, K)' PROVE Leaving(u, K)'
      <4>1. InGroup(u, K) /\ Leaving(u, K)
        BY <1>8, <3>1, <3>3 DEF Shape, ReleaseOK
      <4>2. CASE K # L
        <5>1. \A x \in Writers : InGroup(x, K) => x # w /\ x # v
          BY <4>2 DEF Shape, GroupsOK
        <5>2. \A x \in Writers : InGroup(x, K) /\ (Waiting(x) \/ Finished(x)) =>
                                 (Waiting(x) \/ Finished(x))'
          BY <1>6, <5>1
        <5>3. \A x \in Writers : InGroup(x, K) /\ pc'[x] = "release" => pc[x] = "release"
          BY <1>2
        <5>4. QED BY <4>1, <4>2, <5>2, <5>3, LeavingKept
      <4>3. CASE K = L
        <5>1. u = w
          BY <2>1, <3>1, <4>1, <4>3 DEF Leaving
        <5>2. /\ group[L].left > 1 /\ group'[L].left = group[L].left - 1
              /\ v = group[L].members[group[L].left] /\ pc' = pc
          BY <2>2, <5>1 DEF ThreadTypes
        <5>3. /\ group[L].left \in 1 .. Len(group[L].members) /\ group[L].left \in Nat
              /\ Len(group[L].members) \in Nat
          BY <2>1, QueueTypes DEF Leaving
        <5>4. ASSUME NEW i \in 1 .. group'[L].left
              PROVE  \/ group'[L].members[i] = u
                     \/ Waiting(group[L].members[i])' \/ Finished(group[L].members[i])'
          <6> DEFINE x == group[L].members[i]
          <6>1. i \in 1 .. group[L].left /\ i \in 1 .. Len(group[L].members) /\ i # group[L].left
            BY <5>2, <5>3
          <6>2. x \in Writers /\ (x = w \/ Waiting(x) \/ Finished(x))
            BY <2>1, <6>1, QueueTypes DEF Leaving
          <6>3. x # v
            BY <5>2, <5>3, <6>1 DEF Shape, GroupsOK
          <6>4. x = w \/ Waiting(x) \/ Finished(x) =>
                  x = w \/ (pc'[x] = pc[x] /\ state'[x] = state[x])
            BY <1>2, <6>2, <6>3
          <6>5. group'[L].members[i] = x
            OBVIOUS
          <6> HIDE DEF x
          <6>6. QED BY <5>1, <6>2, <6>4, <6>5 DEF Waiting, Finished
        <5>5. group'[L].left \in 1 .. Len(group'[L].members)
          BY <5>2, <5>3
        <5>6. \A x \in Writers : InGroup(x, L)' /\ pc'[x] = "release" => x = u
          BY <1>8, <2>1, <5>1, <5>2 DEF Leaving
        <5>7. QED BY <4>3, <5>4, <5>5, <5>6 DEF Leaving
      <4>4. QED BY <4>2, <4>3
    <3>4. QED BY <3>2, <3>3
  <2>3. QED BY <2>2 DEF ReleaseOK
<1>18. QED
  BY <1>10, <1>11, <1>12, <1>13, <1>14, <1>15, <1>16, <1>17 DEF Shape

\* A writer that is not in the queue comes or goes, and the rest stays.
LEMMA OutsiderKeeps ==
  ASSUME ThreadTypes, Shape, ThreadTypes', NEW w \in Writers, NEW p, NEW s,
         \A i \in 1 .. Len(queue) : queue[i] # w,
         pc[w] # "release", p # "start", ~Waiting(w) /\ ~Finished(w),
         pc' = [pc EXCEPT ![w] = p], state' = [state EXCEPT ![w] = s],
         p = "done" \/ (p = "await" /\ s = "completed"),
         UNCHANGED <<queue, newer, group>>
  PROVE  Shape'
<1>1. /\ Len(queue) \in Nat /\ \A i \in 1 .. Len(queue) : queue[i] \in Writers
      /\ queue = <<>> <=> Len(queue) = 0
  BY QueueTypes
<1>2. /\ pc'[w] = p /\ state'[w] = s
      /\ \A u \in Writers : u # w => pc'[u] = pc[u] /\ state'[u] = state[u]
  BY DEF ThreadTypes
<1>3. \A u \in Writers : u # w =>
        /\ Early(u)' <=> Early(u)
        /\ Inserts(u)' <=> Inserts(u)
        /\ Late(u)' <=> Late(u)
        /\ Leads(u)' <=> Leads(u)
        /\ Waiting(u)' <=> Waiting(u)
        /\ Finished(u)' <=> Finished(u)
  BY <1>2 DEF Early, Inserts, Late, Leads, Waiting, Finished
<1>4. ~Early(w) /\ ~Late(w) /\ ~Inserts(w)
  BY OutsideQueue
<1>5. ~Early(w)' /\ ~Late(w)' /\ ~Inserts(w)' /\ ~Leads(w)'
  BY <1>2 DEF Early, Inserts, Late, Leads
<1>6. \A u, K \in Writers : InGroup(u, K)' <=> InGroup(u, K)
  BY DEF InGroup
<1>7. QueueOK'
  BY <1>1, <1>3 DEF Shape, QueueOK
<1>8. GroupsOK'
  BY <1>2, GroupsKept DEF Shape
<1>9. FreshOK'
  BY <1>2 DEF Shape, FreshOK
<1>10. LinksOK'
  BY DEF Shape, LinksOK
<1>11. HeadOK'
  <2>1. \A u \in Writers : Early(u)' =>
          queue' # <<>> /\ u = queue'[1] /\ \A i \in 2 .. Len(queue') : Waiting(queue[i])'
    BY <1>1, <1>3, <1>5 DEF Shape, HeadOK
  <2>2. \A u \in Writers : (Leads(u) \/ pc[u] \in {"stall", "enter"})' => group'[u].members = <<>>
    BY <1>2, <1>3, <1>5 DEF Shape, HeadOK
  <2>3. \A u \in Writers : pc'[u] \in {"log", "sync", "insert"} => group'[u].members # <<>>
    BY <1>2 DEF Shape, HeadOK
  <2>4. \A u \in Writers : (Late(u) \/ Inserts(u))' => queue' # <<>> /\ InGroup(u, queue[1])'
    BY <1>1, <1>3, <1>5, <1>6 DEF Shape, HeadOK
  <2>5. /\ \A u \in Writers : pc'[u] = "stall" => state'[u] = "leader"
        /\ \A u \in Writers : pc'[u] = "inserted" => state'[u] = "parallel"
    BY <1>2 DEF Shape, HeadOK
  <2>6. \A i \in 2 .. Len(queue') : i > Len(group'[queue'[1]].members) => Waiting(queue[i])'
    BY <1>1, <1>3 DEF Shape, HeadOK
  <2>7. QED BY <2>1, <2>2, <2>3, <2>4, <2>5, <2>6 DEF HeadOK
<1>12. TokenOK'
  BY <1>3, <1>5 DEF Shape, TokenOK
<1>13. CountOK'
  <2>1. Inserting' = Inserting
    BY <1>3, <1>4, <1>5 DEF Inserting, Inserts
  <2>2. Inserting # {} => queue # <<>>
    BY DEF Inserting, Inserts, Shape, HeadOK
  <2>3. QED BY <1>1, <2>1, <2>2 DEF Shape, CountOK
<1>14. ReleaseOK'
  <2>1. \A u \in Writers : pc'[u] = "release" => pc[u] = "release"
    BY <1>2
  <2>2. \A u \in Writers : Waiting(u) \/ Finished(u) => (Waiting(u) \/ Finished(u))'
    BY <1>3
  <2>3. QED BY <2>1, <2>2, ReleaseKept DEF Shape
<1>15. QED
  BY <1>7, <1>8, <1>9, <1>10, <1>11, <1>12, <1>13, <1>14 DEF Shape

\* The process ends: no queue, and nobody in flight.
LEMMA RestartKeeps ==
  ASSUME ThreadTypes, Shape, queue' = <<>>, newer' = [w \in Writers |-> None],
         pc' = [w \in Writers |-> IF w \in InFlight THEN "gone" ELSE pc[w]],
         UNCHANGED <<state, group>>
  PROVE  Shape'
<1>1. \A w \in Writers : /\ pc'[w] \in {"start", "done", "gone"}
                         /\ pc'[w] = "start" => pc[w] = "start"
                         /\ newer'[w] = None
  BY DEF InFlight
<1>2. Len(queue') = 0
  OBVIOUS
<1>3. \A u, K \in Writers : InGroup(u, K)' <=> InGroup(u, K)
  BY DEF InGroup
<1>4. \A w \in Writers : ~Early(w)' /\ ~Late(w)' /\ ~Inserts(w)' /\ ~Leads(w)'
  BY <1>1 DEF Early, Late, Inserts, Leads
<1>5. QueueOK' /\ LinksOK'
  BY <1>2 DEF QueueOK, LinksOK
<1>6. GroupsOK'
  BY <1>1, <1>2, <1>3 DEF Shape, GroupsOK
<1>7. FreshOK'
  BY <1>1 DEF Shape, FreshOK
<1>8. HeadOK'
  BY <1>1, <1>2, <1>4 DEF HeadOK
<1>9. TokenOK'
  BY <1>4 DEF TokenOK
<1>10. CountOK'
  BY <1>4 DEF CountOK, Inserting, Inserts
<1>11. ReleaseOK'
  BY <1>1 DEF ReleaseOK
<1>12. QED BY <1>5, <1>6, <1>7, <1>8, <1>9, <1>10, <1>11 DEF Shape

-----------------------------------------------------------------------------
(***************************************************************************)
(* The invariant is inductive.                                             *)
(***************************************************************************)
\* A write that is grouped with others is in one group.
LEMMA GroupOfMember ==
  ASSUME IInv, NEW w \in Writers, NEW L \in Writers, InGroup(w, L)
  PROVE  GroupOf(w) = L
<1>1. \A K \in Writers : w \in Members(K) <=> InGroup(w, K)
  BY MembersType DEF IInv, InGroup
<1>2. \A K \in Writers : w \in Members(K) => K = L
  BY <1>1 DEF IInv, Shape, GroupsOK
<1>3. QED BY <1>1, <1>2 DEF GroupOf

LEMMA GroupedWriters ==
  ASSUME IInv, NEW w \in Writers, pc[w] \in {"inserted", "publish", "exit", "release"}
  PROVE  GroupOf(w) \in Writers /\ InGroup(w, GroupOf(w))
<1>1. ThreadTypes
  BY Types DEF IInv
<1>2. \E L \in Writers : InGroup(w, L)
  <2>1. CASE pc[w] = "release"
    BY <2>1 DEF IInv, Shape, ReleaseOK
  <2>2. CASE pc[w] # "release"
    <3>1. Late(w) \/ Inserts(w)
      BY <2>2 DEF Late, Inserts
    <3>2. QED BY <1>1, <3>1, QueueTypes DEF IInv, Shape, HeadOK
  <2>3. QED BY <2>1, <2>2
<1>3. QED BY <1>2, GroupOfMember

LEMMA RunningIsPositive ==
  ASSUME IInv, NEW w \in Writers, pc[w] = "inserted"
  PROVE  group[GroupOf(w)].running \in Nat /\ group[GroupOf(w)].running >= 1
<1>1. ThreadTypes
  BY Types DEF IInv
<1>2. w \in Inserting /\ Inserting \subseteq Writers
  BY DEF Inserting
<1>3. Inserts(w) /\ queue # <<>> /\ InGroup(w, queue[1]) /\ queue[1] \in Writers
  BY <1>1, QueueTypes DEF Inserts, IInv, Shape, HeadOK
<1>4. GroupOf(w) = queue[1]
  BY <1>3, GroupOfMember
<1>5. group[queue[1]].running = Cardinality(Inserting)
  BY <1>2 DEF IInv, Shape, CountOK
<1>6. Cardinality(Inserting) \in Nat /\ Cardinality(Inserting) # 0
  BY <1>2, WritersAssumption, FS_Subset, FS_CardinalityType, FS_EmptySet
<1>7. QED BY <1>4, <1>5, <1>6

\* What a replay finds in the log are writers' batches.
LEMMA ReplayedType ==
  ASSUME TypeOK, NEW n \in 0 .. Len(log)
  PROVE  Replayed(SubSeq(log, 1, n)) \subseteq Writers
<1> DEFINE R == [batches : Seq(Writers), first : Nat, torn : BOOLEAN]
           rs == SubSeq(log, 1, n)
<1>1. log \in Seq(R)
  BY DEF TypeOK
<1>2. \A r \in R : r.batches \in Seq(Writers)
  OBVIOUS
<1>3. \A i \in DOMAIN rs : rs[i] \in R
  <2> HIDE DEF R
  <2> QED BY <1>1
<1>4. \A i \in DOMAIN rs : rs[i].batches \in Seq(Writers)
  <2> HIDE DEF R, rs
  <2> QED BY <1>2, <1>3
<1> HIDE DEF R, rs
<1>5. ASSUME NEW i \in DOMAIN rs
      PROVE  Readable(rs[i]) \subseteq Writers
  <2>1. \A j \in DOMAIN rs[i].batches : rs[i].batches[j] \in Writers
    BY <1>4
  <2>2. QED BY <2>1 DEF Readable
<1>6. Replayed(rs) \subseteq Writers
  BY <1>5 DEF Replayed
<1>7. QED BY <1>6 DEF rs

LEMMA RestartTypes ==
  ASSUME TypeOK, NEW of, Restart(of)
  PROVE  /\ kind' \in Mixes
         /\ queue' \in Seq(Writers) /\ stalled' \in BOOLEAN
         /\ newer' \in [Writers -> Writers \cup {None}]
         /\ pc' \in [Writers -> {"start", "await", "stall", "enter", "log", "sync", "insert",
                                 "inserted", "finish", "publish", "exit", "release", "done",
                                 "gone"}]
         /\ UNCHANGED <<state, status, group>>
         /\ log' = <<>> /\ synced' = 0
         /\ disk' \subseteq applied' /\ applied' \subseteq Writers /\ mayBeLost' \subseteq Writers
         /\ num' \in [Writers -> Nat] /\ lastSeq' \in Nat /\ stopped' \in BOOLEAN
<1>1. PICK n \in IF of = "process" THEN {Len(log)} ELSE synced .. Len(log) :
        LET kept == disk \cup Replayed(SubSeq(log, 1, n))
        IN /\ applied' = kept /\ disk' = kept
           /\ num' = [w \in Writers |-> LogNum(w)]
           /\ lastSeq' = Greatest({LogNum(w) : w \in kept})
  BY DEF Restart
<1> DEFINE kept == disk \cup Replayed(SubSeq(log, 1, n))
<1>2. n \in 0 .. Len(log)
  BY <1>1 DEF TypeOK
<1>3. kept \subseteq Writers
  BY <1>2, ReplayedType DEF TypeOK
<1>4. \A w \in Writers : LogNum(w) \in Nat
  BY LogNumType
<1>5. Greatest({LogNum(w) : w \in kept}) \in Nat
  <2> HIDE DEF kept
  <2> DEFINE T == {LogNum(w) : w \in kept}
             f == [w \in kept |-> LogNum(w)]
  <2>1. IsFiniteSet(kept)
    BY <1>3, WritersAssumption, FS_Subset
  <2>2. f \in [kept -> T] /\ DOMAIN f = kept /\ T = {f[w] : w \in kept}
    OBVIOUS
  <2>3. IsFiniteSet(T)
    <3> HIDE DEF T, f
    <3> QED BY <2>1, <2>2, FiniteImage
  <2>4. T \subseteq Nat
    BY <1>3, <1>4
  <2>5. QED
    <3> HIDE DEF T
    <3>1. Greatest(T) \in Nat
      BY <2>3, <2>4, GreatestType
    <3> QED BY <3>1 DEF T
<1>6. /\ applied' = kept /\ disk' = kept
      /\ num' = [w \in Writers |-> LogNum(w)]
      /\ lastSeq' = Greatest({LogNum(w) : w \in kept})
  BY <1>1
<1> HIDE DEF kept
<1>7. /\ queue' = <<>> /\ stalled' = FALSE /\ newer' = [w \in Writers |-> None]
      /\ pc' = [w \in Writers |-> IF w \in InFlight THEN "gone" ELSE pc[w]]
      /\ mayBeLost' \subseteq mayBeLost \cup Writers
      /\ log' = <<>> /\ synced' = 0 /\ stopped' = FALSE
      /\ UNCHANGED <<kind, state, status, group>>
  BY DEF Restart, NewLog
<1>8. kind' \in Mixes
  BY <1>7 DEF TypeOK
<1>9. mayBeLost' \subseteq Writers
  BY <1>7 DEF TypeOK
<1>10. pc' \in [Writers -> {"start", "await", "stall", "enter", "log", "sync", "insert",
                            "inserted", "finish", "publish", "exit", "release", "done", "gone"}]
  BY <1>7 DEF TypeOK
<1>11. queue' \in Seq(Writers) /\ newer' \in [Writers -> Writers \cup {None}]
  BY <1>7
<1>12. num' \in [Writers -> Nat]
  BY <1>4, <1>6
<1>13. disk' \subseteq applied' /\ applied' \subseteq Writers /\ lastSeq' \in Nat
  BY <1>3, <1>5, <1>6
<1>14. QED
  BY <1>7, <1>8, <1>9, <1>10, <1>11, <1>12, <1>13

\* During a write stall nobody is turned away when all writers are patient.
LEMMA NobodyOut ==
  ASSUME Uniform, IInv, NEW w \in Writers, BeginStall(w)
  PROVE  /\ UNCHANGED <<queue, status, state>>
         /\ \A v \in Writers : ~kind[v].noSlowdown
<1>1. /\ \A v \in Writers : kind[v].noSlowdown = kind[w].noSlowdown
      /\ ~kind[w].noSlowdown
  BY KindTypes DEF Uniform, IInv, TypeOK, BeginStall
<1>2. {v \in Range(queue) : kind[v].noSlowdown} = {}
  <2>1. Range(queue) \subseteq Writers
    BY RangeInSet DEF IInv, TypeOK
  <2>2. QED BY <1>1, <2>1
<1>3. status \in [Writers -> Statuses]
      /\ state \in [Writers -> {"init", "leader", "parallel", "completed"}]
  BY DEF IInv, TypeOK
<1>4. QED BY <1>1, <1>2, <1>3 DEF BeginStall

\* What is appended to the log is a record.
LEMMA RecordType ==
  ASSUME TypeOK, NEW w \in Writers, NEW torn \in BOOLEAN
  PROVE  LET r == [batches |-> group[w].members, first |-> lastSeq + 1, torn |-> torn]
         IN /\ Append(log, r) \in Seq([batches : Seq(Writers), first : Nat, torn : BOOLEAN])
            /\ synced \in 0 .. Len(Append(log, r))
<1> DEFINE R == [batches : Seq(Writers), first : Nat, torn : BOOLEAN]
           r == [batches |-> group[w].members, first |-> lastSeq + 1, torn |-> torn]
<1>1. log \in Seq(R) /\ synced \in 0 .. Len(log)
  BY DEF TypeOK
<1>2. r \in R
  BY DEF TypeOK
<1>3. Append(log, r) \in Seq(R) /\ Len(Append(log, r)) = Len(log) + 1 /\ Len(log) \in Nat
  <2> HIDE DEF R, r
  <2> QED BY <1>1, <1>2
<1>4. synced \in 0 .. Len(Append(log, r))
  <2> HIDE DEF R, r
  <2> QED BY <1>1, <1>3
<1>5. QED BY <1>3, <1>4

LEMMA EmptyLog ==
  /\ <<>> \in Seq([batches : Seq(Writers), first : Nat, torn : BOOLEAN])
  /\ 0 \in 0 .. Len(<<>>)
OBVIOUS

LEMMA SubSeqType ==
  \A s \in Seq(Writers) : \A m, n \in Nat :
    m >= 1 /\ n <= Len(s) => SubSeq(s, m, n) \in Seq(Writers)
<1>1. ASSUME NEW s \in Seq(Writers), NEW m \in Nat, NEW n \in Nat, m >= 1, n <= Len(s)
      PROVE  SubSeq(s, m, n) \in Seq(Writers)
  <2>1. \A i \in 1 .. Len(s) : s[i] \in Writers
    OBVIOUS
  <2>2. n - m + 1 \in Int /\ Len(SubSeq(s, m, n)) \in Nat
    BY <1>1
  <2>3. QED BY <1>1, <2>1, <2>2
<1>2. QED BY <1>1

GroupRecords == [members : Seq(Writers), st : Statuses, running : Nat, ok : BOOLEAN,
                 last : Nat, left : Nat]

\* The fields of a group that the actions assign.
LEMMA GroupTypes ==
  ASSUME group \in [Writers -> GroupRecords], NEW L \in Writers,
         NEW s \in Seq(Writers), NEW st \in Statuses, NEW n \in Nat, NEW k \in Nat
  PROVE  /\ [group EXCEPT ![L].members = s] \in [Writers -> GroupRecords]
         /\ [group EXCEPT ![L].st = st] \in [Writers -> GroupRecords]
         /\ [group EXCEPT ![L].last = n] \in [Writers -> GroupRecords]
         /\ [group EXCEPT ![L].left = n] \in [Writers -> GroupRecords]
         /\ [group EXCEPT ![L].running = k, ![L].last = n] \in [Writers -> GroupRecords]
<1>1. [group EXCEPT ![L].members = s] \in [Writers -> GroupRecords]
  BY DEF GroupRecords
<1>2. [group EXCEPT ![L].st = st] \in [Writers -> GroupRecords]
  BY DEF GroupRecords
<1>3. [group EXCEPT ![L].last = n] \in [Writers -> GroupRecords]
  BY DEF GroupRecords
<1>4. [group EXCEPT ![L].left = n] \in [Writers -> GroupRecords]
  BY DEF GroupRecords
<1>5. [group EXCEPT ![L].running = k, ![L].last = n] \in [Writers -> GroupRecords]
  BY DEF GroupRecords
<1>6. QED BY <1>1, <1>2, <1>3, <1>4, <1>5

LEMMA CountTypes ==
  ASSUME group \in [Writers -> GroupRecords], NEW L \in Writers,
         NEW b \in BOOLEAN, NEW k \in Nat
  PROVE  [group EXCEPT ![L].ok = b, ![L].running = k] \in [Writers -> GroupRecords]
<1> DEFINE g == [group EXCEPT ![L].ok = b]
<1>1. g \in [Writers -> GroupRecords]
  BY DEF GroupRecords
<1> HIDE DEF g
<1>2. [g EXCEPT ![L].running = k] \in [Writers -> GroupRecords]
  BY <1>1 DEF GroupRecords
<1>3. [g EXCEPT ![L].running = k] = [group EXCEPT ![L].ok = b, ![L].running = k]
  BY DEF g
<1>4. QED BY <1>2, <1>3

BoundsTypes == [stalls : 0 .. MaxStalls, fails : 0 .. MaxFails, crashes : 0 .. MaxCrashes]

LEMMA BumpTypes ==
  ASSUME bounds \in BoundsTypes
  PROVE  /\ bounds.stalls < MaxStalls /\ Bump("stalls") => bounds' \in BoundsTypes
         /\ bounds.fails < MaxFails /\ Bump("fails") => bounds' \in BoundsTypes
         /\ bounds.crashes < MaxCrashes /\ Bump("crashes") => bounds' \in BoundsTypes
<1> USE BoundsAssumption DEF BoundsTypes, Bump
<1>1. bounds.stalls < MaxStalls /\ Bump("stalls") => bounds' \in BoundsTypes
  OBVIOUS
<1>2. bounds.fails < MaxFails /\ Bump("fails") => bounds' \in BoundsTypes
  OBVIOUS
<1>3. bounds.crashes < MaxCrashes /\ Bump("crashes") => bounds' \in BoundsTypes
  OBVIOUS
<1>4. QED BY <1>1, <1>2, <1>3

\* A writer's numbers and sets, as facts small enough to use.
LEMMA Parts ==
  ASSUME TypeOK
  PROVE  /\ kind \in Mixes /\ queue \in Seq(Writers) /\ group \in [Writers -> GroupRecords]
         /\ bounds \in BoundsTypes /\ stopped \in BOOLEAN /\ lastSeq \in Nat
         /\ status \in [Writers -> Statuses]
         /\ Len(queue) \in Nat
         /\ \A w \in Writers : /\ Len(group[w].members) \in Nat /\ group[w].st \in Statuses
                               /\ group[w].ok \in BOOLEAN /\ group[w].last \in Nat
                               /\ group[w].left \in Nat
BY DEF TypeOK, GroupRecords, BoundsTypes

\* TypeOK in parts, a step disturbs few of them.
QueueTyped == /\ kind \in Mixes /\ queue \in Seq(Writers) /\ stalled \in BOOLEAN
              /\ newer \in [Writers -> Writers \cup {None}]
StateTyped == state \in [Writers -> {"init", "leader", "parallel", "completed"}]
StatusTyped == status \in [Writers -> Statuses]
PcTyped == pc \in [Writers -> {"start", "await", "stall", "enter", "log", "sync", "insert", "inserted",
                                "finish", "publish", "exit", "release", "done", "gone"}]
GroupTyped == group \in [Writers -> GroupRecords]
LogTyped == /\ log \in Seq([batches : Seq(Writers), first : Nat, torn : BOOLEAN])
            /\ synced \in 0 .. Len(log)
BatchTyped == disk \subseteq applied /\ applied \subseteq Writers /\ mayBeLost \subseteq Writers
NumTyped == num \in [Writers -> Nat] /\ lastSeq \in Nat /\ stopped \in BOOLEAN
BoundsTyped == bounds \in BoundsTypes

LEMMA TypeParts ==
  TypeOK <=> /\ QueueTyped /\ StateTyped /\ StatusTyped /\ PcTyped /\ GroupTyped
             /\ LogTyped /\ BatchTyped /\ NumTyped /\ BoundsTyped
BY DEF TypeOK, QueueTyped, StateTyped, StatusTyped, PcTyped, GroupTyped, LogTyped, BatchTyped,
       NumTyped, BoundsTyped, GroupRecords, BoundsTypes

\* A part whose variables a step leaves alone.
LEMMA TypeKept ==
  /\ QueueTyped /\ UNCHANGED <<kind, queue, stalled, newer>> => QueueTyped'
  /\ StateTyped /\ UNCHANGED state => StateTyped'
  /\ StatusTyped /\ UNCHANGED status => StatusTyped'
  /\ PcTyped /\ UNCHANGED pc => PcTyped'
  /\ GroupTyped /\ UNCHANGED group => GroupTyped'
  /\ LogTyped /\ UNCHANGED <<log, synced>> => LogTyped'
  /\ BatchTyped /\ UNCHANGED <<disk, applied, mayBeLost>> => BatchTyped'
  /\ NumTyped /\ UNCHANGED <<num, lastSeq, stopped>> => NumTyped'
  /\ BoundsTyped /\ UNCHANGED bounds => BoundsTyped'
<1>1. QueueTyped /\ UNCHANGED <<kind, queue, stalled, newer>> => QueueTyped'
  BY DEF QueueTyped
<1>2. StateTyped /\ UNCHANGED state => StateTyped'
  BY DEF StateTyped
<1>3. StatusTyped /\ UNCHANGED status => StatusTyped'
  BY DEF StatusTyped, Statuses
<1>4. PcTyped /\ UNCHANGED pc => PcTyped'
  BY DEF PcTyped
<1>5. GroupTyped /\ UNCHANGED group => GroupTyped'
  BY DEF GroupTyped, GroupRecords, Statuses
<1>6. LogTyped /\ UNCHANGED <<log, synced>> => LogTyped'
  BY DEF LogTyped
<1>7. BatchTyped /\ UNCHANGED <<disk, applied, mayBeLost>> => BatchTyped'
  BY DEF BatchTyped
<1>8. NumTyped /\ UNCHANGED <<num, lastSeq, stopped>> => NumTyped'
  BY DEF NumTyped
<1>9. BoundsTyped /\ UNCHANGED bounds => BoundsTyped'
  BY DEF BoundsTyped, BoundsTypes
<1>10. QED BY <1>1, <1>2, <1>3, <1>4, <1>5, <1>6, <1>7, <1>8, <1>9

\* Values the actions give pc, state and status.
LEMMA AssignTypes ==
  ASSUME NEW w \in Writers
  PROVE  /\ \A p \in {"start", "await", "stall", "enter", "log", "sync", "insert", "inserted",
                       "finish", "publish", "exit", "release", "done", "gone"} :
              PcTyped /\ pc' = [pc EXCEPT ![w] = p] => PcTyped'
         /\ \A x \in {"init", "leader", "parallel", "completed"} :
              StateTyped /\ state' = [state EXCEPT ![w] = x] => StateTyped'
         /\ \A x \in Statuses :
              StatusTyped /\ status' = [status EXCEPT ![w] = x] => StatusTyped'
<1>1. ASSUME NEW p \in {"start", "await", "stall", "enter", "log", "sync", "insert", "inserted",
                        "finish", "publish", "exit", "release", "done", "gone"},
             PcTyped, pc' = [pc EXCEPT ![w] = p]
      PROVE  PcTyped'
  BY <1>1 DEF PcTyped
<1>2. ASSUME NEW x \in {"init", "leader", "parallel", "completed"},
             StateTyped, state' = [state EXCEPT ![w] = x]
      PROVE  StateTyped'
  BY <1>2 DEF StateTyped
<1>3. ASSUME NEW x \in Statuses, StatusTyped, status' = [status EXCEPT ![w] = x]
      PROVE  StatusTyped'
  BY <1>3 DEF StatusTyped, Statuses
<1>4. QED BY <1>1, <1>2, <1>3

LEMMA TypePartsNext ==
  /\ QueueTyped' /\ StateTyped' /\ StatusTyped' /\ PcTyped' /\ GroupTyped'
  /\ LogTyped' /\ BatchTyped' /\ NumTyped' /\ BoundsTyped'
  => TypeOK'
BY DEF TypeOK, QueueTyped, StateTyped, StatusTyped, PcTyped, GroupTyped, LogTyped, BatchTyped,
       NumTyped, BoundsTyped, GroupRecords, BoundsTypes

\* All of them but the bounds, after a restart.
LEMMA RestartParts ==
  ASSUME TypeOK, NEW of, Restart(of)
  PROVE  /\ QueueTyped' /\ StateTyped' /\ StatusTyped' /\ PcTyped' /\ GroupTyped'
         /\ LogTyped' /\ BatchTyped' /\ NumTyped'
<1>t. StateTyped /\ StatusTyped /\ GroupTyped
  BY TypeParts
<1>1. /\ kind' \in Mixes
      /\ queue' \in Seq(Writers) /\ stalled' \in BOOLEAN
      /\ newer' \in [Writers -> Writers \cup {None}]
  BY RestartTypes
<1>2. PcTyped'
  BY RestartTypes DEF PcTyped
<1>3. UNCHANGED <<state, status, group>>
  BY RestartTypes
<1>4. log' = <<>> /\ synced' = 0
  BY RestartTypes
<1>5. disk' \subseteq applied' /\ applied' \subseteq Writers /\ mayBeLost' \subseteq Writers
  BY RestartTypes
<1>6. num' \in [Writers -> Nat] /\ lastSeq' \in Nat /\ stopped' \in BOOLEAN
  BY RestartTypes
<1>7. QueueTyped'
  BY <1>1 DEF QueueTyped
<1>8. LogTyped'
  BY <1>4, EmptyLog DEF LogTyped
<1>9. BatchTyped'
  BY <1>5 DEF BatchTyped
<1>10. NumTyped'
  BY <1>6 DEF NumTyped
<1>11. QED BY <1>t, <1>2, <1>3, <1>7, <1>8, <1>9, <1>10, TypeKept

LEMMA TypeStep ==
  ASSUME Uniform, IInv, [Next]_vars
  PROVE  TypeOK'
<1> USE DEF thread, store
<1>1. TypeOK /\ ThreadTypes
  BY Types DEF IInv
<1>p. /\ queue \in Seq(Writers) /\ Len(queue) \in Nat
      /\ group \in [Writers -> GroupRecords] /\ bounds \in BoundsTypes
      /\ stopped \in BOOLEAN /\ lastSeq \in Nat /\ status \in [Writers -> Statuses]
      /\ \A w \in Writers : /\ Len(group[w].members) \in Nat /\ group[w].st \in Statuses
                            /\ group[w].ok \in BOOLEAN /\ group[w].last \in Nat
                            /\ group[w].left \in Nat
  BY <1>1, Parts
<1>t. /\ QueueTyped /\ StateTyped /\ StatusTyped /\ PcTyped /\ GroupTyped
      /\ LogTyped /\ BatchTyped /\ NumTyped /\ BoundsTyped
  BY <1>1, TypeParts
<1>2. CASE UNCHANGED vars
  <2>1. UNCHANGED <<kind, queue, stalled, newer, state, status, pc, group, log, synced, disk,
                    applied, num, lastSeq, stopped, mayBeLost, bounds>>
    BY <1>2 DEF vars
  <2>2. QED BY <1>t, <2>1, TypeKept, TypePartsNext
<1>3. ASSUME NEW w \in Writers, Join(w)
      PROVE  TypeOK'
  <2>1. UNCHANGED <<kind, stalled, newer, group, log, synced, disk, applied, num, lastSeq,
                    stopped, mayBeLost, bounds>>
    BY <1>3 DEF Join
  <2>2. queue' \in {queue, Append(queue, w)}
    BY <1>3 DEF Join
  <2>3. queue' \in Seq(Writers)
    BY <1>p, <2>2
  <2>4. \/ status' = [status EXCEPT ![w] = "incomplete"] /\ state' = [state EXCEPT ![w] = "completed"]
        \/ UNCHANGED status /\ \E x \in {"leader", state[w]} : state' = [state EXCEPT ![w] = x]
    BY <1>3 DEF Join
  <2>5. state[w] \in {"init", "leader", "parallel", "completed"} /\ "incomplete" \in Statuses
    BY <1>t DEF StateTyped, Statuses
  <2>a. QueueTyped'
    BY <1>t, <2>1, <2>3 DEF QueueTyped
  <2>b. StateTyped'
    BY <1>t, <2>4, <2>5, AssignTypes
  <2>c. StatusTyped'
    BY <1>t, <2>4, <2>5, AssignTypes, TypeKept
  <2>d. PcTyped'
    BY <1>3, <1>t, AssignTypes DEF Join
  <2>z. QED BY <1>t, <2>1, <2>a, <2>b, <2>c, <2>d, TypeKept, TypePartsNext
<1>4. ASSUME NEW w \in Writers, Preprocess(w)
      PROVE  TypeOK'
  <2>1. UNCHANGED <<kind, queue, stalled, newer, state, status, log, synced, disk, applied, num,
                    lastSeq, stopped, mayBeLost, bounds>>
    BY <1>4 DEF Preprocess
  <2>2. "error" \in Statuses /\ "ok" \in Statuses
    BY DEF Statuses
  <2>a. GroupTyped'
    BY <1>4, <1>p, <2>2, GroupTypes DEF Preprocess, GroupTyped
  <2>b. PcTyped'
    BY <1>4, <1>t, AssignTypes DEF Preprocess
  <2>z. QED BY <1>t, <2>1, <2>a, <2>b, TypeKept, TypePartsNext
<1>5. ASSUME NEW w \in Writers, Refuse(w)
      PROVE  TypeOK'
  <2>1. UNCHANGED <<kind, queue, stalled, newer, state, status, log, synced, disk, applied, num,
                    lastSeq, stopped, mayBeLost>>
    BY <1>5 DEF Refuse
  <2>2. "incomplete" \in Statuses
    BY DEF Statuses
  <2>a. GroupTyped'
    BY <1>5, <1>p, <2>2, GroupTypes DEF Refuse, GroupTyped
  <2>b. PcTyped'
    BY <1>5, <1>t, AssignTypes DEF Refuse
  <2>c. BoundsTyped'
    BY <1>5, <1>p, BumpTypes DEF Refuse, BoundsTyped
  <2>z. QED BY <1>t, <2>1, <2>a, <2>b, <2>c, TypeKept, TypePartsNext
<1>6. ASSUME NEW w \in Writers, BeginStall(w)
      PROVE  TypeOK'
  <2>1. UNCHANGED <<kind, queue, newer, state, status, group, log, synced, disk, applied, num,
                    lastSeq, stopped, mayBeLost>>
    BY <1>6, NobodyOut DEF BeginStall
  <2>2. stalled' = TRUE
    BY <1>6 DEF BeginStall
  <2>a. QueueTyped'
    BY <1>t, <2>1, <2>2 DEF QueueTyped
  <2>b. PcTyped'
    BY <1>6, <1>t, AssignTypes DEF BeginStall
  <2>c. BoundsTyped'
    BY <1>6, <1>p, BumpTypes DEF BeginStall, BoundsTyped
  <2>z. QED BY <1>t, <2>1, <2>a, <2>b, <2>c, TypeKept, TypePartsNext
<1>7. ASSUME NEW w \in Writers, EndStall(w)
      PROVE  TypeOK'
  <2>1. UNCHANGED <<kind, queue, newer, state, status, group, log, synced, disk, applied, num,
                    lastSeq, stopped, mayBeLost, bounds>>
    BY <1>7 DEF EndStall
  <2>2. stalled' = FALSE
    BY <1>7 DEF EndStall
  <2>a. QueueTyped'
    BY <1>t, <2>1, <2>2 DEF QueueTyped
  <2>b. PcTyped'
    BY <1>7, <1>t, AssignTypes DEF EndStall
  <2>z. QED BY <1>t, <2>1, <2>a, <2>b, TypeKept, TypePartsNext
<1>8. ASSUME NEW w \in Writers, Enter(w)
      PROVE  TypeOK'
  <2>1. UNCHANGED <<kind, queue, stalled, state, status, log, synced, disk, applied, num,
                    lastSeq, stopped, mayBeLost, bounds>>
    BY <1>8 DEF Enter
  <2>2. newer' \in [Writers -> Writers \cup {None}]
    <3>1. newer' = WithMissing
      BY <1>8 DEF Enter
    <3>2. QueueOK /\ LinksOK
      BY DEF IInv, Shape
    <3>3. QED BY <1>1, <3>1, <3>2, NewLinks
  <2>3. PICK n \in 1 .. Len(queue) : group' = [group EXCEPT ![w].members = SubSeq(queue, 1, n)]
    BY <1>8 DEF Enter
  <2>4. SubSeq(queue, 1, n) \in Seq(Writers)
    BY <1>p, SubSeqType
  <2>5. \E p \in {"publish", "insert", "log"} : pc' = [pc EXCEPT ![w] = p]
    BY <1>8 DEF Enter
  <2>a. QueueTyped'
    BY <1>t, <2>1, <2>2 DEF QueueTyped
  <2>b. GroupTyped'
    BY <1>p, <2>3, <2>4, GroupTypes DEF GroupTyped
  <2>c. PcTyped'
    BY <1>t, <2>5, AssignTypes
  <2>z. QED BY <1>t, <2>1, <2>a, <2>b, <2>c, TypeKept, TypePartsNext
<1>9. ASSUME NEW w \in Writers, AppendRecord(w)
      PROVE  TypeOK'
  <2>1. UNCHANGED <<kind, queue, stalled, newer, state, status, group, synced, disk, applied,
                    num, lastSeq, stopped, mayBeLost, bounds>>
    BY <1>9 DEF AppendRecord
  <2>2. \E p \in {"sync", "insert"} : pc' = [pc EXCEPT ![w] = p]
    BY <1>9 DEF AppendRecord
  <2>a. LogTyped'
    <3>1. log' = Append(log, [batches |-> group[w].members, first |-> lastSeq + 1, torn |-> FALSE])
      BY <1>9 DEF AppendRecord
    <3>2. FALSE \in BOOLEAN
      OBVIOUS
    <3>3. QED BY <1>1, <2>1, <3>1, <3>2, RecordType DEF LogTyped
  <2>b. PcTyped'
    BY <1>t, <2>2, AssignTypes
  <2>z. QED BY <1>t, <2>1, <2>a, <2>b, TypeKept, TypePartsNext
<1>10. ASSUME NEW w \in Writers, AppendFails(w)
       PROVE  TypeOK'
  <2>1. UNCHANGED <<kind, queue, stalled, newer, state, status, synced, disk, applied, num,
                    lastSeq, stopped, mayBeLost>>
    BY <1>10 DEF AppendFails
  <2>2. "error" \in Statuses
    BY DEF Statuses
  <2>a. LogTyped'
    <3>1. PICK torn \in BOOLEAN :
            log' = Append(log, [batches |-> group[w].members, first |-> lastSeq + 1, torn |-> torn])
      BY <1>10 DEF AppendFails
    <3>2. QED BY <1>1, <2>1, <3>1, RecordType DEF LogTyped
  <2>b. GroupTyped'
    BY <1>10, <1>p, <2>2, GroupTypes DEF AppendFails, GroupTyped
  <2>c. PcTyped'
    BY <1>10, <1>t, AssignTypes DEF AppendFails
  <2>d. BoundsTyped'
    BY <1>10, <1>p, BumpTypes DEF AppendFails, BoundsTyped
  <2>z. QED BY <1>t, <2>1, <2>a, <2>b, <2>c, <2>d, TypeKept, TypePartsNext
<1>11. ASSUME NEW w \in Writers, Sync(w)
       PROVE  TypeOK'
  <2>1. UNCHANGED <<kind, queue, stalled, newer, state, status, group, log, disk, applied, num,
                    lastSeq, stopped, mayBeLost, bounds>>
    BY <1>11 DEF Sync
  <2>2. synced' = Len(log)
    BY <1>11 DEF Sync
  <2>3. Len(log) \in 0 .. Len(log)
    BY <1>t DEF LogTyped
  <2>a. LogTyped'
    BY <1>t, <2>1, <2>2, <2>3 DEF LogTyped
  <2>b. PcTyped'
    BY <1>11, <1>t, AssignTypes DEF Sync
  <2>z. QED BY <1>t, <2>1, <2>a, <2>b, TypeKept, TypePartsNext
<1>12. ASSUME NEW w \in Writers, SyncFails(w)
       PROVE  TypeOK'
  <2>1. UNCHANGED <<kind, queue, stalled, newer, state, status, log, synced, disk, applied, num,
                    lastSeq, stopped, mayBeLost>>
    BY <1>12 DEF SyncFails
  <2>2. "error" \in Statuses
    BY DEF Statuses
  <2>a. GroupTyped'
    BY <1>12, <1>p, <2>2, GroupTypes DEF SyncFails, GroupTyped
  <2>b. PcTyped'
    BY <1>12, <1>t, AssignTypes DEF SyncFails
  <2>c. BoundsTyped'
    BY <1>12, <1>p, BumpTypes DEF SyncFails, BoundsTyped
  <2>z. QED BY <1>t, <2>1, <2>a, <2>b, <2>c, TypeKept, TypePartsNext
<1>13. ASSUME NEW w \in Writers, InsertAlone(w)
       PROVE  TypeOK'
  <2>1. UNCHANGED <<kind, queue, stalled, newer, state, log, synced, disk, lastSeq, stopped,
                    mayBeLost, bounds>>
    BY <1>13 DEF InsertAlone
  <2>2. InsertBatch(w)
    BY <1>13 DEF InsertAlone
  <2>3. /\ applied' \in {applied, applied \cup {w}}
        /\ status' = status \/ status' = [status EXCEPT ![w] = "error"]
    BY <2>2 DEF InsertBatch
  <2>4. "error" \in Statuses
    BY DEF Statuses
  <2>5. num' \in [Writers -> Nat]
    BY <1>1, <1>13, NumberedType DEF InsertAlone
  <2>a. StatusTyped'
    BY <1>t, <2>3, <2>4, AssignTypes, TypeKept
  <2>b. BatchTyped'
    BY <1>t, <2>1, <2>3 DEF BatchTyped
  <2>c. NumTyped'
    BY <1>t, <2>1, <2>5 DEF NumTyped
  <2>d. GroupTyped'
    <3>1. lastSeq + 1 \in Nat
      BY <1>p
    <3>2. QED BY <1>13, <1>p, <3>1, GroupTypes DEF InsertAlone, GroupTyped
  <2>e. PcTyped'
    BY <1>13, <1>t, AssignTypes DEF InsertAlone
  <2>z. QED BY <1>t, <2>1, <2>a, <2>b, <2>c, <2>d, <2>e, TypeKept, TypePartsNext
<1>14. ASSUME NEW w \in Writers, Launch(w)
       PROVE  TypeOK'
  <2>1. UNCHANGED <<kind, queue, stalled, newer, status, log, synced, disk, applied, lastSeq,
                    stopped, mayBeLost, bounds>>
    BY <1>14 DEF Launch
  <2>2. num' \in [Writers -> Nat]
    BY <1>1, <1>14, NumberedType DEF Launch
  <2>3. state' = [v \in Writers |-> IF v \in Members(w) THEN "parallel" ELSE state[v]]
    BY <1>14 DEF Launch
  <2>a. NumTyped'
    BY <1>t, <2>1, <2>2 DEF NumTyped
  <2>b. StateTyped'
    BY <1>t, <2>3 DEF StateTyped
  <2>c. GroupTyped'
    <3>1. lastSeq + Len(group[w].members) \in Nat
      BY <1>p
    <3>2. QED BY <1>14, <1>p, <3>1, GroupTypes DEF Launch, GroupTyped
  <2>d. PcTyped'
    BY <1>14, <1>t, AssignTypes DEF Launch
  <2>z. QED BY <1>t, <2>1, <2>a, <2>b, <2>c, <2>d, TypeKept, TypePartsNext
<1>15. ASSUME NEW w \in Writers, InsertOwn(w)
       PROVE  TypeOK'
  <2>1. UNCHANGED <<kind, queue, stalled, newer, state, group, log, synced, disk, num, lastSeq,
                    stopped, mayBeLost, bounds>>
    BY <1>15 DEF InsertOwn
  <2>2. InsertBatch(w)
    BY <1>15 DEF InsertOwn
  <2>3. /\ applied' \in {applied, applied \cup {w}}
        /\ status' = status \/ status' = [status EXCEPT ![w] = "error"]
    BY <2>2 DEF InsertBatch
  <2>4. "error" \in Statuses
    BY DEF Statuses
  <2>a. StatusTyped'
    BY <1>t, <2>3, <2>4, AssignTypes, TypeKept
  <2>b. BatchTyped'
    BY <1>t, <2>1, <2>3 DEF BatchTyped
  <2>c. PcTyped'
    BY <1>15, <1>t, AssignTypes DEF InsertOwn
  <2>z. QED BY <1>t, <2>1, <2>a, <2>b, <2>c, TypeKept, TypePartsNext
<1>16. ASSUME NEW w \in Writers, Complete(w)
       PROVE  TypeOK'
  <2>1. UNCHANGED <<kind, queue, stalled, newer, state, log, synced, disk, applied, num, lastSeq,
                    stopped, mayBeLost, bounds>>
    BY <1>16 DEF Complete
  <2> DEFINE L == GroupOf(w)
  <2>2. L \in Writers /\ group[L].running \in Nat /\ group[L].running >= 1
    BY <1>16, GroupedWriters, RunningIsPositive DEF Complete
  <2> DEFINE ok == group[L].ok /\ status[w] = "ok"
             k == group[L].running - 1
  <2>3. /\ group' = [group EXCEPT ![L].ok = ok, ![L].running = k]
        /\ \/ status' = status \/ status' = [status EXCEPT ![w] = "ok"]
           \/ status' = [status EXCEPT ![w] = "error"]
        /\ \E p \in {"publish", "finish"} : pc' = [pc EXCEPT ![w] = p]
    BY <1>16 DEF Complete
  <2> HIDE DEF L
  <2>4. "ok" \in Statuses /\ "error" \in Statuses
    BY DEF Statuses
  <2>a. GroupTyped'
    <3>1. k \in Nat
      BY <2>2
    <3>2. ok \in BOOLEAN
      OBVIOUS
    <3> HIDE DEF k, ok
    <3>3. [group EXCEPT ![L].ok = ok, ![L].running = k] \in [Writers -> GroupRecords]
      BY <1>p, <2>2, <3>1, <3>2, CountTypes
    <3>4. QED BY <2>3, <3>3 DEF GroupTyped
  <2>b. StatusTyped'
    BY <1>t, <2>3, <2>4, AssignTypes, TypeKept
  <2>c. PcTyped'
    BY <1>t, <2>3, AssignTypes
  <2>z. QED BY <1>t, <2>1, <2>a, <2>b, <2>c, TypeKept, TypePartsNext
<1>17. ASSUME NEW w \in Writers, Publish(w)
       PROVE  TypeOK'
  <2>1. UNCHANGED <<kind, queue, stalled, newer, state, status, group, log, synced, disk,
                    applied, num, mayBeLost, bounds>>
    BY <1>17 DEF Publish
  <2>2. GroupOf(w) \in Writers
    BY <1>17, GroupedWriters DEF Publish
  <2>3. lastSeq' \in Nat
    BY <1>p, <1>17, <2>2 DEF Publish
  <2>4. stopped' \in BOOLEAN
    BY <1>17 DEF Publish
  <2>a. NumTyped'
    BY <1>t, <2>1, <2>3, <2>4 DEF NumTyped
  <2>b. PcTyped'
    BY <1>17, <1>t, AssignTypes DEF Publish
  <2>z. QED BY <1>t, <2>1, <2>a, <2>b, TypeKept, TypePartsNext
<1>18. ASSUME NEW w \in Writers, Handoff(w)
       PROVE  TypeOK'
  <2>1. UNCHANGED <<kind, stalled, status, log, synced, disk, applied, num, lastSeq, stopped,
                    mayBeLost, bounds>>
    BY <1>18 DEF Handoff
  <2> DEFINE L == GroupOf(w)
             size == Len(group[L].members)
             next == WithMissing[group[L].members[size]]
  <2>2. L \in Writers /\ size \in Nat
    BY <1>1, <1>18, GroupedWriters, QueueTypes DEF Handoff
  <2>3. /\ group' = [group EXCEPT ![L].left = size]
        /\ queue' = <<>> \/ queue' = SubSeq(queue, size + 1, Len(queue))
        /\ newer' = newer \/ newer' = WithMissing
        /\ state' = state \/ state' = [state EXCEPT ![next] = "leader"]
    BY <1>18 DEF Handoff
  <2> HIDE DEF L, size, next
  <2>4. queue' \in Seq(Writers)
    <3>1. size + 1 \in Nat /\ size + 1 >= 1 /\ Len(queue) <= Len(queue)
      BY <1>p, <2>2
    <3>2. SubSeq(queue, size + 1, Len(queue)) \in Seq(Writers)
      BY <1>p, <3>1, SubSeqType
    <3>3. <<>> \in Seq(Writers)
      OBVIOUS
    <3>4. QED BY <2>3, <3>2, <3>3
  <2>5. newer' \in [Writers -> Writers \cup {None}]
    <3>1. QueueOK /\ LinksOK
      BY DEF IInv, Shape
    <3>2. WithMissing \in [Writers -> Writers \cup {None}]
      BY <1>1, <3>1, NewLinks
    <3>3. QED BY <1>t, <2>3, <3>2 DEF QueueTyped
  <2>a. QueueTyped'
    BY <1>t, <2>1, <2>4, <2>5 DEF QueueTyped
  <2>b. StateTyped'
    BY <1>t, <2>3 DEF StateTyped
  <2>c. GroupTyped'
    BY <1>p, <2>2, <2>3, GroupTypes DEF GroupTyped
  <2>d. PcTyped'
    BY <1>18, <1>t, AssignTypes DEF Handoff
  <2>z. QED BY <1>t, <2>1, <2>a, <2>b, <2>c, <2>d, TypeKept, TypePartsNext
<1>19. ASSUME NEW w \in Writers, Release(w)
       PROVE  TypeOK'
  <2>1. UNCHANGED <<kind, queue, stalled, newer, pc, log, synced, disk, applied, num, lastSeq,
                    stopped, mayBeLost, bounds>>
    BY <1>19 DEF Release
  <2> DEFINE L == GroupOf(w)
             v == group[L].members[group[L].left]
  <2>2. L \in Writers
    BY <1>19, GroupedWriters DEF Release
  <2>3. /\ group' = [group EXCEPT ![L].left = group[L].left - 1]
        /\ status' = [status EXCEPT ![v] = GroupStatus(L)]
        /\ state' = [state EXCEPT ![v] = "completed"]
        /\ group[L].left > 1
    BY <1>19 DEF Release
  <2> HIDE DEF L, v
  <2>4. GroupStatus(L) \in Statuses
    BY <1>p, <2>2 DEF GroupStatus, Statuses
  <2>5. group[L].left - 1 \in Nat
    BY <1>p, <2>2, <2>3
  <2>a. GroupTyped'
    BY <1>p, <2>2, <2>3, <2>5, GroupTypes DEF GroupTyped
  <2>b. StatusTyped'
    BY <1>t, <2>3, <2>4 DEF StatusTyped
  <2>c. StateTyped'
    BY <1>t, <2>3 DEF StateTyped
  <2>z. QED BY <1>t, <2>1, <2>a, <2>b, <2>c, TypeKept, TypePartsNext
<1>20. ASSUME NEW w \in Writers, Leave(w)
       PROVE  TypeOK'
  <2>1. UNCHANGED <<kind, queue, stalled, newer, group, log, synced, disk, applied, num, lastSeq,
                    stopped, mayBeLost, bounds>>
    BY <1>20 DEF Leave
  <2> DEFINE L == GroupOf(w)
  <2>2. L \in Writers
    BY <1>20, GroupedWriters DEF Leave
  <2>3. /\ status' = status \/ status' = [status EXCEPT ![w] = LeaderStatus(w)]
        /\ state' = state \/ state' = [state EXCEPT ![L] = "completed"]
    BY <1>20 DEF Leave
  <2> HIDE DEF L
  <2>4. LeaderStatus(w) \in Statuses
    BY <1>p DEF LeaderStatus
  <2>a. StatusTyped'
    BY <1>t, <2>3, <2>4, AssignTypes, TypeKept
  <2>b. StateTyped'
    BY <1>t, <2>2, <2>3, AssignTypes, TypeKept
  <2>c. PcTyped'
    BY <1>20, <1>t, AssignTypes DEF Leave
  <2>z. QED BY <1>t, <2>1, <2>a, <2>b, <2>c, TypeKept, TypePartsNext
<1>21. ASSUME NEW w \in Writers, Return(w)
       PROVE  TypeOK'
  <2>1. UNCHANGED <<kind, queue, stalled, newer, state, status, group, log, synced, disk,
                    applied, num, lastSeq, stopped, mayBeLost, bounds>>
    BY <1>21 DEF Return
  <2>a. PcTyped'
    BY <1>21, <1>t, AssignTypes DEF Return
  <2>z. QED BY <1>t, <2>1, <2>a, TypeKept, TypePartsNext
<1>22. CASE Crash
  <2>1. PICK of \in {"process", "machine"} : Restart(of)
    BY <1>22 DEF Crash
  <2>2. BoundsTyped'
    BY <1>22, <1>p, BumpTypes DEF Crash, BoundsTyped
  <2>3. QED BY <1>1, <1>t, <2>1, <2>2, RestartParts, TypePartsNext
<1>23. CASE Abort
  <2>1. Restart("process") /\ UNCHANGED bounds
    BY <1>23 DEF Abort
  <2>2. BoundsTyped'
    BY <1>t, <2>1, TypeKept
  <2>3. QED BY <1>1, <1>t, <2>1, <2>2, RestartParts, TypePartsNext
<1>24. QED
  BY <1>2, <1>3, <1>4, <1>5, <1>6, <1>7, <1>8, <1>9, <1>10, <1>11, <1>12, <1>13, <1>14, <1>15,
     <1>16, <1>17, <1>18, <1>19, <1>20, <1>21, <1>22, <1>23 DEF Next, Step

\* Nothing happens.
LEMMA SameShape ==
  ASSUME Shape, UNCHANGED <<queue, newer, state, pc, group>>
  PROVE  Shape'
<1> USE DEF Shape, Waiting, Early, Inserts, Finished, Late, Leads, InGroup, Leaving
<1>1. QueueOK'
  BY DEF QueueOK
<1>2. GroupsOK'
  BY DEF GroupsOK
<1>3. FreshOK'
  BY DEF FreshOK
<1>4. LinksOK'
  BY DEF LinksOK
<1>5. HeadOK'
  BY DEF HeadOK
<1>6. TokenOK'
  BY DEF TokenOK
<1>7. CountOK'
  BY DEF CountOK, Inserting
<1>8. ReleaseOK'
  BY DEF ReleaseOK
<1>9. QED BY <1>1, <1>2, <1>3, <1>4, <1>5, <1>6, <1>7, <1>8

\* The steps keep what the queue, the links and the groups look like.
LEMMA ShapeStep ==
  ASSUME Uniform, IInv, TypeOK', [Next]_vars
  PROVE  Shape'
<1> USE DEF thread, store
<1>1. /\ ThreadTypes /\ ThreadTypes' /\ Shape
      /\ group \in [Writers -> GroupRecords]
  <2>1. ThreadTypes'
    BY DEF TypeOK, ThreadTypes
  <2>2. QED BY <2>1, Types, Parts DEF IInv
<1>2. CASE UNCHANGED vars
  <2>1. UNCHANGED <<queue, newer, state, pc, group>>
    BY <1>2 DEF vars
  <2>2. QED BY <1>1, <2>1, SameShape
<1>3. ASSUME NEW w \in Writers, Join(w)
      PROVE  Shape'
  <2>1. CASE stalled
    <3>1. FALSE
      BY <1>3, <2>1 DEF Join, IInv, StallOK
    <3>2. QED BY <3>1
  <2>2. CASE ~stalled
    BY <1>1, <1>3, <2>2, JoinKeeps DEF Join
  <2>3. QED BY <2>1, <2>2
<1>4. ASSUME NEW w \in Writers, Preprocess(w)
      PROVE  Shape'
  <2>1. \A K \in Writers : /\ group'[K].members = group[K].members
                               /\ group'[K].running = group[K].running
                               /\ group'[K].left = group[K].left
    BY <1>1, <1>4 DEF Preprocess
  <2>2. /\ pc' = [pc EXCEPT ![w] = "enter"] /\ UNCHANGED <<queue, newer, state>>
    BY <1>4 DEF Preprocess
  <2>3. QED BY <1>1, <1>4, <2>1, <2>2, HolderMoves DEF Preprocess
<1>5. ASSUME NEW w \in Writers, Refuse(w)
      PROVE  Shape'
  <2>1. \A K \in Writers : /\ group'[K].members = group[K].members
                               /\ group'[K].running = group[K].running
                               /\ group'[K].left = group[K].left
    BY <1>1, <1>5 DEF Refuse
  <2>2. /\ pc' = [pc EXCEPT ![w] = "enter"] /\ UNCHANGED <<queue, newer, state>>
    BY <1>5 DEF Refuse
  <2>3. QED BY <1>1, <1>5, <2>1, <2>2, HolderMoves DEF Refuse
<1>6. ASSUME NEW w \in Writers, BeginStall(w)
      PROVE  Shape'
  <2>1. UNCHANGED <<queue, state>>
    BY <1>6, NobodyOut
  <2>2. /\ Leads(w) /\ pc' = [pc EXCEPT ![w] = "stall"] /\ UNCHANGED <<newer, group>>
    BY <1>6 DEF BeginStall
  <2>3. QED BY <1>1, <2>1, <2>2, HolderMoves
<1>7. ASSUME NEW w \in Writers, EndStall(w)
      PROVE  Shape'
  <2>1. \A K \in Writers : /\ group'[K].members = group[K].members
                               /\ group'[K].running = group[K].running
                               /\ group'[K].left = group[K].left
    BY <1>1, <1>7 DEF EndStall
  <2>2. /\ pc' = [pc EXCEPT ![w] = "await"] /\ UNCHANGED <<queue, newer, state>>
    BY <1>7 DEF EndStall
  <2>3. QED BY <1>1, <1>7, <2>1, <2>2, HolderMoves DEF EndStall
<1>8. ASSUME NEW w \in Writers, Enter(w)
      PROVE  Shape'
  <2>1. PICK n \in 1 .. Len(queue) : group' = [group EXCEPT ![w].members = SubSeq(queue, 1, n)]
    BY <1>8 DEF Enter
  <2>2. /\ group'[w].members = SubSeq(queue, 1, n)
        /\ \A L \in Writers : L # w => group'[L] = group[L]
    BY <1>1, <2>1
  <2>3. PICK p \in {"publish", "insert", "log"} : pc' = [pc EXCEPT ![w] = p]
    BY <1>8 DEF Enter
  <2>4. pc[w] = "enter" /\ newer' = WithMissing /\ UNCHANGED <<queue, state>>
    BY <1>8 DEF Enter
  <2>5. QED BY <1>1, <2>2, <2>3, <2>4, EnterKeeps
<1>9. ASSUME NEW w \in Writers, AppendRecord(w)
      PROVE  Shape'
  <2>1. /\ pc' = [pc EXCEPT ![w] = IF kind[w].sync THEN "sync" ELSE "insert"]
        /\ pc[w] = "log" /\ UNCHANGED <<queue, newer, state, group>>
    BY <1>9 DEF AppendRecord
  <2>2. PICK p \in {"sync", "insert"} : pc' = [pc EXCEPT ![w] = p]
    BY <2>1
  <2>3. QED BY <1>1, <2>1, <2>2, HolderMoves
<1>10. ASSUME NEW w \in Writers, AppendFails(w)
      PROVE  Shape'
  <2>1. \A K \in Writers : /\ group'[K].members = group[K].members
                               /\ group'[K].running = group[K].running
                               /\ group'[K].left = group[K].left
    BY <1>1, <1>10 DEF AppendFails
  <2>2. /\ pc' = [pc EXCEPT ![w] = "publish"] /\ UNCHANGED <<queue, newer, state>>
    BY <1>10 DEF AppendFails
  <2>3. QED BY <1>1, <1>10, <2>1, <2>2, HolderMoves DEF AppendFails
<1>11. ASSUME NEW w \in Writers, Sync(w)
      PROVE  Shape'
  <2>1. \A K \in Writers : /\ group'[K].members = group[K].members
                               /\ group'[K].running = group[K].running
                               /\ group'[K].left = group[K].left
    BY <1>1, <1>11 DEF Sync
  <2>2. /\ pc' = [pc EXCEPT ![w] = "insert"] /\ UNCHANGED <<queue, newer, state>>
    BY <1>11 DEF Sync
  <2>3. QED BY <1>1, <1>11, <2>1, <2>2, HolderMoves DEF Sync
<1>12. ASSUME NEW w \in Writers, SyncFails(w)
      PROVE  Shape'
  <2>1. \A K \in Writers : /\ group'[K].members = group[K].members
                               /\ group'[K].running = group[K].running
                               /\ group'[K].left = group[K].left
    BY <1>1, <1>12 DEF SyncFails
  <2>2. /\ pc' = [pc EXCEPT ![w] = "publish"] /\ UNCHANGED <<queue, newer, state>>
    BY <1>12 DEF SyncFails
  <2>3. QED BY <1>1, <1>12, <2>1, <2>2, HolderMoves DEF SyncFails
<1>13. ASSUME NEW w \in Writers, InsertAlone(w)
      PROVE  Shape'
  <2>1. \A K \in Writers : /\ group'[K].members = group[K].members
                               /\ group'[K].running = group[K].running
                               /\ group'[K].left = group[K].left
    BY <1>1, <1>13 DEF InsertAlone
  <2>2. /\ pc' = [pc EXCEPT ![w] = "publish"] /\ UNCHANGED <<queue, newer, state>>
    BY <1>13 DEF InsertAlone
  <2>3. QED BY <1>1, <1>13, <2>1, <2>2, HolderMoves DEF InsertAlone
<1>14. ASSUME NEW w \in Writers, Launch(w)
       PROVE  Shape'
  <2>1. /\ group'[w].running = Len(group[w].members)
        /\ \A L \in Writers : /\ group'[L].members = group[L].members
                              /\ group'[L].left = group[L].left
    BY <1>1, <1>14 DEF Launch
  <2>2. \A v \in Writers : v \in Members(w) <=> InGroup(v, w)
    BY MembersType DEF IInv, InGroup
  <2>3. /\ pc[w] = "insert" /\ Len(group[w].members) > 1 /\ pc' = [pc EXCEPT ![w] = "await"]
        /\ state' = [v \in Writers |-> IF v \in Members(w) THEN "parallel" ELSE state[v]]
        /\ UNCHANGED <<queue, newer>>
    BY <1>14 DEF Launch
  <2>4. QED BY <1>1, <2>1, <2>2, <2>3, LaunchKeeps
<1>15. ASSUME NEW w \in Writers, InsertOwn(w)
       PROVE  Shape'
  BY <1>1, <1>15, InsertOwnKeeps DEF InsertOwn
<1>16. ASSUME NEW w \in Writers, Complete(w)
       PROVE  Shape'
  <2> DEFINE L == GroupOf(w)
             ok == group[L].ok /\ status[w] = "ok"
             p == IF group[L].running = 1 THEN "publish" ELSE "finish"
  <2>1. L \in Writers /\ InGroup(w, L)
    BY <1>16, GroupedWriters DEF Complete
  <2>2. /\ pc[w] = "inserted" /\ pc' = [pc EXCEPT ![w] = p]
        /\ group' = [group EXCEPT ![L].ok = ok, ![L].running = @ - 1]
        /\ UNCHANGED <<queue, newer, state>>
    BY <1>16 DEF Complete, LastOut
  <2> HIDE DEF L, ok
  <2>3. /\ group'[L].running = group[L].running - 1
        /\ \A K \in Writers : /\ group'[K].members = group[K].members
                              /\ group'[K].left = group[K].left
                              /\ K # L => group'[K].running = group[K].running
    BY <1>1, <2>1, <2>2
  <2>4. QED BY <1>1, <2>1, <2>2, <2>3, CompleteKeeps
<1>17. ASSUME NEW w \in Writers, Publish(w)
       PROVE  Shape'
  <2>1. /\ pc[w] = "publish" /\ pc' = [pc EXCEPT ![w] = "exit"]
        /\ UNCHANGED <<queue, newer, state, group>>
    BY <1>17 DEF Publish
  <2>2. QED BY <1>1, <2>1, HolderMoves
<1>18. ASSUME NEW w \in Writers, Handoff(w)
       PROVE  Shape'
  <2> DEFINE L == GroupOf(w)
             size == Len(group[L].members)
  <2>1. L \in Writers /\ InGroup(w, L) /\ size \in Nat
    BY <1>1, <1>18, GroupedWriters, QueueTypes DEF Handoff
  <2>2. pc[w] = "exit" /\ pc' = [pc EXCEPT ![w] = "release"]
    BY <1>18 DEF Handoff
  <2>3. size = Len(group[L].members)
    OBVIOUS
  <2>4. Len(queue) = size => queue' = <<>> /\ UNCHANGED <<newer, state>>
    BY <1>18 DEF Handoff
  <2>5. Len(queue) # size => queue' = SubSeq(queue, size + 1, Len(queue))
    BY <1>18 DEF Handoff
  <2>6. Len(queue) # size => newer' = WithMissing
    BY <1>18 DEF Handoff
  <2>7. Len(queue) # size =>
          state' = [state EXCEPT ![WithMissing[group[L].members[size]]] = "leader"]
    BY <1>18 DEF Handoff
  <2>8. group' = [group EXCEPT ![L].left = size]
    BY <1>18 DEF Handoff
  <2> HIDE DEF L, size
  <2>9. group'[L].left = size
    BY <1>1, <2>1, <2>8
  <2>10. OthersSame(L)
    BY <1>1, <2>1, <2>8 DEF OthersSame
  <2>11. ThreadTypes /\ Shape /\ ThreadTypes' /\ L \in Writers /\ InGroup(w, L) /\ size \in Nat
    BY <1>1, <2>1
  <2>12. HandsOver(w, L, size)
    BY <2>2, <2>3, <2>4, <2>5, <2>6, <2>7, <2>9, <2>10, <2>11, Zenon DEF HandsOver
  <2>13. QED BY <2>11, <2>12, HandoffKeeps
<1>19. ASSUME NEW w \in Writers, Release(w)
       PROVE  Shape'
  <2> DEFINE L == GroupOf(w)
             v == group[L].members[group[L].left]
  <2>1. L \in Writers /\ InGroup(w, L)
    BY <1>19, GroupedWriters DEF Release
  <2>2. /\ pc[w] = "release" /\ group[L].left > 1
        /\ state' = [state EXCEPT ![v] = "completed"]
        /\ group' = [group EXCEPT ![L].left = @ - 1]
        /\ UNCHANGED <<queue, newer, pc>>
    BY <1>19 DEF Release
  <2>3. v \in Writers /\ InGroup(v, L)
    <3>1. Leaving(w, L)
      BY <1>1, <2>1, <2>2 DEF Shape, ReleaseOK
    <3>2. group[L].left \in 1 .. Len(group[L].members)
      BY <3>1 DEF Leaving
    <3>3. QED BY <1>1, <2>1, <3>2, QueueTypes DEF InGroup
  <2>4. v = group[L].members[group[L].left]
    OBVIOUS
  <2> HIDE DEF L, v
  <2>5. /\ group'[L].left = group[L].left - 1
        /\ \A K \in Writers : /\ group'[K].members = group[K].members
                              /\ group'[K].running = group[K].running
                              /\ K # L => group'[K].left = group[K].left
    BY <1>1, <2>1, <2>2
  <2>6. state'[v] = "completed" /\ \A u \in Writers : u # v => state'[u] = state[u]
    BY <1>1, <2>2, <2>3 DEF ThreadTypes
  <2>7. QED BY <1>1, <2>1, <2>2, <2>3, <2>4, <2>5, <2>6, TellKeeps
<1>20. ASSUME NEW w \in Writers, Leave(w)
       PROVE  Shape'
  <2> DEFINE L == GroupOf(w)
  <2>1. L \in Writers /\ InGroup(w, L)
    BY <1>20, GroupedWriters DEF Leave
  <2>2. /\ pc[w] = "release" /\ pc' = [pc EXCEPT ![w] = "done"]
        /\ state' \in {state, [state EXCEPT ![L] = "completed"]}
        /\ UNCHANGED <<queue, newer, group>>
    BY <1>20 DEF Leave
  <2> HIDE DEF L
  <2>3. /\ state'[L] \in {"completed", state[L]}
        /\ \A u \in Writers : u # L => state'[u] = state[u]
    BY <1>1, <2>1, <2>2 DEF ThreadTypes
  <2>4. InGroup(L, L)
    <3>1. group[L].members # <<>>
      BY <1>1, <2>1, QueueTypes DEF InGroup
    <3>2. QED BY <1>1, <2>1, <3>1, LeaderInGroup DEF Shape
  <2>5. QED BY <1>1, <2>1, <2>2, <2>3, <2>4, TellKeeps
<1>21. ASSUME NEW w \in Writers, Return(w)
       PROVE  Shape'
  <2>1. /\ pc[w] \in {"await", "finish"} /\ state[w] = "completed"
        /\ pc' = [pc EXCEPT ![w] = "done"]
        /\ UNCHANGED <<queue, newer, state, group>>
    BY <1>21 DEF Return
  <2>2. \A i \in 1 .. Len(queue) : queue[i] # w
    BY <1>1, <2>1, OutOfQueue
  <2>3. ~Waiting(w) /\ ~Finished(w)
    BY <2>1 DEF Waiting, Finished
  <2>4. state' = [state EXCEPT ![w] = "completed"]
    BY <1>1, <2>1 DEF ThreadTypes
  <2>5. QED BY <1>1, <2>1, <2>2, <2>3, <2>4, OutsiderKeeps
<1>22. CASE Crash \/ Abort
  <2>1. PICK of : Restart(of)
    BY <1>22 DEF Crash, Abort
  <2>2. QED BY <1>1, <2>1, RestartKeeps DEF Restart
<1>23. QED
  BY <1>2, <1>3, <1>4, <1>5, <1>6, <1>7, <1>8, <1>9, <1>10, <1>11, <1>12, <1>13, <1>14, <1>15,
     <1>16, <1>17, <1>18, <1>19, <1>20, <1>21, <1>22 DEF Next, Step

LEMMA StallStep ==
  ASSUME Uniform, IInv, [Next]_vars
  PROVE  StallOK'
<1> USE DEF thread
<1>1. CASE \E w \in Writers : BeginStall(w)
  <2>1. PICK w \in Writers : BeginStall(w)
    BY <1>1
  <2>2. kind' = kind /\ \A v \in Writers : ~kind[v].noSlowdown
    BY <2>1, NobodyOut DEF BeginStall
  <2>3. QED BY <2>2 DEF StallOK
<1>2. CASE ~ \E w \in Writers : BeginStall(w)
  <2>1. ASSUME NEW w \in Writers, Join(w) \/ Step(w)
        PROVE  kind' = kind /\ (stalled' = stalled \/ stalled' = FALSE)
    <3>1. CASE Join(w) \/ Preprocess(w) \/ Refuse(w) \/ EndStall(w)
      BY <3>1 DEF Join, Preprocess, Refuse, EndStall
    <3>2. CASE Enter(w) \/ Handoff(w) \/ Release(w) \/ Leave(w) \/ Return(w)
      BY <3>2 DEF Enter, Handoff, Release, Leave, Return
    <3>3. CASE AppendRecord(w) \/ AppendFails(w) \/ Sync(w) \/ SyncFails(w)
      BY <3>3 DEF AppendRecord, AppendFails, Sync, SyncFails
    <3>4. CASE InsertAlone(w) \/ Launch(w) \/ InsertOwn(w) \/ Complete(w) \/ Publish(w)
      BY <3>4 DEF InsertAlone, Launch, InsertOwn, Complete, Publish
    <3>5. QED BY <1>2, <2>1, <3>1, <3>2, <3>3, <3>4 DEF Step
  <2>2. ASSUME Crash \/ Abort
        PROVE  kind' = kind /\ (stalled' = stalled \/ stalled' = FALSE)
    <3>1. \E of : Restart(of)
      BY <2>2 DEF Crash, Abort
    <3>2. QED BY <3>1 DEF Restart
  <2>3. ASSUME UNCHANGED vars
        PROVE  kind' = kind /\ (stalled' = stalled \/ stalled' = FALSE)
    BY <2>3 DEF vars
  <2>4. kind' = kind /\ (stalled' = stalled \/ stalled' = FALSE)
    BY <2>1, <2>2, <2>3 DEF Next
  <2>5. QED BY <2>4 DEF StallOK, IInv
<1>3. QED BY <1>1, <1>2

LEMMA InitIsRight ==
  ASSUME Init
  PROVE  IInv
<1> USE DEF Init
<1>1. TypeOK
  <2>1. group \in [Writers -> GroupRecords]
    BY DEF NoGroup, GroupRecords, Statuses
  <2>2. bounds \in BoundsTypes
    BY BoundsAssumption DEF BoundsTypes
  <2>3. status \in [Writers -> Statuses]
    BY DEF Statuses
  <2>4. queue \in Seq(Writers) /\ stalled \in BOOLEAN /\ stopped \in BOOLEAN
    <3>1. queue = <<>> /\ stalled = FALSE /\ stopped = FALSE
      OBVIOUS
    <3>2. queue \in Seq(Writers)
      BY <3>1
    <3>3. stalled \in BOOLEAN /\ stopped \in BOOLEAN
      BY <3>1
    <3>4. QED BY <3>2, <3>3
  <2>5. QED BY <2>1, <2>2, <2>3, <2>4, EmptyLog DEF TypeOK, GroupRecords, BoundsTypes, thread, store
<1>2. /\ \A w \in Writers : /\ pc[w] = "start" /\ state[w] = "init" /\ newer[w] = None
                            /\ group[w].members = <<>>
      /\ Len(queue) = 0
  BY DEF NoGroup
<1>3. \A u, K \in Writers : ~InGroup(u, K)
  BY <1>2 DEF InGroup
<1>4. \A w \in Writers : ~Early(w) /\ ~Late(w) /\ ~Inserts(w) /\ ~Leads(w)
  BY <1>2 DEF Early, Late, Inserts, Leads
<1>5. QueueOK /\ LinksOK
  BY <1>2 DEF QueueOK, LinksOK
<1>6. GroupsOK
  BY <1>2, <1>3 DEF GroupsOK
<1>7. FreshOK
  BY <1>2 DEF FreshOK
<1>8. HeadOK
  BY <1>2, <1>4 DEF HeadOK
<1>9. TokenOK
  BY <1>4 DEF TokenOK
<1>10. CountOK
  BY <1>4 DEF CountOK, Inserting, Inserts
<1>11. ReleaseOK
  BY <1>2 DEF ReleaseOK
<1>12. StallOK
  BY DEF StallOK
<1>13. QED BY <1>1, <1>5, <1>6, <1>7, <1>8, <1>9, <1>10, <1>11, <1>12 DEF IInv, Shape

-----------------------------------------------------------------------------
(***************************************************************************)
(* The theorems.                                                           *)
(***************************************************************************)
\* The inductive invariant holds: what the queue, the links and the groups
\* look like, whatever the order in which the threads run.
THEOREM Invariance ==
  ASSUME Uniform
  PROVE  Spec => []IInv
<1>1. Init => IInv
  BY InitIsRight
<1>2. IInv /\ [Next]_vars => IInv'
  BY TypeStep, ShapeStep, StallStep DEF IInv
<1>3. QED BY <1>1, <1>2, PTL DEF Spec

\* The state of the write thread, the log and the store keeps its types; no
\* more of the log is synced than there is.
THEOREM TypeCorrect ==
  ASSUME Uniform
  PROVE  Spec => []TypeOK
<1>1. IInv => TypeOK
  BY DEF IInv
<1>2. QED BY <1>1, Invariance, PTL

\* One writer at a time leads, appends to the log and publishes, and not while
\* a member of a parallel group still inserts, however many writers there are:
\* the mutual exclusion that JoinBatchGroup, CompleteParallelMemTableWriter
\* and ExitAsBatchGroupLeader make without a lock.
THEOREM LeadersExclude ==
  ASSUME Uniform
  PROVE  Spec => []OneLeader
<1>1. ASSUME IInv
      PROVE  OneLeader
  <2>1. ThreadTypes /\ Shape
    BY <1>1, Types DEF IInv
  <2>2. \A w \in Writers : /\ w \in Holding <=> Early(w) \/ Late(w)
                           /\ w \in Inserting <=> Inserts(w)
    BY DEF Holding, Inserting, Early, Late, Inserts
  <2>3. Holding \subseteq Writers /\ Inserting \subseteq Writers
    BY DEF Holding, Inserting
  <2>4. \A v, w \in Holding : v = w
    BY <2>1, <2>2, <2>3 DEF Shape, TokenOK
  <2>5. Holding # {} => Inserting = {}
    BY <2>1, <2>2, <2>3 DEF Shape, TokenOK
  <2>6. ASSUME NEW v \in Inserting, NEW w \in Inserting
        PROVE  GroupOf(v) = GroupOf(w)
    <3>1. queue # <<>> /\ InGroup(v, queue[1]) /\ InGroup(w, queue[1])
      BY <2>1, <2>2, <2>3, <2>6 DEF Shape, HeadOK
    <3>2. queue[1] \in Writers
      BY <2>1, <3>1, QueueTypes
    <3>3. GroupOf(v) = queue[1] /\ GroupOf(w) = queue[1]
      BY <1>1, <2>3, <3>1, <3>2, GroupOfMember
    <3>4. QED BY <3>3
  <2>7. QED BY <2>4, <2>5, <2>6 DEF OneLeader
<1>2. QED BY <1>1, Invariance, PTL

\* CreateMissingNewerLinks' assertion never fails in a program that does not
\* mix no_slowdown writes with patient ones; the run stall_links shows one that
\* does, and there it fails.
THEOREM LinksSafe ==
  ASSUME Uniform
  PROVE  Spec => []LinkedRight
<1>1. IInv => LinkedRight
  BY Types, NewLinks DEF IInv, Shape, LinkedRight
<1>2. QED BY <1>1, Invariance, PTL

\* Nobody follows a pointer to a Writer or a WriteGroup whose thread has
\* returned: the stack they are on is gone.
THEOREM StacksSafe ==
  ASSUME Uniform
  PROVE  Spec => []NothingFreed
<1>1. ASSUME IInv
      PROVE  NothingFreed
  <2>1. ThreadTypes /\ Shape /\ TypeOK
    BY <1>1, Types DEF IInv
  <2>2. \A i \in 1 .. Len(queue) : pc[queue[i]] \notin {"done", "gone"}
    BY <2>1 DEF Shape, QueueOK, Waiting, Early, Inserts, Finished, Late, Leads
  <2>3. \A v \in Range(queue) : pc[v] \notin {"done", "gone"}
    BY <2>1, <2>2 DEF Range, ThreadTypes
  <2>4. ASSUME NEW w \in Writers, pc[w] \in {"inserted", "publish", "exit"}
        PROVE  /\ pc[GroupOf(w)] # "done"
               /\ \A v \in Members(GroupOf(w)) : pc[v] # "done"
    <3>1. queue # <<>> /\ InGroup(w, queue[1])
      BY <2>1, <2>4 DEF Late, Inserts, Shape, HeadOK
    <3>2. queue[1] \in Writers /\ Len(queue) \in Nat /\ Len(queue) >= 1
      BY <2>1, <3>1, QueueTypes
    <3>3. GroupOf(w) = queue[1]
      BY <1>1, <3>1, <3>2, GroupOfMember
    <3>4. InGroup(queue[1], queue[1])
      <4>1. group[queue[1]].members # <<>>
        BY <2>1, <3>1, <3>2, QueueTypes DEF InGroup
      <4>2. QED BY <2>1, <3>2, <4>1, LeaderInGroup DEF Shape
    <3>5. /\ Len(group[queue[1]].members) <= Len(queue)
          /\ \A j \in 1 .. Len(group[queue[1]].members) : group[queue[1]].members[j] = queue[j]
      BY <2>1, <3>2, <3>4 DEF Shape, GroupsOK
    <3>6. \A j \in 1 .. Len(group[queue[1]].members) : pc[group[queue[1]].members[j]] # "done"
      BY <2>1, <2>2, <3>2, <3>5, QueueTypes
    <3>7. \A v \in Members(queue[1]) : pc[v] # "done"
      BY <2>1, <3>2, <3>6, MembersType
    <3>8. QED BY <2>2, <3>2, <3>3, <3>7
  <2>5. ASSUME NEW w \in Writers, pc[w] = "release"
        PROVE  /\ pc[GroupOf(w)] # "done"
               /\ \A i \in 1 .. group[GroupOf(w)].left :
                    pc[group[GroupOf(w)].members[i]] # "done"
    <3> DEFINE L == GroupOf(w)
    <3>1. L \in Writers /\ InGroup(w, L)
      BY <1>1, <2>5, GroupedWriters
    <3> HIDE DEF L
    <3>2. Leaving(w, L)
      BY <2>1, <2>5, <3>1 DEF Shape, ReleaseOK
    <3>3. \A i \in 1 .. group[L].left : pc[group[L].members[i]] # "done"
      BY <2>5, <3>2 DEF Leaving, Waiting, Finished
    <3>4. group[L].left \in Nat /\ group[L].left >= 1 /\ Len(group[L].members) >= 1
      BY <2>1, <3>1, <3>2, QueueTypes DEF Leaving
    <3>5. group[L].members[1] = L
      BY <2>1, <3>1, <3>4, QueueTypes DEF Shape, GroupsOK
    <3>6. pc[L] # "done"
      BY <3>3, <3>4, <3>5
    <3>7. QED BY <3>3, <3>6 DEF L
  <2>6. QED BY <2>3, <2>4, <2>5 DEF NothingFreed
<1>2. QED BY <1>1, Invariance, PTL
=============================================================================
