--------------------------- MODULE Durability_proof ----------------------------
(***************************************************************************)
(* What the write thread of WriteThread leaves behind, for any number of   *)
(* writers, write stalls, failures and crashes: numbers that are unique, a *)
(* log and a memtable that agree or stop the database, and writes that     *)
(* stay once they returned OK.                                             *)
(***************************************************************************)
EXTENDS WriteThread_proof

-----------------------------------------------------------------------------
(***************************************************************************)
(* The inductive invariant, beside IInv.                                   *)
(***************************************************************************)
\* A writer of a group that has the log behind it, or needs none, up to
\* SetLastSequence.
Active(v) == pc[v] \in {"sync", "insert", "publish"} \/ Inserts(v)

\* The group L is between its record and SetLastSequence, with no error.
InHand(L) == group[L].st = "ok" /\ \E v \in Writers : Active(v) /\ InGroup(v, L)

\* The database stops, or is about to.
Doomed == stopped \/ \E v, L \in Writers :
  pc[v] = "publish" /\ InGroup(v, L) /\ (group[L].st = "error" \/ status[v] = "error")

\* A leader is past the log.
Past(L) == ~(pc[L] \in {"start", "stall", "enter", "log"} \/ Leads(L) \/ Waiting(L))

\* Every record is that of one group, whose leader has appended it.
RecordsOK ==
  /\ \A i \in 1 .. Len(log) : \E L \in Writers :
       /\ log[i].batches = group[L].members /\ group[L].members # <<>>
       /\ ~kind[L].disableWAL /\ Past(L)
  /\ \A i, j \in 1 .. Len(log) : log[i].batches = log[j].batches => i = j

\* Who is in a group fits.
FitOK == \A v, L \in Writers : InGroup(v, L) =>
  /\ kind[L].disableWAL => kind[v].disableWAL
  /\ kind[v].sync => kind[L].sync

\* A group writes with no error and while the database is not stopped; it is
\* left by its leader or, without an error, by its last.  Nobody has been
\* refused before he is told so.
Stage(v) ==
  /\ pc[v] \in {"enter", "log", "sync", "insert"} /\ group[v].st = "ok" => ~stopped
  /\ pc[v] = "enter" /\ group[v].st = "error" => stopped
  /\ pc[v] \in {"log", "sync", "insert"} => group[v].st = "ok"
  /\ pc[v] \in {"log", "sync"} => ~kind[v].disableWAL
  /\ status[v] = "incomplete" => \/ pc[v] \in {"release", "done", "gone"}
                                 \/ pc[v] \in {"await", "finish"} /\ state[v] = "completed"
  /\ \A L \in Writers : InGroup(v, L) =>
       /\ Inserts(v) => group[L].st = "ok" /\ ~stopped
       /\ pc[v] = "publish" /\ group[L].st = "ok" => ~stopped
       /\ pc[v] \in {"publish", "exit", "release"} =>
            /\ v # L => group[L].st = "ok"
            /\ group[L].st = "ok" /\ Len(group[L].members) > 1 /\ group[L].ok => status[v] = "ok"
       /\ pc[v] = "release" /\ v # L => group[L].ok
StageOK == \A v \in Writers : Stage(v)

\* What a group in hand has done so far.
HandOK == \A v, L \in Writers : Active(v) /\ InGroup(v, L) /\ group[L].st = "ok" =>
  /\ ~kind[L].disableWAL => /\ log # <<>>
                            /\ log[Len(log)].batches = group[L].members
                            /\ log[Len(log)].first = lastSeq + 1
                            /\ ~log[Len(log)].torn
  /\ kind[L].sync /\ pc[v] # "sync" => synced = Len(log)
  /\ Inserts(v) \/ pc[v] = "publish" =>
       /\ group[L].last = lastSeq + Len(group[L].members)
       /\ \A i \in 1 .. Len(group[L].members) : num[group[L].members[i]] = lastSeq + i

\* What its members have inserted.
InsertOK ==
  /\ \A v, L \in Writers : InGroup(v, L) /\ Inserts(v) =>
       \A u \in Writers : InGroup(u, L) => Inserts(u) \/ Finished(u)
  /\ \A v \in Writers : pc[v] = "inserted" /\ status[v] = "ok" => v \in applied
  /\ \A v, L \in Writers : InGroup(v, L) /\ Finished(v) /\ group[L].ok => v \in applied
  /\ \A v, L \in Writers : InGroup(v, L) /\ pc[v] = "publish" /\ group[L].st = "ok" /\ status[v] = "ok" =>
       \A u \in Writers : InGroup(u, L) => u \in applied

Ahead(w) == \E L \in Writers : InHand(L) /\
  \E i \in 1 .. Len(group[L].members) : group[L].members[i] = w /\ LogNum(w) = lastSeq + i
NumOK ==
  /\ \A w \in Found : LogNum(w) >= 1
  /\ \A v, w \in Found : LogNum(v) = LogNum(w) => v = w
  /\ ~Doomed => \A w \in Found : LogNum(w) <= lastSeq \/ Ahead(w)

SameOK ==
  /\ \A w \in applied : ~kind[w].broken
  /\ \A w \in applied \ disk : Logged(w) \/ kind[w].disableWAL
  /\ ~Doomed => \A w \in Writers : Logged(w) =>
       w \in applied \/ \E L \in Writers : InHand(L) /\ InGroup(w, L)

WholeOK == \A i \in 1 .. Len(log) :
  \/ Whole(log[i])
  \/ i = Len(log) /\ (Doomed \/ \E L \in Writers : InHand(L) /\ log[i].batches = group[L].members)

Durable(w) == \/ w \in disk \/ kind[w].disableWAL
              \/ \E i \in 1 .. Len(log) : /\ w \in Range(log[i].batches) /\ Whole(log[i])
                                          /\ kind[w].sync => i <= synced
Kept(w) == w \in applied /\ num[w] <= lastSeq /\ Durable(w)
ToldOK(w) == /\ pc[w] = "done" \/ (pc[w] \in {"await", "finish"} /\ state[w] = "completed")
             /\ status[w] = "ok"
KeptOK ==
  /\ \A w \in Writers : ToldOK(w) => w \in mayBeLost \/ Kept(w)
  /\ \A v, L \in Writers :
       InGroup(v, L) /\ pc[v] \in {"exit", "release"} /\ group[L].st = "ok" /\ status[v] = "ok" =>
         \A u \in Writers : InGroup(u, L) => Kept(u)

Data == RecordsOK /\ FitOK /\ StageOK /\ HandOK /\ InsertOK /\ NumOK /\ SameOK /\ WholeOK /\ KeptOK

-----------------------------------------------------------------------------
(***************************************************************************)
(* Who is in which group, and what the others do meanwhile.                *)
(***************************************************************************)
\* No step mixes up whose group a writer is in.
LEMMA OneGroup ==
  ASSUME IInv, NEW v \in Writers, NEW K \in Writers, NEW L \in Writers, InGroup(v, K), InGroup(v, L)
  PROVE  K = L
BY DEF IInv, Shape, GroupsOK

\* A group in hand is the front of the queue.
LEMMA InHandFront ==
  ASSUME IInv, NEW v \in Writers, Active(v)
  PROVE  /\ queue # <<>> /\ queue[1] \in Writers /\ InGroup(v, queue[1])
         /\ InGroup(queue[1], queue[1])
         /\ \A L \in Writers : InGroup(v, L) => L = queue[1]
<1>1. ThreadTypes BY Types DEF IInv
<1>2. queue # <<>> /\ InGroup(v, queue[1])
  <2>1. CASE pc[v] = "publish" \/ Inserts(v)
    <3>1. Late(v) \/ Inserts(v) BY <2>1 DEF Late
    <3>2. QED BY <3>1 DEF IInv, Shape, HeadOK
  <2>2. CASE pc[v] \in {"sync", "insert"}
    <3>1. queue # <<>> /\ v = queue[1] /\ group[v].members # <<>>
      BY <2>2 DEF Early, IInv, Shape, HeadOK
    <3>2. InGroup(v, v) BY <1>1, <3>1, LeaderInGroup DEF IInv, Shape
    <3>3. QED BY <3>1, <3>2
  <2>3. QED BY <2>1, <2>2 DEF Active
<1>3. queue[1] \in Writers BY <1>1, <1>2, QueueTypes
<1>4. group[queue[1]].members # <<>> BY <1>1, <1>2, <1>3, QueueTypes DEF InGroup
<1>5. InGroup(queue[1], queue[1]) BY <1>1, <1>3, <1>4, LeaderInGroup DEF IInv, Shape
<1>6. QED BY <1>2, <1>3, <1>5, OneGroup

\* There is one.
LEMMA OneInHand ==
  ASSUME IInv, NEW v \in Writers, NEW u \in Writers, NEW K \in Writers, NEW L \in Writers,
         Active(v), Active(u), InGroup(v, K), InGroup(u, L)
  PROVE  K = L
BY InHandFront

\* Its writers are in the queue: none of them has been told anything.
LEMMA InHandQueued ==
  ASSUME IInv, NEW v \in Writers, NEW L \in Writers, Active(v), InGroup(v, L),
         NEW u \in Writers, InGroup(u, L)
  PROVE  /\ Waiting(u) \/ Early(u) \/ Inserts(u) \/ Finished(u) \/ Late(u)
         /\ pc[u] \notin {"start", "release", "done", "gone"}
         /\ ~ToldOK(u)
<1>1. ThreadTypes BY Types DEF IInv
<1>2. L = queue[1] /\ queue # <<>> /\ InGroup(queue[1], L) BY InHandFront
<1>3. PICK i \in 1 .. Len(group[L].members) : group[L].members[i] = u BY DEF InGroup
<1>4. 1 \in 1 .. Len(queue) BY <1>1, <1>2, QueueTypes
<1>5. i \in 1 .. Len(queue) /\ queue[i] = u
  <2>1. /\ Len(group[L].members) <= Len(queue)
        /\ \A j \in 1 .. Len(group[L].members) : group[L].members[j] = queue[j]
    BY <1>2, <1>4 DEF IInv, Shape, GroupsOK
  <2>2. Len(group[L].members) \in Nat /\ Len(queue) \in Nat BY <1>1, QueueTypes DEF ThreadTypes
  <2>3. QED BY <1>3, <2>1, <2>2
<1>6. Waiting(u) \/ Early(u) \/ Inserts(u) \/ Finished(u) \/ Late(u)
  BY <1>5 DEF IInv, Shape, QueueOK
<1>7. pc[u] = "stall" => state[u] = "leader" BY DEF IInv, Shape, HeadOK
<1>8. QED BY <1>6 DEF Waiting, Early, Leads, Inserts, Finished, Late, ToldOK

\* Who leads but has not appended, or is about to leave, has nobody beside it.
LEMMA NobodyActive ==
  ASSUME IInv, NEW w \in Writers, Leads(w) \/ pc[w] \in {"stall", "enter", "log", "exit"}
  PROVE  \A v \in Writers : ~Active(v)
<1>0. Early(w) \/ Late(w)
      \/ pc[w] = "enter"
  BY DEF Early, Late
<1> SUFFICES ASSUME NEW v \in Writers, Active(v) PROVE FALSE OBVIOUS
<1>1. Early(v) \/ Late(v) \/ Inserts(v) BY DEF Active, Early, Late
<1>2. Early(w) \/ Late(w) BY DEF Early, Late
<1>3. v # w BY DEF Active, Leads, Inserts
<1>4. QED BY <1>1, <1>2, <1>3 DEF IInv, Shape, TokenOK

\* And one alone, while it is.
LEMMA OnlyActive ==
  ASSUME IInv, NEW w \in Writers, pc[w] \in {"sync", "insert", "publish"}
  PROVE  \A v \in Writers : Active(v) <=> v = w
<1>1. Early(w) \/ Late(w) BY DEF Early, Late
<1>2. \A v \in Writers : Active(v) => Early(v) \/ Late(v) \/ Inserts(v) BY DEF Active, Early, Late
<1>3. QED BY <1>1, <1>2 DEF IInv, Shape, TokenOK, Active

\* A leader that has a group is in it, and those behind it wait.
LEMMA LeaderAndWaiting ==
  ASSUME IInv, NEW w \in Writers, pc[w] \in {"log", "sync", "insert"}
  PROVE  /\ InGroup(w, w) /\ group[w].members # <<>> /\ group[w].members[1] = w
         /\ w = queue[1] /\ queue # <<>>
         /\ \A u \in Writers : InGroup(u, w) => u = w \/ Waiting(u)
<1>1. ThreadTypes BY Types DEF IInv
<1>2. queue # <<>> /\ w = queue[1] /\ \A i \in 2 .. Len(queue) : Waiting(queue[i])
  BY DEF Early, IInv, Shape, HeadOK
<1>3. group[w].members # <<>> BY DEF IInv, Shape, HeadOK
<1>4. InGroup(w, w) BY <1>1, <1>3, LeaderInGroup DEF IInv, Shape
<1>5. group[w].members[1] = w BY <1>3 DEF IInv, Shape, GroupsOK
<1>6. 1 \in 1 .. Len(queue) BY <1>1, <1>2, QueueTypes
<1>7. /\ Len(group[w].members) <= Len(queue)
      /\ \A j \in 1 .. Len(group[w].members) : group[w].members[j] = queue[j]
  BY <1>2, <1>4, <1>6 DEF IInv, Shape, GroupsOK
<1>8. Len(group[w].members) \in Nat /\ Len(queue) \in Nat BY <1>1, QueueTypes DEF ThreadTypes
<1>9. ASSUME NEW u \in Writers, InGroup(u, w) PROVE u = w \/ Waiting(u)
  <2>1. PICK i \in 1 .. Len(group[w].members) : group[w].members[i] = u BY <1>9 DEF InGroup
  <2>2. i \in 1 .. Len(queue) /\ queue[i] = u BY <1>7, <1>8, <2>1
  <2>3. QED BY <1>2, <1>8, <2>1, <2>2
<1>10. QED BY <1>2, <1>3, <1>4, <1>5, <1>9

-----------------------------------------------------------------------------
(***************************************************************************)
(* The log.                                                                *)
(***************************************************************************)
Records == [batches : Seq(Writers), first : Nat, torn : BOOLEAN]

\* What the provers need to know about a log.
LogFacts ==
  /\ log \in Seq(Records) /\ Len(log) \in Nat /\ DOMAIN log = 1 .. Len(log)
  /\ log = <<>> <=> Len(log) = 0
  /\ synced \in Nat /\ synced <= Len(log)
  /\ \A i \in 1 .. Len(log) :
       /\ log[i] \in Records
       /\ log[i].batches \in Seq(Writers) /\ log[i].first \in Nat /\ log[i].torn \in BOOLEAN
       /\ Len(log[i].batches) \in Nat
       /\ DOMAIN log[i].batches = 1 .. Len(log[i].batches)
       /\ \A j \in 1 .. Len(log[i].batches) : log[i].batches[j] \in Writers

\* A log is a sequence of records, of which no more is synced than there is.
LEMMA LogTypes == TypeOK => LogFacts
<1> SUFFICES ASSUME TypeOK PROVE LogFacts OBVIOUS
<1>1. log \in Seq(Records) /\ synced \in 0 .. Len(log) BY DEF TypeOK, Records
<1>2. /\ Len(log) \in Nat /\ DOMAIN log = 1 .. Len(log) /\ log = <<>> <=> Len(log) = 0
      /\ \A i \in 1 .. Len(log) : log[i] \in Records
  BY <1>1
<1>3. \A r \in Records : /\ r.batches \in Seq(Writers) /\ r.first \in Nat /\ r.torn \in BOOLEAN
                         /\ Len(r.batches) \in Nat /\ DOMAIN r.batches = 1 .. Len(r.batches)
                         /\ \A j \in 1 .. Len(r.batches) : r.batches[j] \in Writers
  BY DEF Records
<1>4. QED BY <1>1, <1>2, <1>3 DEF LogFacts

\* A batch is in the log at a place.
Place(w, i, j) == /\ i \in 1 .. Len(log) /\ j \in 1 .. Len(log[i].batches)
                  /\ log[i].batches[j] = w
LogPlaces == \A w : Logged(w) <=> \E i, j \in Nat : Place(w, i, j)

\* A batch is logged when it has a place in the log.
LEMMA LoggedPlace == TypeOK => LogPlaces
<1> SUFFICES ASSUME TypeOK, NEW w
             PROVE  Logged(w) <=> \E i, j \in Nat : Place(w, i, j)
  BY DEF LogPlaces
<1>1. ASSUME Logged(w) PROVE \E i, j \in Nat : Place(w, i, j)
  <2>1. PICK r \in Range(log) : w \in Range(r.batches) BY <1>1 DEF Logged
  <2>2. PICK i \in DOMAIN log : r = log[i] BY <2>1 DEF Range
  <2>3. PICK j \in DOMAIN log[i].batches : w = log[i].batches[j] BY <2>1, <2>2 DEF Range
  <2>4. /\ i \in 1 .. Len(log) /\ i \in Nat
        /\ j \in 1 .. Len(log[i].batches) /\ j \in Nat
    BY <2>2, <2>3, LogTypes DEF LogFacts
  <2>5. Place(w, i, j) BY <2>3, <2>4 DEF Place
  <2>6. QED BY <2>4, <2>5
<1>2. ASSUME NEW i \in Nat, NEW j \in Nat, Place(w, i, j) PROVE Logged(w)
  <2>1. i \in DOMAIN log /\ j \in DOMAIN log[i].batches /\ w = log[i].batches[j]
    BY <1>2, LogTypes DEF LogFacts, Place
  <2>2. log[i] \in Range(log) /\ w \in Range(log[i].batches) BY <2>1 DEF Range
  <2>3. QED BY <2>2 DEF Logged
<1>3. QED BY <1>1, <1>2

\* In one place only,
LEMMA OnePlace ==
  ASSUME IInv, RecordsOK, NEW w, NEW i \in Nat, NEW j \in Nat, NEW k \in Nat, NEW l \in Nat,
         Place(w, i, j), Place(w, k, l)
  PROVE  i = k /\ j = l
<1>1. PICK K \in Writers : log[i].batches = group[K].members BY DEF RecordsOK, Place
<1>2. PICK L \in Writers : log[k].batches = group[L].members BY DEF RecordsOK, Place
<1>3. w \in Writers BY LogTypes DEF LogFacts, Place, IInv
<1>4. InGroup(w, K) /\ InGroup(w, L) BY <1>1, <1>2 DEF Place, InGroup
<1>5. K = L BY <1>3, <1>4, OneGroup
<1>6. i = k BY <1>1, <1>2, <1>5 DEF RecordsOK, Place
<1>7. j = l BY <1>1, <1>6 DEF Place, IInv, Shape, GroupsOK
<1>8. QED BY <1>6, <1>7

\* where it has its number.
NumbersInLog == \A w, i, j : i \in Nat /\ j \in Nat /\ Place(w, i, j) =>
                               LogNum(w) = log[i].first - 1 + j

\* A logged batch has the number of its place.
LEMMA NumberInLog == IInv /\ RecordsOK => NumbersInLog
<1> SUFFICES ASSUME IInv, RecordsOK, NEW w, NEW i \in Nat, NEW j \in Nat, Place(w, i, j)
             PROVE  LogNum(w) = log[i].first - 1 + j
  BY DEF NumbersInLog
<1> DEFINE r == CHOOSE r \in Range(log) : w \in Range(r.batches)
           l == CHOOSE l \in DOMAIN r.batches : r.batches[l] = w
<1>0. TypeOK BY DEF IInv
<1>1. Logged(w) BY <1>0, LoggedPlace DEF LogPlaces
<1>2. r \in Range(log) /\ w \in Range(r.batches) BY <1>1 DEF Logged
<1>3. LogNum(w) = r.first - 1 + l BY <1>1 DEF LogNum
<1> HIDE DEF r
<1>4. PICK k \in DOMAIN log : r = log[k] BY <1>2 DEF Range
<1>5. l \in DOMAIN r.batches /\ r.batches[l] = w BY <1>2 DEF Range
<1> HIDE DEF l
<1>6. k \in Nat /\ l \in Nat /\ Place(w, k, l) BY <1>0, <1>4, <1>5, LogTypes DEF LogFacts, Place
<1>7. k = i /\ l = j BY <1>6, OnePlace
<1>8. QED BY <1>3, <1>4, <1>7

\* The others have the number they got in the memtable.
LEMMA NumberOutside == \A w : ~Logged(w) => LogNum(w) = num[w]
BY DEF LogNum

\* What reads and replays find.
LEMMA FoundFacts ==
  ASSUME TypeOK
  PROVE  /\ Found \subseteq Writers
         /\ \A w : w \in Found <=> w \in applied \/ Logged(w)
<1>1. \A w : w \in Found <=> w \in applied \/ Logged(w) BY DEF Found, Logged
<1>2. \A w : Logged(w) => w \in Writers BY LoggedPlace, LogTypes DEF LogFacts, LogPlaces, Place
<1>3. QED BY <1>1, <1>2 DEF TypeOK

\* A record replays as a whole when none of its batches is broken.
LEMMA WholeRecord ==
  ASSUME TypeOK, NEW i \in 1 .. Len(log)
  PROVE  /\ Whole(log[i]) <=> ~log[i].torn /\ \A j \in 1 .. Len(log[i].batches) :
                                                  ~kind[log[i].batches[j]].broken
         /\ \A w : w \in Range(log[i].batches) <=> \E j \in 1 .. Len(log[i].batches) :
                                                     log[i].batches[j] = w
BY LogTypes DEF LogFacts, Whole, Range

\* A step that leaves the log and the groups it is from alone.
LEMMA SameLog ==
  ASSUME IInv, UNCHANGED <<log, num>>
  PROVE  \A w : (Logged(w)' <=> Logged(w)) /\ LogNum(w)' = LogNum(w)
BY DEF Logged, LogNum

-----------------------------------------------------------------------------
(***************************************************************************)
(* What a step that does not touch them leaves as it is.                   *)
(***************************************************************************)
SameGroups == \A L \in Writers : group'[L].members = group[L].members

\* Who is in a group depends on its members alone.
LEMMA SameMembers ==
  ASSUME SameGroups, NEW L \in Writers
  PROVE  \A v : InGroup(v, L)' <=> InGroup(v, L)
BY DEF SameGroups, InGroup

\* The records stay those of groups.
LEMMA RecordsKept ==
  ASSUME RecordsOK, UNCHANGED <<kind, log>>,
         \A L \in Writers : group[L].members # <<>> =>
           group'[L].members = group[L].members /\ (Past(L) => Past(L)')
  PROVE  RecordsOK'
<1>1. \A i \in 1 .. Len(log) : \E L \in Writers :
        /\ log[i].batches = group'[L].members /\ group'[L].members # <<>>
        /\ ~kind[L].disableWAL /\ Past(L)'
  BY DEF RecordsOK
<1>2. QED BY <1>1 DEF RecordsOK

\* Who fits in a group still does.
LEMMA FitKept ==
  ASSUME FitOK, UNCHANGED kind, SameGroups
  PROVE  FitOK'
BY SameMembers DEF FitOK

\* The database has stopped, or the group in hand still is.
Onward == Doomed' \/ (~Doomed /\ \A L \in Writers : InHand(L) =>
                                    InHand(L)' /\ group'[L].members = group[L].members)

\* The numbers are right as before when the log and the memtable stay as they are,
LEMMA NumKept ==
  ASSUME IInv, NumOK, Onward, UNCHANGED <<log, num, applied, lastSeq>>
  PROVE  NumOK'
<1>1. Found' = Found BY DEF Found
<1>2. \A u : LogNum(u)' = LogNum(u) BY SameLog
<1>3. ASSUME NEW u \in Found, Ahead(u), ~Doomed' PROVE Ahead(u)'
  <2>1. PICK L \in Writers : InHand(L) /\ \E i \in 1 .. Len(group[L].members) :
                               group[L].members[i] = u /\ LogNum(u) = lastSeq + i
    BY <1>3 DEF Ahead
  <2>2. InHand(L)' /\ group'[L].members = group[L].members BY <1>3, <2>1 DEF Onward
  <2>3. \E i \in 1 .. Len(group'[L].members) : group'[L].members[i] = u /\ LogNum(u)' = lastSeq' + i
    BY <1>2, <2>1, <2>2
  <2>4. QED BY <2>2, <2>3 DEF Ahead
<1>4. ~Doomed' => \A u \in Found' : LogNum(u)' <= lastSeq' \/ Ahead(u)'
  BY <1>1, <1>2, <1>3 DEF NumOK, Onward
<1>5. QED BY <1>1, <1>2, <1>4 DEF NumOK

\* the log and the memtable agree as before,
LEMMA SameKept ==
  ASSUME IInv, SameOK, Onward, UNCHANGED <<kind, log, num, disk, applied>>
  PROVE  SameOK'
<1>1. \A u : Logged(u)' <=> Logged(u) BY SameLog
<1>2. ASSUME NEW u \in Writers, NEW L \in Writers, InHand(L), InGroup(u, L), ~Doomed'
      PROVE  InHand(L)' /\ InGroup(u, L)'
  BY <1>2 DEF Onward, InGroup
<1>3. ~Doomed' => \A u \in Writers : Logged(u)' =>
        u \in applied' \/ \E L \in Writers : InHand(L)' /\ InGroup(u, L)'
  BY <1>1, <1>2 DEF SameOK, Onward
<1>4. QED BY <1>1, <1>3 DEF SameOK

\* and the records are whole as before.
LEMMA WholeKept ==
  ASSUME WholeOK, Onward, UNCHANGED <<kind, log>>
  PROVE  WholeOK'
<1>1. \A i \in 1 .. Len(log) : Whole(log[i])' <=> Whole(log[i]) BY DEF Whole
<1>2. ASSUME NEW i \in 1 .. Len(log), NEW L \in Writers, InHand(L), ~Doomed',
             log[i].batches = group[L].members
      PROVE  InHand(L)' /\ log'[i].batches = group'[L].members
  BY <1>2 DEF Onward
<1>3. QED BY <1>1, <1>2 DEF WholeOK, Onward

\* A write that is kept stays kept: the log and what is synced of it grow, and
\* so do what is applied and the last sequence number.
LEMMA KeptKept ==
  ASSUME IInv, TypeOK', NEW u \in Writers, Kept(u), UNCHANGED kind, disk \subseteq disk',
         applied \subseteq applied', num'[u] = num[u], lastSeq <= lastSeq', synced <= synced',
         Len(log) <= Len(log'), \A i \in 1 .. Len(log) : log'[i] = log[i]
  PROVE  Kept(u)'
<1>1. TypeOK BY DEF IInv
<1>2. synced \in Nat /\ synced' \in Nat /\ lastSeq \in Nat /\ lastSeq' \in Nat /\ num[u] \in Nat
      /\ Len(log) \in Nat /\ Len(log') \in Nat
  <2>1. log' \in Seq(Records) /\ synced' \in 0 .. Len(log') BY DEF TypeOK, Records
  <2>2. Len(log') \in Nat /\ synced' \in Nat BY <2>1
  <2>3. QED BY <1>1, <2>2, LogTypes DEF LogFacts, TypeOK
<1>3. ASSUME NEW i \in 1 .. Len(log), u \in Range(log[i].batches), Whole(log[i]),
             kind[u].sync => i <= synced
      PROVE  i \in 1 .. Len(log') /\ (u \in Range(log[i].batches) /\ Whole(log[i])
                                      /\ (kind[u].sync => i <= synced))'
  <2>1. log'[i] = log[i] /\ i \in 1 .. Len(log') /\ (i <= synced => i <= synced')
    BY <1>2
  <2>2. Whole(log[i])' BY <1>3, <2>1 DEF Whole
  <2>3. QED BY <1>3, <2>1, <2>2
<1>4. Durable(u)'
  <2>1. u \in disk' \/ kind'[u].disableWAL \/ \E i \in 1 .. Len(log) :
          u \in Range(log[i].batches) /\ Whole(log[i]) /\ (kind[u].sync => i <= synced)
    BY DEF Kept, Durable
  <2>2. QED BY <1>3, <2>1 DEF Durable
<1>5. num'[u] <= lastSeq' BY <1>2 DEF Kept
<1>6. QED BY <1>4, <1>5 DEF Kept

\* The stage of a writer that stays where it is.
LEMMA StageStays ==
  ASSUME NEW v \in Writers, Stage(v), UNCHANGED kind,
         pc'[v] = pc[v], state'[v] = state[v], status'[v] = status[v],
         stopped' = stopped \/ ~(Early(v) \/ Inserts(v) \/ pc[v] = "publish"),
         pc[v] \in {"enter", "log", "sync", "insert"} => group'[v].st = group[v].st,
         \A L \in Writers : InGroup(v, L)' /\ (Inserts(v) \/ pc[v] \in {"publish", "exit", "release"}) =>
           /\ group'[L].members = group[L].members
           /\ group'[L].st = group[L].st
           /\ group'[L].ok = group[L].ok
  PROVE  Stage(v)'
<1>1. Inserts(v)' <=> Inserts(v) BY DEF Inserts
<1>2. /\ pc'[v] \in {"enter", "log", "sync", "insert"} /\ group'[v].st = "ok" => ~stopped'
      /\ pc'[v] = "enter" /\ group'[v].st = "error" => stopped'
      /\ pc'[v] \in {"log", "sync", "insert"} => group'[v].st = "ok"
      /\ pc'[v] \in {"log", "sync"} => ~kind'[v].disableWAL
  BY DEF Stage, Early
<1>3. status'[v] = "incomplete" => \/ pc'[v] \in {"release", "done", "gone"}
                                   \/ pc'[v] \in {"await", "finish"} /\ state'[v] = "completed"
  BY DEF Stage
<1>4. ASSUME NEW L \in Writers, InGroup(v, L)'
      PROVE  /\ Inserts(v)' => group'[L].st = "ok" /\ ~stopped'
             /\ pc'[v] = "publish" /\ group'[L].st = "ok" => ~stopped'
             /\ pc'[v] \in {"publish", "exit", "release"} =>
                  /\ v # L => group'[L].st = "ok"
                  /\ group'[L].st = "ok" /\ Len(group'[L].members) > 1 /\ group'[L].ok => status'[v] = "ok"
             /\ pc'[v] = "release" /\ v # L => group'[L].ok
  <2>1. CASE Inserts(v) \/ pc[v] \in {"publish", "exit", "release"}
    <3>1. /\ group'[L].members = group[L].members /\ group'[L].st = group[L].st
          /\ group'[L].ok = group[L].ok
      BY <1>4, <2>1
    <3>2. InGroup(v, L) BY <1>4, <3>1 DEF InGroup
    <3>3. QED BY <1>1, <3>1, <3>2 DEF Stage
  <2>2. CASE ~(Inserts(v) \/ pc[v] \in {"publish", "exit", "release"})
    BY <1>1, <2>2
  <2>3. QED BY <2>1, <2>2
<1>5. QED BY <1>2, <1>3, <1>4 DEF Stage

\* What was told stays true.
LEMMA ToldStays ==
  ASSUME KeptOK, \A u \in Writers : Kept(u) /\ (ToldOK(u) \/ ToldOK(u)' \/ ~Active(u)) => Kept(u)',
         mayBeLost \subseteq mayBeLost',
         \A u \in Writers : ToldOK(u)' => ToldOK(u) \/ Kept(u),
         \A v, L \in Writers :
           InGroup(v, L)' /\ pc'[v] \in {"exit", "release"} /\ group'[L].st = "ok" /\ status'[v] = "ok" =>
             /\ InGroup(v, L) /\ pc[v] \in {"exit", "release"}
             /\ group[L].st = "ok" /\ status[v] = "ok"
             /\ group'[L].members = group[L].members
             /\ \A u \in Writers : InGroup(u, L) => ~Active(u)
  PROVE  KeptOK'
<1>1. \A u \in Writers : ToldOK(u)' => u \in mayBeLost' \/ Kept(u)'
  BY DEF KeptOK
<1>2. ASSUME NEW v \in Writers, NEW L \in Writers, InGroup(v, L)', pc'[v] \in {"exit", "release"},
             group'[L].st = "ok", status'[v] = "ok", NEW u \in Writers, InGroup(u, L)'
      PROVE  Kept(u)'
  <2>1. /\ InGroup(v, L) /\ pc[v] \in {"exit", "release"} /\ group[L].st = "ok" /\ status[v] = "ok"
        /\ group'[L].members = group[L].members
        /\ \A x \in Writers : InGroup(x, L) => ~Active(x)
    BY <1>2
  <2>2. InGroup(u, L) BY <1>2, <2>1 DEF InGroup
  <2>3. Kept(u) /\ ~Active(u) BY <2>1, <2>2 DEF KeptOK
  <2>4. QED BY <2>3
<1>3. QED BY <1>1, <1>2 DEF KeptOK

\* Nobody in a group that leaves is active.
LEMMA NobodyActiveInLeaving ==
  ASSUME IInv, NEW v \in Writers, NEW L \in Writers, InGroup(v, L), pc[v] \in {"exit", "release"},
         NEW u \in Writers, InGroup(u, L)
  PROVE  ~Active(u)
<1>1. ThreadTypes /\ Shape BY Types DEF IInv
<1>2. CASE pc[v] = "exit" BY <1>2, NobodyActive
<1>3. CASE pc[v] = "release"
  <2>1. \A i \in 1 .. Len(queue) : queue[i] # v BY <1>1, <1>3, OutOfQueue
  <2>2. \A i \in 1 .. Len(queue) : queue[i] # u BY <1>1, <2>1, GroupLeftQueue
  <2>3. ~Early(u) /\ ~Late(u) /\ ~Inserts(u) BY <1>1, <2>2, OutsideQueue
  <2>4. QED BY <2>3 DEF Active, Early, Late
<1>4. QED BY <1>2, <1>3

-----------------------------------------------------------------------------
(***************************************************************************)
(* The steps that touch neither the log nor the store: joining, stalls,    *)
(* and leaving.                                                            *)
(***************************************************************************)
Quiet ==
  /\ UNCHANGED <<kind, log, synced, disk, applied, num, lastSeq, stopped, mayBeLost>>
  /\ SameGroups
  /\ \A L \in Writers : group[L].members # <<>> =>
       /\ group'[L].st = group[L].st /\ group'[L].ok = group[L].ok
       /\ group'[L].last = group[L].last
       /\ Past(L) => Past(L)'
  /\ \A v \in Writers :
       /\ Active(v)' => Active(v)
       /\ Active(v) => pc'[v] = pc[v] /\ state'[v] = state[v] /\ status'[v] = status[v]
       /\ Finished(v)' => Finished(v)
  /\ \A u, v, L \in Writers : InGroup(u, L) /\ InGroup(v, L) /\ Inserts(v) /\ Finished(u) => Finished(u)'

\* A quiet step disturbs only what the writers are told.
LEMMA QuietKeeps ==
  ASSUME IInv, TypeOK', Data, Quiet
  PROVE  /\ RecordsOK' /\ FitOK' /\ HandOK' /\ InsertOK' /\ NumOK' /\ SameOK' /\ WholeOK'
         /\ \A u \in Writers : Kept(u) => Kept(u)'
<1>1. \A v, L \in Writers : InGroup(v, L)' <=> InGroup(v, L) BY SameMembers DEF Quiet
<1>2. \A v, L \in Writers : InGroup(v, L) => group[L].members # <<>> /\ group[L].st = group'[L].st
                                             /\ group[L].ok = group'[L].ok
                                             /\ group[L].last = group'[L].last
                                             /\ group[L].members = group'[L].members
  <2>1. \A v, L \in Writers : InGroup(v, L) => group[L].members # <<>>
    <3>1. ThreadTypes BY Types DEF IInv
    <3>2. QED BY <3>1, QueueTypes DEF InGroup
  <2>2. QED BY <2>1 DEF Quiet, SameGroups
<1>3. \A v \in Writers : /\ Active(v)' <=> Active(v)
                         /\ Inserts(v)' <=> Inserts(v)
                         /\ pc'[v] = "publish" <=> pc[v] = "publish"
                         /\ pc'[v] = "sync" <=> pc[v] = "sync"
                         /\ Active(v) => pc'[v] = pc[v] /\ status'[v] = status[v]
  <2>1. ASSUME NEW v \in Writers, Active(v)
        PROVE  /\ pc'[v] = pc[v] /\ state'[v] = state[v] /\ status'[v] = status[v]
               /\ Active(v)' /\ (Inserts(v)' <=> Inserts(v))
    <3>1. pc'[v] = pc[v] /\ state'[v] = state[v] /\ status'[v] = status[v] BY <2>1 DEF Quiet
    <3>2. QED BY <2>1, <3>1 DEF Active, Inserts
  <2>2. ASSUME NEW v \in Writers, ~Active(v)
        PROVE  ~Active(v)'
    BY <2>2 DEF Quiet
  <2>3. \A v \in Writers : /\ ~Active(v) => ~Inserts(v) /\ pc[v] # "publish" /\ pc[v] # "sync"
                           /\ ~Active(v)' => ~Inserts(v)' /\ pc'[v] # "publish" /\ pc'[v] # "sync"
    BY DEF Active
  <2>4. QED BY <2>1, <2>2, <2>3
<1>4. \A L \in Writers : InHand(L) => InHand(L)' BY <1>1, <1>2, <1>3 DEF InHand
<1>5. Doomed => Doomed'
  <2>1. CASE stopped BY <2>1 DEF Doomed, Quiet
  <2>2. CASE ~stopped
    <3>1. \A v, L \in Writers : pc[v] = "publish" /\ InGroup(v, L) => Active(v) BY DEF Active
    <3>2. QED BY <1>1, <1>2, <1>3, <2>2, <3>1 DEF Doomed
  <2>3. QED BY <2>1, <2>2
<1>6. Onward BY <1>4, <1>5 DEF Onward, Quiet, SameGroups
<1>7. RecordsOK' BY RecordsKept DEF Data, Quiet, SameGroups
<1>8. FitOK' BY FitKept DEF Data, Quiet
<1>9. HandOK'
  <2> SUFFICES ASSUME NEW v \in Writers, NEW L \in Writers, Active(v)', InGroup(v, L)', group'[L].st = "ok"
      PROVE  /\ ~kind'[L].disableWAL => /\ log' # <<>>
                                        /\ log'[Len(log')].batches = group'[L].members
                                        /\ log'[Len(log')].first = lastSeq' + 1
                                        /\ ~log'[Len(log')].torn
             /\ kind'[L].sync /\ pc'[v] # "sync" => synced' = Len(log')
             /\ Inserts(v)' \/ pc'[v] = "publish" =>
                  /\ group'[L].last = lastSeq' + Len(group'[L].members)
                  /\ \A i \in 1 .. Len(group'[L].members) : num'[group'[L].members[i]] = lastSeq' + i
    BY DEF HandOK
  <2>1. Active(v) /\ InGroup(v, L) /\ group[L].st = "ok" /\ group[L].last = group'[L].last
        /\ group[L].members = group'[L].members
    BY <1>1, <1>2, <1>3
  <2>2. UNCHANGED <<kind, log, synced, num, lastSeq>> BY DEF Quiet
  <2>3. QED BY <1>3, <2>1, <2>2 DEF Data, HandOK
<1>10. InsertOK'
  <2>1. \A v, L \in Writers : InGroup(v, L)' /\ Inserts(v)' =>
          \A u \in Writers : InGroup(u, L)' => Inserts(u)' \/ Finished(u)'
    <3>1. ASSUME NEW v \in Writers, NEW L \in Writers, NEW u \in Writers,
                 InGroup(v, L)', Inserts(v)', InGroup(u, L)'
          PROVE  Inserts(u)' \/ Finished(u)'
      <4>1. InGroup(v, L) /\ Inserts(v) /\ InGroup(u, L) BY <1>1, <1>3, <3>1
      <4>2. Inserts(u) \/ Finished(u) BY <4>1 DEF Data, InsertOK
      <4>3. Finished(u) => Finished(u)' BY <4>1 DEF Quiet
      <4>4. QED BY <1>3, <4>2, <4>3
    <3>2. QED BY <3>1
  <2>2. \A v \in Writers : pc'[v] = "inserted" /\ status'[v] = "ok" => v \in applied'
    <3>1. \A v \in Writers : pc'[v] = "inserted" => Active(v)' BY DEF Active, Inserts
    <3>2. \A v \in Writers : pc'[v] = "inserted" /\ status'[v] = "ok" => pc[v] = "inserted" /\ status[v] = "ok"
      BY <1>3, <3>1
    <3>3. applied' = applied BY DEF Quiet
    <3>4. QED BY <3>2, <3>3 DEF Data, InsertOK
  <2>3. \A v, L \in Writers : InGroup(v, L)' /\ Finished(v)' /\ group'[L].ok => v \in applied'
    BY <1>1, <1>2 DEF Quiet, Data, InsertOK
  <2>4. \A v, L \in Writers : InGroup(v, L)' /\ pc'[v] = "publish" /\ group'[L].st = "ok" /\ status'[v] = "ok" =>
          \A u \in Writers : InGroup(u, L)' => u \in applied'
    <3>1. \A v \in Writers : pc'[v] = "publish" /\ status'[v] = "ok" => pc[v] = "publish" /\ status[v] = "ok"
      <4>1. \A v \in Writers : pc[v] = "publish" => Active(v) BY DEF Active
      <4>2. QED BY <1>3, <4>1
    <3>2. applied' = applied BY DEF Quiet
    <3>3. QED BY <1>1, <1>2, <3>1, <3>2 DEF Data, InsertOK
  <2>5. QED BY <2>1, <2>2, <2>3, <2>4 DEF InsertOK
<1>11. NumOK' /\ SameOK' /\ WholeOK'
  BY <1>6, NumKept, SameKept, WholeKept DEF Data, Quiet
<1>12. ASSUME NEW u \in Writers, Kept(u) PROVE Kept(u)'
  <2>1. UNCHANGED <<kind, log, synced, disk, applied, num, lastSeq>> BY DEF Quiet
  <2>2. Durable(u)' <=> Durable(u)
    <3>1. \A i \in 1 .. Len(log) : Whole(log[i])' <=> Whole(log[i]) BY <2>1 DEF Whole
    <3>2. QED BY <2>1, <3>1 DEF Durable
  <2>3. QED BY <1>12, <2>1, <2>2 DEF Kept
<1>13. QED BY <1>7, <1>8, <1>9, <1>10, <1>11, <1>12

\* What is told while nobody leaves.
LEMMA ToldSame ==
  ASSUME IInv, KeptOK, \A u \in Writers : Kept(u) /\ ~Active(u) => Kept(u)',
         \A u \in Writers : ToldOK(u) => ~Active(u),
         mayBeLost \subseteq mayBeLost',
         \A u \in Writers : ToldOK(u)' => ToldOK(u),
         \A L \in Writers : group[L].members # <<>> =>
           group'[L].members = group[L].members /\ group'[L].st = group[L].st,
         \A v, L \in Writers : InGroup(v, L)' /\ pc'[v] \in {"exit", "release"} =>
           group[L].members # <<>> /\ pc[v] \in {"exit", "release"} /\ status'[v] = status[v]
  PROVE  KeptOK'
<1>1. \A v, L \in Writers :
        InGroup(v, L)' /\ pc'[v] \in {"exit", "release"} /\ group'[L].st = "ok" /\ status'[v] = "ok" =>
          /\ InGroup(v, L) /\ pc[v] \in {"exit", "release"}
          /\ group[L].st = "ok" /\ status[v] = "ok"
          /\ group'[L].members = group[L].members
          /\ \A u \in Writers : InGroup(u, L) => ~Active(u)
  <2> SUFFICES ASSUME NEW v \in Writers, NEW L \in Writers, InGroup(v, L)', pc'[v] \in {"exit", "release"},
                      group'[L].st = "ok", status'[v] = "ok"
      PROVE  /\ InGroup(v, L) /\ pc[v] \in {"exit", "release"}
             /\ group[L].st = "ok" /\ status[v] = "ok"
             /\ group'[L].members = group[L].members
             /\ \A u \in Writers : InGroup(u, L) => ~Active(u)
    OBVIOUS
  <2>1. /\ group'[L].members = group[L].members /\ group'[L].st = group[L].st
        /\ pc[v] \in {"exit", "release"} /\ status'[v] = status[v]
    OBVIOUS
  <2>2. InGroup(v, L) BY <2>1 DEF InGroup
  <2>3. QED BY <2>1, <2>2, NobodyActiveInLeaving
<1>2. \A u \in Writers : Kept(u) /\ (ToldOK(u) \/ ToldOK(u)' \/ ~Active(u)) => Kept(u)'
  OBVIOUS
<1>3. \A u \in Writers : ToldOK(u)' => ToldOK(u) \/ Kept(u)
  OBVIOUS
<1>4. QED BY <1>1, <1>2, <1>3, ToldStays

\* Who has been told is not active.
LEMMA ToldIdle ==
  ASSUME NEW u
  PROVE  ToldOK(u) => ~Active(u)
BY DEF ToldOK, Active, Inserts

\* The writer in a group: the group is not empty.
LEMMA GroupNotEmpty ==
  ASSUME IInv, NEW v, NEW L \in Writers, InGroup(v, L)
  PROVE  group[L].members # <<>>
<1>1. ThreadTypes BY Types DEF IInv
<1>2. QED BY <1>1, QueueTypes DEF InGroup

\* Joining tells nobody OK, and changes no group.
LEMMA JoinData ==
  ASSUME IInv, TypeOK', Data, NEW w \in Writers, Join(w)
  PROVE  Data'
<1> USE DEF thread, store
<1>1. ThreadTypes /\ Shape BY Types DEF IInv
<1>2. ~stalled /\ state[w] = "init" /\ pc[w] = "start"
  BY DEF Join, IInv, StallOK, Shape, FreshOK
<1>3. /\ pc' = [pc EXCEPT ![w] = "await"] /\ UNCHANGED <<status, group>>
      /\ state'[w] \in {"init", "leader"} /\ \A v \in Writers \ {w} : state'[v] = state[v]
      /\ UNCHANGED <<kind, log, synced, disk, applied, num, lastSeq, stopped, mayBeLost>>
  BY <1>1, <1>2 DEF Join, ThreadTypes
<1>4. \A v \in Writers \ {w} : pc'[v] = pc[v] /\ state'[v] = state[v] BY <1>1, <1>3 DEF ThreadTypes
<1>5. pc'[w] = "await" BY <1>1, <1>3 DEF ThreadTypes
<1>6. Quiet
  <2>1. ~Active(w) /\ ~Active(w)' /\ ~Finished(w) /\ ~Finished(w)' /\ ~Past(w)
    BY <1>2, <1>3, <1>5 DEF Active, Inserts, Finished, Past
  <2>2. \A v \in Writers \ {w} : /\ Active(v)' <=> Active(v)
                                 /\ Finished(v)' <=> Finished(v)
                                 /\ Past(v)' <=> Past(v)
    BY <1>4 DEF Active, Inserts, Finished, Past, Leads, Waiting
  <2>3. QED BY <1>3, <1>4, <2>1, <2>2 DEF Quiet, SameGroups
<1>7. StageOK'
  <2>1. Stage(w)'
    <3>1. status[w] # "incomplete" BY <1>2 DEF Data, StageOK, Stage
    <3>2. ~Inserts(w)' BY <1>3, <1>5 DEF Inserts
    <3>3. QED BY <1>3, <1>5, <3>1, <3>2 DEF Stage
  <2>2. \A v \in Writers \ {w} : Stage(v)' BY <1>3, <1>4, StageStays DEF Data, StageOK
  <2>3. QED BY <2>1, <2>2 DEF StageOK
<1>8. KeptOK'
  <2>1. \A u \in Writers : ToldOK(u)' => ToldOK(u)
    BY <1>3, <1>4, <1>5 DEF ToldOK
  <2>2. \A u \in Writers : Kept(u) => Kept(u)' BY <1>6, QuietKeeps
  <2>3. \A v, L \in Writers : InGroup(v, L)' /\ pc'[v] \in {"exit", "release"} =>
           group[L].members # <<>> /\ pc[v] \in {"exit", "release"} /\ status'[v] = status[v]
    <3>1. \A v, L \in Writers : InGroup(v, L)' <=> InGroup(v, L) BY <1>3 DEF InGroup
    <3>2. QED BY <1>3, <1>4, <1>5, <3>1, GroupNotEmpty
  <2>4. QED BY <1>3, <2>1, <2>2, <2>3, ToldSame, ToldIdle DEF Data
<1>9. QED BY <1>6, <1>7, <1>8, QuietKeeps DEF Data

\* Before its group, the leader is let through, waits for the end of a stall,
\* or looks again.
LEMMA LeaderMoves ==
  ASSUME IInv, TypeOK', Data, NEW w \in Writers, NEW p, Leads(w) \/ pc[w] = "stall",
         p \in {"await", "stall", "enter"}, pc' = [pc EXCEPT ![w] = p],
         UNCHANGED <<kind, state, status, log, synced, disk, applied, num, lastSeq, stopped, mayBeLost>>,
         \A L \in Writers : group'[L].members = group[L].members,
         \A L \in Writers \ {w} : group'[L] = group[L],
         p = "enter" => /\ group'[w].st = "ok" => ~stopped
                        /\ group'[w].st = "error" => stopped
  PROVE  Data'
<1>1. ThreadTypes /\ Shape BY Types DEF IInv
<1>2. group[w].members = <<>> /\ state[w] = "leader"
  BY <1>1 DEF Shape, HeadOK, Leads
<1>3. pc'[w] = p /\ \A v \in Writers \ {w} : pc'[v] = pc[v] BY <1>1 DEF ThreadTypes
<1>4. \A v, L \in Writers : InGroup(v, L)' <=> InGroup(v, L) BY DEF InGroup
<1>5. \A L \in Writers : group[L].members # <<>> => L # w BY <1>2
<1>6. Quiet
  <2>1. ~Active(w) /\ ~Active(w)' /\ ~Finished(w) /\ ~Finished(w)'
    BY <1>2, <1>3 DEF Active, Inserts, Finished, Leads
  <2>2. \A v \in Writers \ {w} : /\ Active(v)' <=> Active(v)
                                 /\ Finished(v)' <=> Finished(v)
                                 /\ Past(v)' <=> Past(v)
    BY <1>3 DEF Active, Inserts, Finished, Past, Leads, Waiting
  <2>3. QED BY <1>3, <1>5, <2>1, <2>2 DEF Quiet, SameGroups
<1>7. StageOK'
  <2>1. Stage(w)'
    <3>1. status[w] # "incomplete" BY <1>2 DEF Data, StageOK, Stage, Leads
    <3>2. ~Inserts(w)' BY <1>2, <1>3 DEF Inserts
    <3>3. \A L \in Writers : ~InGroup(w, L)'
      <4>1. ASSUME NEW L \in Writers, InGroup(w, L) PROVE FALSE
        <5>1. group[L].members # <<>> BY <4>1, GroupNotEmpty
        <5>2. Early(w) BY DEF Early
        <5>3. queue # <<>> /\ w = queue[1] BY <1>1, <5>2 DEF Shape, HeadOK
        <5>4. 1 \in 1 .. Len(queue) BY <1>1, <5>3, QueueTypes
        <5>5. /\ Len(group[L].members) <= Len(queue)
              /\ \A j \in 1 .. Len(group[L].members) : group[L].members[j] = queue[j]
          BY <1>1, <4>1, <5>3, <5>4 DEF Shape, GroupsOK
        <5>6. 1 \in 1 .. Len(group[L].members) BY <1>1, <5>1, QueueTypes DEF ThreadTypes
        <5>7. group[L].members[1] = w BY <5>3, <5>5, <5>6
        <5>8. group[L].members[1] = L BY <1>1, <5>1 DEF Shape, GroupsOK
        <5>9. QED BY <1>2, <5>1, <5>7, <5>8
      <4>2. QED BY <1>4, <4>1
    <3>4. QED BY <1>3, <3>1, <3>2, <3>3 DEF Stage
  <2>2. ASSUME NEW v \in Writers \ {w} PROVE Stage(v)'
    <3>1. pc'[v] = pc[v] /\ state'[v] = state[v] /\ status'[v] = status[v] /\ group'[v].st = group[v].st
      BY <1>3
    <3>2. \A L \in Writers : InGroup(v, L)' => group'[L] = group[L]
      BY <1>4, <1>5, GroupNotEmpty
    <3>3. QED BY <3>1, <3>2, StageStays DEF Data, StageOK
  <2>3. QED BY <2>1, <2>2 DEF StageOK
<1>8. KeptOK'
  <2>1. \A u \in Writers : ToldOK(u)' => ToldOK(u)
    BY <1>2, <1>3 DEF ToldOK
  <2>2. \A u \in Writers : Kept(u) => Kept(u)' BY <1>6, QuietKeeps
  <2>3. \A v, L \in Writers : InGroup(v, L)' /\ pc'[v] \in {"exit", "release"} =>
           group[L].members # <<>> /\ pc[v] \in {"exit", "release"} /\ status'[v] = status[v]
    BY <1>3, <1>4, GroupNotEmpty
  <2>4. QED BY <1>5, <2>1, <2>2, <2>3, ToldSame, ToldIdle DEF Data
<1>9. QED BY <1>6, <1>7, <1>8, QuietKeeps DEF Data

\* The steps of a leader that is let through, refused or stalled tell nobody OK.
LEMMA LeaderData ==
  ASSUME Uniform, IInv, TypeOK', Data, NEW w \in Writers,
         Preprocess(w) \/ Refuse(w) \/ BeginStall(w) \/ EndStall(w)
  PROVE  Data'
<1> USE DEF thread, store
<1>0. group \in [Writers -> GroupRecords] BY Parts DEF IInv
<1>1. CASE Preprocess(w)
  <2>1. /\ \A L \in Writers : group'[L].members = group[L].members
        /\ \A L \in Writers \ {w} : group'[L] = group[L]
        /\ group'[w].st = IF stopped THEN "error" ELSE "ok"
    BY <1>0, <1>1 DEF Preprocess, GroupRecords
  <2>2. (group'[w].st = "ok" => ~stopped) /\ (group'[w].st = "error" => stopped) BY <2>1
  <2>3. /\ pc' = [pc EXCEPT ![w] = "enter"] /\ Leads(w)
        /\ UNCHANGED <<kind, state, status, log, synced, disk, applied, num, lastSeq, stopped, mayBeLost>>
    BY <1>1 DEF Preprocess
  <2>4. QED BY <2>1, <2>2, <2>3, LeaderMoves
<1>2. CASE Refuse(w)
  <2>1. /\ \A L \in Writers : group'[L].members = group[L].members
        /\ \A L \in Writers \ {w} : group'[L] = group[L]
        /\ group'[w].st = "incomplete" /\ ~stopped
    BY <1>0, <1>2 DEF Refuse, GroupRecords
  <2>2. QED BY <1>2, <2>1, LeaderMoves DEF Refuse
<1>3. CASE BeginStall(w)
  <2>1. UNCHANGED <<status, state>> BY <1>3, NobodyOut
  <2>2. QED BY <1>3, <2>1, LeaderMoves DEF BeginStall
<1>4. CASE EndStall(w)
  BY <1>4, LeaderMoves DEF EndStall
<1>5. QED BY <1>1, <1>2, <1>3, <1>4

\* The next leader waits behind the group.
LEMMA HandoffNext ==
  ASSUME IInv, NEW w \in Writers, Handoff(w)
  PROVE  \/ state' = state
         \/ \E n \in Writers : Waiting(n) /\ state' = [state EXCEPT ![n] = "leader"]
<1> DEFINE L == GroupOf(w)
           size == Len(group[L].members)
<1>1. ThreadTypes /\ Shape BY Types DEF IInv
<1>2. L \in Writers /\ InGroup(w, L) BY GroupedWriters DEF Handoff
<1>3. pc[w] = "exit" BY DEF Handoff
<1>4. /\ Len(queue) = size => state' = state
      /\ Len(queue) # size => state' = [state EXCEPT ![WithMissing[group[L].members[size]]] = "leader"]
  BY DEF Handoff
<1> HIDE DEF L
<1>5. queue # <<>> /\ L = queue[1] /\ queue[1] \in Writers /\ InGroup(L, L)
  <2>1. Late(w) BY <1>3 DEF Late
  <2>2. queue # <<>> /\ InGroup(w, queue[1]) BY <1>1, <2>1 DEF Shape, HeadOK
  <2>3. queue[1] \in Writers BY <1>1, <2>2, QueueTypes
  <2>4. L = queue[1] BY <1>2, <2>2, <2>3, OneGroup
  <2>5. group[L].members # <<>> BY <1>2, GroupNotEmpty
  <2>6. QED BY <1>1, <1>2, <2>2, <2>3, <2>4, <2>5, LeaderInGroup DEF Shape
<1>6. /\ Len(queue) \in Nat /\ \A i \in 1 .. Len(queue) : queue[i] \in Writers
      /\ size \in Nat /\ size >= 1 /\ size <= Len(queue) /\ group[L].members[size] = queue[size]
  <2>1. 1 \in 1 .. Len(queue) /\ Len(queue) \in Nat /\ \A i \in 1 .. Len(queue) : queue[i] \in Writers
    BY <1>1, <1>5, QueueTypes
  <2>2. size <= Len(queue) /\ \A j \in 1 .. size : group[L].members[j] = queue[j]
    BY <1>1, <1>2, <1>5, <2>1 DEF Shape, GroupsOK
  <2>3. group[L].members # <<>> /\ size \in Nat /\ size >= 1
    BY <1>1, <1>2, GroupNotEmpty, QueueTypes
  <2>4. QED BY <2>1, <2>2, <2>3
<1>7. CASE Len(queue) # size
  <2>1. size \in 1 .. Len(queue) - 1 /\ size + 1 \in 2 .. Len(queue) /\ size + 1 > size
        /\ queue[size + 1] \in Writers
    BY <1>6, <1>7
  <2>2. WithMissing[queue[size]] = queue[size + 1]
    BY <1>1, <2>1, NewLinks DEF Shape
  <2>3. Waiting(queue[size + 1]) BY <1>1, <1>5, <2>1 DEF Shape, HeadOK
  <2>4. QED BY <1>4, <1>6, <1>7, <2>1, <2>2, <2>3
<1>8. QED BY <1>4, <1>7

\* Handing the queue on changes nothing of the group that leaves.
LEMMA HandoffData ==
  ASSUME IInv, TypeOK', Data, NEW w \in Writers, Handoff(w)
  PROVE  Data'
<1> USE DEF thread, store
<1>1. ThreadTypes /\ Shape /\ group \in [Writers -> GroupRecords] BY Types, Parts DEF IInv
<1>2. /\ pc[w] = "exit" /\ pc' = [pc EXCEPT ![w] = "release"] /\ Asserts(w)
      /\ UNCHANGED <<kind, status, log, synced, disk, applied, num, lastSeq, stopped, mayBeLost>>
      /\ group' = [group EXCEPT ![GroupOf(w)].left = Len(group[GroupOf(w)].members)]
  BY DEF Handoff
<1>3. GroupOf(w) \in Writers /\ InGroup(w, GroupOf(w)) BY <1>2, GroupedWriters
<1>4. \A K \in Writers : /\ group'[K].members = group[K].members /\ group'[K].st = group[K].st
                         /\ group'[K].ok = group[K].ok /\ group'[K].last = group[K].last
  BY <1>1, <1>2, <1>3 DEF GroupRecords
<1>5. \A v, L \in Writers : InGroup(v, L)' <=> InGroup(v, L) BY <1>4 DEF InGroup
<1>6. pc'[w] = "release" /\ \A v \in Writers \ {w} : pc'[v] = pc[v]
  BY <1>1, <1>2 DEF ThreadTypes
<1>7. \A v \in Writers : state'[v] = state[v] \/ (Waiting(v) /\ state'[v] = "leader")
  <2>1. CASE state' = state BY <2>1
  <2>2. CASE \E n \in Writers : Waiting(n) /\ state' = [state EXCEPT ![n] = "leader"]
    BY <1>1, <2>2 DEF ThreadTypes
  <2>3. QED BY <2>1, <2>2, HandoffNext
<1>8. Quiet
  <2>1. /\ ~Active(w) /\ ~Active(w)' /\ ~Finished(w) /\ ~Finished(w)' /\ Past(w)'
    BY <1>2, <1>6 DEF Active, Inserts, Finished, Past, Leads, Waiting
  <2>2. ASSUME NEW v \in Writers \ {w}, state'[v] = state[v]
        PROVE  (Active(v)' <=> Active(v)) /\ (Finished(v)' <=> Finished(v)) /\ (Past(v)' <=> Past(v))
    BY <1>6, <2>2 DEF Active, Inserts, Finished, Past, Leads, Waiting
  <2>3. ASSUME NEW v \in Writers \ {w}, Waiting(v), state'[v] = "leader"
        PROVE  ~Active(v) /\ ~Active(v)' /\ ~Finished(v) /\ ~Finished(v)' /\ ~Past(v)
    BY <1>6, <2>3 DEF Active, Inserts, Finished, Past, Leads, Waiting
  <2>4. SameGroups BY <1>4 DEF SameGroups
  <2>5. \A L \in Writers : group[L].members # <<>> =>
       /\ group'[L].st = group[L].st /\ group'[L].ok = group[L].ok
       /\ group'[L].last = group[L].last
       /\ Past(L) => Past(L)'
    BY <1>4, <1>7, <2>1, <2>2, <2>3
  <2>6. \A v \in Writers :
       /\ Active(v)' => Active(v)
       /\ Active(v) => pc'[v] = pc[v] /\ state'[v] = state[v] /\ status'[v] = status[v]
       /\ Finished(v)' <=> Finished(v)
    BY <1>2, <1>6, <1>7, <2>1, <2>2, <2>3
  <2>7. QED BY <1>2, <2>4, <2>5, <2>6 DEF Quiet
<1>9. StageOK'
  <2>1. Stage(w)'
    <3>1. ASSUME NEW L \in Writers, InGroup(w, L)'
          PROVE  /\ w # L => group'[L].st = "ok" /\ group'[L].ok
                 /\ group'[L].st = "ok" /\ Len(group'[L].members) > 1 /\ group'[L].ok => status'[w] = "ok"
      <4>1. InGroup(w, L) BY <1>5, <3>1
      <4>2. L = GroupOf(w) BY <4>1, GroupOfMember
      <4>3. w # L => group[L].ok BY <1>2, <4>2 DEF Asserts
      <4>4. Stage(w) BY DEF Data, StageOK
      <4>5. QED BY <1>2, <1>4, <4>1, <4>3, <4>4 DEF Stage
    <3>2. ~Inserts(w)' BY <1>6 DEF Inserts
    <3>3. QED BY <1>6, <3>1, <3>2 DEF Stage
  <2>2. ASSUME NEW v \in Writers \ {w} PROVE Stage(v)'
    <3>1. CASE state'[v] = state[v]
      <4>1. \A L \in Writers : group'[L].members = group[L].members /\ group'[L].st = group[L].st
                               /\ group'[L].ok = group[L].ok
        BY <1>4
      <4>2. QED BY <1>2, <1>6, <3>1, <4>1, StageStays DEF Data, StageOK
    <3>2. CASE Waiting(v) /\ state'[v] = "leader"
      <4>1. Stage(v) BY DEF Data, StageOK
      <4>2. status'[v] # "incomplete" /\ pc'[v] = "await" BY <1>2, <1>6, <3>2, <4>1 DEF Waiting, Stage
      <4>3. ~Inserts(v)' BY <3>2, <4>2 DEF Inserts
      <4>4. QED BY <4>2, <4>3 DEF Stage
    <3>3. QED BY <1>7, <3>1, <3>2
  <2>3. QED BY <2>1, <2>2 DEF StageOK
<1>10. KeptOK'
  <2>1. \A u \in Writers : ToldOK(u)' => ToldOK(u)
    BY <1>2, <1>6, <1>7 DEF ToldOK, Waiting
  <2>2. \A u \in Writers : Kept(u) => Kept(u)' BY <1>8, QuietKeeps
  <2>3. \A v, L \in Writers : InGroup(v, L)' /\ pc'[v] \in {"exit", "release"} =>
           group[L].members # <<>> /\ pc[v] \in {"exit", "release"} /\ status'[v] = status[v]
    BY <1>2, <1>5, <1>6, GroupNotEmpty
  <2>4. QED BY <1>2, <1>4, <2>1, <2>2, <2>3, ToldSame, ToldIdle DEF Data
<1>11. QED BY <1>8, <1>9, <1>10, QuietKeeps DEF Data

\* Telling a member of a group that leaves.
LEMMA TellQuiet ==
  ASSUME IInv, TypeOK', Data, NEW w \in Writers, NEW L \in Writers, NEW v \in Writers,
         pc[w] = "release", InGroup(w, L), InGroup(v, L),
         v = w \/ Waiting(v) \/ Finished(v),
         \A u \in Writers \ {v, w} : pc'[u] = pc[u] /\ state'[u] = state[u] /\ status'[u] = status[u],
         pc'[w] \in {"release", "done"}, v # w => pc'[v] = pc[v] /\ state'[v] = "completed",
         UNCHANGED <<kind, log, synced, disk, applied, num, lastSeq, stopped, mayBeLost>>,
         \A K \in Writers : /\ group'[K].members = group[K].members /\ group'[K].st = group[K].st
                            /\ group'[K].ok = group[K].ok /\ group'[K].last = group[K].last
  PROVE  Quiet
<1>1. \A u \in Writers : InGroup(u, L) => ~Active(u)
  BY NobodyActiveInLeaving
<1>2. ~Active(w) /\ ~Active(w)' /\ ~Finished(w) /\ ~Finished(w)' /\ Past(w)'
  BY DEF Active, Inserts, Finished, Past, Leads, Waiting
<1>3. v # w => ~Active(v) /\ ~Active(v)' /\ ~Finished(v)' /\ Past(v)'
  <2>1. v # w => pc'[v] \in {"await", "finish"} /\ state'[v] = "completed"
    BY DEF Waiting, Finished
  <2>2. QED BY <1>1, <2>1 DEF Active, Inserts, Finished, Past, Leads, Waiting
<1>4. \A u \in Writers \ {v, w} : (Active(u)' <=> Active(u)) /\ (Finished(u)' <=> Finished(u))
                                  /\ (Past(u)' <=> Past(u))
  BY DEF Active, Inserts, Finished, Past, Leads, Waiting
<1>5. ASSUME NEW u \in Writers, NEW x \in Writers, NEW K \in Writers,
             InGroup(u, K), InGroup(x, K), Inserts(x), Finished(u)
      PROVE  Finished(u)'
  <2>1. Active(x) BY <1>5 DEF Active
  <2>2. K # L BY <1>1, <1>5, <2>1
  <2>3. u # v /\ u # w BY <1>5, <2>2, OneGroup
  <2>4. QED BY <1>4, <1>5, <2>3
<1>6. \A u \in Writers : /\ Active(u)' => Active(u)
                         /\ Active(u) => pc'[u] = pc[u] /\ state'[u] = state[u] /\ status'[u] = status[u]
                         /\ Finished(u)' => Finished(u)
                         /\ Past(u) => Past(u)'
  BY <1>1, <1>2, <1>3, <1>4
<1>7. QED BY <1>5, <1>6 DEF Quiet, SameGroups

\* A follower is told OK only when its group was published without an error,
LEMMA ReleaseData ==
  ASSUME IInv, TypeOK', Data, NEW w \in Writers, Release(w)
  PROVE  Data'
<1> USE DEF thread, store
<1>1. ThreadTypes /\ Shape /\ group \in [Writers -> GroupRecords] /\ status \in [Writers -> Statuses]
  BY Types, Parts DEF IInv
<1>2. pc[w] = "release" /\ pc' = pc
      /\ UNCHANGED <<kind, log, synced, disk, applied, num, lastSeq, stopped, mayBeLost>>
  BY DEF Release
<1>3. PICK L \in Writers : InGroup(w, L) /\ L = GroupOf(w) BY <1>2, GroupedWriters
<1>a. group[L].left > 1 /\ group' = [group EXCEPT ![L].left = @ - 1]
  BY <1>3 DEF Release
<1>4. \A K \in Writers : /\ group'[K].members = group[K].members /\ group'[K].st = group[K].st
                         /\ group'[K].ok = group[K].ok /\ group'[K].last = group[K].last
  BY <1>1, <1>a DEF GroupRecords
<1>5. Leaving(w, L) BY <1>1, <1>2, <1>3 DEF Shape, ReleaseOK
<1>6. PICK v \in Writers :
        /\ v = group[L].members[group[L].left] /\ InGroup(v, L) /\ Len(group[L].members) > 1
        /\ v = w \/ Waiting(v) \/ Finished(v)
  <2> DEFINE m == group[L].members[group[L].left]
  <2>1. group[L].left \in 1 .. Len(group[L].members) BY <1>5 DEF Leaving
  <2>2. Len(group[L].members) \in Nat /\ group[L].left \in Nat
    BY <1>1, <1>3, QueueTypes DEF ThreadTypes
  <2>3. m \in Writers /\ InGroup(m, L) BY <1>1, <1>3, <2>1, QueueTypes DEF InGroup
  <2>4. group[L].left \in 1 .. group[L].left BY <2>1, <2>2
  <2>5. m = w \/ Waiting(m) \/ Finished(m) BY <1>5, <2>4 DEF Leaving
  <2>6. Len(group[L].members) > 1 BY <1>a, <2>1, <2>2
  <2> HIDE DEF m
  <2>7. QED BY <2>3, <2>5, <2>6 DEF m
<1>b. /\ status' = [status EXCEPT ![v] = GroupStatus(L)]
      /\ state' = [state EXCEPT ![v] = "completed"]
  BY <1>3, <1>6 DEF Release
<1>7. /\ status'[v] = GroupStatus(L) /\ state'[v] = "completed"
      /\ \A u \in Writers \ {v} : state'[u] = state[u] /\ status'[u] = status[u]
  BY <1>1, <1>b DEF ThreadTypes
<1>8. \A u, K \in Writers : InGroup(u, K)' <=> InGroup(u, K) BY <1>4 DEF InGroup
<1>9. Quiet
  <2>1. pc'[w] \in {"release", "done"} /\ (v # w => pc'[v] = pc[v] /\ state'[v] = "completed")
    BY <1>2, <1>7
  <2>2. \A u \in Writers \ {v, w} : pc'[u] = pc[u] /\ state'[u] = state[u] /\ status'[u] = status[u]
    BY <1>2, <1>7
  <2>3. QED BY <1>2, <1>3, <1>4, <1>6, <2>1, <2>2, TellQuiet
<1>10. GroupStatus(L) = "ok" => group[L].st = "ok" /\ group[L].ok /\ status[w] = "ok"
  <2>1. GroupStatus(L) = "ok" => group[L].st = "ok" /\ group[L].ok
    BY <1>1, <1>3 DEF GroupStatus, GroupRecords
  <2>2. Stage(w) BY DEF Data, StageOK
  <2>3. QED BY <1>2, <1>3, <1>6, <2>1, <2>2 DEF Stage
<1>11. StageOK'
  <2>1. Stage(v)'
    <3>1. CASE v = w
      <4>1. Stage(w) BY DEF Data, StageOK
      <4>2. ASSUME NEW K \in Writers, InGroup(w, K)'
            PROVE  /\ w # K => group'[K].st = "ok" /\ group'[K].ok
                   /\ group'[K].st = "ok" /\ Len(group'[K].members) > 1 /\ group'[K].ok => status'[w] = "ok"
        <5>1. InGroup(w, K) /\ K = L BY <1>3, <1>8, <4>2, OneGroup
        <5>2. group[L].st = "ok" /\ group[L].ok => GroupStatus(L) = "ok" BY DEF GroupStatus
        <5>3. w # L => group[L].st = "ok" /\ group[L].ok BY <1>2, <1>3, <4>1 DEF Stage
        <5>4. QED BY <1>4, <1>7, <3>1, <5>1, <5>2, <5>3
      <4>3. pc'[w] = "release" /\ ~Inserts(w)' BY <1>2 DEF Inserts
      <4>4. QED BY <3>1, <4>2, <4>3 DEF Stage
    <3>2. CASE v # w
      <4>1. pc'[v] \in {"await", "finish"} /\ ~Inserts(v)'
        BY <1>2, <1>6, <1>7, <3>2 DEF Waiting, Finished, Inserts
      <4>2. QED BY <1>7, <4>1 DEF Stage
    <3>3. QED BY <3>1, <3>2
  <2>2. ASSUME NEW u \in Writers \ {v} PROVE Stage(u)'
    <3>1. pc'[u] = pc[u] /\ state'[u] = state[u] /\ status'[u] = status[u] BY <1>2, <1>7
    <3>2. QED BY <1>2, <1>4, <3>1, StageStays DEF Data, StageOK
  <2>3. QED BY <2>1, <2>2 DEF StageOK
<1>12. KeptOK'
  <2>1. \A u \in Writers : Kept(u) => Kept(u)' BY <1>9, QuietKeeps
  <2>2. \A u \in Writers : ToldOK(u)' => ToldOK(u) \/ Kept(u)
    <3>1. \A u \in Writers \ {v} : ToldOK(u)' => ToldOK(u) BY <1>2, <1>7 DEF ToldOK
    <3>2. ToldOK(v)' => GroupStatus(L) = "ok" BY <1>7 DEF ToldOK
    <3>3. GroupStatus(L) = "ok" => Kept(v) BY <1>2, <1>3, <1>6, <1>10 DEF Data, KeptOK
    <3>4. QED BY <3>1, <3>2, <3>3
  <2>3. ASSUME NEW u \in Writers, NEW K \in Writers, InGroup(u, K)', pc'[u] \in {"exit", "release"},
               group'[K].st = "ok", status'[u] = "ok"
        PROVE  /\ InGroup(u, K) /\ pc[u] \in {"exit", "release"} /\ group[K].st = "ok" /\ status[u] = "ok"
               /\ group'[K].members = group[K].members
               /\ \A x \in Writers : InGroup(x, K) => ~Active(x)
    <3>1. InGroup(u, K) /\ pc[u] \in {"exit", "release"} /\ group[K].st = "ok"
      BY <1>2, <1>4, <1>8, <2>3
    <3>2. status[u] = "ok"
      <4>1. CASE u # v BY <1>7, <2>3, <4>1
      <4>2. CASE u = v
        <5>1. u = w BY <1>6, <3>1, <4>2 DEF Waiting, Finished
        <5>2. QED BY <1>7, <1>10, <2>3, <4>2, <5>1
      <4>3. QED BY <4>1, <4>2
    <3>3. QED BY <1>4, <3>1, <3>2, NobodyActiveInLeaving
  <2>4. mayBeLost' = mayBeLost BY <1>2
  <2>5. QED BY <2>1, <2>2, <2>3, <2>4, ToldStays DEF Data
<1>13. QED BY <1>9, <1>11, <1>12, QuietKeeps DEF Data

\* and so is the leader.
LEMMA LeaveData ==
  ASSUME IInv, TypeOK', Data, NEW w \in Writers, Leave(w)
  PROVE  Data'
<1> USE DEF thread, store
<1>1. ThreadTypes /\ Shape /\ status \in [Writers -> Statuses] BY Types, Parts DEF IInv
<1>0. pc[w] = "release" BY DEF Leave
<1>3. PICK L \in Writers : InGroup(w, L) /\ L = GroupOf(w) BY <1>0, GroupedWriters
<1>2. /\ pc[w] = "release" /\ group[L].left = 1 /\ pc' = [pc EXCEPT ![w] = "done"]
      /\ w = L => status' = [status EXCEPT ![w] = LeaderStatus(w)] /\ UNCHANGED state
      /\ w # L => state' = [state EXCEPT ![L] = "completed"] /\ UNCHANGED status
      /\ UNCHANGED <<kind, log, synced, disk, applied, num, lastSeq, stopped, mayBeLost, group>>
  BY <1>3 DEF Leave
<1>4. Leaving(w, L) BY <1>1, <1>2, <1>3 DEF Shape, ReleaseOK
<1>5. InGroup(L, L) /\ (L = w \/ Waiting(L) \/ Finished(L))
  <2>1. group[L].members # <<>> BY <1>3, GroupNotEmpty
  <2>2. InGroup(L, L) BY <1>1, <1>3, <2>1, LeaderInGroup DEF Shape
  <2>3. group[L].members[1] = L BY <1>1, <1>3, <2>1 DEF Shape, GroupsOK
  <2>4. 1 \in 1 .. group[L].left BY <1>2
  <2>5. QED BY <1>4, <2>2, <2>3, <2>4 DEF Leaving
<1>6. /\ pc'[w] = "done" /\ \A u \in Writers \ {w} : pc'[u] = pc[u]
      /\ \A u \in Writers \ {w, L} : state'[u] = state[u]
      /\ \A u \in Writers \ {w} : status'[u] = status[u]
      /\ L # w => state'[L] = "completed" /\ state'[w] = state[w] /\ status'[w] = status[w]
      /\ L = w => state'[w] = state[w] /\ status'[w] = LeaderStatus(w)
  BY <1>1, <1>2, <1>3 DEF ThreadTypes
<1>7. \A u, K \in Writers : InGroup(u, K)' <=> InGroup(u, K) BY <1>2 DEF InGroup
<1>8. Quiet
  <2>1. L # w => pc'[L] = pc[L] /\ state'[L] = "completed"
    BY <1>3, <1>6
  <2>2. \A u \in Writers \ {L, w} : pc'[u] = pc[u] /\ state'[u] = state[u] /\ status'[u] = status[u]
    BY <1>6
  <2>3. QED BY <1>2, <1>3, <1>5, <1>6, <2>1, <2>2, TellQuiet
<1>9. StageOK'
  <2>1. Stage(w)'
    <3>1. ~Inserts(w)' BY <1>6 DEF Inserts
    <3>2. QED BY <1>6, <3>1 DEF Stage
  <2>2. L # w => Stage(L)'
    <3>1. CASE L # w
      <4>1. pc'[L] \in {"await", "finish"} /\ state'[L] = "completed" /\ ~Inserts(L)'
        BY <1>3, <1>5, <1>6, <3>1 DEF Waiting, Finished, Inserts
      <4>2. QED BY <4>1 DEF Stage
    <3>2. QED BY <3>1
  <2>3. ASSUME NEW u \in Writers \ {w, L} PROVE Stage(u)'
    <3>1. pc'[u] = pc[u] /\ state'[u] = state[u] /\ status'[u] = status[u] BY <1>6
    <3>2. QED BY <1>2, <3>1, StageStays DEF Data, StageOK
  <2>4. QED BY <1>3, <2>1, <2>2, <2>3 DEF StageOK
<1>10. KeptOK'
  <2>1. \A u \in Writers : Kept(u) => Kept(u)' BY <1>8, QuietKeeps
  <2>2. group[L].st = "ok" /\ status[w] = "ok" => \A u \in Writers : InGroup(u, L) => Kept(u)
    BY <1>2, <1>3 DEF Data, KeptOK
  <2>3. \A u \in Writers \ {w, L} : ToldOK(u)' => ToldOK(u) BY <1>6 DEF ToldOK
  <2>4. CASE L = w
    <3>1. ToldOK(w)' => LeaderStatus(w) = "ok" BY <1>6, <2>4 DEF ToldOK
    <3>2. LeaderStatus(w) = "ok" => group[L].st = "ok" /\ status[w] = "ok"
      BY <2>4 DEF LeaderStatus
    <3>3. \A u \in Writers : ToldOK(u)' => ToldOK(u) \/ Kept(u)
      BY <1>3, <2>2, <2>3, <2>4, <3>1, <3>2
    <3>4. ASSUME NEW u \in Writers, NEW K \in Writers, InGroup(u, K)', pc'[u] \in {"exit", "release"}
          PROVE  InGroup(u, K) /\ pc[u] \in {"exit", "release"} /\ status'[u] = status[u] /\ u # w
      BY <1>6, <1>7, <3>4
    <3>5. QED BY <1>2, <2>1, <3>3, <3>4, NobodyActiveInLeaving, ToldStays DEF Data
  <2>5. CASE L # w
    <3>1. group[L].st = "ok" /\ group[L].ok BY <1>2, <1>3, <2>5 DEF Data, StageOK, Stage
    <3>2. Len(group[L].members) > 1
      <4>1. PICK i \in 1 .. Len(group[L].members) : group[L].members[i] = w BY <1>3 DEF InGroup
      <4>2. PICK j \in 1 .. Len(group[L].members) : group[L].members[j] = L BY <1>5 DEF InGroup
      <4>3. i # j BY <2>5, <4>1, <4>2
      <4>4. Len(group[L].members) \in Nat BY <1>1, <1>3, QueueTypes DEF ThreadTypes
      <4>5. QED BY <4>3, <4>4
    <3>3. status[w] = "ok" BY <1>2, <1>3, <3>1, <3>2 DEF Data, StageOK, Stage
    <3>4. \A u \in Writers : ToldOK(u)' => ToldOK(u) \/ Kept(u)
      BY <1>3, <1>5, <2>2, <2>3, <3>1, <3>3
    <3>5. ASSUME NEW u \in Writers, NEW K \in Writers, InGroup(u, K)', pc'[u] \in {"exit", "release"}
          PROVE  InGroup(u, K) /\ pc[u] \in {"exit", "release"} /\ status'[u] = status[u] /\ u # w
      BY <1>6, <1>7, <3>5
    <3>6. QED BY <1>2, <2>1, <3>4, <3>5, NobodyActiveInLeaving, ToldStays DEF Data
  <2>6. QED BY <2>4, <2>5
<1>11. QED BY <1>8, <1>9, <1>10, QuietKeeps DEF Data

\* A writer returns what it was told.
LEMMA ReturnData ==
  ASSUME IInv, TypeOK', Data, NEW w \in Writers, Return(w)
  PROVE  Data'
<1> USE DEF thread, store
<1>1. ThreadTypes BY Types DEF IInv
<1>2. /\ pc[w] \in {"await", "finish"} /\ state[w] = "completed" /\ pc' = [pc EXCEPT ![w] = "done"]
      /\ UNCHANGED <<kind, state, status, log, synced, disk, applied, num, lastSeq, stopped,
                     mayBeLost, group>>
  BY DEF Return
<1>3. pc'[w] = "done" /\ \A u \in Writers \ {w} : pc'[u] = pc[u] /\ state'[u] = state[u] /\ status'[u] = status[u]
  BY <1>1, <1>2 DEF ThreadTypes
<1>4. \A u, K \in Writers : InGroup(u, K)' <=> InGroup(u, K) BY <1>2 DEF InGroup
<1>5. Quiet
  <2>1. /\ ~Active(w) /\ ~Active(w)' /\ ~Finished(w) /\ ~Finished(w)' /\ Past(w)'
    BY <1>2, <1>3 DEF Active, Inserts, Finished, Past, Leads, Waiting
  <2>2. \A u \in Writers \ {w} : (Active(u)' <=> Active(u)) /\ (Finished(u)' <=> Finished(u))
                                 /\ (Past(u)' <=> Past(u))
    BY <1>3 DEF Active, Inserts, Finished, Past, Leads, Waiting
  <2>3. QED BY <1>2, <1>3, <2>1, <2>2 DEF Quiet, SameGroups
<1>6. StageOK'
  <2>1. Stage(w)'
    <3>1. ~Inserts(w)' BY <1>3 DEF Inserts
    <3>2. QED BY <1>3, <3>1 DEF Stage
  <2>2. \A u \in Writers \ {w} : Stage(u)' BY <1>2, <1>3, StageStays DEF Data, StageOK
  <2>3. QED BY <2>1, <2>2 DEF StageOK
<1>7. KeptOK'
  <2>1. \A u \in Writers : ToldOK(u)' => ToldOK(u) BY <1>2, <1>3 DEF ToldOK
  <2>2. \A u \in Writers : Kept(u) => Kept(u)' BY <1>5, QuietKeeps
  <2>3. \A v, L \in Writers : InGroup(v, L)' /\ pc'[v] \in {"exit", "release"} =>
           group[L].members # <<>> /\ pc[v] \in {"exit", "release"} /\ status'[v] = status[v]
    BY <1>3, <1>4, GroupNotEmpty
  <2>4. QED BY <1>2, <2>1, <2>2, <2>3, ToldSame, ToldIdle DEF Data
<1>8. QED BY <1>5, <1>6, <1>7, QuietKeeps DEF Data

-----------------------------------------------------------------------------
(***************************************************************************)
(* Making a group.                                                         *)
(***************************************************************************)
\* Nobody behind a leader that has no group yet is in one.
LEMMA NotGrouped ==
  ASSUME IInv, NEW w \in Writers, pc[w] = "enter"
  PROVE  /\ group[w].members = <<>> /\ queue # <<>> /\ queue[1] = w
         /\ \A i \in 2 .. Len(queue) : Waiting(queue[i])
         /\ \A i \in 1 .. Len(queue) : queue[i] \in Writers /\ \A L \in Writers : ~InGroup(queue[i], L)
<1>1. ThreadTypes /\ Shape BY Types DEF IInv
<1>2. Early(w) BY DEF Early
<1>3. /\ group[w].members = <<>> /\ queue # <<>> /\ queue[1] = w
      /\ \A i \in 2 .. Len(queue) : Waiting(queue[i])
  BY <1>1, <1>2 DEF Shape, HeadOK
<1>4. ASSUME NEW i \in 1 .. Len(queue), NEW L \in Writers, InGroup(queue[i], L) PROVE FALSE
  <2>1. group[L].members # <<>> BY <1>4, GroupNotEmpty
  <2>2. \A j \in 1 .. Len(group[L].members) : group[L].members[j] = queue[j]
    BY <1>1, <1>4 DEF Shape, GroupsOK
  <2>3. 1 \in 1 .. Len(group[L].members) BY <1>1, <2>1, QueueTypes DEF ThreadTypes
  <2>4. group[L].members[1] = w BY <1>3, <2>2, <2>3
  <2>5. group[L].members[1] = L BY <1>1, <2>1 DEF Shape, GroupsOK
  <2>6. QED BY <1>3, <2>1, <2>4, <2>5
<1>5. QED BY <1>1, <1>3, <1>4, QueueTypes

\* The first n of a queue.
LEMMA Prefix ==
  ASSUME NEW s \in Seq(Writers), NEW n \in 1 .. Len(s)
  PROVE  /\ Len(SubSeq(s, 1, n)) = n
         /\ \A i \in 1 .. n : SubSeq(s, 1, n)[i] = s[i] /\ i \in 1 .. Len(s)
<1>1. Len(s) \in Nat OBVIOUS
<1>2. Len(SubSeq(s, 1, n)) = n BY <1>1
<1>3. \A i \in 1 .. n : SubSeq(s, 1, n)[i] = s[i] BY <1>1
<1>4. \A i \in 1 .. n : i \in 1 .. Len(s) BY <1>1
<1>5. QED BY <1>2, <1>3, <1>4

\* A new group is of the leader and of writers that wait behind it and fit.
LEMMA EnterGroup ==
  ASSUME IInv, NEW w \in Writers, Enter(w)
  PROVE  /\ \A L \in Writers \ {w} : group'[L] = group[L]
         /\ group'[w].st = group[w].st /\ group'[w].ok = group[w].ok /\ group'[w].last = group[w].last
         /\ \A v \in Writers : InGroup(v, w)' => v = w \/ (Waiting(v) /\ Fits(v, w))
         /\ InGroup(w, w)'
<1>1. ThreadTypes /\ Shape /\ group \in [Writers -> GroupRecords] BY Types, Parts DEF IInv
<1>2. pc[w] = "enter" BY DEF Enter
<1>3. PICK n \in 1 .. Len(queue) : /\ \A i \in 2 .. n : Fits(queue[i], w)
                                   /\ group' = [group EXCEPT ![w].members = SubSeq(queue, 1, n)]
  BY DEF Enter
<1>4. /\ \A L \in Writers \ {w} : group'[L] = group[L]
      /\ group'[w].st = group[w].st /\ group'[w].ok = group[w].ok /\ group'[w].last = group[w].last
      /\ group'[w].members = SubSeq(queue, 1, n)
  BY <1>1, <1>3 DEF GroupRecords
<1>5. queue \in Seq(Writers) BY <1>1 DEF ThreadTypes
<1>6. /\ Len(group'[w].members) = n
      /\ \A i \in 1 .. n : group'[w].members[i] = queue[i] /\ i \in 1 .. Len(queue)
  BY <1>4, <1>5, Prefix
<1>7. ASSUME NEW v \in Writers, InGroup(v, w)'
      PROVE  v = w \/ (Waiting(v) /\ Fits(v, w))
  <2>1. PICK i \in 1 .. n : queue[i] = v BY <1>6, <1>7 DEF InGroup
  <2>2. i = 1 \/ (i \in 2 .. n /\ i \in 2 .. Len(queue)) BY <1>5
  <2>3. QED BY <1>2, <1>3, <2>1, <2>2, NotGrouped
<1>8. InGroup(w, w)'
  <2>1. 1 \in 1 .. n OBVIOUS
  <2>2. group'[w].members[1] = w BY <1>2, <1>6, <2>1, NotGrouped
  <2>3. QED BY <1>6, <2>1, <2>2 DEF InGroup
<1>9. QED BY <1>4, <1>7, <1>8

\* Nothing is in hand yet in a new group.
LEMMA EnterData ==
  ASSUME IInv, TypeOK', Data, NEW w \in Writers, Enter(w)
  PROVE  Data'
<1> USE DEF thread, store
<1>1. ThreadTypes /\ Shape BY Types DEF IInv
<1>2. /\ pc[w] = "enter"
      /\ pc' = [pc EXCEPT ![w] = IF group[w].st # "ok" THEN "publish"
                                 ELSE IF kind[w].disableWAL THEN "insert" ELSE "log"]
      /\ UNCHANGED <<kind, state, status, log, synced, disk, applied, num, lastSeq, stopped, mayBeLost>>
  BY DEF Enter
<1>3. /\ \A v \in Writers \ {w} : pc'[v] = pc[v]
      /\ group[w].st # "ok" => pc'[w] = "publish"
      /\ group[w].st = "ok" /\ kind[w].disableWAL => pc'[w] = "insert"
      /\ group[w].st = "ok" /\ ~kind[w].disableWAL => pc'[w] = "log"
  BY <1>1, <1>2 DEF ThreadTypes
<1>4. /\ \A L \in Writers \ {w} : group'[L] = group[L]
      /\ group'[w].st = group[w].st /\ group'[w].ok = group[w].ok /\ group'[w].last = group[w].last
      /\ \A v \in Writers : InGroup(v, w)' => v = w \/ (Waiting(v) /\ Fits(v, w))
      /\ InGroup(w, w)'
  BY EnterGroup
<1>5. \A L \in Writers \ {w}, v \in Writers : InGroup(v, L)' <=> InGroup(v, L)
  BY <1>4 DEF InGroup
<1>6. /\ group[w].members = <<>> /\ \A L \in Writers : ~InGroup(w, L)
      /\ \A L \in Writers : group[L].members # <<>> => L # w
  <2>1. 1 \in 1 .. Len(queue) BY <1>1, <1>2, NotGrouped, QueueTypes
  <2>2. QED BY <1>2, <2>1, NotGrouped
<1>7. \A L \in Writers : InGroup(w, L)' => L = w BY <1>5, <1>6
<1>8. \A v \in Writers : ~Active(v) BY <1>2, NobodyActive
<1>9. \A v \in Writers \ {w} : /\ Inserts(v)' <=> Inserts(v)
                               /\ Active(v)' <=> Active(v)
                               /\ Finished(v)' <=> Finished(v)
                               /\ Past(v)' <=> Past(v)
  BY <1>2, <1>3 DEF Active, Inserts, Finished, Past, Leads, Waiting
<1>10. ~Inserts(w) /\ ~Inserts(w)' /\ ~Finished(w) /\ ~Finished(w)'
  BY <1>2, <1>3 DEF Inserts, Finished
<1>11. \A v \in Writers : ~Inserts(v)' BY <1>8, <1>9, <1>10 DEF Active
<1>12. Onward
  <2>1. \A v \in Writers : pc[v] # "publish" BY <1>8 DEF Active
  <2>2. Doomed <=> stopped BY <2>1 DEF Doomed
  <2>3. stopped => Doomed' BY <1>2 DEF Doomed
  <2>4. \A L \in Writers : ~InHand(L) BY <1>8 DEF InHand
  <2>5. QED BY <2>2, <2>3, <2>4 DEF Onward
<1>13. RecordsOK'
  <2>1. \A L \in Writers : group[L].members # <<>> =>
           group'[L].members = group[L].members /\ (Past(L) => Past(L)')
    BY <1>4, <1>6, <1>9
  <2>2. QED BY <1>2, <2>1, RecordsKept DEF Data
<1>14. FitOK'
  <2>1. ASSUME NEW v \in Writers, NEW L \in Writers, InGroup(v, L)'
        PROVE  (kind'[L].disableWAL => kind'[v].disableWAL) /\ (kind'[v].sync => kind'[L].sync)
    <3>1. CASE L = w
      <4>1. v = w \/ Fits(v, w) BY <1>4, <2>1, <3>1
      <4>2. QED BY <1>2, <3>1, <4>1 DEF Fits
    <3>2. CASE L # w BY <1>2, <1>5, <2>1, <3>2 DEF Data, FitOK
    <3>3. QED BY <3>1, <3>2
  <2>2. QED BY <2>1 DEF FitOK
<1>15. HandOK'
  <2>1. ASSUME NEW v \in Writers, NEW L \in Writers, Active(v)', InGroup(v, L)', group'[L].st = "ok"
        PROVE  /\ v = w /\ L = w /\ kind'[L].disableWAL /\ ~kind'[L].sync
               /\ ~Inserts(v)' /\ pc'[v] = "insert"
    <3>1. v = w BY <1>8, <1>9, <2>1
    <3>2. L = w BY <1>7, <2>1, <3>1
    <3>3. group[w].st = "ok" BY <1>4, <2>1, <3>2
    <3>4. pc'[w] # "log" BY <1>11, <2>1, <3>1 DEF Active
    <3>5. kind[w].disableWAL /\ pc'[w] = "insert" BY <1>3, <3>3, <3>4
    <3>6. ~kind[w].sync
      <4>1. kind[w] \in Kinds BY KindTypes DEF IInv, TypeOK
      <4>2. QED BY <3>5, <4>1 DEF Kinds
    <3>7. QED BY <1>2, <1>11, <3>1, <3>2, <3>5, <3>6
  <2>2. QED BY <2>1 DEF HandOK
<1>16. InsertOK'
  <2>1. \A v \in Writers : pc'[v] # "inserted" BY <1>11 DEF Inserts
  <2>2. ASSUME NEW v \in Writers, NEW L \in Writers, InGroup(v, L)', Finished(v)', group'[L].ok
        PROVE  v \in applied'
    <3>1. v # w /\ Finished(v) BY <1>9, <1>10, <2>2
    <3>2. L # w BY <1>4, <2>2, <3>1 DEF Waiting, Finished
    <3>3. InGroup(v, L) /\ group[L].ok BY <1>4, <1>5, <2>2, <3>2
    <3>4. QED BY <1>2, <3>1, <3>3 DEF Data, InsertOK
  <2>3. ASSUME NEW v \in Writers, NEW L \in Writers, InGroup(v, L)', pc'[v] = "publish"
        PROVE  group'[L].st # "ok"
    <3>1. v = w BY <1>3, <1>8, <2>3 DEF Active
    <3>2. L = w BY <1>7, <2>3, <3>1
    <3>3. QED BY <1>3, <1>4, <2>3, <3>1, <3>2
  <2>4. QED BY <1>11, <2>1, <2>2, <2>3 DEF InsertOK
<1>17. NumOK' /\ SameOK' /\ WholeOK'
  BY <1>2, <1>12, NumKept, SameKept, WholeKept DEF Data
<1>18. StageOK'
  <2>1. Stage(w)'
    <3>1. Stage(w) BY DEF Data, StageOK
    <3>2. status[w] # "incomplete" BY <1>2, <3>1 DEF Stage
    <3>3. pc'[w] \in {"log", "insert", "publish"} BY <1>3
    <3>4. /\ pc'[w] \in {"log", "insert"} => group'[w].st = "ok"
          /\ group'[w].st = "ok" => ~stopped' /\ pc'[w] \in {"log", "insert"}
          /\ pc'[w] = "log" => ~kind'[w].disableWAL
      BY <1>2, <1>3, <1>4, <3>1 DEF Stage
    <3>5. QED BY <1>2, <1>7, <1>11, <3>2, <3>3, <3>4 DEF Stage
  <2>2. ASSUME NEW v \in Writers \ {w} PROVE Stage(v)'
    <3>1. pc'[v] = pc[v] /\ state'[v] = state[v] /\ status'[v] = status[v] BY <1>2, <1>3
    <3>2. ASSUME NEW L \in Writers, InGroup(v, L)',
                 Inserts(v) \/ pc[v] \in {"publish", "exit", "release"}
          PROVE  group'[L] = group[L]
      <4>1. ~Waiting(v) BY <3>2 DEF Waiting, Inserts
      <4>2. L # w BY <1>4, <3>2, <4>1
      <4>3. QED BY <1>4, <4>2
    <3>3. group'[v].st = group[v].st BY <1>4
    <3>4. QED BY <1>2, <3>1, <3>2, <3>3, StageStays DEF Data, StageOK
  <2>3. QED BY <2>1, <2>2 DEF StageOK
<1>19. KeptOK'
  <2>1. \A u \in Writers : ToldOK(u)' => ToldOK(u)
    BY <1>2, <1>3 DEF ToldOK
  <2>2. ASSUME NEW u \in Writers, Kept(u) PROVE Kept(u)'
    <3>1. synced \in Nat /\ lastSeq \in Nat /\ Len(log) \in Nat
      BY LogTypes DEF LogFacts, IInv, TypeOK
    <3>2. QED BY <1>2, <2>2, <3>1, KeptKept
  <2>3. \A v, L \in Writers : InGroup(v, L)' /\ pc'[v] \in {"exit", "release"} =>
           group[L].members # <<>> /\ pc[v] \in {"exit", "release"} /\ status'[v] = status[v]
    <3>1. ASSUME NEW v \in Writers, NEW L \in Writers, InGroup(v, L)', pc'[v] \in {"exit", "release"}
          PROVE  group[L].members # <<>> /\ pc[v] \in {"exit", "release"} /\ status'[v] = status[v]
      <4>1. v # w /\ pc[v] \in {"exit", "release"} BY <1>3, <3>1
      <4>2. L # w BY <1>4, <3>1, <4>1 DEF Waiting
      <4>3. QED BY <1>2, <1>5, <3>1, <4>1, <4>2, GroupNotEmpty
    <3>2. QED BY <3>1
  <2>4. \A L \in Writers : group[L].members # <<>> =>
           group'[L].members = group[L].members /\ group'[L].st = group[L].st
    BY <1>4, <1>6
  <2>5. QED BY <1>2, <2>1, <2>2, <2>3, <2>4, ToldSame, ToldIdle DEF Data
<1>20. QED BY <1>13, <1>14, <1>15, <1>16, <1>17, <1>18, <1>19 DEF Data

-----------------------------------------------------------------------------
(***************************************************************************)
(* The log.                                                                *)
(***************************************************************************)
\* A log one record longer.
LEMMA LongerLog ==
  ASSUME TypeOK, NEW r \in Records
  PROVE  /\ Len(Append(log, r)) = Len(log) + 1 /\ Append(log, r)[Len(log) + 1] = r
         /\ \A i \in 1 .. Len(log) : Append(log, r)[i] = log[i]
<1>1. log \in Seq(Records) BY LogTypes DEF LogFacts
<1>2. QED BY <1>1

\* While the leader appends, nothing is doomed or in hand: every record is
\* whole, and every number is one that was published.
LEMMA NothingInHand ==
  ASSUME IInv, Data, NEW w \in Writers, pc[w] = "log"
  PROVE  /\ \A v \in Writers : ~Active(v)
         /\ ~stopped /\ ~Doomed /\ \A L \in Writers : ~InHand(L)
         /\ \A i \in 1 .. Len(log) : Whole(log[i])
         /\ \A u \in Found : LogNum(u) <= lastSeq
         /\ \A u \in Writers : Logged(u) => u \in applied
<1>1. \A v \in Writers : ~Active(v) BY NobodyActive
<1>2. ~stopped
  <2>1. Stage(w) BY DEF Data, StageOK
  <2>2. group[w].st = "ok" BY <2>1 DEF Stage
  <2>3. QED BY <2>1, <2>2 DEF Stage
<1>3. ~Doomed BY <1>1, <1>2 DEF Doomed, Active
<1>4. \A L \in Writers : ~InHand(L) BY <1>1 DEF InHand
<1>5. \A i \in 1 .. Len(log) : Whole(log[i]) BY <1>3, <1>4 DEF Data, WholeOK
<1>6. \A u \in Found : LogNum(u) <= lastSeq BY <1>3, <1>4 DEF Data, NumOK, Ahead
<1>7. \A u \in Writers : Logged(u) => u \in applied BY <1>3, <1>4 DEF Data, SameOK
<1>8. QED BY <1>1, <1>2, <1>3, <1>4, <1>5, <1>6, <1>7

\* The record of the group, whole or not.
Appended(w, torn) ==
  /\ pc[w] = "log"
  /\ log' = Append(log, [batches |-> group[w].members, first |-> lastSeq + 1, torn |-> torn])
  /\ UNCHANGED <<kind, state, status, synced, disk, applied, num, lastSeq, stopped, mayBeLost>>
  /\ \A v \in Writers \ {w} : pc'[v] = pc[v] /\ group'[v].st = group[v].st
  /\ \A L \in Writers : /\ group'[L].members = group[L].members /\ group'[L].ok = group[L].ok
                        /\ group'[L].last = group[L].last
  /\ \/ /\ pc'[w] \in {"sync", "insert"} /\ (pc'[w] = "sync" <=> kind[w].sync)
        /\ ~torn /\ group'[w].st = "ok"
     \/ pc'[w] = "publish" /\ group'[w].st = "error"

\* What a longer log says.
LEMMA AppendedLog ==
  ASSUME IInv, Data, NEW w \in Writers, NEW torn \in BOOLEAN, Appended(w, torn)
  PROVE  /\ Len(log') = Len(log) + 1 /\ \A i \in 1 .. Len(log) : log'[i] = log[i]
         /\ log'[Len(log')].batches = group[w].members
         /\ log'[Len(log')].first = lastSeq + 1
         /\ log'[Len(log')].torn = torn
         /\ Len(log) \in Nat /\ lastSeq \in Nat /\ synced \in Nat /\ Len(group[w].members) \in Nat
<1> DEFINE r == [batches |-> group[w].members, first |-> lastSeq + 1, torn |-> torn]
<1>1. TypeOK BY DEF IInv
<1>2. r \in Records BY <1>1 DEF TypeOK, Records
<1>3. log' = Append(log, r) BY DEF Appended
<1> HIDE DEF r
<1>4. /\ Len(log') = Len(log) + 1 /\ log'[Len(log) + 1] = r
      /\ \A i \in 1 .. Len(log) : log'[i] = log[i]
  BY <1>1, <1>2, <1>3, LongerLog
<1>5. Len(log) \in Nat /\ lastSeq \in Nat /\ synced \in Nat BY <1>1, LogTypes DEF LogFacts, TypeOK
<1>6. Len(group[w].members) \in Nat BY Parts DEF IInv
<1>7. r.batches = group[w].members /\ r.first = lastSeq + 1 /\ r.torn = torn BY DEF r
<1>8. log'[Len(log')] = r BY <1>4
<1>9. QED BY <1>4, <1>5, <1>6, <1>7, <1>8

\* The record is that of one group, and of no other record.
LEMMA AppendedRecords ==
  ASSUME IInv, Data, NEW w \in Writers, NEW torn \in BOOLEAN, Appended(w, torn)
  PROVE  RecordsOK'
<1>0. ThreadTypes /\ Shape BY Types DEF IInv
<1>1. /\ Len(log') = Len(log) + 1 /\ Len(log) \in Nat
      /\ \A i \in 1 .. Len(log) : log'[i] = log[i]
      /\ log'[Len(log')].batches = group[w].members
  BY AppendedLog
<1>2. /\ pc[w] = "log" /\ pc'[w] \in {"sync", "insert", "publish"} /\ kind' = kind
      /\ \A v \in Writers \ {w} : pc'[v] = pc[v] /\ state'[v] = state[v]
      /\ \A L \in Writers : group'[L].members = group[L].members
  BY DEF Appended
<1>3. \A i \in 1 .. Len(log') : i \in 1 .. Len(log) \/ i = Len(log') BY <1>1
<1>4. ~Past(w) /\ Past(w)' /\ \A L \in Writers \ {w} : Past(L)' <=> Past(L)
  BY <1>2 DEF Past, Leads, Waiting
<1>5. group[w].members # <<>> /\ InGroup(w, w) /\ ~kind[w].disableWAL
  <2>1. Stage(w) BY DEF Data, StageOK
  <2>2. QED BY <1>2, <2>1, LeaderAndWaiting DEF Stage
<1>6. \A i \in 1 .. Len(log) : \E L \in Writers \ {w} :
        /\ log[i].batches = group[L].members /\ group[L].members # <<>>
        /\ ~kind[L].disableWAL /\ Past(L)
  BY <1>4 DEF Data, RecordsOK
<1>7. \A i \in 1 .. Len(log') : \E L \in Writers :
        /\ log'[i].batches = group'[L].members /\ group'[L].members # <<>>
        /\ ~kind'[L].disableWAL /\ Past(L)'
  BY <1>1, <1>2, <1>3, <1>4, <1>5, <1>6
<1>8. ASSUME NEW i \in 1 .. Len(log) PROVE log[i].batches # group[w].members
  <2>1. PICK L \in Writers \ {w} : log[i].batches = group[L].members /\ group[L].members # <<>>
    BY <1>6
  <2>2. group[L].members[1] = L /\ group[w].members[1] = w
    BY <1>0, <1>5, <2>1 DEF Shape, GroupsOK
  <2>3. QED BY <2>1, <2>2
<1>9. \A i, j \in 1 .. Len(log') : log'[i].batches = log'[j].batches => i = j
  <2> SUFFICES ASSUME NEW i \in 1 .. Len(log'), NEW j \in 1 .. Len(log'),
                      log'[i].batches = log'[j].batches
               PROVE  i = j
    OBVIOUS
  <2>1. CASE i \in 1 .. Len(log) /\ j \in 1 .. Len(log)
    BY <1>1, <2>1 DEF Data, RecordsOK
  <2>2. CASE i = Len(log') /\ j = Len(log')
    BY <2>2
  <2>3. CASE i = Len(log') /\ j \in 1 .. Len(log)
    BY <1>1, <1>8, <2>3
  <2>4. CASE i \in 1 .. Len(log) /\ j = Len(log')
    BY <1>1, <1>8, <2>4
  <2>5. QED BY <1>3, <2>1, <2>2, <2>3, <2>4
<1>10. QED BY <1>7, <1>9 DEF RecordsOK

\* The numbers of the batches in it.
LEMMA AppendedNumbers ==
  ASSUME IInv, IInv', Data, NEW w \in Writers, NEW torn \in BOOLEAN, Appended(w, torn)
  PROVE  /\ \A u \in Writers : Logged(u)' <=> Logged(u) \/ InGroup(u, w)
         /\ \A u \in Found' : \/ u \in Found /\ LogNum(u)' = LogNum(u)
                              \/ \E j \in 1 .. Len(group[w].members) :
                                   group[w].members[j] = u /\ LogNum(u)' = lastSeq + j
<1>1. /\ Len(log') = Len(log) + 1 /\ Len(log) \in Nat /\ lastSeq \in Nat
      /\ \A i \in 1 .. Len(log) : log'[i] = log[i]
      /\ log'[Len(log')].batches = group[w].members /\ log'[Len(log')].first = lastSeq + 1
      /\ Len(group[w].members) \in Nat
  BY AppendedLog
<1>2. LogPlaces /\ NumbersInLog /\ LogFacts
  BY LoggedPlace, NumberInLog, LogTypes DEF IInv, Data
<1>3. LogPlaces' /\ NumbersInLog' /\ LogFacts'
  <2>1. TypeOK' /\ RecordsOK' BY AppendedRecords DEF IInv
  <2>2. TypeOK' => LogPlaces' BY LoggedPlace, PTL
  <2>3. IInv' /\ RecordsOK' => NumbersInLog' BY NumberInLog, PTL
  <2>4. TypeOK' => LogFacts' BY LogTypes, PTL
  <2>5. QED BY <2>1, <2>2, <2>3, <2>4
<1>4. \A u, i, j : i \in 1 .. Len(log) => (Place(u, i, j)' <=> Place(u, i, j))
  BY <1>1 DEF Place
<1>a. PICK k \in Nat : k = Len(log') BY <1>1
<1>5. \A u, j : Place(u, k, j)' <=> j \in 1 .. Len(group[w].members) /\ group[w].members[j] = u
  <2>1. k \in 1 .. Len(log') BY <1>1, <1>a
  <2>2. log'[k].batches = group[w].members BY <1>1, <1>a
  <2>3. QED BY <2>1, <2>2 DEF Place
<1>6. \A u, i, j : Place(u, i, j)' => i \in 1 .. Len(log) \/ i = k
  <2>1. \A i \in 1 .. Len(log') : i \in 1 .. Len(log) \/ i = k BY <1>1, <1>a
  <2>2. QED BY <2>1 DEF Place
<1>7. ASSUME NEW u, NEW i \in Nat, NEW j \in Nat, Place(u, i, j)
      PROVE  Place(u, i, j)' /\ Logged(u)' /\ LogNum(u)' = LogNum(u)
  <2>1. i \in 1 .. Len(log) BY <1>7 DEF Place
  <2>2. Place(u, i, j)' BY <1>4, <1>7, <2>1
  <2>3. Logged(u)' BY <1>3, <2>2 DEF LogPlaces
  <2>4. LogNum(u) = log[i].first - 1 + j BY <1>2, <1>7 DEF NumbersInLog
  <2>5. LogNum(u)' = log'[i].first - 1 + j BY <1>3, <2>2 DEF NumbersInLog
  <2>6. QED BY <1>1, <2>1, <2>2, <2>3, <2>4, <2>5
<1>8. ASSUME NEW u, NEW j \in 1 .. Len(group[w].members), group[w].members[j] = u
      PROVE  Logged(u)' /\ LogNum(u)' = lastSeq + j
  <2>1. j \in Nat BY <1>1
  <2>2. Place(u, k, j)' BY <1>5, <1>8
  <2>3. Logged(u)' BY <1>3, <2>1, <2>2 DEF LogPlaces
  <2>4. LogNum(u)' = log'[k].first - 1 + j BY <1>3, <2>1, <2>2 DEF NumbersInLog
  <2>5. log'[k].first = lastSeq + 1 BY <1>1, <1>a
  <2>6. QED BY <1>1, <2>1, <2>3, <2>4, <2>5
<1>9. ASSUME NEW u, Logged(u)' PROVE Logged(u) \/ InGroup(u, w)
  <2>1. PICK i \in Nat, j \in Nat : Place(u, i, j)' BY <1>3, <1>9 DEF LogPlaces
  <2>2. CASE i \in 1 .. Len(log) BY <1>2, <1>4, <2>1, <2>2 DEF LogPlaces
  <2>3. CASE i = k BY <1>5, <2>1, <2>3 DEF InGroup
  <2>4. QED BY <1>6, <2>1, <2>2, <2>3
<1>10. \A u \in Writers : Logged(u)' <=> Logged(u) \/ InGroup(u, w)
  BY <1>2, <1>7, <1>8, <1>9 DEF LogPlaces, InGroup
<1>11. ASSUME NEW u \in Found'
       PROVE  \/ u \in Found /\ LogNum(u)' = LogNum(u)
              \/ \E j \in 1 .. Len(group[w].members) :
                   group[w].members[j] = u /\ LogNum(u)' = lastSeq + j
  <2>1. u \in applied' \/ Logged(u)' BY <1>11 DEF Found, Logged
  <2>2. applied' = applied /\ num' = num BY DEF Appended
  <2>3. CASE InGroup(u, w) BY <1>8, <2>3 DEF InGroup
  <2>4. CASE Logged(u)
    <3>1. u \in Found BY <2>4, FoundFacts DEF IInv
    <3>2. LogNum(u)' = LogNum(u) BY <1>2, <1>7, <2>4 DEF LogPlaces
    <3>3. QED BY <3>1, <3>2
  <2>5. CASE ~InGroup(u, w) /\ ~Logged(u)
    <3>1. ~Logged(u)' BY <1>9, <2>5
    <3>2. u \in Found BY <2>1, <2>2, <3>1, FoundFacts DEF IInv
    <3>3. LogNum(u)' = num'[u] BY <3>1 DEF LogNum
    <3>4. LogNum(u) = num[u] BY <2>5 DEF LogNum
    <3>5. QED BY <2>2, <3>2, <3>3, <3>4
  <2>6. QED BY <2>3, <2>4, <2>5
<1>12. QED BY <1>10, <1>11

\* Two places behind the last sequence number are the same when their numbers are,
LEMMA SameOffset == \A s, i, j \in Nat : s + i = s + j => i = j
OBVIOUS

\* and none of them has a number that was published.
LEMMA NotBeyond == \A s, x, i \in Nat : x <= s /\ i >= 1 => x # s + i
OBVIOUS

\* The numbers are right when each is one that was published before or that of
\* its place in the group L.
LEMMA NumbersRight ==
  ASSUME IInv, NumOK, NEW L \in Writers, lastSeq' = lastSeq,
         \A u \in Found' : \/ u \in Found /\ LogNum(u)' = LogNum(u) /\ LogNum(u) <= lastSeq
                           \/ \E j \in 1 .. Len(group[L].members) :
                                group[L].members[j] = u /\ LogNum(u)' = lastSeq + j,
         Doomed' \/ (InHand(L)' /\ group'[L].members = group[L].members)
  PROVE  NumOK'
<1>1. lastSeq \in Nat /\ Len(group[L].members) \in Nat BY Parts DEF IInv
<1>2. \A u \in Found : LogNum(u) \in Nat
  BY LogNumType, FoundFacts DEF IInv
<1>3. \A u \in Found' : LogNum(u)' >= 1
  BY <1>1 DEF NumOK
<1>4. ASSUME NEW u \in Found', NEW v \in Found', LogNum(u)' = LogNum(v)' PROVE u = v
  <2>1. CASE u \in Found /\ LogNum(u)' = LogNum(u) /\ v \in Found /\ LogNum(v)' = LogNum(v)
    BY <1>4, <2>1 DEF NumOK
  <2>2. ASSUME NEW i \in 1 .. Len(group[L].members), LogNum(u)' = lastSeq + i,
               v \in Found, LogNum(v)' = LogNum(v), LogNum(v) <= lastSeq
        PROVE  FALSE
    <3>1. LogNum(v) \in Nat /\ LogNum(v) <= lastSeq /\ i \in Nat /\ i >= 1
      BY <1>1, <1>2, <2>2
    <3>2. LogNum(v) # lastSeq + i BY <1>1, <3>1, NotBeyond
    <3>3. QED BY <1>4, <2>2, <3>2
  <2>3. ASSUME NEW i \in 1 .. Len(group[L].members), LogNum(v)' = lastSeq + i,
               u \in Found, LogNum(u)' = LogNum(u), LogNum(u) <= lastSeq
        PROVE  FALSE
    <3>1. LogNum(u) \in Nat /\ LogNum(u) <= lastSeq /\ i \in Nat /\ i >= 1
      BY <1>1, <1>2, <2>3
    <3>2. LogNum(u) # lastSeq + i BY <1>1, <3>1, NotBeyond
    <3>3. QED BY <1>4, <2>3, <3>2
  <2>4. ASSUME NEW i \in 1 .. Len(group[L].members), group[L].members[i] = u, LogNum(u)' = lastSeq + i,
               NEW j \in 1 .. Len(group[L].members), group[L].members[j] = v, LogNum(v)' = lastSeq + j
        PROVE  u = v
    <3>1. lastSeq + i = lastSeq + j BY <1>4, <2>4
    <3>2. i \in Nat /\ j \in Nat BY <1>1
    <3>3. i = j BY <1>1, <3>1, <3>2, SameOffset
    <3>4. QED BY <2>4, <3>3
  <2>5. QED BY <2>1, <2>2, <2>3, <2>4
<1>5. ASSUME ~Doomed', NEW u \in Found' PROVE LogNum(u)' <= lastSeq' \/ Ahead(u)'
  <2>1. CASE LogNum(u)' = LogNum(u) /\ LogNum(u) <= lastSeq BY <2>1
  <2>2. CASE \E j \in 1 .. Len(group[L].members) :
               group[L].members[j] = u /\ LogNum(u)' = lastSeq + j
    <3>1. \E j \in 1 .. Len(group'[L].members) :
            group'[L].members[j] = u /\ LogNum(u)' = lastSeq' + j
      BY <1>5, <2>2
    <3>2. QED BY <1>5, <3>1 DEF Ahead
  <2>3. QED BY <2>1, <2>2
<1>6. QED BY <1>3, <1>4, <1>5 DEF NumOK

\* The numbers stay right with the new record, and so do the log and the memtable.
LEMMA AppendedNumOK ==
  ASSUME IInv, IInv', Data, NEW w \in Writers, NEW torn \in BOOLEAN, Appended(w, torn)
  PROVE  NumOK' /\ SameOK' /\ WholeOK'
<1>1. /\ Len(log') = Len(log) + 1 /\ Len(log) \in Nat /\ lastSeq \in Nat
      /\ \A i \in 1 .. Len(log) : log'[i] = log[i]
      /\ log'[Len(log')].batches = group[w].members
      /\ Len(group[w].members) \in Nat
  BY AppendedLog
<1>2. /\ pc[w] = "log" /\ UNCHANGED <<kind, disk, applied, lastSeq, stopped>>
      /\ \A L \in Writers : group'[L].members = group[L].members
      /\ \/ pc'[w] \in {"sync", "insert"} /\ group'[w].st = "ok"
         \/ pc'[w] = "publish" /\ group'[w].st = "error"
  BY DEF Appended
<1>3. /\ \A u \in Found : LogNum(u) <= lastSeq
      /\ \A u \in Writers : Logged(u) => u \in applied
      /\ \A i \in 1 .. Len(log) : Whole(log[i])
  BY <1>2, NothingInHand
<1>4. /\ \A u \in Writers : Logged(u)' <=> Logged(u) \/ InGroup(u, w)
      /\ \A u \in Found' : \/ u \in Found /\ LogNum(u)' = LogNum(u)
                           \/ \E j \in 1 .. Len(group[w].members) :
                                group[w].members[j] = u /\ LogNum(u)' = lastSeq + j
  BY AppendedNumbers
<1>5. \A u \in Writers : InGroup(u, w)' <=> InGroup(u, w) BY <1>2 DEF InGroup
<1>6. InGroup(w, w) BY <1>2, LeaderAndWaiting
<1>7. Doomed' \/ InHand(w)'
  <2>1. Active(w)' BY <1>2 DEF Active
  <2>2. InGroup(w, w)' BY <1>5, <1>6
  <2>3. CASE group'[w].st = "ok" BY <2>1, <2>2, <2>3 DEF InHand
  <2>4. CASE pc'[w] = "publish" /\ group'[w].st = "error" BY <2>2, <2>4 DEF Doomed
  <2>5. QED BY <1>2, <2>3, <2>4
<1>9. NumOK'
  <2>1. \A u \in Found' : \/ u \in Found /\ LogNum(u)' = LogNum(u) /\ LogNum(u) <= lastSeq
                          \/ \E j \in 1 .. Len(group[w].members) :
                                group[w].members[j] = u /\ LogNum(u)' = lastSeq + j
    BY <1>3, <1>4
  <2>2. QED BY <1>2, <1>7, <2>1, NumbersRight DEF Data
<1>10. SameOK'
  <2>1. \A u \in applied' : ~kind'[u].broken BY <1>2 DEF Data, SameOK
  <2>2. \A u \in applied' \ disk' : Logged(u)' \/ kind'[u].disableWAL
    <3>1. applied \subseteq Writers BY DEF IInv, TypeOK
    <3>2. QED BY <1>2, <1>4, <3>1 DEF Data, SameOK
  <2>3. ~Doomed' => \A u \in Writers : Logged(u)' =>
          u \in applied' \/ \E L \in Writers : InHand(L)' /\ InGroup(u, L)'
    BY <1>2, <1>3, <1>4, <1>5, <1>7
  <2>4. QED BY <2>1, <2>2, <2>3 DEF SameOK
<1>11. WholeOK'
  <2>1. ASSUME NEW i \in 1 .. Len(log) PROVE Whole(log[i])'
    BY <1>1, <1>2, <1>3, <2>1 DEF Whole
  <2>2. Doomed' \/ \E L \in Writers : InHand(L)' /\ log'[Len(log')].batches = group'[L].members
    BY <1>1, <1>2, <1>7
  <2>3. \A i \in 1 .. Len(log') : i \in 1 .. Len(log) \/ i = Len(log') BY <1>1
  <2>4. QED BY <2>1, <2>2, <2>3 DEF WholeOK
<1>12. QED BY <1>9, <1>10, <1>11

\* A group whose record was appended is in hand, or the database is doomed.
LEMMA AppendedData ==
  ASSUME IInv, IInv', Data, NEW w \in Writers, NEW torn \in BOOLEAN, Appended(w, torn)
  PROVE  Data'
<1>1. /\ Len(log') = Len(log) + 1 /\ Len(log) \in Nat /\ lastSeq \in Nat /\ synced \in Nat
      /\ \A i \in 1 .. Len(log) : log'[i] = log[i]
      /\ log'[Len(log')].batches = group[w].members
      /\ log'[Len(log')].first = lastSeq + 1 /\ log'[Len(log')].torn = torn
  BY AppendedLog
<1>2. /\ pc[w] = "log"
      /\ UNCHANGED <<kind, state, status, synced, disk, applied, num, lastSeq, stopped, mayBeLost>>
      /\ \A v \in Writers \ {w} : pc'[v] = pc[v] /\ group'[v].st = group[v].st
      /\ \A L \in Writers : /\ group'[L].members = group[L].members /\ group'[L].ok = group[L].ok
                            /\ group'[L].last = group[L].last
  BY DEF Appended
<1>3. \/ /\ pc'[w] \in {"sync", "insert"} /\ (pc'[w] = "sync" <=> kind[w].sync)
         /\ ~torn /\ group'[w].st = "ok"
      \/ pc'[w] = "publish" /\ group'[w].st = "error"
  BY DEF Appended
<1>4. /\ \A v \in Writers : ~Active(v)
      /\ ~stopped
  BY <1>2, NothingInHand
<1>5. /\ InGroup(w, w) /\ group[w].members # <<>>
      /\ \A u \in Writers : InGroup(u, w) => u = w \/ Waiting(u)
  BY <1>2, LeaderAndWaiting
<1>6. SameGroups /\ \A v, L \in Writers : InGroup(v, L)' <=> InGroup(v, L)
  BY <1>2 DEF SameGroups, InGroup
<1>7. \A L \in Writers : InGroup(w, L) => L = w BY <1>5, OneGroup
<1>8. \A v \in Writers \ {w} : /\ Inserts(v)' <=> Inserts(v)
                               /\ Active(v)' <=> Active(v)
                               /\ Finished(v)' <=> Finished(v)
  BY <1>2 DEF Active, Inserts, Finished
<1>9. ~Inserts(w) /\ ~Inserts(w)' /\ ~Finished(w) /\ ~Finished(w)'
  BY <1>2, <1>3 DEF Inserts, Finished
<1>10. \A v \in Writers : ~Inserts(v)' BY <1>4, <1>8, <1>9 DEF Active
<1>11. Stage(w) BY DEF Data, StageOK
<1>12. RecordsOK' BY AppendedRecords
<1>13. FitOK' BY <1>2, <1>6, FitKept DEF Data
<1>14. HandOK'
  <2>1. ASSUME NEW v \in Writers, NEW L \in Writers, Active(v)', InGroup(v, L)', group'[L].st = "ok"
        PROVE  /\ v = w /\ L = w /\ pc'[w] \in {"sync", "insert"} /\ (pc'[w] = "sync" <=> kind[w].sync)
               /\ ~torn
    <3>1. v = w BY <1>4, <1>8, <2>1
    <3>2. L = w BY <1>6, <1>7, <2>1, <3>1
    <3>3. QED BY <1>3, <2>1, <3>1, <3>2
  <2>2. log' # <<>>
    <3>1. log' \in Seq(Records) BY DEF IInv, TypeOK, Records
    <3>2. QED BY <1>1, <3>1
  <2>3. QED BY <1>1, <1>2, <1>10, <2>1, <2>2 DEF HandOK
<1>15. InsertOK'
  <2>1. \A v \in Writers : pc'[v] # "inserted" BY <1>10 DEF Inserts
  <2>2. \A v, L \in Writers : InGroup(v, L)' /\ Finished(v)' /\ group'[L].ok => v \in applied'
    BY <1>2, <1>6, <1>8, <1>9 DEF Data, InsertOK
  <2>3. ASSUME NEW v \in Writers, NEW L \in Writers, InGroup(v, L)', pc'[v] = "publish"
        PROVE  group'[L].st # "ok"
    <3>1. v = w BY <1>2, <1>4, <2>3 DEF Active
    <3>2. L = w BY <1>6, <1>7, <2>3, <3>1
    <3>3. QED BY <1>3, <2>3, <3>1, <3>2
  <2>4. QED BY <1>10, <2>1, <2>2, <2>3 DEF InsertOK
<1>16. NumOK' /\ SameOK' /\ WholeOK' BY AppendedNumOK
<1>17. StageOK'
  <2>1. Stage(w)'
    <3>1. status[w] # "incomplete" /\ ~kind[w].disableWAL BY <1>2, <1>11 DEF Stage
    <3>2. \A L \in Writers : InGroup(w, L)' => L = w BY <1>6, <1>7
    <3>3. QED BY <1>2, <1>3, <1>4, <1>9, <3>1, <3>2 DEF Stage
  <2>2. ASSUME NEW v \in Writers \ {w} PROVE Stage(v)'
    <3>1. ASSUME NEW L \in Writers, InGroup(v, L)',
                 Inserts(v) \/ pc[v] \in {"publish", "exit", "release"}
          PROVE  group'[L].st = group[L].st
      <4>1. ~Waiting(v) BY <3>1 DEF Waiting, Inserts
      <4>2. L # w BY <1>5, <1>6, <3>1, <4>1
      <4>3. QED BY <1>2, <4>2
    <3>2. pc'[v] = pc[v] /\ state'[v] = state[v] /\ status'[v] = status[v] /\ group'[v].st = group[v].st
      BY <1>2
    <3>3. QED BY <1>2, <3>1, <3>2, StageStays DEF Data, StageOK
  <2>3. QED BY <2>1, <2>2 DEF StageOK
<1>18. KeptOK'
  <2>1. \A u \in Writers : ToldOK(u)' => ToldOK(u)
    BY <1>2, <1>3 DEF ToldOK
  <2>2. ASSUME NEW u \in Writers, Kept(u) PROVE Kept(u)'
    <3>1. TypeOK' BY DEF IInv
    <3>2. Len(log) <= Len(log') /\ synced <= synced' /\ lastSeq <= lastSeq' BY <1>1, <1>2
    <3>3. QED BY <1>1, <1>2, <2>2, <3>1, <3>2, KeptKept
  <2>3. ASSUME NEW v \in Writers, NEW L \in Writers, InGroup(v, L)', pc'[v] \in {"exit", "release"},
               group'[L].st = "ok", status'[v] = "ok"
        PROVE  /\ InGroup(v, L) /\ pc[v] \in {"exit", "release"} /\ group[L].st = "ok" /\ status[v] = "ok"
               /\ group'[L].members = group[L].members
               /\ \A x \in Writers : InGroup(x, L) => ~Active(x)
    <3>1. v # w /\ pc[v] \in {"exit", "release"} BY <1>2, <1>3, <2>3
    <3>2. ~Waiting(v) BY <3>1 DEF Waiting
    <3>3. L # w /\ InGroup(v, L) BY <1>5, <1>6, <2>3, <3>1, <3>2
    <3>4. QED BY <1>2, <1>4, <2>3, <3>1, <3>3
  <2>4. QED BY <1>2, <2>1, <2>2, <2>3, ToldStays DEF Data
<1>19. QED BY <1>12, <1>13, <1>14, <1>15, <1>16, <1>17, <1>18 DEF Data

\* An append that fails dooms the database.
LEMMA AppendData ==
  ASSUME IInv, IInv', Data, NEW w \in Writers, AppendRecord(w) \/ AppendFails(w)
  PROVE  Data'
<1> USE DEF thread, store
<1>1. ThreadTypes /\ group \in [Writers -> GroupRecords] BY Types, Parts DEF IInv
<1>2. CASE AppendRecord(w)
  <2>1. pc[w] = "log" /\ pc' = [pc EXCEPT ![w] = IF kind[w].sync THEN "sync" ELSE "insert"]
        /\ group' = group
    BY <1>2 DEF AppendRecord
  <2>2. /\ pc'[w] \in {"sync", "insert"} /\ (pc'[w] = "sync" <=> kind[w].sync)
        /\ \A v \in Writers \ {w} : pc'[v] = pc[v]
    BY <1>1, <2>1 DEF ThreadTypes
  <2>3. group[w].st = "ok" BY <2>1 DEF Data, StageOK, Stage
  <2>4. Appended(w, FALSE) BY <1>2, <2>1, <2>2, <2>3 DEF AppendRecord, Appended
  <2>5. QED BY <2>4, AppendedData
<1>3. CASE AppendFails(w)
  <2>1. pc[w] = "log" /\ pc' = [pc EXCEPT ![w] = "publish"]
        /\ group' = [group EXCEPT ![w].st = "error"]
    BY <1>3 DEF AppendFails
  <2>2. /\ pc'[w] = "publish" /\ \A v \in Writers \ {w} : pc'[v] = pc[v]
    BY <1>1, <2>1 DEF ThreadTypes
  <2>3. /\ group'[w].st = "error" /\ \A v \in Writers \ {w} : group'[v].st = group[v].st
        /\ \A L \in Writers : /\ group'[L].members = group[L].members /\ group'[L].ok = group[L].ok
                              /\ group'[L].last = group[L].last
    BY <1>1, <2>1 DEF GroupRecords
  <2>4. PICK torn \in BOOLEAN :
          log' = Append(log, [batches |-> group[w].members, first |-> lastSeq + 1, torn |-> torn])
    BY <1>3 DEF AppendFails
  <2>5. UNCHANGED <<kind, state, status, synced, disk, applied, num, lastSeq, stopped, mayBeLost>>
    BY <1>3 DEF AppendFails
  <2>6. Appended(w, torn) BY <2>1, <2>2, <2>3, <2>4, <2>5 DEF Appended
  <2>7. QED BY <2>6, AppendedData
<1>4. QED BY <1>2, <1>3

-----------------------------------------------------------------------------
(***************************************************************************)
(* Syncing.                                                                *)
(***************************************************************************)
\* The leader of a group in hand, while it syncs or is about to insert.
LEMMA LeaderInHand ==
  ASSUME IInv, Data, NEW w \in Writers, pc[w] \in {"sync", "insert"}
  PROVE  /\ ~stopped /\ ~Doomed /\ group[w].st = "ok" /\ status[w] # "incomplete"
         /\ InGroup(w, w) /\ InHand(w)
         /\ \A L \in Writers : InHand(L) \/ InGroup(w, L) => L = w
         /\ \A v \in Writers : Active(v) <=> v = w
         /\ \A u \in Writers : InGroup(u, w) => u = w \/ Waiting(u)
<1>1. Stage(w) BY DEF Data, StageOK
<1>2. group[w].st = "ok" /\ ~stopped /\ status[w] # "incomplete" BY <1>1 DEF Stage
<1>3. \A v \in Writers : Active(v) <=> v = w BY OnlyActive
<1>4. InGroup(w, w) /\ \A u \in Writers : InGroup(u, w) => u = w \/ Waiting(u)
  BY LeaderAndWaiting
<1>5. \A L \in Writers : InGroup(w, L) => L = w BY <1>4, OneGroup
<1>6. InHand(w) BY <1>2, <1>3, <1>4 DEF InHand
<1>7. \A L \in Writers : InHand(L) => L = w BY <1>3, <1>5 DEF InHand
<1>8. \A v \in Writers : pc[v] # "publish"
  <2>1. \A v \in Writers : pc[v] = "publish" => Active(v) BY DEF Active
  <2>2. QED BY <1>3, <2>1
<1>9. ~Doomed BY <1>2, <1>8 DEF Doomed
<1>10. QED BY <1>2, <1>3, <1>4, <1>5, <1>6, <1>7, <1>9

\* What is told when nobody leaves, by a step of the leader.
LEMMA ToldByLeader ==
  ASSUME IInv, TypeOK', Data, NEW w \in Writers, pc[w] \in {"sync", "insert"},
         \A v \in Writers \ {w} : pc'[v] = pc[v] /\ status'[v] = status[v],
         pc'[w] \in {"insert", "await", "publish"},
         \A v \in Writers : state'[v] = state[v] \/ state'[v] = "parallel",
         \A L \in Writers \ {w} : group'[L] = group[L],
         group'[w].members = group[w].members,
         mayBeLost' = mayBeLost, state[w] # "completed" \/ pc'[w] # "await" \/ state'[w] = "parallel",
         \A u \in Writers : Kept(u) /\ ~InGroup(u, w) => Kept(u)'
  PROVE  KeptOK'
<1>1. /\ InGroup(w, w) /\ \A L \in Writers : InGroup(w, L) => L = w
      /\ \A u \in Writers : InGroup(u, w) => u = w \/ Waiting(u)
      /\ \A v \in Writers : Active(v) <=> v = w
  BY LeaderInHand
<1>2. \A u \in Writers : InGroup(u, w) => ~ToldOK(u) /\ pc[u] \notin {"exit", "release"}
  <2>1. ~ToldOK(w) /\ pc[w] \notin {"exit", "release"} BY DEF ToldOK
  <2>2. \A u \in Writers : Waiting(u) => ~ToldOK(u) /\ pc[u] \notin {"exit", "release"}
    BY DEF Waiting, ToldOK
  <2>3. QED BY <1>1, <2>1, <2>2
<1>3. \A u \in Writers : ToldOK(u)' => ToldOK(u)
  <2>1. ~ToldOK(w)' BY DEF ToldOK
  <2>2. \A u \in Writers \ {w} : ToldOK(u)' => ToldOK(u) BY DEF ToldOK
  <2>3. QED BY <2>1, <2>2
<1>4. ASSUME NEW v \in Writers, NEW L \in Writers, InGroup(v, L)', pc'[v] \in {"exit", "release"},
             group'[L].st = "ok", status'[v] = "ok"
      PROVE  InGroup(v, L) /\ L # w /\ group'[L] = group[L] /\ v # w /\ pc[v] \in {"exit", "release"}
             /\ group[L].st = "ok" /\ status[v] = "ok"
  <2>1. v # w /\ pc[v] \in {"exit", "release"} BY <1>4
  <2>2. L # w
    <3>1. InGroup(v, w)' => InGroup(v, w) BY DEF InGroup
    <3>2. QED BY <1>2, <1>4, <2>1, <3>1
  <2>3. group'[L] = group[L] BY <2>2
  <2>4. InGroup(v, L) BY <1>4, <2>3 DEF InGroup
  <2>5. QED BY <1>4, <2>1, <2>2, <2>3, <2>4
<1>5. ASSUME NEW u \in Writers, ToldOK(u)' PROVE u \in mayBeLost' \/ Kept(u)'
  <2>1. ToldOK(u) /\ ~InGroup(u, w) BY <1>2, <1>3, <1>5
  <2>2. QED BY <2>1 DEF Data, KeptOK
<1>6. ASSUME NEW v \in Writers, NEW L \in Writers, InGroup(v, L)', pc'[v] \in {"exit", "release"},
             group'[L].st = "ok", status'[v] = "ok", NEW u \in Writers, InGroup(u, L)'
      PROVE  Kept(u)'
  <2>1. /\ InGroup(v, L) /\ L # w /\ group'[L] = group[L] /\ pc[v] \in {"exit", "release"}
        /\ group[L].st = "ok" /\ status[v] = "ok"
    BY <1>4, <1>6
  <2>2. InGroup(u, L) BY <1>6, <2>1 DEF InGroup
  <2>3. Kept(u) BY <2>1, <2>2 DEF Data, KeptOK
  <2>4. ~InGroup(u, w) BY <2>1, <2>2, OneGroup
  <2>5. QED BY <2>3, <2>4
<1>7. QED BY <1>5, <1>6 DEF KeptOK

\* A sync covers the record of the group in hand; one that fails dooms the database.
LEMMA SyncData ==
  ASSUME IInv, TypeOK', Data, NEW w \in Writers, Sync(w) \/ SyncFails(w)
  PROVE  Data'
<1> USE DEF thread, store
<1>1. ThreadTypes /\ group \in [Writers -> GroupRecords] BY Types, Parts DEF IInv
<1>2. /\ pc[w] = "sync" /\ pc' = [pc EXCEPT ![w] = pc'[w]]
      /\ UNCHANGED <<kind, state, status, log, disk, applied, num, lastSeq, stopped, mayBeLost>>
  BY <1>1 DEF Sync, SyncFails, ThreadTypes
<1>3. \/ pc'[w] = "insert" /\ synced' = Len(log) /\ group' = group
      \/ pc'[w] = "publish" /\ synced' = synced /\ group' = [group EXCEPT ![w].st = "error"]
  BY <1>1 DEF Sync, SyncFails, ThreadTypes
<1>4. \A v \in Writers \ {w} : pc'[v] = pc[v] BY <1>1, <1>2 DEF ThreadTypes
<1>5. /\ \A L \in Writers \ {w} : group'[L] = group[L]
      /\ \A L \in Writers : /\ group'[L].members = group[L].members /\ group'[L].ok = group[L].ok
                            /\ group'[L].last = group[L].last
      /\ pc'[w] = "insert" => group'[w].st = group[w].st
      /\ pc'[w] = "publish" => group'[w].st = "error"
  <2>1. CASE pc'[w] = "insert"
    <3>1. group' = group BY <1>3, <2>1
    <3>2. QED BY <2>1, <3>1
  <2>2. CASE pc'[w] = "publish"
    <3>1. group' = [group EXCEPT ![w].st = "error"] BY <1>3, <2>2
    <3>2. QED BY <1>1, <2>2, <3>1 DEF GroupRecords
  <2>3. QED BY <1>3, <2>1, <2>2
<1>6. /\ ~stopped /\ ~Doomed /\ group[w].st = "ok" /\ status[w] # "incomplete"
      /\ InGroup(w, w) /\ InHand(w)
      /\ \A L \in Writers : InHand(L) \/ InGroup(w, L) => L = w
      /\ \A v \in Writers : Active(v) <=> v = w
      /\ \A u \in Writers : InGroup(u, w) => u = w \/ Waiting(u)
  BY <1>2, LeaderInHand
<1>7. SameGroups /\ \A v, L \in Writers : InGroup(v, L)' <=> InGroup(v, L)
  BY <1>5 DEF SameGroups, InGroup
<1>8. \A v \in Writers \ {w} : /\ Inserts(v)' <=> Inserts(v)
                               /\ Active(v)' <=> Active(v)
                               /\ Finished(v)' <=> Finished(v)
                               /\ Past(v)' <=> Past(v)
  BY <1>2, <1>4 DEF Active, Inserts, Finished, Past, Leads, Waiting
<1>9. /\ ~Inserts(w) /\ ~Inserts(w)' /\ ~Finished(w) /\ ~Finished(w)' /\ Active(w)' /\ Past(w)'
  BY <1>2, <1>3 DEF Inserts, Finished, Active, Past, Leads, Waiting
<1>10. \A v \in Writers : ~Inserts(v)' BY <1>6, <1>8, <1>9 DEF Active
<1>11. Onward
  <2>1. CASE pc'[w] = "insert"
    <3>1. InHand(w)' BY <1>5, <1>6, <1>7, <1>9, <2>1 DEF InHand
    <3>2. QED BY <1>5, <1>6, <3>1 DEF Onward
  <2>2. CASE pc'[w] = "publish"
    <3>1. Doomed' BY <1>5, <1>6, <1>7, <2>2 DEF Doomed
    <3>2. QED BY <3>1 DEF Onward
  <2>3. QED BY <1>3, <2>1, <2>2
<1>12. NumOK' /\ SameOK' /\ WholeOK'
  BY <1>2, <1>11, NumKept, SameKept, WholeKept DEF Data
<1>13. RecordsOK'
  <2>1. \A L \in Writers : group[L].members # <<>> =>
           group'[L].members = group[L].members /\ (Past(L) => Past(L)')
    BY <1>5, <1>8, <1>9
  <2>2. QED BY <1>2, <2>1, RecordsKept DEF Data
<1>14. FitOK' BY <1>2, <1>7, FitKept DEF Data
<1>15. HandOK'
  <2>1. ASSUME NEW v \in Writers, NEW L \in Writers, Active(v)', InGroup(v, L)', group'[L].st = "ok"
        PROVE  v = w /\ L = w /\ pc'[w] = "insert" /\ synced' = Len(log)
    <3>1. v = w BY <1>6, <1>8, <2>1
    <3>2. L = w BY <1>6, <1>7, <2>1, <3>1
    <3>3. QED BY <1>3, <1>5, <2>1, <3>1, <3>2
  <2>2. ~kind[w].disableWAL => /\ log # <<>> /\ log[Len(log)].batches = group[w].members
                               /\ log[Len(log)].first = lastSeq + 1 /\ ~log[Len(log)].torn
    BY <1>6 DEF Data, HandOK
  <2>3. QED BY <1>2, <1>5, <1>10, <2>1, <2>2 DEF HandOK
<1>16. InsertOK'
  <2>1. \A v \in Writers : pc'[v] # "inserted" BY <1>10 DEF Inserts
  <2>2. \A v, L \in Writers : InGroup(v, L)' /\ Finished(v)' /\ group'[L].ok => v \in applied'
    BY <1>2, <1>5, <1>7, <1>8, <1>9 DEF Data, InsertOK
  <2>3. ASSUME NEW v \in Writers, NEW L \in Writers, InGroup(v, L)', pc'[v] = "publish"
        PROVE  group'[L].st # "ok"
    <3>1. v = w BY <1>6, <1>8, <2>3 DEF Active
    <3>2. L = w BY <1>6, <1>7, <2>3, <3>1
    <3>3. QED BY <1>5, <2>3, <3>1, <3>2
  <2>4. QED BY <1>10, <2>1, <2>2, <2>3 DEF InsertOK
<1>17. StageOK'
  <2>1. Stage(w)'
    <3>1. \A L \in Writers : InGroup(w, L)' => L = w BY <1>6, <1>7
    <3>2. QED BY <1>2, <1>3, <1>5, <1>6, <1>9, <3>1 DEF Stage
  <2>2. ASSUME NEW v \in Writers \ {w} PROVE Stage(v)'
    <3>1. ASSUME NEW L \in Writers, InGroup(v, L)',
                 Inserts(v) \/ pc[v] \in {"publish", "exit", "release"}
          PROVE  group'[L] = group[L]
      <4>1. ~Waiting(v) BY <3>1 DEF Waiting, Inserts
      <4>2. L # w BY <1>6, <1>7, <3>1, <4>1
      <4>3. QED BY <1>5, <4>2
    <3>2. pc'[v] = pc[v] /\ state'[v] = state[v] /\ status'[v] = status[v] /\ group'[v].st = group[v].st
      BY <1>2, <1>4, <1>5
    <3>3. QED BY <1>2, <3>1, <3>2, StageStays DEF Data, StageOK
  <2>3. QED BY <2>1, <2>2 DEF StageOK
<1>18. KeptOK'
  <2>1. ASSUME NEW u \in Writers, Kept(u) PROVE Kept(u)'
    <3>1. synced \in Nat /\ synced <= Len(log) /\ Len(log) \in Nat /\ lastSeq \in Nat
      BY LogTypes DEF LogFacts, IInv, TypeOK
    <3>2. synced <= synced' /\ lastSeq <= lastSeq' /\ Len(log) <= Len(log') BY <1>2, <1>3, <3>1
    <3>3. QED BY <1>2, <2>1, <3>2, KeptKept
  <2>2. pc'[w] \in {"insert", "await", "publish"} /\ (state[w] # "completed" \/ pc'[w] # "await")
    BY <1>3
  <2>3. QED BY <1>2, <1>4, <1>5, <2>1, <2>2, ToldByLeader
<1>19. QED BY <1>12, <1>13, <1>14, <1>15, <1>16, <1>17, <1>18 DEF Data

-----------------------------------------------------------------------------
(***************************************************************************)
(* The memtable.                                                           *)
(***************************************************************************)
\* The numbers of a group's batches, in its order.
LEMMA NumberedBatches ==
  ASSUME IInv, NEW L \in Writers
  PROVE  /\ \A i \in 1 .. Len(group[L].members) : Numbered(L)[group[L].members[i]] = lastSeq + i
         /\ \A u \in Writers : ~InGroup(u, L) => Numbered(L)[u] = num[u]
<1>1. /\ group[L].members \in Seq(Writers) /\ DOMAIN group[L].members = 1 .. Len(group[L].members)
      /\ \A i \in 1 .. Len(group[L].members) : group[L].members[i] \in Writers
  BY Types, QueueTypes DEF IInv, ThreadTypes
<1>2. \A u : u \in Members(L) <=> InGroup(u, L) BY MembersType DEF IInv, InGroup
<1>3. ASSUME NEW i \in 1 .. Len(group[L].members)
      PROVE  Numbered(L)[group[L].members[i]] = lastSeq + i
  <2> DEFINE u == group[L].members[i]
             j == CHOOSE j \in DOMAIN group[L].members : group[L].members[j] = u
  <2>1. u \in Writers /\ u \in Members(L) BY <1>1, <1>2, <1>3 DEF InGroup
  <2>2. Numbered(L)[u] = lastSeq + j BY <2>1 DEF Numbered
  <2>3. j \in DOMAIN group[L].members /\ group[L].members[j] = u BY <1>1, <1>3
  <2>4. j = i
    <3> HIDE DEF j
    <3> QED BY <1>1, <1>3, <2>3 DEF IInv, Shape, GroupsOK
  <2> HIDE DEF j, u
  <2>5. Numbered(L)[u] = lastSeq + i BY <2>2, <2>4
  <2>6. QED BY <2>5 DEF u
<1>4. \A u \in Writers : ~InGroup(u, L) => Numbered(L)[u] = num[u]
  BY <1>2 DEF Numbered
<1>5. QED BY <1>3, <1>4

\* A step that inserts batches of the group in hand, and numbers them.
LEMMA InsertedNumbers ==
  ASSUME IInv, Data, NEW L \in Writers, InHand(L), ~Doomed,
         UNCHANGED <<kind, log, disk, lastSeq>>, applied \subseteq applied',
         \A u \in applied' : u \in applied \/ (u \in Writers /\ InGroup(u, L) /\ ~kind[u].broken),
         \A u \in Writers : ~InGroup(u, L) => num'[u] = num[u],
         \A i \in 1 .. Len(group[L].members) : num'[group[L].members[i]] = lastSeq + i,
         group'[L].members = group[L].members, Doomed' \/ InHand(L)'
  PROVE  NumOK' /\ SameOK' /\ WholeOK'
<1>1. \A K \in Writers : InHand(K) => K = L BY OneInHand DEF InHand
<1>2. \A u : Logged(u)' <=> Logged(u) BY DEF Logged
<1>3. \A u : Logged(u) => LogNum(u)' = LogNum(u)
  BY <1>2 DEF LogNum
<1>4. \A u \in Writers : ~Logged(u) => LogNum(u)' = num'[u] /\ LogNum(u) = num[u]
  BY <1>2 DEF LogNum
<1>5. \A u \in Found : LogNum(u) <= lastSeq \/ \E j \in 1 .. Len(group[L].members) :
                                                 group[L].members[j] = u /\ LogNum(u) = lastSeq + j
  BY <1>1 DEF Data, NumOK, Ahead
<1>6. ASSUME NEW u \in Found'
      PROVE  \/ u \in Found /\ LogNum(u)' = LogNum(u) /\ LogNum(u) <= lastSeq
             \/ \E j \in 1 .. Len(group[L].members) :
                  group[L].members[j] = u /\ LogNum(u)' = lastSeq + j
  <2>1. u \in applied' \/ Logged(u)' BY <1>6 DEF Found, Logged
  <2>2. u \in Writers
    <3>1. Logged(u) => u \in Writers BY FoundFacts DEF IInv
    <3>2. applied \subseteq Writers BY DEF IInv, TypeOK
    <3>3. QED BY <1>2, <2>1, <3>1, <3>2
  <2>3. u \in Found \/ InGroup(u, L)
    <3>1. u \in applied \/ Logged(u) => u \in Found BY FoundFacts DEF IInv
    <3>2. QED BY <1>2, <2>1, <3>1
  <2>4. CASE Logged(u)
    <3>1. u \in Found BY <2>4, FoundFacts DEF IInv
    <3>2. QED BY <1>3, <1>5, <2>4, <3>1
  <2>5. CASE ~Logged(u) /\ InGroup(u, L) BY <1>4, <2>2, <2>5 DEF InGroup
  <2>6. CASE ~Logged(u) /\ ~InGroup(u, L)
    <3>1. u \in Found /\ LogNum(u)' = LogNum(u) BY <1>4, <2>2, <2>3, <2>6
    <3>2. LogNum(u) <= lastSeq BY <1>5, <2>6, <3>1 DEF InGroup
    <3>3. QED BY <3>1, <3>2
  <2>7. QED BY <2>4, <2>5, <2>6
<1>7. NumOK'
  <2>1. Doomed' \/ (InHand(L)' /\ group'[L].members = group[L].members) OBVIOUS
  <2>2. QED BY <1>6, <2>1, NumbersRight DEF Data
<1>8. SameOK'
  <2>1. \A u \in applied' : ~kind'[u].broken BY DEF Data, SameOK
  <2>2. ASSUME NEW u \in applied' \ disk', u \notin applied
        PROVE  Logged(u)' \/ kind'[u].disableWAL
    <3>1. u \in Writers /\ InGroup(u, L) BY <2>2
    <3>2. CASE kind[L].disableWAL
      BY <3>1, <3>2 DEF Data, FitOK
    <3>3. CASE ~kind[L].disableWAL
      <4>1. PICK v \in Writers : Active(v) /\ InGroup(v, L) /\ group[L].st = "ok" BY DEF InHand
      <4>2. log # <<>> /\ log[Len(log)].batches = group[L].members
        BY <3>3, <4>1 DEF Data, HandOK
      <4>3. Len(log) \in Nat /\ Len(log) # 0 BY <4>2, LogTypes DEF LogFacts, IInv
      <4>4. PICK j \in 1 .. Len(group[L].members) : group[L].members[j] = u BY <3>1 DEF InGroup
      <4>5. Len(log) \in 1 .. Len(log) /\ j \in Nat
        <5>1. Len(group[L].members) \in Nat BY Parts DEF IInv
        <5>2. QED BY <4>3, <5>1
      <4>6. Place(u, Len(log), j) BY <4>2, <4>4, <4>5 DEF Place
      <4>7. Logged(u) BY <4>3, <4>5, <4>6, LoggedPlace DEF LogPlaces, IInv
      <4>8. QED BY <1>2, <4>7
    <3>4. QED BY <3>2, <3>3
  <2>3. \A u \in applied' \ disk' : Logged(u)' \/ kind'[u].disableWAL
    BY <1>2, <2>2 DEF Data, SameOK
  <2>4. ASSUME NEW u \in Writers, ~Doomed', Logged(u)'
        PROVE  u \in applied' \/ \E K \in Writers : InHand(K)' /\ InGroup(u, K)'
    <3>1. Logged(u) BY <1>2, <2>4
    <3>2. u \in applied \/ InGroup(u, L) BY <1>1, <3>1 DEF Data, SameOK
    <3>3. InGroup(u, L) => InHand(L)' /\ InGroup(u, L)' BY <2>4 DEF InGroup
    <3>4. QED BY <3>2, <3>3
  <2>5. QED BY <2>1, <2>3, <2>4 DEF SameOK
<1>9. WholeOK'
  <2>1. Onward BY <1>1 DEF Onward
  <2>2. QED BY <2>1, WholeKept DEF Data
<1>10. QED BY <1>7, <1>8, <1>9

\* A leader on its own inserts its batch under its number.
LEMMA InsertAloneData ==
  ASSUME IInv, TypeOK', Data, NEW w \in Writers, InsertAlone(w)
  PROVE  Data'
<1> USE DEF thread
<1>1. ThreadTypes /\ group \in [Writers -> GroupRecords] /\ status \in [Writers -> Statuses]
      /\ lastSeq \in Nat
  BY Types, Parts DEF IInv
<1>2. /\ pc[w] = "insert" /\ Len(group[w].members) = 1 /\ num' = Numbered(w)
      /\ group' = [group EXCEPT ![w].last = lastSeq + 1] /\ pc' = [pc EXCEPT ![w] = "publish"]
      /\ UNCHANGED <<kind, state, log, synced, disk, lastSeq, stopped, mayBeLost>>
  BY DEF InsertAlone
<1>3. /\ pc'[w] = "publish" /\ \A v \in Writers \ {w} : pc'[v] = pc[v] /\ status'[v] = status[v]
      /\ \/ kind[w].broken /\ status'[w] = "error" /\ applied' = applied
         \/ ~kind[w].broken /\ status'[w] = status[w] /\ applied' = applied \cup {w}
  BY <1>1, <1>2 DEF ThreadTypes, InsertAlone, InsertBatch
<1>4. /\ \A L \in Writers \ {w} : group'[L] = group[L]
      /\ \A L \in Writers : /\ group'[L].members = group[L].members /\ group'[L].ok = group[L].ok
                            /\ group'[L].st = group[L].st
      /\ group'[w].last = lastSeq + 1
  BY <1>1, <1>2 DEF GroupRecords
<1>5. /\ ~stopped /\ ~Doomed /\ group[w].st = "ok" /\ status[w] # "incomplete"
      /\ InGroup(w, w) /\ InHand(w)
      /\ \A L \in Writers : InHand(L) \/ InGroup(w, L) => L = w
      /\ \A v \in Writers : Active(v) <=> v = w
      /\ \A u \in Writers : InGroup(u, w) => u = w \/ Waiting(u)
  BY <1>2, LeaderInHand
<1>6. SameGroups /\ \A v, L \in Writers : InGroup(v, L)' <=> InGroup(v, L)
  BY <1>4 DEF SameGroups, InGroup
<1>7. \A u \in Writers : InGroup(u, w) <=> u = w BY <1>2, <1>5 DEF InGroup
<1>8. \A v \in Writers \ {w} : /\ Inserts(v)' <=> Inserts(v)
                               /\ Active(v)' <=> Active(v)
                               /\ Finished(v)' <=> Finished(v)
                               /\ Past(v)' <=> Past(v)
  BY <1>2, <1>3 DEF Active, Inserts, Finished, Past, Leads, Waiting
<1>9. /\ ~Inserts(w) /\ ~Inserts(w)' /\ ~Finished(w) /\ ~Finished(w)' /\ Active(w)' /\ Past(w)'
  BY <1>2, <1>3 DEF Inserts, Finished, Active, Past, Leads, Waiting
<1>10. \A v \in Writers : ~Inserts(v)' BY <1>5, <1>8, <1>9 DEF Active
<1>11. /\ \A i \in 1 .. Len(group[w].members) : num'[group[w].members[i]] = lastSeq + i
       /\ \A u \in Writers : ~InGroup(u, w) => num'[u] = num[u]
  BY <1>2, NumberedBatches
<1>12. NumOK' /\ SameOK' /\ WholeOK'
  <2>1. InHand(w)' BY <1>4, <1>5, <1>6, <1>9 DEF InHand
  <2>2. applied \subseteq applied' /\ \A u \in applied' :
          u \in applied \/ (u \in Writers /\ InGroup(u, w) /\ ~kind[u].broken)
    BY <1>3, <1>5
  <2>3. QED BY <1>2, <1>4, <1>5, <1>11, <2>1, <2>2, InsertedNumbers
<1>13. RecordsOK'
  <2>1. \A L \in Writers : group[L].members # <<>> =>
           group'[L].members = group[L].members /\ (Past(L) => Past(L)')
    BY <1>4, <1>8, <1>9
  <2>2. QED BY <1>2, <2>1, RecordsKept DEF Data
<1>14. FitOK' BY <1>2, <1>6, FitKept DEF Data
<1>15. HandOK'
  <2>1. ASSUME NEW v \in Writers, NEW L \in Writers, Active(v)', InGroup(v, L)', group'[L].st = "ok"
        PROVE  v = w /\ L = w
    BY <1>5, <1>6, <1>8, <2>1
  <2>2. /\ ~kind[w].disableWAL => /\ log # <<>> /\ log[Len(log)].batches = group[w].members
                                  /\ log[Len(log)].first = lastSeq + 1 /\ ~log[Len(log)].torn
        /\ kind[w].sync => synced = Len(log)
    BY <1>2, <1>5 DEF Data, HandOK
  <2>3. /\ group'[w].last = lastSeq' + Len(group'[w].members)
        /\ \A i \in 1 .. Len(group'[w].members) : num'[group'[w].members[i]] = lastSeq' + i
    BY <1>2, <1>4, <1>11
  <2>4. QED BY <1>2, <1>4, <2>1, <2>2, <2>3 DEF HandOK
<1>16. InsertOK'
  <2>1. \A v \in Writers : pc'[v] # "inserted" BY <1>10 DEF Inserts
  <2>2. \A v, L \in Writers : InGroup(v, L)' /\ Finished(v)' /\ group'[L].ok => v \in applied'
    BY <1>3, <1>4, <1>6, <1>8, <1>9 DEF Data, InsertOK
  <2>3. ASSUME NEW v \in Writers, NEW L \in Writers, InGroup(v, L)', pc'[v] = "publish",
               status'[v] = "ok", NEW u \in Writers, InGroup(u, L)'
        PROVE  u \in applied'
    <3>1. v = w BY <1>5, <1>8, <2>3 DEF Active
    <3>2. L = w BY <1>5, <1>6, <2>3, <3>1
    <3>3. u = w BY <1>6, <1>7, <2>3, <3>2
    <3>4. QED BY <1>3, <2>3, <3>1, <3>3
  <2>4. QED BY <1>10, <2>1, <2>2, <2>3 DEF InsertOK
<1>17. StageOK'
  <2>1. Stage(w)'
    <3>1. \A L \in Writers : InGroup(w, L)' => L = w BY <1>5, <1>6
    <3>2. status'[w] # "incomplete" BY <1>3, <1>5
    <3>a. group'[w].members = group[w].members BY <1>4
    <3>b. Len(group'[w].members) = 1 BY <1>2, <3>a
    <3>3. ~(Len(group'[w].members) > 1) BY <3>b
    <3>4. QED BY <1>2, <1>3, <1>4, <1>5, <1>9, <3>1, <3>2, <3>3 DEF Stage
  <2>2. ASSUME NEW v \in Writers \ {w} PROVE Stage(v)'
    <3>1. pc'[v] = pc[v] /\ state'[v] = state[v] /\ status'[v] = status[v]
      BY <1>2, <1>3
    <3>2. QED BY <1>2, <1>4, <3>1, StageStays DEF Data, StageOK
  <2>3. QED BY <2>1, <2>2 DEF StageOK
<1>18. KeptOK'
  <2>1. ASSUME NEW u \in Writers, Kept(u), ~InGroup(u, w) PROVE Kept(u)'
    <3>1. synced \in Nat /\ synced <= Len(log) /\ Len(log) \in Nat
      BY LogTypes DEF LogFacts, IInv
    <3>2. synced <= synced' /\ lastSeq <= lastSeq' /\ Len(log) <= Len(log') /\ num'[u] = num[u]
          /\ applied \subseteq applied' /\ disk \subseteq disk'
      BY <1>1, <1>2, <1>3, <1>11, <2>1, <3>1
    <3>3. QED BY <1>2, <2>1, <3>2, KeptKept
  <2>2. pc'[w] \in {"insert", "await", "publish"} /\ (state[w] # "completed" \/ pc'[w] # "await")
    BY <1>3
  <2>3. QED BY <1>2, <1>3, <1>4, <2>1, <2>2, ToldByLeader
<1>19. QED BY <1>12, <1>13, <1>14, <1>15, <1>16, <1>17, <1>18 DEF Data

\* All members of a parallel group have their numbers before they insert.
LEMMA LaunchData ==
  ASSUME IInv, TypeOK', Data, NEW w \in Writers, Launch(w)
  PROVE  Data'
<1> USE DEF thread
<1>1. ThreadTypes /\ group \in [Writers -> GroupRecords] /\ lastSeq \in Nat
      /\ Len(group[w].members) \in Nat
  BY Types, Parts DEF IInv
<1>2. /\ pc[w] = "insert" /\ Len(group[w].members) > 1 /\ num' = Numbered(w)
      /\ group' = [group EXCEPT ![w].running = Len(group[w].members),
                                ![w].last = lastSeq + Len(group[w].members)]
      /\ state' = [v \in Writers |-> IF v \in Members(w) THEN "parallel" ELSE state[v]]
      /\ pc' = [pc EXCEPT ![w] = "await"]
      /\ UNCHANGED <<kind, status, log, synced, disk, applied, lastSeq, stopped, mayBeLost>>
  BY DEF Launch
<1>3. /\ pc'[w] = "await" /\ \A v \in Writers \ {w} : pc'[v] = pc[v] /\ status'[v] = status[v]
      /\ \A v \in Writers : /\ InGroup(v, w) => state'[v] = "parallel"
                            /\ ~InGroup(v, w) => state'[v] = state[v]
  <2>1. \A v : v \in Members(w) <=> InGroup(v, w) BY MembersType DEF IInv, InGroup
  <2>2. \A v \in Writers : state'[v] = IF v \in Members(w) THEN "parallel" ELSE state[v]
    BY <1>2
  <2>3. pc'[w] = "await" /\ \A v \in Writers \ {w} : pc'[v] = pc[v]
    BY <1>1, <1>2 DEF ThreadTypes
  <2>4. QED BY <1>2, <2>1, <2>2, <2>3
<1>4. /\ \A L \in Writers \ {w} : group'[L] = group[L]
      /\ \A L \in Writers : /\ group'[L].members = group[L].members /\ group'[L].ok = group[L].ok
                            /\ group'[L].st = group[L].st
      /\ group'[w].last = lastSeq + Len(group[w].members)
  BY <1>1, <1>2 DEF GroupRecords
<1>5. /\ ~stopped /\ ~Doomed /\ group[w].st = "ok" /\ status[w] # "incomplete"
      /\ InGroup(w, w) /\ InHand(w)
      /\ \A L \in Writers : InHand(L) \/ InGroup(w, L) => L = w
      /\ \A v \in Writers : Active(v) <=> v = w
      /\ \A u \in Writers : InGroup(u, w) => u = w \/ Waiting(u)
  BY <1>2, LeaderInHand
<1>6. SameGroups /\ \A v, L \in Writers : InGroup(v, L)' <=> InGroup(v, L)
  BY <1>4 DEF SameGroups, InGroup
<1>7. \A v, L \in Writers : InGroup(v, w) /\ InGroup(v, L) => L = w BY OneGroup
<1>8. \A v \in Writers : InGroup(v, w) => /\ pc'[v] = "await" /\ state'[v] = "parallel"
                                          /\ Inserts(v)' /\ Active(v)' /\ ~Finished(v)' /\ Past(v)'
  <2>1. \A v \in Writers : InGroup(v, w) => pc'[v] = "await" /\ state'[v] = "parallel"
    BY <1>3, <1>5 DEF Waiting
  <2>2. QED BY <2>1 DEF Inserts, Active, Finished, Past, Leads, Waiting
<1>9. \A v \in Writers : ~InGroup(v, w) =>
        /\ v # w /\ pc'[v] = pc[v] /\ state'[v] = state[v] /\ status'[v] = status[v]
        /\ ~Inserts(v)' /\ ~Active(v)' /\ (Finished(v)' <=> Finished(v)) /\ (Past(v)' <=> Past(v))
  <2>1. \A v \in Writers : ~InGroup(v, w) =>
          v # w /\ pc'[v] = pc[v] /\ state'[v] = state[v] /\ status'[v] = status[v] /\ ~Active(v)
    BY <1>3, <1>5
  <2>2. QED BY <2>1 DEF Active, Inserts, Finished, Past, Leads, Waiting
<1>11. /\ \A i \in 1 .. Len(group[w].members) : num'[group[w].members[i]] = lastSeq + i
       /\ \A u \in Writers : ~InGroup(u, w) => num'[u] = num[u]
  BY <1>2, NumberedBatches
<1>12. NumOK' /\ SameOK' /\ WholeOK'
  <2>1. InHand(w)' BY <1>4, <1>5, <1>6, <1>8 DEF InHand
  <2>2. applied \subseteq applied' /\ \A u \in applied' :
          u \in applied \/ (u \in Writers /\ InGroup(u, w) /\ ~kind[u].broken)
    BY <1>2
  <2>3. QED BY <1>2, <1>4, <1>5, <1>11, <2>1, <2>2, InsertedNumbers
<1>13. RecordsOK'
  <2>1. \A L \in Writers : group[L].members # <<>> =>
           group'[L].members = group[L].members /\ (Past(L) => Past(L)')
    BY <1>4, <1>8, <1>9
  <2>2. QED BY <1>2, <2>1, RecordsKept DEF Data
<1>14. FitOK' BY <1>2, <1>6, FitKept DEF Data
<1>15. HandOK'
  <2>1. ASSUME NEW v \in Writers, NEW L \in Writers, Active(v)', InGroup(v, L)', group'[L].st = "ok"
        PROVE  L = w
    BY <1>6, <1>7, <1>9, <2>1
  <2>2. /\ ~kind[w].disableWAL => /\ log # <<>> /\ log[Len(log)].batches = group[w].members
                                  /\ log[Len(log)].first = lastSeq + 1 /\ ~log[Len(log)].torn
        /\ kind[w].sync => synced = Len(log)
    BY <1>2, <1>5 DEF Data, HandOK
  <2>3. /\ group'[w].last = lastSeq' + Len(group'[w].members)
        /\ \A i \in 1 .. Len(group'[w].members) : num'[group'[w].members[i]] = lastSeq' + i
    BY <1>2, <1>4, <1>11
  <2>4. ASSUME NEW v \in Writers, NEW L \in Writers, Active(v)', InGroup(v, L)', group'[L].st = "ok"
        PROVE  /\ ~kind'[L].disableWAL => /\ log' # <<>>
                                         /\ log'[Len(log')].batches = group'[L].members
                                         /\ log'[Len(log')].first = lastSeq' + 1
                                         /\ ~log'[Len(log')].torn
               /\ kind'[L].sync => synced' = Len(log')
               /\ group'[L].last = lastSeq' + Len(group'[L].members)
               /\ \A i \in 1 .. Len(group'[L].members) : num'[group'[L].members[i]] = lastSeq' + i
    <3>1. L = w BY <2>1, <2>4
    <3>2. /\ ~kind'[w].disableWAL => /\ log' # <<>>
                                     /\ log'[Len(log')].batches = group'[w].members
                                     /\ log'[Len(log')].first = lastSeq' + 1
                                     /\ ~log'[Len(log')].torn
          /\ kind'[w].sync => synced' = Len(log')
      BY <1>2, <1>4, <2>2
    <3>3. QED BY <2>3, <3>1, <3>2
  <2>5. QED BY <2>4 DEF HandOK
<1>16. InsertOK'
  <2>1. \A v \in Writers : pc'[v] \notin {"inserted", "publish"}
    BY <1>8, <1>9 DEF Active, Inserts
  <2>2. \A v, L \in Writers : InGroup(v, L)' /\ Finished(v)' /\ group'[L].ok => v \in applied'
    BY <1>2, <1>4, <1>6, <1>8, <1>9 DEF Data, InsertOK
  <2>3. \A v, L \in Writers : InGroup(v, L)' /\ Inserts(v)' =>
          \A u \in Writers : InGroup(u, L)' => Inserts(u)'
    BY <1>6, <1>7, <1>8, <1>9
  <2>4. QED BY <2>1, <2>2, <2>3 DEF InsertOK
<1>17. StageOK'
  <2>1. ASSUME NEW v \in Writers, InGroup(v, w) PROVE Stage(v)'
    <3>1. \A L \in Writers : InGroup(v, L)' => L = w BY <1>6, <1>7, <2>1
    <3>2. status'[v] # "incomplete"
      <4>1. CASE v = w BY <1>2, <1>5, <4>1
      <4>2. CASE Waiting(v)
        <5>1. Stage(v) BY DEF Data, StageOK
        <5>2. status[v] # "incomplete" BY <4>2, <5>1 DEF Stage, Waiting
        <5>3. QED BY <1>2, <5>2
      <4>3. QED BY <1>5, <2>1, <4>1, <4>2
    <3>3. pc'[v] = "await" BY <1>8, <2>1
    <3>4. QED BY <1>2, <1>4, <1>5, <3>1, <3>2, <3>3 DEF Stage
  <2>2. ASSUME NEW v \in Writers, ~InGroup(v, w) PROVE Stage(v)'
    <3>1. pc'[v] = pc[v] /\ state'[v] = state[v] /\ status'[v] = status[v]
      BY <1>9, <2>2
    <3>2. QED BY <1>2, <1>4, <3>1, StageStays DEF Data, StageOK
  <2>3. QED BY <2>1, <2>2 DEF StageOK
<1>18. KeptOK'
  <2>1. ASSUME NEW u \in Writers, Kept(u), ~InGroup(u, w) PROVE Kept(u)'
    <3>1. synced \in Nat /\ synced <= Len(log) /\ Len(log) \in Nat
      BY LogTypes DEF LogFacts, IInv
    <3>2. synced <= synced' /\ lastSeq <= lastSeq' /\ Len(log) <= Len(log') /\ num'[u] = num[u]
          /\ applied \subseteq applied' /\ disk \subseteq disk'
      BY <1>1, <1>2, <1>11, <2>1, <3>1
    <3>3. QED BY <1>2, <2>1, <3>2, KeptKept
  <2>2. /\ pc'[w] \in {"insert", "await", "publish"} /\ state'[w] = "parallel"
        /\ \A v \in Writers : state'[v] = state[v] \/ state'[v] = "parallel"
    BY <1>3, <1>5
  <2>3. QED BY <1>2, <1>3, <1>4, <2>1, <2>2, ToldByLeader
<1>19. QED BY <1>12, <1>13, <1>14, <1>15, <1>16, <1>17, <1>18 DEF Data

\* The group in hand, while its members insert.
LEMMA InsertingInHand ==
  ASSUME IInv, Data, NEW w \in Writers, NEW L \in Writers, Inserts(w), InGroup(w, L)
  PROVE  /\ ~stopped /\ ~Doomed /\ group[L].st = "ok" /\ InHand(L)
         /\ \A K \in Writers : InHand(K) \/ InGroup(w, K) => K = L
         /\ \A v \in Writers : Active(v) => Inserts(v) /\ InGroup(v, L)
         /\ \A v \in Writers : pc[v] \notin {"sync", "insert", "publish"}
<1>1. Active(w) BY DEF Active
<1>2. group[L].st = "ok" /\ ~stopped BY DEF Data, StageOK, Stage
<1>3. \A v \in Writers : ~Early(v) /\ ~Late(v) BY DEF IInv, Shape, TokenOK
<1>4. \A v \in Writers : pc[v] \notin {"sync", "insert", "publish"} BY <1>3 DEF Early, Late
<1>5. ~Doomed BY <1>2, <1>4 DEF Doomed
<1>6. InHand(L) BY <1>1, <1>2 DEF InHand
<1>7. \A K \in Writers : InHand(K) \/ InGroup(w, K) => K = L BY <1>1, OneInHand, OneGroup DEF InHand
<1>8. ASSUME NEW v \in Writers, Active(v) PROVE Inserts(v) /\ InGroup(v, L)
  <2>1. Inserts(v) BY <1>4, <1>8 DEF Active
  <2>2. InGroup(v, queue[1]) /\ queue[1] \in Writers BY <1>8, InHandFront
  <2>3. queue[1] = L BY <1>1, <1>8, <2>2, OneInHand
  <2>4. QED BY <2>1, <2>2, <2>3
<1>9. QED BY <1>2, <1>4, <1>5, <1>6, <1>7, <1>8

\* A member inserts its batch, or remembers that it could not.
LEMMA InsertOwnData ==
  ASSUME IInv, TypeOK', Data, NEW w \in Writers, InsertOwn(w)
  PROVE  Data'
<1> USE DEF thread
<1>1. ThreadTypes /\ status \in [Writers -> Statuses] BY Types, Parts DEF IInv
<1>2. /\ pc[w] = "await" /\ state[w] = "parallel" /\ pc' = [pc EXCEPT ![w] = "inserted"]
      /\ UNCHANGED <<kind, state, group, log, synced, disk, num, lastSeq, stopped, mayBeLost>>
  BY DEF InsertOwn
<1>3. /\ pc'[w] = "inserted" /\ \A v \in Writers \ {w} : pc'[v] = pc[v] /\ status'[v] = status[v]
      /\ \/ kind[w].broken /\ status'[w] = "error" /\ applied' = applied
         \/ ~kind[w].broken /\ status'[w] = status[w] /\ applied' = applied \cup {w}
  BY <1>1, <1>2 DEF ThreadTypes, InsertOwn, InsertBatch
<1>4. Inserts(w) /\ Active(w) BY <1>2 DEF Inserts, Active
<1>5. PICK L \in Writers : InGroup(w, L) BY <1>4, InHandFront
<1>6. /\ ~stopped /\ ~Doomed /\ group[L].st = "ok" /\ InHand(L)
      /\ \A K \in Writers : InHand(K) \/ InGroup(w, K) => K = L
      /\ \A v \in Writers : Active(v) => Inserts(v) /\ InGroup(v, L)
      /\ \A v \in Writers : pc[v] \notin {"sync", "insert", "publish"}
  BY <1>4, <1>5, InsertingInHand
<1>7. SameGroups /\ \A v, K \in Writers : InGroup(v, K)' <=> InGroup(v, K)
  BY <1>2 DEF SameGroups, InGroup
<1>8. \A v \in Writers \ {w} : /\ Inserts(v)' <=> Inserts(v)
                               /\ Active(v)' <=> Active(v)
                               /\ Finished(v)' <=> Finished(v)
                               /\ Past(v)' <=> Past(v)
  BY <1>2, <1>3 DEF Active, Inserts, Finished, Past, Leads, Waiting
<1>9. /\ Inserts(w)' /\ Active(w)' /\ ~Finished(w) /\ ~Finished(w)' /\ Past(w)'
  BY <1>2, <1>3 DEF Inserts, Finished, Active, Past, Leads, Waiting
<1>10. applied \subseteq applied' /\ \A u \in applied' :
         u \in applied \/ (u \in Writers /\ InGroup(u, L) /\ ~kind[u].broken)
  BY <1>3, <1>5
<1>11. /\ ~kind[L].disableWAL => /\ log # <<>> /\ log[Len(log)].batches = group[L].members
                                 /\ log[Len(log)].first = lastSeq + 1 /\ ~log[Len(log)].torn
       /\ kind[L].sync => synced = Len(log)
       /\ group[L].last = lastSeq + Len(group[L].members)
       /\ \A i \in 1 .. Len(group[L].members) : num[group[L].members[i]] = lastSeq + i
  BY <1>2, <1>4, <1>5, <1>6 DEF Data, HandOK
<1>12. NumOK' /\ SameOK' /\ WholeOK'
  <2>1. InHand(L)' BY <1>2, <1>5, <1>6, <1>7, <1>9 DEF InHand
  <2>2. /\ \A u \in Writers : ~InGroup(u, L) => num'[u] = num[u]
        /\ \A i \in 1 .. Len(group[L].members) : num'[group[L].members[i]] = lastSeq + i
        /\ group'[L].members = group[L].members
    BY <1>2, <1>11
  <2>3. QED BY <1>2, <1>6, <1>10, <2>1, <2>2, InsertedNumbers
<1>13. RecordsOK'
  <2>1. \A K \in Writers : group[K].members # <<>> =>
           group'[K].members = group[K].members /\ (Past(K) => Past(K)')
    BY <1>2, <1>8, <1>9
  <2>2. QED BY <1>2, <2>1, RecordsKept DEF Data
<1>14. FitOK' BY <1>2, <1>7, FitKept DEF Data
<1>15. HandOK'
  <2>1. ASSUME NEW v \in Writers, NEW K \in Writers, Active(v)', InGroup(v, K)'
        PROVE  K = L
    <3>1. InGroup(v, L) BY <1>5, <1>6, <1>8, <2>1
    <3>2. QED BY <1>7, <2>1, <3>1, OneGroup
  <2>2. QED BY <1>2, <1>11, <2>1 DEF HandOK
<1>16. InsertOK'
  <2>1. \A v \in Writers : pc'[v] # "publish" BY <1>3, <1>6
  <2>2. \A v, K \in Writers : InGroup(v, K)' /\ Finished(v)' /\ group'[K].ok => v \in applied'
    BY <1>2, <1>7, <1>8, <1>9, <1>10 DEF Data, InsertOK
  <2>3. \A v, K \in Writers : InGroup(v, K)' /\ Inserts(v)' =>
          \A u \in Writers : InGroup(u, K)' => (Inserts(u) \/ Finished(u))'
    <3>1. \A v \in Writers : /\ Inserts(v)' <=> Inserts(v)
                             /\ Finished(v)' <=> Finished(v)
      BY <1>4, <1>8, <1>9
    <3>2. QED BY <1>7, <3>1 DEF Data, InsertOK
  <2>4. \A v \in Writers : pc'[v] = "inserted" /\ status'[v] = "ok" => v \in applied'
    BY <1>3, <1>10 DEF Data, InsertOK
  <2>5. QED BY <2>1, <2>2, <2>3, <2>4 DEF InsertOK
<1>17. StageOK'
  <2>1. Stage(w)'
    <3>1. \A K \in Writers : InGroup(w, K)' => K = L BY <1>6, <1>7
    <3>2. status'[w] # "incomplete"
      <4>1. status[w] # "incomplete" BY <1>2 DEF Data, StageOK, Stage
      <4>2. QED BY <1>3, <4>1
    <3>3. QED BY <1>2, <1>3, <1>6, <3>1, <3>2 DEF Stage
  <2>2. ASSUME NEW v \in Writers \ {w} PROVE Stage(v)'
    BY <1>2, <1>3, <2>2, StageStays DEF Data, StageOK
  <2>3. QED BY <2>1, <2>2 DEF StageOK
<1>18. KeptOK'
  <2>1. ASSUME NEW u \in Writers, Kept(u) PROVE Kept(u)'
    <3>1. synced \in Nat /\ Len(log) \in Nat /\ lastSeq \in Nat
      BY LogTypes DEF LogFacts, IInv, TypeOK
    <3>2. synced <= synced' /\ lastSeq <= lastSeq' /\ Len(log) <= Len(log') /\ num'[u] = num[u]
          /\ applied \subseteq applied' /\ disk \subseteq disk'
      BY <1>2, <1>10, <3>1
    <3>3. QED BY <1>2, <2>1, <3>2, KeptKept
  <2>2. \A u \in Writers : ToldOK(u)' => ToldOK(u) BY <1>2, <1>3 DEF ToldOK
  <2>3. ASSUME NEW v \in Writers, NEW K \in Writers, InGroup(v, K)', pc'[v] \in {"exit", "release"},
               group'[K].st = "ok", status'[v] = "ok"
        PROVE  /\ InGroup(v, K) /\ pc[v] \in {"exit", "release"} /\ group[K].st = "ok" /\ status[v] = "ok"
               /\ group'[K].members = group[K].members
               /\ \A u \in Writers : InGroup(u, K) => ~Active(u)
    <3>1. v # w BY <1>3, <2>3
    <3>2. InGroup(v, K) /\ pc[v] \in {"exit", "release"} /\ status[v] = "ok" BY <1>3, <1>7, <2>3, <3>1
    <3>3. \A u \in Writers : InGroup(u, K) => ~Active(u) BY <3>2, NobodyActiveInLeaving
    <3>4. QED BY <1>2, <2>3, <3>2, <3>3
  <2>4. mayBeLost \subseteq mayBeLost' BY <1>2
  <2>5. QED BY <2>1, <2>2, <2>3, <2>4, ToldStays DEF Data
<1>19. QED BY <1>12, <1>13, <1>14, <1>15, <1>16, <1>17, <1>18 DEF Data

\* What a member does that has inserted its batch.
Completes(w, L) ==
  /\ pc[w] = "inserted" /\ state[w] = "parallel" /\ InGroup(w, L)
  /\ UNCHANGED <<kind, state, log, synced, disk, applied, num, lastSeq, stopped, mayBeLost>>
  /\ \A v \in Writers \ {w} : pc'[v] = pc[v] /\ status'[v] = status[v]
  /\ pc'[w] \in {"publish", "finish"} /\ status'[w] # "incomplete"
  /\ \A K \in Writers : /\ group'[K].members = group[K].members /\ group'[K].st = group[K].st
                        /\ group'[K].last = group[K].last
                        /\ K # L => group'[K].ok = group[K].ok
  /\ group'[L].ok = (group[L].ok /\ status[w] = "ok")

\* Who inserts is not changed by it.
LEMMA CompletesOthers ==
  ASSUME IInv, Data, NEW w \in Writers, NEW L \in Writers, Completes(w, L)
  PROVE  /\ SameGroups /\ \A v, K \in Writers : InGroup(v, K)' <=> InGroup(v, K)
         /\ \A v \in Writers \ {w} : /\ Inserts(v)' <=> Inserts(v)
                                     /\ Active(v)' <=> Active(v)
                                     /\ Finished(v)' <=> Finished(v)
                                     /\ Past(v)' <=> Past(v)
         /\ ~Finished(w) /\ Inserts(w) /\ Past(w)' /\ ~Inserts(w)'
         /\ ~stopped /\ ~Doomed /\ group[L].st = "ok" /\ InHand(L)
         /\ \A K \in Writers : InHand(K) \/ InGroup(w, K) => K = L
         /\ \A v \in Writers : Active(v) => Inserts(v) /\ InGroup(v, L)
         /\ \A v \in Writers : pc[v] \notin {"sync", "insert", "publish"}
         /\ \A u \in Writers : InGroup(u, L) => Inserts(u) \/ Finished(u)
<1>1. /\ pc[w] = "inserted" /\ state[w] = "parallel" /\ InGroup(w, L) /\ state' = state
      /\ \A v \in Writers \ {w} : pc'[v] = pc[v]
      /\ pc'[w] \in {"publish", "finish"}
      /\ \A K \in Writers : group'[K].members = group[K].members
  BY DEF Completes
<1>2. SameGroups /\ \A v, K \in Writers : InGroup(v, K)' <=> InGroup(v, K)
  BY <1>1 DEF SameGroups, InGroup
<1>3. \A v \in Writers \ {w} : /\ Inserts(v)' <=> Inserts(v)
                               /\ Active(v)' <=> Active(v)
                               /\ Finished(v)' <=> Finished(v)
                               /\ Past(v)' <=> Past(v)
  BY <1>1 DEF Active, Inserts, Finished, Past, Leads, Waiting
<1>4. ~Finished(w) /\ Inserts(w) /\ Past(w)' /\ ~Inserts(w)'
  BY <1>1 DEF Inserts, Finished, Past, Leads, Waiting
<1>5. \A u \in Writers : InGroup(u, L) => Inserts(u) \/ Finished(u)
  BY <1>1, <1>4 DEF Data, InsertOK
<1>6. QED BY <1>1, <1>2, <1>3, <1>4, <1>5, InsertingInHand

\* Most of the invariant stays.
LEMMA CompletesKeeps ==
  ASSUME IInv, TypeOK', Data, NEW w \in Writers, NEW L \in Writers, Completes(w, L), Onward
  PROVE  /\ RecordsOK' /\ FitOK' /\ HandOK' /\ NumOK' /\ SameOK' /\ WholeOK' /\ KeptOK'
         /\ \A v \in Writers \ {w} : Stage(v)'
<1>1. /\ pc[w] = "inserted" /\ state[w] = "parallel" /\ InGroup(w, L)
      /\ UNCHANGED <<kind, state, log, synced, disk, applied, num, lastSeq, stopped, mayBeLost>>
      /\ \A v \in Writers \ {w} : pc'[v] = pc[v] /\ status'[v] = status[v]
      /\ pc'[w] \in {"publish", "finish"} /\ status'[w] # "incomplete"
      /\ \A K \in Writers : /\ group'[K].members = group[K].members /\ group'[K].st = group[K].st
                            /\ group'[K].last = group[K].last
                            /\ K # L => group'[K].ok = group[K].ok
  BY DEF Completes
<1>2. /\ SameGroups /\ \A v, K \in Writers : InGroup(v, K)' <=> InGroup(v, K)
      /\ \A v \in Writers \ {w} : /\ Inserts(v)' <=> Inserts(v)
                                  /\ Active(v)' <=> Active(v)
                                  /\ Past(v)' <=> Past(v)
      /\ Inserts(w) /\ Past(w)'
      /\ ~stopped /\ group[L].st = "ok"
      /\ \A v \in Writers : Active(v) => Inserts(v) /\ InGroup(v, L)
      /\ \A v \in Writers : pc[v] \notin {"sync", "insert", "publish"}
      /\ \A u \in Writers : InGroup(u, L) => Inserts(u) \/ Finished(u)
  BY CompletesOthers
<1>3. NumOK' /\ SameOK' /\ WholeOK' BY <1>1, NumKept, SameKept, WholeKept DEF Data
<1>4. RecordsOK'
  <2>1. \A K \in Writers : group[K].members # <<>> =>
           group'[K].members = group[K].members /\ (Past(K) => Past(K)')
    BY <1>1, <1>2
  <2>2. QED BY <1>1, <2>1, RecordsKept DEF Data
<1>5. FitOK' BY <1>1, <1>2, FitKept DEF Data
<1>6. HandOK'
  <2>1. ASSUME NEW v \in Writers, NEW K \in Writers, Active(v)', InGroup(v, K)'
        PROVE  K = L
    <3>1. InGroup(v, L) BY <1>1, <1>2, <2>1
    <3>2. InGroup(v, K) BY <1>2, <2>1
    <3>3. QED BY <3>1, <3>2, OneGroup
  <2>2. Active(w) BY <1>2 DEF Active
  <2>3. /\ ~kind[L].disableWAL => /\ log # <<>> /\ log[Len(log)].batches = group[L].members
                                  /\ log[Len(log)].first = lastSeq + 1 /\ ~log[Len(log)].torn
        /\ kind[L].sync => synced = Len(log)
        /\ group[L].last = lastSeq + Len(group[L].members)
        /\ \A i \in 1 .. Len(group[L].members) : num[group[L].members[i]] = lastSeq + i
    BY <1>1, <1>2, <2>2 DEF Data, HandOK
  <2>4. QED BY <1>1, <2>1, <2>3 DEF HandOK
<1>7. ASSUME NEW v \in Writers \ {w} PROVE Stage(v)'
  <2>1. Stage(v) BY DEF Data, StageOK
  <2>2. pc'[v] = pc[v] /\ state'[v] = state[v] /\ status'[v] = status[v] BY <1>1
  <2>3. CASE InGroup(v, L)
    <3>1. \A K \in Writers : InGroup(v, K)' => K = L BY <1>2, <2>3, OneGroup
    <3>2. pc[v] \in {"await", "inserted", "finish"} BY <1>2, <2>3 DEF Inserts, Finished
    <3>3. status[v] # "incomplete"
      <4>1. state[v] # "completed"
        BY <1>2, <2>3 DEF Inserts, Finished, IInv, Shape, HeadOK
      <4>2. QED BY <2>1, <3>2, <4>1 DEF Stage
    <3>4. QED BY <1>1, <1>2, <2>2, <3>1, <3>2, <3>3 DEF Stage
  <2>4. CASE ~InGroup(v, L)
    <3>1. \A K \in Writers : InGroup(v, K)' => K # L BY <1>2, <2>4
    <3>2. QED BY <1>1, <2>1, <2>2, <3>1, StageStays
  <2>5. QED BY <2>3, <2>4
<1>8. KeptOK'
  <2>1. ASSUME NEW u \in Writers, Kept(u) PROVE Kept(u)'
    <3>1. synced \in Nat /\ Len(log) \in Nat /\ lastSeq \in Nat
      BY LogTypes DEF LogFacts, IInv, TypeOK
    <3>2. synced <= synced' /\ lastSeq <= lastSeq' /\ Len(log) <= Len(log') /\ num'[u] = num[u]
          /\ applied \subseteq applied' /\ disk \subseteq disk'
      BY <1>1, <3>1
    <3>3. QED BY <1>1, <2>1, <3>2, KeptKept
  <2>2. \A u \in Writers : ToldOK(u)' => ToldOK(u) BY <1>1 DEF ToldOK
  <2>3. ASSUME NEW v \in Writers, NEW K \in Writers, InGroup(v, K)', pc'[v] \in {"exit", "release"},
               group'[K].st = "ok", status'[v] = "ok"
        PROVE  /\ InGroup(v, K) /\ pc[v] \in {"exit", "release"} /\ group[K].st = "ok" /\ status[v] = "ok"
               /\ group'[K].members = group[K].members
               /\ \A u \in Writers : InGroup(u, K) => ~Active(u)
    <3>1. v # w BY <1>1, <2>3
    <3>2. InGroup(v, K) /\ pc[v] \in {"exit", "release"} /\ status[v] = "ok" BY <1>1, <1>2, <2>3, <3>1
    <3>3. \A u \in Writers : InGroup(u, K) => ~Active(u) BY <3>2, NobodyActiveInLeaving
    <3>4. QED BY <1>1, <2>3, <3>2, <3>3
  <2>4. mayBeLost \subseteq mayBeLost' BY <1>1
  <2>5. QED BY <2>1, <2>2, <2>3, <2>4, ToldStays DEF Data
<1>9. QED BY <1>3, <1>4, <1>5, <1>6, <1>7, <1>8

\* The last one publishes for the group,
LEMMA CompletesLast ==
  ASSUME IInv, IInv', Data, NEW w \in Writers, NEW L \in Writers, Completes(w, L),
         pc'[w] = "publish", status'[w] = IF group'[L].ok THEN "ok" ELSE "error"
  PROVE  Data'
<1>1. /\ pc[w] = "inserted" /\ state[w] = "parallel" /\ InGroup(w, L)
      /\ UNCHANGED <<kind, state, applied, stopped>>
      /\ \A v \in Writers \ {w} : pc'[v] = pc[v] /\ status'[v] = status[v]
      /\ \A K \in Writers : /\ group'[K].members = group[K].members /\ group'[K].st = group[K].st
                            /\ K # L => group'[K].ok = group[K].ok
      /\ group'[L].ok = (group[L].ok /\ status[w] = "ok")
  BY DEF Completes
<1>2. /\ \A v, K \in Writers : InGroup(v, K)' <=> InGroup(v, K)
      /\ \A v \in Writers \ {w} : /\ Inserts(v)' <=> Inserts(v)
                                  /\ Finished(v)' <=> Finished(v)
      /\ ~Finished(w) /\ Inserts(w) /\ ~Inserts(w)'
      /\ ~stopped /\ ~Doomed /\ group[L].st = "ok"
      /\ \A K \in Writers : InHand(K) \/ InGroup(w, K) => K = L
      /\ \A v \in Writers : pc[v] \notin {"sync", "insert", "publish"}
      /\ \A u \in Writers : InGroup(u, L) => Inserts(u) \/ Finished(u)
  BY CompletesOthers
<1>3. \A v \in Writers : ~Inserts(v)'
  <2>1. Late(w)' BY DEF Late
  <2>2. QED BY <2>1 DEF IInv, Shape, TokenOK
<1>4. Onward
  <2>1. CASE status'[w] = "error"
    <3>1. Doomed' BY <1>1, <1>2, <2>1 DEF Doomed
    <3>2. QED BY <3>1 DEF Onward
  <2>2. CASE status'[w] = "ok"
    <3>1. Active(w)' BY DEF Active
    <3>2. InHand(L)' BY <1>1, <1>2, <3>1 DEF InHand
    <3>3. QED BY <1>1, <1>2, <3>2 DEF Onward
  <2>3. QED BY <2>1, <2>2
<1>5. /\ RecordsOK' /\ FitOK' /\ HandOK' /\ NumOK' /\ SameOK' /\ WholeOK' /\ KeptOK'
      /\ \A v \in Writers \ {w} : Stage(v)'
  <2>1. TypeOK' BY DEF IInv
  <2>2. QED BY <1>4, <2>1, CompletesKeeps
<1>6. Stage(w)'
  <2>1. \A K \in Writers : InGroup(w, K)' => K = L BY <1>2
  <2>2. QED BY <1>1, <1>2, <1>3, <2>1 DEF Stage
<1>7. InsertOK'
  <2>1. \A v \in Writers : pc'[v] # "inserted" BY <1>3 DEF Inserts
  <2>2. ASSUME NEW v \in Writers, NEW K \in Writers, InGroup(v, K)', Finished(v)', group'[K].ok
        PROVE  v \in applied'
    <3>1. ~Finished(w)' BY DEF Finished
    <3>2. v # w /\ Finished(v) /\ InGroup(v, K) BY <1>2, <2>2, <3>1
    <3>3. group[K].ok BY <1>1, <2>2
    <3>4. QED BY <1>1, <3>2, <3>3 DEF Data, InsertOK
  <2>3. ASSUME NEW v \in Writers, NEW K \in Writers, InGroup(v, K)', pc'[v] = "publish",
               status'[v] = "ok", NEW u \in Writers, InGroup(u, K)'
        PROVE  u \in applied'
    <3>1. v = w BY <1>1, <1>2, <2>3
    <3>2. K = L /\ InGroup(u, L) BY <1>2, <2>3, <3>1
    <3>3. group[L].ok /\ status[w] = "ok" BY <1>1, <2>3, <3>1
    <3>4. CASE u = w BY <1>1, <3>3, <3>4 DEF Data, InsertOK
    <3>5. CASE u # w
      <4>1. Finished(u) BY <1>2, <1>3, <3>2, <3>5
      <4>2. QED BY <1>1, <3>2, <3>3, <4>1 DEF Data, InsertOK
    <3>6. QED BY <3>4, <3>5
  <2>4. QED BY <1>3, <2>1, <2>2, <2>3 DEF InsertOK
<1>8. StageOK' BY <1>5, <1>6 DEF StageOK
<1>9. QED BY <1>5, <1>7, <1>8 DEF Data

\* and the others wait to be told.
LEMMA CompletesMore ==
  ASSUME IInv, TypeOK', Data, NEW w \in Writers, NEW L \in Writers, Completes(w, L),
         pc'[w] = "finish", NEW x \in Writers, x # w, Inserts(x)
  PROVE  Data'
<1>1. /\ pc[w] = "inserted" /\ state[w] = "parallel" /\ InGroup(w, L)
      /\ UNCHANGED <<kind, state, applied, stopped>> /\ status'[w] # "incomplete"
      /\ \A v \in Writers \ {w} : pc'[v] = pc[v] /\ status'[v] = status[v]
      /\ \A K \in Writers : /\ group'[K].members = group[K].members /\ group'[K].st = group[K].st
                            /\ K # L => group'[K].ok = group[K].ok
      /\ group'[L].ok = (group[L].ok /\ status[w] = "ok")
  BY DEF Completes
<1>2. /\ \A v, K \in Writers : InGroup(v, K)' <=> InGroup(v, K)
      /\ \A v \in Writers \ {w} : /\ Inserts(v)' <=> Inserts(v)
                                  /\ Active(v)' <=> Active(v)
                                  /\ Finished(v)' <=> Finished(v)
      /\ ~Finished(w) /\ Inserts(w) /\ ~Inserts(w)'
      /\ ~stopped /\ ~Doomed /\ group[L].st = "ok"
      /\ \A K \in Writers : InHand(K) \/ InGroup(w, K) => K = L
      /\ \A v \in Writers : Active(v) => Inserts(v) /\ InGroup(v, L)
      /\ \A v \in Writers : pc[v] \notin {"sync", "insert", "publish"}
      /\ \A u \in Writers : InGroup(u, L) => Inserts(u) \/ Finished(u)
  BY CompletesOthers
<1>3. Finished(w)' BY <1>1 DEF Finished
<1>4. Onward
  <2>1. Active(x) BY DEF Active
  <2>2. Active(x)' /\ InGroup(x, L)' BY <1>2, <2>1
  <2>3. InHand(L)' BY <1>1, <1>2, <2>2 DEF InHand
  <2>4. QED BY <1>1, <1>2, <2>3 DEF Onward
<1>5. /\ RecordsOK' /\ FitOK' /\ HandOK' /\ NumOK' /\ SameOK' /\ WholeOK' /\ KeptOK'
      /\ \A v \in Writers \ {w} : Stage(v)'
  BY <1>4, CompletesKeeps
<1>6. Stage(w)'
  BY <1>1, <1>2 DEF Stage
<1>7. InsertOK'
  <2>1. \A v \in Writers : pc'[v] # "publish" BY <1>1, <1>2
  <2>2. ASSUME NEW v \in Writers, NEW K \in Writers, InGroup(v, K)', Finished(v)', group'[K].ok
        PROVE  v \in applied'
    <3>1. CASE v = w
      <4>1. K = L BY <1>2, <2>2, <3>1
      <4>2. status[w] = "ok" BY <1>1, <2>2, <4>1
      <4>3. QED BY <1>1, <3>1, <4>2 DEF Data, InsertOK
    <3>2. CASE v # w
      <4>1. Finished(v) /\ InGroup(v, K) BY <1>2, <2>2, <3>2
      <4>2. group[K].ok BY <1>1, <2>2
      <4>3. QED BY <1>1, <4>1, <4>2 DEF Data, InsertOK
    <3>3. QED BY <3>1, <3>2
  <2>3. \A v \in Writers : pc'[v] = "inserted" /\ status'[v] = "ok" => v \in applied'
    BY <1>1 DEF Data, InsertOK
  <2>4. \A v, K \in Writers : InGroup(v, K)' /\ Inserts(v)' =>
          \A u \in Writers : InGroup(u, K)' => (Inserts(u) \/ Finished(u))'
    BY <1>2, <1>3 DEF Data, InsertOK
  <2>5. QED BY <2>1, <2>2, <2>3, <2>4 DEF InsertOK
<1>8. StageOK' BY <1>5, <1>6 DEF StageOK
<1>9. QED BY <1>5, <1>7, <1>8 DEF Data

\* The last member to complete knows whether all batches are in the memtable.
LEMMA CompleteData ==
  ASSUME IInv, IInv', Data, NEW w \in Writers, Complete(w)
  PROVE  Data'
<1> USE DEF thread, store
<1>1. ThreadTypes /\ group \in [Writers -> GroupRecords] /\ status \in [Writers -> Statuses] /\ TypeOK'
  BY Types, Parts DEF IInv
<1>2. pc[w] = "inserted" /\ state[w] = "parallel" BY DEF Complete, IInv, Shape, HeadOK
<1>3. PICK L \in Writers : L = GroupOf(w) /\ InGroup(w, L) BY <1>2, GroupedWriters
<1>4. PICK ok \in BOOLEAN : ok = (group[L].ok /\ status[w] = "ok") OBVIOUS
<1>5. /\ group' = [group EXCEPT ![L].ok = ok, ![L].running = @ - 1]
      /\ UNCHANGED <<kind, state, log, synced, disk, applied, num, lastSeq, stopped, mayBeLost>>
      /\ LastOut(L) => /\ pc' = [pc EXCEPT ![w] = "publish"]
                       /\ status' = [status EXCEPT ![w] = IF ok THEN "ok" ELSE "error"]
      /\ ~LastOut(L) => pc' = [pc EXCEPT ![w] = "finish"] /\ status' = status
  BY <1>3, <1>4 DEF Complete
<1>6. /\ \A K \in Writers : /\ group'[K].members = group[K].members /\ group'[K].st = group[K].st
                            /\ group'[K].last = group[K].last
                            /\ K # L => group'[K].ok = group[K].ok
      /\ group'[L].ok = ok
  BY <1>1, <1>5 DEF GroupRecords
<1>7. CASE LastOut(L)
  <2>1. /\ pc'[w] = "publish" /\ status'[w] = IF ok THEN "ok" ELSE "error"
        /\ \A v \in Writers \ {w} : pc'[v] = pc[v] /\ status'[v] = status[v]
    BY <1>1, <1>5, <1>7 DEF ThreadTypes
  <2>2. Completes(w, L) BY <1>2, <1>3, <1>4, <1>5, <1>6, <2>1 DEF Completes
  <2>3. QED BY <1>6, <2>1, <2>2, CompletesLast
<1>8. CASE ~LastOut(L)
  <2>1. /\ pc'[w] = "finish" /\ status' = status
        /\ \A v \in Writers \ {w} : pc'[v] = pc[v] /\ status'[v] = status[v]
    BY <1>1, <1>5, <1>8 DEF ThreadTypes
  <2>2. status[w] # "incomplete" BY <1>2 DEF Data, StageOK, Stage
  <2>3. Completes(w, L) BY <1>2, <1>3, <1>4, <1>5, <1>6, <2>1, <2>2 DEF Completes
  <2>4. PICK x \in Writers : x # w /\ Inserts(x)
    <3>1. w \in Inserting BY <1>2 DEF Inserting
    <3>2. Active(w) BY <1>2 DEF Active, Inserts
    <3>3. L = queue[1] BY <1>3, <3>2, InHandFront
    <3>4. group[L].running = Cardinality(Inserting) BY <3>1, <3>3 DEF IInv, Shape, CountOK
    <3>5. Inserting # {w}
      <4>1. Cardinality({w}) = 1 BY FS_Singleton
      <4>2. group[L].running # 1 BY <1>8 DEF LastOut
      <4>3. QED BY <3>4, <4>1, <4>2
    <3>6. PICK x \in Inserting : x # w BY <3>1, <3>5
    <3>7. QED BY <3>6 DEF Inserting, Inserts
  <2>5. QED BY <1>1, <2>1, <2>3, <2>4, CompletesMore
<1>9. QED BY <1>7, <1>8

-----------------------------------------------------------------------------
(***************************************************************************)
(* Publishing.                                                             *)
(***************************************************************************)
\* A group that is published without an error: all of it is in the memtable,
\* and its record is whole.
Fine(w, L) == pc[w] = "publish" /\ InGroup(w, L) /\ group[L].st = "ok" /\ status[w] = "ok"

\* All of it is there under its numbers, and on the disk if the leader syncs.
LEMMA FineGroup ==
  ASSUME IInv, Data, NEW w \in Writers, NEW L \in Writers, Fine(w, L)
  PROVE  /\ \A u \in Writers : InGroup(u, L) => u \in applied
         /\ group[L].last = lastSeq + Len(group[L].members)
         /\ \A i \in 1 .. Len(group[L].members) : num[group[L].members[i]] = lastSeq + i
         /\ kind[L].sync => synced = Len(log)
         /\ ~kind[L].disableWAL => /\ Len(log) \in 1 .. Len(log)
                                   /\ log[Len(log)].batches = group[L].members
                                   /\ Whole(log[Len(log)])
<1>1. pc[w] = "publish" /\ InGroup(w, L) /\ group[L].st = "ok" /\ status[w] = "ok" BY DEF Fine
<1>2. Active(w) BY <1>1 DEF Active
<1>3. \A u \in Writers : InGroup(u, L) => u \in applied BY <1>1 DEF Data, InsertOK
<1>4. /\ ~kind[L].disableWAL => /\ log # <<>> /\ log[Len(log)].batches = group[L].members
                                /\ ~log[Len(log)].torn
      /\ kind[L].sync => synced = Len(log)
      /\ group[L].last = lastSeq + Len(group[L].members)
      /\ \A i \in 1 .. Len(group[L].members) : num[group[L].members[i]] = lastSeq + i
  BY <1>1, <1>2 DEF Data, HandOK
<1>5. ASSUME ~kind[L].disableWAL
      PROVE  Len(log) \in 1 .. Len(log) /\ Whole(log[Len(log)])
  <2>1. Len(log) \in 1 .. Len(log) BY <1>4, <1>5, LogTypes DEF LogFacts, IInv
  <2>2. ASSUME NEW j \in 1 .. Len(log[Len(log)].batches)
        PROVE  ~kind[log[Len(log)].batches[j]].broken
    <3>1. log[Len(log)].batches = group[L].members BY <1>4, <1>5
    <3>2. j \in 1 .. Len(group[L].members) BY <3>1
    <3>3. group[L].members[j] \in Writers BY <3>2, Types, QueueTypes DEF IInv
    <3>4. InGroup(group[L].members[j], L) BY <3>2 DEF InGroup
    <3>5. group[L].members[j] \in applied BY <1>3, <3>3, <3>4
    <3>6. QED BY <3>1, <3>5 DEF Data, SameOK
  <2>3. QED BY <1>4, <1>5, <2>1, <2>2, WholeRecord DEF IInv
<1>6. QED BY <1>3, <1>4, <1>5

\* What the last of a group publishes.
Publishes(w, L) ==
  /\ pc[w] = "publish" /\ InGroup(w, L) /\ pc'[w] = "exit"
  /\ \A v \in Writers \ {w} : pc'[v] = pc[v]
  /\ UNCHANGED <<kind, state, status, group, log, synced, disk, applied, num, mayBeLost>>
  /\ group[L].st = "ok" => lastSeq' = group[L].last
  /\ group[L].st # "ok" => lastSeq' = lastSeq
  /\ stopped' = (stopped \/ group[L].st = "error" \/ status[w] = "error")

\* Nothing is in hand any more, and the last sequence number has not gone back.
LEMMA Published ==
  ASSUME IInv, Data, NEW w \in Writers, NEW L \in Writers, Publishes(w, L)
  PROVE  /\ \A v \in Writers : Active(v) <=> v = w
         /\ \A v \in Writers : ~Active(v)' /\ ~Inserts(v) /\ ~Inserts(v)' /\ pc'[v] # "publish"
         /\ \A K \in Writers : ~InHand(K)'
         /\ \A K \in Writers : InHand(K) \/ InGroup(w, K) => K = L
         /\ (Doomed <=> stopped') /\ (Doomed' <=> stopped')
         /\ status[w] # "incomplete"
         /\ lastSeq \in Nat /\ lastSeq' \in Nat /\ lastSeq <= lastSeq'
<1>1. /\ pc[w] = "publish" /\ InGroup(w, L) /\ pc'[w] = "exit"
      /\ \A v \in Writers \ {w} : pc'[v] = pc[v]
      /\ state' = state /\ status' = status /\ group' = group
      /\ group[L].st = "ok" => lastSeq' = group[L].last
      /\ group[L].st # "ok" => lastSeq' = lastSeq
      /\ stopped' = (stopped \/ group[L].st = "error" \/ status[w] = "error")
  BY DEF Publishes
<1>2. \A v \in Writers : Active(v) <=> v = w BY <1>1, OnlyActive
<1>3. \A v \in Writers : ~Inserts(v) BY <1>1 DEF Late, IInv, Shape, TokenOK
<1>4. \A v \in Writers : ~Inserts(v)' /\ ~Active(v)' /\ pc'[v] # "publish"
  <2>1. ~Inserts(w)' /\ ~Active(w)' BY <1>1 DEF Inserts, Active
  <2>2. \A v \in Writers \ {w} : /\ Inserts(v)' <=> Inserts(v)
                                 /\ Active(v)' <=> Active(v)
    BY <1>1 DEF Active, Inserts
  <2>3. \A v \in Writers \ {w} : pc[v] # "publish" BY <1>2 DEF Active
  <2>4. QED BY <1>1, <1>2, <1>3, <2>1, <2>2, <2>3
<1>5. \A K \in Writers : ~InHand(K)' BY <1>4 DEF InHand
<1>6. \A K \in Writers : InGroup(w, K) => K = L BY <1>1, OneGroup
<1>7. \A K \in Writers : InHand(K) => K = L BY <1>2, <1>6 DEF InHand
<1>8. Doomed' <=> stopped' BY <1>4 DEF Doomed
<1>9. Doomed <=> stopped'
  <2>1. \A v \in Writers : pc[v] = "publish" => v = w BY <1>2 DEF Active
  <2>2. QED BY <1>1, <1>6, <2>1 DEF Doomed
<1>10. status[w] # "incomplete" BY <1>1 DEF Data, StageOK, Stage
<1>11. lastSeq \in Nat /\ lastSeq' \in Nat /\ lastSeq <= lastSeq'
  <2>1. lastSeq \in Nat /\ Len(group[L].members) \in Nat BY Parts DEF IInv
  <2>2. CASE group[L].st = "ok"
    <3>1. group[L].last = lastSeq + Len(group[L].members)
      BY <1>1, <1>2, <2>2 DEF Data, HandOK
    <3>2. lastSeq' = lastSeq + Len(group[L].members) BY <1>1, <2>2, <3>1
    <3>3. QED BY <2>1, <3>2
  <2>3. CASE group[L].st # "ok" BY <1>1, <2>1, <2>3
  <2>4. QED BY <2>2, <2>3
<1>12. QED BY <1>2, <1>3, <1>4, <1>5, <1>6, <1>7, <1>8, <1>9, <1>10, <1>11

\* The log agrees with the memtable, unless the database stops.
LEMMA PublishedSame ==
  ASSUME IInv, Data, NEW w \in Writers, NEW L \in Writers, Publishes(w, L)
  PROVE  NumOK' /\ SameOK' /\ WholeOK'
<1>1. /\ pc[w] = "publish" /\ InGroup(w, L)
      /\ UNCHANGED <<kind, group, log, disk, applied, num>>
      /\ group[L].st = "ok" => lastSeq' = group[L].last
      /\ group[L].st # "ok" => lastSeq' = lastSeq
      /\ stopped' = (stopped \/ group[L].st = "error" \/ status[w] = "error")
  BY DEF Publishes
<1>2. /\ \A K \in Writers : ~InHand(K)'
      /\ \A K \in Writers : InHand(K) \/ InGroup(w, K) => K = L
      /\ (Doomed <=> stopped') /\ (Doomed' <=> stopped')
      /\ status[w] # "incomplete"
      /\ lastSeq \in Nat /\ lastSeq' \in Nat /\ lastSeq <= lastSeq'
  BY Published
<1>3. status[w] \in Statuses /\ Len(group[L].members) \in Nat BY Parts DEF IInv
<1>4. ~Doomed' /\ InHand(L) => Fine(w, L)
  <2>1. ~Doomed' => status[w] = "ok" BY <1>1, <1>2, <1>3 DEF Statuses
  <2>2. InHand(L) => group[L].st = "ok" BY DEF InHand
  <2>3. QED BY <1>1, <2>1, <2>2 DEF Fine
<1>5. NumOK'
  <2>1. Found' = Found BY <1>1 DEF Found
  <2>2. \A u : LogNum(u)' = LogNum(u) BY <1>1, SameLog
  <2>3. ASSUME ~Doomed', NEW u \in Found PROVE LogNum(u) <= lastSeq'
    <3>1. LogNum(u) \in Nat BY LogNumType, FoundFacts DEF IInv
    <3>2. CASE LogNum(u) <= lastSeq BY <1>2, <3>1, <3>2
    <3>3. CASE Ahead(u)
      <4>1. InHand(L) /\ \E i \in 1 .. Len(group[L].members) : LogNum(u) = lastSeq + i
        BY <1>2, <3>3 DEF Ahead
      <4>2. Fine(w, L) BY <1>4, <2>3, <4>1
      <4>3. lastSeq' = lastSeq + Len(group[L].members) BY <1>1, <4>2, FineGroup DEF Fine
      <4>4. QED BY <1>2, <1>3, <4>1, <4>3
    <3>4. LogNum(u) <= lastSeq \/ Ahead(u) BY <1>2, <2>3 DEF Data, NumOK
    <3>5. QED BY <3>2, <3>3, <3>4
  <2>4. QED BY <2>1, <2>2, <2>3 DEF Data, NumOK
<1>6. SameOK'
  <2>1. \A u \in Writers : Logged(u)' <=> Logged(u) BY <1>1, SameLog
  <2>2. ASSUME ~Doomed', NEW u \in Writers, Logged(u)' PROVE u \in applied'
    <3>1. Logged(u) /\ ~Doomed BY <1>2, <2>1, <2>2
    <3>2. u \in applied \/ (InHand(L) /\ InGroup(u, L)) BY <1>2, <3>1 DEF Data, SameOK
    <3>3. QED BY <1>1, <1>4, <2>2, <3>2, FineGroup
  <2>3. applied \subseteq Writers BY DEF IInv, TypeOK
  <2>4. QED BY <1>1, <2>1, <2>2, <2>3 DEF Data, SameOK
<1>7. WholeOK'
  <2>1. \A i \in 1 .. Len(log) : Whole(log[i])' <=> Whole(log[i]) BY <1>1 DEF Whole
  <2>2. ASSUME ~Doomed', NEW i \in 1 .. Len(log), ~Whole(log[i]) PROVE FALSE
    <3>1. ~Doomed BY <1>2, <2>2
    <3>2. i = Len(log) /\ InHand(L) /\ log[i].batches = group[L].members
      BY <1>2, <2>2, <3>1 DEF Data, WholeOK
    <3>3. Fine(w, L) BY <1>4, <2>2, <3>2
    <3>4. ~kind[L].disableWAL
      <4>1. PICK K \in Writers : /\ log[i].batches = group[K].members /\ group[K].members # <<>>
                                 /\ ~kind[K].disableWAL
        BY DEF Data, RecordsOK
      <4>2. group[K].members[1] = K /\ group[L].members[1] = L
        BY <3>2, <4>1 DEF IInv, Shape, GroupsOK
      <4>3. QED BY <3>2, <4>1, <4>2
    <3>5. Whole(log[Len(log)]) BY <3>3, <3>4, FineGroup
    <3>6. QED BY <2>2, <3>2, <3>5
  <2>3. Doomed' => WholeOK'
    <3>1. ASSUME Doomed', NEW i \in 1 .. Len(log)
          PROVE  Whole(log[i])' \/ i = Len(log)
      BY <2>1 DEF Data, WholeOK
    <3>2. QED BY <1>1, <3>1 DEF WholeOK
  <2>4. ~Doomed' => WholeOK' BY <1>1, <2>1, <2>2 DEF WholeOK
  <2>5. QED BY <2>3, <2>4
<1>8. QED BY <1>5, <1>6, <1>7

\* What a group is about to be told is true.
LEMMA PublishedKept ==
  ASSUME IInv, TypeOK', Data, NEW w \in Writers, NEW L \in Writers, Publishes(w, L)
  PROVE  KeptOK'
<1>1. /\ pc[w] = "publish" /\ InGroup(w, L) /\ pc'[w] = "exit"
      /\ \A v \in Writers \ {w} : pc'[v] = pc[v]
      /\ UNCHANGED <<kind, state, status, group, log, synced, disk, applied, num, mayBeLost>>
      /\ group[L].st = "ok" => lastSeq' = group[L].last
  BY DEF Publishes
<1>2. /\ \A K \in Writers : InHand(K) \/ InGroup(w, K) => K = L
      /\ lastSeq \in Nat /\ lastSeq' \in Nat /\ lastSeq <= lastSeq'
  BY Published
<1>3. ASSUME NEW u \in Writers, Kept(u) PROVE Kept(u)'
  <2>1. synced \in Nat /\ Len(log) \in Nat BY LogTypes DEF LogFacts, IInv
  <2>2. synced <= synced' /\ Len(log) <= Len(log') BY <1>1, <2>1
  <2>3. QED BY <1>1, <1>2, <1>3, <2>2, KeptKept
<1>4. ASSUME NEW u \in Writers, ToldOK(u)' PROVE u \in mayBeLost' \/ Kept(u)'
  <2>1. ToldOK(u) BY <1>1, <1>4 DEF ToldOK
  <2>2. QED BY <1>1, <1>3, <2>1 DEF Data, KeptOK
<1>5. ASSUME Fine(w, L), NEW u \in Writers, InGroup(u, L) PROVE Kept(u)'
  <2>1. /\ u \in applied
        /\ group[L].last = lastSeq + Len(group[L].members)
        /\ \A i \in 1 .. Len(group[L].members) : num[group[L].members[i]] = lastSeq + i
        /\ kind[L].sync => synced = Len(log)
        /\ ~kind[L].disableWAL => /\ Len(log) \in 1 .. Len(log)
                                  /\ log[Len(log)].batches = group[L].members
                                  /\ Whole(log[Len(log)])
    BY <1>5, FineGroup
  <2>2. num'[u] <= lastSeq'
    <3>1. PICK i \in 1 .. Len(group[L].members) : group[L].members[i] = u BY <1>5 DEF InGroup
    <3>2. num[u] = lastSeq + i BY <2>1, <3>1
    <3>3. lastSeq' = lastSeq + Len(group[L].members) BY <1>1, <1>5, <2>1 DEF Fine
    <3>4. Len(group[L].members) \in Nat BY Parts DEF IInv
    <3>5. lastSeq + i <= lastSeq + Len(group[L].members) BY <1>2, <3>4
    <3>6. QED BY <1>1, <3>2, <3>3, <3>5
  <2>3. Durable(u)'
    <3>1. CASE kind[u].disableWAL BY <1>1, <3>1 DEF Durable
    <3>2. CASE ~kind[u].disableWAL
      <4>1. ~kind[L].disableWAL /\ (kind[u].sync => kind[L].sync)
        BY <1>5, <3>2 DEF Data, FitOK
      <4>2. u \in Range(log[Len(log)].batches)
        <5>1. PICK j \in 1 .. Len(group[L].members) : group[L].members[j] = u BY <1>5 DEF InGroup
        <5>2. QED BY <2>1, <4>1, <5>1, WholeRecord DEF IInv
      <4>3. Whole(log[Len(log)])' BY <1>1, <2>1, <4>1 DEF Whole
      <4>4. kind[u].sync => Len(log) <= synced
        <5>1. Len(log) \in Nat BY LogTypes DEF LogFacts, IInv
        <5>2. QED BY <2>1, <4>1, <5>1
      <4>5. PICK k \in 1 .. Len(log) : k = Len(log) BY <2>1, <4>1
      <4>6. k \in 1 .. Len(log') /\ u \in Range(log'[k].batches) /\ Whole(log[k])'
            /\ (kind'[u].sync => k <= synced')
        BY <1>1, <4>2, <4>3, <4>4, <4>5
      <4>7. QED BY <4>6 DEF Durable
    <3>3. QED BY <3>1, <3>2
  <2>4. QED BY <1>1, <2>1, <2>2, <2>3 DEF Kept
<1>6. ASSUME NEW v \in Writers, NEW K \in Writers, InGroup(v, K)', pc'[v] \in {"exit", "release"},
             group'[K].st = "ok", status'[v] = "ok", NEW u \in Writers, InGroup(u, K)'
      PROVE  Kept(u)'
  <2>1. InGroup(v, K) /\ InGroup(u, K) BY <1>1, <1>6 DEF InGroup
  <2>2. CASE v = w
    <3>1. K = L BY <1>2, <2>1, <2>2
    <3>2. Fine(w, L) BY <1>1, <1>6, <2>2, <3>1 DEF Fine
    <3>3. QED BY <1>5, <2>1, <3>1, <3>2
  <2>3. CASE v # w
    <3>1. pc[v] \in {"exit", "release"} /\ group[K].st = "ok" /\ status[v] = "ok" BY <1>1, <1>6, <2>3
    <3>2. Kept(u) BY <2>1, <3>1 DEF Data, KeptOK
    <3>3. QED BY <1>3, <3>2
  <2>4. QED BY <2>2, <2>3
<1>7. QED BY <1>4, <1>6 DEF KeptOK

\* Publishing moves the last sequence number over batches that are kept.
LEMMA PublishData ==
  ASSUME IInv, TypeOK', Data, NEW w \in Writers, Publish(w)
  PROVE  Data'
<1> USE DEF thread
<1>1. ThreadTypes BY Types DEF IInv
<1>2. PICK L \in Writers : L = GroupOf(w) /\ InGroup(w, L) BY GroupedWriters DEF Publish
<1>3. pc' = [pc EXCEPT ![w] = "exit"] BY DEF Publish
<1>4. pc'[w] = "exit" /\ \A v \in Writers \ {w} : pc'[v] = pc[v] BY <1>1, <1>3 DEF ThreadTypes
<1>5. Publishes(w, L) BY <1>2, <1>4 DEF Publish, Diverged, Publishes
<1>6. /\ pc[w] = "publish"
      /\ UNCHANGED <<kind, state, status, group, log, synced, disk, applied, num, mayBeLost>>
      /\ stopped' = (stopped \/ group[L].st = "error" \/ status[w] = "error")
  BY <1>5 DEF Publishes
<1>7. /\ \A v \in Writers : Active(v) <=> v = w
      /\ \A v \in Writers : ~Active(v)' /\ ~Inserts(v) /\ ~Inserts(v)' /\ pc'[v] # "publish"
      /\ \A K \in Writers : InHand(K) \/ InGroup(w, K) => K = L
      /\ status[w] # "incomplete"
  BY <1>5, Published
<1>8. \A v, K \in Writers : InGroup(v, K)' <=> InGroup(v, K) BY <1>6 DEF InGroup
<1>9. NumOK' /\ SameOK' /\ WholeOK' /\ KeptOK' BY <1>5, PublishedSame, PublishedKept
<1>10. RecordsOK'
  <2>1. \A K \in Writers : Past(K) => Past(K)' BY <1>4, <1>6 DEF Past, Leads, Waiting
  <2>2. QED BY <1>6, <2>1, RecordsKept DEF Data
<1>11. FitOK' BY <1>6, FitKept DEF Data, SameGroups
<1>12. HandOK' BY <1>7 DEF HandOK
<1>13. InsertOK'
  <2>1. \A v \in Writers : pc'[v] # "inserted" BY <1>7 DEF Inserts
  <2>2. \A v \in Writers : Finished(v)' => Finished(v) BY <1>4, <1>6 DEF Finished
  <2>3. QED BY <1>6, <1>7, <1>8, <2>1, <2>2 DEF Data, InsertOK
<1>14. StageOK'
  <2>1. Stage(w)'
    <3>1. Stage(w) BY DEF Data, StageOK
    <3>2. QED BY <1>4, <1>6, <1>7, <1>8, <3>1 DEF Stage
  <2>2. ASSUME NEW v \in Writers \ {w} PROVE Stage(v)'
    <3>1. ~Early(v) /\ ~Inserts(v) /\ pc[v] # "publish"
      <4>1. Late(w) BY <1>6 DEF Late
      <4>2. ~Early(v) BY <4>1, <2>2 DEF IInv, Shape, TokenOK
      <4>3. pc[v] # "publish" BY <1>7, <2>2 DEF Active
      <4>4. QED BY <1>7, <4>2, <4>3
    <3>2. pc'[v] = pc[v] /\ state'[v] = state[v] /\ status'[v] = status[v] BY <1>4, <1>6
    <3>3. QED BY <1>6, <3>1, <3>2, StageStays DEF Data, StageOK
  <2>3. QED BY <2>1, <2>2 DEF StageOK
<1>15. QED BY <1>9, <1>10, <1>11, <1>12, <1>13, <1>14 DEF Data

-----------------------------------------------------------------------------
(***************************************************************************)
(* Crash and replay.                                                       *)
(***************************************************************************)
LEMMA GreatestIsLast ==
  ASSUME NEW S, S \subseteq Nat, IsFiniteSet(S)
  PROVE  \A n \in S : n <= Greatest(S)
BY HasGreatest DEF Greatest

\* A replay finds batches of the log that are not broken, and all of those in
\* a record when that record and the ones before it are whole.
LEMMA ReplayedBatches ==
  ASSUME TypeOK, NEW n \in 0 .. Len(log)
  PROVE  /\ \A u \in Replayed(SubSeq(log, 1, n)) : u \in Writers /\ Logged(u) /\ ~kind[u].broken
         /\ \A i \in 1 .. n : \A u \in Range(log[i].batches) :
              (\A j \in 1 .. i : Whole(log[j])) => u \in Replayed(SubSeq(log, 1, n))
<1> DEFINE rs == SubSeq(log, 1, n)
<1>1. LogFacts /\ LogPlaces BY LogTypes, LoggedPlace
<1>2. log \in Seq(Records) /\ Len(log) \in Nat /\ n \in Nat /\ n <= Len(log) BY <1>1 DEF LogFacts
<1>3. /\ DOMAIN rs = 1 .. n
      /\ \A i \in 1 .. n : rs[i] = log[i] /\ i \in 1 .. Len(log) /\ i \in Nat
  <2>1. Len(rs) = n /\ DOMAIN rs = 1 .. Len(rs) BY <1>2
  <2>2. \A i \in 1 .. n : rs[i] = log[i] BY <1>2
  <2>3. \A i \in 1 .. n : i \in 1 .. Len(log) /\ i \in Nat BY <1>2
  <2>4. QED BY <2>1, <2>2, <2>3
<1> HIDE DEF rs
<1>4. \A i \in 1 .. n : /\ DOMAIN rs[i].batches = 1 .. Len(rs[i].batches)
                        /\ Len(rs[i].batches) \in Nat
                        /\ \A j \in 1 .. Len(rs[i].batches) : rs[i].batches[j] \in Writers
  BY <1>1, <1>3 DEF LogFacts
<1>5. ASSUME NEW u \in Replayed(rs) PROVE u \in Writers /\ Logged(u) /\ ~kind[u].broken
  <2>1. PICK i \in 1 .. n : u \in Readable(rs[i]) BY <1>3, <1>5 DEF Replayed
  <2>2. PICK j \in DOMAIN rs[i].batches :
          u = rs[i].batches[j] /\ \A k \in 1 .. j : ~kind[rs[i].batches[k]].broken
    BY <2>1 DEF Readable
  <2>3. j \in 1 .. Len(rs[i].batches) /\ j \in Nat /\ j \in 1 .. j BY <1>4, <2>2
  <2>4. u \in Writers /\ ~kind[u].broken BY <1>4, <2>2, <2>3
  <2>5. Place(u, i, j) BY <1>3, <2>2, <2>3 DEF Place
  <2>6. QED BY <1>1, <1>3, <2>3, <2>4, <2>5 DEF LogPlaces
<1>6. ASSUME NEW i \in 1 .. n, NEW u \in Range(log[i].batches), \A j \in 1 .. i : Whole(log[j])
      PROVE  u \in Replayed(rs)
  <2>1. PICK l \in DOMAIN rs[i].batches : u = rs[i].batches[l] BY <1>3 DEF Range
  <2>2. l \in 1 .. Len(rs[i].batches) /\ Len(rs[i].batches) \in Nat BY <1>4, <2>1
  <2>3. i \in 1 .. i /\ \A j \in 1 .. i - 1 : j \in 1 .. i /\ j \in 1 .. n BY <1>2
  <2>4. Whole(rs[i]) /\ \A j \in 1 .. i - 1 : Whole(rs[j]) BY <1>3, <1>6, <2>3
  <2>5. \A j \in 1 .. Len(rs[i].batches) : ~kind[rs[i].batches[j]].broken
    BY <1>4, <2>4 DEF Whole, Range
  <2>6. \A j \in 1 .. l : j \in 1 .. Len(rs[i].batches) BY <2>2
  <2>7. u \in Readable(rs[i]) BY <2>1, <2>5, <2>6 DEF Readable
  <2>8. ~rs[i].torn BY <2>4 DEF Whole
  <2>9. i \in {k \in DOMAIN rs : ~rs[k].torn /\ \A j \in 1 .. k - 1 : Whole(rs[j])}
    BY <1>3, <2>4, <2>8
  <2>10. QED BY <2>7, <2>9 DEF Replayed
<1>7. QED BY <1>5, <1>6 DEF rs

\* What is kept when the process ends.
LEMMA Restarted ==
  ASSUME IInv, Data, NEW of \in {"process", "machine"}, Restart(of)
  PROVE  /\ UNCHANGED <<kind, state, status, group>> /\ log' = <<>> /\ ~stopped'
         /\ applied' = disk' /\ applied' \subseteq Found
         /\ \A u \in applied' : ~kind[u].broken /\ num'[u] <= lastSeq'
         /\ \A u \in Writers : /\ num'[u] = LogNum(u)
                               /\ pc'[u] \in {"start", "done", "gone"}
                               /\ pc'[u] \in {"start", "done"} => pc'[u] = pc[u]
         /\ \A u \in Writers : Kept(u) /\ pc[u] # "start" => u \in mayBeLost' \/ u \in applied'
         /\ mayBeLost \subseteq mayBeLost'
<1>1. PICK n \in IF of = "process" THEN {Len(log)} ELSE synced .. Len(log) :
        LET kept == disk \cup Replayed(SubSeq(log, 1, n))
        IN /\ applied' = kept /\ disk' = kept
           /\ num' = [w \in Writers |-> LogNum(w)]
           /\ lastSeq' = Greatest({LogNum(w) : w \in kept})
  BY DEF Restart
<1>2. TypeOK /\ LogFacts /\ disk \subseteq applied /\ applied \subseteq Writers
  BY LogTypes DEF IInv, TypeOK
<1>3. /\ n \in 0 .. Len(log) /\ n \in Nat /\ n <= Len(log) /\ synced <= n
      /\ of = "process" => n = Len(log)
  BY <1>1, <1>2 DEF LogFacts
<1>4. PICK kept : kept = disk \cup Replayed(SubSeq(log, 1, n)) OBVIOUS
<1>5. /\ applied' = kept /\ disk' = kept
      /\ num' = [w \in Writers |-> LogNum(w)]
      /\ lastSeq' = Greatest({LogNum(w) : w \in kept})
  BY <1>1, <1>4
<1>6. /\ pc' = [w \in Writers |-> IF w \in InFlight THEN "gone" ELSE pc[w]]
      /\ mayBeLost' = mayBeLost \cup
           {w \in Writers : /\ pc[w] # "start" /\ w \notin disk /\ ~kind[w].sync
                            /\ of = "machine" \/ kind[w].disableWAL}
      /\ log' = <<>> /\ stopped' = FALSE
      /\ UNCHANGED <<kind, state, status, group>>
  BY DEF Restart, NewLog
<1>7. \A u \in Writers : /\ num'[u] = LogNum(u)
                         /\ pc'[u] \in {"start", "done", "gone"}
                         /\ pc'[u] \in {"start", "done"} => pc'[u] = pc[u]
  BY <1>5, <1>6 DEF InFlight
<1>8. /\ kept \subseteq Writers /\ kept \subseteq Found
      /\ \A u \in kept : ~kind[u].broken
  <2>1. \A u \in Replayed(SubSeq(log, 1, n)) : u \in Writers /\ Logged(u) /\ ~kind[u].broken
    BY <1>2, <1>3, ReplayedBatches
  <2>2. \A u \in disk : u \in Writers /\ u \in applied /\ ~kind[u].broken
    BY <1>2 DEF Data, SameOK
  <2>3. QED BY <1>2, <1>4, <2>1, <2>2, FoundFacts
<1>9. \A u \in kept : LogNum(u) <= lastSeq'
  <2> DEFINE T == {LogNum(w) : w \in kept}
             f == [w \in kept |-> LogNum(w)]
  <2>1. IsFiniteSet(kept) BY <1>8, WritersAssumption, FS_Subset
  <2>2. f \in [kept -> T] /\ DOMAIN f = kept /\ T = {f[w] : w \in kept} OBVIOUS
  <2>3. IsFiniteSet(T)
    <3> HIDE DEF T, f
    <3> QED BY <2>1, <2>2, FiniteImage
  <2>4. T \subseteq Nat
    <3>1. \A u \in kept : LogNum(u) \in Nat BY <1>2, <1>8, LogNumType
    <3>2. QED BY <3>1
  <2>5. \A u \in kept : LogNum(u) \in T OBVIOUS
  <2>6. lastSeq' = Greatest(T) BY <1>5
  <2> HIDE DEF T
  <2>7. \A m \in T : m <= Greatest(T) BY <2>3, <2>4, GreatestIsLast
  <2>8. QED BY <2>5, <2>6, <2>7
<1>10. ASSUME NEW u \in Writers, Kept(u), pc[u] # "start" PROVE u \in mayBeLost' \/ u \in kept
  <2>1. CASE u \in disk BY <1>4, <2>1
  <2>2. CASE u \notin disk /\ kind[u].disableWAL
    <3>1. ~kind[u].sync
      <4>1. kind[u] \in Kinds BY <1>2, KindTypes DEF TypeOK
      <4>2. QED BY <2>2, <4>1 DEF Kinds
    <3>2. QED BY <1>6, <1>10, <2>2, <3>1
  <2>3. CASE u \notin disk /\ ~kind[u].disableWAL
    <3>1. PICK i \in 1 .. Len(log) : /\ u \in Range(log[i].batches) /\ Whole(log[i])
                                     /\ kind[u].sync => i <= synced
      BY <1>10, <2>3 DEF Kept, Durable
    <3>2. CASE of = "machine" /\ ~kind[u].sync BY <1>6, <1>10, <2>3, <3>2
    <3>3. CASE of = "process" \/ kind[u].sync
      <4>0. Len(log) \in Nat /\ synced \in Nat /\ i \in Nat /\ i <= Len(log)
        BY <1>2 DEF LogFacts
      <4>1. i <= n
        <5>1. CASE of = "process" BY <1>3, <4>0, <5>1
        <5>2. CASE kind[u].sync
          <6>1. i <= synced /\ synced <= n BY <1>3, <3>1, <5>2
          <6>2. QED BY <1>3, <4>0, <6>1
        <5>3. QED BY <3>3, <5>1, <5>2
      <4>2. i \in 1 .. n BY <1>3, <4>1
      <4>3. \A j \in 1 .. i : j = i \/ (j # Len(log) /\ j \in 1 .. Len(log))
        BY <4>0
      <4>4. \A j \in 1 .. i : Whole(log[j]) BY <3>1, <4>3 DEF Data, WholeOK
      <4>5. u \in Replayed(SubSeq(log, 1, n)) BY <1>2, <1>3, <3>1, <4>2, <4>4, ReplayedBatches
      <4>6. QED BY <1>4, <4>5
    <3>4. QED BY <3>2, <3>3
  <2>4. QED BY <2>1, <2>2, <2>3
<1>11. \A u \in applied' : ~kind[u].broken /\ num'[u] <= lastSeq'
  <2>1. \A u \in kept : num'[u] = LogNum(u) BY <1>7, <1>8
  <2>2. QED BY <1>5, <1>8, <1>9, <2>1
<1>12. /\ applied' = disk' /\ applied' \subseteq Found
       /\ \A u \in Writers : Kept(u) /\ pc[u] # "start" => u \in mayBeLost' \/ u \in applied'
  BY <1>5, <1>8, <1>10
<1>13. QED BY <1>6, <1>7, <1>11, <1>12

\* What a replay brings back is all that was promised.
LEMMA RestartData ==
  ASSUME IInv, TypeOK', Data, NEW of \in {"process", "machine"}, Restart(of)
  PROVE  Data'
<1>1. /\ UNCHANGED <<kind, state, status, group>> /\ log' = <<>> /\ ~stopped'
      /\ applied' = disk' /\ applied' \subseteq Found
      /\ \A u \in applied' : ~kind[u].broken /\ num'[u] <= lastSeq'
      /\ \A u \in Writers : /\ num'[u] = LogNum(u)
                            /\ pc'[u] \in {"start", "done", "gone"}
                            /\ pc'[u] \in {"start", "done"} => pc'[u] = pc[u]
      /\ \A u \in Writers : Kept(u) /\ pc[u] # "start" => u \in mayBeLost' \/ u \in applied'
      /\ mayBeLost \subseteq mayBeLost'
  BY Restarted
<1>2. \A v \in Writers : /\ ~Active(v)' /\ ~Inserts(v)' /\ ~Finished(v)'
                         /\ pc'[v] \notin {"enter", "log", "sync", "insert", "inserted", "await",
                                           "finish", "publish", "exit", "release"}
  BY <1>1 DEF Active, Inserts, Finished
<1>3. Len(log') = 0 /\ 1 .. Len(log') = {} BY <1>1
<1>4. \A u : ~Logged(u)' BY <1>1 DEF Logged, Range
<1>5. RecordsOK' /\ WholeOK' BY <1>3 DEF RecordsOK, WholeOK
<1>6. FitOK' BY <1>1, FitKept DEF Data, SameGroups
<1>7. HandOK' BY <1>2 DEF HandOK
<1>8. InsertOK' BY <1>2 DEF InsertOK
<1>9. StageOK'
  <2>1. ASSUME NEW v \in Writers, status'[v] = "incomplete" PROVE pc'[v] \in {"done", "gone"}
    <3>1. pc[v] # "start" BY <1>1, <2>1 DEF Data, StageOK, Stage
    <3>2. QED BY <1>1, <3>1
  <2>2. ASSUME NEW v \in Writers PROVE Stage(v)'
    BY <1>2, <2>1 DEF Stage
  <2>3. QED BY <2>2 DEF StageOK
<1>10. NumOK'
  <2>1. Found' = applied' BY <1>4 DEF Found, Logged
  <2>2. \A u \in Found' : u \in Found /\ u \in Writers BY <1>1, <2>1, FoundFacts DEF IInv
  <2>3. \A u \in Found' : LogNum(u)' = LogNum(u)
    <3>1. \A u : LogNum(u)' = num'[u] BY <1>4 DEF LogNum
    <3>2. QED BY <1>1, <2>2, <3>1
  <2>4. \A u \in Found' : LogNum(u)' <= lastSeq' BY <1>1, <2>1, <2>2, <2>3
  <2>5. QED BY <2>2, <2>3, <2>4 DEF Data, NumOK
<1>11. SameOK'
  <2>1. \A u \in applied' : ~kind'[u].broken BY <1>1
  <2>2. applied' \ disk' = {} BY <1>1
  <2>3. QED BY <1>4, <2>1, <2>2 DEF SameOK
<1>12. KeptOK'
  <2>1. ASSUME NEW u \in Writers, ToldOK(u)' PROVE u \in mayBeLost' \/ Kept(u)'
    <3>1. pc'[u] = "done" /\ status'[u] = "ok" BY <1>2, <2>1 DEF ToldOK
    <3>2. pc[u] = "done" /\ status[u] = "ok" BY <1>1, <3>1
    <3>3. u \in mayBeLost \/ Kept(u) BY <3>2 DEF Data, KeptOK, ToldOK
    <3>4. u \in mayBeLost' \/ u \in applied' BY <1>1, <3>2, <3>3
    <3>5. u \in applied' => Kept(u)'
      <4>1. u \in applied' => u \in disk' /\ num'[u] <= lastSeq' BY <1>1
      <4>2. QED BY <4>1 DEF Kept, Durable
    <3>6. QED BY <3>4, <3>5
  <2>2. QED BY <1>2, <2>1 DEF KeptOK
<1>13. QED BY <1>5, <1>6, <1>7, <1>8, <1>9, <1>10, <1>11, <1>12 DEF Data

-----------------------------------------------------------------------------
(***************************************************************************)
(* The invariant holds.                                                    *)
(***************************************************************************)
LEMMA InitData ==
  Init => Data
<1> SUFFICES ASSUME Init PROVE Data OBVIOUS
<1>1. /\ pc = [w \in Writers |-> "start"] /\ status = [w \in Writers |-> "ok"]
      /\ group = [w \in Writers |-> NoGroup]
      /\ log = <<>> /\ disk = {} /\ applied = {} /\ stopped = FALSE
  BY DEF Init
<1>2. \A v \in Writers : /\ pc[v] = "start" /\ status[v] = "ok" /\ Len(group[v].members) = 0
  BY <1>1 DEF NoGroup
<1>3. \A v, L \in Writers : ~InGroup(v, L)
  <2>1. \A L \in Writers : 1 .. Len(group[L].members) = {} BY <1>2
  <2>2. QED BY <2>1 DEF InGroup
<1>4. 1 .. Len(log) = {} BY <1>1
<1>5. \A u : ~Logged(u) BY <1>1 DEF Logged, Range
<1>6. Found = {} BY <1>1, <1>5 DEF Found, Logged
<1>7. \A v \in Writers : ~Active(v) /\ ~Inserts(v) /\ ~Finished(v) /\ ~ToldOK(v)
  BY <1>2 DEF Active, Inserts, Finished, ToldOK
<1>8. RecordsOK /\ WholeOK BY <1>4 DEF RecordsOK, WholeOK
<1>9. FitOK /\ HandOK BY <1>3 DEF FitOK, HandOK
<1>10. StageOK
  <2>1. \A v \in Writers : Stage(v) BY <1>2, <1>3 DEF Stage
  <2>2. QED BY <2>1 DEF StageOK
<1>11. InsertOK BY <1>2, <1>3 DEF InsertOK
<1>12. NumOK BY <1>6 DEF NumOK
<1>13. SameOK BY <1>1, <1>5 DEF SameOK
<1>14. KeptOK BY <1>3, <1>7 DEF KeptOK
<1>15. QED BY <1>8, <1>9, <1>10, <1>11, <1>12, <1>13, <1>14 DEF Data

\* Nothing changes when nothing happens.
LEMMA StutterData ==
  ASSUME IInv, TypeOK', Data, UNCHANGED vars
  PROVE  Data'
<1> USE DEF vars, thread, store
<1>1. Quiet
  <2>1. \A u, L \in Writers : /\ Active(u)' <=> Active(u)
                              /\ Finished(u)' <=> Finished(u)
                              /\ Past(L)' <=> Past(L)
    BY DEF Active, Inserts, Finished, Past, Leads, Waiting
  <2>2. QED BY <2>1 DEF Quiet, SameGroups
<1>2. /\ RecordsOK' /\ FitOK' /\ HandOK' /\ InsertOK' /\ NumOK' /\ SameOK' /\ WholeOK'
      /\ \A u \in Writers : Kept(u) => Kept(u)'
  BY <1>1, QuietKeeps
<1>3. \A v, L \in Writers : InGroup(v, L)' <=> InGroup(v, L) BY DEF InGroup
<1>4. StageOK'
  <2>1. ASSUME NEW v \in Writers PROVE Stage(v)'
    <3>1. \A L \in Writers : Inserts(v)' <=> Inserts(v) BY DEF Inserts
    <3>2. QED BY <1>3, <3>1 DEF Data, StageOK, Stage, Inserts
  <2>2. QED BY <2>1 DEF StageOK
<1>5. KeptOK'
  <2>1. \A u \in Writers : ToldOK(u)' <=> ToldOK(u) BY DEF ToldOK
  <2>2. QED BY <1>2, <1>3, <2>1 DEF Data, KeptOK
<1>6. QED BY <1>2, <1>4, <1>5 DEF Data

\* The step of one writer.
LEMMA StepData ==
  ASSUME Uniform, IInv, IInv', Data, NEW w \in Writers, Join(w) \/ Step(w)
  PROVE  Data'
<1>0. TypeOK' BY DEF IInv
<1>1. CASE Join(w) BY <1>0, <1>1, JoinData
<1>2. CASE Preprocess(w) \/ Refuse(w) \/ BeginStall(w) \/ EndStall(w) BY <1>0, <1>2, LeaderData
<1>3. CASE Enter(w) BY <1>0, <1>3, EnterData
<1>4. CASE AppendRecord(w) \/ AppendFails(w) BY <1>4, AppendData
<1>5. CASE Sync(w) \/ SyncFails(w) BY <1>0, <1>5, SyncData
<1>6. CASE InsertAlone(w) BY <1>0, <1>6, InsertAloneData
<1>7. CASE Launch(w) BY <1>0, <1>7, LaunchData
<1>8. CASE InsertOwn(w) BY <1>0, <1>8, InsertOwnData
<1>9. CASE Complete(w) BY <1>9, CompleteData
<1>10. CASE Publish(w) BY <1>0, <1>10, PublishData
<1>11. CASE Handoff(w) BY <1>0, <1>11, HandoffData
<1>12. CASE Release(w) BY <1>0, <1>12, ReleaseData
<1>13. CASE Leave(w) BY <1>0, <1>13, LeaveData
<1>14. CASE Return(w) BY <1>0, <1>14, ReturnData
<1>15. QED
  BY <1>1, <1>2, <1>3, <1>4, <1>5, <1>6, <1>7, <1>8, <1>9, <1>10, <1>11, <1>12, <1>13, <1>14 DEF Step

\* Every step keeps the invariant.
LEMMA NextData ==
  ASSUME Uniform, IInv, IInv', Data, [Next]_vars
  PROVE  Data'
<1>0. TypeOK' BY DEF IInv
<1>1. CASE \E w \in Writers : Join(w) \/ Step(w) BY <1>1, StepData
<1>2. CASE Crash
  <2>1. PICK of \in {"process", "machine"} : Restart(of) BY <1>2 DEF Crash
  <2>2. QED BY <1>0, <2>1, RestartData
<1>3. CASE Abort
  <2>1. Restart("process") BY <1>3 DEF Abort
  <2>2. QED BY <1>0, <2>1, RestartData
<1>4. CASE UNCHANGED vars BY <1>0, <1>4, StutterData
<1>5. QED BY <1>1, <1>2, <1>3, <1>4 DEF Next

\* The inductive invariant holds: what every group in hand has done so far, and
\* what the log, the memtable and the numbers have in common meanwhile.
THEOREM DataInvariance ==
  ASSUME Uniform
  PROVE  Spec => []Data
<1>1. Init => Data BY InitData
<1>2. IInv /\ IInv' /\ Data /\ [Next]_vars => Data' BY NextData
<1>3. QED BY <1>1, <1>2, Invariance, PTL DEF Spec

\* No two batches that a read or a replay of the log can find have the same
\* sequence number, whatever failed to be appended or synced, and however often
\* the database was opened again.
THEOREM NumbersStayUnique ==
  ASSUME Uniform
  PROVE  Spec => []NumbersUnique
<1>1. Data => NumbersUnique BY DEF Data, NumOK, NumbersUnique
<1>2. QED BY <1>1, DataInvariance, PTL

\* Between groups, the log and the memtable hold the same batches, or else the
\* database takes no more writes: WriteStatusCheck and MemTableInsertStatusCheck
\* stop it whenever one of a group is in one of the two only.
THEOREM DivergenceIsStopped ==
  ASSUME Uniform
  PROVE  Spec => []DivergenceStops
<1>1. ASSUME IInv, Data, Holding \cup Inserting = {}, ~stopped
      PROVE  /\ \A w \in Writers : Logged(w) => w \in applied
             /\ \A w \in applied \ disk : Logged(w) \/ kind[w].disableWAL
  <2>1. \A v \in Writers : v \notin Holding /\ v \notin Inserting BY <1>1
  <2>2. \A v \in Writers : ~Active(v) /\ pc[v] # "publish"
    BY <2>1 DEF Holding, Inserting, Active, Inserts
  <2>3. ~Doomed BY <1>1, <2>2 DEF Doomed
  <2>4. \A L \in Writers : ~InHand(L) BY <2>2 DEF InHand
  <2>5. QED BY <1>1, <2>3, <2>4 DEF Data, SameOK
<1>2. IInv /\ Data => DivergenceStops BY <1>1 DEF DivergenceStops
<1>3. QED BY <1>2, Invariance, DataInvariance, PTL

\* A write that returned OK can be read from then on, and still after a crash:
\* of the process, unless it bypassed the log; of the machine, if it was synced.
THEOREM OkStays ==
  ASSUME Uniform
  PROVE  Spec => []OkIsKept
<1>1. Data => OkIsKept BY DEF Data, KeptOK, ToldOK, Kept, OkIsKept
<1>2. QED BY <1>1, DataInvariance, PTL
=============================================================================
