----------------------------- MODULE WriteThread -----------------------------
(***************************************************************************)
(* Concurrent writers of one database: WriteThread (db/write_thread.cc)    *)
(* and DBImpl::WriteImpl, with the log they append to, the memtable, and   *)
(* the replay of the log by DBImpl::RecoverLogFiles after a crash.         *)
(*                                                                         *)
(* A writer is a thread inside db->Write: the JavaScript thread or a       *)
(* thread of the pool.  It writes one batch, so a writer stands for its    *)
(* batch too.  The leader of the queue writes for a group of those behind  *)
(* it; the members of a group of two or more insert their own batches.     *)
(***************************************************************************)
EXTENDS Naturals, Sequences, FiniteSets, SequencesExt

CONSTANTS
  Writers, None,
  Mixes,       \* what the writers write: [Writers -> Kinds]
  Careful,     \* TRUE when the program mixes no_slowdown with patient writes
               \* only two at a time
  MaxStalls,   \* bound: write stalls
  MaxFails,    \* bound: appends and syncs that fail
  MaxCrashes   \* bound: crashes, not counting aborts

\* WriteImpl refuses sync with disableWAL (80).  A broken batch cannot be
\* inserted into a memtable, nor its copy in the log.
Kinds == {k \in [sync : BOOLEAN, noSlowdown : BOOLEAN, disableWAL : BOOLEAN, broken : BOOLEAN] :
            ~(k.sync /\ k.disableWAL)}

ASSUME WritersAssumption == IsFiniteSet(Writers) /\ None \notin Writers
ASSUME MixesAssumption == Mixes \subseteq [Writers -> Kinds]
ASSUME BoundsAssumption == /\ MaxStalls \in Nat /\ MaxFails \in Nat /\ MaxCrashes \in Nat
                           /\ Careful \in BOOLEAN

VARIABLES
  kind,        \* what each writer writes
  queue,       \* the writers from newest_writer_ along link_older, oldest first
  stalled,     \* newest_writer_ is write_stall_dummy_
  newer,       \* Writer::link_newer
  state,       \* Writer::state
  status,      \* Writer::status; once it has returned, what it returned
  pc,          \* where each writer is
  group,       \* the WriteGroup of a leader and its local status
  log,         \* the records of the log
  synced,      \* how many of them are on the disk
  disk,        \* batches in files of the database
  applied,     \* batches a read can find once they are published
  num,         \* the sequence number of each batch, one for each
  lastSeq,     \* VersionSet::LastSequence
  stopped,     \* the error handler has stopped the database (IsDBStopped)
  mayBeLost,   \* batches no promise protects from the crashes so far
  bounds       \* stalls, failures and crashes so far

thread == <<queue, stalled, newer>>
store == <<disk, applied, num, lastSeq, stopped, mayBeLost>>
vars == <<kind, thread, state, status, pc, group, log, synced, store, bounds>>

NoGroup == [members |-> <<>>, st |-> "ok", running |-> 0, ok |-> TRUE, last |-> 0, left |-> 0]
Statuses == {"ok", "incomplete", "error"}

Members(L) == Range(group[L].members)
\* Writer::write_group.
GroupOf(w) == CHOOSE L \in Writers : w \in Members(L)
Bump(b) == bounds' = [bounds EXCEPT ![b] = @ + 1]

Init ==
  /\ kind \in Mixes
  /\ queue = <<>> /\ stalled = FALSE /\ newer = [w \in Writers |-> None]
  /\ state = [w \in Writers |-> "init"] /\ status = [w \in Writers |-> "ok"]
  /\ pc = [w \in Writers |-> "start"] /\ group = [w \in Writers |-> NoGroup]
  /\ log = <<>> /\ synced = 0 /\ disk = {} /\ applied = {}
  /\ num = [w \in Writers |-> 0] /\ lastSeq = 0
  /\ stopped = FALSE /\ mayBeLost = {}
  /\ bounds = [stalls |-> 0, fails |-> 0, crashes |-> 0]
-----------------------------------------------------------------------------
(***************************************************************************)
(* Joining.                                                                *)
(***************************************************************************)
InFlight == {w \in Writers : pc[w] \notin {"start", "done", "gone"}}
Mixed == \E v, w \in Writers : kind[v].noSlowdown # kind[w].noSlowdown

\* JoinBatchGroup, LinkOne.  During a stall a no_slowdown writer is turned
\* away and the others wait here until it ends.
Join(w) ==
  /\ pc[w] = "start"
  /\ Careful /\ Mixed => Cardinality(InFlight) < 2
  /\ stalled => kind[w].noSlowdown
  /\ pc' = [pc EXCEPT ![w] = "await"]
  /\ IF stalled
     THEN /\ status' = [status EXCEPT ![w] = "incomplete"]
          /\ state' = [state EXCEPT ![w] = "completed"]
          /\ UNCHANGED queue
     ELSE /\ queue' = Append(queue, w)
          /\ state' = [state EXCEPT ![w] = IF queue = <<>> THEN "leader" ELSE @]
          /\ UNCHANGED status
  /\ UNCHANGED <<kind, stalled, newer, group, log, synced, store, bounds>>

Leads(w) == pc[w] = "await" /\ state[w] = "leader"

\* PreprocessWrite lets the leader through, or has an error for it.
Preprocess(w) ==
  /\ Leads(w)
  /\ pc' = [pc EXCEPT ![w] = "enter"]
  /\ group' = [group EXCEPT ![w].st = IF stopped THEN "error" ELSE "ok"]
  /\ UNCHANGED <<kind, thread, state, status, log, synced, store, bounds>>

\* DelayWrite, for a leader that does not want to wait.
Refuse(w) ==
  /\ Leads(w) /\ ~stopped /\ kind[w].noSlowdown /\ bounds.stalls < MaxStalls
  /\ pc' = [pc EXCEPT ![w] = "enter"]
  /\ group' = [group EXCEPT ![w].st = "incomplete"]
  /\ Bump("stalls")
  /\ UNCHANGED <<kind, thread, state, status, log, synced, store>>

\* DelayWrite, BeginWriteStall: the waiting no_slowdown writers are unlinked
\* from link_older, whatever link_newer says, and told to go.
BeginStall(w) ==
  LET out == {v \in Range(queue) : kind[v].noSlowdown}
  IN /\ Leads(w) /\ ~stopped /\ ~kind[w].noSlowdown /\ bounds.stalls < MaxStalls
     /\ pc' = [pc EXCEPT ![w] = "stall"]
     /\ stalled' = TRUE
     /\ queue' = IF out = {} THEN queue ELSE SelectSeq(queue, LAMBDA v : v \notin out)
     /\ status' = [v \in Writers |-> IF v \in out THEN "incomplete" ELSE status[v]]
     /\ state' = [v \in Writers |-> IF v \in out THEN "completed" ELSE state[v]]
     /\ Bump("stalls")
     /\ UNCHANGED <<kind, newer, group, log, synced, store>>

\* EndWriteStall; DelayWrite looks again.
EndStall(w) ==
  /\ pc[w] = "stall"
  /\ pc' = [pc EXCEPT ![w] = "await"]
  /\ stalled' = FALSE
  /\ UNCHANGED <<kind, queue, newer, state, status, group, log, synced, store, bounds>>
-----------------------------------------------------------------------------
(***************************************************************************)
(* The links to newer writers, and the group.                              *)
(***************************************************************************)
\* CreateMissingNewerLinks walks from the newest writer to the first one that
\* is linked already.
Linked == {i \in 1 .. Len(queue) - 1 : newer[queue[i]] # None}
FirstMissing == IF Linked = {} THEN 1 ELSE 1 + CHOOSE i \in Linked : \A j \in Linked : j <= i

\* Mutant: the walk moves on before it links, so each is linked to itself.
WithLateLinks == [w \in Writers |->
  IF \E i \in FirstMissing .. Len(queue) - 1 : queue[i] = w THEN w ELSE newer[w]]

\* From there on each writer is linked to the next.
WithMissing == [w \in Writers |->
  IF \E i \in FirstMissing .. Len(queue) - 1 : queue[i] = w
  THEN LET i == CHOOSE i \in FirstMissing .. Len(queue) - 1 : queue[i] = w IN queue[i + 1]
  ELSE newer[w]]

\* The assertion it stops at: the link found is the one it would have made.
LinksAgree == FirstMissing > 1 => newer[queue[FirstMissing - 1]] = queue[FirstMissing]

\* Mutant: a synced write may join.
FitsUnsynced(w, L) ==
  /\ kind[w].noSlowdown = kind[L].noSlowdown
  /\ ~kind[w].disableWAL => ~kind[L].disableWAL

\* May join a group of the leader L.
Fits(w, L) ==
  /\ kind[w].sync => kind[L].sync
  /\ kind[w].noSlowdown = kind[L].noSlowdown
  /\ ~kind[w].disableWAL => ~kind[L].disableWAL

\* EnterAsBatchGroupLeader: those behind the leader up to the first that does
\* not fit, or until the group is too large.
Enter(w) ==
  /\ pc[w] = "enter" /\ LinksAgree
  /\ newer' = WithMissing
  /\ \E n \in 1 .. Len(queue) :
       /\ \A i \in 2 .. n : Fits(queue[i], w)
       /\ group' = [group EXCEPT ![w].members = SubSeq(queue, 1, n)]
  /\ pc' = [pc EXCEPT ![w] = IF group[w].st # "ok" THEN "publish"
                             ELSE IF kind[w].disableWAL THEN "insert" ELSE "log"]
  /\ UNCHANGED <<kind, queue, stalled, state, status, log, synced, store, bounds>>
-----------------------------------------------------------------------------
(***************************************************************************)
(* The log, the memtable and the last sequence number.                     *)
(***************************************************************************)
\* WriteToWAL: one record for the group.  When it fails, the record may be
\* readable all the same, or torn.
AppendRecord(w) ==
  /\ pc[w] = "log"
  /\ log' = Append(log, [batches |-> group[w].members, first |-> lastSeq + 1, torn |-> FALSE])
  /\ pc' = [pc EXCEPT ![w] = IF kind[w].sync THEN "sync" ELSE "insert"]
  /\ UNCHANGED <<kind, thread, state, status, group, synced, store, bounds>>

AppendFails(w) ==
  /\ pc[w] = "log" /\ bounds.fails < MaxFails
  /\ \E torn \in BOOLEAN :
       log' = Append(log, [batches |-> group[w].members, first |-> lastSeq + 1, torn |-> torn])
  /\ group' = [group EXCEPT ![w].st = "error"]
  /\ pc' = [pc EXCEPT ![w] = "publish"]
  /\ Bump("fails")
  /\ UNCHANGED <<kind, thread, state, status, synced, store>>

Sync(w) ==
  /\ pc[w] = "sync"
  /\ synced' = Len(log)
  /\ pc' = [pc EXCEPT ![w] = "insert"]
  /\ UNCHANGED <<kind, thread, state, status, group, log, store, bounds>>

SyncFails(w) ==
  /\ pc[w] = "sync" /\ bounds.fails < MaxFails
  /\ group' = [group EXCEPT ![w].st = "error"]
  /\ pc' = [pc EXCEPT ![w] = "publish"]
  /\ Bump("fails")
  /\ UNCHANGED <<kind, thread, state, status, log, synced, store>>

\* The numbers of the group's batches, in its order.
Numbered(L) == [w \in Writers |->
  IF w \in Members(L)
  THEN lastSeq + CHOOSE i \in DOMAIN group[L].members : group[L].members[i] = w
  ELSE num[w]]

\* A batch goes into the memtable, unless it is broken.
InsertBatch(w) ==
  IF kind[w].broken THEN status' = [status EXCEPT ![w] = "error"] /\ UNCHANGED applied
  ELSE applied' = applied \cup {w} /\ UNCHANGED status

\* InsertInto for a leader on its own.
InsertAlone(w) ==
  /\ pc[w] = "insert" /\ Len(group[w].members) = 1
  /\ num' = Numbered(w)
  /\ InsertBatch(w)
  /\ group' = [group EXCEPT ![w].last = lastSeq + 1]
  /\ pc' = [pc EXCEPT ![w] = "publish"]
  /\ UNCHANGED <<kind, thread, state, log, synced, disk, lastSeq, stopped, mayBeLost, bounds>>

\* LaunchParallelMemTableWriters.  None of the members can leave before the
\* last of them has been told.
Launch(w) ==
  LET size == Len(group[w].members)
  IN /\ pc[w] = "insert" /\ size > 1
     /\ num' = Numbered(w)
     /\ group' = [group EXCEPT ![w].running = size, ![w].last = lastSeq + size]
     /\ state' = [v \in Writers |-> IF v \in Members(w) THEN "parallel" ELSE state[v]]
     /\ pc' = [pc EXCEPT ![w] = "await"]
     /\ UNCHANGED <<kind, thread, status, log, synced, disk, applied, lastSeq, stopped,
                    mayBeLost, bounds>>

\* A member of the group, the leader included, inserts its batch.
InsertOwn(w) ==
  /\ pc[w] = "await" /\ state[w] = "parallel"
  /\ InsertBatch(w)
  /\ pc' = [pc EXCEPT ![w] = "inserted"]
  /\ UNCHANGED <<kind, thread, state, group, log, synced, disk, num, lastSeq, stopped,
                 mayBeLost, bounds>>

\* Mutant: every member thinks it is the last.
AnyOut(L) == TRUE

LastOut(L) == group[L].running = 1

\* CompleteParallelMemTableWriter: the last one has exit duties.
Complete(w) ==
  LET L == GroupOf(w)
      ok == group[L].ok /\ status[w] = "ok"
  IN /\ pc[w] = "inserted"
     /\ group' = [group EXCEPT ![L].ok = ok, ![L].running = @ - 1]
     /\ IF LastOut(L)
        THEN /\ pc' = [pc EXCEPT ![w] = "publish"]
             /\ status' = [status EXCEPT ![w] = IF ok THEN "ok" ELSE "error"]
        ELSE pc' = [pc EXCEPT ![w] = "finish"] /\ UNCHANGED status
     /\ UNCHANGED <<kind, thread, state, log, synced, store, bounds>>

\* Mutants: one of the two checks is missing.
DivergedInLog(L, w) == group[L].st = "error"
DivergedInMemtable(L, w) == status[w] = "error"

\* WriteStatusCheck and MemTableInsertStatusCheck stop the database.
Diverged(L, w) == group[L].st = "error" \/ status[w] = "error"

\* SetLastSequence between the two checks.
Publish(w) ==
  LET L == GroupOf(w)
  IN /\ pc[w] = "publish"
     /\ lastSeq' = IF group[L].st = "ok" THEN group[L].last ELSE lastSeq
     /\ stopped' = (stopped \/ Diverged(L, w))
     /\ pc' = [pc EXCEPT ![w] = "exit"]
     /\ UNCHANGED <<kind, thread, state, status, group, log, synced, disk, applied, num,
                    mayBeLost, bounds>>
-----------------------------------------------------------------------------
(***************************************************************************)
(* Leaving: ExitAsBatchGroupLeader, which the last follower of a parallel  *)
(* group runs in ExitAsBatchGroupFollower.                                 *)
(***************************************************************************)
\* ExitAsBatchGroupFollower asserts that the group has no error, and the
\* module is built with assertions: the process ends.
Asserts(w) == GroupOf(w) # w => group[GroupOf(w)].ok

\* The queue is left to the writer behind the group, if there is one.
Handoff(w) ==
  LET L == GroupOf(w)
      size == Len(group[L].members)
      next == WithMissing[group[L].members[size]]
  IN /\ pc[w] = "exit" /\ Asserts(w)
     /\ IF Len(queue) = size
        THEN queue' = <<>> /\ UNCHANGED <<newer, state>>
        ELSE /\ LinksAgree
             /\ newer' = WithMissing
             /\ queue' = SubSeq(queue, size + 1, Len(queue))
             /\ state' = [state EXCEPT ![next] = "leader"]
     /\ group' = [group EXCEPT ![L].left = size]
     /\ pc' = [pc EXCEPT ![w] = "release"]
     /\ UNCHANGED <<kind, stalled, status, log, synced, store, bounds>>

\* What the followers are told, and what the leader returns.
GroupStatus(L) == IF group[L].st = "ok" /\ ~group[L].ok THEN "error" ELSE group[L].st
LeaderStatus(L) == IF group[L].st = "ok" THEN status[L] ELSE group[L].st

\* The followers, from the newest on.
Release(w) ==
  LET L == GroupOf(w)
      v == group[L].members[group[L].left]
  IN /\ pc[w] = "release" /\ group[L].left > 1
     /\ status' = [status EXCEPT ![v] = GroupStatus(L)]
     /\ state' = [state EXCEPT ![v] = "completed"]
     /\ group' = [group EXCEPT ![L].left = @ - 1]
     /\ UNCHANGED <<kind, thread, pc, log, synced, store, bounds>>

\* Mutant: a follower with exit duties forgets the leader.
LeaveQuietly(w) ==
  LET L == GroupOf(w)
  IN /\ pc[w] = "release" /\ group[L].left = 1
     /\ pc' = [pc EXCEPT ![w] = "done"]
     /\ IF w = L THEN status' = [status EXCEPT ![w] = LeaderStatus(w)] /\ UNCHANGED state
        ELSE UNCHANGED <<state, status>>
     /\ UNCHANGED <<kind, thread, group, log, synced, store, bounds>>

\* The leader returns by itself; a follower tells it to and returns.
Leave(w) ==
  LET L == GroupOf(w)
  IN /\ pc[w] = "release" /\ group[L].left = 1
     /\ pc' = [pc EXCEPT ![w] = "done"]
     /\ IF w = L THEN status' = [status EXCEPT ![w] = LeaderStatus(w)] /\ UNCHANGED state
        ELSE state' = [state EXCEPT ![L] = "completed"] /\ UNCHANGED status
     /\ UNCHANGED <<kind, thread, group, log, synced, store, bounds>>

\* Mutant: a member returns once its own insertion is counted.
ReturnEarly(w) ==
  /\ pc[w] = "finish" \/ (pc[w] = "await" /\ state[w] = "completed")
  /\ pc' = [pc EXCEPT ![w] = "done"]
  /\ UNCHANGED <<kind, thread, state, status, group, log, synced, store, bounds>>

\* A writer somebody else completed returns.
Return(w) ==
  /\ pc[w] \in {"await", "finish"} /\ state[w] = "completed"
  /\ pc' = [pc EXCEPT ![w] = "done"]
  /\ UNCHANGED <<kind, thread, state, status, group, log, synced, store, bounds>>
-----------------------------------------------------------------------------
(***************************************************************************)
(* Crash and replay.                                                       *)
(***************************************************************************)
\* The batches of a record before its first broken one.
Readable(r) == {r.batches[i] : i \in {i \in DOMAIN r.batches :
                                        \A j \in 1 .. i : ~kind[r.batches[j]].broken}}
Whole(r) == ~r.torn /\ \A w \in Range(r.batches) : ~kind[w].broken

\* RecoverLogFiles, kPointInTimeRecovery: up to a record it cannot read, or
\* cannot insert as a whole.
Replayed(records) == UNION {Readable(records[i]) : i \in {i \in DOMAIN records :
  ~records[i].torn /\ \A j \in 1 .. i - 1 : Whole(records[j])}}

Greatest(S) == IF S = {} THEN 0 ELSE CHOOSE n \in S : \A m \in S : m <= n

\* The number a batch has in the log.
Logged(w) == \E r \in Range(log) : w \in Range(r.batches)
LogNum(w) ==
  IF ~Logged(w) THEN num[w]
  ELSE LET r == CHOOSE r \in Range(log) : w \in Range(r.batches)
       IN r.first - 1 + CHOOSE i \in DOMAIN r.batches : r.batches[i] = w

\* Mutant: what was synced is not counted from the new log.
NewLogOldMark == log' = <<>> /\ UNCHANGED synced

NewLog == log' = <<>> /\ synced' = 0

\* The process ends and the database is opened again.  What it had written to
\* the log is there when only the process ended, and the part that was synced
\* when the machine did.  The replayed batches are flushed to files.
Restart(of) ==
  \E n \in IF of = "process" THEN {Len(log)} ELSE synced .. Len(log) :
    LET kept == disk \cup Replayed(SubSeq(log, 1, n))
    IN /\ applied' = kept /\ disk' = kept
       /\ num' = [w \in Writers |-> LogNum(w)]
       /\ lastSeq' = Greatest({LogNum(w) : w \in kept})
       /\ NewLog /\ stopped' = FALSE
       /\ queue' = <<>> /\ stalled' = FALSE /\ newer' = [w \in Writers |-> None]
       /\ pc' = [w \in Writers |-> IF w \in InFlight THEN "gone" ELSE pc[w]]
       /\ mayBeLost' = mayBeLost \cup
            {w \in Writers : /\ pc[w] # "start" /\ w \notin disk /\ ~kind[w].sync
                             /\ of = "machine" \/ kind[w].disableWAL}
       /\ UNCHANGED <<kind, state, status, group>>

Crash == /\ bounds.crashes < MaxCrashes /\ Bump("crashes")
         /\ \E of \in {"process", "machine"} : Restart(of)

Abort == /\ \E w \in Writers : pc[w] = "exit" /\ ~Asserts(w)
         /\ Restart("process") /\ UNCHANGED bounds
-----------------------------------------------------------------------------
Step(w) ==
  \/ Preprocess(w) \/ Refuse(w) \/ BeginStall(w) \/ EndStall(w) \/ Enter(w)
  \/ AppendRecord(w) \/ AppendFails(w) \/ Sync(w) \/ SyncFails(w)
  \/ InsertAlone(w) \/ Launch(w) \/ InsertOwn(w) \/ Complete(w)
  \/ Publish(w) \/ Handoff(w) \/ Release(w) \/ Leave(w) \/ Return(w)

Next == (\E w \in Writers : Join(w) \/ Step(w)) \/ Crash \/ Abort

Spec == Init /\ [][Next]_vars

\* Threads run, stalls end, and a process that failed an assertion is gone.
FairSpec == Spec /\ (\A w \in Writers : WF_vars(Step(w))) /\ WF_vars(Abort)
-----------------------------------------------------------------------------
\* Types; no more of the log is synced than there is, and what is in the files
\* of the database can be read.
TypeOK ==
  /\ kind \in Mixes
  /\ queue \in Seq(Writers) /\ stalled \in BOOLEAN
  /\ newer \in [Writers -> Writers \cup {None}]
  /\ state \in [Writers -> {"init", "leader", "parallel", "completed"}]
  /\ status \in [Writers -> Statuses]
  /\ pc \in [Writers -> {"start", "await", "stall", "enter", "log", "sync", "insert", "inserted",
                         "finish", "publish", "exit", "release", "done", "gone"}]
  /\ group \in [Writers -> [members : Seq(Writers), st : Statuses, running : Nat, ok : BOOLEAN,
                            last : Nat, left : Nat]]
  /\ log \in Seq([batches : Seq(Writers), first : Nat, torn : BOOLEAN])
  /\ synced \in 0 .. Len(log)
  /\ disk \subseteq applied /\ applied \subseteq Writers /\ mayBeLost \subseteq Writers
  /\ num \in [Writers -> Nat] /\ lastSeq \in Nat /\ stopped \in BOOLEAN
  /\ bounds \in [stalls : 0 .. MaxStalls, fails : 0 .. MaxFails, crashes : 0 .. MaxCrashes]

\* Who may touch the queue, the log and the last sequence number.
Holding == {w \in Writers : \/ Leads(w)
                            \/ pc[w] \in {"stall", "enter", "log", "sync", "insert", "publish", "exit"}}
Inserting == {w \in Writers : \/ pc[w] = "await" /\ state[w] = "parallel"
                              \/ pc[w] = "inserted"}

\* One writer at a time leads, appends and publishes, and not before the last
\* member of a parallel group has inserted: what AsyncWrites and Mvcc take from
\* the write thread.
OneLeader == /\ \A v, w \in Holding : v = w
             /\ Holding # {} => Inserting = {}
             /\ \A v, w \in Inserting : GroupOf(v) = GroupOf(w)

\* A Writer and its WriteGroup are on the stack of the thread that writes:
\* nobody follows a pointer to one that has returned.
NothingFreed ==
  /\ \A v \in Range(queue) : pc[v] \notin {"done", "gone"}
  /\ \A w \in Writers :
       /\ pc[w] \in {"inserted", "publish", "exit", "release"} => pc[GroupOf(w)] # "done"
       /\ pc[w] = "exit" => \A v \in Members(GroupOf(w)) : pc[v] # "done"
       /\ pc[w] = "release" => \A i \in 1 .. group[GroupOf(w)].left :
                                 pc[group[GroupOf(w)].members[i]] # "done"

\* CreateMissingNewerLinks' assertion (write_thread.cc 286), where it is called.
LinkedRight == (\E w \in Writers : pc[w] \in {"enter", "exit"}) => LinksAgree

\* No two batches that a read or a replay can find have the same number.
Found == applied \cup UNION {Range(r.batches) : r \in Range(log)}
NumbersUnique ==
  \A v, w \in Found : LogNum(v) = LogNum(w) /\ LogNum(v) # 0 => v = w

\* Between groups, the log and the memtable hold the same batches (the log may
\* lack those that bypass it), or else the database takes no more writes until
\* it is opened again (the comment in MemTableInsertStatusCheck).
DivergenceStops ==
  Holding \cup Inserting = {} /\ ~stopped =>
    /\ \A w \in Writers : Logged(w) => w \in applied
    /\ \A w \in applied \ disk : Logged(w) \/ kind[w].disableWAL

\* A write that returned OK can be read, and still after a crash: of the
\* process, unless it bypassed the log; of the machine, if it was synced.
OkIsKept ==
  \A w \in Writers : pc[w] = "done" /\ status[w] = "ok" =>
    w \in mayBeLost \/ (w \in applied /\ num[w] <= lastSeq)

\* Every writer leaves, unless the process ends first.
EveryWriterLeaves == \A w \in Writers : pc[w] = "await" ~> pc[w] \in {"done", "gone"}
=============================================================================
