------------------------------- MODULE KVStore -------------------------------
(***************************************************************************)
(* What the database promises the binding: an ordered map that changes one *)
(* whole batch at a time, snapshots and iterators that keep showing the    *)
(* map as it was, and reads that answer from a state the map really had    *)
(* while the call ran.  Flushes, compactions and memtables are not seen    *)
(* at all: Mvcc implements this module.                                    *)
(***************************************************************************)
EXTENDS Naturals, Sequences

CONSTANTS Keys, Snapshots, Iterators,
          Programs,    \* batches: sequences of [key, del]
          None

VARIABLES
  kv,          \* the map, 0 for a key that has no value
  seq,         \* updates made so far; a put writes its own number
  snap,        \* snapshot -> the map it captured, or None
  iter,        \* iterator -> the map it shows, or None
  call,        \* what the JavaScript thread is asking: [op, key, at, iter]
  since,       \* the maps there were since the call began
  got          \* answer of the running Get, or None

kvars == <<kv, seq, snap, iter, call, since, got>>

Idle == [op |-> "idle", key |-> None, at |-> None, iter |-> None]

\* The last update of the batch to a key decides.
Last(ops, k) == CHOOSE i \in DOMAIN ops :
  ops[i].key = k /\ \A j \in DOMAIN ops : ops[j].key = k => j <= i

Apply(m, ops, base) == [k \in Keys |->
  IF \E i \in DOMAIN ops : ops[i].key = k
  THEN IF ops[Last(ops, k)].del THEN 0 ELSE base + Last(ops, k)
  ELSE m[k]]

KInit ==
  /\ kv = [k \in Keys |-> 0] /\ seq = 0
  /\ snap = [s \in Snapshots |-> None]
  /\ iter = [i \in Iterators |-> None]
  /\ call = Idle /\ since = {} /\ got = None

KWrite(ops) ==
  /\ kv' = Apply(kv, ops, seq)
  /\ seq' = seq + Len(ops)
  /\ since' = IF call = Idle THEN {} ELSE since \cup {kv'}
  /\ UNCHANGED <<snap, iter, call, got>>

KSnapshot(s) ==
  /\ call = Idle /\ snap[s] = None
  /\ snap' = [snap EXCEPT ![s] = kv]
  /\ UNCHANGED <<kv, seq, iter, call, since, got>>

KRelease(s) ==
  /\ call = Idle
  /\ snap' = [snap EXCEPT ![s] = None]
  /\ UNCHANGED <<kv, seq, iter, call, since, got>>

KDelete(i) ==
  /\ call = Idle
  /\ iter' = [iter EXCEPT ![i] = None]
  /\ UNCHANGED <<kv, seq, snap, call, since, got>>

\* A read of the latest state, or of a snapshot that exists.
KBegin(c) ==
  /\ call = Idle /\ call' = c
  /\ c.at # None => snap[c.at] # None
  /\ since' = {kv}
  /\ UNCHANGED <<kv, seq, snap, iter, got>>

\* The call answers from the snapshot it names, or from one map it overlapped.
Answers == IF call.at = None THEN since ELSE {snap[call.at]}

KGet ==
  /\ call.op = "get" /\ got = None
  /\ \E m \in Answers : got' = m[call.key]
  /\ UNCHANGED <<kv, seq, snap, iter, call, since>>

KReturn ==
  /\ got # None
  /\ got' = None /\ call' = Idle /\ since' = {}
  /\ UNCHANGED <<kv, seq, snap, iter>>

KIterator ==
  /\ call.op \in {"iter", "refresh"} /\ call' = Idle /\ since' = {}
  /\ \E m \in Answers : iter' = [iter EXCEPT ![call.iter] = m]
  /\ UNCHANGED <<kv, seq, snap, got>>

Calls ==
       [op : {"get"}, key : Keys, at : Snapshots \cup {None}, iter : {None}]
  \cup [op : {"iter"}, key : {None}, at : Snapshots \cup {None}, iter : Iterators]
  \cup [op : {"refresh"}, key : {None}, at : {None}, iter : Iterators]

KNext ==
  \/ \E ops \in Programs : KWrite(ops)
  \/ \E s \in Snapshots : KSnapshot(s) \/ KRelease(s)
  \/ \E i \in Iterators : KDelete(i)
  \/ \E c \in Calls : KBegin(c)
  \/ KGet \/ KReturn \/ KIterator

KSpec == KInit /\ [][KNext]_kvars
=============================================================================
