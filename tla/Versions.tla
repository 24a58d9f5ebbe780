------------------------------ MODULE Versions -------------------------------
(***************************************************************************)
(* Versions of keys: what a read at a sequence number finds in a set of    *)
(* entries, and which entries CompactionIterator                           *)
(* (db/compaction/compaction_iterator.cc) keeps when a flush or a          *)
(* compaction rewrites them.                                               *)
(*                                                                         *)
(* An entry is [key, seq, val]: a put's value is the number it was written *)
(* with, a deletion's is 0.                                                *)
(***************************************************************************)
EXTENDS Naturals

Deleted == 0

VisibleAt(e, k, n) == e.key = k /\ e.seq <= n

\* e is the entry a read of k at n finds among E.
Finds(E, e, k, n) ==
  /\ e \in E /\ VisibleAt(e, k, n)
  /\ \A f \in E : VisibleAt(f, k, n) => f.seq <= e.seq

\* The value a read of k at n finds, Deleted when there is none.
Lookup(E, k, n) ==
  IF \E e \in E : VisibleAt(e, k, n)
  THEN (CHOOSE e \in E : Finds(E, e, k, n)).val
  ELSE Deleted

\* findEarliestVisibleSnapshot gives both the same answer: no snapshot taken
\* into account sees the one and not the other.  Without snapshots that holds
\* of all sequence numbers (visible_at_tip_).
SameStripe(m, n, S) == \A s \in S : m <= s <=> n <= s

\* IN_EARLIEST_SNAPSHOT: every snapshot sees the entry.
InEarliest(e, S) == \A s \in S : e.seq <= s

\* Mutant: any newer version hides this one, whatever the snapshots.
HiddenByAny(E, e, S) == \E f \in E : f.key = e.key /\ f.seq > e.seq

\* Rule (A): a newer version of the key in the same stripe hides this one.
Hidden(E, e, S) == \E f \in E :
  f.key = e.key /\ f.seq > e.seq /\ SameStripe(e.seq, f.seq, S)

\* Mutant: the last run keeps its deletions.
ObsoleteAboveBottom(E, e, S, beyond, bottom) ==
  e.val = Deleted /\ ~bottom /\ InEarliest(e, S) /\ e.key \notin beyond

\* A deletion seen by every snapshot is dropped when the key is in no older
\* run; one in the last run is dropped unless an older version, which some
\* snapshot needs, is rewritten below it.  A flush (beyond = every key, bottom
\* = FALSE) drops no deletion.
ObsoleteDeletion(E, e, S, beyond, bottom) ==
  /\ e.val = Deleted
  /\ \/ InEarliest(e, S) /\ e.key \notin beyond
     \/ bottom /\ ~\E f \in E : /\ f.key = e.key /\ f.seq < e.seq
                                /\ ~SameStripe(e.seq, f.seq, S)

Kept(E, S, beyond, bottom) ==
  {e \in E : ~Hidden(E, e, S) /\ ~ObsoleteDeletion(E, e, S, beyond, bottom)}

\* PrepareOutput: in the last run a version every snapshot sees gets number 0.
Squash(e, S, bottom) ==
  IF bottom /\ InEarliest(e, S) THEN [e EXCEPT !.seq = 0] ELSE e

\* The entries the job writes out: E rewritten for the snapshots S.
Rewrite(E, S, beyond, bottom) ==
  {Squash(e, S, bottom) : e \in Kept(E, S, beyond, bottom)}
=============================================================================
