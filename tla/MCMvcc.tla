------------------------------- MODULE MCMvcc --------------------------------
EXTENDS Mvcc, TLC
CONSTANTS s1, s2, i1
Put(k) == [key |-> k, del |-> FALSE]
Del(k) == [key |-> k, del |-> TRUE]
OneKey == {<<Put(1)>>, <<Del(1)>>}
TwoKeys == {<<Put(1)>>, <<Del(1)>>, <<Put(1), Put(2)>>}
PutsAndDeletion == {<<Del(1)>>, <<Put(1), Put(2)>>}
Symmetry == Permutations(Snapshots)
=============================================================================
