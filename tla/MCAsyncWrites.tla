---------------------------- MODULE MCAsyncWrites ----------------------------
(***************************************************************************)
(* AsyncWrites on small instances: two writes in flight at once, so that   *)
(* they share a batch, race for the write group and finish out of order.   *)
(***************************************************************************)
EXTENDS AsyncWrites, TLC

CONSTANTS w1, w2, b1, b2, o1, x

MCPrecautions == {"sync", "hold", "await"}
NoSync  == MCPrecautions \ {"sync"}
NoAwait == MCPrecautions \ {"await"}

Symmetry == Permutations(Writes) \cup Permutations(Batches)
=============================================================================
