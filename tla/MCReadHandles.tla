---------------------------- MODULE MCReadHandles ----------------------------
EXTENDS ReadHandles, TLC
CONSTANTS s1, s2, r1, i1, l1, m1
MCPrecautions == {"open", "pin", "drain"}
NoPin   == MCPrecautions \ {"pin"}
NoDrain == MCPrecautions \ {"drain"}
NoOpen  == MCPrecautions \ {"open"}
Symmetry == Permutations(Snapshots)
=============================================================================
