---------------------------- MODULE MCWriteThread ----------------------------
(***************************************************************************)
(* WriteThread on three writers: a leader, a follower, and one that links  *)
(* itself behind them, in every order.                                     *)
(***************************************************************************)
EXTENDS WriteThread, TLC
CONSTANTS w1, w2, w3, w4
Plain == [sync |-> FALSE, noSlowdown |-> FALSE, disableWAL |-> FALSE, broken |-> FALSE]
Synced == [Plain EXCEPT !.sync = TRUE]
Unlogged == [Plain EXCEPT !.disableWAL = TRUE]
Impatient == [Plain EXCEPT !.noSlowdown = TRUE]
Broken == [Plain EXCEPT !.broken = TRUE]
Mix(a, b, c) == w1 :> a @@ w2 :> b @@ w3 :> c
MCMixes == {Mix(Plain, Synced, Unlogged), Mix(Broken, Plain, Synced),
            Mix(Impatient, Plain, Impatient), Mix(Unlogged, Unlogged, Synced)}
Impatience == {w1 :> Impatient @@ w2 :> Plain @@ w3 :> Impatient @@ w4 :> Plain}
=============================================================================
