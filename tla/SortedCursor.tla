---------------------------- MODULE SortedCursor -----------------------------
(***************************************************************************)
(* What an iterator promises (include/rocksdb/iterator.h): a cursor over a *)
(* sorted map that nobody changes, cut to the keys in [lower, upper).  A   *)
(* call either moves it where the map says or fails, and then the status   *)
(* says so: an end with an OK status is an end.                            *)
(***************************************************************************)
EXTENDS Integers

CONSTANTS Keys, None

VARIABLES
  map,         \* key -> value, 0 for none: what the iterator shows
  lower, upper,\* its bounds, or None
  cur,         \* the key it is at, or None when it is not Valid()
  val,         \* the value at cur, 0 when it is not Valid()
  ok,          \* status() is OK
  call         \* the call being executed: [op, key]

svars == <<map, lower, upper, cur, val, ok, call>>

NoCall == [op |-> "none", key |-> None]
Moves == [op : {"first", "last"}, key : {None}] \cup [op : {"seek", "seekPrev"}, key : Keys]
Steps == [op : {"next", "prev"}, key : {None}]

\* The keys the iterator may stop at.
Shown == {k \in Keys : /\ map[k] # 0
                       /\ lower # None => k >= lower
                       /\ upper # None => k < upper}

Least(S) == IF S = {} THEN None ELSE CHOOSE k \in S : \A l \in S : k <= l
Greatest(S) == IF S = {} THEN None ELSE CHOOSE k \in S : \A l \in S : l <= k

\* Where a call leads.
Target(c) ==
  CASE c.op = "first"    -> Least(Shown)
    [] c.op = "last"     -> Greatest(Shown)
    [] c.op = "seek"     -> Least({k \in Shown : k >= c.key})
    [] c.op = "seekPrev" -> Greatest({k \in Shown : k <= c.key})
    [] c.op = "next"     -> Least({k \in Shown : k > cur})
    [] c.op = "prev"     -> Greatest({k \in Shown : k < cur})

SInit == /\ map = [k \in Keys |-> 0]
         /\ lower \in Keys \cup {None} /\ upper \in Keys \cup {None}
         /\ cur = None /\ val = 0 /\ ok = TRUE /\ call = NoCall

\* Created or refreshed: it shows some map and stands nowhere.
SRenew ==
  /\ call = NoCall
  /\ map' \in [Keys -> Nat]
  /\ cur' = None /\ val' = 0
  /\ call' = NoCall
  /\ ok' \in BOOLEAN
  /\ UNCHANGED <<lower, upper>>

SCall(c) ==
  /\ call = NoCall /\ (c \in Steps => cur # None)
  /\ call' = c
  /\ UNCHANGED <<map, lower, upper, cur, val, ok>>

SArrive ==
  /\ call # NoCall /\ call' = NoCall
  /\ cur' = Target(call) /\ ok' = TRUE
  /\ val' = IF cur' = None THEN 0 ELSE map[cur']
  /\ UNCHANGED <<map, lower, upper>>

SFail ==
  /\ call # NoCall /\ call' = NoCall
  /\ cur' = None /\ val' = 0 /\ ok' = FALSE
  /\ UNCHANGED <<map, lower, upper>>

SNext == SRenew \/ (\E c \in Moves \cup Steps : SCall(c)) \/ SArrive \/ SFail

SSpec == SInit /\ [][SNext]_svars
=============================================================================
