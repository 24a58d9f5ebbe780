------------------------------ MODULE MCCursor -------------------------------
EXTENDS Cursor, TLC
Plain == [lower |-> None, upper |-> None, maxSkippable |-> 0, cacheOnly |-> FALSE,
          maxSkip |-> 1]
MCOptions == {[Plain EXCEPT !.maxSkip = 0], [Plain EXCEPT !.upper = 2],
              [Plain EXCEPT !.lower = 2, !.maxSkippable = 1],
              [Plain EXCEPT !.cacheOnly = TRUE]}
MCRanges == {[from |-> 1, to |-> 3]}
=============================================================================
