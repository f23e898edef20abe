--------------------------- MODULE MCSheetsStore ---------------------------
(***************************************************************************)
(* Instances of SheetsStore for TLC.                                       *)
(***************************************************************************)
EXTENDS SheetsStore

\* Threads, keys and values are interchangeable.
Symmetric == Permutations(Threads) \cup Permutations(Keys) \cup Permutations(Values)

ThreeRows == [ws \in Worksheets |-> 3]

\* Two pending entries are enough for a copy to tell the number of a row that moved.
TwoPending == [ThreeRows EXCEPT !["pending"] = 2]
=============================================================================
