----------------------------- MODULE MCImpliedVol -----------------------------
(***************************************************************************)
(* Instances of ImpliedVol for TLC: every nondecreasing price of few       *)
(* distinct values, and every one that rises by a unit more at each step.  *)
(***************************************************************************)
EXTENDS ImpliedVol, FiniteSets

CONSTANT Rises  \* how often a price may jump

MCWidths == [n \in 0..Steps |-> 2^(Steps - n)]

\* The price that jumps by one above each of the volatilities `at`.
Jumping(at) == [v \in Vols |-> Cardinality({i \in DOMAIN at : at[i] < v})]

Flat == {Jumping(at) : at \in [1..Rises -> (VolLow - 1)..VolHigh]}
Rising == {[v \in Vols |-> v + f[v]] : f \in Flat}

MCPrices == Flat \cup Rising
MCMarks == -1..(VolHigh + Rises + 1)
=============================================================================
