---------------------------- MODULE MCBlackScholes ----------------------------
(***************************************************************************)
(* Instances of BlackScholes for TLC: coarse functions for the logarithm,  *)
(* the discount factor, the normal distribution and its density.           *)
(***************************************************************************)
EXTENDS BlackScholes

Floor(x, low) == IF x < low THEN low ELSE x

MCRates == {-1, 0, 1, 2}

\* Of 2 and 4 one quotient is a float and the inverse is not.
MCVanishing == {<<1, 4>>}
MCEndless == {<<4, 1>>, <<4, 2>>}
MCOverflowing == {<<-1, 2>>}

MCLog == [spot \in Prices |-> [strike \in Prices |-> spot - strike]]
MCDisc == [rate \in Rates |-> [rootT \in Roots |-> Floor(4 - rate * rootT * rootT, 1)]]

MCPoints == LET Asked == {m \in Markets : ~Degenerate(m)}
                Ds == {D1(m) : m \in Asked} \cup {D2(m) : m \in Asked}
            IN Ds \cup {Neg(x) : x \in Ds}

\* 4 is One: small numbers on either side of 0 sum to 5, large ones to 4.
MCCdf == [x \in MCPoints |-> CASE x[1] < -x[2] -> 0
                               [] -x[2] <= x[1] /\ x[1] < 0 -> 1
                               [] x[1] = 0 -> 2
                               [] OTHER -> 4]
MCPdf == [x \in MCPoints |-> IF x[1] = 0 THEN 3 ELSE IF Within(x[1], x[2]) THEN 2 ELSE 1]
=============================================================================
