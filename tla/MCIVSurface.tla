------------------------------ MODULE MCIVSurface ------------------------------
(***************************************************************************)
(* Instances of IVSurface for TLC: every chain of up to MaxLegs legs out   *)
(* of seven that differ in one thing or another.                           *)
(***************************************************************************)
EXTENDS IVSurface

CONSTANT MaxLegs  \* bound: legs in a chain

Leg(key, strike, expiry, right, markIv, hasPrice, fit) ==
  [key |-> key, strike |-> strike, expiry |-> expiry, right |-> right,
   markIv |-> markIv, hasPrice |-> hasPrice, fit |-> fit]

Legs == {Leg("published", 1, 4, "CALL", 2, TRUE, 1),
         Leg("samenode", 1, 4, "call", 1, FALSE, Missing),
         Leg("fitted", 2, 3, "put", Missing, TRUE, 1),
         Leg("zeroIv", 2, 4, "CALL", 0, TRUE, 2),
         Leg("unfittable", 1, 3, "PUT", Missing, TRUE, Missing),
         Leg("expired", 2, 1, "CALL", Missing, TRUE, Missing),
         Leg("expiredPublished", 1, 1, "PUT", 1, FALSE, Missing)}

MCChains == UNION {[1..n -> Legs] : n \in 0..MaxLegs}
=============================================================================
