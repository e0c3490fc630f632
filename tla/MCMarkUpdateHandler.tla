------------------------- MODULE MCMarkUpdateHandler -------------------------
(***************************************************************************)
(* Instances of MarkUpdateHandler for TLC: an option whose second revision *)
(* has another expiry and whose third is no option any more.               *)
(***************************************************************************)
EXTENDS MarkUpdateHandler, TLC

CONSTANTS option, e1

Listed(strike, expiry, right) == [strike |-> strike, expiry |-> expiry, right |-> right]

MCTermsOf == [k \in Keys |-> [rev \in 0..MaxRev |->
  CASE rev = 0 -> Listed("positive", 1, "CALL")
    [] rev = 1 -> Listed("positive", 3, "PUT")
    [] OTHER   -> Listed(None, None, None)]]

Update(at, price, vol, rate, source, place) ==
  [key |-> option, at |-> at, price |-> price, vol |-> vol, rate |-> rate,
   source |-> source, place |-> place]

GoodUpdate == Update(0, "positive", "positive", "zero", e1, "named")

MCUpdates == {GoodUpdate,
              Update(1, "positive", "positive", "positive", "absent", "named"),
              Update(0, "positive", "nan", "null", e1, "null"),
              Update(0, "zero", "positive", "junk", e1, "absent"),
              Update(2, "tiny", "huge", "nan", "null", "empty"),
              Update(0, "positive", "huge", "positive", "empty", "absent")}
MCGoodUpdates == {GoodUpdate}

MCSymmetry == Permutations(Uuids)
=============================================================================
