---------------------------- MODULE MCLiveService ----------------------------
(***************************************************************************)
(* Instances of LiveService for TLC.                                       *)
(***************************************************************************)
EXTENDS LiveService, TLC

CONSTANTS w1, w2,                          \* workers
          option, future, garbled, nanvol, \* messages
          cefi, tradfi                     \* asset groups

MCAssetGroupOf == [m \in Messages |-> IF m = future THEN tradfi ELSE cefi]

MCSymmetry == Permutations(Workers) \cup Permutations(Uuids)
=============================================================================
