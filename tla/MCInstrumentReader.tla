-------------------------- MODULE MCInstrumentReader --------------------------
(***************************************************************************)
(* Instances of InstrumentReader for TLC.                                  *)
(***************************************************************************)
EXTENDS InstrumentReader, TLC

\* Bound: the two records are not both revised to the last revision.
MCFewRevisions == \E k \in Keys : registry[k].rev < MaxRev

MCSymmetry == Permutations(Keys)
=============================================================================
