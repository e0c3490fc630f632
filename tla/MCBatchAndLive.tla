---------------------------- MODULE MCBatchAndLive ----------------------------
(***************************************************************************)
(* Instances of BatchAndLive for TLC: shards of two rows for the job, one  *)
(* of them malformed where there are two shards.                           *)
(***************************************************************************)
EXTENDS BatchAndLive

CONSTANTS w1, option, future, s1, s2, bad, r1, r2, r3, cefi, tradfi

MCAssetGroupOf == [m \in Messages |-> IF m = future THEN tradfi ELSE cefi]
MCRowsOf == [s \in Shards |-> IF s = s1 THEN {r1, r2} ELSE {bad, r3}]
MCBatchGroupOf == [r \in Archived |-> IF r = r2 THEN tradfi ELSE cefi]
MCBatchEventIds == [r \in Archived |-> {r}]
=============================================================================
