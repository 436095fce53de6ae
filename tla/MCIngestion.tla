----------------------------- MODULE MCIngestion -----------------------------
(***************************************************************************)
(* Two concurrent runs of the tool, a file of two chunks, a file of one    *)
(* with transactions older than the TTL of tx_staging, and a file the      *)
(* validator rejects.                                                      *)
(***************************************************************************)
EXTENDS Ingestion, TLC

CONSTANTS r1, r2, long, short, bad

ChunkCounts == [f \in {long, short, bad} |-> IF f = long THEN 2 ELSE 1]

ShortIsOld == {<<short, 1>>}

RunSymmetry == Permutations({r1, r2})
=============================================================================
