--------------------------- MODULE MCInsightPages ---------------------------
(***************************************************************************)
(* Two merchants, two kinds, two insights and lists of two pages.           *)
(***************************************************************************)
EXTENDS InsightPages, TLC

CONSTANTS m1, m2, i1, i2, k1, k2

Symmetry == Permutations({m1, m2}) \cup Permutations({i1, i2}) \cup Permutations({k1, k2})
=============================================================================
