---------------------------- MODULE MCRateLimiter ----------------------------
(***************************************************************************)
(* Two workers, the second with a clock one second ahead.                  *)
(***************************************************************************)
EXTENDS RateLimiter

CONSTANTS w1, w2

OneAhead == [w \in {w1, w2} |-> IF w = w2 THEN 1 ELSE 0]
=============================================================================
