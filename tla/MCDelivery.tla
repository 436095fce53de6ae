----------------------------- MODULE MCDelivery -----------------------------
(***************************************************************************)
(* Two workers, a notification and an id without a row.                    *)
(***************************************************************************)
EXTENDS Delivery

CONSTANTS w1, w2, n1, stray
=============================================================================
