------------------------- MODULE MCNotificationBell -------------------------
(***************************************************************************)
(* Two merchants with two notifications each.                              *)
(***************************************************************************)
EXTENDS NotificationBell

CONSTANTS m1, m2, i1, i2
=============================================================================
