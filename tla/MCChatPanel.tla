---------------------------- MODULE MCChatPanel ----------------------------
(***************************************************************************)
(* Two merchants, two sessions that exist or are created, two questions.   *)
(***************************************************************************)
EXTENDS ChatPanel

CONSTANTS m1, m2, s1, s2
=============================================================================
