----------------------------- MODULE MCOverview -----------------------------
(***************************************************************************)
(* Two merchants and two runs, so that a late run meets another one.       *)
(***************************************************************************)
EXTENDS Overview

CONSTANTS m1, m2
=============================================================================
