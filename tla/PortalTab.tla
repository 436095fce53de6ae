------------------------------ MODULE PortalTab ------------------------------
(***************************************************************************)
(* What the parts of the portal share in one browser tab: the merchant     *)
(* that is selected, and the requests on their way.  A request is in       *)
(* `asked' until it is answered or fails; answers come in any order, and   *)
(* nothing cancels a request.                                              *)
(***************************************************************************)
EXTENDS Naturals, Bags

CONSTANTS
    Merchants,
    None,      \* undefined, null
    MaxAsked,  \* bound on the requests on their way
    MaxClicks  \* bound on what the user does

ASSUME TabConfig == None \notin Merchants /\ MaxAsked \in Nat /\ MaxClicks \in Nat

VARIABLES
    merchant, \* dashboard.selectedMerchant
    asked,
    clicks

Copies(r, n) == IF n = 0 THEN EmptyBag ELSE [x \in {r} |-> n]
Number(r, b) == IF BagIn(r, b) THEN b[r] ELSE 0
Asked(op) == {r \in BagToSet(asked) : r.op = op}

Click == clicks < MaxClicks /\ clicks' = clicks + 1
=============================================================================
