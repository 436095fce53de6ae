------------------------------ MODULE MCGateway ------------------------------
(***************************************************************************)
(* The gateway with its ledger kept out of the way (answers cost nothing), *)
(* for questions about the breakers.                                       *)
(***************************************************************************)
EXTENDS GatewayHistory, TLC

CONSTANTS c1, c2, c3, m1, cheap

OneTier == <<cheap>>
FreePrice == [t \in Tiers |-> 0]
Ample == [s \in Scopes |-> 1]
OneRequest == {[scope |-> "agent", merchant |-> m1, tokens |-> 2]}

\* The callers are interchangeable: no property names one of them.
CallerSymmetry == Permutations({c1, c2, c3})
=============================================================================
