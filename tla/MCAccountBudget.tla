--------------------------- MODULE MCAccountBudget ---------------------------
(***************************************************************************)
(* The gateway at the real prices of its first two tiers.  One block is    *)
(* 100 tokens; at 20000 and 8000 tokens per dollar it costs 2 and 5 units  *)
(* of $1/400.                                                              *)
(* The per-interaction ceilings ($0.05 and $0.50) are the real ones, the   *)
(* daily ones are cut down to a few calls.                                 *)
(***************************************************************************)
EXTENDS AccountBudget, TLC

CONSTANTS c1, c2, m1, m2

CheapAndMid == <<"cheap", "mid">>
TierSet == {"cheap", "mid"}
RealPrice == [t \in TierSet |-> IF t = "cheap" THEN 2 ELSE 5]
ScopeSet == {"chat", "agent"}
RealPerInteraction == [s \in ScopeSet |-> IF s = "chat" THEN 20 ELSE 200]
SmallMerchantDaily == [s \in ScopeSet |-> IF s = "chat" THEN 10 ELSE 40]
SmallGlobalDaily == [s \in ScopeSet |-> IF s = "chat" THEN 14 ELSE 45]
TinyDaily == [s \in ScopeSet |-> 5]

\* A chat draft is estimated at 500 tokens, intent resolution at 100, an agent
\* narrative at 200.
ChatDraft(m) == [scope |-> "chat", merchant |-> m, tokens |-> 5]
Intent(m) == [scope |-> "chat", merchant |-> m, tokens |-> 1]
Narrative(m) == [scope |-> "agent", merchant |-> m, tokens |-> 2]

ChatRequests == {ChatDraft(m1), Intent(m2)}
OneRequest == {Intent(m1)}

\* The callers are interchangeable: no property names one of them.
CallerSymmetry == Permutations({c1, c2})

ChatGlobalAccount == <<"chat", GLOBAL>>
=============================================================================
