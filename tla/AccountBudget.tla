---------------------------- MODULE AccountBudget ----------------------------
(***************************************************************************)
(* One account of the ledger (a merchant's counter in a scope, or a        *)
(* scope's shared counter) seen through the callers of the gateway: the    *)
(* chain implements SoftBudget for it, whatever the account.               *)
(***************************************************************************)
EXTENDS ModelRouterChain, FiniteSets

CONSTANTS
    account,    \* the account looked at
    WorstCost   \* no answer costs more

ASSUME AccountConfig ==
    /\ account \in Accounts
    /\ IsFiniteSet(Callers)
    /\ WorstCost \in Nat
    /\ \A t \in Tiers, n \in ActualTokens : EstimateCost(t, n) <= WorstCost

\* Where a caller stands between can_afford reading the account's counter in
\* its favour and the debit.
Holds(c) ==
    /\ c \in Connected
    /\ \/ /\ At(c, "globalBudget") /\ call[c].fits
          /\ account = MerchantAccount(c)
       \/ /\ call[c].pc \in {"calling", "answered", "debit"}
          /\ account \in {MerchantAccount(c), GlobalAccount(c)}

Holders == {c \in Callers : Holds(c)}

\* A caller about to be checked against the account's counter of an earlier day.
ChecksLate(c) ==
    /\ c \in Connected
    /\ \/ /\ At(c, "merchantBudget") /\ oldKeys[c] > 0
          /\ account = MerchantAccount(c)
       \/ /\ call[c].pc \in {"merchantBudget", "globalBudget"} /\ oldKeys[c] = 2
          /\ account = GlobalAccount(c)

LateCallers == {c \in Callers : ChecksLate(c)}

Budget == INSTANCE SoftBudget WITH
    Clients <- Callers,
    Limit <- Ceiling(account),
    Estimates <- {EstimateCost(t, r.tokens) : t \in Tiers, r \in Requests},
    Costs <- {EstimateCost(t, n) : t \in Tiers, n \in ActualTokens},
    spent <- spent[account],
    admitted <- Holders,
    late <- LateCallers

(***************************************************************************)
(* Every ceiling of CostLedger is a soft budget: a caller that the check   *)
(* let through settles at most once, and nobody else moves the counter.    *)
(* Only a check whose key was built before midnight admits unseen.         *)
(***************************************************************************)
ImplementsBudget == Budget!Spec

(***************************************************************************)
(* Today's spend overruns a daily ceiling by at most one worst-case answer *)
(* per caller, and by one less for each that is still to settle or to be   *)
(* let through by the counter of the day before, although can_afford and   *)
(* debit are far apart and nothing reserves the amount in between.         *)
(***************************************************************************)
OverrunBounded ==
    spent[account] + WorstCost * Cardinality(Holders \cup LateCallers)
        <= Ceiling(account) + WorstCost * Cardinality(Callers)

MerchantsSpent(s) == SumFunction([m \in Merchants |-> spent[<<s, m>>]])

\* Callers that built the merchant's key before midnight and the shared one after.
Straddling == {c \in Callers : At(c, "debit") /\ oldKeys[c] = 1}

(***************************************************************************)
(* The two counters a debit moves part only at midnight: the merchants of  *)
(* a scope never show more than its shared counter, and what they show     *)
(* less is one answer at most for each caller whose debit was building its *)
(* keys as the day ended, once that debit is made.                         *)
(***************************************************************************)
MerchantsTrackGlobal ==
    \A s \in Scopes :
        /\ MerchantsSpent(s) <= spent[<<s, GLOBAL>>]
        /\ spent[<<s, GLOBAL>>] + WorstCost * Cardinality(Straddling)
              <= MerchantsSpent(s) + WorstCost * Cardinality(Callers)
=============================================================================
