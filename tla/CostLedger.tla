----------------------------- MODULE CostLedger -----------------------------
(***************************************************************************)
(* The spend counters of backend/api/gateway/cost_ledger.py: two Redis     *)
(* counters per scope and day, one for the merchant and one shared by all  *)
(* merchants, and the three ceilings they are compared with.  Amounts are  *)
(* integers in a unit that divides the price of one block of tokens at     *)
(* every tier (TOKENS_PER_USD of avalai_adapter.py: 20000 / 8000 / 2000).  *)
(***************************************************************************)
EXTENDS Integers, FiniteSets

CONSTANTS
    Scopes,          \* {"agent", "chat"}: keys of SCOPE_CONFIGS
    Merchants,
    GLOBAL,          \* the owner of a scope's shared counter
    Tiers,
    Price,           \* Price[tier]: amount per block of tokens
    PerInteraction,  \* ceilings, per scope
    MerchantDaily,
    GlobalDaily

ASSUME LedgerConfig ==
    /\ GLOBAL \notin Merchants /\ IsFiniteSet(Merchants)
    /\ Price \in [Tiers -> Nat]
    /\ PerInteraction \in [Scopes -> Nat]
    /\ MerchantDaily \in [Scopes -> Nat]
    /\ GlobalDaily \in [Scopes -> Nat]

Accounts == Scopes \X (Merchants \cup {GLOBAL})

\* The keys of the current day: none exists when the day starts.
EmptyLedger == [a \in Accounts |-> 0]

Ceiling(a) == IF a[2] = GLOBAL THEN GlobalDaily[a[1]] ELSE MerchantDaily[a[1]]

EstimateCost(tier, tokens) == Price[tier] * tokens

WithinInteraction(scope, cost) == cost <= PerInteraction[scope]

\* Mutant of Fits: the counter is left out of the comparison.
FitsAlone(spent, a, cost) == cost <= Ceiling(a)

\* One of the two daily checks of can_afford, on the counter value it read.
Fits(spent, a, cost) == spent[a] + cost <= Ceiling(a)

\* Mutant of Debit: the shared counter is forgotten.
DebitMerchantOnly(spent, scope, merchant, cost, old) ==
    IF old = 0 THEN [spent EXCEPT ![<<scope, merchant>>] = @ + cost] ELSE spent

\* The pipeline of debit: both counters of the scope, in one transaction.  The
\* merchant's key is built before the shared one, each with a date of its own:
\* the first old of them are counters of an earlier day, which nobody reads.
Debit(spent, scope, merchant, cost, old) ==
    [a \in Accounts |->
        IF \/ a = <<scope, merchant>> /\ old = 0
           \/ a = <<scope, GLOBAL>> /\ old < 2
        THEN spent[a] + cost ELSE spent[a]]
=============================================================================
