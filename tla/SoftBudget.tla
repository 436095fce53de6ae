----------------------------- MODULE SoftBudget -----------------------------
(***************************************************************************)
(* What one spend ceiling of the gateway promises.  The ledger checks a    *)
(* counter before a call and moves it after the call, and holds nothing in *)
(* between: a ceiling is soft.  A client is admitted while its estimate    *)
(* fits under the ceiling; admitted clients settle what the call really    *)
(* cost, or go away without settling.  A client that set out to be checked *)
(* before a new day is checked against the day before.                     *)
(***************************************************************************)
EXTENDS Integers

CONSTANTS
    Clients,
    Limit,      \* the ceiling
    Estimates,  \* amounts a client may announce
    Costs       \* amounts a call may turn out to cost

VARIABLES
    spent,     \* settled since the day began
    admitted,  \* clients whose estimate was accepted and is not settled
    late       \* clients whose check began on an earlier day

vars == <<spent, admitted, late>>

Init == spent = 0 /\ admitted = {} /\ late = {}

Admit(c) ==
    /\ c \notin admitted
    /\ c \in late \/ \E e \in Estimates : spent + e <= Limit
    /\ admitted' = admitted \cup {c}
    /\ late' = late \ {c}
    /\ UNCHANGED spent

\* A late check refuses, fails or is not finished.
Refuse(c) ==
    /\ c \in late
    /\ late' = late \ {c}
    /\ UNCHANGED <<spent, admitted>>

Settle(c) ==
    /\ c \in admitted
    /\ \E cost \in Costs : spent' = spent + cost
    /\ admitted' = admitted \ {c}
    /\ UNCHANGED late

Drop(c) ==
    /\ c \in admitted
    /\ admitted' = admitted \ {c}
    /\ UNCHANGED <<spent, late>>

\* The counter starts again at zero; clients admitted yesterday settle today.
NewDay ==
    /\ spent' = 0
    /\ late' \in SUBSET (Clients \ admitted)
    /\ late \subseteq late'
    /\ UNCHANGED admitted

Next ==
    \/ \E c \in Clients : Admit(c) \/ Refuse(c) \/ Settle(c) \/ Drop(c)
    \/ NewDay

Spec == Init /\ [][Next]_vars
=============================================================================
