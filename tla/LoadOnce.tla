------------------------------ MODULE LoadOnce ------------------------------
(***************************************************************************)
(* What the ingestion promises of a file.  Its rows get to the warehouse   *)
(* by one load at most, which may stop halfway, and may still come when    *)
(* the batch has been given up.  A batch is confirmed after its load; one  *)
(* that was given up stays so, and a file with an invalid row is never     *)
(* loaded.                                                                 *)
(***************************************************************************)
EXTENDS Naturals

CONSTANTS
    Files,
    Valid,  \* files the validator accepts
    Kept,   \* files whose staged rows last until they are loaded
    Rows    \* Rows[f]: the rows of the file

VARIABLES
    outcome, \* of each file's batch
    load,    \* "open" or "over", for each file
    copies   \* of each row in the warehouse

vars == <<outcome, load, copies>>

Init ==
    /\ outcome = [f \in Files |-> "none"]
    /\ load = [f \in Files |-> "open"]
    /\ copies = [c \in UNION {Rows[f] : f \in Files} |-> 0]

Register(f) ==
    /\ outcome[f] = "none"
    /\ outcome' = [outcome EXCEPT ![f] = "staging"]
    /\ UNCHANGED <<load, copies>>

Load(f) ==
    /\ f \in Valid /\ outcome[f] \in {"staging", "failed"} /\ load[f] = "open"
    /\ load' = [load EXCEPT ![f] = "over"]
    /\ \E part \in SUBSET Rows[f] :
          copies' = [c \in DOMAIN copies |-> IF c \in part THEN copies[c] + 1 ELSE copies[c]]
    /\ UNCHANGED outcome

Confirm(f) ==
    /\ outcome[f] = "staging" /\ load[f] = "over"
    /\ f \in Kept => \A c \in Rows[f] : copies[c] = 1
    /\ outcome' = [outcome EXCEPT ![f] = "committed"]
    /\ UNCHANGED <<load, copies>>

\* Also of a confirmed batch: the answer to its confirmation may get lost.
GiveUp(f) ==
    /\ outcome[f] \in {"staging", "committed"}
    /\ outcome' = [outcome EXCEPT ![f] = "failed"]
    /\ UNCHANGED <<load, copies>>

Next == \E f \in Files : Register(f) \/ Load(f) \/ Confirm(f) \/ GiveUp(f)

Spec == Init /\ [][Next]_vars
=============================================================================
