-------------------------- MODULE LLMCircuitBreaker --------------------------
(***************************************************************************)
(* One tier's circuit breaker (backend/api/gateway/circuit_breaker.py): the*)
(* three Redis keys a breaker instance reads and writes, as a value, and   *)
(* what each method makes of that value.                                   *)
(*                                                                         *)
(* Redis holds absolute times.  Only their distance to now is ever used,   *)
(* so a breaker keeps ages, counted in clock ticks:                        *)
(*   state      the :state key; "half_open" is computed, never stored      *)
(*   openedAgo  age of :opened_at, saturating at Cooldown, where get_state *)
(*              stops telling ages apart; 0 when the key is deleted        *)
(*   failures   the :failures sorted set, as the number of members of each *)
(*              age below Window.  Older members are dropped by            *)
(*              zremrangebyscore before every count, so forgetting them at *)
(*              once is what the program sees.  A count saturates at       *)
(*              Threshold: only "at least Threshold" is ever asked.        *)
(***************************************************************************)
EXTENDS Integers, Functions

CONSTANTS
    Threshold,  \* failure_threshold
    Window,     \* failure_window_seconds, in ticks
    Cooldown    \* cooldown_seconds, in ticks

ASSUME BreakerConfig ==
    /\ Threshold \in Nat \ {0}
    /\ Window \in Nat \ {0}
    /\ Cooldown \in Nat \ {0}

Ages == 0..(Window - 1)

Breaker == [state : {"closed", "open"},
            openedAgo : 0..Cooldown,
            failures : [Ages -> 0..Threshold]]

NoFailures == [a \in Ages |-> 0]

NewBreaker == [state |-> "closed", openedAgo |-> 0, failures |-> NoFailures]

\* zcard of the failures set: what record_failure compares with the threshold.
FailureCount(b) == SumFunction(b.failures)

\* The :opened_at key exists and is old enough.
CooledDown(b) == b.state = "open" /\ b.openedAgo >= Cooldown

\* What get_state returns when nothing changes while it reads the two keys.
GetState(b) ==
    IF b.state = "closed" THEN "closed"
    ELSE IF CooledDown(b) THEN "half_open" ELSE "open"

AllowRequest(b) == GetState(b) # "open"

\* record_success: one pipeline sets the state and deletes the other two keys.
AfterSuccess(b) == NewBreaker

\* record_failure, first pipeline: purge, count, then add the new failure.
AfterFailure(b) ==
    [b EXCEPT !.failures[0] = IF @ < Threshold THEN @ + 1 ELSE @]

\* The count was taken before the new failure was added (zcard, then zadd).
ReachesThreshold(b) == FailureCount(b) >= Threshold

\* record_failure, second pipeline: opened_at is the time of the failure, which
\* may be a while ago.
Tripped(b, ago) == [b EXCEPT !.state = "open", !.openedAgo = ago]

\* One tick of the clock.
Older(failures) == [a \in Ages |-> IF a = 0 THEN 0 ELSE failures[a - 1]]

\* Mutant of Elapse: no zremrangebyscore, a failure is never forgotten.
ElapseUnpurged(b) ==
    [b EXCEPT !.openedAgo = IF b.state = "open" /\ @ < Cooldown THEN @ + 1 ELSE @]

Elapse(b) ==
    [state |-> b.state,
     openedAgo |-> IF b.state = "open" /\ b.openedAgo < Cooldown
                   THEN b.openedAgo + 1 ELSE b.openedAgo,
     failures |-> Older(b.failures)]
=============================================================================
