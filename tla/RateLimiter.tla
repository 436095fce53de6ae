----------------------------- MODULE RateLimiter -----------------------------
(***************************************************************************)
(* The token bucket of one identity (backend/api/middlewares/              *)
(* rate_limiter.py), shared by the workers of the API through one Redis    *)
(* key.  The Lua script that spends from it is atomic, but it is given the *)
(* time: the worker reads its own clock first, and may be overtaken by     *)
(* requests with later clocks, or by workers whose clocks are ahead.       *)
(*                                                                         *)
(* Time is in whole seconds, and tokens are counted in units of the refill *)
(* of one second: a token of the api bucket (1.0/s) is one unit, a token   *)
(* of the chat bucket (0.5/s) two.                                         *)
(***************************************************************************)
EXTENDS Integers

CONSTANTS
    Workers,
    Offset,    \* how far each worker's clock is ahead of the slowest one
    Skew,      \* no clock is further ahead
    Lag,       \* no worker takes longer from its clock to its script
    Capacity,
    Costs,     \* what requests cost: 1 or 5 tokens
    KeyTTL,    \* EXPIRE: seconds
    NoBucket,  \* the key does not exist
    NoRefusal,
    MaxTime    \* bound of the checked instances

ASSUME LimiterConfig ==
    /\ Offset \in [Workers -> 0..Skew]
    /\ Skew \in Nat
    /\ Lag \in Nat
    /\ Capacity \in Nat
    /\ Costs \subseteq 1..Capacity
    /\ KeyTTL \in Nat /\ KeyTTL >= Capacity + Skew + Lag
    /\ MaxTime \in Nat

\* Not of these types, so never taken for one of their values.
ASSUME LimiterNulls ==
    /\ NoBucket \notin [tokens : Int, timestamp : Int]
    /\ NoRefusal \notin [cost : Nat, clock : Int, retryAfter : Int]

VARIABLES
    now,      \* real time, and the time of the slowest clock
    bucket,   \* the key: its fields tokens and timestamp
    written,  \* real time of the key's last HMSET, from which EXPIRE counts
    linked,   \* workers whose limiter holds a Redis connection
    request,  \* what each worker is serving
    granted,  \* observer: units granted by the script so far
    refusal   \* observer: the last reply, if it was a refusal

vars == <<now, bucket, written, linked, request, granted, refusal>>

NoRequest == [pc |-> "idle", cost |-> 0, clock |-> 0]

Clock(w) == now + Offset[w]

Init ==
    /\ now = 0
    /\ bucket = NoBucket
    /\ written = 0
    /\ linked = {}
    /\ request = [w \in Workers |-> NoRequest]
    /\ granted = 0
    /\ refusal = NoRefusal
-----------------------------------------------------------------------------
At(w, pc) == request[w].pc = pc
Finish(w) == request' = [request EXCEPT ![w] = NoRequest]

\* consume: the clock is read first.
Consume(w) ==
    /\ At(w, "idle")
    /\ \E cost \in Costs :
          request' = [request EXCEPT ![w] =
              [pc |-> IF w \in linked THEN "eval" ELSE "connect",
               cost |-> cost, clock |-> Clock(w)]]
    /\ UNCHANGED <<now, bucket, written, linked, granted, refusal>>

\* _get_redis: a worker without a connection tries to get one, and lets the
\* request pass when it cannot.
Connect(w) ==
    /\ At(w, "connect")
    /\ \/ linked' = linked \cup {w} /\ request' = [request EXCEPT ![w].pc = "eval"]
       \/ Finish(w) /\ UNCHANGED linked
    /\ UNCHANGED <<now, bucket, written, granted, refusal>>

\* Mutant of Filled: no min(capacity, ...).
FilledUncapped(clock) ==
    IF bucket = NoBucket THEN Capacity ELSE bucket.tokens + (clock - bucket.timestamp)

\* The script: tokens in the bucket at the time it is told.
Filled(clock) ==
    IF bucket = NoBucket THEN Capacity
    ELSE LET filled == bucket.tokens + (clock - bucket.timestamp)
         IN  IF filled < Capacity THEN filled ELSE Capacity

Grants(cost, clock) == Filled(clock) >= cost

\* Mutants of Eval: the timestamp is written only when the key is new, so that
\* time refills twice; a refusal moves the timestamp and forgets the refill.
EvalWriting(w, granting, refusing) ==
    LET cost == request[w].cost
        clock == request[w].clock
    IN
    /\ At(w, "eval")
    /\ \/ Grants(cost, clock) /\ bucket' = granting /\ granted' = granted + cost
          /\ refusal' = NoRefusal
       \/ /\ ~Grants(cost, clock) /\ bucket' = refusing /\ UNCHANGED granted
          /\ refusal' = [cost |-> cost, clock |-> clock, retryAfter |-> cost - Filled(clock)]
    /\ written' = now
    /\ Finish(w)
    /\ UNCHANGED <<now, linked>>

EvalOldTimestamp(w) ==
    LET clock == request[w].clock
        since == IF bucket = NoBucket THEN clock ELSE bucket.timestamp
    IN  EvalWriting(w, [tokens |-> Filled(clock) - request[w].cost, timestamp |-> since],
                       [tokens |-> Filled(clock), timestamp |-> since])

EvalNoRefill(w) ==
    LET clock == request[w].clock
        kept == IF bucket = NoBucket THEN Capacity ELSE bucket.tokens
    IN  EvalWriting(w, [tokens |-> Filled(clock) - request[w].cost, timestamp |-> clock],
                       [tokens |-> kept, timestamp |-> clock])

Eval(w) ==
    LET cost == request[w].cost
        clock == request[w].clock
    IN
    /\ At(w, "eval")
    /\ \/ /\ Grants(cost, clock)
          /\ bucket' = [tokens |-> Filled(clock) - cost, timestamp |-> clock]
          /\ granted' = granted + cost
          /\ refusal' = NoRefusal
       \/ /\ ~Grants(cost, clock)
          /\ bucket' = [tokens |-> Filled(clock), timestamp |-> clock]
          /\ refusal' = [cost |-> cost, clock |-> clock,
                         retryAfter |-> cost - Filled(clock)]
          /\ UNCHANGED granted
    /\ written' = now
    /\ Finish(w)
    /\ UNCHANGED <<now, linked>>

\* Redis does not answer: the exception leaves the middleware.
EvalError(w) ==
    /\ At(w, "eval")
    /\ Finish(w)
    /\ UNCHANGED <<now, bucket, written, linked, granted, refusal>>
-----------------------------------------------------------------------------
Tick ==
    /\ now < MaxTime
    /\ \A w \in Workers : At(w, "idle") \/ Clock(w) - request[w].clock < Lag
    /\ now' = now + 1
    /\ UNCHANGED <<bucket, written, linked, request, granted, refusal>>

Expire ==
    /\ bucket # NoBucket
    /\ now - written >= KeyTTL
    /\ bucket' = NoBucket
    /\ UNCHANGED <<now, written, linked, request, granted, refusal>>

Next ==
    \/ \E w \in Workers : Consume(w) \/ Connect(w) \/ Eval(w) \/ EvalError(w)
    \/ Tick
    \/ Expire

Spec == Init /\ [][Next]_vars
-----------------------------------------------------------------------------
Buckets == [tokens : {t \in Int : t <= Capacity}, timestamp : Int]
Requests == [pc : {"idle", "connect", "eval"}, cost : Nat, clock : Int]
Refusals == [cost : Nat, clock : Int, retryAfter : Int]

TypeOK ==
    /\ now \in Nat
    /\ bucket \in Buckets \cup {NoBucket}
    /\ written \in Nat
    /\ linked \subseteq Workers
    /\ request \in [Workers -> Requests]
    /\ granted \in Nat
    /\ refusal \in Refusals \cup {NoRefusal}

(***************************************************************************)
(* What the bucket is for: all that was ever granted is one capacity plus  *)
(* the refill of the time that has passed, and the skew of the clocks adds *)
(* to it once, not once per request that is overtaken or out of step.      *)
(***************************************************************************)
RateBound == granted <= Capacity + now + Skew

(***************************************************************************)
(* The Retry-After of a 429 is exact: of requests of the same cost, if no  *)
(* other comes in between, one whose clock has advanced by that much is    *)
(* granted and one that comes earlier is not.                              *)
(***************************************************************************)
RetryAfterExact ==
    [][\A w \in Workers :
        Eval(w) /\ refusal # NoRefusal /\ request[w].cost = refusal.cost
            => (granted' > granted
                    <=> request[w].clock >= refusal.clock + refusal.retryAfter)]_vars
=============================================================================
