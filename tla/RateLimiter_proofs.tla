------------------------- MODULE RateLimiter_proofs -------------------------
(***************************************************************************)
(* Proofs about RateLimiter, for any workers, clock skew, lag, capacity    *)
(* and costs.                                                              *)
(***************************************************************************)
EXTENDS RateLimiter, TLAPS

LEMMA FilledType ==
    ASSUME bucket \in Buckets \cup {NoBucket}, NEW clock \in Int
    PROVE  Filled(clock) \in Int /\ Filled(clock) <= Capacity
  <1>1. CASE bucket = NoBucket
    BY <1>1, LimiterConfig DEF Filled
  <1>2. CASE bucket # NoBucket
    BY <1>2, LimiterConfig DEF Filled, Buckets
  <1>. QED
    BY <1>1, <1>2

LEMMA TypeInit == Init => TypeOK
  BY DEF Init, TypeOK, NoRequest, Requests

LEMMA TypeStep == TypeOK /\ [Next]_vars => TypeOK'
  <1>. SUFFICES ASSUME TypeOK, [Next]_vars PROVE TypeOK'
    OBVIOUS
  <1>. USE DEF TypeOK
  <1>1. ASSUME NEW w \in Workers, Consume(w)
        PROVE  TypeOK'
    <2>1. PICK cost \in Costs :
             request' = [request EXCEPT ![w] =
                 [pc |-> IF w \in linked THEN "eval" ELSE "connect",
                  cost |-> cost, clock |-> Clock(w)]]
      BY <1>1 DEF Consume
    <2>2. cost \in Nat /\ Clock(w) \in Int
      BY LimiterConfig DEF Clock
    <2>. QED
      BY <1>1, <2>1, <2>2 DEF Consume, Requests
  <1>2. ASSUME NEW w \in Workers, Connect(w) \/ EvalError(w)
        PROVE  TypeOK'
    BY <1>2 DEF Connect, EvalError, Finish, NoRequest, Requests
  <1>3. ASSUME NEW w \in Workers, Eval(w)
        PROVE  TypeOK'
    <2>. DEFINE cost == request[w].cost
                clock == request[w].clock
    <2>1. cost \in Nat /\ clock \in Int /\ Capacity \in Nat
      BY LimiterConfig DEF Requests
    <2>2. Filled(clock) \in Int /\ Filled(clock) <= Capacity
      BY <2>1, FilledType
    <2>3. request' \in [Workers -> Requests] /\ written' \in Nat
      BY <1>3 DEF Eval, Finish, NoRequest, Requests
    <2>4. CASE Grants(cost, clock)
      <3>1. bucket' \in Buckets
        BY <1>3, <2>1, <2>2, <2>4 DEF Eval, Buckets
      <3>. QED
        BY <1>3, <2>1, <2>3, <2>4, <3>1 DEF Eval
    <2>5. CASE ~Grants(cost, clock)
      <3>1. bucket' \in Buckets
        BY <1>3, <2>1, <2>2, <2>5 DEF Eval, Buckets
      <3>2. refusal' \in Refusals
        BY <1>3, <2>1, <2>2, <2>5 DEF Eval, Refusals
      <3>. QED
        BY <1>3, <2>3, <2>5, <3>1, <3>2 DEF Eval
    <2>. QED
      BY <2>4, <2>5
  <1>4. CASE Tick \/ Expire \/ UNCHANGED vars
    BY <1>4 DEF Tick, Expire, vars
  <1>. QED
    BY <1>1, <1>2, <1>3, <1>4 DEF Next

(***************************************************************************)
(* Every reachable state of the limiter has its type; the bucket never     *)
(* holds more than Capacity.                                               *)
(***************************************************************************)
THEOREM TypeCorrect == Spec => []TypeOK
  BY TypeInit, TypeStep, PTL DEF Spec
-----------------------------------------------------------------------------
(***************************************************************************)
(* The strengthening.  A grant lowers tokens - timestamp by its cost, and  *)
(* nothing raises it while the key lives: what was granted and what is     *)
(* left stay below Capacity + timestamp.  When an expired key starts       *)
(* afresh, what was granted by then must be behind the clock of any        *)
(* request still under way, which is what a long enough KeyTTL ensures.    *)
(***************************************************************************)
\* Requests under way carry a clock that was read at most Lag ago.
ClocksRecent ==
    \A w \in Workers :
        ~At(w, "idle") =>
            /\ 0 <= request[w].clock
            /\ now - Lag <= request[w].clock /\ request[w].clock <= now + Skew
            /\ request[w].cost \in Costs

\* The key's tokens are below zero only by as much as its timestamp is behind
\* the latest clock there can be.
BucketRecent ==
    bucket # NoBucket =>
        /\ bucket.timestamp <= written + Skew
        /\ bucket.timestamp <= bucket.tokens + written + Skew

Potential ==
    IF bucket = NoBucket
    THEN granted = 0 \/ granted <= now - Lag
    ELSE granted + bucket.tokens <= Capacity + bucket.timestamp

\* The last refusal says what is missing in the bucket.
RefusalExact ==
    refusal # NoRefusal =>
        /\ refusal.cost \in Costs
        /\ IF bucket = NoBucket
           THEN refusal.clock + refusal.retryAfter <= now - Lag
           ELSE /\ bucket.timestamp = refusal.clock
                /\ bucket.tokens = refusal.cost - refusal.retryAfter

Inv ==
    /\ TypeOK
    /\ ClocksRecent
    /\ BucketRecent
    /\ Potential
    /\ RefusalExact
    /\ written <= now
    /\ RateBound

LEMMA InvInit == Init => Inv
  BY TypeInit, LimiterConfig
     DEF Init, Inv, ClocksRecent, BucketRecent, Potential, RefusalExact, RateBound,
         At, NoRequest

\* What the script finds, in terms of the old bucket.
LEMMA FilledCases ==
    ASSUME TypeOK, NEW clock \in Int
    PROVE  \/ Filled(clock) = Capacity
           \/ /\ bucket # NoBucket
              /\ Filled(clock) = bucket.tokens + (clock - bucket.timestamp)
              /\ Filled(clock) < Capacity
  BY DEF Filled

LEMMA FilledAtMost ==
    ASSUME TypeOK, NEW clock \in Int, bucket # NoBucket
    PROVE  Filled(clock) <= bucket.tokens + (clock - bucket.timestamp)
  <1>1. bucket.tokens \in Int /\ bucket.timestamp \in Int
    BY DEF TypeOK, Buckets
  <1>. QED
    BY <1>1, LimiterConfig DEF Filled

LEMMA EvalStep ==
    ASSUME Inv, NEW w \in Workers, Eval(w)
    PROVE  /\ BucketRecent' /\ Potential' /\ RefusalExact'
           /\ written' <= now' /\ RateBound'
  <1>. USE DEF Inv
  <1>. DEFINE cost == request[w].cost
              clock == request[w].clock
              filled == Filled(clock)
  <1>1. /\ clock \in Int /\ cost \in Costs /\ cost \in 1..Capacity
        /\ 0 <= clock /\ now - Lag <= clock /\ clock <= now + Skew
    <2>1. ~At(w, "idle")
      BY DEF Eval, At
    <2>2. clock \in Int
      BY DEF TypeOK, Requests
    <2>. QED
      BY <2>1, <2>2, LimiterConfig DEF ClocksRecent
  <1>2. filled \in Int /\ filled <= Capacity
    BY <1>1, FilledType DEF TypeOK
  <1>3. /\ now \in Nat /\ written \in Nat /\ granted \in Nat /\ now' = now /\ written' = now
        /\ Capacity \in Nat /\ Skew \in Nat /\ Lag \in Nat
    BY LimiterConfig DEF TypeOK, Eval
  <1>4. bucket # NoBucket => bucket.tokens \in Int /\ bucket.timestamp \in Int
    BY DEF TypeOK, Buckets
  <1>5. granted + filled <= Capacity + clock
    <2>1. CASE bucket = NoBucket
      <3>1. granted <= clock
        BY <1>1, <1>3, <2>1 DEF Potential
      <3>. QED
        BY <1>1, <1>2, <1>3, <3>1
    <2>2. CASE bucket # NoBucket
      <3>1. filled <= bucket.tokens + (clock - bucket.timestamp)
        BY <1>1, <2>2, FilledAtMost
      <3>. QED
        BY <1>1, <1>2, <1>3, <1>4, <2>2, <3>1 DEF Potential
    <2>. QED
      BY <2>1, <2>2
  <1>6. clock <= filled + now + Skew
    <2>1. CASE filled = Capacity
      BY <1>1, <1>3, <2>1
    <2>2. CASE bucket # NoBucket /\ filled = bucket.tokens + (clock - bucket.timestamp)
      BY <1>1, <1>3, <1>4, <2>2 DEF BucketRecent
    <2>. QED
      BY <1>1, <2>1, <2>2, FilledCases
  <1>7. CASE filled >= cost
    <2>1. /\ bucket' = [tokens |-> filled - cost, timestamp |-> clock]
          /\ granted' = granted + cost
          /\ refusal' = NoRefusal
      BY <1>7 DEF Eval, Grants
    <2>2. bucket' # NoBucket /\ bucket'.tokens = filled - cost /\ bucket'.timestamp = clock
      BY <1>1, <1>2, <2>1, LimiterNulls
    <2>3. cost \in Nat
      BY <1>1
    <2>. HIDE DEF cost, clock, filled
    <2>. QED
      BY <1>1, <1>2, <1>3, <1>5, <1>7, <2>1, <2>2, <2>3
         DEF BucketRecent, Potential, RefusalExact, RateBound
  <1>8. CASE ~(filled >= cost)
    <2>1. /\ bucket' = [tokens |-> filled, timestamp |-> clock]
          /\ granted' = granted
          /\ refusal' = [cost |-> cost, clock |-> clock, retryAfter |-> cost - filled]
      BY <1>8 DEF Eval, Grants
    <2>2. bucket' # NoBucket /\ bucket'.tokens = filled /\ bucket'.timestamp = clock
      BY <1>1, <1>2, <2>1, LimiterNulls
    <2>3. /\ refusal'.cost = cost /\ refusal'.clock = clock
          /\ refusal'.retryAfter = cost - filled
      BY <2>1
    <2>4. cost \in Nat
      BY <1>1
    <2>. HIDE DEF cost, clock, filled
    <2>. QED
      BY <1>1, <1>2, <1>3, <1>5, <1>6, <2>1, <2>2, <2>3, <2>4
         DEF BucketRecent, Potential, RefusalExact, RateBound
  <1>. QED
    BY <1>7, <1>8

LEMMA InvStep == Inv /\ [Next]_vars => Inv'
  <1>. SUFFICES ASSUME Inv, [Next]_vars PROVE Inv'
    OBVIOUS
  <1>. USE DEF Inv
  <1>1. TypeOK'
    BY TypeStep
  <1>2. ASSUME NEW w \in Workers, Consume(w)
        PROVE  Inv'
    <2>1. PICK cost \in Costs :
             request' = [request EXCEPT ![w] =
                 [pc |-> IF w \in linked THEN "eval" ELSE "connect",
                  cost |-> cost, clock |-> Clock(w)]]
      BY <1>2 DEF Consume
    <2>2. 0 <= Clock(w) /\ now - Lag <= Clock(w) /\ Clock(w) <= now + Skew
      BY LimiterConfig DEF Clock, TypeOK
    <2>3. ClocksRecent'
      BY <1>2, <2>1, <2>2 DEF Consume, ClocksRecent, At, TypeOK
    <2>. QED
      BY <1>1, <1>2, <2>3 DEF Consume, BucketRecent, Potential, RefusalExact, RateBound
  <1>3. ASSUME NEW w \in Workers, Connect(w) \/ EvalError(w)
        PROVE  Inv'
    <2>1. ClocksRecent'
      BY <1>3 DEF Connect, EvalError, Finish, NoRequest, ClocksRecent, At, TypeOK, Requests
    <2>. QED
      BY <1>1, <1>3, <2>1
         DEF Connect, EvalError, BucketRecent, Potential, RefusalExact, RateBound
  <1>4. ASSUME NEW w \in Workers, Eval(w)
        PROVE  Inv'
    <2>1. ClocksRecent'
      BY <1>4 DEF Eval, Finish, NoRequest, ClocksRecent, At, TypeOK, Requests
    <2>. QED
      BY <1>1, <1>4, <2>1, EvalStep
  <1>5. CASE Tick
    <2>1. ASSUME NEW w \in Workers, ~At(w, "idle")
          PROVE  now' - Lag <= request[w].clock /\ request[w].clock <= now' + Skew
      <3>1. Clock(w) - request[w].clock < Lag
        BY <1>5, <2>1 DEF Tick
      <3>2. Offset[w] \in Nat /\ request[w].clock \in Int
        BY LimiterConfig DEF TypeOK, Requests
      <3>. QED
        BY <1>5, <2>1, <3>1, <3>2, LimiterConfig DEF Tick, Clock, ClocksRecent, TypeOK
    <2>2. ClocksRecent'
      BY <1>5, <2>1 DEF Tick, ClocksRecent, At
    <2>3. refusal # NoRefusal => refusal.clock + refusal.retryAfter \in Int
      BY DEF TypeOK, Refusals
    <2>4. Potential' /\ RefusalExact' /\ written' <= now' /\ RateBound'
      BY <1>5, <2>3, LimiterConfig DEF Tick, Potential, RefusalExact, RateBound, TypeOK
    <2>. QED
      BY <1>1, <1>5, <2>2, <2>4 DEF Tick, BucketRecent
  <1>6. CASE Expire
    <2>1. /\ bucket.tokens \in Int /\ bucket.timestamp \in Int
          /\ now \in Nat /\ written \in Nat /\ granted \in Nat
      BY <1>6 DEF Expire, TypeOK, Buckets
    <2>2. Potential'
      BY <1>6, <2>1, LimiterConfig DEF Expire, Potential, BucketRecent
    <2>3. refusal # NoRefusal => /\ refusal.cost \in 1..Capacity
                                 /\ refusal.clock \in Int /\ refusal.retryAfter \in Int
      BY LimiterConfig DEF RefusalExact, TypeOK, Refusals
    <2>4. RefusalExact'
      BY <1>6, <2>1, <2>3, LimiterConfig DEF Expire, RefusalExact, BucketRecent
    <2>. QED
      BY <1>1, <1>6, <2>2, <2>4 DEF Expire, ClocksRecent, At, BucketRecent, RateBound
  <1>7. CASE UNCHANGED vars
    BY <1>1, <1>7
       DEF vars, ClocksRecent, At, BucketRecent, Potential, RefusalExact, RateBound
  <1>. QED
    BY <1>2, <1>3, <1>4, <1>5, <1>6, <1>7 DEF Next

LEMMA InvCorrect == Spec => []Inv
  BY InvInit, InvStep, PTL DEF Spec

(***************************************************************************)
(* No more than one capacity above the refill is ever granted, with clocks *)
(* that differ by any Skew and requests overtaken by any Lag, for keys     *)
(* that outlive the refill of an empty bucket.                             *)
(***************************************************************************)
THEOREM RateBoundCorrect == Spec => []RateBound
  BY InvCorrect, PTL DEF Inv

LEMMA RetryAfterStep ==
    ASSUME Inv, NEW w \in Workers, Eval(w), refusal # NoRefusal,
           request[w].cost = refusal.cost
    PROVE  granted' > granted
              <=> request[w].clock >= refusal.clock + refusal.retryAfter
  <1>. USE DEF Inv
  <1>. DEFINE cost == request[w].cost
              clock == request[w].clock
  <1>1. /\ clock \in Int /\ cost \in 1..Capacity /\ now - Lag <= clock
    <2>1. ~At(w, "idle")
      BY DEF Eval, At
    <2>2. clock \in Int
      BY DEF TypeOK, Requests
    <2>. QED
      BY <2>1, <2>2, LimiterConfig DEF ClocksRecent
  <1>2. /\ refusal.clock \in Int /\ refusal.retryAfter \in Int
        /\ granted \in Nat /\ Capacity \in Nat /\ Lag \in Nat /\ now \in Nat
    BY LimiterConfig DEF TypeOK, Refusals
  <1>3. granted' > granted <=> Filled(clock) >= cost
    BY <1>1, <1>2 DEF Eval, Grants
  <1>4. CASE bucket = NoBucket
    BY <1>1, <1>2, <1>3, <1>4 DEF Filled, RefusalExact
  <1>5. CASE bucket # NoBucket
    <2>1. bucket.tokens \in Int /\ bucket.timestamp \in Int
      BY <1>5 DEF TypeOK, Buckets
    <2>. QED
      BY <1>1, <1>2, <1>3, <1>5, <2>1 DEF Filled, RefusalExact
  <1>. QED
    BY <1>4, <1>5

(***************************************************************************)
(* Every Retry-After the limiter sends is exact, also after the key has    *)
(* expired and for tokens driven below zero by late clocks.                *)
(***************************************************************************)
THEOREM RetryAfterCorrect == Spec => RetryAfterExact
  <1>1. Inv /\ [Next]_vars =>
            [\A w \in Workers :
                Eval(w) /\ refusal # NoRefusal /\ request[w].cost = refusal.cost
                    => (granted' > granted
                            <=> request[w].clock >= refusal.clock + refusal.retryAfter)]_vars
    BY RetryAfterStep
  <1>. QED
    BY <1>1, InvCorrect, PTL DEF Spec, RetryAfterExact
=============================================================================
