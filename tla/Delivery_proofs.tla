--------------------------- MODULE Delivery_proofs ---------------------------
(***************************************************************************)
(* What the notification workers keep, for any number of workers, ids and  *)
(* tasks, and with any number of breaks.                                   *)
(***************************************************************************)
EXTENDS Delivery, SequenceTheorems, FiniteSetTheorems, TLAPS

\* What is left of an enumeration of places.
LEMMA TaskType ==
    ASSUME TypeOK, NEW w \in Workers
    PROVE  /\ Id(w) \in Ids
           /\ at[w] \in Places
           /\ task[w] \in Tasks /\ task[w].channels \subseteq {"in_app", "email"}
BY DEF TypeOK, Id, Tasks

\* A counter stays a counter.
LEMMA Bump ==
    ASSUME NEW S, NEW f \in [Ids -> S], NEW n \in Ids, f[n] + 1 \in S
    PROVE  [f EXCEPT ![n] = @ + 1] \in [Ids -> S]
OBVIOUS

LEMMA TypeInit == ASSUME Init PROVE TypeOK
<1> USE DeliveryConfig
<1>1. Tasks # {}
  <2>1. PICK n \in Ids : TRUE
    OBVIOUS
  <2>2. [id |-> n, channels |-> {}] \in Tasks
    BY <2>1 DEF Tasks
  <2> QED BY <2>2
<1>2. (CHOOSE t \in Tasks : TRUE) \in Tasks
  BY <1>1
<1> QED BY <1>2 DEF Init, TypeOK, Statuses, Places

LEMMA TypeStep == ASSUME TypeOK, [Next]_vars PROVE TypeOK'
<1> USE DeliveryConfig
<1>1. ASSUME NEW n \in Ids, Notify(n) PROVE TypeOK'
  BY <1>1 DEF TypeOK, Notify, Statuses
<1>2. ASSUME NEW n \in Ids, MarkRead(n) PROVE TypeOK'
  BY <1>2 DEF TypeOK, MarkRead, Statuses
<1>3. ASSUME NEW n \in Ids, Expire(n) PROVE TypeOK'
  BY <1>3 DEF TypeOK, Expire
<1>4. ASSUME NEW t \in Tasks, Queue(t) PROVE TypeOK'
  BY <1>4 DEF TypeOK, Queue
<1>5. ASSUME NEW w \in Workers, Pop(w) PROVE TypeOK'
  <2>1. queue \in Seq(Tasks) /\ queue # <<>>
    BY <1>5 DEF TypeOK, Pop
  <2>2. Head(queue) \in Tasks /\ Tail(queue) \in Seq(Tasks)
    BY <2>1, HeadTailProperties
  <2> QED BY <1>5, <2>2 DEF TypeOK, Pop, Goto, Places
<1>6. ASSUME NEW w \in Workers, CheckKey(w) PROVE TypeOK'
  <2>1. raced' \in [Ids -> Nat]
    <3>1. raced \in [Ids -> Nat]
      BY DEF TypeOK
    <3>2. Id(w) \in Ids
      BY TaskType
    <3>3. raced[Id(w)] + 1 \in Nat
      BY <3>1, <3>2
    <3>4. [raced EXCEPT ![Id(w)] = @ + 1] \in [Ids -> Nat]
      BY <3>1, <3>2, <3>3, Bump
    <3> QED BY <1>6, <3>1, <3>4 DEF CheckKey
  <2> QED BY <1>6, <2>1 DEF TypeOK, CheckKey, Goto, Places
<1>7. ASSUME NEW w \in Workers, Missing(w) PROVE TypeOK'
  BY <1>7, TaskType DEF TypeOK, Missing, Goto, Places
<1>8. ASSUME NEW w \in Workers, Fetch(w) PROVE TypeOK'
  BY <1>8 DEF TypeOK, Fetch, Goto, Places
<1>9. ASSUME NEW w \in Workers, Deliver(w) PROVE TypeOK'
  <2>1. made' \in [Ids -> Nat]
    <3>1. Id(w) \in Ids /\ made \in [Ids -> Nat]
      BY TaskType DEF TypeOK
    <3>2. made[Id(w)] + 1 \in Nat
      BY <3>1
    <3>3. [made EXCEPT ![Id(w)] = @ + 1] \in [Ids -> Nat]
      BY <3>1, <3>2, Bump
    <3> QED BY <1>9, <3>3 DEF Deliver
  <2> QED BY <1>9, <2>1 DEF TypeOK, Deliver, Goto, Places
<1>10. ASSUME NEW w \in Workers, Save(w) PROVE TypeOK'
  BY <1>10, TaskType DEF TypeOK, Save, Goto, Places, Outcome, Statuses
<1>11. ASSUME NEW w \in Workers, SetKey(w) PROVE TypeOK'
  BY <1>11, TaskType DEF TypeOK, SetKey, Goto, Places
<1>12. ASSUME NEW w \in Workers, Break(w) PROVE TypeOK'
  <2>1. lost' \in [Ids -> Nat]
    <3>1. lost \in [Ids -> Nat]
      BY DEF TypeOK
    <3>2. Id(w) \in Ids
      BY TaskType
    <3>3. lost[Id(w)] + 1 \in Nat
      BY <3>1, <3>2
    <3>4. [lost EXCEPT ![Id(w)] = @ + 1] \in [Ids -> Nat]
      BY <3>1, <3>2, <3>3, Bump
    <3> QED BY <1>12, <3>1, <3>4 DEF Break
  <2>2. broken' \in [Ids -> 0..MaxBreaks]
    <3>1. Id(w) \in Ids /\ broken \in [Ids -> 0..MaxBreaks] /\ broken[Id(w)] < MaxBreaks
      BY <1>12, TaskType DEF TypeOK, Break
    <3>2. broken[Id(w)] \in 0..MaxBreaks
      BY <3>1
    <3>3. broken[Id(w)] + 1 \in 0..MaxBreaks
      BY <3>1, <3>2
    <3> QED BY <1>12, <3>1, <3>3, Bump DEF Break
  <2> QED BY <1>12, <2>1, <2>2 DEF TypeOK, Break, Goto, Places
<1>13. CASE UNCHANGED vars
  BY <1>13 DEF TypeOK, vars
<1> QED BY <1>1, <1>2, <1>3, <1>4, <1>5, <1>6, <1>7, <1>8, <1>9, <1>10, <1>11,
          <1>12, <1>13 DEF Next, Work

\* Statuses, tasks, keys and counters keep their types.
THEOREM TypeCorrect == Spec => []TypeOK
<1>1. Init => TypeOK
  BY TypeInit
<1>2. TypeOK /\ [Next]_vars => TypeOK'
  BY TypeStep
<1> QED BY <1>1, <1>2, PTL DEF Spec
-----------------------------------------------------------------------------
(***************************************************************************)
(* Redeliveries.  A worker past EXISTS is going to deliver; the first one  *)
(* needs no excuse while the key, or a worker that holds the id, stands    *)
(* for it.                                                                 *)
(***************************************************************************)
Excuses(n) == expired[n] + lost[n] + raced[n]
Covered(n) == n \in keys \/ Undelivered(n) \cup Owing(n) # {}

IdInv(n) == made[n] + Cardinality(Undelivered(n)) <= Excuses(n) + (IF Covered(n) THEN 1 ELSE 0)

RedeliveryInv == \A n \in Ids : IdInv(n)

LEMMA IdNumbers ==
    ASSUME TypeOK, NEW n \in Ids
    PROVE  /\ made[n] \in Nat /\ Excuses(n) \in Nat
           /\ expired[n] \in Nat /\ lost[n] \in Nat /\ raced[n] \in Nat
BY DeliveryConfig DEF TypeOK, Excuses

LEMMA UndeliveredNumber ==
    ASSUME NEW n
    PROVE  IsFiniteSet(Undelivered(n)) /\ Cardinality(Undelivered(n)) \in Nat
<1>1. Undelivered(n) \subseteq Workers
  BY DEF Undelivered
<1> QED BY <1>1, DeliveryConfig, FS_Subset, FS_CardinalityType

\* A step that moves no worker between the two sets and counts nothing.
LEMMA StillKeeps ==
    ASSUME TypeOK, NEW n \in Ids, IdInv(n),
           Undelivered(n)' = Undelivered(n), Owing(n)' = Owing(n),
           made'[n] = made[n], expired'[n] = expired[n], lost'[n] = lost[n], raced'[n] = raced[n],
           n \in keys => n \in keys'
    PROVE  IdInv(n)'
<1>1. made[n] \in Nat /\ Excuses(n) \in Nat /\ Cardinality(Undelivered(n)) \in Nat
  BY IdNumbers, UndeliveredNumber
<1>2. Excuses(n)' = Excuses(n) /\ (Covered(n) => Covered(n)')
  BY DEF Excuses, Covered
<1> QED BY <1>1, <1>2 DEF IdInv

\* A step of one worker, seen from an id it has no task of.
LEMMA OtherId ==
    ASSUME NEW w \in Workers, NEW n, task' = task, n # Id(w),
           at \in [Workers -> Places], NEW place, Goto(w, place)
    PROVE  Undelivered(n)' = Undelivered(n) /\ Owing(n)' = Owing(n)
BY DEF Undelivered, Owing, Id, Goto

\* The workers of w's id after w went to a place.
LEMMA OwnId ==
    ASSUME NEW w \in Workers, task' = task, NEW place \in Places, Goto(w, place),
           at \in [Workers -> Places], NEW n, n = Id(w)
    PROVE  /\ Undelivered(n)' = IF place \in {"checked", "fetched"}
                                THEN Undelivered(n) \cup {w} ELSE Undelivered(n) \ {w}
           /\ Owing(n)' = IF place \in {"delivered", "saved"}
                          THEN Owing(n) \cup {w} ELSE Owing(n) \ {w}
<1>1. at'[w] = place /\ \A v \in Workers \ {w} : at'[v] = at[v]
  BY DEF Goto
<1>2. \A v \in Workers : Id(v)' = Id(v)
  BY DEF Id
<1> QED BY <1>1, <1>2 DEF Undelivered, Owing

\* Counting the workers that have not delivered when one of them joins or leaves.
LEMMA CountAfter ==
    ASSUME NEW w \in Workers, NEW n \in Ids
    PROVE  /\ w \notin Undelivered(n) =>
                  Cardinality(Undelivered(n) \cup {w}) = Cardinality(Undelivered(n)) + 1
           /\ w \in Undelivered(n) =>
                  /\ Cardinality(Undelivered(n)) >= 1
                  /\ Cardinality(Undelivered(n) \ {w}) = Cardinality(Undelivered(n)) - 1
           /\ Undelivered(n) = {} => Cardinality(Undelivered(n)) = 0
<1>1. IsFiniteSet(Undelivered(n)) /\ Cardinality(Undelivered(n)) \in Nat
  BY UndeliveredNumber
<1>2. w \notin Undelivered(n) =>
          Cardinality(Undelivered(n) \cup {w}) = Cardinality(Undelivered(n)) + 1
  BY <1>1, FS_AddElement
<1>3. w \in Undelivered(n) => Cardinality(Undelivered(n) \ {w}) = Cardinality(Undelivered(n)) - 1
  BY <1>1, FS_RemoveElement
<1>4. Undelivered(n) # {} => Cardinality(Undelivered(n)) # 0
  BY <1>1, FS_EmptySet
<1>5. Undelivered(n) = {} => Cardinality(Undelivered(n)) = 0
  BY FS_EmptySet
<1>6. \A k \in Nat : k # 0 => k >= 1
  OBVIOUS
<1> QED BY <1>1, <1>2, <1>3, <1>4, <1>5, <1>6

\* A step of w, seen from another id: nothing of it changes.
LEMMA OtherStep ==
    ASSUME TypeOK, NEW w \in Workers, NEW n \in Ids, IdInv(n), n # Id(w), task' = task,
           NEW place \in Places, Goto(w, place), n \in keys => n \in keys',
           expired' = expired,
           made'[n] = made[n], lost'[n] = lost[n], raced'[n] = raced[n]
    PROVE  IdInv(n)'
<1>1. at \in [Workers -> Places]
  BY DEF TypeOK
<1>2. Undelivered(n)' = Undelivered(n) /\ Owing(n)' = Owing(n)
  BY <1>1, OtherId
<1> QED BY <1>2, StillKeeps

\* Where w is, in terms of the two sets.
LEMMA WhereIs ==
    ASSUME NEW w \in Workers
    PROVE  /\ w \in Undelivered(Id(w)) <=> at[w] \in {"checked", "fetched"}
           /\ w \in Owing(Id(w)) <=> at[w] \in {"delivered", "saved"}
BY DEF Undelivered, Owing

LEMMA PopKeeps ==
    ASSUME TypeOK, NEW w \in Workers, Pop(w), NEW n \in Ids, IdInv(n) PROVE IdInv(n)'
<1>1. /\ at[w] = "idle" /\ at'[w] = "popped"
      /\ \A v \in Workers \ {w} : at'[v] = at[v] /\ Id(v)' = Id(v)
  BY DEF Pop, At, Goto, TypeOK, Id
<1>2. Undelivered(n)' = Undelivered(n) /\ Owing(n)' = Owing(n)
  BY <1>1 DEF Undelivered, Owing
<1> QED BY <1>2, StillKeeps DEF Pop

LEMMA CheckKeeps ==
    ASSUME TypeOK, NEW w \in Workers, CheckKey(w), NEW n \in Ids, IdInv(n) PROVE IdInv(n)'
<1>0. /\ at \in [Workers -> Places] /\ Id(w) \in Ids /\ at[w] = "popped" /\ task' = task
      /\ keys' = keys /\ expired' = expired /\ made' = made /\ lost' = lost
      /\ raced \in [Ids -> Nat]
  BY TaskType DEF CheckKey, At, TypeOK
<1>1. w \notin Undelivered(Id(w)) /\ w \notin Owing(Id(w))
  BY <1>0, WhereIs
<1>2. CASE Duplicate(w)
  <2>1. Goto(w, "idle") /\ raced' = raced
    BY <1>2 DEF CheckKey
  <2>2. CASE n # Id(w)
    BY <1>0, <2>1, <2>2, OtherStep DEF Places
  <2>3. CASE n = Id(w)
    <3>1. Undelivered(n)' = Undelivered(n) /\ Owing(n)' = Owing(n)
      BY <1>0, <1>1, <2>1, <2>3, OwnId DEF Places
    <3> QED BY <1>0, <2>1, <3>1, StillKeeps
  <2> QED BY <2>2, <2>3
<1>3. CASE ~Duplicate(w)
  <2>1. Goto(w, "checked")
    BY <1>3 DEF CheckKey
  <2>2. raced' = IF Undelivered(Id(w)) \cup Owing(Id(w)) # {}
                 THEN [raced EXCEPT ![Id(w)] = @ + 1] ELSE raced
    BY <1>3 DEF CheckKey
  <2>3. CASE n # Id(w)
    <3>1. raced'[n] = raced[n]
      BY <1>0, <2>2, <2>3
    <3> QED BY <1>0, <2>1, <2>3, <3>1, OtherStep DEF Places
  <2>4. CASE n = Id(w)
    <3>1. Undelivered(n)' = Undelivered(n) \cup {w} /\ Owing(n)' = Owing(n)
      BY <1>0, <1>1, <2>1, <2>4, OwnId DEF Places
    <3>2. Cardinality(Undelivered(n)') = Cardinality(Undelivered(n)) + 1
      BY <1>1, <2>4, <3>1, CountAfter
    <3>3. Covered(n)'
      BY <3>1 DEF Covered
    <3>4. n \notin keys
      BY <1>3, <2>4 DEF Duplicate
    <3>5. made[n] \in Nat /\ expired[n] \in Nat /\ lost[n] \in Nat /\ raced[n] \in Nat
          /\ Cardinality(Undelivered(n)) \in Nat
      BY IdNumbers, UndeliveredNumber
    <3>6. CASE Undelivered(n) \cup Owing(n) # {}
      <4>1. raced'[n] = raced[n] + 1
        BY <1>0, <2>2, <2>4, <3>6
      <4>2. Covered(n)
        BY <3>6 DEF Covered
      <4> QED BY <1>0, <3>2, <3>3, <3>5, <4>1, <4>2 DEF IdInv, Excuses
    <3>7. CASE Undelivered(n) \cup Owing(n) = {}
      <4>1. raced'[n] = raced[n]
        BY <1>0, <2>2, <2>4, <3>7
      <4>2. ~Covered(n)
        BY <3>4, <3>7 DEF Covered
      <4> QED BY <1>0, <3>2, <3>3, <3>5, <4>1, <4>2 DEF IdInv, Excuses
    <3> QED BY <3>6, <3>7
  <2> QED BY <2>3, <2>4
<1> QED BY <1>2, <1>3

\* A worker that does not deliver leaves, or stays, and the id stays covered.
LEMMA QuietKeeps ==
    ASSUME TypeOK, NEW w \in Workers, NEW n \in Ids, IdInv(n), task' = task,
           NEW place \in Places, Goto(w, place), at[w] \in {"checked", "fetched", "delivered", "saved"},
           at[w] \in {"delivered", "saved"} => place \notin {"checked", "fetched"},
           n \in keys => n \in keys',
           n = Id(w) => n \in keys' \/ place \in {"checked", "fetched", "delivered", "saved"},
           expired' = expired, made' = made, lost' = lost, raced' = raced
    PROVE  IdInv(n)'
<1>0. at \in [Workers -> Places]
  BY DEF TypeOK
<1>1. CASE n # Id(w)
  BY <1>1, OtherStep
<1>2. CASE n = Id(w)
  <2>1. made[n] \in Nat /\ Excuses(n) \in Nat /\ Cardinality(Undelivered(n)) \in Nat
    BY IdNumbers, UndeliveredNumber
  <2>2. Undelivered(n)' = Undelivered(n) \/ (w \in Undelivered(n) /\ Undelivered(n)' = Undelivered(n) \ {w})
    BY <1>0, <1>2, OwnId, WhereIs
  <2>3. Cardinality(Undelivered(n)') \in Nat /\ Cardinality(Undelivered(n)') <= Cardinality(Undelivered(n))
    <3>1. CASE Undelivered(n)' = Undelivered(n)
      BY <2>1, <3>1
    <3>2. CASE w \in Undelivered(n) /\ Undelivered(n)' = Undelivered(n) \ {w}
      <4>1. /\ Cardinality(Undelivered(n)) >= 1
            /\ Cardinality(Undelivered(n)') = Cardinality(Undelivered(n)) - 1
        BY <3>2, CountAfter
      <4> QED BY <2>1, <4>1
    <3> QED BY <2>2, <3>1, <3>2
  <2>4. Covered(n)'
    <3>1. CASE n \in keys'
      BY <3>1 DEF Covered
    <3>2. CASE place \in {"checked", "fetched", "delivered", "saved"}
      <4>1. w \in Undelivered(n)' \cup Owing(n)'
        BY <1>0, <1>2, <3>2, OwnId
      <4> QED BY <4>1 DEF Covered
    <3> QED BY <1>2, <3>1, <3>2
  <2>5. Excuses(n)' = Excuses(n) /\ made'[n] = made[n]
    BY DEF Excuses
  <2> QED BY <2>1, <2>3, <2>4, <2>5 DEF IdInv
<1> QED BY <1>1, <1>2

LEMMA DeliverKeeps ==
    ASSUME TypeOK, NEW w \in Workers, Deliver(w), NEW n \in Ids, IdInv(n) PROVE IdInv(n)'
<1>0. /\ at \in [Workers -> Places] /\ Id(w) \in Ids /\ at[w] = "fetched" /\ task' = task
      /\ Goto(w, "delivered") /\ made \in [Ids -> Nat]
      /\ keys' = keys /\ expired' = expired /\ lost' = lost /\ raced' = raced
      /\ made' = [made EXCEPT ![Id(w)] = @ + 1]
  BY TaskType DEF Deliver, At, TypeOK
<1>1. CASE n # Id(w)
  <2>1. made'[n] = made[n]
    BY <1>0, <1>1
  <2> QED BY <1>0, <1>1, <2>1, OtherStep DEF Places
<1>2. CASE n = Id(w)
  <2>1. made[n] \in Nat /\ Excuses(n) \in Nat /\ Cardinality(Undelivered(n)) \in Nat
    BY IdNumbers, UndeliveredNumber
  <2>2. /\ w \in Undelivered(n) /\ Undelivered(n)' = Undelivered(n) \ {w}
        /\ w \in Owing(n)'
    BY <1>0, <1>2, OwnId, WhereIs DEF Places
  <2>3. Cardinality(Undelivered(n)') = Cardinality(Undelivered(n)) - 1
    BY <2>2, CountAfter
  <2>4. Covered(n) /\ Covered(n)' /\ Excuses(n)' = Excuses(n) /\ made'[n] = made[n] + 1
    BY <1>0, <1>2, <2>2 DEF Covered, Excuses
  <2> QED BY <2>1, <2>3, <2>4 DEF IdInv
<1> QED BY <1>1, <1>2

LEMMA BreakKeeps ==
    ASSUME TypeOK, NEW w \in Workers, Break(w), NEW n \in Ids, IdInv(n) PROVE IdInv(n)'
<1>0. /\ at \in [Workers -> Places] /\ Id(w) \in Ids /\ task' = task
      /\ Goto(w, "idle") /\ lost \in [Ids -> Nat]
      /\ keys' = keys /\ expired' = expired /\ made' = made /\ raced' = raced
      /\ lost' = IF w \in Owing(Id(w)) THEN [lost EXCEPT ![Id(w)] = @ + 1] ELSE lost
  BY TaskType DEF Break, TypeOK
<1>1. CASE n # Id(w)
  <2>1. lost'[n] = lost[n]
    BY <1>0, <1>1
  <2> QED BY <1>0, <1>1, <2>1, OtherStep DEF Places
<1>2. CASE n = Id(w)
  <2>1. /\ made[n] \in Nat /\ expired[n] \in Nat /\ lost[n] \in Nat /\ raced[n] \in Nat
        /\ Cardinality(Undelivered(n)) \in Nat
    BY IdNumbers, UndeliveredNumber
  <2>2. Undelivered(n)' = Undelivered(n) \ {w} /\ Owing(n)' = Owing(n) \ {w}
    BY <1>0, <1>2, OwnId DEF Places
  <2>3. CASE w \in Undelivered(n)
    <3>1. Cardinality(Undelivered(n)') = Cardinality(Undelivered(n)) - 1
      BY <2>2, <2>3, CountAfter
    <3>2. Covered(n) /\ w \notin Owing(n)
      BY <1>2, <2>3, WhereIs DEF Covered
    <3>3. Excuses(n)' = Excuses(n) /\ made'[n] = made[n] /\ Excuses(n) \in Nat
      BY <1>0, <1>2, <2>1, <3>2 DEF Excuses
    <3> QED BY <2>1, <3>1, <3>2, <3>3 DEF IdInv
  <2>4. CASE w \in Owing(n)
    <3>1. Undelivered(n)' = Undelivered(n)
      BY <1>2, <2>2, <2>4, WhereIs
    <3>2. lost'[n] = lost[n] + 1
      BY <1>0, <1>2, <2>4
    <3>3. Excuses(n)' = Excuses(n) + 1 /\ made'[n] = made[n] /\ Excuses(n) \in Nat
      BY <1>0, <2>1, <3>2 DEF Excuses
    <3> QED BY <2>1, <3>1, <3>3 DEF IdInv
  <2>5. CASE w \notin Undelivered(n) /\ w \notin Owing(n)
    <3>1. Undelivered(n)' = Undelivered(n) /\ Owing(n)' = Owing(n) /\ lost' = lost
      BY <1>0, <1>2, <2>2, <2>5
    <3> QED BY <1>0, <3>1, StillKeeps
  <2> QED BY <2>3, <2>4, <2>5
<1> QED BY <1>1, <1>2

LEMMA ExpireKeeps ==
    ASSUME TypeOK, NEW m \in Ids, Expire(m), NEW n \in Ids, IdInv(n) PROVE IdInv(n)'
<1>0. /\ Undelivered(n)' = Undelivered(n) /\ Owing(n)' = Owing(n)
      /\ made' = made /\ lost' = lost /\ raced' = raced /\ keys' = keys \ {m}
      /\ expired' = [expired EXCEPT ![m] = @ + 1]
  BY DEF Expire, Undelivered, Owing, Id
<1>1. CASE n # m
  <2>1. expired'[n] = expired[n]
    BY <1>0, <1>1 DEF TypeOK
  <2> QED BY <1>0, <1>1, <2>1, StillKeeps
<1>2. CASE n = m
  <2>1. /\ made[n] \in Nat /\ expired[n] \in Nat /\ lost[n] \in Nat /\ raced[n] \in Nat
        /\ Cardinality(Undelivered(n)) \in Nat
    BY IdNumbers, UndeliveredNumber
  <2>2. expired'[n] = expired[n] + 1
    BY <1>0, <1>2 DEF TypeOK
  <2>3. Excuses(n)' = Excuses(n) + 1 /\ made'[n] = made[n] /\ Excuses(n) \in Nat
    BY <1>0, <2>1, <2>2 DEF Excuses
  <2> QED BY <1>0, <2>1, <2>3 DEF IdInv
<1> QED BY <1>1, <1>2

LEMMA RedeliveryInit == ASSUME Init PROVE RedeliveryInv
<1> SUFFICES ASSUME NEW n \in Ids PROVE IdInv(n)
  BY DEF RedeliveryInv
<1>1. made[n] = 0 /\ Excuses(n) = 0
  BY DEF Init, Excuses
<1>2. Undelivered(n) = {}
  BY DEF Init, Undelivered
<1>3. Cardinality(Undelivered(n)) = 0
  BY <1>2, FS_EmptySet
<1> QED BY <1>1, <1>3 DEF IdInv

LEMMA RedeliveryStep ==
    ASSUME TypeOK, RedeliveryInv, [Next]_vars PROVE RedeliveryInv'
<1> SUFFICES ASSUME NEW n \in Ids PROVE IdInv(n)'
  BY DEF RedeliveryInv
<1>0. IdInv(n)
  BY DEF RedeliveryInv
<1>1. ASSUME UNCHANGED <<keys, at, task, expired, made, lost, raced>> PROVE IdInv(n)'
  <2>1. Undelivered(n)' = Undelivered(n) /\ Owing(n)' = Owing(n)
    BY <1>1 DEF Undelivered, Owing, Id
  <2> QED BY <1>0, <1>1, <2>1, StillKeeps
<1>2. ASSUME NEW m \in Ids, Notify(m) \/ MarkRead(m) PROVE IdInv(n)'
  BY <1>1, <1>2 DEF Notify, MarkRead
<1>3. ASSUME NEW m \in Ids, Expire(m) PROVE IdInv(n)'
  BY <1>0, <1>3, ExpireKeeps
<1>4. ASSUME NEW t \in Tasks, Queue(t) PROVE IdInv(n)'
  BY <1>1, <1>4 DEF Queue
<1>5. ASSUME NEW w \in Workers, Pop(w) PROVE IdInv(n)'
  BY <1>0, <1>5, PopKeeps
<1>6. ASSUME NEW w \in Workers, CheckKey(w) PROVE IdInv(n)'
  BY <1>0, <1>6, CheckKeeps
<1>7. ASSUME NEW w \in Workers, Missing(w) PROVE IdInv(n)'
  BY <1>0, <1>7, QuietKeeps DEF Missing, At, Places
<1>8. ASSUME NEW w \in Workers, Fetch(w) PROVE IdInv(n)'
  BY <1>0, <1>8, QuietKeeps DEF Fetch, At, Places
<1>9. ASSUME NEW w \in Workers, Deliver(w) PROVE IdInv(n)'
  BY <1>0, <1>9, DeliverKeeps
<1>10. ASSUME NEW w \in Workers, Save(w) PROVE IdInv(n)'
  BY <1>0, <1>10, QuietKeeps DEF Save, At, Places
<1>11. ASSUME NEW w \in Workers, SetKey(w) PROVE IdInv(n)'
  BY <1>0, <1>11, QuietKeeps DEF SetKey, At, Places
<1>12. ASSUME NEW w \in Workers, Break(w) PROVE IdInv(n)'
  BY <1>0, <1>12, BreakKeeps
<1>13. CASE UNCHANGED vars
  BY <1>1, <1>13 DEF vars
<1> QED BY <1>2, <1>3, <1>4, <1>5, <1>6, <1>7, <1>8, <1>9, <1>10, <1>11, <1>12, <1>13
       DEF Next, Work

LEMMA RedeliveryBound ==
    ASSUME TypeOK, RedeliveryInv PROVE RedeliveryExplained
<1> SUFFICES ASSUME NEW n \in Ids PROVE made[n] <= 1 + expired[n] + lost[n] + raced[n]
  BY DEF RedeliveryExplained
<1>1. /\ made[n] \in Nat /\ expired[n] \in Nat /\ lost[n] \in Nat /\ raced[n] \in Nat
      /\ Cardinality(Undelivered(n)) \in Nat
  BY IdNumbers, UndeliveredNumber
<1>2. IdInv(n)
  BY DEF RedeliveryInv
<1>3. made[n] + Cardinality(Undelivered(n)) <= expired[n] + lost[n] + raced[n] + 1
  BY <1>1, <1>2 DEF IdInv, Excuses
<1> QED BY <1>1, <1>3

\* A notification is delivered again only after an expiry, a break or a race.
THEOREM RedeliveryCorrect == Spec => []RedeliveryExplained
<1>1. Init => TypeOK /\ RedeliveryInv
  BY TypeInit, RedeliveryInit
<1>2. (TypeOK /\ RedeliveryInv) /\ [Next]_vars => (TypeOK /\ RedeliveryInv)'
  BY TypeStep, RedeliveryStep
<1>3. TypeOK /\ RedeliveryInv => RedeliveryExplained
  BY RedeliveryBound
<1> QED BY <1>1, <1>2, <1>3, PTL DEF Spec
-----------------------------------------------------------------------------
(***************************************************************************)
(* The key and the row.  What a worker holds has a row or never will, and  *)
(* a settled row stays settled.                                            *)
(***************************************************************************)
Known(n) == status[n] # "none" \/ n \in Strays
Settled(n) == status[n] \in {"sent", "failed", "read"}

SettledInv ==
    /\ \A n \in keys : Settled(n) \/ n \in Strays
    /\ \A w \in Workers : at[w] # "idle" => Known(Id(w))
    /\ \A w \in Workers : at[w] = "saved" => Settled(Id(w))
    /\ \A i \in 1..Len(queue) : Known(queue[i].id)

\* No step takes a row back.
LEMMA RowsAdvance ==
    ASSUME TypeOK, [Next]_vars, NEW n \in Ids
    PROVE  (Known(n) => Known(n)') /\ (Settled(n) => Settled(n)')
<1> USE DEF Known, Settled
<1>1. ASSUME NEW m \in Ids, Notify(m) PROVE (Known(n) => Known(n)') /\ (Settled(n) => Settled(n)')
  BY <1>1 DEF Notify, TypeOK
<1>2. ASSUME NEW m \in Ids, MarkRead(m) PROVE (Known(n) => Known(n)') /\ (Settled(n) => Settled(n)')
  BY <1>2 DEF MarkRead, TypeOK
<1>3. ASSUME NEW w \in Workers, Save(w) PROVE (Known(n) => Known(n)') /\ (Settled(n) => Settled(n)')
  BY <1>3 DEF Save, Outcome, TypeOK
<1>4. CASE status' = status
  BY <1>4
<1>5. \/ status' = status \/ \E m \in Ids : Notify(m) \/ MarkRead(m)
      \/ \E w \in Workers : Save(w)
  BY DEF Next, Work, Expire, Queue, Pop, CheckKey, Missing, Fetch, Deliver, SetKey, Break, vars
<1> QED BY <1>1, <1>2, <1>3, <1>4, <1>5

LEMMA QueueIds ==
    ASSUME TypeOK, NEW i \in 1..Len(queue) PROVE queue[i].id \in Ids
<1>1. queue[i] \in Tasks
  BY ElementOfSeq DEF TypeOK
<1> QED BY <1>1 DEF Tasks

\* A step that leaves queue, workers and keys alone.
LEMMA RowStep ==
    ASSUME TypeOK, SettledInv, [Next]_vars, queue' = queue, at' = at, task' = task, keys' \subseteq keys
    PROVE  SettledInv'
<1>1. \A w \in Workers : Id(w) \in Ids /\ Id(w)' = Id(w)
  BY DEF TypeOK, Tasks, Id
<1>2. \A i \in 1..Len(queue) : queue[i].id \in Ids
  BY QueueIds
<1>3. keys \subseteq Ids
  BY DEF TypeOK
<1> QED BY <1>1, <1>2, <1>3, RowsAdvance DEF SettledInv

\* A step of a worker that takes nothing from the queue.
LEMMA WorkerStep ==
    ASSUME TypeOK, SettledInv, [Next]_vars, NEW w \in Workers, queue' = queue, task' = task,
           \A v \in Workers \ {w} : at'[v] = at[v],
           at[w] # "idle",
           at'[w] = "saved" => Settled(Id(w))',
           \A n \in keys' : n \in keys \/ (n = Id(w) /\ (Settled(n)' \/ n \in Strays))
    PROVE  SettledInv'
<1>1. \A v \in Workers : Id(v) \in Ids /\ Id(v)' = Id(v)
  BY DEF TypeOK, Tasks, Id
<1>2. \A i \in 1..Len(queue) : queue[i].id \in Ids
  BY QueueIds
<1>3. keys \subseteq Ids
  BY DEF TypeOK
<1>4. \A v \in Workers : at'[v] # "idle" => Known(Id(v))'
  BY <1>1, RowsAdvance DEF SettledInv
<1>5. \A v \in Workers : at'[v] = "saved" => Settled(Id(v))'
  BY <1>1, RowsAdvance DEF SettledInv
<1>6. \A n \in keys' : Settled(n)' \/ n \in Strays
  BY <1>3, RowsAdvance DEF SettledInv
<1>7. \A i \in 1..Len(queue') : Known(queue[i].id)'
  BY <1>2, RowsAdvance DEF SettledInv
<1> QED BY <1>4, <1>5, <1>6, <1>7 DEF SettledInv

LEMMA SettledInit == ASSUME Init PROVE SettledInv
BY DEF Init, SettledInv

LEMMA SettledStep == ASSUME TypeOK, SettledInv, [Next]_vars PROVE SettledInv'
<1> USE DEF Goto, At
<1>1. ASSUME NEW n \in Ids, Notify(n) \/ MarkRead(n) \/ Expire(n) PROVE SettledInv'
  BY <1>1, RowStep DEF Notify, MarkRead, Expire
<1>2. ASSUME NEW t \in Tasks, Queue(t) PROVE SettledInv'
  <2>1. queue \in Seq(Tasks) /\ queue' = Append(queue, t) /\ t.id \in Ids
    BY <1>2 DEF Queue, TypeOK, Tasks
  <2>2. Known(t.id)
    BY <1>2 DEF Queue, Known
  <2>3. /\ Len(queue') = Len(queue) + 1
        /\ \A i \in 1..Len(queue) : queue'[i] = queue[i]
        /\ queue'[Len(queue) + 1] = t
    BY <2>1, AppendProperties
  <2>4. \A i \in 1..Len(queue') : Known(queue'[i].id)
    <3> SUFFICES ASSUME NEW i \in 1..Len(queue') PROVE Known(queue'[i].id)
      OBVIOUS
    <3>1. Len(queue) \in Nat
      BY <2>1, LenProperties
    <3>2. i \in 1..Len(queue) \/ i = Len(queue) + 1
      BY <2>3, <3>1
    <3> QED BY <2>2, <2>3, <3>2 DEF SettledInv
  <2> QED BY <1>2, <2>4 DEF Queue, SettledInv, Known, Settled, Id
<1>3. ASSUME NEW w \in Workers, Pop(w) PROVE SettledInv'
  <2>1. queue \in Seq(Tasks) /\ queue # <<>> /\ queue' = Tail(queue)
    BY <1>3 DEF Pop, TypeOK
  <2>2. /\ Head(queue) = queue[1] /\ Len(queue) \in Nat \ {0}
        /\ Len(queue') = Len(queue) - 1
        /\ \A i \in 1..Len(queue') : queue'[i] = queue[i + 1]
    BY <2>1, HeadTailProperties, LenProperties, EmptySeq
  <2>3. \A i \in 1..Len(queue') : Known(queue'[i].id)
    <3> SUFFICES ASSUME NEW i \in 1..Len(queue') PROVE Known(queue'[i].id)
      OBVIOUS
    <3>1. i + 1 \in 1..Len(queue)
      BY <2>2
    <3> QED BY <2>2, <3>1 DEF SettledInv
  <2>4. Known(Head(queue).id)
    BY <2>2 DEF SettledInv
  <2>5. \A v \in Workers : at'[v] # "idle" => Known(Id(v)')
    BY <1>3, <2>4 DEF Pop, SettledInv, TypeOK, Id
  <2>6. \A v \in Workers : at'[v] = "saved" => Settled(Id(v)')
    BY <1>3 DEF Pop, SettledInv, TypeOK, Id
  <2> QED BY <1>3, <2>3, <2>5, <2>6 DEF Pop, SettledInv, Known, Settled
<1>4. ASSUME NEW w \in Workers, CheckKey(w) PROVE SettledInv'
  BY <1>4, WorkerStep DEF CheckKey, TypeOK
<1>5. ASSUME NEW w \in Workers, Missing(w) PROVE SettledInv'
  <2>1. Id(w) \in Strays
    BY <1>5 DEF Missing, SettledInv, Known
  <2> QED BY <1>5, <2>1, WorkerStep DEF Missing, TypeOK
<1>6. ASSUME NEW w \in Workers, Fetch(w) PROVE SettledInv'
  BY <1>6, WorkerStep DEF Fetch, TypeOK
<1>7. ASSUME NEW w \in Workers, Deliver(w) PROVE SettledInv'
  BY <1>7, WorkerStep DEF Deliver, TypeOK
<1>8. ASSUME NEW w \in Workers, Save(w) PROVE SettledInv'
  <2>1. Settled(Id(w))'
    BY <1>8, TaskType DEF Save, Outcome, Settled, TypeOK, Id
  <2> QED BY <1>8, <2>1, WorkerStep DEF Save, TypeOK
<1>9. ASSUME NEW w \in Workers, SetKey(w) PROVE SettledInv'
  <2>1. Settled(Id(w))'
    <3>1. at[w] = "saved" /\ status' = status /\ task' = task
      BY <1>9 DEF SetKey
    <3>2. Settled(Id(w))
      BY <3>1 DEF SettledInv
    <3> QED BY <3>1, <3>2 DEF Settled, Id
  <2>2. \A n \in keys' : n \in keys \/ (n = Id(w) /\ (Settled(n)' \/ n \in Strays))
    <3>1. Id(w)' = Id(w) /\ keys' = keys \cup {Id(w)}
      BY <1>9 DEF SetKey, Id
    <3> QED BY <2>1, <3>1 DEF Settled
  <2> QED BY <1>9, <2>1, <2>2, WorkerStep DEF SetKey, TypeOK
<1>10. ASSUME NEW w \in Workers, Break(w) PROVE SettledInv'
  BY <1>10, WorkerStep DEF Break, TypeOK
<1>11. CASE UNCHANGED vars
  BY <1>11, RowStep DEF vars
<1> QED BY <1>1, <1>2, <1>3, <1>4, <1>5, <1>6, <1>7, <1>8, <1>9, <1>10, <1>11 DEF Next, Work

\* A key is there only for a row that is settled, or for an id without one.
THEOREM KeyCorrect == Spec => []KeyMeansSettled
<1>1. Init => TypeOK /\ SettledInv
  BY TypeInit, SettledInit
<1>2. (TypeOK /\ SettledInv) /\ [Next]_vars => (TypeOK /\ SettledInv)'
  BY TypeStep, SettledStep
<1>3. TypeOK /\ SettledInv => KeyMeansSettled
  BY DEF SettledInv, Settled, KeyMeansSettled
<1> QED BY <1>1, <1>2, <1>3, PTL DEF Spec
=============================================================================
