--------------------------- MODULE Gateway_proofs ---------------------------
(***************************************************************************)
(* Proofs about the LLM gateway (ModelRouterChain, AccountBudget,          *)
(* GatewayHistory), for any callers, tiers, prices, ceilings, windows and  *)
(* thresholds.                                                             *)
(***************************************************************************)
EXTENDS AccountBudget, GatewayHistory, FiniteSetTheorems, WellFoundedInduction, TLAPS

(***************************************************************************)
(* Sums over finite sets, by induction over their subsets.  The induction  *)
(* speaks of a set of good subsets, not of a property.                     *)
(***************************************************************************)
\* Induction over the subsets of a finite set.
LEMMA SubsetInduction ==
    ASSUME NEW S, IsFiniteSet(S), NEW Good,
           \A T \in SUBSET S :
               (\A U \in SUBSET T : U # T => U \in Good) => T \in Good
    PROVE  SUBSET S \subseteq Good
  <1>. DEFINE Bad == {T \in SUBSET S : T \notin Good}
  <1>1. FiniteSubsetsOf(S) = SUBSET S
    BY FS_FiniteSubsetsOfFinite
  <1>2. IsWellFoundedOn(StrictSubsetOrdering(S), SUBSET S)
    BY <1>1, FS_StrictSubsetOrderingWellFounded
  <1>3. SUFFICES ASSUME Bad # {} PROVE FALSE
    OBVIOUS
  <1>4. PICK T \in Bad : \A U \in Bad : <<U, T>> \notin StrictSubsetOrdering(S)
    <2>1. Bad \subseteq SUBSET S
      OBVIOUS
    <2>. HIDE DEF Bad
    <2>. QED
      BY <1>2, <1>3, <2>1, WFMin
  <1>5. ASSUME NEW U \in SUBSET T, U # T
        PROVE  U \in Good
    BY <1>4, <1>5 DEF StrictSubsetOrdering
  <1>. QED
    BY <1>4, <1>5

Pick(s) == CHOOSE x \in s : TRUE

Summing(g, f, T) ==
    g = [s \in SUBSET T |-> IF s = {} THEN 0 ELSE f[Pick(s)] + g[s \ {Pick(s)}]]

LEMMA SumOnSet ==
    ASSUME NEW f, NEW T
    PROVE  SumFunctionOnSet(f, T) = (CHOOSE g : Summing(g, f, T))[T]
  BY DEF SumFunctionOnSet, FoldFunctionOnSet, MapThenFoldSet, Summing, Pick
\* Two sums over subsets of one finite set agree where both are defined.
LEMMA SummingUnique ==
    ASSUME NEW S, IsFiniteSet(S), NEW f, NEW T \in SUBSET S,
           NEW g, Summing(g, f, S), NEW h, Summing(h, f, T)
    PROVE  \A s \in SUBSET T : g[s] = h[s]
  <1>. DEFINE Good == {s \in SUBSET S : s \in SUBSET T => g[s] = h[s]}
  <1>1. ASSUME NEW s \in SUBSET S, \A u \in SUBSET s : u # s => u \in Good
        PROVE  s \in Good
    <2>1. CASE s = {}
      BY <2>1 DEF Summing
    <2>2. CASE s # {} /\ s \in SUBSET T
      <3>1. Pick(s) \in s
        BY <2>2 DEF Pick
      <3>2. g[s \ {Pick(s)}] = h[s \ {Pick(s)}]
        BY <1>1, <3>1, <2>2
      <3>3. g[s] = f[Pick(s)] + g[s \ {Pick(s)}]
        BY <2>2 DEF Summing
      <3>4. h[s] = f[Pick(s)] + h[s \ {Pick(s)}]
        BY <2>2 DEF Summing
      <3>. QED
        BY <3>2, <3>3, <3>4
    <2>. QED
      BY <2>1, <2>2
  <1>2. SUBSET S \subseteq Good
    <2>. HIDE DEF Good
    <2>. QED
      BY <1>1, SubsetInduction
  <1>. QED
    BY <1>2

LEMMA SummingExists ==
    ASSUME NEW S, IsFiniteSet(S), NEW f
    PROVE  \E g : Summing(g, f, S)
  <1>. DEFINE Sum(T) == CHOOSE g : Summing(g, f, T)
              Good == {T \in SUBSET S : \E g : Summing(g, f, T)}
  <1>1. ASSUME NEW T \in SUBSET S, \A U \in SUBSET T : U # T => U \in Good
        PROVE  T \in Good
    <2>. DEFINE h == [s \in SUBSET T |->
                        IF s = {} THEN 0 ELSE f[Pick(s)] + SumFunctionOnSet(f, s \ {Pick(s)})]
    <2>1. ASSUME NEW U \in SUBSET T, U # T
          PROVE  Summing(Sum(U), f, U)
      BY <1>1, <2>1
    <2>2. ASSUME NEW U \in SUBSET T, U # T
          PROVE  SumFunctionOnSet(f, U) = h[U]
      <3>1. Sum(U)[U] = IF U = {} THEN 0 ELSE f[Pick(U)] + Sum(U)[U \ {Pick(U)}]
        <4>1. Summing(Sum(U), f, U)
          BY <2>1, <2>2
        <4>. QED
          BY <4>1 DEF Summing
      <3>2. ASSUME U # {}
            PROVE  Sum(U)[U \ {Pick(U)}] = SumFunctionOnSet(f, U \ {Pick(U)})
        <4>. DEFINE W == U \ {Pick(U)}
        <4>1. W \in SUBSET U /\ W # T /\ W \in SUBSET T
          BY <2>2
        <4>2. Summing(Sum(U), f, U) /\ Summing(Sum(W), f, W)
          BY <2>1, <2>2, <4>1
        <4>3. IsFiniteSet(U)
          BY FS_Subset
        <4>4. Sum(U)[W] = Sum(W)[W]
          <5>. HIDE DEF W, Sum
          <5>. QED
            BY <4>1, <4>2, <4>3, SummingUnique
        <4>. QED
          BY <4>4, SumOnSet
      <3>. QED
        BY <3>1, <3>2, SumOnSet
    <2>3. ASSUME NEW s \in SUBSET T, s # {}
          PROVE  SumFunctionOnSet(f, s \ {Pick(s)}) = h[s \ {Pick(s)}]
      <3>1. Pick(s) \in s
        BY <2>3 DEF Pick
      <3>2. s \ {Pick(s)} \in SUBSET T /\ s \ {Pick(s)} # T
        BY <3>1
      <3>. QED
        BY <2>2, <3>2
    <2>4. Summing(h, f, T)
      BY <2>3 DEF Summing
    <2>. QED
      BY <2>4
  <1>2. SUBSET S \subseteq Good
    <2>. HIDE DEF Good
    <2>. QED
      BY <1>1, SubsetInduction
  <1>. QED
    BY <1>2

LEMMA SumStep ==
    ASSUME NEW S, IsFiniteSet(S), NEW f
    PROVE  /\ SumFunctionOnSet(f, {}) = 0
           /\ S # {} => /\ Pick(S) \in S
                        /\ SumFunctionOnSet(f, S) = f[Pick(S)] + SumFunctionOnSet(f, S \ {Pick(S)})
  <1>. DEFINE Sum(T) == CHOOSE g : Summing(g, f, T)
  <1>1. Summing(Sum(S), f, S) /\ Summing(Sum({}), f, {})
    BY SummingExists, FS_EmptySet
  <1>2. SumFunctionOnSet(f, {}) = 0
    BY <1>1, SumOnSet DEF Summing
  <1>3. ASSUME S # {}
        PROVE  /\ Pick(S) \in S
               /\ SumFunctionOnSet(f, S) = f[Pick(S)] + SumFunctionOnSet(f, S \ {Pick(S)})
    <2>. DEFINE W == S \ {Pick(S)}
    <2>1. Pick(S) \in S
      BY <1>3 DEF Pick
    <2>2. IsFiniteSet(W) /\ W \in SUBSET S
      BY FS_Subset
    <2>3. Summing(Sum(W), f, W)
      BY <2>2, SummingExists
    <2>4. Sum(S)[W] = Sum(W)[W]
      <3>. HIDE DEF W, Sum
      <3>. QED
        BY <1>1, <2>2, <2>3, SummingUnique
    <2>5. Sum(S)[S] = f[Pick(S)] + Sum(S)[W]
      BY <1>1, <1>3 DEF Summing
    <2>. QED
      BY <2>1, <2>4, <2>5, SumOnSet
  <1>. QED
    BY <1>2, <1>3
LEMMA SumType ==
    ASSUME NEW S, IsFiniteSet(S), NEW f, \A x \in S : f[x] \in Nat
    PROVE  SumFunctionOnSet(f, S) \in Nat
  <1>. DEFINE Good == {T \in SUBSET S : SumFunctionOnSet(f, T) \in Nat}
  <1>1. ASSUME NEW T \in SUBSET S, \A U \in SUBSET T : U # T => U \in Good
        PROVE  T \in Good
    <2>1. IsFiniteSet(T)
      BY FS_Subset
    <2>2. CASE T # {}
      <3>1. /\ Pick(T) \in T
            /\ SumFunctionOnSet(f, T) = f[Pick(T)] + SumFunctionOnSet(f, T \ {Pick(T)})
        BY <2>1, <2>2, SumStep
      <3>2. T \ {Pick(T)} \in Good
        BY <1>1, <3>1
      <3>. QED
        BY <3>1, <3>2
    <2>. QED
      BY <2>1, <2>2, SumStep
  <1>2. SUBSET S \subseteq Good
    <2>. HIDE DEF Good
    <2>. QED
      BY <1>1, SubsetInduction
  <1>. QED
    BY <1>2

\* Any member may be taken out of a sum, not only the one that is chosen.
LEMMA SumRemove ==
    ASSUME NEW S, IsFiniteSet(S), NEW f, \A x \in S : f[x] \in Nat, NEW x \in S
    PROVE  SumFunctionOnSet(f, S) = f[x] + SumFunctionOnSet(f, S \ {x})
  <1>. DEFINE Sum(T) == SumFunctionOnSet(f, T)
              Good == {T \in SUBSET S : \A y \in T : Sum(T) = f[y] + Sum(T \ {y})}
  <1>1. ASSUME NEW T \in SUBSET S, \A U \in SUBSET T : U # T => U \in Good
        PROVE  T \in Good
    <2>. SUFFICES ASSUME NEW y \in T
                  PROVE  Sum(T) = f[y] + Sum(T \ {y})
      OBVIOUS
    <2>. DEFINE p == Pick(T)
                W == T \ {p, y}
    <2>1. IsFiniteSet(T) /\ IsFiniteSet(W)
      BY FS_Subset
    <2>2. p \in T /\ Sum(T) = f[p] + Sum(T \ {p})
      BY <2>1, SumStep
    <2>3. CASE p # y
      <3>1. Sum(T \ {p}) = f[y] + Sum(W)
        <4>1. T \ {p} \in Good /\ y \in T \ {p} /\ W = (T \ {p}) \ {y}
          BY <1>1, <2>2, <2>3
        <4>. QED
          BY <4>1
      <3>2. Sum(T \ {y}) = f[p] + Sum(W)
        <4>1. T \ {y} \in Good /\ p \in T \ {y} /\ W = (T \ {y}) \ {p}
          BY <1>1, <2>2, <2>3
        <4>. QED
          BY <4>1
      <3>3. Sum(W) \in Nat /\ f[p] \in Nat /\ f[y] \in Nat
        BY <2>1, <2>2, SumType
      <3>. HIDE DEF p, W, Sum
      <3>. QED
        BY <2>2, <3>1, <3>2, <3>3
    <2>. QED
      BY <2>2, <2>3
  <1>2. SUBSET S \subseteq Good
    <2>. HIDE DEF Good
    <2>. QED
      BY <1>1, SubsetInduction
  <1>. QED
    BY <1>2

LEMMA SumMonotone ==
    ASSUME NEW S, IsFiniteSet(S), NEW f, NEW g,
           \A x \in S : f[x] \in Nat /\ g[x] \in Nat /\ f[x] <= g[x]
    PROVE  SumFunctionOnSet(f, S) <= SumFunctionOnSet(g, S)
  <1>. DEFINE Good == {T \in SUBSET S : SumFunctionOnSet(f, T) <= SumFunctionOnSet(g, T)}
  <1>1. ASSUME NEW T \in SUBSET S, \A U \in SUBSET T : U # T => U \in Good
        PROVE  T \in Good
    <2>1. IsFiniteSet(T)
      BY FS_Subset
    <2>2. CASE T # {}
      <3>. DEFINE p == Pick(T)
                  W == T \ {p}
      <3>1. /\ p \in T
            /\ SumFunctionOnSet(f, T) = f[p] + SumFunctionOnSet(f, W)
            /\ SumFunctionOnSet(g, T) = g[p] + SumFunctionOnSet(g, W)
        BY <2>1, <2>2, SumStep
      <3>2. W \in Good /\ IsFiniteSet(W)
        BY <1>1, <2>1, <3>1, FS_Subset
      <3>3. SumFunctionOnSet(f, W) \in Nat /\ SumFunctionOnSet(g, W) \in Nat
        BY <3>2, SumType
      <3>. HIDE DEF p
      <3>. QED
        BY <3>1, <3>2, <3>3
    <2>3. CASE T = {}
      BY <2>1, <2>3, SumStep
    <2>. QED
      BY <2>2, <2>3
  <1>2. SUBSET S \subseteq Good
    <2>. HIDE DEF Good
    <2>. QED
      BY <1>1, SubsetInduction
  <1>. QED
    BY <1>2

\* A sum moves by as much as the one member that differs.
LEMMA SumChange ==
    ASSUME NEW S, IsFiniteSet(S), NEW f, NEW g, NEW x \in S,
           \A y \in S : f[y] \in Nat /\ g[y] \in Nat,
           \A y \in S \ {x} : g[y] = f[y]
    PROVE  SumFunctionOnSet(g, S) + f[x] = SumFunctionOnSet(f, S) + g[x]
  <1>. DEFINE W == S \ {x}
  <1>1. IsFiniteSet(W)
    BY FS_Subset
  <1>2. SumFunctionOnSet(f, W) \in Nat /\ SumFunctionOnSet(g, W) \in Nat
    BY <1>1, SumType
  <1>3. /\ SumFunctionOnSet(f, W) <= SumFunctionOnSet(g, W)
        /\ SumFunctionOnSet(g, W) <= SumFunctionOnSet(f, W)
    BY <1>1, SumMonotone
  <1>4. /\ SumFunctionOnSet(f, S) = f[x] + SumFunctionOnSet(f, W)
        /\ SumFunctionOnSet(g, S) = g[x] + SumFunctionOnSet(g, W)
    BY SumRemove
  <1>. QED
    BY <1>2, <1>3, <1>4

LEMMA SumPlus ==
    ASSUME NEW S, IsFiniteSet(S), NEW f, NEW g, NEW x \in S, NEW n \in Nat,
           \A y \in S : f[y] \in Nat /\ g[y] \in Nat,
           g[x] = f[x] + n, \A y \in S \ {x} : g[y] = f[y]
    PROVE  SumFunctionOnSet(g, S) = SumFunctionOnSet(f, S) + n
  <1>1. SumFunctionOnSet(g, S) + f[x] = SumFunctionOnSet(f, S) + g[x]
    BY SumChange
  <1>2. SumFunctionOnSet(g, S) \in Nat /\ SumFunctionOnSet(f, S) \in Nat
    BY SumType
  <1>. QED
    BY <1>1, <1>2

LEMMA SumMember ==
    ASSUME NEW S, IsFiniteSet(S), NEW f, \A x \in S : f[x] \in Nat, NEW x \in S
    PROVE  f[x] <= SumFunctionOnSet(f, S)
  <1>1. IsFiniteSet(S \ {x})
    BY FS_Subset
  <1>2. SumFunctionOnSet(f, S \ {x}) \in Nat
    BY <1>1, SumType
  <1>. QED
    BY <1>2, SumRemove

LEMMA SumZero ==
    ASSUME NEW S, IsFiniteSet(S), NEW f, \A x \in S : f[x] = 0
    PROVE  SumFunctionOnSet(f, S) = 0
  <1>. DEFINE Good == {T \in SUBSET S : SumFunctionOnSet(f, T) = 0}
  <1>1. ASSUME NEW T \in SUBSET S, \A U \in SUBSET T : U # T => U \in Good
        PROVE  T \in Good
    <2>1. IsFiniteSet(T)
      BY FS_Subset
    <2>2. CASE T # {}
      <3>1. /\ Pick(T) \in T
            /\ SumFunctionOnSet(f, T) = f[Pick(T)] + SumFunctionOnSet(f, T \ {Pick(T)})
        BY <2>1, <2>2, SumStep
      <3>2. T \ {Pick(T)} \in Good
        BY <1>1, <3>1
      <3>. QED
        BY <3>1, <3>2
    <2>. QED
      BY <2>1, <2>2, SumStep
  <1>2. SUBSET S \subseteq Good
    <2>. HIDE DEF Good
    <2>. QED
      BY <1>1, SubsetInduction
  <1>. QED
    BY <1>2
-----------------------------------------------------------------------------
\* The price of an answer or an estimate is an amount.
LEMMA EstimateCostType ==
    ASSUME NEW t \in Tiers, NEW n \in Nat
    PROVE  EstimateCost(t, n) \in Nat
  <1>1. Price[t] \in Nat
    BY LedgerConfig
  <1>. QED
    BY <1>1 DEF EstimateCost

LEMMA DebitType ==
    ASSUME NEW led \in [Accounts -> Nat], NEW s, NEW m, NEW cost \in Nat, NEW old
    PROVE  Debit(led, s, m, cost, old) \in [Accounts -> Nat]
  BY DEF Debit

LEMMA EmptyLedgerType == EmptyLedger \in [Accounts -> Nat]
  BY DEF EmptyLedger

\* What the methods of a breaker make of a breaker is a breaker.
LEMMA BreakerClosed ==
    /\ NewBreaker \in Breaker
    /\ \A b \in Breaker :
          /\ AfterSuccess(b) \in Breaker
          /\ AfterFailure(b) \in Breaker
          /\ Elapse(b) \in Breaker
          /\ \A ago \in 0..Cooldown : Tripped(b, ago) \in Breaker
  <1>. USE BreakerConfig
  <1>1. NoFailures \in [Ages -> 0..Threshold]
    BY DEF NoFailures
  <1>2. NewBreaker \in Breaker
    BY <1>1 DEF NewBreaker, Breaker
  <1>3. ASSUME NEW b \in Breaker
        PROVE  AfterFailure(b) \in Breaker
    <2>1. 0 \in Ages
      BY DEF Ages
    <2>2. [b.failures EXCEPT ![0] = IF @ < Threshold THEN @ + 1 ELSE @]
             \in [Ages -> 0..Threshold]
      BY <2>1 DEF Breaker
    <2>. QED
      BY <2>2 DEF AfterFailure, Breaker
  <1>4. ASSUME NEW b \in Breaker
        PROVE  Elapse(b) \in Breaker
    <2>1. Older(b.failures) \in [Ages -> 0..Threshold]
      BY DEF Older, Ages, Breaker
    <2>2. (IF b.state = "open" /\ b.openedAgo < Cooldown
           THEN b.openedAgo + 1 ELSE b.openedAgo) \in 0..Cooldown
      BY DEF Breaker
    <2>. QED
      BY <2>1, <2>2 DEF Elapse, Breaker
  <1>5. ASSUME NEW b \in Breaker, NEW ago \in 0..Cooldown
        PROVE  Tripped(b, ago) \in Breaker
    BY DEF Tripped, Breaker
  <1>. QED
    BY <1>2, <1>3, <1>4, <1>5 DEF AfterSuccess
-----------------------------------------------------------------------------
\* A caller that is not idle has a request, a tier and an estimate.
LEMMA BusyCaller ==
    ASSUME CallsOK, NEW c \in Callers, ~At(c, "idle")
    PROVE  /\ call[c] \in Calls
           /\ call[c].req \in Requests
           /\ call[c].req # NoRequest
           /\ call[c].k \in 1..Len(Chain)
           /\ Tier(c) \in Tiers
           /\ Estimate(c) \in Nat
  <1>1. call[c] \in Calls /\ call[c].req \in Requests /\ call[c].req # NoRequest
    BY DEF CallsOK, Calls, At
  <1>2. call[c].k \in 1..Len(Chain)
    BY <1>1 DEF Calls
  <1>3. Tier(c) \in Tiers
    BY <1>2, ChainConfig DEF Tier
  <1>4. call[c].req.tokens \in Nat
    BY <1>1, ChainConfig
  <1>. QED
    BY <1>1, <1>2, <1>3, <1>4, EstimateCostType DEF Estimate

\* A check has a verdict, and only one when its key is of today.
LEMMA VerdictsType ==
    ASSUME NEW c, NEW a, NEW old \in BOOLEAN, NEW fits \in Verdicts(c, a, old)
    PROVE  /\ fits \in BOOLEAN
           /\ ~old => fits = Fits(spent, a, Estimate(c))
  <1>1. Fits(spent, a, Estimate(c)) \in BOOLEAN
    BY DEF Fits
  <1>2. CASE old
    BY <1>2 DEF Verdicts
  <1>3. CASE ~old
    BY <1>1, <1>3 DEF Verdicts
  <1>. QED
    BY <1>2, <1>3

LEMMA FirstTier == 1 \in 1..Len(Chain)
  BY ChainConfig

LEMMA IdleCallType == IdleCall \in Calls
  BY FirstTier, BreakerConfig DEF IdleCall, Calls, PCs

\* Any record that is idle without a request or busy with one may replace a
\* caller's.
LEMMA CallUpdate ==
    ASSUME CallsOK, NEW c \in Callers, NEW rec \in Calls,
           rec.pc = "idle" <=> rec.req = NoRequest,
           call' = [call EXCEPT ![c] = rec]
    PROVE  CallsOK'
  BY DEF CallsOK, At

LEMMA FinishType ==
    ASSUME CallsOK, NEW c \in Callers, Finish(c)
    PROVE  CallsOK'
  <1>1. IdleCall.pc = "idle" /\ IdleCall.req = NoRequest
    BY DEF IdleCall
  <1>. QED
    BY <1>1, IdleCallType, CallUpdate DEF Finish

LEMMA AtTierType ==
    ASSUME CallsOK, NEW c \in Callers, NEW req \in Requests, NEW k \in 1..Len(Chain),
           call' = [call EXCEPT ![c] = AtTier(req, k)]
    PROVE  CallsOK'
  <1>1. \A x \in Calls : [x EXCEPT !.pc = "gate", !.req = req, !.k = k] \in Calls
    BY DEF Calls, PCs
  <1>2. AtTier(req, k) \in Calls
    BY <1>1, IdleCallType DEF AtTier
  <1>3. AtTier(req, k).pc # "idle" /\ AtTier(req, k).req # NoRequest
    BY IdleCallType, ChainConfig DEF AtTier, Calls
  <1>. QED
    BY <1>2, <1>3, CallUpdate

LEMMA DelegateType ==
    ASSUME CallsOK, NEW c \in Callers, ~At(c, "idle"), Delegate(c)
    PROVE  CallsOK'
  <1>1. CASE call[c].k < Len(Chain)
    <2>1. call[c].k + 1 \in 1..Len(Chain) /\ call[c].req \in Requests
      BY <1>1, BusyCaller, ChainConfig
    <2>2. call' = [call EXCEPT ![c] = AtTier(call[c].req, call[c].k + 1)]
      BY <1>1 DEF Delegate
    <2>. QED
      BY <2>1, <2>2, AtTierType
  <1>2. CASE ~(call[c].k < Len(Chain))
    BY <1>2, FinishType DEF Delegate
  <1>. QED
    BY <1>1, <1>2

LEMMA GotoType ==
    ASSUME CallsOK, NEW c \in Callers, ~At(c, "idle"),
           NEW pc \in PCs \ {"idle"}, Goto(c, pc)
    PROVE  CallsOK'
  <1>. DEFINE rec == [call[c] EXCEPT !.pc = pc]
  <1>1. rec \in Calls
    BY BusyCaller DEF Calls
  <1>2. rec.pc # "idle" /\ rec.req # NoRequest
    BY BusyCaller DEF Calls
  <1>3. call' = [call EXCEPT ![c] = rec]
    BY DEF Goto
  <1>. HIDE DEF rec
  <1>. QED
    BY <1>1, <1>2, <1>3, CallUpdate

\* Only midnight makes a key old, and a caller that uses its keys has none left.
LEMMA KeysMove ==
    ASSUME [Next]_vars
    PROVE  UNCHANGED oldKeys \/ Midnight \/ \E c \in Callers : KeysUsed(c)
  BY DEF Next, vars, Begin, Step, Crash, Tick, Gate, GateCooldown, MerchantBudget, GlobalBudget,
         Answer, ProviderError, RecordSuccess, DebitAnswer, RecordFailure, Trip,
         Goto, Finish, Delegate

LEMMA KeysType ==
    ASSUME TypeOK, [Next]_vars
    PROVE  oldKeys' \in [Callers -> 0..2]
  <1>1. \A c \in Callers : KeysUsed(c) => oldKeys' \in [Callers -> 0..2]
    BY DEF TypeOK, KeysUsed
  <1>2. Midnight => oldKeys' \in [Callers -> 0..2]
    BY DEF Midnight
  <1>. QED
    BY <1>1, <1>2, KeysMove DEF TypeOK

LEMMA TypeInit == Init => TypeOK
  <1>. SUFFICES ASSUME Init PROVE TypeOK
    OBVIOUS
  <1>1. breaker \in [Tiers -> Breaker]
    BY BreakerClosed DEF Init
  <1>2. spent \in [Accounts -> Nat]
    BY EmptyLedgerType DEF Init
  <1>3. CallsOK
    BY IdleCallType DEF Init, CallsOK, At, IdleCall
  <1>4. oldKeys \in [Callers -> 0..2]
    BY DEF Init
  <1>. QED
    BY <1>1, <1>2, <1>3, <1>4 DEF TypeOK

LEMMA TypeStep == TypeOK /\ [Next]_vars => TypeOK'
  <1>. SUFFICES ASSUME TypeOK, [Next]_vars, oldKeys' \in [Callers -> 0..2] PROVE TypeOK'
    BY KeysType
  <1>. USE DEF TypeOK
  <1>1. CASE UNCHANGED vars
    BY <1>1 DEF vars, CallsOK, At
  <1>2. ASSUME NEW c \in Callers, Begin(c)
        PROVE  TypeOK'
    <2>1. PICK req \in Requests : call' = [call EXCEPT ![c] = AtTier(req, 1)]
      BY <1>2 DEF Begin
    <2>. QED
      BY <1>2, <2>1, AtTierType, FirstTier DEF Begin
  <1>3. ASSUME NEW c \in Callers, Gate(c)
        PROVE  TypeOK'
    BY <1>3, DelegateType, GotoType DEF Gate, At, PCs
  <1>4. ASSUME NEW c \in Callers, GateCooldown(c)
        PROVE  TypeOK'
    BY <1>4, DelegateType, GotoType DEF GateCooldown, At, PCs
  <1>5. ASSUME NEW c \in Callers, MerchantBudget(c)
        PROVE  TypeOK'
    <2>1. ~At(c, "idle")
      BY <1>5 DEF MerchantBudget, At
    <2>2. CASE Delegate(c) \/ Finish(c) \/ Goto(c, "calling")
      BY <1>5, <2>1, <2>2, DelegateType, FinishType, GotoType DEF MerchantBudget, PCs
    <2>3. ASSUME NEW fits \in Verdicts(c, MerchantAccount(c), oldKeys[c] > 0),
                 call' = [call EXCEPT ![c].pc = "globalBudget", ![c].fits = fits]
          PROVE  TypeOK'
      <3>. DEFINE rec == [call[c] EXCEPT !.pc = "globalBudget", !.fits = fits]
      <3>. DEFINE old == oldKeys[c] > 0
      <3>1. fits \in BOOLEAN
        <4>1. old \in BOOLEAN /\ fits \in Verdicts(c, MerchantAccount(c), old)
          BY <2>3
        <4>. HIDE DEF old
        <4>. QED
          BY <4>1, VerdictsType
      <3>2. rec \in Calls /\ rec.pc # "idle" /\ rec.req # NoRequest
        BY <2>1, <3>1, BusyCaller DEF Calls, PCs
      <3>3. call' = [call EXCEPT ![c] = rec]
        BY <2>3 DEF CallsOK
      <3>. QED
        BY <1>5, <3>2, <3>3, CallUpdate DEF MerchantBudget
    <2>. QED
      BY <1>5, <2>2, <2>3 DEF MerchantBudget
  <1>6. ASSUME NEW c \in Callers, GlobalBudget(c)
        PROVE  TypeOK'
    BY <1>6, DelegateType, FinishType, GotoType DEF GlobalBudget, At, PCs
  <1>7. ASSUME NEW c \in Callers, Answer(c)
        PROVE  TypeOK'
    <2>1. PICK n \in ActualTokens :
             call' = [call EXCEPT ![c].pc = "answered",
                                  ![c].cost = EstimateCost(Tier(c), n)]
      BY <1>7 DEF Answer
    <2>. DEFINE price == EstimateCost(Tier(c), n)
                rec == [call[c] EXCEPT !.pc = "answered", !.cost = price]
    <2>2. ~At(c, "idle")
      BY <1>7 DEF Answer, At
    <2>3. price \in Nat
      BY <2>2, BusyCaller, EstimateCostType, ChainConfig
    <2>. HIDE DEF price
    <2>4. rec \in Calls /\ rec.pc # "idle" /\ rec.req # NoRequest
      BY <2>2, <2>3, BusyCaller DEF Calls, PCs
    <2>5. call' = [call EXCEPT ![c] = rec]
      BY <2>1 DEF CallsOK, price
    <2>. QED
      BY <1>7, <2>4, <2>5, CallUpdate DEF Answer
  <1>8. ASSUME NEW c \in Callers, ProviderError(c)
        PROVE  TypeOK'
    BY <1>8, GotoType DEF ProviderError, At, PCs
  <1>9. ASSUME NEW c \in Callers, RecordSuccess(c)
        PROVE  TypeOK'
    <2>1. breaker' \in [Tiers -> Breaker]
      BY <1>9, BreakerClosed DEF RecordSuccess
    <2>. QED
      BY <1>9, <2>1, GotoType DEF RecordSuccess, At, PCs
  <1>10. ASSUME NEW c \in Callers, DebitAnswer(c)
         PROVE  TypeOK'
    <2>1. ~At(c, "idle") /\ call[c].cost \in Nat
      BY <1>10 DEF DebitAnswer, At, CallsOK, Calls
    <2>2. spent' \in [Accounts -> Nat]
      BY <1>10, <2>1, DebitType DEF DebitAnswer
    <2>. QED
      BY <1>10, <2>1, <2>2, FinishType, GotoType DEF DebitAnswer, PCs
  <1>11. ASSUME NEW c \in Callers, RecordFailure(c)
         PROVE  TypeOK'
    <2>1. breaker' \in [Tiers -> Breaker]
      BY <1>11, BreakerClosed DEF RecordFailure
    <2>. QED
      BY <1>11, <2>1, GotoType, DelegateType DEF RecordFailure, At, PCs
  <1>12. ASSUME NEW c \in Callers, Trip(c)
         PROVE  TypeOK'
    <2>1. call[c].age \in 0..Cooldown
      BY DEF CallsOK, Calls
    <2>2. \A t \in Tiers : Tripped(breaker[t], call[c].age) \in Breaker
      BY <2>1, BreakerClosed
    <2>3. breaker' \in [Tiers -> Breaker]
      BY <1>12, <2>2 DEF Trip
    <2>. QED
      BY <1>12, <2>3, DelegateType DEF Trip, At
  <1>13. ASSUME NEW c \in Callers, Crash(c)
         PROVE  TypeOK'
    BY <1>13, FinishType DEF Crash
  <1>14. CASE Tick
    <2>1. breaker' \in [Tiers -> Breaker]
      BY <1>14, BreakerClosed DEF Tick
    <2>2. ASSUME NEW c \in Callers
          PROVE  /\ call'[c] \in Calls
                 /\ call'[c].pc = call[c].pc
                 /\ call'[c].req = call[c].req
      <3>1. call[c] \in Calls
        BY DEF CallsOK
      <3>2. CASE At(c, "trip") /\ call[c].age < Cooldown
        <4>1. call'[c] = [call[c] EXCEPT !.age = call[c].age + 1]
          BY <1>14, <3>2 DEF Tick
        <4>2. call[c].age + 1 \in 0..Cooldown
          BY <3>1, <3>2, BreakerConfig DEF Calls
        <4>. QED
          BY <3>1, <4>1, <4>2 DEF Calls
      <3>3. CASE ~(At(c, "trip") /\ call[c].age < Cooldown)
        BY <1>14, <3>1, <3>3 DEF Tick
      <3>. QED
        BY <3>2, <3>3
    <2>3. call' = [c \in Callers |-> call'[c]]
      BY <1>14 DEF Tick
    <2>4. CallsOK'
      BY <2>2, <2>3 DEF CallsOK, At
    <2>. QED
      BY <1>14, <2>1, <2>4 DEF Tick
  <1>15. CASE Midnight
    BY <1>15, EmptyLedgerType DEF Midnight, CallsOK, At
  <1>. QED
    BY <1>1, <1>2, <1>3, <1>4, <1>5, <1>6, <1>7, <1>8, <1>9, <1>10, <1>11,
       <1>12, <1>13, <1>14, <1>15 DEF Next, Step

(***************************************************************************)
(* Type correctness of the gateway: callers, breakers and ledger keep      *)
(* their types through every interleaving of the chain, with or without    *)
(* Redis, and a caller is idle exactly when it holds no request.           *)
(***************************************************************************)
THEOREM TypeCorrect == Spec => []TypeOK
  BY TypeInit, TypeStep, PTL DEF Spec
-----------------------------------------------------------------------------
(***************************************************************************)
(* The soft budget of an account.                                          *)
(***************************************************************************)
\* An answer that is being settled costs what some answer can cost.
AnswerCosts == {EstimateCost(t, n) : t \in Tiers, n \in ActualTokens}

CostsPossible ==
    \A c \in Callers : call[c].pc \in {"answered", "debit"} => call[c].cost \in AnswerCosts

Inv == TypeOK /\ CostsPossible

\* A step of one caller leaves the others where they are.
OnlyMoves(c) ==
    /\ call' \in [Callers -> Calls]
    /\ \A d \in Callers \ {c} : call'[d] = call[d]

LEMMA DelegatePC ==
    ASSUME CallsOK, NEW c \in Callers, ~At(c, "idle"), Delegate(c)
    PROVE  OnlyMoves(c) /\ call'[c].pc \in {"gate", "idle"}
  <1>1. call' \in [Callers -> Calls]
    BY DelegateType DEF CallsOK
  <1>2. \A x \in Calls : [x EXCEPT !.pc = "gate", !.req = call[c].req,
                                   !.k = call[c].k + 1].pc = "gate"
    BY DEF Calls
  <1>3. AtTier(call[c].req, call[c].k + 1).pc = "gate" /\ IdleCall.pc = "idle"
    BY <1>2, IdleCallType DEF AtTier, IdleCall
  <1>. QED
    BY <1>1, <1>3 DEF Delegate, Finish, OnlyMoves, CallsOK

LEMMA FinishPC ==
    ASSUME CallsOK, NEW c \in Callers, Finish(c)
    PROVE  OnlyMoves(c) /\ call'[c].pc = "idle"
  <1>1. call' \in [Callers -> Calls]
    BY FinishType DEF CallsOK
  <1>. QED
    BY <1>1 DEF Finish, IdleCall, OnlyMoves, CallsOK

LEMMA GotoPC ==
    ASSUME CallsOK, NEW c \in Callers, ~At(c, "idle"),
           NEW pc \in PCs \ {"idle"}, Goto(c, pc)
    PROVE  /\ OnlyMoves(c)
           /\ call'[c] = [call[c] EXCEPT !.pc = pc]
           /\ call'[c].pc = pc
           /\ call'[c].req = call[c].req
           /\ call'[c].fits = call[c].fits
           /\ call'[c].cost = call[c].cost
  <1>1. call' \in [Callers -> Calls]
    BY GotoType DEF CallsOK
  <1>2. call'[c] = [call[c] EXCEPT !.pc = pc]
    BY DEF Goto, CallsOK
  <1>. QED
    BY <1>1, <1>2 DEF Goto, OnlyMoves, CallsOK, Calls
-----------------------------------------------------------------------------
BudgetStep == [Budget!Next]_(Budget!vars)

\* A step of one caller, its keys included.
Moves(c) == OnlyMoves(c) /\ \A d \in Callers \ {c} : oldKeys'[d] = oldKeys[d]

LEMMA HoldersUpdate ==
    ASSUME NEW c \in Callers, Moves(c)
    PROVE  /\ Holders' = IF Holds(c)' THEN Holders \cup {c} ELSE Holders \ {c}
           /\ LateCallers' = IF ChecksLate(c)' THEN LateCallers \cup {c} ELSE LateCallers \ {c}
  <1>1. \A d \in Callers \ {c} : Holds(d)' <=> Holds(d)
    BY DEF Moves, OnlyMoves, Holds, At, MerchantAccount, GlobalAccount
  <1>2. \A d \in Callers \ {c} : ChecksLate(d)' <=> ChecksLate(d)
    BY DEF Moves, OnlyMoves, ChecksLate, At, MerchantAccount, GlobalAccount
  <1>. QED
    BY <1>1, <1>2 DEF Holders, LateCallers

\* What is held has been checked.
LEMMA HeldIsChecked == CallsOK => \A c \in Callers : ~(Holds(c) /\ ChecksLate(c))
  <1>. SUFFICES ASSUME CallsOK, NEW c \in Callers, Holds(c), ChecksLate(c)
                PROVE  FALSE
    OBVIOUS
  <1>1. At(c, "globalBudget") /\ account = MerchantAccount(c) /\ account = GlobalAccount(c)
    BY DEF Holds, ChecksLate, At
  <1>2. call[c].req.merchant \in Merchants
    BY <1>1, BusyCaller, ChainConfig DEF At
  <1>. QED
    BY <1>1, <1>2, LedgerConfig DEF MerchantAccount, GlobalAccount

LEMMA HeldIsCheckedNext == CallsOK' => (\A c \in Callers : ~(Holds(c) /\ ChecksLate(c)))'
  BY HeldIsChecked, PTL

\* A caller that holds nothing afterwards, and is not about to be checked late,
\* has dropped out, was refused, or had nothing to do with the account.
LEMMA Released ==
    ASSUME CallsOK, NEW c \in Callers, Moves(c), ~Holds(c)', ~ChecksLate(c)',
           spent'[account] = spent[account]
    PROVE  BudgetStep
  <1>1. Holders' = Holders \ {c} /\ LateCallers' = LateCallers \ {c}
    BY HoldersUpdate
  <1>2. CASE c \in Holders
    <2>1. c \notin LateCallers
      BY <1>2, HeldIsChecked DEF Holders, LateCallers
    <2>. QED
      BY <1>1, <1>2, <2>1 DEF BudgetStep, Budget!Next, Budget!Drop
  <1>3. CASE c \notin Holders /\ c \in LateCallers
    BY <1>1, <1>3 DEF BudgetStep, Budget!Next, Budget!Refuse
  <1>4. CASE c \notin Holders /\ c \notin LateCallers
    BY <1>1, <1>4 DEF BudgetStep, Budget!vars
  <1>. QED
    BY <1>2, <1>3, <1>4

\* A caller that holds as much as before is a stuttering step of the budget.
LEMMA Kept ==
    ASSUME NEW c \in Callers, Moves(c), Holds(c)' <=> Holds(c),
           ChecksLate(c)' <=> ChecksLate(c), spent'[account] = spent[account]
    PROVE  BudgetStep
  <1>1. Holders' = Holders /\ LateCallers' = LateCallers
    BY HoldersUpdate DEF Holders, LateCallers
  <1>. QED
    BY <1>1 DEF BudgetStep, Budget!vars

\* A caller whose estimate fits, or that is checked late, may become a holder.
LEMMA Admitted ==
    ASSUME CallsOK, NEW c \in Callers, Moves(c), spent'[account] = spent[account],
           Tier(c) \in Tiers, call[c].req \in Requests,
           Fits(spent, account, Estimate(c)) \/ ChecksLate(c),
           ~Holds(c), Holds(c)', ~ChecksLate(c)'
    PROVE  BudgetStep
  <1>1. /\ Holders' = Holders \cup {c} /\ c \notin Holders
        /\ LateCallers' = LateCallers \ {c}
    BY HoldersUpdate DEF Holders
  <1>2. Estimate(c) \in {EstimateCost(t, r.tokens) : t \in Tiers, r \in Requests}
    BY DEF Estimate
  <1>3. Budget!Admit(c)
    <2>1. CASE ChecksLate(c)
      BY <1>1, <2>1 DEF Budget!Admit, LateCallers
    <2>2. CASE Fits(spent, account, Estimate(c))
      BY <1>1, <1>2, <2>2 DEF Budget!Admit, Fits
    <2>. QED
      BY <2>1, <2>2
  <1>. QED
    BY <1>3 DEF BudgetStep, Budget!Next

\* Off the stretch between the first check and the debit nothing is held.
LEMMA HoldsOnlyBetween ==
    ASSUME NEW c \in Callers,
           call[c].pc \notin {"merchantBudget", "globalBudget", "calling", "answered", "debit"}
    PROVE  ~Holds(c) /\ ~ChecksLate(c)
  BY DEF Holds, ChecksLate, At
-----------------------------------------------------------------------------
LEMMA CostsStep == Inv /\ [Next]_vars => CostsPossible'
  <1>. SUFFICES ASSUME Inv, [Next]_vars PROVE CostsPossible'
    OBVIOUS
  <1>. USE DEF Inv, TypeOK
  <1>1. ASSUME NEW c \in Callers, OnlyMoves(c),
               call'[c].pc \in {"answered", "debit"} => call'[c].cost \in AnswerCosts
        PROVE  CostsPossible'
    BY <1>1 DEF CostsPossible, OnlyMoves, AnswerCosts
  <1>2. ASSUME NEW c \in Callers, ~At(c, "idle"), Delegate(c) \/ Finish(c)
        PROVE  CostsPossible'
    <2>1. OnlyMoves(c) /\ call'[c].pc \in {"gate", "idle"}
      BY <1>2, DelegatePC, FinishPC
    <2>. QED
      BY <1>1, <2>1
  <1>3. ASSUME NEW c \in Callers, ~At(c, "idle"),
               NEW pc \in PCs \ {"idle", "answered", "debit"}, Goto(c, pc)
        PROVE  CostsPossible'
    <2>1. OnlyMoves(c) /\ call'[c].pc = pc
      BY <1>3, GotoPC
    <2>. QED
      BY <1>1, <2>1
  <1>4. ASSUME NEW c \in Callers, Begin(c)
        PROVE  CostsPossible'
    <2>1. PICK req \in Requests : call' = [call EXCEPT ![c] = AtTier(req, 1)]
      BY <1>4 DEF Begin
    <2>2. CallsOK'
      BY <2>1, AtTierType, FirstTier
    <2>3. \A x \in Calls : [x EXCEPT !.pc = "gate", !.req = req, !.k = 1].pc = "gate"
      BY DEF Calls
    <2>4. OnlyMoves(c) /\ call'[c].pc = "gate"
      BY <2>1, <2>2, <2>3, IdleCallType DEF AtTier, OnlyMoves, CallsOK
    <2>. QED
      BY <1>1, <2>4
  <1>5. ASSUME NEW c \in Callers, Gate(c) \/ GateCooldown(c)
        PROVE  CostsPossible'
    BY <1>2, <1>3, <1>5 DEF Gate, GateCooldown, At, PCs
  <1>6. ASSUME NEW c \in Callers, MerchantBudget(c)
        PROVE  CostsPossible'
    <2>1. ~At(c, "idle")
      BY <1>6 DEF MerchantBudget, At
    <2>2. CASE Delegate(c) \/ Finish(c) \/ Goto(c, "calling")
      BY <1>2, <1>3, <2>1, <2>2 DEF PCs
    <2>3. ASSUME NEW b, call' = [call EXCEPT ![c].pc = "globalBudget", ![c].fits = b]
          PROVE  CostsPossible'
      BY <2>3 DEF CostsPossible, CallsOK, Calls, AnswerCosts
    <2>. QED
      BY <1>6, <2>2, <2>3 DEF MerchantBudget
  <1>7. ASSUME NEW c \in Callers, GlobalBudget(c)
        PROVE  CostsPossible'
    BY <1>2, <1>3, <1>7 DEF GlobalBudget, At, PCs
  <1>8. ASSUME NEW c \in Callers, Answer(c)
        PROVE  CostsPossible'
    <2>1. PICK n \in ActualTokens :
             call' = [call EXCEPT ![c].pc = "answered",
                                  ![c].cost = EstimateCost(Tier(c), n)]
      BY <1>8 DEF Answer
    <2>2. Tier(c) \in Tiers
      BY <1>8, BusyCaller DEF Answer, At
    <2>3. EstimateCost(Tier(c), n) \in AnswerCosts
      BY <2>2 DEF AnswerCosts
    <2>4. \A y : \A x \in Calls : [x EXCEPT !.pc = "answered", !.cost = y].cost = y
      BY DEF Calls
    <2>5. call'[c].cost = EstimateCost(Tier(c), n)
      BY <2>1, <2>4 DEF CallsOK
    <2>6. \A d \in Callers \ {c} : call'[d] = call[d]
      BY <2>1 DEF CallsOK
    <2>. QED
      BY <2>3, <2>5, <2>6 DEF CostsPossible, AnswerCosts
  <1>9. ASSUME NEW c \in Callers, RecordSuccess(c)
        PROVE  CostsPossible'
    <2>1. OnlyMoves(c) /\ call'[c].cost = call[c].cost
      BY <1>9, GotoPC DEF RecordSuccess, At, PCs
    <2>2. call[c].cost \in AnswerCosts
      BY <1>9 DEF RecordSuccess, At, CostsPossible
    <2>. QED
      BY <1>1, <2>1, <2>2
  <1>10. ASSUME NEW c \in Callers,
               ProviderError(c) \/ DebitAnswer(c) \/ RecordFailure(c) \/ Trip(c)
        PROVE  CostsPossible'
    BY <1>2, <1>3, <1>10
       DEF ProviderError, DebitAnswer, RecordFailure, Trip, At, PCs
  <1>11. ASSUME NEW c \in Callers, Crash(c)
        PROVE  CostsPossible'
    BY <1>1, <1>11, FinishPC DEF Crash
  <1>12. CASE Tick
    <2>1. ASSUME NEW c \in Callers
          PROVE  call'[c].pc = call[c].pc /\ call'[c].cost = call[c].cost
      BY <1>12 DEF Tick, CallsOK, Calls
    <2>. QED
      BY <2>1 DEF CostsPossible, AnswerCosts
  <1>13. CASE Midnight \/ UNCHANGED vars
    BY <1>13 DEF Midnight, vars, CostsPossible, AnswerCosts
  <1>. QED
    BY <1>4, <1>5, <1>6, <1>7, <1>8, <1>9, <1>10, <1>11, <1>12, <1>13 DEF Next, Step

LEMMA InvCorrect == Spec => []Inv
  <1>1. Init => CostsPossible
    BY DEF Init, CostsPossible, IdleCall
  <1>. QED
    BY <1>1, TypeInit, TypeStep, CostsStep, PTL DEF Spec, Inv
-----------------------------------------------------------------------------
\* The keys of the callers that do not move.
LEMMA OthersKeys ==
    ASSUME TypeOK, NEW c \in Callers, OnlyMoves(c), KeysUsed(c) \/ UNCHANGED oldKeys
    PROVE  Moves(c)
  BY DEF TypeOK, KeysUsed, Moves

\* The ways a busy caller moves on without touching the counters, seen from
\* the budget.
LEMMA LetGo ==
    ASSUME TypeOK, NEW c \in Callers, ~At(c, "idle"), UNCHANGED spent,
           \/ Delegate(c) \/ Finish(c)
           \/ Goto(c, "cooldown") \/ Goto(c, "merchantBudget")
           \/ Goto(c, "failed") \/ Goto(c, "trip")
    PROVE  BudgetStep
  <1>. USE DEF TypeOK
  <1>. DEFINE outside == {"gate", "idle", "cooldown", "merchantBudget", "failed", "trip"}
  <1>1. OnlyMoves(c) /\ call'[c].pc \in outside
    <2>1. CASE Delegate(c)
      BY <2>1, DelegatePC
    <2>2. CASE Finish(c)
      BY <2>2, FinishPC
    <2>3. ASSUME NEW pc \in {"cooldown", "merchantBudget", "failed", "trip"}, Goto(c, pc)
          PROVE  OnlyMoves(c) /\ call'[c].pc \in outside
      <3>1. pc \in PCs \ {"idle"}
        BY DEF PCs
      <3>. QED
        BY <2>3, <3>1, GotoPC
    <2>. QED
      BY <2>1, <2>2, <2>3
  <1>2. KeysUsed(c)
    BY DEF Delegate, Finish, Goto
  <1>3. oldKeys'[c] = 0
    BY <1>2 DEF KeysUsed
  <1>4. ~Holds(c)' /\ ~ChecksLate(c)'
    BY <1>1, <1>3 DEF Holds, ChecksLate, At
  <1>. QED
    BY <1>1, <1>2, <1>4, OthersKeys, Released

\* Between the admission and the debit a caller holds what it held.
LEMMA HoldsOn ==
    ASSUME NEW c \in Callers, UNCHANGED spent, Moves(c),
           call[c].pc \in {"calling", "answered"},
           call'[c].pc \in {"answered", "debit"},
           call'[c].req = call[c].req
    PROVE  BudgetStep
  <1>1. Holds(c)' <=> Holds(c)
    BY DEF Holds, At, MerchantAccount, GlobalAccount
  <1>2. ChecksLate(c)' <=> ChecksLate(c)
    BY DEF ChecksLate, At
  <1>. QED
    BY <1>1, <1>2, Kept

\* A caller without Redis never holds anything.
LEMMA NeverHolds ==
    ASSUME CallsOK, NEW c \in Callers, c \notin Connected, UNCHANGED spent, Moves(c)
    PROVE  BudgetStep
  <1>1. ~Holds(c)' /\ ~ChecksLate(c)'
    BY DEF Holds, ChecksLate
  <1>. QED
    BY <1>1, Released

\* The first check admits to a merchant's counter.
LEMMA MerchantBudgetStep ==
    ASSUME Inv, NEW c \in Callers, MerchantBudget(c)
    PROVE  BudgetStep
  <1>. USE DEF Inv, TypeOK
  <1>1. ~At(c, "idle") /\ At(c, "merchantBudget") /\ UNCHANGED spent
    BY DEF MerchantBudget, At
  <1>2. CASE Delegate(c) \/ Finish(c)
    BY <1>1, <1>2, LetGo
  <1>3. CASE c \notin Connected /\ Goto(c, "calling")
    <2>1. OnlyMoves(c)
      BY <1>1, <1>3, GotoPC DEF PCs
    <2>2. Moves(c)
      BY <1>3, <2>1, OthersKeys DEF Goto
    <2>. QED
      BY <1>1, <1>3, <2>2, NeverHolds
  <1>4. ASSUME NEW fits \in Verdicts(c, MerchantAccount(c), oldKeys[c] > 0), c \in Connected,
               call' = [call EXCEPT ![c].pc = "globalBudget", ![c].fits = fits],
               UNCHANGED oldKeys
        PROVE  BudgetStep
    <2>1. call[c] \in Calls
      BY DEF CallsOK
    <2>2. call'[c] = [call[c] EXCEPT !.pc = "globalBudget", !.fits = fits]
      BY <1>4 DEF CallsOK
    <2>3. /\ call'[c].pc = "globalBudget"
          /\ call'[c].fits = fits
          /\ call'[c].req = call[c].req
      BY <2>1, <2>2 DEF Calls
    <2>4. Moves(c)
      <3>1. CallsOK'
        BY TypeStep DEF Next, Step, MerchantBudget
      <3>2. OnlyMoves(c)
        BY <1>4, <3>1 DEF OnlyMoves, CallsOK
      <3>. QED
        BY <1>4, <3>2, OthersKeys
    <2>5. MerchantAccount(c)' = MerchantAccount(c) /\ GlobalAccount(c)' = GlobalAccount(c)
      BY <2>3 DEF MerchantAccount, GlobalAccount
    <2>6. MerchantAccount(c) # GlobalAccount(c)
      BY <1>1, BusyCaller, ChainConfig, LedgerConfig DEF MerchantAccount, GlobalAccount
    <2>. DEFINE old == oldKeys[c] > 0
    <2>7. /\ ~Holds(c)
          /\ fits \in BOOLEAN
          /\ ~old => fits = Fits(spent, MerchantAccount(c), Estimate(c))
      <3>1. old \in BOOLEAN /\ fits \in Verdicts(c, MerchantAccount(c), old)
        BY <1>4
      <3>2. ~Holds(c)
        BY <1>1 DEF Holds, At
      <3>. HIDE DEF old
      <3>. QED
        BY <3>1, <3>2, VerdictsType
    <2>8. oldKeys'[c] = oldKeys[c] /\ oldKeys[c] \in 0..2
      BY <1>4
    <2>9. CASE account = MerchantAccount(c) /\ fits
      <3>1. Holds(c)' /\ ~ChecksLate(c)'
        BY <1>4, <2>3, <2>5, <2>6, <2>9 DEF Holds, ChecksLate, At
      <3>2. oldKeys[c] > 0 => ChecksLate(c)
        BY <1>1, <1>4, <2>9 DEF ChecksLate
      <3>3. ~(oldKeys[c] > 0) => Fits(spent, account, Estimate(c))
        BY <2>7, <2>9
      <3>. QED
        BY <1>1, <2>4, <2>7, <3>1, <3>2, <3>3, BusyCaller, Admitted
    <2>10. CASE account = MerchantAccount(c) /\ ~fits
      <3>1. ~Holds(c)' /\ ~ChecksLate(c)'
        BY <2>3, <2>5, <2>6, <2>10 DEF Holds, ChecksLate, At
      <3>. QED
        BY <1>1, <2>4, <3>1, Released
    <2>11. CASE account # MerchantAccount(c)
      <3>1. ~Holds(c)'
        BY <2>3, <2>5, <2>11 DEF Holds, At
      <3>2. ChecksLate(c)' <=> ChecksLate(c)
        BY <1>1, <2>3, <2>5, <2>8, <2>11 DEF ChecksLate, At
      <3>. QED
        BY <1>1, <2>4, <2>7, <3>1, <3>2, Kept
    <2>. QED
      BY <2>7, <2>9, <2>10, <2>11
  <1>. QED
    BY <1>1, <1>2, <1>3, <1>4 DEF MerchantBudget

\* The second check admits to the shared counter.
LEMMA GlobalBudgetStep ==
    ASSUME Inv, NEW c \in Callers, GlobalBudget(c)
    PROVE  BudgetStep
  <1>. USE DEF Inv, TypeOK
  <1>1. ~At(c, "idle") /\ At(c, "globalBudget") /\ UNCHANGED spent
    BY DEF GlobalBudget, At
  <1>2. CASE Delegate(c) \/ Finish(c)
    BY <1>1, <1>2, LetGo
  <1>3. ASSUME NEW fits \in Verdicts(c, GlobalAccount(c), oldKeys[c] = 2),
               Goto(c, "calling"), call[c].fits, fits
        PROVE  BudgetStep
    <2>1. /\ OnlyMoves(c) /\ call'[c].pc = "calling"
          /\ call'[c].req = call[c].req
      BY <1>1, <1>3, GotoPC DEF PCs
    <2>2. Moves(c)
      BY <1>3, <2>1, OthersKeys DEF Goto
    <2>3. /\ MerchantAccount(c)' = MerchantAccount(c)
          /\ GlobalAccount(c)' = GlobalAccount(c)
      BY <2>1 DEF MerchantAccount, GlobalAccount
    <2>4. MerchantAccount(c) # GlobalAccount(c)
      BY <1>1, BusyCaller, ChainConfig, LedgerConfig DEF MerchantAccount, GlobalAccount
    <2>5. ~ChecksLate(c)'
      BY <2>1 DEF ChecksLate, At
    <2>. DEFINE old == oldKeys[c] = 2
    <2>10. ~old => fits = Fits(spent, GlobalAccount(c), Estimate(c))
      <3>1. old \in BOOLEAN /\ fits \in Verdicts(c, GlobalAccount(c), old)
        BY <1>3
      <3>. HIDE DEF old
      <3>. QED
        BY <3>1, VerdictsType
    <2>6. CASE c \notin Connected
      BY <1>1, <2>2, <2>6, NeverHolds
    <2>7. CASE c \in Connected /\ account = GlobalAccount(c)
      <3>1. Holds(c)' /\ ~Holds(c)
        BY <1>1, <2>1, <2>3, <2>4, <2>7 DEF Holds, At
      <3>2. oldKeys[c] = 2 => ChecksLate(c)
        BY <1>1, <2>7 DEF ChecksLate, At
      <3>3. ~(oldKeys[c] = 2) => Fits(spent, account, Estimate(c))
        BY <1>3, <2>7, <2>10
      <3>. QED
        BY <1>1, <2>2, <2>5, <3>1, <3>2, <3>3, BusyCaller, Admitted
    <2>8. CASE c \in Connected /\ account = MerchantAccount(c)
      <3>1. Holds(c) /\ Holds(c)' /\ ~ChecksLate(c)
        BY <1>1, <1>3, <2>1, <2>3, <2>4, <2>8 DEF Holds, ChecksLate, At
      <3>. QED
        BY <1>1, <2>2, <2>5, <3>1, Kept
    <2>9. CASE account \notin {MerchantAccount(c), GlobalAccount(c)}
      <3>1. ~Holds(c)'
        BY <2>1, <2>3, <2>9 DEF Holds, At
      <3>. QED
        BY <1>1, <2>2, <2>5, <3>1, Released
    <2>. QED
      BY <2>6, <2>7, <2>8, <2>9
  <1>. QED
    BY <1>2, <1>3 DEF GlobalBudget

\* The debit settles what the caller holds, on its accounts of today; what its
\* keys of an earlier day are charged is lost to the budget.
LEMMA DebitStep ==
    ASSUME Inv, NEW c \in Callers, DebitAnswer(c)
    PROVE  BudgetStep
  <1>. USE DEF Inv, TypeOK
  <1>1. ~At(c, "idle") /\ At(c, "debit") /\ call[c].cost \in AnswerCosts
    BY DEF DebitAnswer, At, CostsPossible
  <1>2. Moves(c) /\ call'[c].pc \in {"idle", "failed"}
    <2>1. OnlyMoves(c) /\ call'[c].pc \in {"idle", "failed"}
      BY <1>1, FinishPC, GotoPC DEF DebitAnswer, PCs
    <2>. QED
      BY <2>1, OthersKeys DEF DebitAnswer, Finish, Goto
  <1>3. ~Holds(c)' /\ ~ChecksLate(c)' /\ ~ChecksLate(c)
    BY <1>1, <1>2 DEF Holds, ChecksLate, At
  <1>4. CASE spent'[account] = spent[account]
    BY <1>2, <1>3, <1>4, Released
  <1>5. CASE /\ c \in Connected /\ account \in {MerchantAccount(c), GlobalAccount(c)}
             /\ spent'[account] = spent[account] + call[c].cost
    <2>1. c \in Holders
      BY <1>1, <1>5 DEF Holders, Holds, At
    <2>2. Holders' = Holders \ {c} /\ LateCallers' = LateCallers
      BY <1>2, <1>3, HoldersUpdate DEF LateCallers
    <2>3. Budget!Settle(c)
      BY <1>1, <1>5, <2>1, <2>2 DEF Budget!Settle, AnswerCosts
    <2>. QED
      BY <2>3 DEF BudgetStep, Budget!Next
  <1>6. CASE /\ c \in Connected
             /\ spent' = Debit(spent, call[c].req.scope, call[c].req.merchant,
                               call[c].cost, oldKeys[c])
    <2>1. spent'[account] = IF \/ account = MerchantAccount(c) /\ oldKeys[c] = 0
                               \/ account = GlobalAccount(c) /\ oldKeys[c] < 2
                            THEN spent[account] + call[c].cost ELSE spent[account]
      BY <1>6, AccountConfig DEF Debit, MerchantAccount, GlobalAccount
    <2>. QED
      BY <1>4, <1>5, <1>6, <2>1
  <1>. QED
    BY <1>4, <1>6 DEF DebitAnswer
-----------------------------------------------------------------------------
LEMMA BudgetInit == Init => Budget!Init
  <1>. SUFFICES ASSUME Init PROVE Budget!Init
    OBVIOUS
  <1>1. spent[account] = 0
    BY AccountConfig DEF Init, EmptyLedger
  <1>2. Holders = {} /\ LateCallers = {}
    BY HoldsOnlyBetween DEF Init, IdleCall, Holders, LateCallers
  <1>. QED
    BY <1>1, <1>2 DEF Budget!Init

LEMMA ImplementationStep == Inv /\ [Next]_vars => BudgetStep
  <1>. SUFFICES ASSUME Inv, [Next]_vars PROVE BudgetStep
    OBVIOUS
  <1>. USE DEF Inv, TypeOK
  <1>1. CASE UNCHANGED vars
    <2>1. Holders' = Holders /\ LateCallers' = LateCallers
      BY <1>1 DEF vars, Holders, Holds, LateCallers, ChecksLate, At, MerchantAccount, GlobalAccount
    <2>. QED
      BY <1>1, <2>1 DEF vars, BudgetStep, Budget!vars
  <1>2. ASSUME NEW c \in Callers, Begin(c)
        PROVE  BudgetStep
    <2>1. PICK req \in Requests : call' = [call EXCEPT ![c] = AtTier(req, 1)]
      BY <1>2 DEF Begin
    <2>2. CallsOK'
      BY <2>1, AtTierType, FirstTier
    <2>3. \A x \in Calls : [x EXCEPT !.pc = "gate", !.req = req, !.k = 1].pc = "gate"
      BY DEF Calls
    <2>4. OnlyMoves(c) /\ call'[c].pc = "gate"
      BY <2>1, <2>2, <2>3, IdleCallType DEF AtTier, OnlyMoves, CallsOK
    <2>5. ~Holds(c)' /\ ~ChecksLate(c)'
      BY <2>4 DEF Holds, ChecksLate, At
    <2>6. Moves(c)
      BY <1>2, <2>4, OthersKeys DEF Begin
    <2>. QED
      BY <1>2, <2>5, <2>6, Released DEF Begin
  <1>3. ASSUME NEW c \in Callers, Gate(c) \/ GateCooldown(c)
        PROVE  BudgetStep
    BY <1>3, LetGo DEF Gate, GateCooldown, At
  <1>4. ASSUME NEW c \in Callers, MerchantBudget(c) \/ GlobalBudget(c) \/ DebitAnswer(c)
        PROVE  BudgetStep
    BY <1>4, MerchantBudgetStep, GlobalBudgetStep, DebitStep
  <1>5. ASSUME NEW c \in Callers, Answer(c)
        PROVE  BudgetStep
    <2>1. PICK n \in ActualTokens :
             call' = [call EXCEPT ![c].pc = "answered",
                                  ![c].cost = EstimateCost(Tier(c), n)]
      BY <1>5 DEF Answer
    <2>2. call[c] \in Calls /\ call[c].pc = "calling"
      BY <1>5 DEF CallsOK, Answer, At
    <2>3. call'[c] = [call[c] EXCEPT !.pc = "answered", !.cost = EstimateCost(Tier(c), n)]
      BY <2>1 DEF CallsOK
    <2>4. call'[c].pc = "answered" /\ call'[c].req = call[c].req
      BY <2>2, <2>3 DEF Calls
    <2>5. OnlyMoves(c)
      <3>1. CallsOK'
        BY <1>5, TypeStep DEF Next, Step
      <3>. QED
        BY <2>1, <3>1 DEF OnlyMoves, CallsOK
    <2>6. Moves(c)
      BY <1>5, <2>5, OthersKeys DEF Answer
    <2>. QED
      BY <1>5, <2>2, <2>4, <2>6, HoldsOn DEF Answer
  <1>6. ASSUME NEW c \in Callers, RecordSuccess(c)
        PROVE  BudgetStep
    <2>1. OnlyMoves(c) /\ call'[c].pc = "debit" /\ call'[c].req = call[c].req
      BY <1>6, GotoPC DEF RecordSuccess, At, PCs
    <2>2. Moves(c)
      BY <1>6, <2>1, OthersKeys DEF RecordSuccess, Goto
    <2>. QED
      BY <1>6, <2>1, <2>2, HoldsOn DEF RecordSuccess, At
  <1>7. ASSUME NEW c \in Callers,
               ProviderError(c) \/ RecordFailure(c) \/ Trip(c) \/ Crash(c)
        PROVE  BudgetStep
    BY <1>7, LetGo DEF ProviderError, RecordFailure, Trip, Crash, At
  <1>8. CASE Tick
    <2>1. ASSUME NEW c \in Callers
          PROVE  /\ call'[c].pc = call[c].pc
                 /\ call'[c].req = call[c].req
                 /\ call'[c].fits = call[c].fits
      BY <1>8 DEF Tick, CallsOK, Calls
    <2>2. \A c \in Callers : (Holds(c)' <=> Holds(c)) /\ (ChecksLate(c)' <=> ChecksLate(c))
      BY <1>8, <2>1 DEF Tick, Holds, ChecksLate, At, MerchantAccount, GlobalAccount
    <2>3. Holders' = Holders /\ LateCallers' = LateCallers
      BY <2>2 DEF Holders, LateCallers
    <2>. QED
      BY <1>8, <2>3 DEF Tick, BudgetStep, Budget!vars
  <1>9. CASE Midnight
    <2>1. Holders' = Holders
      BY <1>9 DEF Midnight, Holders, Holds, At, MerchantAccount, GlobalAccount
    <2>2. spent'[account] = 0
      BY <1>9, AccountConfig DEF Midnight, EmptyLedger
    <2>3. LateCallers \subseteq LateCallers'
      <3>1. ASSUME NEW c \in Callers, ChecksLate(c)
            PROVE  ChecksLate(c)'
        <4>1. oldKeys[c] \in 0..2 /\ oldKeys'[c] \in 0..2 /\ oldKeys'[c] >= oldKeys[c]
          BY <1>9 DEF Midnight
        <4>2. oldKeys'[c] > 0 /\ (oldKeys[c] = 2 => oldKeys'[c] = 2)
          BY <3>1, <4>1 DEF ChecksLate
        <4>. QED
          BY <1>9, <3>1, <4>2 DEF Midnight, ChecksLate, At, MerchantAccount, GlobalAccount
      <3>. QED
        BY <3>1 DEF LateCallers
    <2>4. LateCallers' \in SUBSET (Callers \ Holders)
      <3>1. CallsOK'
        BY <1>9, TypeStep DEF Next
      <3>. QED
        BY <2>1, <3>1, HeldIsCheckedNext DEF LateCallers, Holders
    <2>. QED
      BY <2>1, <2>2, <2>3, <2>4 DEF BudgetStep, Budget!Next, Budget!NewDay
  <1>. QED
    BY <1>1, <1>2, <1>3, <1>4, <1>5, <1>6, <1>7, <1>8, <1>9 DEF Next, Step

(***************************************************************************)
(* The chain and the ledger together implement SoftBudget for the account: *)
(* whichever callers check, answer, fail and debit in whatever order, each *)
(* moves the counter at most once per admission.                           *)
(***************************************************************************)
THEOREM BudgetImplemented == Spec => ImplementsBudget
  <1>1. Inv /\ [Next]_vars => [Budget!Next]_(Budget!vars)
    BY ImplementationStep DEF BudgetStep
  <1>. QED
    BY <1>1, BudgetInit, InvCorrect, PTL DEF Spec, ImplementsBudget, Budget!Spec
-----------------------------------------------------------------------------
LEMMA HoldersBounded ==
    ASSUME NEW S \in SUBSET Callers
    PROVE  /\ IsFiniteSet(S)
           /\ Cardinality(S) \in Nat
           /\ Cardinality(Callers) \in Nat
           /\ Cardinality(S) <= Cardinality(Callers)
  BY FS_Subset, FS_CardinalityType, AccountConfig

\* A worst case per holder: more holders, more in total.
LEMMA TimesMonotonic ==
    ASSUME NEW worst \in Nat, NEW m \in Nat, NEW n \in Nat, m <= n
    PROVE  worst * m \in Nat /\ worst * n \in Nat /\ worst * m <= worst * n
  <1>1. worst * n = worst * m + worst * (n - m)
    BY SMT
  <1>2. worst * (n - m) \in Nat /\ worst * m \in Nat /\ worst * n \in Nat
    BY SMT
  <1>. QED
    BY <1>1, <1>2, SMT

\* Callers that may still bring today's counter an answer.
Exposed == Holders \cup LateCallers

LEMMA OverrunStep ==
    ASSUME Inv, CallsOK', OverrunBounded, BudgetStep
    PROVE  OverrunBounded'
  <1>. USE DEF OverrunBounded
  <1>. DEFINE held == WorstCost * Cardinality(Exposed)
              heldThen == WorstCost * Cardinality(Exposed')
              total == WorstCost * Cardinality(Callers)
  <1>1. WorstCost \in Nat /\ Ceiling(account) \in Nat /\ spent[account] \in Nat
    BY AccountConfig, LedgerConfig DEF Ceiling, Accounts, Inv, TypeOK
  <1>2. /\ Exposed \in SUBSET Callers /\ IsFiniteSet(Exposed)
        /\ Cardinality(Exposed) \in Nat /\ held \in Nat
    BY <1>1, HoldersBounded, TimesMonotonic DEF Exposed, Holders, LateCallers
  <1>3. /\ Exposed' \in SUBSET Callers /\ Cardinality(Exposed') \in Nat /\ heldThen \in Nat
        /\ total \in Nat /\ heldThen <= total
    <2>1. Exposed' \in SUBSET Callers
      BY DEF Exposed, Holders, LateCallers
    <2>. QED
      BY <1>1, <2>1, HoldersBounded, TimesMonotonic
  <1>4. /\ spent[account] + held <= Ceiling(account) + total
        /\ OverrunBounded' <=> spent'[account] + heldThen <= Ceiling(account) + total
    BY DEF Exposed, Ceiling
  <1>5. ASSUME NEW c \in Exposed, Exposed' = Exposed \ {c}
        PROVE  held = heldThen + WorstCost
    <2>1. Cardinality(Exposed \ {c}) = Cardinality(Exposed) - 1
      BY <1>2, FS_RemoveElement
    <2>. QED
      BY <1>1, <1>2, <1>3, <1>5, <2>1
  <1>6. ASSUME NEW c \in Holders
        PROVE  c \notin LateCallers
    BY <1>6, HeldIsChecked DEF Holders, LateCallers, Inv, TypeOK
  <1>7. ASSUME Exposed' = Exposed, spent'[account] = spent[account]
        PROVE  OverrunBounded'
    BY <1>4, <1>7
  <1>8. CASE UNCHANGED Budget!vars
    <2>1. Exposed' = Exposed /\ spent'[account] = spent[account]
      BY <1>8 DEF Budget!vars, Exposed
    <2>. QED
      BY <1>7, <2>1
  <1>9. ASSUME NEW c \in Callers, Budget!Admit(c)
        PROVE  OverrunBounded'
    <2>1. spent'[account] = spent[account]
      BY <1>9 DEF Budget!Admit
    <2>2. CASE c \in LateCallers
      <3>1. Exposed' = Exposed
        BY <1>9, <2>2 DEF Budget!Admit, Exposed
      <3>. QED
        BY <1>7, <2>1, <3>1
    <2>3. CASE c \notin LateCallers
      <3>1. PICK e \in {EstimateCost(t, r.tokens) : t \in Tiers, r \in Requests} :
               spent[account] + e <= Ceiling(account)
        BY <1>9, <2>3 DEF Budget!Admit
      <3>2. e \in Nat
        BY EstimateCostType, ChainConfig
      <3>. QED
        BY <1>1, <1>3, <1>4, <2>1, <3>1, <3>2
    <2>. QED
      BY <2>2, <2>3
  <1>10. ASSUME NEW c \in Callers, Budget!Refuse(c)
         PROVE  OverrunBounded'
    <2>1. spent'[account] = spent[account] /\ Holders' = Holders
      BY <1>10 DEF Budget!Refuse
    <2>2. c \notin Holders /\ c \in LateCallers /\ LateCallers' = LateCallers \ {c}
      BY <1>6, <1>10 DEF Budget!Refuse
    <2>3. c \in Exposed /\ Exposed' = Exposed \ {c}
      BY <2>1, <2>2 DEF Exposed
    <2>4. held = heldThen + WorstCost
      BY <1>5, <2>3
    <2>. QED
      BY <1>1, <1>2, <1>3, <1>4, <2>1, <2>4
  <1>11. ASSUME NEW c \in Holders, Holders' = Holders \ {c}, UNCHANGED LateCallers
         PROVE  held = heldThen + WorstCost
    <2>1. c \in Exposed /\ Exposed' = Exposed \ {c}
      BY <1>6, <1>11 DEF Exposed
    <2>. QED
      BY <1>5, <2>1
  <1>12. ASSUME NEW c \in Callers, Budget!Settle(c)
         PROVE  OverrunBounded'
    <2>1. held = heldThen + WorstCost
      BY <1>11, <1>12 DEF Budget!Settle
    <2>2. PICK cost \in AnswerCosts : spent'[account] = spent[account] + cost
      BY <1>12 DEF Budget!Settle, AnswerCosts
    <2>3. cost \in Nat /\ cost <= WorstCost
      BY EstimateCostType, ChainConfig, AccountConfig DEF AnswerCosts
    <2>. QED
      BY <1>1, <1>2, <1>3, <1>4, <2>1, <2>2, <2>3
  <1>13. ASSUME NEW c \in Callers, Budget!Drop(c)
         PROVE  OverrunBounded'
    <2>1. held = heldThen + WorstCost
      BY <1>11, <1>13 DEF Budget!Drop
    <2>2. spent'[account] = spent[account]
      BY <1>13 DEF Budget!Drop
    <2>. QED
      BY <1>1, <1>2, <1>3, <1>4, <2>1, <2>2
  <1>14. CASE Budget!NewDay
    <2>1. spent'[account] = 0
      BY <1>14 DEF Budget!NewDay
    <2>. QED
      BY <1>1, <1>3, <1>4, <2>1
  <1>. QED
    BY <1>8, <1>9, <1>10, <1>12, <1>13, <1>14 DEF BudgetStep, Budget!Next

(***************************************************************************)
(* The overrun of a daily ceiling is bounded for any number of callers,    *)
(* any prices and ceilings, any requests, with Redis failing or not, and   *)
(* over any midnights.                                                     *)
(***************************************************************************)
THEOREM OverrunCorrect == Spec => []OverrunBounded
  <1>1. Init => OverrunBounded
    <2>. SUFFICES ASSUME Init PROVE OverrunBounded
      OBVIOUS
    <2>1. spent[account] = 0 /\ Holders \cup LateCallers = {}
      BY BudgetInit DEF Budget!Init
    <2>2. Ceiling(account) \in Nat
      BY AccountConfig, LedgerConfig DEF Ceiling, Accounts
    <2>3. /\ Cardinality(Holders \cup LateCallers) = 0
          /\ WorstCost \in Nat /\ Cardinality(Callers) \in Nat
      BY <2>1, AccountConfig, FS_EmptySet, FS_CardinalityType
    <2>4. WorstCost * 0 = 0 /\ WorstCost * Cardinality(Callers) \in Nat
      BY <2>3
    <2>. QED
      BY <2>1, <2>2, <2>3, <2>4 DEF OverrunBounded
  <1>2. Inv /\ OverrunBounded /\ [Next]_vars => OverrunBounded'
    BY ImplementationStep, TypeStep, OverrunStep DEF Inv, TypeOK
  <1>. QED
    BY <1>1, <1>2, InvCorrect, PTL DEF Spec
-----------------------------------------------------------------------------
(***************************************************************************)
(* The two counters of a debit.                                            *)
(***************************************************************************)
Shares(ledger, s) == [m \in Merchants |-> ledger[<<s, m>>]]
Sum(ledger, s) == SumFunctionOnSet(Shares(ledger, s), Merchants)

LEMMA MerchantsSum == \A t \in Scopes : MerchantsSpent(t) = Sum(spent, t)
  BY DEF SumFunction, MerchantsSpent, Shares, Sum

LEMMA MerchantsSumNext == (\A t \in Scopes : MerchantsSpent(t) = Sum(spent, t))'
  BY MerchantsSum, PTL

LEMMA LedgerSums ==
    ASSUME NEW ledger \in [Accounts -> Nat], NEW s \in Scopes
    PROVE  Sum(ledger, s) \in Nat /\ ledger[<<s, GLOBAL>>] \in Nat
  <1>1. \A m \in Merchants : Shares(ledger, s)[m] \in Nat
    BY DEF Shares, Accounts
  <1>. QED
    BY <1>1, SumType, LedgerConfig DEF Sum, Accounts

LEMMA EmptySums ==
    ASSUME NEW s \in Scopes
    PROVE  Sum(EmptyLedger, s) = 0 /\ EmptyLedger[<<s, GLOBAL>>] = 0
  <1>1. \A m \in Merchants : Shares(EmptyLedger, s)[m] = 0
    BY DEF Shares, EmptyLedger, Accounts
  <1>. QED
    BY <1>1, SumZero, LedgerConfig DEF Sum, EmptyLedger, Accounts

\* A debit moves the sum only with a merchant's key of today,
LEMMA DebitSum ==
    ASSUME NEW ledger \in [Accounts -> Nat], NEW t \in Scopes, NEW m \in Merchants,
           NEW price \in Nat, NEW before \in 0..2, NEW s \in Scopes
    PROVE  Sum(Debit(ledger, t, m, price, before), s)
              = IF s = t /\ before = 0 THEN Sum(ledger, s) + price ELSE Sum(ledger, s)
  <1>. DEFINE after == Debit(ledger, t, m, price, before)
              f == Shares(ledger, s)
              g == Shares(after, s)
  <1>1. \A n \in Merchants : <<s, n>> \in Accounts /\ <<s, n>> # <<t, GLOBAL>>
    BY LedgerConfig DEF Accounts
  <1>2. \A n \in Merchants : g[n] = IF s = t /\ n = m /\ before = 0 THEN f[n] + price ELSE f[n]
    BY <1>1 DEF Debit, Shares
  <1>3. \A n \in Merchants : f[n] \in Nat /\ g[n] \in Nat
    BY <1>1, <1>2 DEF Shares
  <1>4. CASE s = t /\ before = 0
    <2>1. g[m] = f[m] + price /\ \A n \in Merchants \ {m} : g[n] = f[n]
      BY <1>2, <1>4
    <2>. HIDE DEF f, g
    <2>2. IsFiniteSet(Merchants)
      BY LedgerConfig
    <2>3. SumFunctionOnSet(g, Merchants) = SumFunctionOnSet(f, Merchants) + price
      BY <1>3, <2>1, <2>2, SumPlus, ZenonT(30)
    <2>. QED
      BY <1>4, <2>3 DEF f, g, Sum
  <1>5. CASE ~(s = t /\ before = 0)
    <2>1. g = f
      BY <1>2, <1>5 DEF Shares
    <2>. QED
      BY <1>5, <2>1 DEF Sum
  <1>. QED
    BY <1>4, <1>5

\* and the shared counter also when the merchant's key alone is old.
LEMMA DebitShared ==
    ASSUME NEW ledger \in [Accounts -> Nat], NEW t \in Scopes, NEW m \in Merchants,
           NEW price \in Nat, NEW before \in 0..2, NEW s \in Scopes
    PROVE  Debit(ledger, t, m, price, before)[<<s, GLOBAL>>]
              = IF s = t /\ before < 2 THEN ledger[<<s, GLOBAL>>] + price
                                       ELSE ledger[<<s, GLOBAL>>]
  <1>1. <<s, GLOBAL>> \in Accounts /\ <<s, GLOBAL>> # <<t, m>>
    BY LedgerConfig DEF Accounts
  <1>. QED
    BY <1>1 DEF Debit

\* A debit starts with keys of today: only midnight puts a caller astride.
LEMMA StraddlingShrinks ==
    ASSUME TypeOK, [Next]_vars, ~Midnight
    PROVE  Straddling' \subseteq Straddling
  <1>. SUFFICES ASSUME NEW d \in Callers, At(d, "debit")', oldKeys'[d] = 1
                PROVE  At(d, "debit") /\ oldKeys[d] = 1
    BY DEF Straddling
  <1>. USE DEF TypeOK
  <1>1. CASE call'[d].pc = call[d].pc /\ oldKeys'[d] = oldKeys[d]
    BY <1>1 DEF At
  <1>2. CASE UNCHANGED <<call, oldKeys>>
    BY <1>1, <1>2
  <1>3. CASE Tick
    <2>1. call[d] \in Calls
      BY DEF CallsOK
    <2>2. call'[d] \in {call[d], [call[d] EXCEPT !.age = call[d].age + 1]} /\ UNCHANGED oldKeys
      BY <1>3 DEF Tick
    <2>. QED
      BY <1>1, <2>1, <2>2 DEF Calls
  <1>4. ~KeysUsed(d)
    BY DEF KeysUsed
  <1>5. ASSUME NEW c \in Callers, c # d, Begin(c) \/ Step(c) \/ Crash(c)
        PROVE  call'[d] = call[d] /\ oldKeys'[d] = oldKeys[d]
    BY <1>5 DEF Begin, Step, Crash, Gate, GateCooldown, MerchantBudget, GlobalBudget, Answer,
                ProviderError, RecordSuccess, DebitAnswer, RecordFailure, Trip,
                Goto, Finish, Delegate, KeysUsed, CallsOK
  <1>6. ~Begin(d)
    <2>1. ASSUME Begin(d)
          PROVE  FALSE
      <3>1. PICK req \in Requests : call' = [call EXCEPT ![d] = AtTier(req, 1)]
        BY <2>1 DEF Begin
      <3>2. AtTier(req, 1).pc = "gate"
        BY IdleCallType DEF AtTier, Calls
      <3>. QED
        BY <3>1, <3>2 DEF CallsOK, At
    <2>. QED
      BY <2>1
  <1>7. ~MerchantBudget(d)
    <2>1. ASSUME NEW fits, call' = [call EXCEPT ![d].pc = "globalBudget", ![d].fits = fits]
          PROVE  FALSE
      BY <2>1 DEF CallsOK, At, Calls
    <2>. QED
      BY <1>4, <2>1 DEF MerchantBudget, Delegate, Finish, Goto
  <1>8. ~Answer(d)
    <2>1. ASSUME NEW cost, call' = [call EXCEPT ![d].pc = "answered", ![d].cost = cost]
          PROVE  FALSE
      BY <2>1 DEF CallsOK, At, Calls
    <2>. QED
      BY <2>1 DEF Answer
  <1>9. ~Step(d) /\ ~Crash(d)
    BY <1>4, <1>7, <1>8 DEF Step, Crash, Gate, GateCooldown, GlobalBudget, ProviderError,
       RecordSuccess, DebitAnswer, RecordFailure, Trip, Delegate, Finish, Goto
  <1>. QED
    BY <1>1, <1>2, <1>3, <1>5, <1>6, <1>9 DEF Next, vars

\* What MerchantsTrackGlobal says of one scope, in numbers.
Tracks(sum, shared, astride, all) ==
    sum <= shared /\ shared + WorstCost * astride <= sum + WorstCost * all

LEMMA TracksFewer ==
    ASSUME NEW sum \in Nat, NEW shared \in Nat, NEW m \in Nat, NEW n \in Nat, NEW all \in Nat,
           m <= n, Tracks(sum, shared, n, all)
    PROVE  /\ Tracks(sum, shared, m, all)
           /\ \A cost \in Nat : Tracks(sum + cost, shared + cost, m, all)
           /\ m < n => \A cost \in 0..WorstCost : Tracks(sum, shared + cost, m, all)
  <1>1. WorstCost \in Nat
    BY AccountConfig
  <1>2. /\ WorstCost * m \in Nat /\ WorstCost * n \in Nat /\ WorstCost * m <= WorstCost * n
        /\ WorstCost * all \in Nat
    BY <1>1, TimesMonotonic
  <1>3. m < n => WorstCost * m + WorstCost <= WorstCost * n
    <2>1. ASSUME m < n
          PROVE  WorstCost * (m + 1) <= WorstCost * n
      BY <1>1, <2>1, TimesMonotonic
    <2>2. WorstCost * (m + 1) = WorstCost * m + WorstCost
      BY <1>1
    <2>. QED
      BY <2>1, <2>2
  <1>4. /\ sum <= shared
        /\ shared + WorstCost * n <= sum + WorstCost * all
    BY DEF Tracks
  <1>. SUFFICES ASSUME NEW a \in Nat, NEW b \in Nat, NEW w \in Nat, a = WorstCost * m,
                       b = WorstCost * n, w = WorstCost * all
                PROVE  /\ sum <= shared /\ shared + a <= sum + w
                       /\ \A cost \in Nat : sum + cost <= shared + cost /\ shared + cost + a <= sum + cost + w
                       /\ m < n => \A cost \in 0..WorstCost :
                                      sum <= shared + cost /\ shared + cost + a <= sum + w
    BY <1>2 DEF Tracks
  <1>. QED
    BY <1>1, <1>2, <1>3, <1>4

LEMMA TrackStep == Inv /\ MerchantsTrackGlobal /\ [Next]_vars => MerchantsTrackGlobal'
  <1>. SUFFICES ASSUME Inv, MerchantsTrackGlobal, [Next]_vars, NEW s \in Scopes
                PROVE  Tracks(Sum(spent', s), spent'[<<s, GLOBAL>>],
                              Cardinality(Straddling'), Cardinality(Callers))
    BY MerchantsSumNext DEF MerchantsTrackGlobal, Tracks
  <1>. USE DEF Inv, TypeOK
  <1>. DEFINE all == Cardinality(Callers)
              astride == Cardinality(Straddling)
              astrideThen == Cardinality(Straddling')
  <1>1. /\ Straddling \in SUBSET Callers /\ IsFiniteSet(Straddling)
        /\ astride \in Nat /\ all \in Nat
    BY HoldersBounded DEF Straddling
  <1>2. Straddling' \in SUBSET Callers /\ astrideThen \in Nat /\ astrideThen <= all
    <2>1. Straddling' \in SUBSET Callers
      BY DEF Straddling
    <2>. QED
      BY <2>1, HoldersBounded
  <1>3. Sum(spent, s) \in Nat /\ spent[<<s, GLOBAL>>] \in Nat
    BY LedgerSums
  <1>4. Tracks(Sum(spent, s), spent[<<s, GLOBAL>>], astride, all)
    BY MerchantsSum DEF MerchantsTrackGlobal, Tracks
  <1>5. CASE Midnight
    <2>1. Sum(spent', s) = 0 /\ spent'[<<s, GLOBAL>>] = 0
      BY <1>5, EmptySums DEF Midnight
    <2>2. /\ WorstCost * astrideThen \in Nat /\ WorstCost * all \in Nat
          /\ WorstCost * astrideThen <= WorstCost * all
      BY <1>1, <1>2, AccountConfig, TimesMonotonic
    <2>. QED
      BY <2>1, <2>2 DEF Tracks
  <1>6. ASSUME ~Midnight
        PROVE  /\ Straddling' \subseteq Straddling /\ astrideThen <= astride
               /\ Straddling' # Straddling => astrideThen < astride
    <2>1. Straddling' \subseteq Straddling
      BY <1>6, StraddlingShrinks
    <2>2. astrideThen <= astride
      BY <1>1, <2>1, FS_Subset
    <2>3. astrideThen = astride => Straddling' = Straddling
      BY <1>1, <2>1, FS_Subset
    <2>. QED
      BY <1>1, <1>2, <2>1, <2>2, <2>3
  <1>7. CASE ~Midnight /\ UNCHANGED spent
    BY <1>1, <1>2, <1>3, <1>4, <1>6, <1>7, TracksFewer
  <1>8. ASSUME NEW c \in Callers, DebitAnswer(c), ~Midnight, ~UNCHANGED spent
        PROVE  Tracks(Sum(spent', s), spent'[<<s, GLOBAL>>], astrideThen, all)
    <2>. DEFINE cost == call[c].cost
                old == oldKeys[c]
                scope == call[c].req.scope
    <2>1. /\ At(c, "debit") /\ ~At(c, "idle")
          /\ call[c].cost \in AnswerCosts
      BY <1>8 DEF DebitAnswer, At, CostsPossible
    <2>2. scope \in Scopes /\ call[c].req.merchant \in Merchants
      BY <2>1, BusyCaller, ChainConfig
    <2>3. cost \in 0..WorstCost
      <3>1. PICK t \in Tiers, n \in ActualTokens : cost = EstimateCost(t, n)
        BY <2>1 DEF AnswerCosts
      <3>2. cost \in Nat /\ cost <= WorstCost /\ WorstCost \in Nat
        BY <3>1, EstimateCostType, ChainConfig, AccountConfig
      <3>. QED
        BY <3>2
    <2>4. old \in 0..2
      OBVIOUS
    <2>5. spent' = Debit(spent, scope, call[c].req.merchant, cost, old)
      BY <1>8 DEF DebitAnswer
    <2>6. /\ Sum(spent', s) = IF s = scope /\ old = 0 THEN Sum(spent, s) + cost ELSE Sum(spent, s)
          /\ spent'[<<s, GLOBAL>>] = IF s = scope /\ old < 2 THEN spent[<<s, GLOBAL>>] + cost
                                                             ELSE spent[<<s, GLOBAL>>]
      <3>. DEFINE merchant == call[c].req.merchant
      <3>1. spent \in [Accounts -> Nat] /\ cost \in Nat
        BY <2>3, AccountConfig
      <3>2. merchant \in Merchants /\ spent' = Debit(spent, scope, merchant, cost, old)
        BY <2>2, <2>5
      <3>. HIDE DEF cost, old, scope, merchant
      <3>3. Sum(spent', s) = IF s = scope /\ old = 0 THEN Sum(spent, s) + cost ELSE Sum(spent, s)
        BY <2>2, <2>4, <3>1, <3>2, DebitSum
      <3>. QED
        BY <2>2, <2>4, <3>1, <3>2, <3>3, DebitShared
    <2>7. old = 1 => astrideThen < astride
      <3>1. c \notin Straddling'
        <4>1. KeysUsed(c)
          BY <1>8 DEF DebitAnswer, Finish, Goto
        <4>2. oldKeys'[c] = 0
          BY <4>1 DEF KeysUsed
        <4>. QED
          BY <4>2 DEF Straddling
      <3>2. old = 1 => c \in Straddling
        BY <2>1 DEF Straddling
      <3>. QED
        BY <1>6, <1>8, <3>1, <3>2
    <2>. HIDE DEF cost, old, scope, all, astride, astrideThen
    <2>8. /\ Tracks(Sum(spent, s), spent[<<s, GLOBAL>>], astrideThen, all)
          /\ \A n \in Nat : Tracks(Sum(spent, s) + n, spent[<<s, GLOBAL>>] + n, astrideThen, all)
          /\ old = 1 => \A n \in 0..WorstCost :
                           Tracks(Sum(spent, s), spent[<<s, GLOBAL>>] + n, astrideThen, all)
      BY <1>1, <1>2, <1>3, <1>4, <1>6, <1>8, <2>7, TracksFewer
    <2>9. cost \in Nat
      BY <2>3, AccountConfig
    <2>. QED
      BY <2>3, <2>4, <2>6, <2>8, <2>9
  <1>9. Midnight \/ UNCHANGED spent \/ \E c \in Callers : DebitAnswer(c)
    BY DEF Next, Step, vars, Tick, Begin, Crash, Gate, GateCooldown, MerchantBudget,
           GlobalBudget, Answer, ProviderError, RecordSuccess, RecordFailure, Trip
  <1>. QED
    BY <1>5, <1>7, <1>8, <1>9

(***************************************************************************)
(* The merchants of a scope never show more than its shared counter, and   *)
(* less by one worst-case answer per caller at most, for any number of     *)
(* merchants: only debits that built their two keys on either side of a    *)
(* midnight part the counters, whatever fails or is killed in between.     *)
(***************************************************************************)
THEOREM TracksCorrect == Spec => []MerchantsTrackGlobal
  <1>1. Init => MerchantsTrackGlobal
    <2>. SUFFICES ASSUME Init, NEW s \in Scopes
                  PROVE  /\ MerchantsSpent(s) <= spent[<<s, GLOBAL>>]
                         /\ spent[<<s, GLOBAL>>] + WorstCost * Cardinality(Straddling)
                               <= MerchantsSpent(s) + WorstCost * Cardinality(Callers)
      BY DEF MerchantsTrackGlobal
    <2>1. MerchantsSpent(s) = 0 /\ spent[<<s, GLOBAL>>] = 0
      BY MerchantsSum, EmptySums DEF Init
    <2>2. Straddling \in SUBSET Callers
      BY DEF Straddling
    <2>3. /\ WorstCost * Cardinality(Straddling) \in Nat
          /\ WorstCost * Cardinality(Callers) \in Nat
          /\ WorstCost * Cardinality(Straddling) <= WorstCost * Cardinality(Callers)
      BY <2>2, HoldersBounded, AccountConfig, TimesMonotonic
    <2>. QED
      BY <2>1, <2>3
  <1>2. Inv /\ MerchantsTrackGlobal /\ [Next]_vars => MerchantsTrackGlobal'
    BY TrackStep
  <1>. QED
    BY <1>1, <1>2, InvCorrect, PTL DEF Spec
-----------------------------------------------------------------------------
(***************************************************************************)
(* The observer of GatewayHistory.                                         *)
(***************************************************************************)
LEMMA AgesFinite == IsFiniteSet(Ages) /\ 0 \in Ages
  BY FS_Interval, BreakerConfig DEF Ages

LEMMA LogClosed ==
    /\ NoFailures \in LogEntry
    /\ \A log \in LogEntry : Logged(log) \in LogEntry /\ Older(log) \in LogEntry
  <1>1. NoFailures \in LogEntry
    BY BreakerConfig DEF NoFailures, LogEntry
  <1>2. ASSUME NEW log \in LogEntry
        PROVE  Logged(log) \in LogEntry
    BY AgesFinite, BreakerConfig DEF Logged, LogEntry
  <1>3. ASSUME NEW log \in LogEntry
        PROVE  Older(log) \in LogEntry
    BY BreakerConfig DEF Older, LogEntry, Ages
  <1>. QED
    BY <1>1, <1>2, <1>3

\* The observer only looks on.
LEMMA HistoryLooksOn ==
    /\ HInit => Init
    /\ [HNext]_hvars => [Next]_vars
  BY DEF HInit, HNext, hvars, vars, Next, Step, Unlogged

\* The gateway and the observer have their types.
HTypeOK == TypeOK /\ failLog \in [Tiers -> LogEntry]

LEMMA HTypeStep == HTypeOK /\ [HNext]_hvars => HTypeOK'
  <1>. SUFFICES ASSUME HTypeOK, [HNext]_hvars PROVE HTypeOK'
    OBVIOUS
  <1>1. TypeOK'
    BY HistoryLooksOn, TypeStep DEF HTypeOK
  <1>2. failLog' \in [Tiers -> LogEntry]
    <2>1. CASE UNCHANGED failLog
      BY <2>1 DEF HTypeOK
    <2>2. ASSUME NEW t \in Tiers, failLog' = [failLog EXCEPT ![t] = Logged(@)]
          PROVE  failLog' \in [Tiers -> LogEntry]
      BY <2>2, LogClosed DEF HTypeOK
    <2>3. CASE failLog' = [t \in Tiers |-> Older(failLog[t])]
      BY <2>3, LogClosed DEF HTypeOK
    <2>4. ASSUME NEW c \in Callers, RecordFailure(c)
          PROVE  Tier(c) \in Tiers
      BY <2>4, BusyCaller DEF RecordFailure, At, HTypeOK, TypeOK
    <2>. QED
      BY <2>1, <2>2, <2>3, <2>4 DEF HNext, hvars
  <1>. QED
    BY <1>1, <1>2 DEF HTypeOK

\* The breaker forgets, the log does not: it has at least the failures of each
\* age that the breaker still counts.
LogCovers ==
    \A t \in Tiers, a \in Ages : breaker[t].failures[a] <= failLog[t][a]

LEMMA CoverInit == HInit => LogCovers
  BY DEF HInit, Init, LogCovers, NewBreaker, NoFailures

LEMMA CoverStep == HTypeOK /\ LogCovers /\ [HNext]_hvars => LogCovers'
  <1>. SUFFICES ASSUME HTypeOK, LogCovers, [HNext]_hvars,
                       NEW t \in Tiers, NEW a \in Ages
                PROVE  breaker'[t].failures[a] <= failLog'[t][a]
    BY DEF LogCovers
  <1>. DEFINE f == breaker[t].failures
              log == failLog[t]
  <1>1. /\ f \in [Ages -> 0..Threshold] /\ log \in [Ages -> 0..(Threshold + 1)]
        /\ f[a] <= log[a] /\ breaker \in [Tiers -> Breaker]
        /\ failLog \in [Tiers -> LogEntry] /\ Threshold \in Nat
    BY BreakerConfig DEF HTypeOK, TypeOK, Breaker, LogEntry, LogCovers
  <1>2. CASE breaker'[t].failures = f /\ failLog'[t] = log
    BY <1>1, <1>2
  <1>3. CASE breaker'[t].failures = NoFailures /\ failLog'[t] = log
    BY <1>1, <1>3 DEF NoFailures
  <1>4. CASE breaker'[t].failures \in {f, AfterFailure(breaker[t]).failures}
             /\ failLog'[t] = Logged(log)
    <2>1. log[a] <= Logged(log)[a]
      BY <1>1, AgesFinite DEF Logged
    <2>2. AfterFailure(breaker[t]).failures
             = [f EXCEPT ![0] = IF @ < Threshold THEN @ + 1 ELSE @]
      BY <1>1 DEF AfterFailure, Breaker
    <2>3. AfterFailure(breaker[t]).failures[a] <= Logged(log)[a]
      BY <1>1, <2>2, AgesFinite DEF Logged
    <2>4. f[a] <= Logged(log)[a]
      BY <1>1, <2>1, LogClosed DEF LogEntry
    <2>. QED
      BY <1>4, <2>3, <2>4
  <1>5. CASE Tick /\ failLog' = [u \in Tiers |-> Older(failLog[u])]
    <2>1. breaker'[t].failures = Older(f) /\ failLog'[t] = Older(log)
      BY <1>5 DEF Tick, Elapse
    <2>2. a # 0 => a - 1 \in Ages
      BY BreakerConfig DEF Ages
    <2>3. a # 0 => f[a - 1] <= log[a - 1]
      BY <2>2 DEF LogCovers
    <2>. QED
      BY <2>1, <2>3 DEF Older
  <1>6. ASSUME NEW c \in Callers, RecordFailure(c),
               failLog' = [failLog EXCEPT ![Tier(c)] = Logged(@)]
        PROVE  breaker'[t].failures[a] <= failLog'[t][a]
    <2>1. CASE t # Tier(c)
      <3>1. breaker'[t] = breaker[t] /\ failLog'[t] = log
        BY <1>1, <1>6, <2>1 DEF RecordFailure
      <3>. QED
        BY <1>2, <3>1
    <2>2. CASE t = Tier(c)
      <3>1. breaker'[t] \in {breaker[t], AfterFailure(breaker[t])}
        BY <1>1, <1>6, <2>2 DEF RecordFailure
      <3>2. failLog'[t] = Logged(log)
        BY <1>1, <1>6, <2>2
      <3>. QED
        BY <1>4, <3>1, <3>2
    <2>. QED
      BY <2>1, <2>2
  <1>7. ASSUME NEW c \in Callers, RecordSuccess(c), UNCHANGED failLog
        PROVE  breaker'[t].failures[a] <= failLog'[t][a]
    <2>1. breaker'[t] \in {breaker[t], NewBreaker}
      BY <1>1, <1>7 DEF RecordSuccess, AfterSuccess
    <2>. QED
      BY <1>2, <1>3, <1>7, <2>1 DEF NewBreaker
  <1>8. ASSUME NEW c \in Callers, Trip(c), UNCHANGED failLog
        PROVE  breaker'[t].failures[a] <= failLog'[t][a]
    <2>1. breaker'[t] \in {breaker[t], Tripped(breaker[t], call[c].age)}
      BY <1>1, <1>8 DEF Trip
    <2>2. Tripped(breaker[t], call[c].age).failures = f
      BY <1>1 DEF Tripped, Breaker
    <2>. QED
      BY <1>2, <1>8, <2>1, <2>2
  <1>9. CASE UNCHANGED <<breaker, failLog>>
    BY <1>2, <1>9
  <1>. QED
    BY <1>5, <1>6, <1>7, <1>8, <1>9
       DEF HNext, hvars, vars, Unlogged, Begin, Gate, GateCooldown, MerchantBudget,
           GlobalBudget, Answer, ProviderError, DebitAnswer, Crash, Midnight

\* A failure that finds the threshold reached is one more than the threshold.
LEMMA BurstCounted ==
    ASSUME HTypeOK, LogCovers, NEW t \in Tiers, ReachesThreshold(breaker[t])
    PROVE  SumFunction(Logged(failLog[t])) > Threshold
  <1>. DEFINE f == breaker[t].failures
              log == failLog[t]
              after == Logged(log)
  <1>1. /\ f \in [Ages -> 0..Threshold] /\ log \in LogEntry /\ after \in LogEntry
        /\ Threshold \in Nat
    BY LogClosed, BreakerConfig DEF HTypeOK, TypeOK, Breaker
  <1>2. \A a \in Ages : f[a] \in Nat /\ log[a] \in Nat /\ after[a] \in Nat /\ f[a] <= log[a]
    BY <1>1 DEF LogCovers, LogEntry
  <1>3. /\ \A a \in Ages \ {0} : after[a] = log[a]
        /\ after[0] = log[0] + 1 \/ after[0] > Threshold
    BY <1>1, AgesFinite DEF Logged, LogEntry
  <1>4. SumFunction(f) = SumFunctionOnSet(f, Ages) /\ SumFunction(after) = SumFunctionOnSet(after, Ages)
    BY <1>1 DEF SumFunction, LogEntry
  <1>5. SumFunction(f) >= Threshold
    BY DEF ReachesThreshold, FailureCount
  <1>. HIDE DEF f, log, after
  <1>6. SumFunctionOnSet(f, Ages) <= SumFunctionOnSet(log, Ages)
    BY <1>2, AgesFinite, SumMonotone
  <1>7. /\ SumFunctionOnSet(f, Ages) \in Nat
        /\ SumFunctionOnSet(log, Ages) \in Nat
        /\ SumFunctionOnSet(after, Ages) \in Nat
    BY <1>2, AgesFinite, SumType
  <1>8. CASE after[0] = log[0] + 1
    <2>1. SumFunctionOnSet(after, Ages) + log[0] = SumFunctionOnSet(log, Ages) + after[0]
      BY <1>2, <1>3, AgesFinite, SumChange
    <2>2. SumFunctionOnSet(after, Ages) > Threshold
      BY <1>1, <1>2, <1>4, <1>5, <1>6, <1>7, <1>8, <2>1, AgesFinite
    <2>. QED
      BY <1>4, <2>2 DEF after, log
  <1>9. CASE after[0] > Threshold
    <2>1. after[0] <= SumFunctionOnSet(after, Ages)
      BY <1>2, AgesFinite, SumMember
    <2>2. SumFunctionOnSet(after, Ages) > Threshold
      BY <1>1, <1>2, <1>7, <1>9, <2>1, AgesFinite
    <2>. QED
      BY <1>4, <2>2 DEF after, log
  <1>. QED
    BY <1>3, <1>8, <1>9

\* Only a failure that finds the threshold reached sets out to trip.
LEMMA OnlyFailuresTrip ==
    ASSUME TypeOK, NEW c \in Callers, ~At(c, "trip"), call'[c].pc = "trip", [HNext]_hvars
    PROVE  /\ RecordFailure(c) /\ ReachesThreshold(breaker[Tier(c)])
           /\ failLog' = [failLog EXCEPT ![Tier(c)] = Logged(@)]
  <1>. USE DEF TypeOK
  <1>1. ASSUME NEW d \in Callers, OnlyMoves(d), call'[d].pc # "trip"
        PROVE  FALSE
    BY <1>1 DEF OnlyMoves, At
  <1>2. ASSUME NEW d \in Callers, ~At(d, "idle"), Delegate(d) \/ Finish(d)
        PROVE  FALSE
    BY <1>1, <1>2, DelegatePC, FinishPC
  <1>3. ASSUME NEW d \in Callers, ~At(d, "idle"), NEW pc \in PCs \ {"idle", "trip"}, Goto(d, pc)
        PROVE  FALSE
    BY <1>1, <1>3, GotoPC
  <1>4. ASSUME NEW d \in Callers, Begin(d)
        PROVE  FALSE
    <2>1. PICK req \in Requests : call' = [call EXCEPT ![d] = AtTier(req, 1)]
      BY <1>4 DEF Begin
    <2>2. AtTier(req, 1).pc = "gate"
      BY IdleCallType DEF AtTier, Calls
    <2>. QED
      BY <2>1, <2>2 DEF CallsOK, At
  <1>5. ASSUME NEW d \in Callers, MerchantBudget(d)
        PROVE  FALSE
    <2>1. ~At(d, "idle")
      BY <1>5 DEF MerchantBudget, At
    <2>2. CASE \E fits : call' = [call EXCEPT ![d].pc = "globalBudget", ![d].fits = fits]
      BY <2>2 DEF CallsOK, At, Calls
    <2>. QED
      BY <1>2, <1>3, <1>5, <2>1, <2>2 DEF MerchantBudget, PCs
  <1>6. ASSUME NEW d \in Callers, Answer(d)
        PROVE  FALSE
    <2>1. \E cost : call' = [call EXCEPT ![d].pc = "answered", ![d].cost = cost]
      BY <1>6 DEF Answer
    <2>. QED
      BY <2>1 DEF CallsOK, At, Calls
  <1>7. ASSUME NEW d \in Callers,
               \/ Gate(d) \/ GateCooldown(d) \/ GlobalBudget(d) \/ ProviderError(d)
               \/ RecordSuccess(d) \/ DebitAnswer(d) \/ Trip(d) \/ Crash(d)
        PROVE  FALSE
    <2>1. ~At(d, "idle")
      BY <1>7 DEF Gate, GateCooldown, GlobalBudget, ProviderError, RecordSuccess,
                  DebitAnswer, Trip, Crash, At
    <2>2. \/ Delegate(d) \/ Finish(d)
          \/ \E pc \in PCs \ {"idle", "trip"} : Goto(d, pc)
      BY <1>7 DEF Gate, GateCooldown, GlobalBudget, ProviderError, RecordSuccess,
                  DebitAnswer, Trip, Crash, PCs
    <2>. QED
      BY <1>2, <1>3, <2>1, <2>2
  <1>8. CASE Tick
    BY <1>8 DEF Tick, At, CallsOK, Calls
  <1>9. CASE UNCHANGED call
    BY <1>9 DEF At
  <1>10. ASSUME NEW d \in Callers, RecordFailure(d)
         PROVE  d = c /\ ReachesThreshold(breaker[Tier(d)])
    <2>1. ~At(d, "idle")
      BY <1>10 DEF RecordFailure, At
    <2>2. Goto(d, "trip") /\ ReachesThreshold(breaker[Tier(d)])
      BY <1>2, <1>10, <2>1 DEF RecordFailure
    <2>3. d = c
      BY <2>2 DEF Goto, At, CallsOK
    <2>. QED
      BY <2>2, <2>3
  <1>11. PICK d \in Callers : RecordFailure(d) /\ failLog' = [failLog EXCEPT ![Tier(d)] = Logged(@)]
    BY <1>4, <1>5, <1>6, <1>7, <1>8, <1>9 DEF HNext, hvars, vars, Unlogged, Midnight
  <1>. QED
    BY <1>10, <1>11

HInv == HTypeOK /\ LogCovers

LEMMA HInvCorrect == HSpec => []HInv
  <1>1. HInit => HInv
    BY TypeInit, LogClosed, CoverInit, HistoryLooksOn DEF HInv, HTypeOK, HInit
  <1>2. HInv /\ [HNext]_hvars => HInv'
    BY HTypeStep, CoverStep DEF HInv
  <1>. QED
    BY <1>1, <1>2, PTL DEF HSpec

(***************************************************************************)
(* Only more than Threshold failures within one window make a caller open  *)
(* a breaker, for any number of callers and tiers, any window and any      *)
(* threshold, and whatever successes made the breaker forget in between.   *)
(***************************************************************************)
THEOREM BurstCorrect == HSpec => OpensOnlyOnBurst
  <1>. DEFINE Burst == \A c \in Callers :
                          ~At(c, "trip") /\ call'[c].pc = "trip"
                              => SumFunction(failLog'[Tier(c)]) > Threshold
  <1>1. HInv /\ [HNext]_hvars => Burst
    <2>. SUFFICES ASSUME HInv, [HNext]_hvars, NEW c \in Callers,
                         ~At(c, "trip"), call'[c].pc = "trip"
                  PROVE  SumFunction(failLog'[Tier(c)]) > Threshold
      OBVIOUS
    <2>1. /\ RecordFailure(c) /\ ReachesThreshold(breaker[Tier(c)])
          /\ failLog' = [failLog EXCEPT ![Tier(c)] = Logged(@)]
      BY OnlyFailuresTrip DEF HInv, HTypeOK
    <2>2. Tier(c) \in Tiers
      BY <2>1, BusyCaller DEF RecordFailure, At, HInv, HTypeOK, TypeOK
    <2>3. failLog'[Tier(c)] = Logged(failLog[Tier(c)])
      BY <2>1, <2>2 DEF HInv, HTypeOK
    <2>. QED
      BY <2>1, <2>2, <2>3, BurstCounted DEF HInv
  <1>. QED
    BY <1>1, HInvCorrect, PTL DEF HSpec, OpensOnlyOnBurst
-----------------------------------------------------------------------------
(***************************************************************************)
(* What a request has left to do.  The tiers not tried yet count for nine  *)
(* steps each, the one being tried for the steps after the caller's place. *)
(* Every step of the caller takes from it, and no other step adds to it:   *)
(* the part of RequestsEnd that does not depend on fairness.               *)
(***************************************************************************)
StageOf(pc) ==
    CASE pc = "gate" -> 9 [] pc = "cooldown" -> 8
      [] pc = "merchantBudget" -> 7 [] pc = "globalBudget" -> 6
      [] pc = "calling" -> 5 [] pc = "answered" -> 4
      [] pc = "debit" -> 3 [] pc = "failed" -> 2
      [] pc = "trip" -> 1 [] OTHER -> 0

WorkLeft(c) ==
    IF At(c, "idle") THEN 0 ELSE 9 * (Len(Chain) - call[c].k) + StageOf(call[c].pc)

WorkBounded ==
    \A c \in Callers :
        /\ WorkLeft(c) \in 0..(9 * Len(Chain))
        /\ WorkLeft(c) = 0 <=> At(c, "idle")

LEMMA StageBounds == \A pc \in PCs : StageOf(pc) \in 0..9 /\ (StageOf(pc) = 0 <=> pc = "idle")
  <1>. SUFFICES ASSUME NEW pc \in PCs
                PROVE  StageOf(pc) \in 0..9 /\ (StageOf(pc) = 0 <=> pc = "idle")
    OBVIOUS
  <1>1. CASE pc \in {"gate", "cooldown", "merchantBudget", "globalBudget", "calling"}
    BY <1>1 DEF StageOf
  <1>2. CASE pc \in {"answered", "debit", "failed", "trip", "idle"}
    BY <1>2 DEF StageOf
  <1>. QED
    BY <1>1, <1>2 DEF PCs

LEMMA WorkInside ==
    ASSUME CallsOK, NEW c \in Callers
    PROVE  /\ WorkLeft(c) \in 0..(9 * Len(Chain))
           /\ WorkLeft(c) = 0 <=> At(c, "idle")
  <1>1. CASE At(c, "idle")
    BY <1>1, FirstTier DEF WorkLeft
  <1>2. CASE ~At(c, "idle")
    <2>1. /\ Len(Chain) \in Nat
          /\ call[c].k \in 1..Len(Chain)
          /\ StageOf(call[c].pc) \in 1..9
      BY <1>2, BusyCaller, ChainConfig, StageBounds DEF Calls, At
    <2>2. ASSUME NEW n \in Nat, NEW k \in 1..n, NEW now \in 1..9
          PROVE  9 * (n - k) + now \in 1..(9 * n)
      OBVIOUS
    <2>3. WorkLeft(c) = 9 * (Len(Chain) - call[c].k) + StageOf(call[c].pc)
      BY <1>2 DEF WorkLeft
    <2>4. WorkLeft(c) \in 1..(9 * Len(Chain))
      BY <2>1, <2>2, <2>3, Zenon
    <2>5. Len(Chain) \in Nat
      BY <2>1
    <2>. QED
      BY <1>2, <2>4, <2>5
  <1>. QED
    BY <1>1, <1>2

LEMMA WorkInsideNext == TypeOK' => WorkBounded'
  <1>1. TypeOK => WorkBounded
    BY WorkInside DEF TypeOK, WorkBounded
  <1>. QED
    BY <1>1, PTL

\* A step to a later place of the same tier takes from what is left.
LEMMA LaterStage ==
    ASSUME CallsOK, NEW c \in Callers, ~At(c, "idle"),
           call'[c].k = call[c].k, call'[c].pc \in PCs,
           StageOf(call'[c].pc) < StageOf(call[c].pc)
    PROVE  WorkLeft(c)' < WorkLeft(c)
  <1>1. /\ Len(Chain) \in Nat
        /\ call[c].k \in 1..Len(Chain)
        /\ StageOf(call[c].pc) \in 0..9
        /\ StageOf(call'[c].pc) \in 0..9
    BY BusyCaller, ChainConfig, StageBounds DEF Calls
  <1>2. WorkLeft(c) = 9 * (Len(Chain) - call[c].k) + StageOf(call[c].pc)
    BY DEF WorkLeft
  <1>3. WorkLeft(c)' \in {0, 9 * (Len(Chain) - call[c].k) + StageOf(call'[c].pc)}
    BY DEF WorkLeft
  <1>4. 9 * (Len(Chain) - call[c].k) \in Nat
    BY <1>1
  <1>5. ASSUME NEW rest \in Nat, NEW now \in 0..9, NEW then \in 0..9, then < now
        PROVE  0 < rest + now /\ rest + then < rest + now
    BY <1>5
  <1>6. /\ 0 < 9 * (Len(Chain) - call[c].k) + StageOf(call[c].pc)
        /\ 9 * (Len(Chain) - call[c].k) + StageOf(call'[c].pc)
             < 9 * (Len(Chain) - call[c].k) + StageOf(call[c].pc)
    BY <1>1, <1>4, <1>5, Zenon
  <1>. QED
    BY <1>2, <1>3, <1>6

\* The end of the request takes all that is left.
LEMMA FinishLeaves ==
    ASSUME CallsOK, NEW c \in Callers, ~At(c, "idle"), Finish(c)
    PROVE  WorkLeft(c)' < WorkLeft(c)
  <1>1. WorkLeft(c)' = 0
    BY FinishPC DEF WorkLeft, At
  <1>. QED
    BY <1>1, WorkInside, ChainConfig

\* The next tier starts with less than the one before had left.
LEMMA DelegateLeaves ==
    ASSUME CallsOK, NEW c \in Callers, ~At(c, "idle"), Delegate(c)
    PROVE  WorkLeft(c)' < WorkLeft(c)
  <1>1. CASE call[c].k < Len(Chain)
    <2>1. \A x \in Calls, k \in Nat :
             /\ [x EXCEPT !.pc = "gate", !.req = call[c].req, !.k = k].pc = "gate"
             /\ [x EXCEPT !.pc = "gate", !.req = call[c].req, !.k = k].k = k
      BY DEF Calls
    <2>2. /\ Len(Chain) \in Nat
          /\ call[c].k \in 1..Len(Chain)
          /\ StageOf(call[c].pc) \in 1..9
      BY BusyCaller, ChainConfig, StageBounds DEF Calls, At
    <2>3. call'[c] = AtTier(call[c].req, call[c].k + 1)
      BY <1>1 DEF Delegate, CallsOK
    <2>4. call'[c].pc = "gate" /\ call'[c].k = call[c].k + 1
      BY <2>1, <2>2, <2>3, IdleCallType DEF AtTier
    <2>5. WorkLeft(c)' = 9 * (Len(Chain) - (call[c].k + 1)) + 9
      BY <2>4 DEF WorkLeft, At, StageOf
    <2>6. WorkLeft(c) = 9 * (Len(Chain) - call[c].k) + StageOf(call[c].pc)
      BY DEF WorkLeft
    <2>7. 9 * (Len(Chain) - (call[c].k + 1)) + 9
            < 9 * (Len(Chain) - call[c].k) + StageOf(call[c].pc)
      <3>1. ASSUME NEW n \in Nat, NEW k \in 1..n, NEW now \in 1..9
            PROVE  9 * (n - (k + 1)) + 9 < 9 * (n - k) + now
        OBVIOUS
      <3>. QED
        BY <2>2, <3>1, Zenon
    <2>. QED
      BY <2>5, <2>6, <2>7
  <1>2. CASE ~(call[c].k < Len(Chain))
    BY <1>2, FinishLeaves DEF Delegate
  <1>. QED
    BY <1>1, <1>2

LEMMA GotoLeaves ==
    ASSUME CallsOK, NEW c \in Callers, ~At(c, "idle"),
           NEW pc \in PCs \ {"idle"}, Goto(c, pc),
           StageOf(pc) < StageOf(call[c].pc)
    PROVE  WorkLeft(c)' < WorkLeft(c)
  <1>1. call'[c].pc = pc /\ call'[c].k = call[c].k
    BY GotoPC DEF CallsOK, Calls
  <1>. QED
    BY <1>1, LaterStage

LEMMA StepLeaves ==
    ASSUME CallsOK, NEW c \in Callers, Step(c)
    PROVE  ~At(c, "idle") /\ WorkLeft(c)' < WorkLeft(c)
  <1>. USE DEF At
  <1>. DEFINE Leaves == ~At(c, "idle") /\ WorkLeft(c)' < WorkLeft(c)
  <1>1. CASE Gate(c)
    <2>1. StageOf("gate") > StageOf("cooldown") /\ StageOf("gate") > StageOf("merchantBudget")
      BY DEF StageOf
    <2>. QED
      BY <1>1, <2>1, GotoLeaves DEF Gate, PCs
  <1>2. CASE GateCooldown(c)
    <2>1. StageOf("cooldown") > StageOf("merchantBudget")
      BY DEF StageOf
    <2>. QED
      BY <1>2, <2>1, GotoLeaves, DelegateLeaves DEF GateCooldown, PCs
  <1>3. CASE MerchantBudget(c)
    <2>1. /\ StageOf("merchantBudget") > StageOf("globalBudget")
          /\ StageOf("merchantBudget") > StageOf("calling")
      BY DEF StageOf
    <2>2. CASE Delegate(c) \/ Finish(c) \/ Goto(c, "calling")
      BY <1>3, <2>1, <2>2, GotoLeaves, DelegateLeaves, FinishLeaves DEF MerchantBudget, PCs
    <2>3. ASSUME NEW fits, call' = [call EXCEPT ![c].pc = "globalBudget", ![c].fits = fits]
          PROVE  Leaves
      <3>1. call'[c].pc = "globalBudget" /\ call'[c].k = call[c].k
        BY <2>3 DEF CallsOK, Calls
      <3>. QED
        BY <1>3, <2>1, <3>1, LaterStage DEF MerchantBudget, PCs
    <2>. QED
      BY <1>3, <2>2, <2>3 DEF MerchantBudget
  <1>4. CASE GlobalBudget(c)
    <2>1. StageOf("globalBudget") > StageOf("calling")
      BY DEF StageOf
    <2>. QED
      BY <1>4, <2>1, GotoLeaves, DelegateLeaves, FinishLeaves DEF GlobalBudget, PCs
  <1>5. CASE Answer(c)
    <2>1. PICK n \in ActualTokens :
             call' = [call EXCEPT ![c].pc = "answered",
                                  ![c].cost = EstimateCost(Tier(c), n)]
      BY <1>5 DEF Answer
    <2>. DEFINE price == EstimateCost(Tier(c), n)
    <2>2. call' = [call EXCEPT ![c].pc = "answered", ![c].cost = price]
      BY <2>1
    <2>. HIDE DEF price
    <2>3. call'[c].pc = "answered" /\ call'[c].k = call[c].k
      BY <2>2 DEF CallsOK, Calls
    <2>4. StageOf("calling") > StageOf("answered")
      BY DEF StageOf
    <2>. QED
      BY <1>5, <2>3, <2>4, LaterStage DEF Answer, PCs
  <1>6. CASE ProviderError(c)
    <2>1. StageOf("calling") > StageOf("failed")
      BY DEF StageOf
    <2>. QED
      BY <1>6, <2>1, GotoLeaves DEF ProviderError, PCs
  <1>7. CASE RecordSuccess(c)
    <2>1. StageOf("answered") > StageOf("debit")
      BY DEF StageOf
    <2>. QED
      BY <1>7, <2>1, GotoLeaves DEF RecordSuccess, PCs
  <1>8. CASE DebitAnswer(c)
    <2>1. StageOf("debit") > StageOf("failed")
      BY DEF StageOf
    <2>. QED
      BY <1>8, <2>1, GotoLeaves, FinishLeaves DEF DebitAnswer, PCs
  <1>9. CASE RecordFailure(c)
    <2>1. StageOf("failed") > StageOf("trip")
      BY DEF StageOf
    <2>. QED
      BY <1>9, <2>1, GotoLeaves, DelegateLeaves DEF RecordFailure, PCs
  <1>10. CASE Trip(c)
    BY <1>10, DelegateLeaves DEF Trip
  <1>. QED
    BY <1>1, <1>2, <1>3, <1>4, <1>5, <1>6, <1>7, <1>8, <1>9, <1>10 DEF Step

\* Nobody else adds to what a request has left.
LEMMA OthersAddNothing ==
    ASSUME TypeOK, [Next]_vars, NEW c \in Callers, ~At(c, "idle")
    PROVE  WorkLeft(c)' <= WorkLeft(c)
  <1>. USE DEF TypeOK
  <1>1. WorkLeft(c) \in Nat
    BY WorkInside, ChainConfig
  <1>2. ASSUME call'[c].pc = call[c].pc, call'[c].k = call[c].k
        PROVE  WorkLeft(c)' = WorkLeft(c)
    BY <1>2 DEF WorkLeft, At
  <1>3. CASE UNCHANGED call
    BY <1>1, <1>2, <1>3
  <1>4. CASE Tick
    <2>1. call[c] \in Calls
      BY DEF CallsOK
    <2>2. call'[c] \in {call[c], [call[c] EXCEPT !.age = call[c].age + 1]}
      BY <1>4 DEF Tick
    <2>. QED
      BY <1>1, <1>2, <2>1, <2>2 DEF Calls
  <1>5. ASSUME NEW d \in Callers, d # c, Begin(d) \/ Step(d) \/ Crash(d)
        PROVE  call'[c] = call[c]
    BY <1>5 DEF Begin, Step, Crash, Gate, GateCooldown, MerchantBudget, GlobalBudget, Answer,
                ProviderError, RecordSuccess, DebitAnswer, RecordFailure, Trip,
                Goto, Finish, Delegate, CallsOK
  <1>6. CASE Step(c)
    <2>1. WorkLeft(c)' \in Nat
      BY TypeStep, WorkInsideNext, ChainConfig DEF WorkBounded
    <2>. QED
      BY <1>1, <1>6, <2>1, StepLeaves
  <1>7. CASE Crash(c)
    BY <1>1, <1>7, FinishLeaves, FinishPC DEF Crash, WorkLeft, At
  <1>8. ~Begin(c)
    BY DEF Begin
  <1>9. CASE \E d \in Callers \ {c} : Begin(d) \/ Step(d) \/ Crash(d)
    BY <1>1, <1>2, <1>5, <1>9
  <1>. QED
    BY <1>3, <1>4, <1>6, <1>7, <1>8, <1>9 DEF Next, vars, Midnight

(***************************************************************************)
(* A request is over after nine steps per tier at most, for any chain:     *)
(* every step of ModelRouterChain.handle takes from what is left, and      *)
(* neither other callers, nor the clock, nor a new day adds to it.  With   *)
(* the fairness of Step it is why RequestsEnd holds.                       *)
(***************************************************************************)
THEOREM RequestsDescend ==
    Spec => /\ []WorkBounded
            /\ [][\A c \in Callers : /\ Step(c) => WorkLeft(c)' < WorkLeft(c)
                                     /\ ~At(c, "idle") => WorkLeft(c)' <= WorkLeft(c)]_vars
  <1>. DEFINE Descent == \A c \in Callers : /\ Step(c) => WorkLeft(c)' < WorkLeft(c)
                                            /\ ~At(c, "idle") => WorkLeft(c)' <= WorkLeft(c)
  <1>1. TypeOK => WorkBounded
    BY WorkInside DEF TypeOK, WorkBounded
  <1>2. TypeOK /\ [Next]_vars => Descent
    BY StepLeaves, OthersAddNothing DEF TypeOK
  <1>. QED
    BY <1>1, <1>2, TypeCorrect, PTL DEF Spec
=============================================================================
