-------------------------- MODULE ModelRouterChain --------------------------
(***************************************************************************)
(* The LLM gateway: concurrent callers (API workers serving chat turns,    *)
(* Temporal workers running activities) pass their requests down the chain *)
(* of model tiers of backend/api/gateway/chain.py.  All callers share the  *)
(* tiers' circuit breakers and the cost ledger through Redis, without any  *)
(* lock: between two Redis round trips of one caller every other caller    *)
(* may act, so each round trip and each provider call is a step of its own.*)
(*                                                                         *)
(* Where a caller stands is its record in call:                            *)
(*   pc     idle, or the next thing the caller does (see the actions)      *)
(*   req    the request: its scope, its merchant, its estimated tokens     *)
(*   k      position in Chain of the tier being tried                      *)
(*   fits   can_afford's verdict on the merchant counter it has read       *)
(*   cost   the price of the answer that is being settled                  *)
(*   age    ticks since the failure that is about to open a breaker        *)
(* can_afford and debit build the merchant's key and then the shared one,  *)
(* reading the date for each: oldKeys[c] of the keys a caller is about to  *)
(* use are of a day that has ended since.                                  *)
(***************************************************************************)
EXTENDS LLMCircuitBreaker, CostLedger, Sequences

CONSTANTS
    Callers,       \* threads and activities that use the gateway
    Connected,     \* those whose process reached Redis when it started
    RedisFlaky,    \* TRUE: any Redis round trip may fail
    Chain,         \* the tiers in the order they are tried
    Requests,      \* requests the callers issue
    NoRequest,
    ActualTokens   \* total tokens a provider may report for an answer

ASSUME ChainConfig ==
    /\ Connected \subseteq Callers
    /\ RedisFlaky \in BOOLEAN
    /\ Chain \in Seq(Tiers) /\ Len(Chain) > 0
    /\ Requests \subseteq [scope : Scopes, merchant : Merchants, tokens : Nat]
    /\ NoRequest \notin Requests
    /\ ActualTokens \subseteq Nat

VARIABLES
    breaker,  \* Redis: the breaker of each tier
    spent,    \* Redis: today's counter of each account
    call,     \* where each caller stands
    oldKeys   \* how many of its ledger keys carry an earlier date

vars == <<breaker, spent, call, oldKeys>>

PCs == {"idle", "gate", "cooldown", "merchantBudget", "globalBudget",
        "calling", "answered", "debit", "failed", "trip"}

IdleCall == [pc |-> "idle", req |-> NoRequest, k |-> 1,
             fits |-> FALSE, cost |-> 0, age |-> 0]

\* A request on its way to the handler of the k-th tier.
AtTier(req, k) == [IdleCall EXCEPT !.pc = "gate", !.req = req, !.k = k]

Tier(c) == Chain[call[c].k]
Estimate(c) == EstimateCost(Tier(c), call[c].req.tokens)
MerchantAccount(c) == <<call[c].req.scope, call[c].req.merchant>>
GlobalAccount(c) == <<call[c].req.scope, GLOBAL>>

At(c, pc) == call[c].pc = pc

\* The next keys are built later.
KeysUsed(c) == oldKeys' = [oldKeys EXCEPT ![c] = 0]

Goto(c, pc) == call' = [call EXCEPT ![c].pc = pc] /\ KeysUsed(c)
Finish(c) == call' = [call EXCEPT ![c] = IdleCall] /\ KeysUsed(c)

\* Mutants of Delegate: one tier too many; start again instead of raising.
DelegatePastEnd(c) ==
    IF call[c].k <= Len(Chain)
    THEN call' = [call EXCEPT ![c] = AtTier(@.req, @.k + 1)] /\ KeysUsed(c)
    ELSE Finish(c)

DelegateAgain(c) ==
    /\ call' = [call EXCEPT ![c] = AtTier(@.req, IF @.k < Len(Chain) THEN @.k + 1 ELSE 1)]
    /\ KeysUsed(c)

\* Hand the request to next_, or raise AllProvidersExhausted.
Delegate(c) ==
    IF call[c].k < Len(Chain)
    THEN call' = [call EXCEPT ![c] = AtTier(@.req, @.k + 1)] /\ KeysUsed(c)
    ELSE Finish(c)

\* Whether a caller's Redis round trip may be missing or may fail.
NoRedis(c) == c \notin Connected \/ RedisFlaky

\* What a GET of can_afford may lead to: a counter of an earlier day, which is
\* not kept here, may stand anywhere.
Verdicts(c, account, old) ==
    IF old THEN BOOLEAN ELSE {Fits(spent, account, Estimate(c))}

Init ==
    /\ breaker = [t \in Tiers |-> NewBreaker]
    /\ spent = EmptyLedger
    /\ call = [c \in Callers |-> IdleCall]
    /\ oldKeys = [c \in Callers |-> 0]
-----------------------------------------------------------------------------
(***************************************************************************)
(* ModelRouterChain.handle and ModelTierHandler.handle.                    *)
(***************************************************************************)
Begin(c) ==
    /\ At(c, "idle")
    /\ \E req \in Requests : call' = [call EXCEPT ![c] = AtTier(req, 1)]
    /\ UNCHANGED <<breaker, spent, oldKeys>>

\* breaker.allow_request() reads :state; without Redis a breaker is closed.
Gate(c) ==
    /\ At(c, "gate")
    /\ \/ c \in Connected /\ breaker[Tier(c)].state = "open" /\ Goto(c, "cooldown")
       \/ NoRedis(c) /\ Goto(c, "merchantBudget")
       \/ breaker[Tier(c)].state = "closed" /\ Goto(c, "merchantBudget")
    /\ UNCHANGED <<breaker, spent>>

\* Mutant of GateCooldown: a refused request restarts the cooldown.
GateCooldownExtends(c) ==
    /\ At(c, "cooldown")
    /\ \/ /\ CooledDown(breaker[Tier(c)]) \/ RedisFlaky
          /\ Goto(c, "merchantBudget") /\ UNCHANGED breaker
       \/ /\ ~CooledDown(breaker[Tier(c)])
          /\ Delegate(c)
          /\ breaker' = [breaker EXCEPT ![Tier(c)].openedAgo = 0]
    /\ UNCHANGED spent

\* It then reads :opened_at.  If a success has deleted the key in between, the
\* breaker counts as open.
GateCooldown(c) ==
    /\ At(c, "cooldown")
    /\ \/ IF CooledDown(breaker[Tier(c)]) THEN Goto(c, "merchantBudget") ELSE Delegate(c)
       \/ RedisFlaky /\ Goto(c, "merchantBudget")
    /\ UNCHANGED <<breaker, spent>>

\* can_afford up to its first GET.  A ledger without Redis says yes to
\* everything within the per-interaction ceiling.  A GET that fails raises out
\* of handle: no other tier is tried.
MerchantBudget(c) ==
    /\ At(c, "merchantBudget")
    /\ \/ /\ ~WithinInteraction(call[c].req.scope, Estimate(c))
          /\ Delegate(c)
       \/ /\ WithinInteraction(call[c].req.scope, Estimate(c))
          /\ c \notin Connected
          /\ Goto(c, "calling")
       \/ /\ WithinInteraction(call[c].req.scope, Estimate(c))
          /\ c \in Connected
          /\ \E fits \in Verdicts(c, MerchantAccount(c), oldKeys[c] > 0) :
                call' = [call EXCEPT ![c].pc = "globalBudget", ![c].fits = fits]
          /\ UNCHANGED oldKeys
       \/ /\ WithinInteraction(call[c].req.scope, Estimate(c))
          /\ c \in Connected /\ RedisFlaky
          /\ Finish(c)
    /\ UNCHANGED <<breaker, spent>>

\* Mutant of GlobalBudget: an error of the GET counts as a yes.
GlobalBudgetFailOpen(c) ==
    /\ At(c, "globalBudget")
    /\ \/ \E fits \in Verdicts(c, GlobalAccount(c), oldKeys[c] = 2) :
             IF call[c].fits /\ fits THEN Goto(c, "calling") ELSE Delegate(c)
       \/ RedisFlaky /\ Goto(c, "calling")
    /\ UNCHANGED <<breaker, spent>>

\* The second GET of can_afford, and its verdict on both counters.
GlobalBudget(c) ==
    /\ At(c, "globalBudget")
    /\ \/ \E fits \in Verdicts(c, GlobalAccount(c), oldKeys[c] = 2) :
             IF call[c].fits /\ fits THEN Goto(c, "calling") ELSE Delegate(c)
       \/ RedisFlaky /\ Finish(c)
    /\ UNCHANGED <<breaker, spent>>

\* adapter.complete() returns: the answer is priced at the handler's tier.
Answer(c) ==
    /\ At(c, "calling")
    /\ \E n \in ActualTokens :
          call' = [call EXCEPT ![c].pc = "answered",
                               ![c].cost = EstimateCost(Tier(c), n)]
    /\ UNCHANGED <<breaker, spent, oldKeys>>

\* adapter.complete() raises, or times out.
ProviderError(c) ==
    /\ At(c, "calling")
    /\ Goto(c, "failed")
    /\ UNCHANGED <<breaker, spent>>

RecordSuccess(c) ==
    /\ At(c, "answered")
    /\ \/ /\ c \in Connected
          /\ breaker' = [breaker EXCEPT ![Tier(c)] = AfterSuccess(@)]
       \/ NoRedis(c) /\ UNCHANGED breaker
    /\ Goto(c, "debit")
    /\ UNCHANGED spent

\* Mutant of DebitAnswer: a debit that raised after it moved the counters is
\* tried again.
DebitAnswerTwice(c) ==
    /\ At(c, "debit")
    /\ \/ /\ c \in Connected
          /\ spent' = Debit(spent, call[c].req.scope, call[c].req.merchant,
                            call[c].cost, oldKeys[c])
       \/ NoRedis(c) /\ UNCHANGED spent
    /\ Finish(c) \/ UNCHANGED <<call, oldKeys>>
    /\ UNCHANGED breaker

\* ledger.debit.  A Redis error is swallowed and the answer goes unmetered.
\* Starting the audit thread may raise: handle then takes the answer for a
\* provider failure.
DebitAnswer(c) ==
    /\ At(c, "debit")
    /\ \/ /\ c \in Connected
          /\ spent' = Debit(spent, call[c].req.scope, call[c].req.merchant,
                            call[c].cost, oldKeys[c])
       \/ NoRedis(c) /\ UNCHANGED spent
    /\ Finish(c) \/ Goto(c, "failed")
    /\ UNCHANGED breaker

\* First pipeline of record_failure: count the window, add this failure.
RecordFailure(c) ==
    /\ At(c, "failed")
    /\ \/ /\ c \in Connected
          /\ breaker' = [breaker EXCEPT ![Tier(c)] = AfterFailure(@)]
          /\ \/ IF ReachesThreshold(breaker[Tier(c)]) THEN Goto(c, "trip") ELSE Delegate(c)
             \/ RedisFlaky /\ Delegate(c)
       \/ NoRedis(c) /\ Delegate(c) /\ UNCHANGED breaker
    /\ UNCHANGED spent

\* Second pipeline of record_failure: open the breaker, whatever happened to
\* it since the count.
Trip(c) ==
    /\ At(c, "trip")
    /\ \/ breaker' = [breaker EXCEPT ![Tier(c)] = Tripped(@, call[c].age)]
       \/ RedisFlaky /\ UNCHANGED breaker
    /\ Delegate(c)
    /\ UNCHANGED spent

\* The caller's process is killed: the request is lost wherever it stands.
Crash(c) ==
    /\ ~At(c, "idle")
    /\ Finish(c)
    /\ UNCHANGED <<breaker, spent>>
-----------------------------------------------------------------------------
(***************************************************************************)
(* The clock.  The time a failure was recorded at is kept until its caller *)
(* has opened the breaker.                                                 *)
(***************************************************************************)
Tick ==
    /\ breaker' = [t \in Tiers |-> Elapse(breaker[t])]
    /\ call' = [c \in Callers |->
                  IF At(c, "trip") /\ call[c].age < Cooldown
                  THEN [call[c] EXCEPT !.age = @ + 1] ELSE call[c]]
    /\ UNCHANGED <<spent, oldKeys>>

\* How many keys a caller may have built for its next round trips to the
\* ledger: between the two GETs both, before the first and before the debit
\* any number of them.
KeysBuilt(c) ==
    CASE c \notin Connected -> {0}
      [] call[c].pc \in {"merchantBudget", "debit"} -> 0..2
      [] At(c, "globalBudget") -> {2}
      [] OTHER -> {0}

\* The ledger's keys carry the date: a new day has new counters, and the keys
\* built until now are of an earlier day.
Midnight ==
    /\ spent' = EmptyLedger
    /\ oldKeys' \in [Callers -> 0..2]
    /\ \A c \in Callers : oldKeys'[c] \in KeysBuilt(c) /\ oldKeys'[c] >= oldKeys[c]
    /\ UNCHANGED <<breaker, call>>

\* What a caller does once it has a request.
Step(c) ==
    \/ Gate(c) \/ GateCooldown(c)
    \/ MerchantBudget(c) \/ GlobalBudget(c)
    \/ Answer(c) \/ ProviderError(c)
    \/ RecordSuccess(c) \/ DebitAnswer(c)
    \/ RecordFailure(c) \/ Trip(c)

Next ==
    \/ \E c \in Callers : Begin(c) \/ Step(c) \/ Crash(c)
    \/ Tick
    \/ Midnight

Spec == Init /\ [][Next]_vars

\* A caller runs until its request is over: provider calls end by their 30 s
\* timeout.  Time passes.  Nothing obliges anyone to send requests, to crash,
\* or a day to end.
Fairness ==
    /\ \A c \in Callers : WF_vars(Step(c))
    /\ WF_vars(Tick)

FairSpec == Spec /\ Fairness
-----------------------------------------------------------------------------
Calls == [pc : PCs, req : Requests \cup {NoRequest}, k : 1..Len(Chain),
          fits : BOOLEAN, cost : Nat, age : 0..Cooldown]

CallsOK ==
    /\ call \in [Callers -> Calls]
    /\ \A c \in Callers : At(c, "idle") <=> call[c].req = NoRequest

\* Every variable has its type, and only an idle caller has no request.
TypeOK ==
    /\ breaker \in [Tiers -> Breaker]
    /\ spent \in [Accounts -> Nat]
    /\ CallsOK
    /\ oldKeys \in [Callers -> 0..2]

(***************************************************************************)
(* Every request is answered, refused or fails in the end: handle never    *)
(* hangs between tiers, whatever the breakers and the other callers do.    *)
(***************************************************************************)
RequestsEnd == \A c \in Callers : ~At(c, "idle") ~> At(c, "idle")

(***************************************************************************)
(* An open breaker lets requests through again in the end: late failures   *)
(* of calls that were under way may restart the cooldown, but not forever. *)
(***************************************************************************)
OpenBreakerRecovers ==
    \A t \in Tiers : GetState(breaker[t]) = "open" ~> AllowRequest(breaker[t])
=============================================================================
