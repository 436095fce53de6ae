--------------------------- MODULE GatewayHistory ---------------------------
(***************************************************************************)
(* ModelRouterChain with an observer the program does not have, for        *)
(* statements about how its breakers come to open and close.               *)
(***************************************************************************)
EXTENDS ModelRouterChain

VARIABLE
    failLog  \* failures of each tier in the last Window ticks, by age, also
             \* those a success has made the breaker forget

hvars == <<vars, failLog>>

LogEntry == [Ages -> 0..(Threshold + 1)]

HInit ==
    /\ Init
    /\ failLog = [t \in Tiers |-> NoFailures]

Logged(log) == [log EXCEPT ![0] = IF @ <= Threshold THEN @ + 1 ELSE @]

Unlogged(c) ==
    \/ Begin(c) \/ Gate(c) \/ GateCooldown(c)
    \/ MerchantBudget(c) \/ GlobalBudget(c)
    \/ Answer(c) \/ ProviderError(c)
    \/ RecordSuccess(c) \/ DebitAnswer(c) \/ Trip(c) \/ Crash(c)

HNext ==
    \/ \E c \in Callers :
          \/ RecordFailure(c) /\ failLog' = [failLog EXCEPT ![Tier(c)] = Logged(@)]
          \/ Unlogged(c) /\ UNCHANGED failLog
    \/ Tick /\ failLog' = [t \in Tiers |-> Older(failLog[t])]
    \/ Midnight /\ UNCHANGED failLog

HSpec == HInit /\ [][HNext]_hvars
-----------------------------------------------------------------------------
(***************************************************************************)
(* A caller sets out to open a breaker only when more than Threshold calls *)
(* of the tier have failed in one window, however the failing callers      *)
(* interleave with each other, with successes and with the clock: no       *)
(* smaller burst takes a tier out of service.                              *)
(***************************************************************************)
OpensOnlyOnBurst ==
    [][\A c \in Callers :
        ~At(c, "trip") /\ call'[c].pc = "trip"
            => SumFunction(failLog'[Tier(c)]) > Threshold]_hvars
=============================================================================
