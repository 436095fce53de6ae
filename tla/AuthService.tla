----------------------------- MODULE AuthService -----------------------------
(***************************************************************************)
(* Login, refresh and logout of one portal user                            *)
(* (backend/api/services/auth_service.py) over the MERCHANT_USER row and   *)
(* the revoked refresh tokens in Redis.  A call is an HTTP request: each   *)
(* of its queries is a step, and calls interleave.                         *)
(*                                                                         *)
(* Tokens are numbered in the order they are issued; what a token carries  *)
(* is its expiry.  A key of Redis is the time it is kept until, so neither *)
(* a token's end nor a key's needs a step of its own.                      *)
(***************************************************************************)
EXTENDS Naturals

CONSTANTS
    Calls,
    MaxAttempts,  \* LOCKOUT_MAX_ATTEMPTS
    LockDuration, \* LOCKOUT_DURATION
    RefreshTTL,   \* JWT_REFRESH_TTL_SECONDS
    RedisReach,   \* whether a request reaches Redis when it connects: {TRUE}, {FALSE} or both
    MaxFailures,  \* bound on the attempts counted in the row
    MaxTokens,    \* bound on the refresh tokens ever issued
    MaxTime       \* bound on the clock

ASSUME AuthConfig ==
    /\ MaxAttempts \in Nat \ {0}
    /\ LockDuration \in Nat
    /\ RefreshTTL \in Nat \ {0}
    /\ RedisReach \subseteq BOOLEAN /\ RedisReach # {}
    /\ MaxFailures \in Nat
    /\ MaxTokens \in Nat
    /\ MaxTime \in Nat

VARIABLES
    now,
    user,    \* MERCHANT_USER: attempts and lockedUntil, 0 for NULL
    expiry,  \* exp of every refresh token, 0 before it is issued
    revoked, \* until when Redis keeps the token's revocation, 0 for never set
    call     \* where each request stands

authVars == <<now, user, expiry, revoked, call>>

Tokens == 1..MaxTokens
NoToken == 0

\* A request: what it does next, the refresh token it was sent or answers
\* with, and the attempts and locked_until it has computed.
Done == [pc |-> "idle", token |-> NoToken, attempts |-> 0, lockedUntil |-> 0]

At(c, pc) == call[c].pc = pc
Goto(c, pc) == call' = [call EXCEPT ![c].pc = pc]
Receive(c, pc, t) == call' = [call EXCEPT ![c] = [Done EXCEPT !.pc = pc, !.token = t]]
Answer(c, t) == call' = [call EXCEPT ![c] = [Done EXCEPT !.pc = "ok", !.token = t]]
Refuse(c) == call' = [call EXCEPT ![c] = [Done EXCEPT !.pc = "refused", !.token = call[c].token]]

IsLocked == user.lockedUntil > now
Expired(t) == expiry[t] <= now
IsRevoked(t) == revoked[t] > now

AuthInit ==
    /\ now = 0
    /\ user = [attempts |-> 0, lockedUntil |-> 0]
    /\ expiry = [t \in Tokens |-> 0]
    /\ revoked = [t \in Tokens |-> 0]
    /\ call = [c \in Calls |-> Done]
-----------------------------------------------------------------------------
\* get_by_email, is_locked and check_password.  The deadline of a lock is
\* decided here, on the attempts of the row that was read.
Login(c) ==
    /\ At(c, "login")
    /\ \/ IsLocked /\ Refuse(c)
       \/ ~IsLocked /\ Goto(c, "admit")
       \/ /\ ~IsLocked
          /\ call' = [call EXCEPT ![c].pc = "recount",
                        ![c].lockedUntil = IF user.attempts + 1 >= MaxAttempts
                                           THEN now + LockDuration ELSE 0]
    /\ UNCHANGED <<now, user, expiry, revoked>>

\* record_failed_login reads the row again ...
Recount(c) ==
    /\ At(c, "recount")
    /\ user.attempts < MaxFailures
    /\ call' = [call EXCEPT ![c].pc = "save",
                  ![c].attempts = user.attempts + 1,
                  ![c].lockedUntil = IF @ # 0 THEN @ ELSE user.lockedUntil]
    /\ UNCHANGED <<now, user, expiry, revoked>>

\* ... and saves both columns.
SaveFailure(c) ==
    /\ At(c, "save")
    /\ user' = [attempts |-> call[c].attempts, lockedUntil |-> call[c].lockedUntil]
    /\ Refuse(c)
    /\ UNCHANGED <<now, expiry, revoked>>

\* record_successful_login
Admit(c) ==
    /\ At(c, "admit")
    /\ user' = [attempts |-> 0, lockedUntil |-> 0]
    /\ Goto(c, "issue")
    /\ UNCHANGED <<now, expiry, revoked>>

\* issue_token_pair, and for a login the audit row, whose failure is a Fail.
Issue(c) ==
    /\ At(c, "issue")
    /\ \E t \in Tokens :
          /\ expiry[t] = 0 /\ \A s \in 1..(t - 1) : expiry[s] # 0
          /\ expiry' = [expiry EXCEPT ![t] = now + RefreshTTL]
          /\ Answer(c, t)
    /\ UNCHANGED <<now, user, revoked>>

\* decode_refresh_token and is_revoked.  A repository that does not reach Redis
\* looks into its fallback, which is made, empty, for the request.
CheckToken(c) ==
    LET t == call[c].token IN
    /\ At(c, "check")
    /\ \E reached \in RedisReach :
           IF Expired(t) \/ (reached /\ IsRevoked(t)) THEN Refuse(c) ELSE Goto(c, "account")
    /\ UNCHANGED <<now, user, expiry, revoked>>

\* get_by_id and is_locked
CheckAccount(c) ==
    /\ At(c, "account")
    /\ IF IsLocked THEN Refuse(c) ELSE Goto(c, "rotate")
    /\ UNCHANGED <<now, user, expiry, revoked>>

\* Mutant of Revoked: the key is kept for the time of a lock.
RevokedBriefly(t) ==
    {IF reached THEN [revoked EXCEPT ![t] = now + LockDuration] ELSE revoked : reached \in RedisReach}

\* What revoke may leave: a repository without Redis notes it in its fallback only.
Revoked(t) ==
    {IF reached THEN [revoked EXCEPT ![t] = now + RefreshTTL] ELSE revoked : reached \in RedisReach}

\* revoke, in refresh
Rotate(c) ==
    /\ At(c, "rotate")
    /\ revoked' \in Revoked(call[c].token)
    /\ Goto(c, "issue")
    /\ UNCHANGED <<now, user, expiry>>

\* logout: decode_refresh_token and revoke
SignOut(c) ==
    /\ At(c, "signout")
    /\ revoked' \in IF Expired(call[c].token) THEN {revoked} ELSE Revoked(call[c].token)
    /\ Answer(c, NoToken)
    /\ UNCHANGED <<now, user, expiry>>

\* A request that fails on the way: an error of a store, the rate limiter, or
\* a process that dies.
Fail(c) ==
    /\ call[c].pc \notin {"idle", "ok", "refused"}
    /\ Refuse(c)
    /\ UNCHANGED <<now, user, expiry, revoked>>

Tick ==
    /\ now < MaxTime
    /\ now' = now + 1
    /\ UNCHANGED <<user, expiry, revoked, call>>

Serve(c) ==
    \/ Login(c) \/ Recount(c) \/ SaveFailure(c) \/ Admit(c)
    \/ CheckToken(c) \/ CheckAccount(c) \/ Rotate(c) \/ SignOut(c)
    \/ Issue(c) \/ Fail(c)
-----------------------------------------------------------------------------
CallStates ==
    [pc : {"idle", "login", "recount", "save", "admit", "issue", "check",
           "account", "rotate", "signout", "ok", "refused"},
     token : Tokens \cup {NoToken}, attempts : Nat, lockedUntil : Nat]

AuthTypeOK ==
    /\ now \in Nat
    /\ user \in [attempts : Nat, lockedUntil : Nat]
    /\ expiry \in [Tokens -> Nat]
    /\ revoked \in [Tokens -> Nat]
    /\ call \in [Calls -> CallStates]

(***************************************************************************)
(* A refresh token that has expired, or is revoked in a Redis that can be  *)
(* relied on, and that no refresh has got past the check with, is dead for *)
(* good: its revocation is kept for as long as the token lives, and no     *)
(* call gets a token pair for it again.                                    *)
(***************************************************************************)
RedisSteady == RedisReach = {TRUE}

Rejected(t) == Expired(t) \/ (RedisSteady /\ IsRevoked(t))

Dead(t) ==
    /\ expiry[t] # 0 /\ Rejected(t)
    /\ \A c \in Calls : call[c].pc \in {"account", "rotate"} => call[c].token # t

DeadStaysDead == [][\A t \in Tokens : Dead(t) => Dead(t)']_authVars
=============================================================================
