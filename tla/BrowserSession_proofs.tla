------------------------ MODULE BrowserSession_proofs ------------------------
(***************************************************************************)
(* Proofs about BrowserSession and AuthService, for any number of tabs and *)
(* requests, any limits, with or without Redis.                            *)
(***************************************************************************)
EXTENDS BrowserSession, TLAPS

LEMMA TypeInit == Init => TypeOK
  <1>. SUFFICES ASSUME Init PROVE TypeOK
    OBVIOUS
  <1>1. AuthTypeOK
    BY DEF Init, AuthInit, AuthTypeOK, CallStates, Tokens, Done, NoToken
  <1>2. client \in [Calls -> {NoClient}] /\ stored = NoToken /\ abandoned = {}
    BY DEF Init
  <1>. QED
    BY <1>1, <1>2 DEF Init, TypeOK, NoClient, NoToken

\* Each assignment to one call.
LEMMA CallUpdate ==
    ASSUME AuthTypeOK, NEW c \in Calls,
           NEW pc \in {"idle", "login", "recount", "save", "admit", "issue", "check",
                       "account", "rotate", "signout", "ok", "refused"},
           NEW t \in Tokens \cup {NoToken}, NEW n \in Nat, NEW l \in Nat
    PROVE  /\ call[c].lockedUntil \in Nat /\ call[c].attempts \in Nat
           /\ call[c].token \in Tokens \cup {NoToken}
           /\ \/ Goto(c, pc) \/ Receive(c, pc, t) \/ Answer(c, t) \/ Refuse(c)
              \/ call' = [call EXCEPT ![c].pc = pc, ![c].lockedUntil = l]
              \/ call' = [call EXCEPT ![c].pc = pc, ![c].attempts = n, ![c].lockedUntil = l]
              \/ call' = [call EXCEPT ![c] = Done] \/ UNCHANGED call
              => call' \in [Calls -> CallStates]
  <1>1. call[c] \in CallStates
    BY DEF AuthTypeOK
  <1>2. /\ call[c].lockedUntil \in Nat /\ call[c].attempts \in Nat
        /\ call[c].token \in Tokens \cup {NoToken}
    BY <1>1 DEF CallStates
  <1>3. ASSUME NEW r \in CallStates, call' = [call EXCEPT ![c] = r]
        PROVE  call' \in [Calls -> CallStates]
    BY <1>3 DEF AuthTypeOK
  <1>4. ASSUME Goto(c, pc) PROVE call' \in [Calls -> CallStates]
    <2>1. [call[c] EXCEPT !.pc = pc] \in CallStates
      BY <1>1 DEF CallStates
    <2>. QED
      BY <1>3, <1>4, <2>1 DEF Goto
  <1>5. ASSUME NEW d \in {"idle", "ok", "refused", pc}, NEW u \in Tokens \cup {NoToken}
        PROVE  [Done EXCEPT !.pc = d, !.token = u] \in CallStates
    BY DEF Done, CallStates
  <1>6. Receive(c, pc, t) => call' \in [Calls -> CallStates]
    BY <1>3, <1>5 DEF Receive
  <1>7. Answer(c, t) => call' \in [Calls -> CallStates]
    BY <1>3, <1>5 DEF Answer
  <1>8. Refuse(c) => call' \in [Calls -> CallStates]
    BY <1>2, <1>3, <1>5 DEF Refuse
  <1>9. ASSUME call' = [call EXCEPT ![c].pc = pc, ![c].lockedUntil = l]
        PROVE  call' \in [Calls -> CallStates]
    <2>1. [call[c] EXCEPT !.pc = pc, !.lockedUntil = l] \in CallStates
      BY <1>1 DEF CallStates
    <2>2. call' = [call EXCEPT ![c] = [call[c] EXCEPT !.pc = pc, !.lockedUntil = l]]
      BY <1>9
    <2>. QED
      BY <1>3, <2>1, <2>2
  <1>10. ASSUME call' = [call EXCEPT ![c].pc = pc, ![c].attempts = n, ![c].lockedUntil = l]
         PROVE  call' \in [Calls -> CallStates]
    <2>1. [call[c] EXCEPT !.pc = pc, !.attempts = n, !.lockedUntil = l] \in CallStates
      BY <1>1 DEF CallStates
    <2>2. call' = [call EXCEPT ![c] = [call[c] EXCEPT !.pc = pc, !.attempts = n, !.lockedUntil = l]]
      BY <1>10
    <2>. QED
      BY <1>3, <2>1, <2>2
  <1>11. call' = [call EXCEPT ![c] = Done] => call' \in [Calls -> CallStates]
    <2>1. Done \in CallStates
      BY DEF Done, CallStates
    <2>. QED
      BY <1>3, <2>1
  <1>12. UNCHANGED call => call' \in [Calls -> CallStates]
    BY DEF AuthTypeOK
  <1>. QED
    BY <1>2, <1>4, <1>6, <1>7, <1>8, <1>9, <1>10, <1>11, <1>12

\* The server's part of a step.
LEMMA ServeType ==
    ASSUME AuthTypeOK, NEW c \in Calls, Serve(c)
    PROVE  AuthTypeOK'
  <1>0. NoToken \in Tokens \cup {NoToken} /\ 0 \in Nat
    OBVIOUS
  <1>1. CASE Login(c)
    <2>1. now + LockDuration \in Nat
      BY AuthConfig DEF AuthTypeOK
    <2>2. call' \in [Calls -> CallStates]
      BY <1>0, <1>1, <2>1, CallUpdate DEF Login
    <2>. QED
      BY <1>1, <2>2 DEF Login, AuthTypeOK
  <1>2. CASE Recount(c)
    <2>1. user.attempts + 1 \in Nat /\ user.lockedUntil \in Nat
      BY DEF AuthTypeOK
    <2>2. call' \in [Calls -> CallStates]
      BY <1>0, <1>2, <2>1, CallUpdate DEF Recount
    <2>. QED
      BY <1>2, <2>2 DEF Recount, AuthTypeOK
  <1>3. CASE SaveFailure(c)
    <2>1. call[c].attempts \in Nat /\ call[c].lockedUntil \in Nat
      BY <1>0, CallUpdate
    <2>2. call' \in [Calls -> CallStates]
      BY <1>0, <1>3, CallUpdate DEF SaveFailure
    <2>. QED
      BY <1>3, <2>1, <2>2 DEF SaveFailure, AuthTypeOK
  <1>4. CASE Admit(c)
    <2>2. call' \in [Calls -> CallStates]
      BY <1>0, <1>4, CallUpdate DEF Admit
    <2>. QED
      BY <1>4, <2>2 DEF Admit, AuthTypeOK
  <1>5. CASE CheckToken(c) \/ CheckAccount(c) \/ Fail(c)
    <2>2. call' \in [Calls -> CallStates]
      BY <1>0, <1>5, CallUpdate DEF CheckToken, CheckAccount, Fail
    <2>. QED
      BY <1>5, <2>2 DEF CheckToken, CheckAccount, Fail, AuthTypeOK
  <1>7. CASE Rotate(c) \/ SignOut(c)
    <2>1. revoked' \in [Tokens -> Nat]
      BY <1>7, AuthConfig DEF Rotate, SignOut, Revoked, AuthTypeOK
    <2>2. call' \in [Calls -> CallStates]
      BY <1>0, <1>7, CallUpdate DEF Rotate, SignOut
    <2>. QED
      BY <1>7, <2>1, <2>2 DEF Rotate, SignOut, AuthTypeOK
  <1>9. CASE Issue(c)
    <2>1. expiry' \in [Tokens -> Nat]
      BY <1>9, AuthConfig DEF Issue, AuthTypeOK
    <2>2. call' \in [Calls -> CallStates]
      BY <1>0, <1>9, CallUpdate DEF Issue
    <2>. QED
      BY <1>9, <2>1, <2>2 DEF Issue, AuthTypeOK
  <1>. QED
    BY <1>1, <1>2, <1>3, <1>4, <1>5, <1>7, <1>9 DEF Serve

\* What a browser step makes of the calls.
LEMMA CallType ==
    ASSUME AuthTypeOK, NEW c \in Calls, NEW t \in Tokens \cup {NoToken},
           UNCHANGED <<now, user, expiry, revoked>>,
           \/ Receive(c, "check", t) \/ Receive(c, "login", t) \/ Receive(c, "signout", t)
           \/ Answer(c, t) \/ call' = [call EXCEPT ![c] = Done] \/ UNCHANGED call
    PROVE  AuthTypeOK'
  <1>1. call' \in [Calls -> CallStates]
    BY CallUpdate
  <1>. QED
    BY <1>1 DEF AuthTypeOK

Clients == [page : Pages \cup {NoPage}, job : {"none", "asked", "refresh", "login", "logout"},
            sent : Tokens \cup {NoToken}]

\* How a step may change the clients: one of them begins or ends a request,
\* and others may lose their page.
LEMMA ClientType ==
    ASSUME TypeOK, NEW c \in Calls, NEW p \in Pages, NEW t \in Tokens \cup {NoToken},
           \/ \E job \in {"asked", "refresh", "login", "logout"} : Begin(c, p, job, t)
           \/ client' = Leave(p)
           \/ client' = [Leave(p) EXCEPT ![c] = [page |-> p, job |-> "refresh", sent |-> t]]
           \/ client' = [client EXCEPT ![c] = NoClient]
    PROVE  /\ client' \in [Calls -> Clients]
           /\ \A d \in Calls : client'[d].page = NoPage <=> client'[d].job = "none"
  <1>. DEFINE Good(r) == r \in Clients /\ (r.page = NoPage <=> r.job = "none")
  <1>1. Good(NoClient) /\ client \in [Calls -> Clients] /\ \A d \in Calls : Good(client[d])
    BY DEF TypeOK, Clients, NoClient
  <1>2. ASSUME NEW job \in {"asked", "refresh", "login", "logout"}
        PROVE  Good([page |-> p, job |-> job, sent |-> t])
    BY BrowserConfig DEF Clients
  <1>3. ASSUME NEW k, Good(k), client' = [client EXCEPT ![c] = k]
        PROVE  client' \in [Calls -> Clients] /\ \A d \in Calls : Good(client'[d])
    BY <1>1, <1>3
  <1>4. Leave(p) \in [Calls -> Clients] /\ \A d \in Calls : Good(Leave(p)[d])
    BY <1>1 DEF Leave
  <1>5. ASSUME NEW k, Good(k), client' = [Leave(p) EXCEPT ![c] = k]
        PROVE  client' \in [Calls -> Clients] /\ \A d \in Calls : Good(client'[d])
    BY <1>4, <1>5
  <1>6. client' \in [Calls -> Clients] /\ \A d \in Calls : Good(client'[d])
    <2>1. CASE \E job \in {"asked", "refresh", "login", "logout"} : Begin(c, p, job, t)
      BY <2>1, <1>2, <1>3 DEF Begin
    <2>2. CASE client' = Leave(p)
      BY <2>2, <1>4
    <2>3. CASE client' = [Leave(p) EXCEPT ![c] = [page |-> p, job |-> "refresh", sent |-> t]]
      BY <2>3, <1>2, <1>5
    <2>4. CASE client' = [client EXCEPT ![c] = NoClient]
      BY <2>4, <1>1, <1>3
    <2>. QED
      BY <2>1, <2>2, <2>3, <2>4
  <1>. QED
    BY <1>6

PageStates == [access : BOOLEAN, route : {"app", "login"}]

\* How a step may change the pages.
LEMMA PageType ==
    ASSUME TypeOK, NEW p \in Pages, NEW route \in {"app", "login"},
           \/ page' = [page EXCEPT ![p] = [access |-> FALSE, route |-> route]]
           \/ page' = [page EXCEPT ![p] = [access |-> TRUE, route |-> route]]
           \/ UNCHANGED page
    PROVE  page' \in [Pages -> PageStates]
  <1>1. page \in [Pages -> PageStates] /\ page[p] \in PageStates
    BY DEF TypeOK, PageStates
  <1>2. [access |-> FALSE, route |-> route] \in PageStates
    BY DEF PageStates
  <1>3. [access |-> TRUE, route |-> route] \in PageStates
    BY DEF PageStates
  <1>4. ASSUME NEW k \in PageStates, page' = [page EXCEPT ![p] = k]
        PROVE  page' \in [Pages -> PageStates]
    BY <1>1, <1>4
  <1>. QED
    BY <1>1, <1>2, <1>3, <1>4

LEMMA TypeStep == TypeOK /\ [Next]_vars => TypeOK'
  <1>. SUFFICES ASSUME TypeOK, [Next]_vars PROVE TypeOK'
    OBVIOUS
  <1>. USE DEF Clients, PageStates
  <1>0. stored \in Tokens \cup {NoToken} /\ NoToken \in Tokens \cup {NoToken}
    BY DEF TypeOK
  <1>d. ASSUME NEW C \in SUBSET Calls, abandoned' = abandoned \cup Dropped(C)
        PROVE  abandoned' \subseteq Tokens
    BY <1>d DEF TypeOK, Dropped
  <1>1. ASSUME NEW c \in Calls, Serve(c), UNCHANGED <<browserVars, abandoned>>
        PROVE  TypeOK'
    BY <1>1, ServeType DEF TypeOK, browserVars
  <1>2. ASSUME NEW c \in Calls, Unauthorized(c)
        PROVE  TypeOK'
    <2>1. client[c].page \in Pages
      BY <1>2 DEF Unauthorized, Waiting, TypeOK
    <2>2. AuthTypeOK'
      <3>1. UNCHANGED <<now, user, expiry, revoked>> /\ (UNCHANGED call \/ Receive(c, "check", stored))
        BY <1>2 DEF Unauthorized
      <3>. QED
        BY <1>0, <3>1, CallType DEF TypeOK
    <2>3. /\ client' \in [Calls -> Clients]
          /\ \A d \in Calls : client'[d].page = NoPage <=> client'[d].job = "none"
      BY <1>0, <1>2, <2>1, ClientType DEF Unauthorized
    <2>. QED
      BY <1>2, <2>2, <2>3 DEF Unauthorized, TypeOK
  <1>3. ASSUME NEW c \in Calls, NEW p \in Pages,
               Request(c, p) \/ Load(c, p) \/ SubmitLogin(c, p) \/ Logout(c, p)
        PROVE  TypeOK'
    <2>1. AuthTypeOK'
      BY <1>0, <1>3, CallType DEF Request, Load, SubmitLogin, Logout, TypeOK, authVars, AuthTypeOK
    <2>2. /\ client' \in [Calls -> Clients]
          /\ \A d \in Calls : client'[d].page = NoPage <=> client'[d].job = "none"
      <3>1. CASE Load(c, p)
        BY <1>0, <3>1, ClientType DEF Load
      <3>. QED
        BY <1>0, <1>3, <3>1, ClientType DEF Request, SubmitLogin, Logout
    <2>3. page' \in [Pages -> [access : BOOLEAN, route : {"app", "login"}]]
      BY <1>3, PageType DEF Request, Load, SubmitLogin, Logout
    <2>4. stored' = stored /\ abandoned' \subseteq Tokens
      BY <1>3, <1>d DEF Request, Load, SubmitLogin, Logout, TypeOK
    <2>. QED
      BY <2>1, <2>2, <2>3, <2>4 DEF TypeOK
  <1>4. ASSUME NEW c \in Calls, Deliver(c) \/ Disconnect(c)
        PROVE  TypeOK'
    <2>1. client[c].page \in Pages
      BY <1>4 DEF Deliver, Disconnect, TypeOK
    <2>2. AuthTypeOK'
      BY <1>4, CallType DEF Deliver, Disconnect, TypeOK, authVars, AuthTypeOK
    <2>3. LoggedOut(c) \/ TakeTokens(c) \/ LoginRefused(c) \/ RefreshRefused(c)
      BY <1>4 DEF Deliver, Disconnect
    <2>4. /\ client' \in [Calls -> Clients]
          /\ \A d \in Calls : client'[d].page = NoPage <=> client'[d].job = "none"
      BY <1>0, <2>1, <2>3, ClientType
         DEF LoggedOut, TakeTokens, LoginRefused, RefreshRefused
    <2>5. page' \in [Pages -> [access : BOOLEAN, route : {"app", "login"}]]
      <3>1. page[client[c].page].route \in {"app", "login"}
        BY <2>1 DEF TypeOK
      <3>. QED
        BY <2>1, <2>3, <3>1, PageType DEF LoggedOut, TakeTokens, LoginRefused, RefreshRefused
    <2>6. stored' \in Tokens \cup {NoToken}
      <3>1. call[c].token \in Tokens \cup {NoToken}
        BY DEF TypeOK, AuthTypeOK, CallStates
      <3>. QED
        BY <1>0, <2>3, <3>1 DEF LoggedOut, TakeTokens, LoginRefused, RefreshRefused
    <2>7. abandoned' \subseteq Tokens
      BY <1>4, <1>d DEF Deliver, Disconnect
    <2>. QED
      BY <2>2, <2>4, <2>5, <2>6, <2>7 DEF TypeOK
  <1>5. ASSUME NEW c \in Calls, Discard(c)
        PROVE  TypeOK'
    BY <1>0, <1>5, CallType DEF Discard, TypeOK, browserVars
  <1>6. CASE Tick /\ UNCHANGED <<browserVars, abandoned>>
    BY <1>6 DEF Tick, TypeOK, AuthTypeOK, browserVars
  <1>7. CASE UNCHANGED vars
    BY <1>7 DEF vars, authVars, browserVars, TypeOK, AuthTypeOK
  <1>. QED
    BY <1>1, <1>2, <1>3, <1>4, <1>5, <1>6, <1>7 DEF Next, CallStep

(***************************************************************************)
(* Every reachable state of the session and of the authentication service  *)
(* has its type.                                                           *)
(***************************************************************************)
THEOREM TypeCorrect == Spec => []TypeOK
  BY TypeInit, TypeStep, PTL DEF Spec
-----------------------------------------------------------------------------
(***************************************************************************)
(* The strengthening.  Nobody holds a token that has not been issued; a    *)
(* revocation outlives its token; a token on its way to a page is known to *)
(* no one else; a request that may revoke a token has a page that has sent *)
(* it, or had one.                                                         *)
(***************************************************************************)
Held == {"check", "account", "rotate", "signout"}

Known ==
    /\ \A t \in Tokens : expiry[t] = 0 => revoked[t] = 0
    /\ stored # NoToken => expiry[stored] # 0
    /\ \A c \in Calls :
          /\ call[c].token # NoToken => expiry[call[c].token] # 0
          /\ client[c].sent # NoToken => expiry[client[c].sent] # 0
          /\ call[c].pc \in Held => call[c].token # NoToken

Outlives ==
    \A t \in Tokens :
        /\ expiry[t] <= now + RefreshTTL
        /\ revoked[t] # 0 => expiry[t] <= revoked[t]

Unsent ==
    \A c \in Calls :
        At(c, "ok") /\ call[c].token # NoToken =>
            /\ revoked[call[c].token] = 0
            /\ stored # call[c].token
            /\ \A d \in Calls : /\ client[d].sent # call[c].token
                                /\ d # c => call[d].token # call[c].token

Owned ==
    \A c \in Calls :
        call[c].pc \in Held =>
            client[c].sent = call[c].token \/ call[c].token \in abandoned

JobsSend ==
    \A c \in Calls : client[c].job \in {"asked", "login"} => client[c].sent = NoToken

TimeInv == TypeOK /\ Known /\ Outlives
Inv == TimeInv /\ Unsent /\ Owned /\ JobsSend /\ StoredTokenUsable

\* The three kinds of steps a server makes: it moves on with the token it was
\* sent, it revokes that token, or it issues a new one.
MovesOn(c) ==
    /\ UNCHANGED <<now, expiry, revoked>>
    /\ call'[c].token = call[c].token
    /\ call'[c].pc # "ok"
    /\ call'[c].pc \in Held => call[c].pc \in Held
    /\ call'[c].pc \in {"account", "rotate"} =>
          call[c].pc \in {"account", "rotate"} \/ ~Rejected(call[c].token)

RevokesToken(c) ==
    /\ UNCHANGED <<now, expiry>>
    /\ call[c].pc \in Held /\ call'[c].pc \notin Held
    /\ revoked' \in {revoked, [revoked EXCEPT ![call[c].token] = now + RefreshTTL]}
    /\ \/ call'[c].pc # "ok" /\ call'[c].token = call[c].token
       \/ call'[c].token = NoToken

IssuesToken(c) ==
    /\ UNCHANGED <<now, revoked>>
    /\ call'[c].pc = "ok"
    /\ \E t \in Tokens : /\ expiry[t] = 0
                         /\ expiry' = [expiry EXCEPT ![t] = now + RefreshTTL]
                         /\ call'[c].token = t

LEMMA ServeKinds ==
    ASSUME TypeOK, NEW c \in Calls, Serve(c)
    PROVE  /\ \A d \in Calls \ {c} : call'[d] = call[d]
           /\ MovesOn(c) \/ RevokesToken(c) \/ IssuesToken(c)
  <1>0. call \in [Calls -> CallStates] /\ call[c] \in CallStates
    BY DEF TypeOK, AuthTypeOK
  <1>1. ASSUME NEW pc, Goto(c, pc)
        PROVE  /\ \A d \in Calls \ {c} : call'[d] = call[d]
               /\ call'[c].pc = pc /\ call'[c].token = call[c].token
    BY <1>0, <1>1 DEF Goto, CallStates
  <1>2. ASSUME NEW t, Answer(c, t)
        PROVE  /\ \A d \in Calls \ {c} : call'[d] = call[d]
               /\ call'[c].pc = "ok" /\ call'[c].token = t
    BY <1>0, <1>2 DEF Answer, Done
  <1>3. ASSUME Refuse(c)
        PROVE  /\ \A d \in Calls \ {c} : call'[d] = call[d]
               /\ call'[c].pc = "refused" /\ call'[c].token = call[c].token
    BY <1>0, <1>3 DEF Refuse, Done
  <1>4. CASE Login(c)
    BY <1>0, <1>1, <1>3, <1>4 DEF Login, MovesOn, Held, CallStates
  <1>5. CASE Recount(c)
    BY <1>0, <1>5 DEF Recount, MovesOn, Held, CallStates
  <1>6. CASE SaveFailure(c) \/ Admit(c) \/ Fail(c)
    BY <1>1, <1>3, <1>6 DEF SaveFailure, Admit, Fail, MovesOn, Held
  <1>7. CASE CheckToken(c)
    <2>1. PICK reached \in RedisReach :
             IF Expired(call[c].token) \/ (reached /\ IsRevoked(call[c].token))
             THEN Refuse(c) ELSE Goto(c, "account")
      BY <1>7 DEF CheckToken
    <2>2. RedisSteady => reached
      BY DEF RedisSteady
    <2>3. Refuse(c) \/ (Goto(c, "account") /\ ~Rejected(call[c].token))
      BY <2>1, <2>2 DEF Rejected
    <2>. QED
      BY <1>1, <1>3, <1>7, <2>3 DEF CheckToken, MovesOn, Held, At
  <1>11. CASE CheckAccount(c)
    BY <1>1, <1>3, <1>11 DEF CheckAccount, MovesOn, Held, At
  <1>8. CASE Rotate(c)
    BY <1>1, <1>8 DEF Rotate, RevokesToken, Revoked, Held, At
  <1>9. CASE SignOut(c)
    BY <1>2, <1>9 DEF SignOut, RevokesToken, Revoked, Held, At
  <1>10. CASE Issue(c)
    BY <1>2, <1>10 DEF Issue, IssuesToken
  <1>. QED
    BY <1>4, <1>5, <1>6, <1>7, <1>8, <1>9, <1>10, <1>11 DEF Serve

\* The steps of the browser: request c begins or ends, others may lose their
\* page; a refresh token that was sent is kept in sight, or the page has its
\* answer.
Saved(d) == client[d].sent \in abandoned' \cup {NoToken, client'[d].sent}

BrowserStep(c) ==
    /\ UNCHANGED <<now, expiry, revoked>>
    /\ abandoned \subseteq abandoned'
    /\ \A d \in Calls \ {c} :
          /\ call'[d] = call[d]
          /\ client'[d] = client[d] \/ (client'[d] = NoClient /\ Saved(d))
    /\ client'[c] = client[c] \/ client'[c].sent \in {NoToken, stored}
    /\ client'[c].job \in {"asked", "login"} => client'[c].sent = NoToken
    /\ \/ stored' = stored /\ Saved(c)
       \/ stored' = NoToken /\ (Saved(c) \/ call'[c] = Done)
       \/ stored' = call[c].token /\ At(c, "ok") /\ call'[c] = Done
    /\ \/ call'[c] = call[c]
       \/ call'[c].pc \notin Held /\ call'[c].token = NoToken
       \/ /\ call'[c].pc \in {"check", "signout"}
          /\ call'[c].token = stored /\ client'[c].sent = stored /\ stored # NoToken

LEMMA Began ==
    ASSUME TypeOK, NEW c \in Calls, NEW p \in Pages,
           \/ Unauthorized(c) \/ Request(c, p) \/ SubmitLogin(c, p) \/ Logout(c, p),
           JobsSend
    PROVE  BrowserStep(c)
  <1>0. /\ call \in [Calls -> CallStates]
        /\ client \in [Calls -> Clients]
    BY DEF TypeOK, AuthTypeOK, Clients
  <1>1. client[c].sent = NoToken
    BY DEF Unauthorized, Request, SubmitLogin, Logout, Free, Waiting, NoClient, JobsSend
  <1>2. UNCHANGED <<now, expiry, revoked, stored, abandoned>>
    BY DEF Unauthorized, Request, SubmitLogin, Logout, authVars
  <1>3. ASSUME NEW q, NEW job, NEW t, Begin(c, q, job, t)
        PROVE  /\ \A d \in Calls \ {c} : client'[d] = client[d]
               /\ client'[c].job = job /\ client'[c].sent = t
    BY <1>0, <1>3 DEF Begin
  <1>4. ASSUME NEW pc, NEW t, Receive(c, pc, t)
        PROVE  /\ \A d \in Calls \ {c} : call'[d] = call[d]
               /\ call'[c].pc = pc /\ call'[c].token = t
    BY <1>0, <1>4 DEF Receive, Done
  <1>5. ASSUME NEW t, Answer(c, t)
        PROVE  /\ \A d \in Calls \ {c} : call'[d] = call[d]
               /\ call'[c].pc = "ok" /\ call'[c].token = t
    BY <1>0, <1>5 DEF Answer, Done
  <1>6. CASE Unauthorized(c)
    <2>1. CASE stored = NoToken
      BY <1>0, <1>1, <1>2, <1>6, <2>1 DEF Unauthorized, BrowserStep, Saved, NoClient
    <2>2. CASE stored # NoToken
      BY <1>1, <1>2, <1>3, <1>4, <1>6, <2>2 DEF Unauthorized, BrowserStep, Saved
    <2>. QED
      BY <2>1, <2>2
  <1>7. CASE Request(c, p)
    BY <1>1, <1>2, <1>3, <1>7 DEF Request, BrowserStep, Saved, authVars
  <1>8. CASE SubmitLogin(c, p)
    BY <1>1, <1>2, <1>3, <1>4, <1>8 DEF SubmitLogin, BrowserStep, Saved, Held
  <1>9. CASE Logout(c, p)
    BY <1>1, <1>2, <1>3, <1>4, <1>5, <1>9 DEF Logout, BrowserStep, Saved, Held
  <1>. QED
    BY <1>6, <1>7, <1>8, <1>9

LEMMA Loaded ==
    ASSUME TypeOK, NEW c \in Calls, NEW p \in Pages, Load(c, p)
    PROVE  BrowserStep(c)
  <1>0. /\ call \in [Calls -> CallStates]
        /\ client \in [Calls -> Clients]
        /\ p # NoPage
    BY BrowserConfig DEF TypeOK, AuthTypeOK, Clients
  <1>1. UNCHANGED <<now, expiry, revoked, stored>> /\ abandoned' = abandoned \cup Dropped(Calls)
    BY DEF Load
  <1>2. ASSUME NEW d \in Calls, client'[d] = Leave(p)[d]
        PROVE  client'[d] = client[d] \/ (client'[d] = NoClient /\ Saved(d))
    <2>1. CASE client'[d] # client[d]
      <3>1. client[d].sent = NoToken \/ client[d].sent \in Dropped(Calls)
        BY <2>1 DEF Dropped
      <3>. QED
        BY <1>1, <1>2, <2>1, <3>1 DEF Leave, Saved
    <2>. QED
      BY <2>1
  <1>3. client[c].sent = NoToken
    BY DEF Load, Free, NoClient
  <1>4. CASE stored = NoToken
    BY <1>0, <1>1, <1>2, <1>3, <1>4 DEF Load, BrowserStep, Saved, NoClient
  <1>5. CASE stored # NoToken
    <2>1. client' = [Leave(p) EXCEPT ![c] = [page |-> p, job |-> "refresh", sent |-> stored]]
      BY <1>5 DEF Load
    <2>2. /\ \A d \in Calls \ {c} : client'[d] = Leave(p)[d]
          /\ client'[c].job = "refresh" /\ client'[c].sent = stored
      BY <2>1 DEF Leave
    <2>3. /\ \A d \in Calls \ {c} : call'[d] = call[d]
          /\ call'[c].pc = "check" /\ call'[c].token = stored
      BY <1>0, <1>5 DEF Load, Receive, Done
    <2>. QED
      BY <1>1, <1>2, <1>3, <1>5, <2>2, <2>3 DEF BrowserStep, Saved
  <1>. QED
    BY <1>4, <1>5

LEMMA Ended ==
    ASSUME TypeOK, JobsSend, NEW c \in Calls, Deliver(c) \/ Disconnect(c)
    PROVE  BrowserStep(c)
  <1>. DEFINE p == client[c].page
  <1>0. /\ call \in [Calls -> CallStates]
        /\ client \in [Calls -> Clients]
        /\ p # NoPage
    BY DEF TypeOK, AuthTypeOK, Clients, Deliver, Disconnect
  <1>1. UNCHANGED <<now, expiry, revoked>>
    BY DEF Deliver, Disconnect, authVars
  <1>2. PICK C \in {Calls, Calls \ {c}} :
            /\ abandoned' = abandoned \cup Dropped(C)
            /\ C = Calls \/ Deliver(c)
    BY DEF Deliver, Disconnect
  <1>3. client' = Leave(p) \/ client' = [client EXCEPT ![c] = NoClient]
    BY DEF Deliver, Disconnect, LoggedOut, TakeTokens, LoginRefused, RefreshRefused
  <1>4. client'[c] = NoClient
    BY <1>0, <1>3 DEF Leave
  <1>5. ASSUME NEW d \in C
        PROVE  client'[d] = client[d] \/ (client'[d] = NoClient /\ Saved(d))
    <2>1. d \in Calls /\ (client'[d] = client[d] \/ client'[d] = NoClient)
      BY <1>0, <1>2, <1>3 DEF Leave
    <2>2. client'[d] # client[d] => client[d].sent = NoToken \/ client[d].sent \in Dropped(C)
      BY <1>2 DEF Dropped
    <2>. QED
      BY <1>2, <2>1, <2>2 DEF Saved
  <1>6. CASE Disconnect(c)
    <2>1. stored' \in {stored, NoToken} /\ call' = call
      BY <1>6 DEF Disconnect, LoggedOut, LoginRefused, RefreshRefused, authVars
    <2>2. client'[c] # client[c]
      BY <1>0, <1>4 DEF NoClient
    <2>3. client[c].sent = NoToken \/ client[c].sent \in Dropped(Calls)
      BY <2>2 DEF Dropped
    <2>4. Saved(c)
      BY <1>6, <2>3 DEF Disconnect, Saved
    <2>. QED
      BY <1>1, <1>2, <1>4, <1>5, <2>1, <2>4 DEF BrowserStep, NoClient
  <1>7. CASE Deliver(c)
    <2>1. call' = [call EXCEPT ![c] = Done]
      BY <1>7 DEF Deliver
    <2>2. call'[c] = Done /\ \A d \in Calls \ {c} : call'[d] = call[d]
      BY <1>0, <2>1
    <2>3. \/ stored' = stored /\ Saved(c)
          \/ stored' = NoToken
          \/ stored' = call[c].token /\ At(c, "ok")
      BY <1>7 DEF Deliver, LoggedOut, TakeTokens, LoginRefused, RefreshRefused, JobsSend, Saved
    <2>. QED
      BY <1>1, <1>2, <1>4, <1>5, <2>2, <2>3 DEF BrowserStep, NoClient, Done, Held
  <1>. QED
    BY <1>6, <1>7

LEMMA Discarded ==
    ASSUME TypeOK, NEW c \in Calls, Discard(c)
    PROVE  BrowserStep(c)
  <1>0. call \in [Calls -> CallStates] /\ client[c].sent = NoToken
    BY DEF TypeOK, AuthTypeOK, Discard, NoClient
  <1>1. call'[c] = Done /\ \A d \in Calls \ {c} : call'[d] = call[d]
    BY <1>0 DEF Discard
  <1>. QED
    BY <1>0, <1>1 DEF Discard, BrowserStep, Saved, browserVars, Done, Held, NoClient

LEMMA Kinds ==
    ASSUME TypeOK, JobsSend, [Next]_vars
    PROVE  \/ \E c \in Calls : Serve(c) /\ UNCHANGED <<browserVars, abandoned>>
           \/ \E c \in Calls : BrowserStep(c)
           \/ Tick /\ UNCHANGED <<browserVars, abandoned>>
           \/ UNCHANGED vars
  <1>1. ASSUME NEW c \in Calls, Unauthorized(c)
        PROVE  BrowserStep(c)
    <2>1. client[c].page \in Pages
      BY <1>1 DEF Unauthorized, Waiting, TypeOK
    <2>. QED
      BY <1>1, <2>1, Began
  <1>. QED
    BY <1>1, Began, Loaded, Ended, Discarded DEF Next, CallStep

LEMMA InvInit == Init => Inv
  <1>. SUFFICES ASSUME Init PROVE Inv
    OBVIOUS
  <1>1. /\ stored = NoToken /\ revoked = [t \in Tokens |-> 0] /\ expiry = [t \in Tokens |-> 0]
        /\ now = 0
        /\ \A c \in Calls : client[c] = NoClient /\ call[c] = Done
    BY DEF Init, AuthInit
  <1>2. Known
    BY <1>1 DEF Known, NoClient, Done, Held
  <1>3. Outlives
    BY <1>1, AuthConfig DEF Outlives
  <1>4. Unsent /\ Owned /\ JobsSend /\ StoredTokenUsable
    BY <1>1 DEF Unsent, Owned, JobsSend, StoredTokenUsable, At, NoClient, Done, Held
  <1>. QED
    BY TypeInit, <1>2, <1>3, <1>4 DEF Inv, TimeInv

\* A server's step keeps the invariant: the token it revokes is one a page
\* has sent, and the one it issues nobody holds yet.
LEMMA ServeInv ==
    ASSUME Inv, TypeOK', NEW c \in Calls, Serve(c), UNCHANGED <<browserVars, abandoned>>
    PROVE  Inv'
  <1>. DEFINE t == call[c].token
  <1>0. /\ UNCHANGED <<stored, client, abandoned>>
        /\ now \in Nat /\ RefreshTTL \in Nat \ {0}
        /\ expiry \in [Tokens -> Nat] /\ revoked \in [Tokens -> Nat]
        /\ stored \in Tokens \cup {NoToken}
        /\ \A d \in Calls : /\ call[d].token \in Tokens \cup {NoToken}
                            /\ client[d].sent \in Tokens \cup {NoToken}
    BY AuthConfig DEF Inv, TimeInv, TypeOK, AuthTypeOK, CallStates, browserVars
  <1>1. \A d \in Calls \ {c} : call'[d] = call[d]
    BY ServeKinds DEF Inv, TimeInv
  <1>2. JobsSend'
    BY <1>0 DEF Inv, JobsSend
  <1>3. CASE MovesOn(c)
    <2>1. Known' /\ Outlives'
      BY <1>0, <1>1, <1>3 DEF MovesOn, Inv, TimeInv, Known, Outlives
    <2>2. Unsent'
      BY <1>0, <1>1, <1>3 DEF MovesOn, Inv, Unsent, At
    <2>3. Owned' /\ StoredTokenUsable'
      BY <1>0, <1>1, <1>3 DEF MovesOn, Inv, Owned, StoredTokenUsable
    <2>. QED
      BY <1>2, <2>1, <2>2, <2>3 DEF Inv, TimeInv
  <1>4. CASE RevokesToken(c)
    <2>0. t \in Tokens /\ expiry[t] # 0 /\ (client[c].sent = t \/ t \in abandoned)
      BY <1>0, <1>4 DEF RevokesToken, Inv, TimeInv, Known, Owned
    <2>a. \A s \in Tokens : revoked'[s] = revoked[s] \/ (s = t /\ revoked'[s] = now + RefreshTTL)
      BY <1>0, <1>4 DEF RevokesToken
    <2>b. call'[c].pc \notin Held /\ call'[c].token \in {t, NoToken}
          /\ (call'[c].pc = "ok" => call'[c].token = NoToken)
      BY <1>4 DEF RevokesToken
    <2>1. Known'
      BY <1>0, <1>1, <1>4, <2>0, <2>a, <2>b DEF RevokesToken, Inv, TimeInv, Known
    <2>2. Outlives'
      BY <1>0, <1>4, <2>a DEF RevokesToken, Inv, TimeInv, Outlives
    <2>3. Unsent'
      BY <1>0, <1>1, <2>0, <2>a, <2>b DEF Inv, Unsent, At
    <2>4. Owned'
      BY <1>0, <1>1, <2>b DEF Inv, Owned
    <2>5. StoredTokenUsable'
      BY <1>0, <2>0, <2>a DEF Inv, StoredTokenUsable
    <2>. QED
      BY <1>2, <2>1, <2>2, <2>3, <2>4, <2>5 DEF Inv, TimeInv
  <1>5. CASE IssuesToken(c)
    <2>1. PICK u \in Tokens : /\ expiry[u] = 0
                              /\ expiry' = [expiry EXCEPT ![u] = now + RefreshTTL]
                              /\ call'[c].token = u
      BY <1>5 DEF IssuesToken
    <2>2. expiry'[u] = now + RefreshTTL /\ \A s \in Tokens \ {u} : expiry'[s] = expiry[s]
      BY <1>0, <2>1
    <2>3. call'[c].pc \notin Held /\ UNCHANGED <<now, revoked>>
      BY <1>5 DEF IssuesToken, Held
    <2>4. /\ revoked[u] = 0 /\ stored # u /\ u # NoToken
          /\ \A d \in Calls : client[d].sent # u /\ call[d].token # u
      BY <1>0, <2>1 DEF Inv, TimeInv, Known, Tokens, NoToken
    <2>5. Known'
      BY <1>0, <1>1, <2>1, <2>2, <2>3, <2>4 DEF Inv, TimeInv, Known
    <2>6. Outlives'
      BY <1>0, <2>2, <2>3, <2>4 DEF Inv, TimeInv, Outlives
    <2>7. Unsent'
      BY <1>0, <1>1, <2>1, <2>3, <2>4 DEF Inv, Unsent, At
    <2>8. Owned' /\ StoredTokenUsable'
      BY <1>0, <1>1, <2>3 DEF Inv, Owned, StoredTokenUsable
    <2>. QED
      BY <1>2, <2>5, <2>6, <2>7, <2>8 DEF Inv, TimeInv
  <1>. QED
    BY <1>3, <1>4, <1>5, ServeKinds DEF Inv, TimeInv

\* A step of the browser keeps it: what a page sends is what is stored, and
\* what it stores is the answer to what it sent.
LEMMA BrowserInv ==
    ASSUME Inv, TypeOK', NEW c \in Calls, BrowserStep(c)
    PROVE  Inv'
  <1>0. /\ UNCHANGED <<now, expiry, revoked>> /\ abandoned \subseteq abandoned'
        /\ \A d \in Calls \ {c} : call'[d] = call[d]
        /\ \A d \in Calls \ {c} :
              client'[d] = client[d] \/ (client'[d] = NoClient /\ Saved(d))
    BY DEF BrowserStep
  <1>1. Known'
    <2>1. stored' # NoToken => expiry[stored'] # 0
      BY DEF BrowserStep, Inv, TimeInv, Known
    <2>2. ASSUME NEW d \in Calls
          PROVE  /\ call'[d].token # NoToken => expiry[call'[d].token] # 0
                 /\ client'[d].sent # NoToken => expiry[client'[d].sent] # 0
                 /\ call'[d].pc \in Held => call'[d].token # NoToken
      BY DEF BrowserStep, Inv, TimeInv, Known, NoClient
    <2>. QED
      BY <1>0, <2>1, <2>2 DEF Inv, TimeInv, Known
  <1>2. Outlives'
    BY <1>0 DEF Inv, TimeInv, Outlives
  <1>3. Unsent'
    <2>. SUFFICES ASSUME NEW d \in Calls, call'[d].pc = "ok", call'[d].token # NoToken
                  PROVE  /\ revoked[call'[d].token] = 0
                         /\ stored' # call'[d].token
                         /\ \A e \in Calls : /\ client'[e].sent # call'[d].token
                                             /\ e # d => call'[e].token # call'[d].token
      BY <1>0 DEF Unsent, At
    <2>0. Done.pc = "idle"
      BY DEF Done
    <2>1. call'[d] = call[d]
      BY DEF BrowserStep, Held
    <2>2. /\ revoked[call[d].token] = 0 /\ stored # call[d].token
          /\ \A e \in Calls : /\ client[e].sent # call[d].token
                              /\ e # d => call[e].token # call[d].token
      BY <2>1 DEF Inv, Unsent, At
    <2>3. stored' # call[d].token
      BY <2>0, <2>1, <2>2 DEF BrowserStep
    <2>4. ASSUME NEW e \in Calls
          PROVE  /\ client'[e].sent # call[d].token
                 /\ e # d => call'[e].token # call[d].token
      BY <2>1, <2>2 DEF BrowserStep, NoClient
    <2>. QED
      BY <2>1, <2>2, <2>3, <2>4
  <1>4. Owned'
    <2>. SUFFICES ASSUME NEW d \in Calls, call'[d].pc \in Held
                  PROVE  client'[d].sent = call'[d].token \/ call'[d].token \in abandoned'
      BY DEF Owned
    <2>1. CASE call'[d] = call[d]
      <3>1. call[d].token # NoToken
            /\ (client[d].sent = call[d].token \/ call[d].token \in abandoned)
        BY <2>1 DEF Inv, TimeInv, Known, Owned
      <3>2. client'[d] = client[d] \/ Saved(d)
        <4>1. Done.pc \notin Held
          BY DEF Done, Held
        <4>. QED
          BY <4>1, <1>0 DEF BrowserStep, Inv, Unsent, Known, TimeInv
      <3>. QED
        BY <1>0, <2>1, <3>1, <3>2 DEF Saved
    <2>2. CASE call'[d] # call[d]
      BY <1>0, <2>2 DEF BrowserStep
    <2>. QED
      BY <2>1, <2>2
  <1>5. JobsSend'
    BY DEF BrowserStep, Inv, JobsSend, NoClient
  <1>6. StoredTokenUsable'
    <2>1. CASE stored' = stored /\ Saved(c) /\ stored # NoToken
      <3>1. \A d \in Calls : client'[d] = client[d] \/ Saved(d)
        BY <1>0, <2>1
      <3>. QED
        BY <1>0, <2>1, <3>1 DEF Inv, StoredTokenUsable, Saved
    <2>2. CASE stored' = NoToken
      BY <2>2 DEF StoredTokenUsable
    <2>3. CASE stored' = call[c].token /\ At(c, "ok")
      BY <1>0, <2>2, <2>3 DEF Inv, Unsent, StoredTokenUsable
    <2>. QED
      BY <2>1, <2>2, <2>3 DEF BrowserStep
  <1>. QED
    BY <1>1, <1>2, <1>3, <1>4, <1>5, <1>6 DEF Inv, TimeInv

LEMMA InvStep == Inv /\ [Next]_vars => Inv'
  <1>. SUFFICES ASSUME Inv, [Next]_vars PROVE Inv'
    OBVIOUS
  <1>0. TypeOK'
    BY TypeStep DEF Inv, TimeInv
  <1>1. CASE Tick /\ UNCHANGED <<browserVars, abandoned>>
    <2>1. UNCHANGED <<expiry, revoked, call, stored, client, abandoned>> /\ now' = now + 1
      BY <1>1 DEF Tick, browserVars
    <2>2. Outlives'
      BY <2>1, AuthConfig DEF Inv, TimeInv, Outlives, TypeOK, AuthTypeOK
    <2>. QED
      BY <1>0, <2>1, <2>2
         DEF Inv, TimeInv, Known, Unsent, Owned, JobsSend, StoredTokenUsable, At
  <1>2. CASE UNCHANGED vars
    BY <1>0, <1>2 DEF vars, authVars, browserVars, Inv, TimeInv, Known, Outlives, Unsent,
                      Owned, JobsSend, StoredTokenUsable, At
  <1>. QED
    BY <1>0, <1>1, <1>2, Kinds, ServeInv, BrowserInv DEF Inv, TimeInv

LEMMA Invariance == Spec => []Inv
  BY InvInit, InvStep, PTL DEF Spec

(***************************************************************************)
(* The token in localStorage can be used, or a request that a page waits   *)
(* for, or has stopped waiting for, has revoked it.                        *)
(***************************************************************************)
THEOREM StoredTokens == Spec => []StoredTokenUsable
  <1>1. Inv => StoredTokenUsable
    BY DEF Inv
  <1>. QED
    BY <1>1, Invariance, PTL

LEMMA DeadStep ==
    ASSUME Inv, [Next]_vars, NEW t \in Tokens, Dead(t)
    PROVE  Dead(t)'
  <1>0. /\ now \in Nat /\ RefreshTTL \in Nat \ {0}
        /\ expiry \in [Tokens -> Nat] /\ revoked \in [Tokens -> Nat]
        /\ \A c \in Calls : call[c].token \in Tokens \cup {NoToken}
    BY AuthConfig DEF Inv, TimeInv, TypeOK, AuthTypeOK, CallStates
  <1>. DEFINE Gone == (expiry[t] <= now \/ (RedisSteady /\ revoked[t] > now))
              Passed(c) == call[c].pc \in {"account", "rotate"} /\ call[c].token = t
  <1>1. expiry[t] # 0 /\ Gone /\ \A c \in Calls : ~Passed(c)
    BY DEF Dead, Rejected, Expired, IsRevoked
  <1>2. SUFFICES expiry'[t] # 0 /\ Gone' /\ \A c \in Calls : ~Passed(c)'
    BY DEF Dead, Rejected, Expired, IsRevoked
  <1>3. ASSUME NEW c \in Calls, Serve(c)
        PROVE  expiry'[t] # 0 /\ Gone' /\ \A d \in Calls : ~Passed(d)'
    <2>0. (\A d \in Calls \ {c} : call'[d] = call[d])
          /\ (MovesOn(c) \/ RevokesToken(c) \/ IssuesToken(c))
      BY <1>3, ServeKinds DEF Inv, TimeInv
    <2>1. CASE MovesOn(c)
      BY <1>1, <2>0, <2>1 DEF MovesOn, Rejected, Expired, IsRevoked
    <2>2. CASE RevokesToken(c)
      <3>1. revoked'[t] = revoked[t] \/ revoked'[t] = now + RefreshTTL
        BY <1>0, <2>2 DEF RevokesToken
      <3>. QED
        BY <1>0, <1>1, <2>0, <2>2, <3>1 DEF RevokesToken, Held
    <2>3. CASE IssuesToken(c)
      BY <1>0, <1>1, <2>0, <2>3 DEF IssuesToken
    <2>. QED
      BY <2>0, <2>1, <2>2, <2>3
  <1>4. ASSUME NEW c \in Calls, BrowserStep(c)
        PROVE  expiry'[t] # 0 /\ Gone' /\ \A d \in Calls : ~Passed(d)'
    BY <1>1, <1>4 DEF BrowserStep, Held
  <1>5. CASE Tick
    <2>1. revoked[t] # 0 => expiry[t] <= revoked[t]
      BY DEF Inv, TimeInv, Outlives
    <2>. QED
      BY <1>0, <1>1, <1>5, <2>1 DEF Tick
  <1>6. CASE UNCHANGED vars
    BY <1>1, <1>6 DEF vars, authVars
  <1>. QED
    BY <1>3, <1>4, <1>5, <1>6, Kinds DEF Inv, TimeInv

(***************************************************************************)
(* No refresh token that was revoked or has expired is accepted again, for *)
(* any lifetime of tokens and any number of requests.                      *)
(***************************************************************************)
THEOREM DeadTokensStayDead == Spec => DeadStaysDead
  <1>1. Inv /\ [Next]_vars => [\A t \in Tokens : Dead(t) => Dead(t)']_authVars
    BY DeadStep
  <1>. QED
    BY <1>1, Invariance, PTL DEF Spec, DeadStaysDead
=============================================================================
