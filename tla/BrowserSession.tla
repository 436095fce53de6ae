---------------------------- MODULE BrowserSession ----------------------------
(***************************************************************************)
(* The portal's session in one browser (frontend/src/auth, services/api.ts *)
(* and store/authSlice.ts) against AuthService.  Its tabs share the        *)
(* refresh token in localStorage; each keeps an access token in memory.    *)
(*                                                                         *)
(* Requests to the API that are answered with data, or refused without an  *)
(* attempt to refresh (all those sent without an access token, which get   *)
(* a 403), change nothing and are left out: a request here carries an      *)
(* access token that expires on the way, and its replay changes nothing.   *)
(* When a page is left, the calls it waits for go on at the server and     *)
(* nobody takes their answer.                                              *)
(***************************************************************************)
EXTENDS AuthService

CONSTANTS Pages, NoPage

ASSUME BrowserConfig == NoPage \notin Pages

VARIABLES
    stored,   \* localStorage's zp_refresh
    page,     \* of each tab: whether it has an access token, and what it shows
    client,   \* of each request: the page that waits for it, what for, and the
              \* refresh token it has sent
    abandoned \* observer: refresh tokens whose answer nobody took

browserVars == <<stored, page, client>>
vars == <<authVars, browserVars, abandoned>>

NoClient == [page |-> NoPage, job |-> "none", sent |-> NoToken]

Waiting(c, job) == client[c].job = job /\ client[c].page # NoPage
Free(c) == client[c] = NoClient /\ At(c, "idle")
Begin(c, p, job, t) == client' = [client EXCEPT ![c] = [page |-> p, job |-> job, sent |-> t]]

Init ==
    /\ AuthInit
    /\ stored = NoToken
    /\ page = [p \in Pages |-> [access |-> FALSE, route |-> "login"]]
    /\ client = [c \in Calls |-> NoClient]
    /\ abandoned = {}

\* Mutant of Leave: a request loses its page but not its purpose.
LeaveNamed(p) == [c \in Calls |-> IF client[c].page = p THEN [client[c] EXCEPT !.page = NoPage]
                                  ELSE client[c]]

\* Leaving page p: its requests have no one to answer to.
Leave(p) == [c \in Calls |-> IF client[c].page = p THEN NoClient ELSE client[c]]

\* The refresh tokens sent by the requests of C that lose their page in this step.
Dropped(C) == {client[c].sent : c \in {d \in C : client'[d] # client[d]}} \ {NoToken}
-----------------------------------------------------------------------------
\* request() goes out with an expired access token.
Request(c, p) ==
    /\ Free(c)
    /\ page[p] = [access |-> TRUE, route |-> "app"]
    /\ Begin(c, p, "asked", NoToken)
    /\ UNCHANGED <<authVars, stored, page, abandoned>>

\* The 401 of a request: without a refresh token it is an error, with one
\* refreshAccessToken sends what is stored by now.
Unauthorized(c) ==
    /\ Waiting(c, "asked")
    /\ IF stored = NoToken
       THEN client' = [client EXCEPT ![c] = NoClient] /\ UNCHANGED call
       ELSE Begin(c, client[c].page, "refresh", stored) /\ Receive(c, "check", stored)
    /\ UNCHANGED <<now, user, expiry, revoked, stored, page, abandoned>>

\* A tab is opened or reloaded.  With a refresh token stored it shows the
\* dashboard and hydrateTokensFromStorage refreshes.
Load(c, p) ==
    /\ Free(c)
    /\ page' = [page EXCEPT ![p] = [access |-> FALSE,
                                    route |-> IF stored = NoToken THEN "login" ELSE "app"]]
    /\ IF stored = NoToken
       THEN client' = Leave(p) /\ UNCHANGED call
       ELSE /\ client' = [Leave(p) EXCEPT ![c] = [page |-> p, job |-> "refresh", sent |-> stored]]
            /\ Receive(c, "check", stored)
    /\ abandoned' = abandoned \cup Dropped(Calls)
    /\ UNCHANGED <<now, user, expiry, revoked, stored>>

SubmitLogin(c, p) ==
    /\ Free(c)
    /\ page[p].route = "login"
    /\ \A d \in Calls : client[d].page = p => client[d].job # "login"
    /\ Begin(c, p, "login", NoToken)
    /\ Receive(c, "login", NoToken)
    /\ UNCHANGED <<now, user, expiry, revoked, stored, page, abandoned>>

Logout(c, p) ==
    /\ Free(c)
    /\ page[p].route = "app"
    /\ Begin(c, p, "logout", stored)
    /\ IF stored = NoToken THEN Answer(c, NoToken) ELSE Receive(c, "signout", stored)
    /\ UNCHANGED <<now, user, expiry, revoked, stored, page, abandoned>>
-----------------------------------------------------------------------------
\* Mutant of TakeTokens: the rotated refresh token of an answer is not stored.
TakeAccessToken(c) ==
    LET p == client[c].page IN
    /\ client[c].job # "logout"
    /\ stored' = IF client[c].job = "login" THEN call[c].token ELSE stored
    /\ page' = [page EXCEPT ![p] = [access |-> TRUE, route |-> "app"]]
    /\ client' = [client EXCEPT ![c] = NoClient]

\* What a page makes of an answer.
TakeTokens(c) ==
    LET p == client[c].page IN
    /\ client[c].job # "logout"
    /\ stored' = call[c].token
    /\ page' = [page EXCEPT ![p] =
           [access |-> TRUE, route |-> IF client[c].job = "login" THEN "app" ELSE page[p].route]]
    /\ client' = [client EXCEPT ![c] = NoClient]

\* A refused login changes nothing.  A refused refresh clears the tokens and
\* goes to the login page: within the page where the dashboard listens to
\* auth:logout, else, unless it is there already, by loading it.
LoginRefused(c) ==
    /\ client[c].job = "login"
    /\ client' = [client EXCEPT ![c] = NoClient]
    /\ UNCHANGED <<stored, page>>

RefreshRefused(c) ==
    LET p == client[c].page IN
    /\ client[c].job = "refresh"
    /\ stored' = NoToken
    /\ page' = [page EXCEPT ![p] = [access |-> FALSE, route |-> "login"]]
    /\ \/ client' = [client EXCEPT ![c] = NoClient]
       \/ page[p].route = "app" /\ client' = Leave(p)

\* The end of a logout, whatever became of the request.
LoggedOut(c) ==
    /\ client[c].job = "logout"
    /\ stored' = NoToken
    /\ page' = [page EXCEPT ![client[c].page] = [access |-> FALSE, route |-> "login"]]
    /\ client' = [client EXCEPT ![c] = NoClient]

Deliver(c) ==
    /\ client[c].page # NoPage
    /\ \/ At(c, "ok") /\ (LoggedOut(c) \/ TakeTokens(c))
       \/ At(c, "refused") /\ (LoggedOut(c) \/ LoginRefused(c) \/ RefreshRefused(c))
    /\ call' = [call EXCEPT ![c] = Done]
    /\ abandoned' = abandoned \cup Dropped(Calls \ {c})
    /\ UNCHANGED <<now, user, expiry, revoked>>

\* The network fails: the page takes it for a refusal, the server may go on.
Disconnect(c) ==
    /\ client[c].page # NoPage
    /\ ~At(c, "idle")
    /\ LoggedOut(c) \/ LoginRefused(c) \/ RefreshRefused(c)
    /\ abandoned' = abandoned \cup Dropped(Calls)
    /\ UNCHANGED authVars

\* The server's answer to a page that is gone.
Discard(c) ==
    /\ client[c] = NoClient
    /\ call[c].pc \in {"ok", "refused"}
    /\ call' = [call EXCEPT ![c] = Done]
    /\ UNCHANGED <<now, user, expiry, revoked, browserVars, abandoned>>

CallStep(c) ==
    \/ Serve(c) /\ UNCHANGED <<browserVars, abandoned>>
    \/ Unauthorized(c) \/ Deliver(c) \/ Discard(c)

Next ==
    \/ \E c \in Calls : CallStep(c) \/ Disconnect(c)
    \/ \E c \in Calls, p \in Pages :
          Request(c, p) \/ Load(c, p) \/ SubmitLogin(c, p) \/ Logout(c, p)
    \/ Tick /\ UNCHANGED <<browserVars, abandoned>>

Spec == Init /\ [][Next]_vars
-----------------------------------------------------------------------------
TypeOK ==
    /\ AuthTypeOK
    /\ stored \in Tokens \cup {NoToken}
    /\ page \in [Pages -> [access : BOOLEAN, route : {"app", "login"}]]
    /\ client \in [Calls -> [page : Pages \cup {NoPage},
                             job : {"none", "asked", "refresh", "login", "logout"},
                             sent : Tokens \cup {NoToken}]]
    /\ \A c \in Calls : client[c].page = NoPage <=> client[c].job = "none"
    /\ abandoned \subseteq Tokens

(***************************************************************************)
(* The token in localStorage can be used: if it has been revoked, a        *)
(* refresh or logout that a page waits for has done it and will replace or *)
(* clear it, or the page that sent it is gone.                             *)
(***************************************************************************)
StoredTokenUsable ==
    \/ stored = NoToken \/ revoked[stored] = 0
    \/ stored \in abandoned
    \/ \E c \in Calls : client[c].sent = stored
=============================================================================
