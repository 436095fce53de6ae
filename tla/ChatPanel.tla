----------------------------- MODULE ChatPanel -----------------------------
(***************************************************************************)
(* The chat panel of the portal (components/ChatPanel.tsx) and the stream  *)
(* it reads its answers from (api/http.ts).                                *)
(*                                                                         *)
(* The panel is mounted for as long as the shell is: it keeps its sessions *)
(* and messages when it is closed and when the merchant changes, and never *)
(* cancels a request.  Its requests are kept in the order they were asked  *)
(* in and answered in any; its effects run with the change that triggers   *)
(* them.                                                                   *)
(***************************************************************************)
EXTENDS Naturals, Sequences, SequencesExt

CONSTANTS
    Merchants, Sessions, None,
    MaxTurns,  \* bound on the questions sent
    MaxWait,   \* bound on the seconds an error asks to wait
    MaxPages,  \* bound on the pages of a history
    MaxAsked,  \* bound on the requests on their way at a click
    MaxClicks  \* bound on what the user does besides sending

ASSUME PanelConfig ==
    /\ None \notin Merchants \cup Sessions
    /\ {MaxTurns, MaxWait, MaxPages, MaxAsked, MaxClicks} \subseteq Nat
    /\ MaxPages # 0

VARIABLES
    merchant,  \* the prop merchantRef
    owner,     \* the server's sessions: whose they are
    open,      \* the prop open
    listed,    \* sessions
    session,   \* sessionId
    shown,     \* messages: of which sessions, the answers that are empty; historyPage, hasOlderMessages
    busy,      \* loading, creating
    stream,    \* streaming: the question whose answer is read, or 0
    error,     \* the seconds to wait before a retry, or None
    turns,     \* the questions sent
    blank,     \* history: those whose stream ended well, and without a word
    asked,
    overtaken, \* history: an answer with messages came before an older request's
    clicks

vars == <<merchant, owner, open, listed, session, shown, busy, stream, error, turns,
          blank, asked, overtaken, clicks>>

Turns == 1..MaxTurns
Waits == 0..MaxWait

Request(op, m, s, p) == [op |-> op, merchant |-> m, session |-> s, page |-> p]

\* The effect that loads the messages of session s, if there is one.
Messages(m, s) == IF s = None THEN <<>> ELSE <<Request("messages", m, s, 1)>>

\* The effect that loads the sessions, if the panel is open.
SessionsOf(m, o) == IF o THEN <<Request("sessions", m, None, 0)>> ELSE <<>>

Ask(more) == asked' = asked \o more

Click == clicks < MaxClicks /\ Len(asked) < MaxAsked /\ clicks' = clicks + 1

ServerSessions(m) == {s \in Sessions : owner[s] = m}

Init ==
    /\ merchant \in Merchants
    /\ owner \in [Sessions -> Merchants \cup {None}]
    /\ open = FALSE /\ listed = {} /\ session = None
    /\ shown = [of |-> {}, unanswered |-> {}, page |-> 1, more |-> FALSE]
    /\ busy = [loading |-> FALSE, creating |-> FALSE]
    /\ stream = 0 /\ error = None /\ turns = 0 /\ blank = {}
    /\ asked = <<>> /\ overtaken = FALSE /\ clicks = 0
-----------------------------------------------------------------------------
Open ==
    /\ Click /\ ~open /\ open' = TRUE
    /\ busy' = [busy EXCEPT !.loading = TRUE]
    /\ Ask(SessionsOf(merchant, TRUE))
    /\ UNCHANGED <<merchant, owner, listed, session, shown, stream, error, turns, blank, overtaken>>

\* The stream goes on behind a closed panel.
Close ==
    /\ Click /\ open /\ open' = FALSE
    /\ UNCHANGED <<merchant, owner, listed, session, shown, busy, stream, error, turns, blank, asked, overtaken>>

\* The shell hands down another merchant: both effects run again, nothing is reset.
SwitchMerchant(m) ==
    /\ Click /\ m # merchant /\ merchant' = m
    /\ busy' = [busy EXCEPT !.loading = @ \/ open]
    /\ Ask(SessionsOf(m, open) \o Messages(m, session))
    /\ UNCHANGED <<owner, open, listed, session, shown, stream, error, turns, blank, overtaken>>

Select(s) ==
    /\ Click /\ open /\ ~busy.loading
    /\ s \in listed /\ s # session /\ session' = s
    /\ Ask(Messages(merchant, s))
    /\ UNCHANGED <<merchant, owner, open, listed, shown, busy, stream, error, turns, blank, overtaken>>

\* createSession
Create ==
    /\ Click /\ open /\ ~busy.creating
    /\ busy' = [busy EXCEPT !.creating = TRUE]
    /\ Ask(<<Request("create", merchant, None, 0)>>)
    /\ UNCHANGED <<merchant, owner, open, listed, session, shown, stream, error, turns, blank, overtaken>>

\* loadOlderMessages
LoadOlder ==
    /\ Click /\ open /\ shown.more /\ session # None /\ shown.page < MaxPages
    /\ Ask(<<Request("older", merchant, session, shown.page + 1)>>)
    /\ UNCHANGED <<merchant, owner, open, listed, session, shown, busy, stream, error, turns, blank, overtaken>>

\* What the composer and send itself require.
MaySend == open /\ session # None /\ stream = 0

\* send: the question and an empty answer are shown, under a key of their own.
Question(n) ==
    /\ turns' = n /\ stream' = n /\ error' = None
    /\ shown' = [shown EXCEPT !.of = @ \cup {session}, !.unanswered = @ \cup {n}]
    /\ UNCHANGED <<merchant, owner, open, listed, session, busy, blank, asked, overtaken, clicks>>

Send == MaySend /\ turns < MaxTurns /\ Question(turns + 1)

\* The button of an error sends its question again, as a new one.
Retry == error # None /\ error <= 1 /\ Send

\* Mutant of CountDown: only the loss of the error stops it.
CountDownOn ==
    /\ error # None
    /\ error' = error - 1
    /\ UNCHANGED <<merchant, owner, open, listed, session, shown, busy, stream, turns, blank,
                   asked, overtaken, clicks>>

\* The countdown of an error, whether the panel is open or not.
CountDown ==
    /\ error # None /\ error > 0
    /\ error' = error - 1
    /\ UNCHANGED <<merchant, owner, open, listed, session, shown, busy, stream, turns, blank,
                   asked, overtaken, clicks>>
-----------------------------------------------------------------------------
\* The stream of streamCall ends, with its last chunk or as one JSON body; the
\* answer is filled in wherever its message still is.  A stream without data and
\* a body without content or answer are an end like any other: it stays empty.
StreamEnds ==
    /\ stream # 0 /\ stream' = 0
    /\ \/ shown' = [shown EXCEPT !.unanswered = @ \ {stream}] /\ UNCHANGED blank
       \/ blank' = blank \cup {stream} /\ UNCHANGED shown
    /\ UNCHANGED <<merchant, owner, open, listed, session, busy, error, turns, asked, overtaken, clicks>>

\* Mutant of WithoutAnswer: the empty answer stays.
WithAnswer(s) == s

\* The catch of send.
WithoutAnswer(s) == [s EXCEPT !.unanswered = @ \ {stream}]

\* It fails, at once, in the middle, or with an event that says how long to wait.
StreamFails ==
    /\ stream # 0 /\ stream' = 0
    /\ shown' = WithoutAnswer(shown)
    /\ error' \in Waits
    /\ UNCHANGED <<merchant, owner, open, listed, session, busy, turns, blank, asked, overtaken, clicks>>

\* The stop button: an AbortError is no error.
Abort ==
    /\ open /\ stream # 0 /\ stream' = 0
    /\ shown' = WithoutAnswer(shown)
    /\ UNCHANGED <<merchant, owner, open, listed, session, busy, error, turns, blank, asked, overtaken, clicks>>

HasMessages(q) == q.op \in {"messages", "older"}

Overtakes(i) == HasMessages(asked[i]) /\ \E j \in 1..(i - 1) : HasMessages(asked[j])

\* The i-th request is answered, or fails; `more' is asked because of it.
Exchange(i, more) ==
    /\ asked' = RemoveAt(asked, i) \o more
    /\ overtaken' = (overtaken \/ Overtakes(i))

\* loadSessions keeps the session it has, or takes the first.
Chosen(m) ==
    IF session # None THEN {session}
    ELSE IF ServerSessions(m) = {} THEN {None} ELSE ServerSessions(m)

AnswerSessions(i) ==
    /\ asked[i].op = "sessions"
    /\ busy' = [busy EXCEPT !.loading = FALSE]
    /\ listed' = ServerSessions(asked[i].merchant)
    /\ session' \in Chosen(asked[i].merchant)
    /\ Exchange(i, IF session' = session THEN <<>> ELSE Messages(merchant, session'))
    /\ UNCHANGED <<merchant, owner, open, shown, stream, error, turns, blank, clicks>>

FailSessions(i) ==
    /\ asked[i].op = "sessions"
    /\ busy' = [busy EXCEPT !.loading = FALSE]
    /\ Exchange(i, <<>>)
    /\ UNCHANGED <<merchant, owner, open, listed, session, shown, stream, error, turns, blank, clicks>>

AnswerCreate(i) ==
    /\ asked[i].op = "create"
    /\ \E s \in Sessions :
           /\ owner[s] = None
           /\ owner' = [owner EXCEPT ![s] = asked[i].merchant]
           /\ listed' = listed \cup {s} /\ session' = s
           /\ Exchange(i, Messages(merchant, s))
    /\ shown' = [shown EXCEPT !.of = {}, !.unanswered = {}]
    /\ busy' = [busy EXCEPT !.creating = FALSE]
    /\ UNCHANGED <<merchant, open, stream, error, turns, blank, clicks>>

\* Mutant of FailCreate: the flag is only reset after a success.
FailCreateStuck(i) ==
    /\ asked[i].op = "create"
    /\ Exchange(i, <<>>)
    /\ UNCHANGED <<merchant, owner, open, listed, session, shown, busy, stream, error, turns, blank, clicks>>

FailCreate(i) ==
    /\ asked[i].op = "create"
    /\ busy' = [busy EXCEPT !.creating = FALSE]
    /\ Exchange(i, <<>>)
    /\ UNCHANGED <<merchant, owner, open, listed, session, shown, stream, error, turns, blank, clicks>>

\* The server finds a session only under its own merchant.
Found(q) == owner[q.session] = q.merchant

\* Whatever is shown by now is replaced, a question being answered included.
AnswerMessages(i) ==
    /\ asked[i].op = "messages" /\ Found(asked[i])
    /\ \E more \in BOOLEAN :
           shown' = [of |-> {asked[i].session}, unanswered |-> {}, page |-> 1, more |-> more]
    /\ Exchange(i, <<>>)
    /\ UNCHANGED <<merchant, owner, open, listed, session, busy, stream, error, turns, blank, clicks>>

\* Mutant of Emptied: the messages of before stay.
EmptiedNot(s) == s

\* The catch of the effect; page and button stay.
Emptied(s) == [s EXCEPT !.of = {}, !.unanswered = {}]

FailMessages(i) ==
    /\ asked[i].op = "messages"
    /\ shown' = Emptied(shown)
    /\ Exchange(i, <<>>)
    /\ UNCHANGED <<merchant, owner, open, listed, session, busy, stream, error, turns, blank, clicks>>

AnswerOlder(i) ==
    /\ asked[i].op = "older" /\ Found(asked[i])
    /\ \E more \in BOOLEAN :
           shown' = [shown EXCEPT !.of = @ \cup {asked[i].session},
                                  !.page = asked[i].page, !.more = more]
    /\ Exchange(i, <<>>)
    /\ UNCHANGED <<merchant, owner, open, listed, session, busy, stream, error, turns, blank, clicks>>

FailOlder(i) ==
    /\ asked[i].op = "older"
    /\ Exchange(i, <<>>)
    /\ UNCHANGED <<merchant, owner, open, listed, session, shown, busy, stream, error, turns, blank, clicks>>

User ==
    \/ Open \/ Close \/ Create \/ LoadOlder \/ Send \/ Retry \/ Abort
    \/ \E m \in Merchants : SwitchMerchant(m)
    \/ \E s \in Sessions : Select(s)

Answer(i) ==
    \/ AnswerSessions(i) \/ FailSessions(i) \/ AnswerCreate(i) \/ FailCreate(i)
    \/ AnswerMessages(i) \/ FailMessages(i) \/ AnswerOlder(i) \/ FailOlder(i)

Next ==
    \/ User \/ CountDown \/ StreamEnds \/ StreamFails
    \/ \E i \in DOMAIN asked : Answer(i)

\* A request is answered or fails, a stream ends, a second passes; the user need do nothing.
Fairness ==
    /\ WF_vars(asked # <<>> /\ Answer(1))
    /\ WF_vars(StreamEnds \/ StreamFails)
    /\ WF_vars(CountDown)

Spec == Init /\ [][Next]_vars /\ Fairness
-----------------------------------------------------------------------------
Messagings == [of : SUBSET Sessions, unanswered : SUBSET Turns, page : 1..MaxPages, more : BOOLEAN]
Busies == [loading : BOOLEAN, creating : BOOLEAN]
Requests ==
    [op : {"sessions", "create"}, merchant : Merchants, session : {None}, page : {0}]
    \cup [op : {"messages", "older"}, merchant : Merchants, session : Sessions, page : 1..MaxPages]

TypeOK ==
    /\ merchant \in Merchants
    /\ owner \in [Sessions -> Merchants \cup {None}]
    /\ open \in BOOLEAN
    /\ listed \subseteq Sessions /\ session \in Sessions \cup {None}
    /\ shown \in Messagings /\ busy \in Busies
    /\ stream \in Turns \cup {0} /\ turns \in Turns \cup {0}
    /\ error \in Waits \cup {None} /\ blank \subseteq Turns
    /\ asked \in Seq(Requests)
    /\ overtaken \in BOOLEAN /\ clicks \in 0..MaxClicks

(***************************************************************************)
(* An answer that is empty is the one being streamed, or its stream ended  *)
(* well with nothing to say: no failure, no abort, no history that arrives *)
(* in between, no panel closed or switched meanwhile leaves an empty       *)
(* bubble, and two answers are never streamed at once.                     *)
(***************************************************************************)
EmptyAnswerExplained == shown.unanswered \subseteq {stream} \cup blank

(***************************************************************************)
(* When nothing is on its way, the messages shown are the selected         *)
(* session's, provided that no answer with messages overtook another: the  *)
(* only protection the panel has, since it cancels nothing.                *)
(***************************************************************************)
ShownIsSelected ==
    (\A i \in DOMAIN asked : ~HasMessages(asked[i])) /\ ~overtaken => shown.of \subseteq {session}

(***************************************************************************)
(* What the panel shows as under way ends, and an error can be retried     *)
(* after a while, closed or not, whatever else is asked in between.        *)
(***************************************************************************)
PanelSettles ==
    /\ stream # 0 ~> stream = 0
    /\ busy.loading ~> ~busy.loading
    /\ busy.creating ~> ~busy.creating
    /\ error # None ~> (error = None \/ error <= 1)
=============================================================================
