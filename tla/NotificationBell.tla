--------------------------- MODULE NotificationBell ---------------------------
(***************************************************************************)
(* The bell of the portal: the notifications in the store                  *)
(* (store/notificationsSlice.ts) and the menu that shows them              *)
(* (components/NotificationBell.tsx).                                      *)
(*                                                                         *)
(* An item is marked read twice: at once in the store, and on the server   *)
(* by a request that is followed by a new list.  A list is what the server *)
(* held when it served the request, which may be long before its answer    *)
(* arrives, and the switch of the merchant clears nothing.                 *)
(*                                                                         *)
(* The server of the marks is not part of the portal, and any will do: one *)
(* that keeps them, one that accepts them and keeps none (mockApi), and    *)
(* one whose worker writes an older row over a mark (notification_worker). *)
(***************************************************************************)
EXTENDS Naturals, FiniteSets, Sequences, SequencesExt

CONSTANTS
    Merchants, None,
    Items,     \* the notifications a merchant may have
    MaxAsked,  \* bound on the requests on their way at a click
    MaxClicks, \* bound on what the user does
    MaxLost    \* bound on the marks that the server loses

ASSUME BellConfig ==
    /\ None \notin Merchants
    /\ MaxAsked \in Nat /\ MaxClicks \in Nat /\ MaxLost \in Nat

VARIABLES
    merchant, \* dashboard.selectedMerchant
    menu,     \* whether the bell is mounted, notifications.open
    inbox,    \* notifications.items: whose, the read ones; loading, error
    server,   \* the notifications of each merchant that are read on the server
    unkept,   \* history: the marks that the server accepted and did not keep
    lost,     \* history: the marks that the server kept and lost later
    asked,    \* the requests on their way, as they were asked
    overtaken, \* history: a request was answered before an older one
    failures, \* history: the marks that failed or whose answer did, None for a list
    clicks

rows == <<server, unkept, lost>>
vars == <<merchant, menu, inbox, rows, asked, overtaken, failures, clicks>>

\* A list request carries what the server answers once it has served it.
Request(op, m, i, r) == [op |-> op, merchant |-> m, item |-> i, read |-> r]
ListRequest(m) == Request("list", m, None, {})
MarkRequest(m, i) == Request("mark", m, i, {})

Ask(q) == asked' = Append(asked, q) /\ UNCHANGED overtaken

\* The i-th request is answered, or fails; `more' is asked because of it.
Exchange(i, more) ==
    /\ asked' = RemoveAt(asked, i) \o more
    /\ overtaken' = (overtaken \/ i # 1)

Click == clicks < MaxClicks /\ Len(asked) < MaxAsked /\ clicks' = clicks + 1

\* fetchNotifications.pending
Pending(b) == [b EXCEPT !.loading = TRUE, !.failed = FALSE]

Init ==
    /\ merchant \in Merchants
    /\ menu = [mounted |-> FALSE, open |-> FALSE]
    /\ inbox = [of |-> None, read |-> {}, loading |-> FALSE, failed |-> FALSE]
    /\ server \in [Merchants -> SUBSET Items] /\ unkept = {} /\ lost = {}
    /\ asked = <<>> /\ overtaken = FALSE /\ failures = {} /\ clicks = 0
-----------------------------------------------------------------------------
\* The sidebar is mounted, with the bell and its effect, or gone.
Mount ==
    /\ Click /\ ~menu.mounted /\ menu' = [menu EXCEPT !.mounted = TRUE]
    /\ inbox' = Pending(inbox)
    /\ Ask(ListRequest(merchant))
    /\ UNCHANGED <<merchant, rows, failures>>

Unmount ==
    /\ Click /\ menu.mounted /\ menu' = [menu EXCEPT !.mounted = FALSE]
    /\ UNCHANGED <<merchant, inbox, rows, asked, overtaken, failures>>

\* setOpen
Toggle ==
    /\ Click /\ menu.mounted /\ menu' = [menu EXCEPT !.open = ~@]
    /\ UNCHANGED <<merchant, inbox, rows, asked, overtaken, failures>>

\* The effect runs again; the items of the old merchant stay for now.
SwitchMerchant(m) ==
    /\ Click /\ menu.mounted /\ m # merchant /\ merchant' = m
    /\ inbox' = Pending(inbox)
    /\ Ask(ListRequest(m))
    /\ UNCHANGED <<menu, rows, failures>>

\* Mutant of MarkReadLocal: every item is marked.
MarkAllLocal(i) == [inbox EXCEPT !.read = Items]

\* Mutant of MarkReadLocal: the item is taken out of the list it is counted in.
MarkReadAway(i) == [inbox EXCEPT !.read = @ \cup {<<i>>}]

MarkReadLocal(i) == [inbox EXCEPT !.read = @ \cup {i}]

\* An unread item is clicked, which closes the menu: it is marked under the
\* merchant of the moment, whose it need not be.
ClickItem(i) ==
    /\ Click /\ menu.mounted /\ menu.open
    /\ inbox.of # None /\ i \in Items \ inbox.read
    /\ menu' = [menu EXCEPT !.open = FALSE]
    /\ inbox' = MarkReadLocal(i)
    /\ Ask(MarkRequest(merchant, <<inbox.of, i>>))
    /\ UNCHANGED <<merchant, rows, failures>>
-----------------------------------------------------------------------------
\* The server reads its rows for a list.
Serve(i) ==
    /\ asked[i].op = "list"
    /\ asked' = [asked EXCEPT ![i].op = "served", ![i].read = server[asked[i].merchant]]
    /\ UNCHANGED <<merchant, menu, inbox, rows, overtaken, failures, clicks>>

\* The server accepts a mark, under whichever merchant, and keeps it or does not.
ServeMark(i) ==
    /\ asked[i].op = "mark"
    /\ asked' = [asked EXCEPT ![i].op = "marked"]
    /\ \/ server' = [server EXCEPT ![asked[i].item[1]] = @ \cup {asked[i].item[2]}] /\ UNCHANGED unkept
       \/ unkept' = unkept \cup {asked[i].item} /\ UNCHANGED server
    /\ UNCHANGED <<merchant, menu, inbox, lost, overtaken, failures, clicks>>

\* A mark is overwritten on the server.
Lose(m, i) ==
    /\ i \in server[m] /\ Cardinality(lost) < MaxLost
    /\ server' = [server EXCEPT ![m] = @ \ {i}] /\ lost' = lost \cup {<<m, i>>}
    /\ UNCHANGED <<merchant, menu, inbox, unkept, asked, overtaken, failures, clicks>>

\* fetchNotifications.fulfilled
AnswerList(i) ==
    /\ asked[i].op = "served"
    /\ inbox' = [inbox EXCEPT !.of = asked[i].merchant, !.read = asked[i].read, !.loading = FALSE]
    /\ Exchange(i, <<>>)
    /\ UNCHANGED <<merchant, menu, rows, failures, clicks>>

\* Mutant of Stopped: only an answer stops the spinner.
StoppedNot(b) == [b EXCEPT !.failed = TRUE]

\* fetchNotifications.rejected; the items stay.
Stopped(b) == [b EXCEPT !.loading = FALSE, !.failed = TRUE]

FailList(i) ==
    /\ asked[i].op \in {"list", "served"}
    /\ inbox' = Stopped(inbox)
    /\ failures' = failures \cup {asked[i].item}
    /\ Exchange(i, <<>>)
    /\ UNCHANGED <<merchant, menu, rows, clicks>>

\* Mutant of Refetch: what the store shows is good enough.
RefetchNot(i) == Exchange(i, <<>>) /\ UNCHANGED inbox

\* What markNotificationRead does next: the list of the merchant it was called with.
Refetch(i) == Exchange(i, <<ListRequest(asked[i].merchant)>>) /\ inbox' = Pending(inbox)

\* The answer to a mark arrives.
AnswerMark(i) ==
    /\ asked[i].op = "marked"
    /\ Refetch(i)
    /\ UNCHANGED <<merchant, menu, rows, failures, clicks>>

\* It is refused, or its answer is lost; nobody is told and no list is fetched.
FailMark(i) ==
    /\ asked[i].op \in {"mark", "marked"}
    /\ failures' = failures \cup {asked[i].item}
    /\ Exchange(i, <<>>)
    /\ UNCHANGED <<merchant, menu, inbox, rows, clicks>>

User ==
    \/ Mount \/ Unmount \/ Toggle
    \/ \E m \in Merchants : SwitchMerchant(m)
    \/ \E i \in Items : ClickItem(i)

Answer(i) ==
    Serve(i) \/ ServeMark(i) \/ AnswerList(i) \/ FailList(i) \/ AnswerMark(i) \/ FailMark(i)

Next ==
    \/ User
    \/ \E i \in DOMAIN asked : Answer(i)
    \/ \E m \in Merchants, i \in Items : Lose(m, i)

\* Requests are answered or fail; the user need do nothing.
Fairness == WF_vars(asked # <<>> /\ Answer(1))

Spec == Init /\ [][Next]_vars /\ Fairness
-----------------------------------------------------------------------------
Menus == [mounted : BOOLEAN, open : BOOLEAN]
Inboxes == [of : Merchants \cup {None}, read : SUBSET Items, loading : BOOLEAN, failed : BOOLEAN]
Requests ==
    [op : {"list", "served"}, merchant : Merchants, item : {None}, read : SUBSET Items]
    \cup [op : {"mark", "marked"}, merchant : Merchants, item : Merchants \X Items, read : {{}}]

TypeOK ==
    /\ merchant \in Merchants /\ menu \in Menus /\ inbox \in Inboxes
    /\ server \in [Merchants -> SUBSET Items]
    /\ unkept \subseteq Merchants \X Items /\ lost \subseteq Merchants \X Items
    /\ asked \in Seq(Requests)
    /\ overtaken \in BOOLEAN /\ failures \subseteq (Merchants \X Items) \cup {None}
    /\ clicks \in 0..MaxClicks

(***************************************************************************)
(* What the bell shows as read is read on the server, or its mark is on    *)
(* its way or has failed, or the server has lost it since.  A mark that    *)
(* the server does not keep shows only until a list arrives, and one that  *)
(* corrects it is on its way unless one has failed: no switch of the       *)
(* merchant, no late list and no other click makes a notification look     *)
(* read for nothing, whatever the server does with the marks.              *)
(***************************************************************************)
MarkAsked(p) == \E k \in DOMAIN asked : asked[k].op \in {"mark", "marked"} /\ asked[k].item = p
ListAsked == \E k \in DOMAIN asked : asked[k].op \in {"list", "served"}

ReadIsKept ==
    \A i \in inbox.read :
        \/ i \in server[inbox.of] \/ <<inbox.of, i>> \in failures \cup lost
        \/ MarkAsked(<<inbox.of, i>>)
        \/ <<inbox.of, i>> \in unkept /\ (ListAsked \/ None \in failures)

(***************************************************************************)
(* The spinner turns as long as a list is asked, and stops: a switch, a    *)
(* mark that comes between and a failure do not keep it turning.           *)
(***************************************************************************)
BellStops == inbox.loading ~> ~inbox.loading

(***************************************************************************)
(* When nothing is on its way, nothing has failed, nothing was overtaken   *)
(* and the server has lost no mark on its own, the bell agrees with it     *)
(* about every notification it shows: the mark, whether kept or not, and   *)
(* the list that follows it never leave a stale one.                       *)
(* (Whose notifications they are is another matter: the list that follows  *)
(* a mark is the old merchant's, and replaces the new one's.)              *)
(***************************************************************************)
QuietBellAgrees ==
    asked = <<>> /\ ~overtaken /\ failures = {} /\ lost = {} /\ inbox.of # None
        => inbox.read = server[inbox.of]
=============================================================================
