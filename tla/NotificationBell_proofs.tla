----------------------- MODULE NotificationBell_proofs -----------------------
(***************************************************************************)
(* What the bell keeps, for any merchants, notifications and number of     *)
(* requests on their way.                                                  *)
(***************************************************************************)
EXTENDS NotificationBell, SequenceTheorems, TLAPS

LEMMA RemoveAtProperties ==
    ASSUME NEW S, NEW s \in Seq(S), NEW i \in 1..Len(s)
    PROVE  /\ RemoveAt(s, i) \in Seq(S)
           /\ Len(RemoveAt(s, i)) = Len(s) - 1
           /\ \A k \in 1..(Len(s) - 1) : RemoveAt(s, i)[k] = IF k < i THEN s[k] ELSE s[k + 1]
<1> DEFINE l == SubSeq(s, 1, i - 1)
           r == SubSeq(s, i + 1, Len(s))
<1>1. Len(s) \in Nat /\ \A k \in 1..Len(s) : s[k] \in S
  BY LenProperties, ElementOfSeq
<1>2. l \in Seq(S) /\ Len(l) = i - 1 /\ \A k \in 1..(i - 1) : l[k] = s[k]
  <2>1. \A k \in 1..(i - 1) : s[k] \in S
    BY <1>1
  <2> QED BY <1>1, <2>1, SubSeqProperties
<1>3. r \in Seq(S) /\ Len(r) = Len(s) - i /\ \A k \in 1..(Len(s) - i) : r[k] = s[i + k]
  <2>1. \A k \in (i + 1)..Len(s) : s[k] \in S
    BY <1>1
  <2>2. /\ r \in Seq(S)
        /\ Len(r) = IF i + 1 <= Len(s) THEN Len(s) - (i + 1) + 1 ELSE 0
        /\ \A k \in 1..(Len(s) - (i + 1) + 1) : r[k] = s[(i + 1) + k - 1]
    BY <1>1, <2>1, SubSeqProperties
  <2> QED BY <1>1, <2>2
<1>4. /\ l \o r \in Seq(S) /\ Len(l \o r) = Len(l) + Len(r)
      /\ \A k \in 1..(Len(l) + Len(r)) : (l \o r)[k] = IF k <= Len(l) THEN l[k] ELSE r[k - Len(l)]
  BY <1>2, <1>3, ConcatProperties
<1>5. RemoveAt(s, i) = l \o r
  BY DEF RemoveAt
<1> HIDE DEF l, r
<1>6. ASSUME NEW k \in 1..(Len(s) - 1)
      PROVE  (l \o r)[k] = IF k < i THEN s[k] ELSE s[k + 1]
  <2>1. k \in Nat /\ i \in Nat /\ Len(s) \in Nat /\ 1 <= k /\ k <= Len(s) - 1 /\ i <= Len(s) /\ 1 <= i
    BY <1>1
  <2>2. (l \o r)[k] = IF k <= i - 1 THEN l[k] ELSE r[k - (i - 1)]
    BY <1>2, <1>3, <1>4, <2>1
  <2>3. CASE k < i
    <3>1. k \in 1..(i - 1)
      BY <2>1, <2>3
    <3> QED BY <1>2, <2>1, <2>2, <2>3, <3>1
  <2>4. CASE ~(k < i)
    <3>1. k - (i - 1) \in 1..(Len(s) - i) /\ i + (k - (i - 1)) = k + 1 /\ ~(k <= i - 1)
      BY <2>1, <2>4
    <3>2. r[k - (i - 1)] = s[k + 1]
      BY <1>3, <3>1
    <3> QED BY <2>2, <2>4, <3>1, <3>2
  <2> QED BY <2>3, <2>4
<1> QED BY <1>1, <1>2, <1>3, <1>4, <1>5, <1>6

(***************************************************************************)
(* What stays on its way when a request is answered, and what joins it.    *)
(***************************************************************************)
Ends(t, s) == t[Len(t)] = s[Len(s)]

Others(s, t, i) == \A k \in DOMAIN s : k # i => \E j \in DOMAIN t : t[j] = s[k]

From(t, s, i, more) ==
    \A j \in DOMAIN t : \/ \E k \in DOMAIN s : k # i /\ t[j] = s[k]
                        \/ \E k \in DOMAIN more : t[j] = more[k]

Left(s, t, i, more) ==
    /\ Len(t) = Len(s) - 1 + Len(more)
    /\ Others(s, t, i) /\ From(t, s, i, more)
    /\ more # <<>> => Ends(t, more)
    /\ Len(more) = 0 /\ i < Len(s) => Ends(t, s)

LEMMA ExchangeKeeps ==
    ASSUME NEW S, NEW s \in Seq(S), NEW i \in DOMAIN s, NEW more \in Seq(S),
           NEW t, t = RemoveAt(s, i) \o more
    PROVE  t \in Seq(S) /\ Left(s, t, i, more)
<1> DEFINE u == RemoveAt(s, i)
<1>1. i \in 1..Len(s) /\ Len(s) \in Nat /\ Len(more) \in Nat
      /\ DOMAIN s = 1..Len(s) /\ DOMAIN more = 1..Len(more)
  BY LenProperties
<1>2. /\ u \in Seq(S) /\ Len(u) = Len(s) - 1
      /\ \A k \in 1..(Len(s) - 1) : u[k] = IF k < i THEN s[k] ELSE s[k + 1]
  BY <1>1, RemoveAtProperties
<1>3. /\ t \in Seq(S) /\ Len(t) = Len(u) + Len(more)
      /\ \A k \in 1..(Len(u) + Len(more)) : t[k] = IF k <= Len(u) THEN u[k] ELSE more[k - Len(u)]
  BY <1>2, ConcatProperties
<1>4. DOMAIN t = 1..Len(t)
  BY <1>3, LenProperties
<1> HIDE DEF u
<1>5. Others(s, t, i)
  <2> SUFFICES ASSUME NEW k \in 1..Len(s), k # i PROVE \E j \in 1..Len(t) : t[j] = s[k]
    BY <1>1, <1>4 DEF Others
  <2>1. CASE k < i
    <3>1. k \in 1..(Len(s) - 1) /\ k \in 1..Len(t) /\ k <= Len(u) /\ k \in 1..(Len(u) + Len(more))
      BY <1>1, <1>2, <1>3, <2>1
    <3> QED BY <1>2, <1>3, <2>1, <3>1
  <2>2. CASE k > i
    <3>1. /\ k - 1 \in 1..(Len(s) - 1) /\ k - 1 \in 1..Len(t) /\ k - 1 <= Len(u)
          /\ k - 1 \in 1..(Len(u) + Len(more)) /\ ~(k - 1 < i) /\ (k - 1) + 1 = k
      BY <1>1, <1>2, <1>3, <2>2
    <3>2. t[k - 1] = s[k]
      BY <1>2, <1>3, <3>1
    <3> QED BY <3>1, <3>2
  <2> QED BY <1>1, <2>1, <2>2
<1>6. From(t, s, i, more)
  <2> SUFFICES ASSUME NEW j \in 1..Len(t)
               PROVE  \/ \E k \in 1..Len(s) : k # i /\ t[j] = s[k]
                      \/ \E k \in 1..Len(more) : t[j] = more[k]
    BY <1>1, <1>4 DEF From
  <2>1. CASE j <= Len(u)
    <3>0. j \in 1..(Len(u) + Len(more)) /\ j \in 1..(Len(s) - 1)
      BY <1>1, <1>2, <1>3, <2>1
    <3>1. j \in 1..(Len(s) - 1) /\ t[j] = u[j]
      BY <1>3, <2>1, <3>0
    <3>2. CASE j < i
      <4>1. j \in 1..Len(s) /\ j # i
        BY <1>1, <3>1, <3>2
      <4>2. u[j] = s[j]
        BY <1>2, <3>1, <3>2
      <4> QED BY <3>1, <4>1, <4>2
    <3>3. CASE ~(j < i)
      <4>1. j + 1 \in 1..Len(s) /\ j + 1 # i
        BY <1>1, <3>1, <3>3
      <4>2. u[j] = s[j + 1]
        BY <1>2, <3>1, <3>3
      <4> QED BY <3>1, <4>1, <4>2
    <3> QED BY <3>2, <3>3
  <2>2. CASE ~(j <= Len(u))
    <3>1. j - Len(u) \in 1..Len(more) /\ t[j] = more[j - Len(u)]
      BY <1>1, <1>2, <1>3, <2>2
    <3> QED BY <3>1
  <2> QED BY <2>1, <2>2
<1>7. more # <<>> => t[Len(t)] = more[Len(more)]
  <2> SUFFICES ASSUME more # <<>> PROVE t[Len(t)] = more[Len(more)]
    OBVIOUS
  <2>1. Len(more) >= 1
    BY <1>1, EmptySeq
  <2>2. Len(t) \in 1..(Len(u) + Len(more)) /\ ~(Len(t) <= Len(u)) /\ Len(t) - Len(u) = Len(more)
    BY <1>1, <1>2, <1>3, <2>1
  <2> QED BY <1>3, <2>2
<1>8. Len(more) = 0 /\ i < Len(s) => t[Len(t)] = s[Len(s)]
  <2> SUFFICES ASSUME Len(more) = 0, i < Len(s) PROVE t[Len(t)] = s[Len(s)]
    OBVIOUS
  <2>1. Len(t) = Len(s) - 1 /\ Len(u) = Len(s) - 1
    BY <1>1, <1>2, <1>3
  <2>2. /\ Len(t) \in 1..(Len(s) - 1) /\ Len(t) <= Len(u)
        /\ Len(t) \in 1..(Len(u) + Len(more))
        /\ ~(Len(t) < i) /\ Len(t) + 1 = Len(s)
    BY <1>1, <2>1
  <2>3. t[Len(t)] = u[Len(t)] /\ u[Len(t)] = s[Len(t) + 1]
    BY <1>2, <1>3, <2>2
  <2> QED BY <2>2, <2>3
<1>9. (more # <<>> => Ends(t, more)) /\ (Len(more) = 0 /\ i < Len(s) => Ends(t, s))
  BY <1>7, <1>8 DEF Ends
<1> QED BY <1>1, <1>2, <1>3, <1>5, <1>6, <1>9 DEF Left
-----------------------------------------------------------------------------
LEMMA RequestTypes ==
    /\ \A m \in Merchants : ListRequest(m) \in Requests
    /\ \A m \in Merchants, p \in Merchants \X Items : MarkRequest(m, p) \in Requests
    /\ \A q \in Requests, r \in SUBSET Items :
           q.op = "list" => [q EXCEPT !.op = "served", !.read = r] \in Requests
    /\ \A q \in Requests : q.op = "mark" => [q EXCEPT !.op = "marked"] \in Requests
BY DEF ListRequest, MarkRequest, Request, Requests

LEMMA ServedFields ==
    ASSUME NEW q \in Requests, NEW r \in SUBSET Items, q.op = "list"
    PROVE  LET a == [q EXCEPT !.op = "served", !.read = r]
           IN  a.op = "served" /\ a.merchant = q.merchant /\ a.item = q.item /\ a.read = r
BY DEF Requests

LEMMA MarkedFields ==
    ASSUME NEW q \in Requests, q.op = "mark"
    PROVE  LET a == [q EXCEPT !.op = "marked"]
           IN  a.op = "marked" /\ a.merchant = q.merchant /\ a.item = q.item
BY DEF Requests

LEMMA AskedTypes ==
    ASSUME TypeOK
    PROVE  /\ DOMAIN asked = 1..Len(asked) /\ Len(asked) \in Nat
           /\ \A i \in DOMAIN asked :
                  /\ asked[i] \in Requests
                  /\ asked[i].op \in {"list", "served", "mark", "marked"}
                  /\ asked[i].merchant \in Merchants
                  /\ asked[i].item \in (Merchants \X Items) \cup {None}
                  /\ asked[i].op \in {"mark", "marked"} => asked[i].item \in Merchants \X Items
                  /\ asked[i].read \in SUBSET Items
<1>1. asked \in Seq(Requests)
  BY DEF TypeOK
<1>2. DOMAIN asked = 1..Len(asked) /\ Len(asked) \in Nat
  BY <1>1, LenProperties
<1>3. \A i \in DOMAIN asked : asked[i] \in Requests
  BY <1>1, <1>2, ElementOfSeq
<1> QED BY <1>2, <1>3 DEF Requests

LEMMA AskTypes ==
    ASSUME TypeOK, NEW q \in Requests, Ask(q)
    PROVE  /\ asked' \in Seq(Requests) /\ overtaken' = overtaken
           /\ Len(asked') = Len(asked) + 1 /\ asked'[Len(asked')] = q
           /\ DOMAIN asked' = 1..Len(asked')
           /\ \A i \in DOMAIN asked : i \in DOMAIN asked' /\ asked'[i] = asked[i]
           /\ \A i \in DOMAIN asked' : i \in DOMAIN asked \/ asked'[i] = q
<1>1. asked \in Seq(Requests) /\ asked' = Append(asked, q)
  BY DEF TypeOK, Ask
<1>2. /\ asked' \in Seq(Requests) /\ Len(asked') = Len(asked) + 1
      /\ \A i \in 1..Len(asked) : asked'[i] = asked[i]
      /\ asked'[Len(asked) + 1] = q
  BY <1>1, AppendProperties
<1>3. /\ Len(asked) \in Nat /\ DOMAIN asked = 1..Len(asked) /\ DOMAIN asked' = 1..Len(asked')
  BY <1>1, <1>2, LenProperties
<1> QED BY <1>2, <1>3 DEF Ask

\* The request of a step, and what it leaves on its way.
LEMMA ExchangeTypes ==
    ASSUME TypeOK, NEW i \in DOMAIN asked, NEW more \in Seq(Requests), Exchange(i, more)
    PROVE  /\ asked' \in Seq(Requests) /\ DOMAIN asked' = 1..Len(asked')
           /\ overtaken' \in BOOLEAN
           /\ Left(asked, asked', i, more)
           /\ ~overtaken' => ~overtaken /\ i = 1
<1>1. asked \in Seq(Requests) /\ asked' = RemoveAt(asked, i) \o more
  BY DEF TypeOK, Exchange
<1>2. asked' \in Seq(Requests) /\ Left(asked, asked', i, more)
  BY <1>1, ExchangeKeeps
<1>3. DOMAIN asked' = 1..Len(asked')
  BY <1>2, LenProperties
<1>4. overtaken' = (overtaken \/ i # 1) /\ overtaken \in BOOLEAN
  BY DEF Exchange, TypeOK
<1>5. overtaken' \in BOOLEAN /\ (~overtaken' => ~overtaken /\ i = 1)
  BY <1>4
<1> QED BY <1>2, <1>3, <1>5

\* The steps of the store and of the menu.
LEMMA InboxSteps ==
    ASSUME NEW b \in Inboxes
    PROVE  /\ Pending(b) \in Inboxes /\ Pending(b).of = b.of /\ Pending(b).read = b.read
           /\ Stopped(b) \in Inboxes /\ Stopped(b).of = b.of /\ Stopped(b).read = b.read
           /\ \A i \in Items : /\ [b EXCEPT !.read = @ \cup {i}] \in Inboxes
                               /\ [b EXCEPT !.read = @ \cup {i}].of = b.of
                               /\ [b EXCEPT !.read = @ \cup {i}].read = b.read \cup {i}
           /\ \A m \in Merchants, r \in SUBSET Items :
                  LET a == [b EXCEPT !.of = m, !.read = r, !.loading = FALSE]
                  IN  a \in Inboxes /\ a.of = m /\ a.read = r
BY DEF Inboxes, Pending, Stopped

LEMMA ListSteps ==
    ASSUME NEW b \in Inboxes, NEW m \in Merchants, NEW r \in SUBSET Items
    PROVE  LET a == [b EXCEPT !.of = m, !.read = r, !.loading = FALSE]
           IN  a.of = m /\ a.read = r
BY DEF Inboxes

LEMMA MenuSteps ==
    ASSUME NEW v \in Menus
    PROVE  /\ [v EXCEPT !.mounted = TRUE] \in Menus
           /\ [v EXCEPT !.mounted = FALSE] \in Menus
           /\ [v EXCEPT !.open = FALSE] \in Menus
           /\ [v EXCEPT !.open = ~@] \in Menus
<1>1. v.open \in BOOLEAN /\ (~v.open) \in BOOLEAN
  BY DEF Menus
<1> QED BY <1>1, Zenon DEF Menus

LEMMA TypeInit == ASSUME Init PROVE TypeOK
<1>1. asked \in Seq(Requests) /\ clicks \in 0..MaxClicks
  BY BellConfig, EmptySeq DEF Init
<1> QED BY <1>1 DEF Init, TypeOK, Menus, Inboxes

LEMMA ClickTypes == ASSUME TypeOK, Click PROVE clicks' \in 0..MaxClicks
BY BellConfig DEF TypeOK, Click

\* What every step of the user leaves alone.
Elsewhere == rows' = rows /\ failures' = failures /\ overtaken' = overtaken

LEMMA UserTypes == ASSUME TypeOK, User PROVE TypeOK' /\ Elsewhere
<1> USE DEF rows
<1>0. /\ merchant \in Merchants /\ menu \in Menus /\ inbox \in Inboxes
      /\ server \in [Merchants -> SUBSET Items] /\ overtaken \in BOOLEAN
      /\ unkept \subseteq Merchants \X Items /\ lost \subseteq Merchants \X Items
      /\ failures \subseteq (Merchants \X Items) \cup {None} /\ asked \in Seq(Requests)
  BY DEF TypeOK
<1>c. Click => clicks' \in 0..MaxClicks
  BY ClickTypes
<1>1. ASSUME Mount PROVE TypeOK' /\ Elsewhere
  <2>1. asked' \in Seq(Requests) /\ overtaken' = overtaken
    BY <1>0, <1>1, RequestTypes, AskTypes DEF Mount
  <2>2. menu' \in Menus /\ inbox' \in Inboxes
    BY <1>0, <1>1, InboxSteps, MenuSteps DEF Mount
  <2> QED BY <1>0, <1>c, <1>1, <2>1, <2>2 DEF Mount, Elsewhere, TypeOK
<1>2. ASSUME Unmount PROVE TypeOK' /\ Elsewhere
  <2>1. menu' \in Menus
    BY <1>0, <1>2, MenuSteps DEF Unmount
  <2> QED BY <1>0, <1>c, <1>2, <2>1 DEF Unmount, Elsewhere, TypeOK
<1>3. ASSUME Toggle PROVE TypeOK' /\ Elsewhere
  <2>1. menu' \in Menus
    BY <1>0, <1>3, MenuSteps DEF Toggle
  <2> QED BY <1>0, <1>c, <1>3, <2>1 DEF Toggle, Elsewhere, TypeOK
<1>4. ASSUME NEW m \in Merchants, SwitchMerchant(m) PROVE TypeOK' /\ Elsewhere
  <2>1. asked' \in Seq(Requests) /\ overtaken' = overtaken
    BY <1>0, <1>4, RequestTypes, AskTypes DEF SwitchMerchant
  <2>2. inbox' \in Inboxes
    BY <1>0, <1>4, InboxSteps DEF SwitchMerchant
  <2> QED BY <1>0, <1>c, <1>4, <2>1, <2>2 DEF SwitchMerchant, Elsewhere, TypeOK
<1>5. ASSUME NEW i \in Items, ClickItem(i) PROVE TypeOK' /\ Elsewhere
  <2>1. inbox.of \in Merchants
    BY <1>0, <1>5 DEF ClickItem, Inboxes
  <2>2. MarkRequest(merchant, <<inbox.of, i>>) \in Requests
    BY <1>0, <2>1, RequestTypes
  <2>3. asked' \in Seq(Requests) /\ overtaken' = overtaken
    BY <1>5, <2>2, AskTypes DEF ClickItem
  <2>4. menu' \in Menus /\ inbox' \in Inboxes
    BY <1>0, <1>5, InboxSteps, MenuSteps DEF ClickItem, MarkReadLocal
  <2> QED BY <1>0, <1>c, <1>5, <2>3, <2>4 DEF ClickItem, Elsewhere, TypeOK
<1> QED BY <1>1, <1>2, <1>3, <1>4, <1>5 DEF User

LEMMA AnswerTypes ==
    ASSUME TypeOK, NEW i \in DOMAIN asked, Answer(i) PROVE TypeOK'
<1> USE DEF rows
<1>0. /\ merchant \in Merchants /\ menu \in Menus /\ inbox \in Inboxes
      /\ server \in [Merchants -> SUBSET Items] /\ overtaken \in BOOLEAN
      /\ unkept \subseteq Merchants \X Items /\ lost \subseteq Merchants \X Items
      /\ failures \subseteq (Merchants \X Items) \cup {None} /\ asked \in Seq(Requests)
      /\ clicks \in 0..MaxClicks
  BY DEF TypeOK
<1>a. /\ asked[i] \in Requests /\ asked[i].merchant \in Merchants
      /\ asked[i].item \in (Merchants \X Items) \cup {None}
      /\ asked[i].read \in SUBSET Items
  BY AskedTypes
<1>b. <<>> \in Seq(Requests)
  BY EmptySeq
<1>c. <<ListRequest(asked[i].merchant)>> \in Seq(Requests)
  <2>1. ListRequest(asked[i].merchant) \in Requests
    BY <1>a, RequestTypes
  <2> HIDE DEF Requests
  <2> QED BY <2>1
<1>1. CASE Serve(i)
  <2>1. [asked[i] EXCEPT !.op = "served", !.read = server[asked[i].merchant]] \in Requests
    BY <1>0, <1>1, <1>a, RequestTypes DEF Serve
  <2>2. asked' = [asked EXCEPT ![i] = [asked[i] EXCEPT !.op = "served", !.read = server[asked[i].merchant]]]
    BY <1>1 DEF Serve
  <2>3. i \in 1..Len(asked)
    BY AskedTypes
  <2>4. asked' \in Seq(Requests)
    BY <1>0, <2>1, <2>2, <2>3, ExceptSeq
  <2> QED BY <1>0, <1>1, <2>4 DEF Serve, TypeOK
<1>2. CASE AnswerList(i)
  <2>1. asked' \in Seq(Requests) /\ overtaken' \in BOOLEAN
    BY <1>b, <1>2, ExchangeTypes DEF AnswerList
  <2>2. inbox' \in Inboxes
    BY <1>0, <1>a, <1>2, InboxSteps DEF AnswerList
  <2> QED BY <1>0, <1>2, <2>1, <2>2 DEF AnswerList, TypeOK
<1>3. CASE FailList(i)
  <2>1. asked' \in Seq(Requests) /\ overtaken' \in BOOLEAN
    BY <1>b, <1>3, ExchangeTypes DEF FailList
  <2>2. inbox' \in Inboxes
    BY <1>0, <1>3, InboxSteps DEF FailList
  <2>3. failures' \subseteq (Merchants \X Items) \cup {None}
    BY <1>0, <1>a, <1>3 DEF FailList
  <2> QED BY <1>0, <1>3, <2>1, <2>2, <2>3 DEF FailList, TypeOK
<1>4. CASE AnswerMark(i)
  <2>1. asked' \in Seq(Requests) /\ overtaken' \in BOOLEAN
    BY <1>c, <1>4, ExchangeTypes DEF AnswerMark, Refetch
  <2>2. inbox' \in Inboxes
    BY <1>0, <1>4, InboxSteps DEF AnswerMark, Refetch
  <2> QED BY <1>0, <1>4, <2>1, <2>2 DEF AnswerMark, TypeOK
<1>5. CASE FailMark(i)
  <2>1. asked' \in Seq(Requests) /\ overtaken' \in BOOLEAN
    BY <1>b, <1>5, ExchangeTypes DEF FailMark
  <2>2. failures' \subseteq (Merchants \X Items) \cup {None}
    BY <1>0, <1>a, <1>5 DEF FailMark
  <2> QED BY <1>0, <1>5, <2>1, <2>2 DEF FailMark, TypeOK
<1>6. CASE ServeMark(i)
  <2>1. /\ [asked[i] EXCEPT !.op = "marked"] \in Requests
        /\ asked' = [asked EXCEPT ![i] = [asked[i] EXCEPT !.op = "marked"]]
    BY <1>6, <1>a, RequestTypes DEF ServeMark
  <2>2. asked' \in Seq(Requests)
    <3>1. i \in 1..Len(asked)
      BY AskedTypes
    <3> QED BY <1>0, <2>1, <3>1, ExceptSeq
  <2>3. asked[i].item \in Merchants \X Items /\ asked[i].item[2] \in Items
    BY <1>6, AskedTypes DEF ServeMark
  <2>4. server' \in [Merchants -> SUBSET Items] /\ unkept' \subseteq Merchants \X Items
    BY <1>0, <1>6, <2>3 DEF ServeMark
  <2> QED BY <1>0, <1>6, <2>2, <2>4 DEF ServeMark, TypeOK
<1> QED BY <1>1, <1>2, <1>3, <1>4, <1>5, <1>6 DEF Answer

LEMMA LoseTypes == ASSUME TypeOK, NEW m \in Merchants, NEW i \in Items, Lose(m, i) PROVE TypeOK'
<1>1. server' \in [Merchants -> SUBSET Items] /\ lost' \subseteq Merchants \X Items
  BY DEF Lose, TypeOK
<1> QED BY <1>1 DEF Lose, TypeOK

LEMMA TypeStep == ASSUME TypeOK, [Next]_vars PROVE TypeOK'
<1>1. CASE User BY <1>1, UserTypes
<1>2. ASSUME NEW i \in DOMAIN asked, Answer(i) PROVE TypeOK'
  BY <1>2, AnswerTypes
<1>3. ASSUME NEW m \in Merchants, NEW i \in Items, Lose(m, i) PROVE TypeOK'
  BY <1>3, LoseTypes
<1>4. CASE UNCHANGED vars
  BY <1>4 DEF vars, rows, TypeOK
<1> QED BY <1>1, <1>2, <1>3, <1>4 DEF Next

\* The bell keeps its types.
THEOREM TypeCorrect == Spec => []TypeOK
<1> QED BY TypeInit, TypeStep, PTL DEF Spec
-----------------------------------------------------------------------------
(***************************************************************************)
(* Read in the store, read on the server.  A list that was served names    *)
(* nothing that is not read on the server by the time it arrives, but for  *)
(* what the server has lost since; a mark that was served was kept, or is  *)
(* known not to have been.                                                 *)
(***************************************************************************)
Corrected == ListAsked \/ None \in failures

OnServer(a, i) == i \in server[a] \/ <<a, i>> \in lost

Kept(a, i) ==
    \/ OnServer(a, i) \/ <<a, i>> \in failures
    \/ MarkAsked(<<a, i>>)
    \/ <<a, i>> \in unkept /\ Corrected

MarkDone(p) == OnServer(p[1], p[2]) \/ p \in unkept

\* The served requests are true.
ServedTrue ==
    /\ \A k \in DOMAIN asked :
           asked[k].op = "served" => \A j \in asked[k].read : OnServer(asked[k].merchant, j)
    /\ \A k \in DOMAIN asked : asked[k].op = "marked" => MarkDone(asked[k].item)

ReadInv ==
    /\ \A i \in inbox.read : Kept(inbox.of, i)
    /\ inbox.read # {} => inbox.of \in Merchants
    /\ ServedTrue

LEMMA ReadInit == ASSUME Init PROVE ReadInv
BY DEF Init, ReadInv, ServedTrue

\* What is on its way, when a step only asks for more.
Onwards ==
    /\ \A m \in Merchants, j \in Items : OnServer(m, j) => OnServer(m, j)'
    /\ failures \subseteq failures' /\ unkept \subseteq unkept'
    /\ \A k \in DOMAIN asked' : \/ asked'[k].op \in {"list", "mark"}
                                \/ \E j \in DOMAIN asked : asked'[k] = asked[j]

LEMMA MarkDoneKeeps ==
    ASSUME \A m \in Merchants, j \in Items : OnServer(m, j) => OnServer(m, j)',
           unkept \subseteq unkept', NEW p \in Merchants \X Items, MarkDone(p)
    PROVE  MarkDone(p)'
<1>1. p[1] \in Merchants /\ p[2] \in Items
  OBVIOUS
<1> QED BY <1>1 DEF MarkDone

LEMMA ServedKeeps == ASSUME TypeOK, ServedTrue, Onwards PROVE ServedTrue'
<1>1. /\ \A k \in DOMAIN asked : asked[k].merchant \in Merchants /\ asked[k].read \in SUBSET Items
      /\ \A k \in DOMAIN asked : asked[k].op = "marked" => asked[k].item \in Merchants \X Items
  BY AskedTypes
<1>2. ASSUME NEW k \in DOMAIN asked', asked'[k].op = "served", NEW j \in asked'[k].read
      PROVE  OnServer(asked[k].merchant, j)'
  <2>1. PICK l \in DOMAIN asked : asked'[k] = asked[l]
    BY <1>2 DEF Onwards
  <2>2. OnServer(asked[l].merchant, j) /\ asked[l].merchant \in Merchants /\ j \in Items
    BY <1>1, <1>2, <2>1 DEF ServedTrue
  <2>3. \A m \in Merchants : OnServer(m, j) => OnServer(m, j)'
    BY <2>2 DEF Onwards
  <2>4. PICK m \in Merchants : m = asked[l].merchant
    BY <2>2
  <2>5. OnServer(m, j)'
    BY <2>2, <2>3, <2>4
  <2> QED BY <2>1, <2>4, <2>5 DEF OnServer
<1>3. ASSUME NEW k \in DOMAIN asked', asked'[k].op = "marked" PROVE MarkDone(asked[k].item)'
  <2>1. PICK l \in DOMAIN asked : asked'[k] = asked[l]
    BY <1>3 DEF Onwards
  <2>2. PICK p \in Merchants \X Items : p = asked[l].item
    BY <1>1, <1>3, <2>1
  <2>3. MarkDone(p)
    BY <1>3, <2>1, <2>2 DEF ServedTrue
  <2>4. MarkDone(p)'
    BY <2>3, MarkDoneKeeps DEF Onwards
  <2> QED BY <2>1, <2>2, <2>4 DEF MarkDone, OnServer
<1> QED BY <1>2, <1>3 DEF ServedTrue

\* What is shown as read stays so for a reason, if the marks that left have one.
LEMMA KeptKeeps ==
    ASSUME TypeOK, \A j \in inbox.read : Kept(inbox.of, j),
           inbox.read # {} => inbox.of \in Merchants,
           \A m \in Merchants, j \in Items : OnServer(m, j) => OnServer(m, j)',
           failures \subseteq failures', unkept \subseteq unkept',
           Corrected => Corrected',
           \A m \in Merchants, j \in Items : MarkAsked(<<m, j>>) => Kept(m, j)',
           inbox'.of = inbox.of, inbox'.read = inbox.read
    PROVE  /\ \A j \in inbox'.read : Kept(inbox.of, j)'
           /\ inbox'.read # {} => inbox'.of \in Merchants
<1> SUFFICES ASSUME NEW j \in inbox.read PROVE Kept(inbox.of, j)'
  OBVIOUS
<1>1. inbox.read \subseteq Items
  BY DEF TypeOK, Inboxes
<1>2. PICK m \in Merchants : m = inbox.of
  OBVIOUS
<1>3. j \in Items /\ Kept(m, j)
  BY <1>1, <1>2
<1>4. Kept(m, j)'
  <2>1. CASE OnServer(m, j)
    BY <1>3, <2>1 DEF Kept
  <2>2. CASE <<m, j>> \in failures
    BY <2>2 DEF Kept
  <2>3. CASE MarkAsked(<<m, j>>)
    BY <1>3, <2>3
  <2>4. CASE <<m, j>> \in unkept /\ Corrected
    BY <2>4 DEF Kept
  <2> QED BY <1>3, <2>1, <2>2, <2>3, <2>4 DEF Kept
<1> QED BY <1>2, <1>4

\* A click adds a request at most.
LEMMA ReadUser == ASSUME TypeOK, ReadInv, User PROVE ReadInv'
<1>0. Elsewhere /\ inbox \in Inboxes /\ merchant \in Merchants
  BY UserTypes DEF TypeOK
<1>a. /\ \A m \in Merchants, j \in Items : OnServer(m, j) => OnServer(m, j)'
      /\ failures \subseteq failures' /\ unkept \subseteq unkept'
  BY <1>0 DEF Elsewhere, rows, OnServer
<1>1. ASSUME Unmount \/ Toggle PROVE ReadInv'
  <2>1. asked' = asked /\ inbox' = inbox
    BY <1>1 DEF Unmount, Toggle
  <2> QED BY <1>0, <2>1 DEF ReadInv, ServedTrue, MarkDone, OnServer, Kept, Corrected, ListAsked,
                           MarkAsked, Elsewhere, rows
<1>2. ASSUME NEW q \in Requests, Ask(q), q.op \in {"list", "mark"}
      PROVE  /\ ServedTrue' /\ (Corrected => Corrected')
             /\ \A p : MarkAsked(p) => MarkAsked(p)'
             /\ q.op = "mark" => MarkAsked(q.item)'
  <2>1. /\ \A k \in DOMAIN asked : k \in DOMAIN asked' /\ asked'[k] = asked[k]
        /\ \A k \in DOMAIN asked' : k \in DOMAIN asked \/ asked'[k] = q
        /\ Len(asked') \in DOMAIN asked' /\ asked'[Len(asked')] = q
    BY <1>2, AskTypes, AskedTypes
  <2>2. Onwards
    BY <1>a, <1>2, <2>1 DEF Onwards
  <2>3. ServedTrue'
    BY <2>2, ServedKeeps DEF ReadInv
  <2>4. Corrected => Corrected'
    BY <1>a, <2>1 DEF Corrected, ListAsked
  <2> QED BY <1>2, <2>1, <2>3, <2>4 DEF MarkAsked
<1>3. ASSUME NEW m \in Merchants, Mount \/ SwitchMerchant(m) PROVE ReadInv'
  <2>1. \E q \in Requests : Ask(q) /\ q.op \in {"list", "mark"}
    BY <1>0, <1>3, RequestTypes DEF Mount, SwitchMerchant, ListRequest, Request
  <2>2. ServedTrue' /\ (Corrected => Corrected') /\ \A p : MarkAsked(p) => MarkAsked(p)'
    BY <1>2, <2>1
  <2>3. inbox'.of = inbox.of /\ inbox'.read = inbox.read
    BY <1>0, <1>3, InboxSteps DEF Mount, SwitchMerchant
  <2>4. \A a \in Merchants, j \in Items : MarkAsked(<<a, j>>) => Kept(a, j)'
    BY <2>2 DEF Kept
  <2>5. /\ \A j \in inbox'.read : Kept(inbox.of, j)'
        /\ inbox'.read # {} => inbox'.of \in Merchants
    BY <1>a, <2>2, <2>3, <2>4, KeptKeeps DEF ReadInv
  <2> QED BY <2>2, <2>3, <2>5 DEF ReadInv, Kept, OnServer, MarkAsked
<1>4. ASSUME NEW i \in Items, ClickItem(i) PROVE ReadInv'
  <2>1. PICK a \in Merchants : a = inbox.of
    BY <1>0, <1>4 DEF ClickItem, Inboxes
  <2>2. MarkRequest(merchant, <<a, i>>) \in Requests
    BY <1>0, RequestTypes
  <2>3. Ask(MarkRequest(merchant, <<a, i>>))
    BY <1>4, <2>1 DEF ClickItem
  <2>4. MarkRequest(merchant, <<a, i>>).op = "mark"
        /\ MarkRequest(merchant, <<a, i>>).item = <<a, i>>
    BY DEF MarkRequest, Request
  <2>5. /\ ServedTrue' /\ (Corrected => Corrected')
        /\ \A p : MarkAsked(p) => MarkAsked(p)'
        /\ MarkAsked(<<a, i>>)'
    <3> HIDE DEF MarkRequest
    <3>1. MarkRequest(merchant, <<a, i>>).op \in {"list", "mark"}
      BY <2>4
    <3> QED BY <1>2, <2>2, <2>3, <2>4, <3>1
  <2>6. inbox'.of = a /\ inbox'.read = inbox.read \cup {i}
    BY <1>0, <1>4, <2>1, InboxSteps DEF ClickItem, MarkReadLocal
  <2>7. ASSUME NEW j \in inbox.read PROVE Kept(a, j)'
    <3>1. Kept(a, j) /\ j \in Items
      BY <1>0, <2>1 DEF ReadInv, Inboxes
    <3> QED BY <1>a, <2>5, <3>1 DEF Kept
  <2>8. Kept(a, i)'
    BY <2>5 DEF Kept
  <2> QED BY <2>5, <2>6, <2>7, <2>8 DEF ReadInv, Kept, OnServer, MarkAsked
<1> QED BY <1>0, <1>1, <1>3, <1>4 DEF User

\* A request that leaves, and what it leaves behind.
LEMMA LeaveKeeps ==
    ASSUME TypeOK, ReadInv, NEW i \in DOMAIN asked, NEW more \in Seq(Requests),
           Exchange(i, more), rows' = rows, failures \subseteq failures',
           \A k \in DOMAIN more : more[k].op \in {"list", "mark"}
    PROVE  /\ ServedTrue'
           /\ \A m \in Merchants, j \in Items : OnServer(m, j) => OnServer(m, j)'
           /\ unkept \subseteq unkept'
           /\ \A p : MarkAsked(p) /\ p # asked[i].item => MarkAsked(p)'
           /\ asked[i].op \in {"list", "served"} => \A p : MarkAsked(p) => MarkAsked(p)'
           /\ asked[i].op \notin {"list", "served"} => (Corrected => Corrected')
<1>1. Others(asked, asked', i) /\ From(asked', asked, i, more)
  BY ExchangeTypes DEF Left
<1>2. /\ \A m \in Merchants, j \in Items : OnServer(m, j) => OnServer(m, j)'
      /\ unkept \subseteq unkept'
  BY DEF rows, OnServer
<1>3. Onwards
  BY <1>1, <1>2 DEF Onwards, From
<1>4. ServedTrue'
  BY <1>3, ServedKeeps DEF ReadInv
<1>5. \A p : MarkAsked(p) /\ p # asked[i].item => MarkAsked(p)'
  BY <1>1 DEF MarkAsked, Others
<1>6. asked[i].op \in {"list", "served"} => \A p : MarkAsked(p) => MarkAsked(p)'
  BY <1>1 DEF MarkAsked, Others
<1>7. asked[i].op \notin {"list", "served"} => (Corrected => Corrected')
  BY <1>1 DEF Corrected, ListAsked, Others
<1> QED BY <1>2, <1>4, <1>5, <1>6, <1>7

\* A request that the server serves, and what else it leaves as it is.
LEMMA ServingKeeps ==
    ASSUME TypeOK, ReadInv, NEW i \in DOMAIN asked, NEW q \in Requests,
           asked' = [asked EXCEPT ![i] = q],
           <<asked[i].op, q.op>> \in {<<"list", "served">>, <<"mark", "marked">>},
           q.item = asked[i].item,
           \A m \in Merchants, j \in Items : OnServer(m, j) => OnServer(m, j)',
           unkept \subseteq unkept', failures \subseteq failures',
           q.op = "served" => \A j \in q.read : OnServer(q.merchant, j)',
           q.op = "marked" => MarkDone(q.item)'
    PROVE  /\ ServedTrue' /\ (Corrected => Corrected')
           /\ \A p : MarkAsked(p) => MarkAsked(p)'
<1>1. /\ DOMAIN asked' = DOMAIN asked /\ asked'[i] = q
      /\ \A k \in DOMAIN asked : k # i => asked'[k] = asked[k]
  OBVIOUS
<1>2. /\ \A k \in DOMAIN asked : asked[k].merchant \in Merchants /\ asked[k].read \in SUBSET Items
      /\ \A k \in DOMAIN asked : asked[k].op = "marked" => asked[k].item \in Merchants \X Items
  BY AskedTypes
<1>3. ASSUME NEW k \in DOMAIN asked, asked'[k].op = "served", NEW j \in asked'[k].read
      PROVE  OnServer(asked[k].merchant, j)'
  <2>1. CASE k = i
    BY <1>1, <1>3, <2>1 DEF OnServer
  <2>2. CASE k # i
    <3>1. PICK m \in Merchants : m = asked[k].merchant
      BY <1>2
    <3>2. OnServer(m, j) /\ j \in Items
      BY <1>1, <1>2, <1>3, <2>2, <3>1 DEF ReadInv, ServedTrue
    <3>3. OnServer(m, j)'
      BY <3>2
    <3> QED BY <1>1, <2>2, <3>1, <3>3 DEF OnServer
  <2> QED BY <2>1, <2>2
<1>4. ASSUME NEW k \in DOMAIN asked, asked'[k].op = "marked" PROVE MarkDone(asked[k].item)'
  <2>1. CASE k = i
    BY <1>1, <1>4, <2>1 DEF MarkDone, OnServer
  <2>2. CASE k # i
    <3>1. PICK p \in Merchants \X Items : p = asked[k].item
      BY <1>1, <1>2, <1>4, <2>2
    <3>2. MarkDone(p)
      BY <1>1, <1>4, <2>2, <3>1 DEF ReadInv, ServedTrue
    <3>3. MarkDone(p)'
      BY <3>2, MarkDoneKeeps
    <3> QED BY <1>1, <2>2, <3>1, <3>3 DEF MarkDone, OnServer
  <2> QED BY <2>1, <2>2
<1>5. ServedTrue'
  BY <1>1, <1>3, <1>4 DEF ServedTrue
<1>6. Corrected => Corrected'
  BY <1>1 DEF Corrected, ListAsked
<1>7. \A p : MarkAsked(p) => MarkAsked(p)'
  BY <1>1 DEF MarkAsked
<1> QED BY <1>5, <1>6, <1>7

LEMMA ReadAnswer ==
    ASSUME TypeOK, ReadInv, NEW i \in DOMAIN asked, Answer(i) PROVE ReadInv'
<1>0. /\ asked[i] \in Requests /\ asked[i].merchant \in Merchants
      /\ asked[i].op \in {"mark", "marked"} => asked[i].item \in Merchants \X Items
      /\ asked[i].read \in SUBSET Items
      /\ inbox \in Inboxes /\ server \in [Merchants -> SUBSET Items]
  BY AskedTypes DEF TypeOK
<1>e. <<>> \in Seq(Requests) /\ DOMAIN <<>> = {}
  BY EmptySeq
<1>s. ASSUME ServedTrue', Corrected => Corrected', inbox'.of = inbox.of, inbox'.read = inbox.read,
             \A m \in Merchants, j \in Items : OnServer(m, j) => OnServer(m, j)',
             failures \subseteq failures', unkept \subseteq unkept',
             \A m \in Merchants, j \in Items : MarkAsked(<<m, j>>) => Kept(m, j)'
      PROVE  ReadInv'
  <2>1. /\ \A j \in inbox'.read : Kept(inbox.of, j)'
        /\ inbox'.read # {} => inbox'.of \in Merchants
    BY <1>s, KeptKeeps DEF ReadInv
  <2> QED BY <1>s, <2>1 DEF ReadInv, Kept, OnServer, MarkAsked
<1>1. CASE Serve(i)
  <2>0. PICK q : q = [asked[i] EXCEPT !.op = "served", !.read = server[asked[i].merchant]]
    OBVIOUS
  <2>1. /\ asked' = [asked EXCEPT ![i] = q] /\ asked[i].op = "list"
        /\ inbox' = inbox /\ rows' = rows /\ failures' = failures
    BY <1>1, <2>0 DEF Serve, rows
  <2>2. /\ q \in Requests /\ q.op = "served" /\ q.merchant = asked[i].merchant
        /\ q.item = asked[i].item /\ q.read = server[asked[i].merchant]
    <3>1. server[asked[i].merchant] \in SUBSET Items
      BY <1>0
    <3> QED BY <1>0, <2>0, <2>1, <3>1, RequestTypes, ServedFields
  <2>3. /\ \A m \in Merchants, j \in Items : OnServer(m, j) => OnServer(m, j)'
        /\ failures \subseteq failures' /\ unkept \subseteq unkept'
        /\ \A j \in q.read : OnServer(q.merchant, j)'
    BY <2>1, <2>2 DEF OnServer, rows
  <2>4. ServedTrue' /\ (Corrected => Corrected') /\ \A p : MarkAsked(p) => MarkAsked(p)'
    BY <2>1, <2>2, <2>3, ServingKeeps
  <2>5. \A m \in Merchants, j \in Items : MarkAsked(<<m, j>>) => Kept(m, j)'
    BY <2>4 DEF Kept
  <2> QED BY <1>s, <2>1, <2>3, <2>4, <2>5
<1>2. CASE ServeMark(i)
  <2>0. PICK q, a, b : q = [asked[i] EXCEPT !.op = "marked"] /\ a = asked[i].item[1] /\ b = asked[i].item[2]
    OBVIOUS
  <2>1. /\ asked' = [asked EXCEPT ![i] = q] /\ asked[i].op = "mark"
        /\ inbox' = inbox /\ failures' = failures /\ lost' = lost
        /\ \/ server' = [server EXCEPT ![a] = @ \cup {b}] /\ unkept' = unkept
           \/ unkept' = unkept \cup {asked[i].item} /\ server' = server
    BY <1>2, <2>0 DEF ServeMark
  <2>2. q \in Requests /\ q.op = "marked" /\ q.item = asked[i].item
    BY <1>0, <2>0, <2>1, RequestTypes, MarkedFields
  <2>3. a \in Merchants /\ b \in Items
    BY <1>0, <2>0, <2>1
  <2>4. /\ \A m \in Merchants, j \in Items : OnServer(m, j) => OnServer(m, j)'
        /\ failures \subseteq failures' /\ unkept \subseteq unkept'
    BY <1>0, <2>1, <2>3 DEF OnServer
  <2>5. MarkDone(q.item)'
    <3>1. CASE server' = [server EXCEPT ![a] = @ \cup {b}]
      <4>1. b \in server'[a]
        BY <1>0, <2>3, <3>1
      <4> QED BY <2>0, <2>2, <4>1 DEF MarkDone, OnServer
    <3>2. CASE unkept' = unkept \cup {asked[i].item}
      <4>1. q.item \in unkept'
        BY <2>2, <3>2
      <4> QED BY <4>1 DEF MarkDone
    <3> QED BY <2>1, <3>1, <3>2
  <2>6. ServedTrue' /\ (Corrected => Corrected') /\ \A p : MarkAsked(p) => MarkAsked(p)'
    BY <2>1, <2>2, <2>4, <2>5, ServingKeeps
  <2>7. \A m \in Merchants, j \in Items : MarkAsked(<<m, j>>) => Kept(m, j)'
    BY <2>6 DEF Kept
  <2> QED BY <1>s, <2>1, <2>4, <2>6, <2>7
<1>3. CASE AnswerList(i)
  <2>1. Exchange(i, <<>>) /\ rows' = rows /\ failures' = failures /\ asked[i].op = "served"
    BY <1>3 DEF AnswerList
  <2>2. /\ ServedTrue'
        /\ \A m \in Merchants, j \in Items : OnServer(m, j) => OnServer(m, j)'
    BY <2>1, <1>e, LeaveKeeps
  <2>3. inbox'.of = asked[i].merchant /\ inbox'.read = asked[i].read
    BY <1>0, <1>3, ListSteps DEF AnswerList
  <2>4. PICK m \in Merchants : m = asked[i].merchant
    BY <1>0
  <2>5. ASSUME NEW j \in asked[i].read PROVE Kept(m, j)'
    <3>1. OnServer(m, j) /\ j \in Items
      BY <1>0, <2>1, <2>4 DEF ReadInv, ServedTrue
    <3>2. OnServer(m, j)'
      BY <2>2, <3>1
    <3> QED BY <3>2 DEF Kept
  <2> QED BY <2>2, <2>3, <2>4, <2>5 DEF ReadInv, Kept, OnServer, MarkAsked
<1>4. CASE FailList(i)
  <2>1. Exchange(i, <<>>) /\ rows' = rows /\ failures' = failures \cup {asked[i].item}
        /\ asked[i].op \in {"list", "served"} /\ asked[i].item = None
    BY <1>0, <1>4 DEF FailList, Requests
  <2>2. /\ ServedTrue' /\ unkept \subseteq unkept'
        /\ \A m \in Merchants, j \in Items : OnServer(m, j) => OnServer(m, j)'
        /\ \A p : MarkAsked(p) => MarkAsked(p)'
    BY <2>1, <1>e, LeaveKeeps
  <2>3. inbox'.of = inbox.of /\ inbox'.read = inbox.read
    BY <1>0, <1>4, InboxSteps DEF FailList
  <2>4. failures \subseteq failures' /\ Corrected'
    BY <2>1 DEF Corrected
  <2>5. \A m \in Merchants, j \in Items : MarkAsked(<<m, j>>) => Kept(m, j)'
    BY <2>2 DEF Kept
  <2> QED BY <1>s, <2>2, <2>3, <2>4, <2>5
<1>5. CASE AnswerMark(i)
  <2> DEFINE q == ListRequest(asked[i].merchant)
             more == <<q>>
  <2>1. Exchange(i, more) /\ rows' = rows /\ failures' = failures /\ asked[i].op = "marked"
    BY <1>5 DEF AnswerMark, Refetch
  <2>2. q \in Requests /\ q.op = "list"
    BY <1>0, RequestTypes DEF ListRequest, Request
  <2> HIDE DEF q
  <2>3. more \in Seq(Requests) /\ more # <<>> /\ Len(more) = 1 /\ more[1] = q /\ DOMAIN more = {1}
    BY <2>2
  <2> HIDE DEF more
  <2>4. /\ ServedTrue' /\ unkept \subseteq unkept'
        /\ \A m \in Merchants, j \in Items : OnServer(m, j) => OnServer(m, j)'
        /\ \A p : MarkAsked(p) /\ p # asked[i].item => MarkAsked(p)'
    BY <2>1, <2>2, <2>3, LeaveKeeps
  <2>5. Corrected'
    <3>1. /\ DOMAIN asked' = 1..Len(asked') /\ Len(asked') = Len(asked) - 1 + Len(more)
          /\ asked'[Len(asked')] = more[Len(more)]
      BY <2>1, <2>3, ExchangeTypes DEF Left, Ends
    <3>2. Len(asked') \in DOMAIN asked'
      BY <2>3, <3>1, AskedTypes
    <3> QED BY <2>2, <2>3, <3>1, <3>2 DEF Corrected, ListAsked
  <2>6. inbox'.of = inbox.of /\ inbox'.read = inbox.read
    BY <1>0, <1>5, InboxSteps DEF AnswerMark, Refetch
  <2>7. ASSUME NEW m \in Merchants, NEW j \in Items, MarkAsked(<<m, j>>) PROVE Kept(m, j)'
    <3>1. CASE <<m, j>> # asked[i].item
      BY <2>4, <2>7, <3>1 DEF Kept
    <3>2. CASE <<m, j>> = asked[i].item
      <4>1. OnServer(m, j) \/ <<m, j>> \in unkept
        BY <2>1, <3>2 DEF ReadInv, ServedTrue, MarkDone
      <4> QED BY <2>4, <2>5, <4>1 DEF Kept
    <3> QED BY <3>1, <3>2
  <2> QED BY <1>s, <2>1, <2>4, <2>5, <2>6, <2>7
<1>6. CASE FailMark(i)
  <2>1. Exchange(i, <<>>) /\ rows' = rows /\ failures' = failures \cup {asked[i].item}
        /\ inbox' = inbox /\ asked[i].op \notin {"list", "served"}
    BY <1>6 DEF FailMark
  <2>2. failures \subseteq failures'
    BY <2>1
  <2>3. /\ ServedTrue' /\ unkept \subseteq unkept' /\ (Corrected => Corrected')
        /\ \A m \in Merchants, j \in Items : OnServer(m, j) => OnServer(m, j)'
        /\ \A p : MarkAsked(p) /\ p # asked[i].item => MarkAsked(p)'
    BY <2>1, <2>2, <1>e, LeaveKeeps
  <2>4. \A m \in Merchants, j \in Items : MarkAsked(<<m, j>>) => Kept(m, j)'
    BY <2>1, <2>3 DEF Kept
  <2> QED BY <1>s, <2>1, <2>2, <2>3, <2>4
<1> QED BY <1>1, <1>2, <1>3, <1>4, <1>5, <1>6 DEF Answer

\* A mark that is lost on the server is known to be.
LEMMA ReadLose ==
    ASSUME TypeOK, ReadInv, NEW m \in Merchants, NEW i \in Items, Lose(m, i) PROVE ReadInv'
<1>1. /\ server' = [server EXCEPT ![m] = @ \ {i}] /\ lost' = lost \cup {<<m, i>>}
      /\ server \in [Merchants -> SUBSET Items]
      /\ inbox' = inbox /\ asked' = asked /\ unkept' = unkept /\ failures' = failures
  BY DEF Lose, TypeOK
<1>2. \A a \in Merchants, j \in Items : OnServer(a, j) => OnServer(a, j)'
  BY <1>1 DEF OnServer
<1>3. Onwards
  BY <1>1, <1>2 DEF Onwards
<1>4. ServedTrue'
  BY <1>3, ServedKeeps DEF ReadInv
<1>5. (Corrected => Corrected') /\ \A p : MarkAsked(p) => MarkAsked(p)'
  BY <1>1 DEF Corrected, ListAsked, MarkAsked
<1>6. \A a \in Merchants, j \in Items : MarkAsked(<<a, j>>) => Kept(a, j)'
  BY <1>5 DEF Kept
<1>7. /\ \A j \in inbox'.read : Kept(inbox.of, j)'
      /\ inbox'.read # {} => inbox'.of \in Merchants
  BY <1>1, <1>2, <1>5, <1>6, KeptKeeps DEF ReadInv
<1> QED BY <1>1, <1>4, <1>7 DEF ReadInv, Kept, OnServer, MarkAsked

\* Nothing looks read for nothing.
THEOREM ReadCorrect == Spec => []ReadIsKept
<1>1. Init => TypeOK /\ ReadInv
  BY TypeInit, ReadInit
<1>2. (TypeOK /\ ReadInv) /\ [Next]_vars => (TypeOK /\ ReadInv)'
  <2>1. ASSUME TypeOK, ReadInv, UNCHANGED vars PROVE ReadInv'
    BY <2>1 DEF vars, rows, ReadInv, ServedTrue, MarkDone, OnServer, Kept, Corrected, ListAsked,
                MarkAsked
  <2> QED BY <2>1, TypeStep, ReadUser, ReadAnswer, ReadLose DEF Next
<1>3. TypeOK /\ ReadInv => ReadIsKept
  BY DEF ReadInv, ReadIsKept, Kept, OnServer, Corrected
<1> QED BY <1>1, <1>2, <1>3, PTL DEF Spec
-----------------------------------------------------------------------------
(***************************************************************************)
(* The quiet bell.  As long as nothing is overtaken and nothing fails, the *)
(* request asked last decides what the bell shows in the end: if it is     *)
(* served, it agrees with the server, unless a mark has been served since, *)
(* whose answer will ask for a list after it.                              *)
(***************************************************************************)
Answering == \E k \in DOMAIN asked : asked[k].op = "marked"

LastAgrees ==
    asked # <<>> /\ asked[Len(asked)].op = "served" /\ ~Answering
        => asked[Len(asked)].read = server[asked[Len(asked)].merchant]

ShownAgrees == asked = <<>> /\ inbox.of # None => inbox.read = server[inbox.of]

QuietInv == ~overtaken /\ failures = {} /\ lost = {} => LastAgrees /\ ShownAgrees

LEMMA QuietInit == ASSUME Init PROVE QuietInv
BY DEF Init, QuietInv, LastAgrees, ShownAgrees

LEMMA QuietUser == ASSUME TypeOK, QuietInv, User PROVE QuietInv'
<1> USE DEF rows
<1>0. Elsewhere /\ inbox \in Inboxes /\ merchant \in Merchants
  BY UserTypes DEF TypeOK
<1>1. ASSUME Unmount \/ Toggle PROVE QuietInv'
  <2>1. asked' = asked /\ inbox' = inbox
    BY <1>1 DEF Unmount, Toggle
  <2> QED BY <1>0, <2>1 DEF QuietInv, LastAgrees, Answering, ShownAgrees, Elsewhere
<1>2. ASSUME NEW q \in Requests, Ask(q), q.op # "served" PROVE QuietInv'
  <2>1. Len(asked') = Len(asked) + 1 /\ asked'[Len(asked')] = q /\ Len(asked) \in Nat
    BY <1>2, AskTypes, AskedTypes
  <2>2. Len(asked') # 0
    BY <2>1
  <2>3. asked' # <<>>
    BY <2>2
  <2> QED BY <1>2, <2>1, <2>3 DEF QuietInv, LastAgrees, ShownAgrees
<1>3. ASSUME NEW m \in Merchants, Mount \/ SwitchMerchant(m) PROVE QuietInv'
  <2>1. \E q \in Requests : Ask(q) /\ q.op # "served"
    BY <1>0, <1>3, RequestTypes DEF Mount, SwitchMerchant, ListRequest, Request
  <2> QED BY <1>2, <2>1
<1>4. ASSUME NEW i \in Items, ClickItem(i) PROVE QuietInv'
  <2>1. inbox.of \in Merchants
    BY <1>0, <1>4 DEF ClickItem, Inboxes
  <2>2. MarkRequest(merchant, <<inbox.of, i>>) \in Requests
        /\ MarkRequest(merchant, <<inbox.of, i>>).op # "served"
    BY <1>0, <2>1, RequestTypes DEF MarkRequest, Request
  <2>3. Ask(MarkRequest(merchant, <<inbox.of, i>>))
    BY <1>4 DEF ClickItem
  <2> QED BY <1>2, <2>2, <2>3
<1> QED BY <1>0, <1>1, <1>3, <1>4 DEF User

LEMMA QuietAnswer ==
    ASSUME TypeOK, QuietInv, NEW i \in DOMAIN asked, Answer(i) PROVE QuietInv'
<1> USE DEF rows
<1>0. /\ asked[i] \in Requests /\ asked[i].merchant \in Merchants /\ asked[i].read \in SUBSET Items
      /\ inbox \in Inboxes /\ server \in [Merchants -> SUBSET Items] /\ asked \in Seq(Requests)
      /\ Len(asked) \in Nat /\ DOMAIN asked = 1..Len(asked) /\ i \in 1..Len(asked) /\ asked # <<>>
  BY AskedTypes, EmptySeq DEF TypeOK
<1>1. CASE Serve(i)
  <2>1. asked' = [asked EXCEPT ![i] = [asked[i] EXCEPT !.op = "served", !.read = server[asked[i].merchant]]]
        /\ server' = server /\ failures' = failures /\ overtaken' = overtaken /\ asked[i].op = "list"
        /\ lost' = lost
    BY <1>1 DEF Serve
  <2>2. [asked[i] EXCEPT !.op = "served", !.read = server[asked[i].merchant]] \in Requests
    BY <1>0, <2>1, RequestTypes
  <2>3. Len(asked') = Len(asked) /\ asked' # <<>>
    <3>1. Len(asked') = Len(asked) /\ Len(asked) # 0
      BY <1>0, <2>1, <2>2, ExceptSeq
    <3> QED BY <3>1
  <2>4. CASE i = Len(asked)
    <3>1. asked'[i] = [asked[i] EXCEPT !.op = "served", !.read = server[asked[i].merchant]]
      BY <1>0, <2>1
    <3>2. asked'[i].merchant = asked[i].merchant /\ asked'[i].read = server[asked[i].merchant]
      BY <1>0, <2>1, <3>1, ServedFields
    <3> QED BY <2>1, <2>3, <2>4, <3>2 DEF QuietInv, LastAgrees, ShownAgrees
  <2>5. CASE i # Len(asked)
    <3>1. asked'[Len(asked)] = asked[Len(asked)]
      BY <1>0, <2>1, <2>5
    <3>2. Answering => Answering'
      <4>1. ASSUME NEW k \in DOMAIN asked, asked[k].op = "marked"
            PROVE  k \in DOMAIN asked' /\ asked'[k].op = "marked"
        BY <2>1, <4>1
      <4> QED BY <4>1 DEF Answering
    <3> QED BY <1>0, <2>1, <2>3, <3>1, <3>2 DEF QuietInv, LastAgrees, ShownAgrees
  <2> QED BY <2>4, <2>5
<1>2. CASE AnswerList(i)
  <2> SUFFICES ASSUME ~overtaken', failures' = {}, lost' = {} PROVE LastAgrees' /\ ShownAgrees'
    BY DEF QuietInv
  <2>1. Exchange(i, <<>>) /\ server' = server /\ failures' = failures /\ lost' = lost
        /\ asked[i].op = "served"
    BY <1>2 DEF AnswerList
  <2>2. Left(asked, asked', i, <<>>) /\ ~overtaken /\ i = 1 /\ asked' \in Seq(Requests)
    BY <2>1, EmptySeq, ExchangeTypes
  <2>3. LastAgrees
    BY <2>1, <2>2 DEF QuietInv
  <2>4. inbox'.of = asked[i].merchant /\ inbox'.read = asked[i].read
    BY <1>0, <1>2, ListSteps DEF AnswerList
  <2>5. CASE Len(asked) = 1
    <3>1. Len(asked') = 0
      BY <2>2, <2>5 DEF Left
    <3>2. asked' = <<>>
      BY <2>2, <3>1, EmptySeq
    <3>3. asked[i].read = server[asked[i].merchant]
      <4>1. ~Answering
        BY <1>0, <2>1, <2>2, <2>5 DEF Answering
      <4> QED BY <1>0, <2>1, <2>2, <2>3, <2>5, <4>1 DEF LastAgrees
    <3> QED BY <2>1, <2>4, <3>2, <3>3 DEF LastAgrees, ShownAgrees
  <2>6. CASE Len(asked) > 1
    <3>1. Ends(asked', asked)
      BY <1>0, <2>2, <2>6 DEF Left
    <3>2. Len(asked') # 0
      BY <1>0, <2>2, <2>6 DEF Left
    <3>3. asked' # <<>>
      BY <3>2
    <3>4. Answering => Answering'
      BY <2>1, <2>2 DEF Answering, Left, Others
    <3> QED BY <1>0, <2>1, <2>3, <3>1, <3>3, <3>4 DEF LastAgrees, ShownAgrees, Ends
  <2> QED BY <1>0, <2>5, <2>6
<1>3. CASE FailList(i) \/ FailMark(i)
  <2>1. failures' # {}
    BY <1>3 DEF FailList, FailMark
  <2> QED BY <2>1 DEF QuietInv
<1>4. CASE AnswerMark(i)
  <2> DEFINE q == ListRequest(asked[i].merchant)
  <2>1. Exchange(i, <<q>>)
    BY <1>4 DEF AnswerMark, Refetch
  <2>2. q \in Requests /\ q.op = "list"
    BY <1>0, RequestTypes DEF ListRequest, Request
  <2> HIDE DEF q
  <2>3. <<q>> \in Seq(Requests) /\ <<q>> # <<>> /\ Len(<<q>>) = 1 /\ <<q>>[1] = q
    BY <2>2
  <2>4. Left(asked, asked', i, <<q>>)
    BY <2>1, <2>3, ExchangeTypes
  <2>5. asked'[Len(asked')] = q /\ Len(asked') = Len(asked)
    BY <1>0, <2>3, <2>4 DEF Left, Ends
  <2>6. asked' # <<>>
    <3>1. Len(asked') # 0
      BY <1>0, <2>5
    <3> QED BY <3>1
  <2> QED BY <2>2, <2>5, <2>6 DEF QuietInv, LastAgrees, ShownAgrees
<1>5. CASE ServeMark(i)
  <2>1. asked' = [asked EXCEPT ![i] = [asked[i] EXCEPT !.op = "marked"]] /\ asked[i].op = "mark"
    BY <1>5 DEF ServeMark
  <2>2. i \in DOMAIN asked' /\ asked'[i].op = "marked"
    BY <1>0, <2>1, MarkedFields
  <2>3. asked' # <<>>
    BY <2>2
  <2> QED BY <2>2, <2>3 DEF QuietInv, LastAgrees, Answering, ShownAgrees
<1> QED BY <1>1, <1>2, <1>3, <1>4, <1>5 DEF Answer

\* What the server has lost is not asked about.
LEMMA QuietLose == ASSUME NEW m \in Merchants, NEW i \in Items, Lose(m, i) PROVE QuietInv'
<1>1. lost' # {}
  BY DEF Lose
<1> QED BY <1>1 DEF QuietInv

\* The quiet bell agrees with the server.
THEOREM QuietCorrect == Spec => []QuietBellAgrees
<1>1. Init => TypeOK /\ QuietInv
  BY TypeInit, QuietInit
<1>2. (TypeOK /\ QuietInv) /\ [Next]_vars => (TypeOK /\ QuietInv)'
  <2>1. ASSUME TypeOK, QuietInv, UNCHANGED vars PROVE QuietInv'
    BY <2>1 DEF vars, rows, QuietInv, LastAgrees, Answering, ShownAgrees
  <2> QED BY <2>1, TypeStep, QuietUser, QuietAnswer, QuietLose DEF Next
<1>3. TypeOK /\ QuietInv => QuietBellAgrees
  BY DEF QuietInv, QuietBellAgrees, ShownAgrees
<1> QED BY <1>1, <1>2, <1>3, PTL DEF Spec
-----------------------------------------------------------------------------
(***************************************************************************)
(* The spinner turns only as long as a list is on its way.  A mark that is *)
(* answered brings a list with it, one that fails leaves the lists alone;  *)
(* both ends of a list stop the spinner.                                   *)
(***************************************************************************)
BellWaits == inbox.loading => ListAsked

LEMMA WaitsInit == ASSUME Init PROVE BellWaits
BY DEF Init, BellWaits

LEMMA WaitsUser == ASSUME TypeOK, BellWaits, User PROVE BellWaits'
<1>0. inbox \in Inboxes /\ merchant \in Merchants
  BY DEF TypeOK
<1>1. ASSUME NEW q \in Requests, Ask(q), inbox'.loading = inbox.loading \/ q.op = "list"
      PROVE  BellWaits'
  <2>1. \A k \in DOMAIN asked : k \in DOMAIN asked' /\ asked'[k] = asked[k]
    BY <1>1, AskTypes
  <2>2. \E k \in DOMAIN asked' : asked'[k] = q
    BY <1>1, AskTypes, AskedTypes
  <2> QED BY <1>1, <2>1, <2>2 DEF BellWaits, ListAsked
<1>2. CASE Mount \/ \E m \in Merchants : SwitchMerchant(m)
  <2>1. PICK m \in Merchants : Ask(ListRequest(m))
    BY <1>0, <1>2 DEF Mount, SwitchMerchant
  <2>2. ListRequest(m) \in Requests /\ ListRequest(m).op = "list"
    BY RequestTypes DEF ListRequest, Request
  <2> QED BY <1>1, <2>1, <2>2
<1>3. ASSUME NEW i \in Items, ClickItem(i) PROVE BellWaits'
  <2>1. inbox.of \in Merchants
    BY <1>0, <1>3 DEF ClickItem, Inboxes
  <2>2. MarkRequest(merchant, <<inbox.of, i>>) \in Requests
    BY <1>0, <2>1, RequestTypes
  <2>3. inbox'.loading = inbox.loading
    BY <1>0, <1>3 DEF ClickItem, MarkReadLocal, Inboxes
  <2> QED BY <1>1, <1>3, <2>2, <2>3 DEF ClickItem
<1>4. CASE Unmount \/ Toggle
  BY <1>4 DEF Unmount, Toggle, BellWaits, ListAsked
<1> QED BY <1>2, <1>3, <1>4 DEF User

LEMMA WaitsAnswer ==
    ASSUME TypeOK, BellWaits, NEW i \in DOMAIN asked, Answer(i) PROVE BellWaits'
<1>0. inbox \in Inboxes /\ asked[i] \in Requests /\ asked[i].merchant \in Merchants
  BY AskedTypes DEF TypeOK
<1>1. CASE Serve(i)
  <2>1. i \in 1..Len(asked) /\ DOMAIN asked = 1..Len(asked)
    BY AskedTypes
  <2>2. asked' = [asked EXCEPT ![i] = [asked[i] EXCEPT !.op = "served", !.read = server[asked[i].merchant]]]
    BY <1>1 DEF Serve
  <2>3. DOMAIN asked' = DOMAIN asked /\ \A k \in DOMAIN asked : k # i => asked'[k] = asked[k]
    BY <2>2
  <2>4. asked'[i].op = "served"
    <3>1. asked'[i] = [asked[i] EXCEPT !.op = "served", !.read = server[asked[i].merchant]]
      BY <2>2
    <3> QED BY <1>0, <3>1 DEF Requests
  <2> QED BY <2>3, <2>4 DEF BellWaits, ListAsked
<1>2. CASE AnswerList(i) \/ FailList(i)
  <2>1. inbox'.loading = FALSE
    BY <1>0, <1>2 DEF AnswerList, FailList, Stopped, Inboxes
  <2> QED BY <2>1 DEF BellWaits
<1>3. CASE AnswerMark(i)
  <2> DEFINE q == ListRequest(asked[i].merchant)
             more == <<q>>
  <2>1. q \in Requests /\ q.op = "list"
    BY <1>0, RequestTypes DEF ListRequest, Request
  <2>2. Exchange(i, more)
    BY <1>3 DEF AnswerMark, Refetch
  <2> HIDE DEF q
  <2>3. more \in Seq(Requests) /\ more # <<>> /\ Len(more) = 1 /\ more[1] = q
    BY <2>1
  <2> HIDE DEF more
  <2>4. /\ DOMAIN asked' = 1..Len(asked') /\ Len(asked') = Len(asked) - 1 + Len(more)
        /\ asked'[Len(asked')] = more[Len(more)]
    BY <2>2, <2>3, ExchangeTypes DEF Left, Ends
  <2>5. Len(asked') \in DOMAIN asked'
    BY <2>3, <2>4, AskedTypes
  <2> QED BY <2>1, <2>3, <2>4, <2>5 DEF BellWaits, ListAsked
<1>4. CASE FailMark(i)
  <2>1. Exchange(i, <<>>) /\ asked[i].op \in {"mark", "marked"} /\ inbox' = inbox
    BY <1>4 DEF FailMark
  <2>2. Others(asked, asked', i)
    BY <2>1, EmptySeq, ExchangeTypes DEF Left
  <2> QED BY <2>1, <2>2 DEF BellWaits, ListAsked, Others
<1>5. CASE ServeMark(i)
  <2>1. /\ asked' = [asked EXCEPT ![i] = [asked[i] EXCEPT !.op = "marked"]]
        /\ asked[i].op = "mark" /\ inbox' = inbox
    BY <1>5 DEF ServeMark
  <2>2. DOMAIN asked' = DOMAIN asked /\ \A k \in DOMAIN asked : k # i => asked'[k] = asked[k]
    BY <2>1
  <2> QED BY <2>1, <2>2 DEF BellWaits, ListAsked
<1> QED BY <1>1, <1>2, <1>3, <1>4, <1>5 DEF Answer

(***************************************************************************)
(* The spinner never waits for nothing: as long as it turns, a list whose  *)
(* answer or failure stops it is on its way, whatever is switched, marked  *)
(* or failed meanwhile.  With the fairness of fetch this is why BellStops  *)
(* holds.                                                                  *)
(***************************************************************************)
THEOREM WaitsCorrect == Spec => []BellWaits
<1>1. Init => TypeOK /\ BellWaits
  BY TypeInit, WaitsInit
<1>2. TypeOK /\ BellWaits /\ [Next]_vars => (TypeOK /\ BellWaits)'
  <2>1. ASSUME TypeOK, BellWaits, UNCHANGED vars PROVE BellWaits'
    BY <2>1 DEF vars, BellWaits, ListAsked
  <2>2. ASSUME NEW m \in Merchants, NEW i \in Items, Lose(m, i), BellWaits PROVE BellWaits'
    BY <2>2 DEF Lose, BellWaits, ListAsked
  <2> QED BY <2>1, <2>2, TypeStep, WaitsUser, WaitsAnswer DEF Next
<1> QED BY <1>1, <1>2, PTL DEF Spec
=============================================================================
