--------------------------- MODULE Portal_proofs ---------------------------
(***************************************************************************)
(* Proofs about two parts of the portal whose requests are never           *)
(* cancelled: the insights (InsightPages), and the overview (Overview, at  *)
(* the end), for any merchants, kinds, insights, pages, runs and clicks.   *)
(* They share the facts about bags of requests.                            *)
(***************************************************************************)
EXTENDS InsightPages, Overview, TLAPS

(***************************************************************************)
(* Bags of requests.                                                       *)
(***************************************************************************)
LEMMA CopiesAre ==
    ASSUME NEW r, NEW n \in Nat
    PROVE  /\ IsABag(Copies(r, n))
           /\ BagToSet(Copies(r, n)) = IF n = 0 THEN {} ELSE {r}
           /\ Number(r, Copies(r, n)) = n
  BY DEF Copies, Number, IsABag, BagIn, BagToSet, EmptyBag, SetToBag

LEMMA EmptyIs == IsABag(EmptyBag) /\ BagToSet(EmptyBag) = {}
  BY DEF IsABag, BagToSet, EmptyBag, SetToBag

LEMMA Joined ==
    ASSUME NEW b, NEW c, IsABag(b), IsABag(c)
    PROVE  /\ IsABag(b (+) c)
           /\ BagToSet(b (+) c) = BagToSet(b) \cup BagToSet(c)
           /\ \A x : x \notin BagToSet(c) => Number(x, b (+) c) = Number(x, b)
  BY DEF Number, IsABag, BagIn, BagToSet, (+)

LEMMA Taken ==
    ASSUME NEW b, NEW c, IsABag(b), IsABag(c)
    PROVE  /\ IsABag(b (-) c)
           /\ BagToSet(b (-) c) \subseteq BagToSet(b)
           /\ BagToSet(b) \ BagToSet(c) \subseteq BagToSet(b (-) c)
  BY DEF IsABag, BagToSet, (-)

LEMMA OneTaken ==
    ASSUME NEW b, NEW r, IsABag(b), r \in BagToSet(b)
    PROVE  Number(r, b (-) Copies(r, 1)) < Number(r, b)
  BY DEF Number, Copies, IsABag, BagIn, BagToSet, (-)

LEMMA NoneTaken ==
    ASSUME NEW b, IsABag(b)
    PROVE  b (-) EmptyBag = b
  BY DEF IsABag, EmptyBag, SetToBag, (-)
-----------------------------------------------------------------------------
(***************************************************************************)
(* The records of the store and of the requests.                           *)
(***************************************************************************)
LEMMA PagesFacts == 1 \in Pages /\ None \in Filters /\ All \in Filters /\ Kinds \subseteq Filters
  BY PagesConfig DEF Pages, Filters

LEMMA PendingIs ==
    ASSUME NEW l \in Lists
    PROVE  /\ Pending(l) \in Lists
           /\ Pending(l).loading /\ ~Pending(l).failed
           /\ Pending(l).shown = l.shown
  BY DEF Lists, Pending

LEMMA FilteredIs ==
    ASSUME NEW l \in Lists, NEW k \in Filters, NEW p \in Pages
    PROVE  /\ [l EXCEPT !.kind = k, !.page = p] \in Lists
           /\ [l EXCEPT !.kind = k, !.page = p].shown = l.shown
           /\ [l EXCEPT !.kind = k, !.page = p].loading = l.loading
           /\ [l EXCEPT !.kind = k, !.page = p].failed = l.failed
           /\ [l EXCEPT !.page = p] \in Lists
           /\ [l EXCEPT !.page = p].shown = l.shown
  BY DEF Lists

LEMMA ResetIs ==
    ASSUME NEW l \in Lists
    PROVE  Reset(l) \in Lists /\ Reset(l).shown = None /\ Reset(l).loading = l.loading
  BY PagesFacts DEF Lists, Reset

LEMMA InitialIs ==
    /\ NoList \in Lists /\ NoDetail \in Details
    /\ [NoDetail EXCEPT !.loading = TRUE] \in Details
    /\ NoDetail.shown = None /\ [NoDetail EXCEPT !.loading = TRUE].shown = None
    /\ ~NoList.loading /\ ~NoDetail.loading
  BY PagesFacts DEF Lists, Details, NoList, NoDetail

LEMMA ListRequestIs ==
    ASSUME NEW m \in Merchants, NEW l \in Lists, NEW k \in Kinds \cup {None}
    PROVE  /\ ListRequest(m, l, k) \in Requests
           /\ ListRequest(m, l, k).op = "list"
           /\ ListRequest(m, l, k).merchant = m /\ ListRequest(m, l, k).run = k
  BY DEF ListRequest, Requests, Lists

LEMMA DetailRequestIs ==
    ASSUME NEW m \in Merchants, NEW i \in Insights
    PROVE  DetailRequest(m, i) \in Requests /\ DetailRequest(m, i).op = "detail"
  BY DEF DetailRequest, Requests

LEMMA RunRequestIs ==
    ASSUME NEW m \in Merchants, NEW k \in Kinds
    PROVE  RunRequest(m, k) \in Requests /\ RunRequest(m, k).op = "run" /\ RunRequest(m, k).run = k
  BY DEF RunRequest, Requests

LEMMA RequestIs ==
    ASSUME NEW r \in Requests
    PROVE  /\ r.op \in {"list", "detail", "run"} /\ r.merchant \in Merchants
           /\ r.op = "list" => r.kind \in Filters /\ r.page \in Pages /\ r.run \in Kinds \cup {None}
           /\ r.op = "detail" => r.insight \in Insights
           /\ r.op = "run" => r.run \in Kinds
  BY DEF Requests

\* An answer to a list request: the page shown is the current one.
LEMMA ListedIs ==
    ASSUME list \in Lists, NEW r \in Requests, r.op = "list", NEW pages \in Pages
    PROVE  /\ Listed(r, pages) \in Lists /\ ~Listed(r, pages).loading
           /\ Listed(r, pages).shown # None /\ Listed(r, pages).shown.merchant = r.merchant
           /\ Listed(r, pages).shown.page = Listed(r, pages).page
  <1>1. [merchant |-> r.merchant, kind |-> r.kind, page |-> r.page]
           \in Shown
    BY RequestIs DEF Shown
  <1>2. Listed(r, pages).shown = [merchant |-> r.merchant, kind |-> r.kind, page |-> r.page]
        /\ Listed(r, pages).page = r.page /\ Listed(r, pages).loading = FALSE
    BY DEF Listed, Lists
  <1>3. Listed(r, pages) \in Lists
    BY <1>1, RequestIs DEF Listed, Lists
  <1>4. [merchant |-> r.merchant, kind |-> r.kind, page |-> r.page] # None
    BY <1>1, NullIsNothing
  <1>. QED
    BY <1>2, <1>3, <1>4

LEMMA UnlistedIs ==
    ASSUME list \in Lists
    PROVE  /\ Unlisted \in Lists /\ ~Unlisted.loading /\ Unlisted.failed
           /\ Unlisted.shown = list.shown
  BY DEF Unlisted, Lists

LEMMA DetailIs ==
    ASSUME detail \in Details, NEW s \in Insights
    PROVE  /\ [detail EXCEPT !.loading = FALSE, !.shown = s] \in Details
           /\ ~[detail EXCEPT !.loading = FALSE, !.shown = s].loading
           /\ [detail EXCEPT !.loading = FALSE, !.shown = s].shown = s
           /\ [detail EXCEPT !.loading = FALSE, !.failed = TRUE] \in Details
           /\ ~[detail EXCEPT !.loading = FALSE, !.failed = TRUE].loading
           /\ [detail EXCEPT !.loading = FALSE, !.failed = TRUE].shown = detail.shown
  BY DEF Details
-----------------------------------------------------------------------------
(***************************************************************************)
(* The two steps every change of the list goes through: the mounted pages  *)
(* fetch what the store now holds, and an answer settles.                  *)
(***************************************************************************)
Routes == {"dashboard", "insights", "detail", "analyses"}

LEMMA FetchersAre ==
    ASSUME NEW route \in Routes
    PROVE  /\ Fetchers(route) \in Nat
           /\ Fetchers(route) > 0 <=> route \in {"insights", "detail"}
  BY DEF Fetchers, Routes

LEMMA ShowStep ==
    ASSUME IsABag(asked), NEW m \in Merchants, NEW l \in Lists, NEW route \in Routes,
           NEW answered, IsABag(answered), NEW more, IsABag(more),
           Show(l, m, route, answered, more)
    PROVE  /\ IsABag(asked') /\ list' \in Lists /\ list'.shown = l.shown
           /\ BagToSet(asked') \subseteq BagToSet(asked) \cup BagToSet(more) \cup Requests
           /\ BagToSet(asked) \ BagToSet(answered) \subseteq BagToSet(asked')
           /\ BagToSet(more) \subseteq BagToSet(asked')
           /\ list'.loading => l.loading \/ Asked("list")' # {}
           /\ route \in {"insights", "detail"} => Asked("list")' # {}
           /\ \A x : x \notin BagToSet(more) \cup {ListRequest(m, l, None)} =>
                 Number(x, asked') = Number(x, asked (-) answered)
  <1>. DEFINE left == asked (-) answered
              fetched == Copies(ListRequest(m, l, None), Fetchers(route))
  <1>1. /\ IsABag(left) /\ BagToSet(left) \subseteq BagToSet(asked)
        /\ BagToSet(asked) \ BagToSet(answered) \subseteq BagToSet(left)
    BY Taken
  <1>2. /\ IsABag(left (+) more) /\ BagToSet(left (+) more) = BagToSet(left) \cup BagToSet(more)
        /\ \A x : x \notin BagToSet(more) => Number(x, left (+) more) = Number(x, left)
    BY <1>1, Joined
  <1>3. /\ IsABag(fetched)
        /\ BagToSet(fetched) = IF Fetchers(route) = 0 THEN {} ELSE {ListRequest(m, l, None)}
    BY CopiesAre, FetchersAre
  <1>4. asked' = (left (+) more) (+) fetched
    BY DEF Show
  <1>5. /\ IsABag(asked') /\ BagToSet(asked') = (BagToSet(left) \cup BagToSet(more)) \cup BagToSet(fetched)
        /\ \A x : x \notin BagToSet(fetched) => Number(x, asked') = Number(x, left (+) more)
    <2>. HIDE DEF left, fetched
    <2>. QED
      BY <1>2, <1>3, <1>4, Joined
  <1>6. ListRequest(m, l, None) \in Requests /\ ListRequest(m, l, None).op = "list"
    BY ListRequestIs
  <1>7. list' = IF Fetchers(route) > 0 THEN Pending(l) ELSE l
    BY DEF Show
  <1>8. Fetchers(route) > 0 => ListRequest(m, l, None) \in BagToSet(asked')
    BY <1>3, <1>5, FetchersAre
  <1>9. Fetchers(route) > 0 => Asked("list")' # {}
    BY <1>6, <1>8 DEF Asked
  <1>10. list' \in Lists /\ list'.shown = l.shown /\ (list'.loading => l.loading \/ Asked("list")' # {})
    BY <1>7, <1>9, PendingIs
  <1>11. \A x : x \notin BagToSet(more) \cup {ListRequest(m, l, None)} =>
                 Number(x, asked') = Number(x, left)
    BY <1>2, <1>3, <1>5
  <1>. QED
    BY <1>1, <1>3, <1>5, <1>6, <1>9, <1>10, <1>11, FetchersAre

\* What a change of the bag does to the requests, whatever joins it.
LEMMA ExchangeStep ==
    ASSUME IsABag(asked), NEW r, r \in BagToSet(asked), NEW more, IsABag(more),
           asked' = (asked (-) Copies(r, 1)) (+) more
    PROVE  /\ IsABag(asked')
           /\ BagToSet(asked') \subseteq BagToSet(asked) \cup BagToSet(more)
           /\ BagToSet(asked) \ {r} \subseteq BagToSet(asked')
           /\ BagToSet(more) \subseteq BagToSet(asked')
           /\ r \notin BagToSet(more) => Number(r, asked') < Number(r, asked)
  <1>. DEFINE left == asked (-) Copies(r, 1)
  <1>1. IsABag(Copies(r, 1)) /\ BagToSet(Copies(r, 1)) = {r}
    BY CopiesAre
  <1>2. /\ IsABag(left) /\ BagToSet(left) \subseteq BagToSet(asked)
        /\ BagToSet(asked) \ {r} \subseteq BagToSet(left)
    BY <1>1, Taken
  <1>3. Number(r, left) < Number(r, asked)
    BY OneTaken
  <1>. HIDE DEF left
  <1>4. asked' = left (+) more
    BY DEF left
  <1>. QED
    BY <1>2, <1>3, <1>4, Joined

LEMMA SettleStep ==
    ASSUME TypeOK, NEW r \in Asked("list"), NEW l \in Lists, Settle(r, l), ~l.loading
    PROVE  /\ IsABag(asked') /\ BagToSet(asked') \subseteq Requests
           /\ list' \in Lists /\ list'.shown = l.shown
           /\ BagToSet(asked) \ {r} \subseteq BagToSet(asked')
           /\ list'.loading => Asked("list")' # {}
           /\ view.route \in {"insights", "detail"} /\ Asked("list")' = {} =>
                 list'.page = l.page /\ list'.failed = l.failed
           /\ r.merchant # merchant => Number(r, asked') < Number(r, asked)
  <1>. DEFINE filtered == IF r.run = None THEN l ELSE [l EXCEPT !.kind = r.run, !.page = 1]
              before == IF l.page # list.page THEN Fetchers(view.route) ELSE 0
              after == filtered.kind # l.kind \/ filtered.page # l.page
              q == ListRequest(merchant, l, None)
              fetched == Copies(q, before)
  <1>1. /\ IsABag(asked) /\ BagToSet(asked) \subseteq Requests /\ merchant \in Merchants
        /\ view.route \in Routes /\ r \in Requests /\ r.op = "list" /\ r \in BagToSet(asked)
    BY DEF TypeOK, Asked, Routes
  <1>2. r.run \in Kinds \cup {None}
    BY <1>1, RequestIs
  <1>3. /\ filtered \in Lists /\ filtered.shown = l.shown /\ ~filtered.loading
        /\ filtered.failed = l.failed
    <2>1. CASE r.run = None
      BY <2>1
    <2>2. CASE r.run # None
      <3>1. r.run \in Filters /\ 1 \in Pages
        BY <1>2, <2>2, PagesFacts
      <3>. QED
        BY <2>2, <3>1, FilteredIs
    <2>. QED
      BY <2>1, <2>2
  <1>4. before \in Nat /\ (before > 0 => view.route \in {"insights", "detail"})
    BY <1>1, FetchersAre
  <1>5. q \in Requests /\ q.op = "list" /\ q.merchant = merchant
    BY <1>1, ListRequestIs
  <1>6. IsABag(fetched) /\ BagToSet(fetched) = IF before = 0 THEN {} ELSE {q}
    BY <1>4, CopiesAre
  <1>7. r.merchant # merchant => r # q /\ r # ListRequest(merchant, filtered, None)
    BY <1>1, <1>3, <1>5, ListRequestIs
  <1>8. CASE after
    <2>1. Show(filtered, merchant, view.route, Copies(r, 1), fetched)
      BY <1>8 DEF Settle
    <2>2. IsABag(Copies(r, 1)) /\ BagToSet(Copies(r, 1)) = {r}
      BY CopiesAre
    <2>3. Number(r, asked (-) Copies(r, 1)) < Number(r, asked)
      BY <1>1, OneTaken
    <2>. HIDE DEF filtered, fetched, q, before
    <2>4. /\ IsABag(asked') /\ list' \in Lists /\ list'.shown = filtered.shown
          /\ BagToSet(asked') \subseteq BagToSet(asked) \cup BagToSet(fetched) \cup Requests
          /\ BagToSet(asked) \ {r} \subseteq BagToSet(asked')
          /\ list'.loading => filtered.loading \/ Asked("list")' # {}
          /\ view.route \in {"insights", "detail"} => Asked("list")' # {}
          /\ \A x : x \notin BagToSet(fetched) \cup {ListRequest(merchant, filtered, None)} =>
                 Number(x, asked') = Number(x, asked (-) Copies(r, 1))
      BY <1>1, <1>3, <1>6, <2>1, <2>2, ShowStep
    <2>. QED
      BY <1>1, <1>3, <1>5, <1>6, <1>7, <2>3, <2>4
  <1>9. CASE ~after
    <2>1. /\ list' = IF before > 0 THEN Pending(filtered) ELSE filtered
          /\ asked' = (asked (-) Copies(r, 1)) (+) fetched
      BY <1>9 DEF Settle
    <2>2. filtered.page = l.page
      BY <1>9
    <2>. HIDE DEF filtered, fetched, q, before
    <2>3. /\ IsABag(asked')
          /\ BagToSet(asked') \subseteq BagToSet(asked) \cup BagToSet(fetched)
          /\ BagToSet(asked) \ {r} \subseteq BagToSet(asked')
          /\ BagToSet(fetched) \subseteq BagToSet(asked')
          /\ r \notin BagToSet(fetched) => Number(r, asked') < Number(r, asked)
      BY <1>1, <1>6, <2>1, ExchangeStep
    <2>4. before > 0 => Asked("list")' # {}
      BY <1>4, <1>5, <1>6, <2>3 DEF Asked
    <2>5. list' \in Lists /\ list'.shown = filtered.shown /\ (list'.loading => before > 0)
      BY <1>3, <2>1, PendingIs
    <2>6. Asked("list")' = {} => list' = filtered
      BY <1>4, <2>1, <2>4
    <2>. QED
      BY <1>1, <1>3, <1>5, <1>6, <1>7, <2>2, <2>3, <2>4, <2>5, <2>6
  <1>. QED
    BY <1>8, <1>9
-----------------------------------------------------------------------------
(***************************************************************************)
(* The invariant: every state is well formed, every spinner has a request  *)
(* that ends it, and a settled list is the current page.  It is inductive  *)
(* as it stands, because what an action adds to the store it adds together *)
(* with the request that will take it away.                                *)
(***************************************************************************)
PagesInv == TypeOK /\ SpinnersEnd /\ SettledPage

LEMMA PagesInit == Init => PagesInv
  <1>. SUFFICES ASSUME Init PROVE PagesInv
    OBVIOUS
  <1>1. TypeOK
    BY PagesConfig, TabConfig, EmptyIs, InitialIs DEF Init, TypeOK
  <1>2. SpinnersEnd /\ SettledPage
    BY InitialIs DEF Init, SpinnersEnd, SettledPage
  <1>. QED
    BY <1>1, <1>2 DEF PagesInv

\* No request of a kind is taken away: its spinner goes on turning.
LEMMA SpinnersKept ==
    ASSUME SpinnersEnd, BagToSet(asked) \subseteq BagToSet(asked')
    PROVE  /\ list' = list => (list'.loading => Asked("list")' # {})
           /\ detail' = detail => (detail'.loading => Asked("detail")' # {})
           /\ running' = running =>
                 (running' # None => \E r \in (Asked("run") \cup Asked("list"))' : r.run = running')
  BY DEF SpinnersEnd, Asked

LEMMA ClickBounds ==
    ASSUME TypeOK, Click
    PROVE  clicks' \in 0..MaxClicks
  BY TabConfig DEF TypeOK, Click

LEMMA OpenStep ==
    ASSUME PagesInv, NEW route \in Routes, NEW i \in Insights \cup {None}, Open(route, i)
    PROVE  PagesInv'
  <1>. DEFINE more == IF i = None THEN EmptyBag ELSE Copies(DetailRequest(merchant, i), 1)
  <1>. USE DEF PagesInv
  <1>1. /\ merchant \in Merchants /\ list \in Lists /\ IsABag(asked)
        /\ BagToSet(asked) \subseteq Requests
    BY DEF TypeOK
  <1>2. /\ IsABag(more) /\ BagToSet(more) \subseteq Requests
        /\ i # None => DetailRequest(merchant, i) \in BagToSet(more)
    BY <1>1, EmptyIs, CopiesAre, DetailRequestIs
  <1>3. Show(list, merchant, route, EmptyBag, more)
    BY DEF Open
  <1>. HIDE DEF more
  <1>4. /\ IsABag(asked') /\ list' \in Lists /\ BagToSet(asked') \subseteq Requests
        /\ BagToSet(asked) \cup BagToSet(more) \subseteq BagToSet(asked')
        /\ list'.loading => list.loading \/ Asked("list")' # {}
        /\ route \in {"insights", "detail"} => Asked("list")' # {}
    BY <1>1, <1>2, <1>3, EmptyIs, ShowStep
  <1>5. /\ clicks' \in 0..MaxClicks /\ merchant' = merchant /\ running' = running
        /\ view' = [route |-> route, link |-> i, selected |-> i]
        /\ detail' = IF i = None THEN detail ELSE [NoDetail EXCEPT !.loading = TRUE]
    BY ClickBounds DEF Open
  <1>6. TypeOK'
    BY <1>4, <1>5, InitialIs DEF TypeOK, Routes
  <1>7. SpinnersEnd'
    <2>1. list'.loading => Asked("list")' # {}
      BY <1>4 DEF SpinnersEnd, Asked
    <2>2. detail'.loading => Asked("detail")' # {}
      <3>1. CASE i = None
        BY <1>4, <1>5, <3>1, SpinnersKept
      <3>2. CASE i # None
        BY <1>1, <1>2, <1>4, <3>2, DetailRequestIs DEF Asked
      <3>. QED
        BY <3>1, <3>2
    <2>. QED
      BY <1>4, <1>5, <2>1, <2>2, SpinnersKept DEF SpinnersEnd
  <1>8. SettledPage'
    BY <1>4, <1>5 DEF SettledPage
  <1>. QED
    BY <1>6, <1>7, <1>8

\* setKindFilter and setPage: the list is another one, and is fetched.
LEMMA FetchStep ==
    ASSUME PagesInv, NEW k \in Filters, NEW p \in Pages,
           NEW l, l \in {[list EXCEPT !.kind = k, !.page = p], [list EXCEPT !.page = p]},
           Click, ShowsList, Show(l, merchant, view.route, EmptyBag, EmptyBag),
           UNCHANGED <<merchant, view, detail, running>>
    PROVE  PagesInv'
  <1>. USE DEF PagesInv
  <1>1. /\ merchant \in Merchants /\ list \in Lists /\ IsABag(asked) /\ view.route \in Routes
        /\ BagToSet(asked) \subseteq Requests /\ view.route \in {"insights", "detail"}
    BY DEF TypeOK, Routes, ShowsList
  <1>2. l \in Lists
    <2>1. [list EXCEPT !.kind = k, !.page = p] \in Lists /\ [list EXCEPT !.page = p] \in Lists
      BY <1>1, FilteredIs
    <2>. QED
      BY <2>1
  <1>3. /\ IsABag(asked') /\ list' \in Lists /\ BagToSet(asked') \subseteq Requests
        /\ BagToSet(asked) \subseteq BagToSet(asked')
        /\ Asked("list")' # {}
    BY <1>1, <1>2, EmptyIs, ShowStep
  <1>4. TypeOK'
    BY <1>3, ClickBounds DEF TypeOK
  <1>5. SpinnersEnd'
    BY <1>3, SpinnersKept DEF SpinnersEnd
  <1>6. SettledPage'
    BY <1>3 DEF SettledPage
  <1>. QED
    BY <1>4, <1>5, <1>6

\* openDetail and submit: one request joins, and the list stays.
LEMMA RequestStep ==
    ASSUME PagesInv, NEW q \in Requests, q.op # "list",
           asked' = asked (+) Copies(q, 1), UNCHANGED <<merchant, list>>
    PROVE  /\ IsABag(asked') /\ BagToSet(asked') \subseteq Requests
           /\ BagToSet(asked) \subseteq BagToSet(asked') /\ q \in BagToSet(asked')
           /\ Asked("list")' = Asked("list")
  <1>1. IsABag(asked) /\ IsABag(Copies(q, 1)) /\ BagToSet(Copies(q, 1)) = {q}
    BY CopiesAre DEF PagesInv, TypeOK
  <1>2. IsABag(asked') /\ BagToSet(asked') = BagToSet(asked) \cup {q}
    BY <1>1, Joined
  <1>. QED
    BY <1>2 DEF PagesInv, TypeOK, Asked

LEMMA OpenDetailStep ==
    ASSUME PagesInv, NEW i \in Insights, OpenDetail(i)
    PROVE  PagesInv'
  <1>. USE DEF PagesInv
  <1>1. DetailRequest(merchant, i) \in Requests /\ DetailRequest(merchant, i).op = "detail"
    BY DetailRequestIs DEF TypeOK
  <1>2. /\ asked' = asked (+) Copies(DetailRequest(merchant, i), 1)
        /\ UNCHANGED <<merchant, list, running>>
        /\ view' = [view EXCEPT !.selected = i] /\ detail' = [NoDetail EXCEPT !.loading = TRUE]
    BY DEF OpenDetail
  <1>3. /\ IsABag(asked') /\ BagToSet(asked') \subseteq Requests
        /\ BagToSet(asked) \subseteq BagToSet(asked')
        /\ DetailRequest(merchant, i) \in BagToSet(asked')
        /\ Asked("list")' = Asked("list")
    BY <1>1, <1>2, RequestStep
  <1>4. TypeOK'
    BY <1>2, <1>3, InitialIs, ClickBounds DEF TypeOK, OpenDetail
  <1>5. Asked("detail")' # {}
    BY <1>1, <1>3 DEF Asked
  <1>6. SpinnersEnd'
    BY <1>2, <1>3, <1>5, SpinnersKept DEF SpinnersEnd
  <1>7. SettledPage'
    BY <1>2, <1>3 DEF SettledPage, TypeOK
  <1>. QED
    BY <1>4, <1>6, <1>7

LEMMA CloseDetailStep ==
    ASSUME PagesInv, CloseDetail
    PROVE  PagesInv'
  <1>. USE DEF PagesInv
  <1>1. /\ UNCHANGED <<merchant, list, running, asked>>
        /\ view' = [view EXCEPT !.selected = None]
        /\ detail' = [detail EXCEPT !.shown = None, !.failed = FALSE]
    BY DEF CloseDetail
  <1>2. detail' \in Details /\ detail'.loading = detail.loading
    BY <1>1 DEF TypeOK, Details
  <1>3. TypeOK'
    BY <1>1, <1>2, ClickBounds DEF TypeOK, CloseDetail
  <1>4. SpinnersEnd'
    BY <1>1, <1>2 DEF SpinnersEnd, Asked
  <1>5. SettledPage'
    BY <1>1 DEF SettledPage, Asked, TypeOK
  <1>. QED
    BY <1>3, <1>4, <1>5

LEMMA RunAnalysisStep ==
    ASSUME PagesInv, NEW k \in Kinds, RunAnalysis(k)
    PROVE  PagesInv'
  <1>. USE DEF PagesInv
  <1>. DEFINE q == RunRequest(merchant, k)
  <1>1. q \in Requests /\ q.op = "run" /\ q.run = k
    BY RunRequestIs DEF TypeOK
  <1>2. /\ asked' = asked (+) Copies(q, 1) /\ running' = k
        /\ UNCHANGED <<merchant, view, list, detail>>
    BY DEF RunAnalysis
  <1>. HIDE DEF q
  <1>3. /\ IsABag(asked') /\ BagToSet(asked') \subseteq Requests
        /\ BagToSet(asked) \subseteq BagToSet(asked') /\ q \in BagToSet(asked')
        /\ Asked("list")' = Asked("list")
    BY <1>1, <1>2, RequestStep
  <1>4. TypeOK'
    BY <1>2, <1>3, ClickBounds DEF TypeOK, RunAnalysis
  <1>5. SpinnersEnd'
    BY <1>1, <1>2, <1>3, SpinnersKept DEF SpinnersEnd, Asked
  <1>6. SettledPage'
    BY <1>2, <1>3 DEF SettledPage
  <1>. QED
    BY <1>4, <1>5, <1>6

LEMMA SwitchStep ==
    ASSUME PagesInv, NEW m \in Merchants, SwitchMerchant(m)
    PROVE  PagesInv' /\ list'.shown = None /\ detail'.shown = None
  <1>. USE DEF PagesInv
  <1>. DEFINE refetch == view.link # None /\ m # merchant
              q == DetailRequest(m, view.link)
              more == IF refetch THEN Copies(q, 1) ELSE EmptyBag
  <1>1. /\ list \in Lists /\ IsABag(asked) /\ view.route \in Routes
        /\ view.link \in Insights \cup {None} /\ BagToSet(asked) \subseteq Requests
    BY DEF TypeOK, Routes
  <1>2. refetch => q \in Requests /\ q.op = "detail"
    BY <1>1, DetailRequestIs
  <1>3. /\ IsABag(more) /\ BagToSet(more) \subseteq Requests
        /\ refetch => q \in BagToSet(more)
    BY <1>2, EmptyIs, CopiesAre
  <1>4. /\ Show(Reset(list), m, view.route, EmptyBag, more)
        /\ detail' = IF refetch THEN [NoDetail EXCEPT !.loading = TRUE] ELSE NoDetail
        /\ merchant' = m /\ running' = None /\ view' = view
    BY DEF SwitchMerchant
  <1>. HIDE DEF more, q, refetch
  <1>5. Reset(list) \in Lists /\ Reset(list).shown = None /\ Reset(list).loading = list.loading
    BY <1>1, ResetIs
  <1>6. /\ IsABag(asked') /\ list' \in Lists /\ list'.shown = None
        /\ BagToSet(asked') \subseteq Requests
        /\ BagToSet(asked) \cup BagToSet(more) \subseteq BagToSet(asked')
        /\ list'.loading => list.loading \/ Asked("list")' # {}
        /\ view.route \in {"insights", "detail"} => Asked("list")' # {}
    BY <1>1, <1>3, <1>4, <1>5, EmptyIs, ShowStep
  <1>7. detail' \in Details /\ detail'.shown = None /\ (detail'.loading => refetch)
    BY <1>4, InitialIs
  <1>8. TypeOK'
    BY <1>4, <1>6, <1>7, ClickBounds DEF TypeOK, SwitchMerchant
  <1>9. SpinnersEnd'
    <2>1. list'.loading => Asked("list")' # {}
      BY <1>6 DEF SpinnersEnd, Asked
    <2>2. refetch => Asked("detail")' # {}
      BY <1>2, <1>3, <1>6 DEF Asked
    <2>. QED
      BY <1>4, <1>7, <2>1, <2>2 DEF SpinnersEnd
  <1>10. SettledPage'
    BY <1>4, <1>6 DEF SettledPage
  <1>. QED
    BY <1>6, <1>7, <1>8, <1>9, <1>10
-----------------------------------------------------------------------------
LEMMA SettledAnswer ==
    ASSUME PagesInv, NEW r \in Asked("list"), NEW l \in Lists, ~l.loading,
           l.failed \/ (l.shown # None /\ l.shown.page = l.page),
           Settle(r, l)
    PROVE  PagesInv'
  <1>. USE DEF PagesInv
  <1>1. /\ IsABag(asked') /\ BagToSet(asked') \subseteq Requests /\ list' \in Lists
        /\ list'.shown = l.shown /\ BagToSet(asked) \ {r} \subseteq BagToSet(asked')
        /\ list'.loading => Asked("list")' # {}
        /\ view.route \in {"insights", "detail"} /\ Asked("list")' = {} =>
              list'.page = l.page /\ list'.failed = l.failed
    BY SettleStep
  <1>2. /\ running' = IF r.run = None THEN running ELSE None
        /\ UNCHANGED <<merchant, view, detail, clicks>>
    BY DEF Settle
  <1>3. r.op = "list"
    BY DEF Asked
  <1>4. TypeOK'
    BY <1>1, <1>2 DEF TypeOK
  <1>5. SpinnersEnd'
    <2>1. detail'.loading => Asked("detail")' # {}
      BY <1>1, <1>2, <1>3 DEF SpinnersEnd, Asked
    <2>2. running' # None => \E x \in (Asked("run") \cup Asked("list"))' : x.run = running'
      BY <1>1, <1>2 DEF SpinnersEnd, Asked
    <2>. QED
      BY <1>1, <2>1, <2>2 DEF SpinnersEnd
  <1>6. SettledPage'
    BY <1>1, <1>2 DEF SettledPage
  <1>. QED
    BY <1>4, <1>5, <1>6

LEMMA ListAnswered ==
    ASSUME PagesInv, AnswerList \/ FailList
    PROVE  PagesInv'
  <1>. USE DEF PagesInv
  <1>1. CASE AnswerList
    <2>1. PICK r \in Asked("list"), pages \in Pages : Settle(r, Listed(r, pages))
      BY <1>1 DEF AnswerList
    <2>2. r \in Requests /\ r.op = "list" /\ list \in Lists
      BY DEF TypeOK, Asked
    <2>. QED
      BY <2>1, <2>2, ListedIs, SettledAnswer
  <1>2. CASE FailList
    <2>1. PICK r \in Asked("list") : Settle(r, Unlisted)
      BY <1>2 DEF FailList
    <2>2. list \in Lists
      BY DEF TypeOK
    <2>. QED
      BY <2>1, <2>2, UnlistedIs, SettledAnswer
  <1>. QED
    BY <1>1, <1>2

\* An answer takes its request away and no other.
LEMMA AnswerStep ==
    ASSUME PagesInv, NEW op, NEW r \in Asked(op), asked' = asked (-) Copies(r, 1)
    PROVE  /\ IsABag(asked') /\ BagToSet(asked') \subseteq Requests
           /\ BagToSet(asked) \ {r} \subseteq BagToSet(asked')
           /\ Number(r, asked') < Number(r, asked)
           /\ \A o : o # op => Asked(o)' = Asked(o)
  <1>1. IsABag(asked) /\ r \in BagToSet(asked) /\ r.op = op
    BY DEF PagesInv, TypeOK, Asked
  <1>2. IsABag(Copies(r, 1)) /\ BagToSet(Copies(r, 1)) = {r}
    BY CopiesAre
  <1>3. /\ IsABag(asked') /\ BagToSet(asked') \subseteq BagToSet(asked)
        /\ BagToSet(asked) \ {r} \subseteq BagToSet(asked')
    BY <1>1, <1>2, Taken
  <1>4. Number(r, asked') < Number(r, asked)
    BY <1>1, OneTaken
  <1>. QED
    BY <1>1, <1>3, <1>4 DEF PagesInv, TypeOK, Asked

LEMMA DetailAnswered ==
    ASSUME PagesInv, AnswerDetail \/ FailDetail
    PROVE  PagesInv'
  <1>. USE DEF PagesInv
  <1>1. PICK r \in Asked("detail") :
           /\ \/ detail' = [detail EXCEPT !.loading = FALSE, !.shown = r.insight]
              \/ detail' = [detail EXCEPT !.loading = FALSE, !.failed = TRUE]
           /\ asked' = asked (-) Copies(r, 1)
           /\ UNCHANGED <<merchant, view, list, running, clicks>>
    BY DEF AnswerDetail, FailDetail
  <1>2. r.insight \in Insights
    BY RequestIs DEF TypeOK, Asked
  <1>3. detail' \in Details /\ ~detail'.loading
    BY <1>1, <1>2, DetailIs DEF TypeOK
  <1>4. /\ IsABag(asked') /\ BagToSet(asked') \subseteq Requests
        /\ \A o : o # "detail" => Asked(o)' = Asked(o)
    BY <1>1, AnswerStep
  <1>5. Asked("list")' = Asked("list") /\ Asked("run")' = Asked("run")
    BY <1>4
  <1>6. TypeOK'
    BY <1>1, <1>3, <1>4 DEF TypeOK
  <1>7. SpinnersEnd'
    BY <1>1, <1>3, <1>5 DEF SpinnersEnd
  <1>8. SettledPage'
    BY <1>1, <1>5 DEF SettledPage
  <1>. QED
    BY <1>6, <1>7, <1>8

LEMMA AnalysisAnswered ==
    ASSUME PagesInv, AnalysisCreated \/ AnalysisFailed
    PROVE  PagesInv'
  <1>. USE DEF PagesInv
  <1>1. CASE AnalysisCreated
    <2>1. PICK r \in Asked("run") :
             /\ list' = Pending(list)
             /\ asked' = (asked (-) Copies(r, 1)) (+) Copies(ListRequest(r.merchant, list, r.run), 1)
             /\ UNCHANGED <<merchant, view, detail, running, clicks>>
      BY <1>1 DEF AnalysisCreated
    <2>. DEFINE q == ListRequest(r.merchant, list, r.run)
    <2>2. r \in Requests /\ r.op = "run" /\ r \in BagToSet(asked)
      BY DEF TypeOK, Asked
    <2>3. q \in Requests /\ q.op = "list" /\ q.run = r.run
      BY <2>2, RequestIs, ListRequestIs DEF TypeOK
    <2>4. IsABag(Copies(q, 1)) /\ BagToSet(Copies(q, 1)) = {q}
      BY CopiesAre
    <2>. HIDE DEF q
    <2>5. asked' = (asked (-) Copies(r, 1)) (+) Copies(q, 1)
      BY <2>1 DEF q
    <2>6. /\ IsABag(asked') /\ BagToSet(asked') \subseteq BagToSet(asked) \cup {q}
          /\ BagToSet(asked) \ {r} \subseteq BagToSet(asked') /\ q \in BagToSet(asked')
      BY <2>2, <2>4, <2>5, ExchangeStep DEF TypeOK
    <2>7. list' \in Lists
      BY <2>1, PendingIs DEF TypeOK
    <2>8. TypeOK'
      BY <2>1, <2>3, <2>6, <2>7 DEF TypeOK
    <2>9. q \in Asked("list")'
      BY <2>3, <2>6 DEF Asked
    <2>10. SpinnersEnd'
      <3>1. detail'.loading => Asked("detail")' # {}
        BY <2>1, <2>2, <2>6 DEF SpinnersEnd, Asked
      <3>2. running' # None => \E x \in (Asked("run") \cup Asked("list"))' : x.run = running'
        <4>1. ASSUME running # None
              PROVE  \E x \in (Asked("run") \cup Asked("list"))' : x.run = running
          <5>1. PICK x \in Asked("run") \cup Asked("list") : x.run = running
            BY <4>1 DEF SpinnersEnd
          <5>2. CASE x = r
            BY <2>3, <2>9, <5>1, <5>2
          <5>3. CASE x # r
            BY <2>6, <5>1, <5>3 DEF Asked
          <5>. QED
            BY <5>2, <5>3
        <4>. QED
          BY <2>1, <4>1
      <3>. QED
        BY <2>9, <3>1, <3>2 DEF SpinnersEnd
    <2>11. SettledPage'
      BY <2>9 DEF SettledPage
    <2>. QED
      BY <2>8, <2>10, <2>11
  <1>2. CASE AnalysisFailed
    <2>1. PICK r \in Asked("run") :
             /\ running' = None /\ asked' = asked (-) Copies(r, 1)
             /\ UNCHANGED <<merchant, view, list, detail, clicks>>
      BY <1>2 DEF AnalysisFailed
    <2>2. /\ IsABag(asked') /\ BagToSet(asked') \subseteq Requests
          /\ \A o : o # "run" => Asked(o)' = Asked(o)
      BY <2>1, AnswerStep
    <2>3. Asked("list")' = Asked("list") /\ Asked("detail")' = Asked("detail")
      BY <2>2
    <2>4. TypeOK'
      BY <2>1, <2>2 DEF TypeOK
    <2>5. SpinnersEnd'
      BY <2>1, <2>3 DEF SpinnersEnd
    <2>6. SettledPage'
      BY <2>1, <2>3 DEF SettledPage
    <2>. QED
      BY <2>4, <2>5, <2>6
  <1>. QED
    BY <1>1, <1>2

LEMMA ClickKindStep ==
    ASSUME PagesInv, NEW k \in Kinds \cup {All}, ClickKind(k)
    PROVE  PagesInv'
  <1>. USE DEF PagesInv
  <1>1. CASE list.kind = k /\ list.page = 1
    <2>1. UNCHANGED <<list, asked, merchant, view, detail, running>>
      BY <1>1 DEF ClickKind
    <2>2. TypeOK'
      BY <2>1, ClickBounds DEF ClickKind, TypeOK
    <2>. QED
      BY <2>1, <2>2 DEF SpinnersEnd, SettledPage, Asked
  <1>2. CASE ~(list.kind = k /\ list.page = 1)
    BY <1>2, PagesFacts, FetchStep DEF ClickKind, Filters
  <1>. QED
    BY <1>1, <1>2

LEMMA ClickPageStep ==
    ASSUME PagesInv, NEW p \in Pages, ClickPage(p)
    PROVE  PagesInv'
  BY PagesFacts, FetchStep DEF ClickPage

LEMMA OpenPageStep ==
    ASSUME PagesInv, OpenPage
    PROVE  PagesInv'
  BY OpenStep DEF OpenPage, Routes

LEMMA PagesStep == PagesInv /\ [Next]_vars => PagesInv'
  <1>. SUFFICES ASSUME PagesInv, [Next]_vars PROVE PagesInv'
    OBVIOUS
  <1>1. CASE User
    BY <1>1, OpenPageStep, CloseDetailStep, ClickKindStep, ClickPageStep, OpenDetailStep,
       RunAnalysisStep, SwitchStep DEF User
  <1>2. CASE Answer
    BY <1>2, ListAnswered, DetailAnswered, AnalysisAnswered DEF Answer
  <1>3. CASE UNCHANGED vars
    BY <1>3 DEF vars, PagesInv, TypeOK, SpinnersEnd, SettledPage, Asked
  <1>. QED
    BY <1>1, <1>2, <1>3 DEF Next

(***************************************************************************)
(* Every reachable state of the pages is well formed; what is on its way   *)
(* is a bag of requests.                                                   *)
(***************************************************************************)
THEOREM TypeCorrect == Spec => []TypeOK
  <1>1. PagesInv => TypeOK
    BY DEF PagesInv
  <1>. QED
    BY <1>1, PagesInit, PagesStep, PTL DEF Spec

(***************************************************************************)
(* No spinner of the list, the detail or an analysis is left without a     *)
(* request on its way that takes it away.                                  *)
(***************************************************************************)
THEOREM SpinnersCorrect == Spec => []SpinnersEnd
  <1>1. PagesInv => SpinnersEnd
    BY DEF PagesInv
  <1>. QED
    BY <1>1, PagesInit, PagesStep, PTL DEF Spec

(***************************************************************************)
(* Once nothing is on its way for the list, what it shows is the page the  *)
(* pagination marks as current, unless the last answer was an error.       *)
(***************************************************************************)
THEOREM SettledCorrect == Spec => []SettledPage
  <1>1. PagesInv => SettledPage
    BY DEF PagesInv
  <1>. QED
    BY <1>1, PagesInit, PagesStep, PTL DEF Spec
-----------------------------------------------------------------------------
\* What the user does never puts another merchant's list, or another insight, on screen.
LEMMA UserShows ==
    ASSUME PagesInv, User
    PROVE  /\ list'.shown = None \/ (merchant' = merchant /\ list'.shown = list.shown)
           /\ \/ detail'.shown = None \/ view'.selected = None
              \/ detail'.shown = detail.shown /\ view' = view
  <1>. USE DEF PagesInv
  <1>0. /\ merchant \in Merchants /\ list \in Lists /\ IsABag(asked) /\ view.route \in Routes
        /\ detail \in Details
    BY DEF TypeOK, Routes
  <1>1. CASE OpenPage
    <2>1. PICK route \in Routes, i \in Insights \cup {None} : Open(route, i)
      BY <1>1 DEF OpenPage, Routes
    <2>. DEFINE more == IF i = None THEN EmptyBag ELSE Copies(DetailRequest(merchant, i), 1)
    <2>2. IsABag(more)
      BY EmptyIs, CopiesAre
    <2>3. /\ Show(list, merchant, route, EmptyBag, more) /\ merchant' = merchant
          /\ view'.selected = None \/ detail' = [NoDetail EXCEPT !.loading = TRUE]
      BY <2>1 DEF Open
    <2>. HIDE DEF more
    <2>4. list'.shown = list.shown
      BY <1>0, <2>2, <2>3, EmptyIs, ShowStep
    <2>. QED
      BY <2>3, <2>4, InitialIs
  <1>2. CASE CloseDetail
    <2>1. merchant' = merchant /\ list' = list /\ detail'.shown = None
      BY <1>0, <1>2 DEF CloseDetail, Details
    <2>. QED
      BY <2>1
  <1>3. ASSUME NEW k \in Filters, NEW p \in Pages,
               \/ Show([list EXCEPT !.kind = k, !.page = p], merchant, view.route, EmptyBag, EmptyBag)
               \/ Show([list EXCEPT !.page = p], merchant, view.route, EmptyBag, EmptyBag)
        PROVE  list'.shown = list.shown
    <2>. DEFINE l == [list EXCEPT !.kind = k, !.page = p]
                n == [list EXCEPT !.page = p]
    <2>1. l \in Lists /\ l.shown = list.shown /\ n \in Lists /\ n.shown = list.shown
      BY <1>0, FilteredIs
    <2>2. Show(l, merchant, view.route, EmptyBag, EmptyBag)
          \/ Show(n, merchant, view.route, EmptyBag, EmptyBag)
      BY <1>3
    <2>. HIDE DEF l, n
    <2>. QED
      BY <1>0, <2>1, <2>2, EmptyIs, ShowStep
  <1>4. ASSUME NEW k \in Kinds \cup {All}, ClickKind(k)
        PROVE  merchant' = merchant /\ list'.shown = list.shown /\ detail' = detail /\ view' = view
    <2>1. k \in Filters /\ 1 \in Pages
      BY PagesFacts DEF Filters
    <2>. QED
      BY <1>3, <1>4, <2>1 DEF ClickKind
  <1>5. ASSUME NEW p \in Pages, ClickPage(p)
        PROVE  merchant' = merchant /\ list'.shown = list.shown /\ detail' = detail /\ view' = view
    BY <1>3, <1>5, PagesFacts DEF ClickPage
  <1>6. ASSUME NEW i \in Insights, OpenDetail(i)
        PROVE  merchant' = merchant /\ list' = list /\ detail'.shown = None
    BY <1>6, InitialIs DEF OpenDetail
  <1>7. ASSUME NEW k \in Kinds, RunAnalysis(k)
        PROVE  merchant' = merchant /\ list' = list /\ detail' = detail /\ view' = view
    BY <1>7 DEF RunAnalysis
  <1>8. ASSUME NEW m \in Merchants, SwitchMerchant(m)
        PROVE  list'.shown = None /\ detail'.shown = None
    BY <1>8, SwitchStep
  <1>. QED
    BY <1>1, <1>2, <1>4, <1>5, <1>6, <1>7, <1>8 DEF User

\* What an answer puts there is of the merchant it was asked for, and it is one
\* answer less on its way.
LEMMA AnswerShows ==
    ASSUME PagesInv, Answer
    PROVE  /\ merchant' = merchant /\ view' = view
           /\ list'.shown # list.shown /\ list'.shown.merchant # merchant =>
                 \E r \in Asked("list") : r.merchant = list'.shown.merchant /\ Answered(r)
           /\ detail'.shown # detail.shown =>
                 \E r \in Asked("detail") : r.insight = detail'.shown /\ Answered(r)
  <1>. USE DEF PagesInv
  <1>0. /\ list \in Lists /\ detail \in Details
        /\ \A op : \A r \in Asked(op) : r \in Requests /\ r.op = op
    BY DEF TypeOK, Asked
  <1>1. CASE AnswerList
    <2>1. PICK r \in Asked("list"), pages \in Pages : Settle(r, Listed(r, pages))
      BY <1>1 DEF AnswerList
    <2>2. /\ Listed(r, pages) \in Lists /\ ~Listed(r, pages).loading
          /\ Listed(r, pages).shown.merchant = r.merchant
      BY <1>0, ListedIs
    <2>3. list'.shown = Listed(r, pages).shown
          /\ (r.merchant # merchant => Number(r, asked') < Number(r, asked))
      BY <2>1, <2>2, SettleStep
    <2>4. merchant' = merchant /\ detail' = detail /\ view' = view
      BY <2>1 DEF Settle
    <2>. QED
      BY <2>2, <2>3, <2>4 DEF Answered
  <1>2. CASE FailList
    <2>1. PICK r \in Asked("list") : Settle(r, Unlisted)
      BY <1>2 DEF FailList
    <2>2. list'.shown = list.shown
      BY <1>0, <2>1, UnlistedIs, SettleStep
    <2>3. merchant' = merchant /\ detail' = detail /\ view' = view
      BY <2>1 DEF Settle
    <2>. QED
      BY <2>2, <2>3
  <1>3. CASE AnswerDetail
    <2>1. PICK r \in Asked("detail") :
             /\ detail' = [detail EXCEPT !.loading = FALSE, !.shown = r.insight]
             /\ asked' = asked (-) Copies(r, 1) /\ UNCHANGED <<merchant, view, list>>
      BY <1>3 DEF AnswerDetail
    <2>2. detail'.shown = r.insight
      BY <1>0, <2>1 DEF Details
    <2>3. Answered(r)
      BY <2>1, AnswerStep DEF Answered
    <2>. QED
      BY <2>1, <2>2, <2>3
  <1>4. CASE FailDetail
    <2>1. merchant' = merchant /\ view' = view /\ list' = list /\ detail'.shown = detail.shown
      BY <1>0, <1>4 DEF FailDetail, Details
    <2>. QED
      BY <2>1
  <1>5. CASE AnalysisCreated
    <2>1. merchant' = merchant /\ view' = view /\ list'.shown = list.shown /\ detail' = detail
      BY <1>0, <1>5, PendingIs DEF AnalysisCreated
    <2>. QED
      BY <2>1
  <1>6. CASE AnalysisFailed
    <2>1. merchant' = merchant /\ view' = view /\ list' = list /\ detail' = detail
      BY <1>6 DEF AnalysisFailed
    <2>. QED
      BY <2>1
  <1>. QED
    BY <1>1, <1>2, <1>3, <1>4, <1>5, <1>6 DEF Answer

(***************************************************************************)
(* Another merchant's list, and another insight than the one selected, get *)
(* on screen only by the answer to a request for them, never by a switch   *)
(* or a click.                                                             *)
(***************************************************************************)
THEOREM StrangersCorrect == Spec => StrangersAreLate
  <1>. DEFINE Explained ==
          /\ ~Foreign /\ Foreign' =>
                 \E r \in Asked("list") : r.merchant = list'.shown.merchant /\ Answered(r)
          /\ ~Stray /\ Stray' =>
                 \E r \in Asked("detail") : r.insight = detail'.shown /\ Answered(r)
  <1>1. PagesInv /\ [Next]_vars => [Explained]_vars
    <2>. SUFFICES ASSUME PagesInv, Next PROVE Explained
      OBVIOUS
    <2>1. CASE User
      BY <2>1, UserShows DEF Foreign, Stray, ShowsDetail
    <2>2. CASE Answer
      BY <2>2, AnswerShows DEF Foreign, Stray, ShowsDetail
    <2>. QED
      BY <2>1, <2>2 DEF Next
  <1>. QED
    BY <1>1, PagesInit, PagesStep, PTL DEF Spec, StrangersAreLate
-----------------------------------------------------------------------------
(***************************************************************************)
(* The overview.                                                           *)
(***************************************************************************)
LEMMA RequestMade ==
    ASSUME NEW op \in {"summary", "trigger", "poll", "cost", "digest"},
           NEW m \in Merchants, NEW r \in RunIds \cup {NoRun}
    PROVE  /\ Request(op, m, r) \in OverviewRequests
           /\ Request(op, m, r).op = op
           /\ Request(op, m, r).merchant = m /\ Request(op, m, r).run = r
  BY DEF Request, OverviewRequests

LEMMA OneIs ==
    ASSUME NEW q
    PROVE  One(q) = Copies(q, 1) /\ IsABag(One(q)) /\ BagToSet(One(q)) = {q}
  BY CopiesAre DEF One

LEMMA AskedIs ==
    ASSUME OverviewTypeOK, NEW op, NEW q \in Asked(op)
    PROVE  /\ q \in OverviewRequests /\ q.op = op /\ q \in BagToSet(asked)
           /\ q.merchant \in Merchants /\ q.run \in RunIds \cup {NoRun}
  BY DEF OverviewTypeOK, Asked, OverviewRequests

\* The effects of the digest ask for the cost of a run that is known.
LEMMA WantedIs ==
    ASSUME NEW m \in Merchants, NEW a \in Agents
    PROVE  /\ IsABag(CostWanted(m, a)) /\ IsABag(DigestWanted(m, a))
           /\ \A q \in BagToSet(CostWanted(m, a)) :
                 q \in OverviewRequests /\ q.op = "cost" /\ Status(q.run) = "completed"
           /\ \A q \in BagToSet(DigestWanted(m, a)) : q \in OverviewRequests /\ q.op = "digest"
  <1>1. a.run \in RunIds \cup {NoRun}
    BY DEF Agents
  <1>2. /\ Request("cost", m, a.run) \in OverviewRequests /\ Request("cost", m, a.run).op = "cost"
        /\ Request("cost", m, a.run).run = a.run
        /\ Request("digest", m, NoRun) \in OverviewRequests
        /\ Request("digest", m, NoRun).op = "digest"
    BY <1>1, RequestMade
  <1>. QED
    BY <1>2, OneIs, EmptyIs DEF CostWanted, DigestWanted

LEMMA ExchangeIs ==
    ASSUME IsABag(asked), NEW answered, NEW more, IsABag(answered), IsABag(more),
           Exchange(answered, more)
    PROVE  /\ IsABag(asked')
           /\ BagToSet(asked') \subseteq BagToSet(asked) \cup BagToSet(more)
           /\ \A q : q \in BagToSet(asked) /\ answered = One(q) /\ q \notin BagToSet(more)
                 => Number(q, asked') < Number(q, asked)
  <1>. DEFINE left == asked (-) answered
  <1>1. IsABag(left) /\ BagToSet(left) \subseteq BagToSet(asked)
    BY Taken
  <1>2. ASSUME NEW q, q \in BagToSet(asked), answered = One(q)
        PROVE  Number(q, left) < Number(q, asked)
    BY <1>2, OneIs, OneTaken
  <1>. HIDE DEF left
  <1>3. asked' = left (+) more
    BY DEF Exchange, left
  <1>. QED
    BY <1>1, <1>2, <1>3, Joined

LEMMA SummaryIs ==
    ASSUME summary \in Summaries, NEW of \in Merchants \cup {None}
    PROVE  /\ PendingSummary(summary) \in Summaries /\ PendingSummary(summary).of = summary.of
           /\ SelectMerchant \in Summaries /\ SelectMerchant.of = None
           /\ PendingSummary(SelectMerchant) \in Summaries /\ PendingSummary(SelectMerchant).of = None
           /\ [summary EXCEPT !.of = of, !.loading = FALSE] \in Summaries
           /\ [summary EXCEPT !.of = of, !.loading = FALSE].of = of
           /\ [summary EXCEPT !.loading = FALSE, !.failed = TRUE] \in Summaries
           /\ [summary EXCEPT !.loading = FALSE, !.failed = TRUE].of = summary.of
  BY DEF Summaries, PendingSummary, SelectMerchant

LEMMA AgentIs ==
    ASSUME agent \in Agents, NEW r \in RunIds \cup {NoRun}
    PROVE  /\ ResetAgent \in Agents
           /\ ResetAgent.run = NoRun /\ ResetAgent.cost = NoRun
           /\ [agent EXCEPT !.generating = TRUE, !.cost = NoRun] \in Agents
           /\ [agent EXCEPT !.generating = TRUE, !.cost = NoRun].run = agent.run
           /\ [agent EXCEPT !.generating = TRUE, !.cost = NoRun].cost = NoRun
           /\ [agent EXCEPT !.generating = FALSE, !.run = r] \in Agents
           /\ [agent EXCEPT !.generating = FALSE, !.run = r].run = r
           /\ [agent EXCEPT !.generating = FALSE, !.run = r].cost = agent.cost
           /\ [agent EXCEPT !.generating = FALSE] \in Agents
           /\ [agent EXCEPT !.generating = FALSE].run = agent.run
           /\ [agent EXCEPT !.generating = FALSE].cost = agent.cost
           /\ [agent EXCEPT !.cost = r] \in Agents
           /\ [agent EXCEPT !.cost = r].run = agent.run
           /\ [agent EXCEPT !.cost = r].cost = r
  BY DEF Agents, ResetAgent
-----------------------------------------------------------------------------
(***************************************************************************)
(* A run the portal polls, pays for or shows is one the server knows, and  *)
(* a poll names the merchant of its run.  Without it, a run id could come  *)
(* to belong to another merchant while the portal holds it.                *)
(***************************************************************************)
RunKnown(r) == Status(r) # "none"

RunsKnown ==
    /\ \A q \in Asked("poll") : RunKnown(q.run) /\ runs[q.run].of = q.merchant
    /\ \A q \in Asked("cost") : RunKnown(q.run)
    /\ agent.run # NoRun => RunKnown(agent.run)
    /\ agent.cost # NoRun => RunKnown(agent.cost)

OverviewInv == OverviewTypeOK /\ RunsKnown

LEMMA OverviewBegins == OverviewInit => OverviewInv
  <1>. SUFFICES ASSUME OverviewInit PROVE OverviewInv
    OBVIOUS
  <1>1. BagToSet(asked) = {} /\ IsABag(asked)
    BY EmptyIs DEF OverviewInit
  <1>2. /\ summary \in Summaries /\ agent \in Agents /\ runs \in [RunIds -> Runs]
        /\ agent.run = NoRun /\ agent.cost = NoRun
    BY DEF OverviewInit, Summaries, Agents, Runs
  <1>3. OverviewTypeOK
    BY <1>1, <1>2, TabConfig DEF OverviewInit, OverviewTypeOK
  <1>4. RunsKnown
    BY <1>1, <1>2 DEF RunsKnown, Asked
  <1>. QED
    BY <1>3, <1>4 DEF OverviewInv

LEMMA OverviewClicks ==
    ASSUME OverviewTypeOK, ClickOverview
    PROVE  clicks' \in 0..MaxClicks
  BY TabConfig DEF OverviewTypeOK, Click, ClickOverview

\* As long as the server's runs stay, it is enough to look at what is new.
LEMMA KnownKept ==
    ASSUME OverviewInv, runs' = runs, NEW more,
           BagToSet(asked') \subseteq BagToSet(asked) \cup more,
           \A q \in more : q.op # "poll" /\ (q.op = "cost" => RunKnown(q.run)),
           agent'.run # NoRun => RunKnown(agent'.run),
           agent'.cost # NoRun => RunKnown(agent'.cost)
    PROVE  RunsKnown'
  BY DEF OverviewInv, RunsKnown, RunKnown, Asked, Status, NoRun

LEMMA KnownStays ==
    ASSUME OverviewInv, runs' = runs, BagToSet(asked') \subseteq BagToSet(asked),
           agent'.run # NoRun => RunKnown(agent'.run),
           agent'.cost # NoRun => RunKnown(agent'.cost)
    PROVE  RunsKnown'
  <1>. DEFINE more == {}
  <1>1. /\ BagToSet(asked') \subseteq BagToSet(asked) \cup more
        /\ \A q \in more : q.op # "poll" /\ (q.op = "cost" => RunKnown(q.run))
    OBVIOUS
  <1>. HIDE DEF more
  <1>. QED
    BY <1>1, KnownKept

LEMMA OverviewClicked ==
    ASSUME OverviewInv, OverviewUser
    PROVE  /\ OverviewInv'
           /\ runs' = runs
           /\ summary'.of = None \/ (merchant' = merchant /\ summary'.of = summary.of)
           /\ \/ agent'.run = NoRun
              \/ merchant' = merchant /\ agent'.run = agent.run
           /\ \/ agent'.cost = NoRun
              \/ merchant' = merchant /\ agent'.cost = agent.cost
  <1>. USE DEF OverviewInv
  <1>0. /\ merchant \in Merchants /\ summary \in Summaries /\ agent \in Agents
        /\ IsABag(asked) /\ BagToSet(asked) \subseteq OverviewRequests
        /\ NoRun \in RunIds \cup {NoRun}
    BY DEF OverviewTypeOK
  <1>1. /\ IsABag(CostWanted(merchant, agent)) /\ IsABag(DigestWanted(merchant, agent))
        /\ \A q \in BagToSet(CostWanted(merchant, agent)) :
              q \in OverviewRequests /\ q.op = "cost" /\ Status(q.run) = "completed"
        /\ \A q \in BagToSet(DigestWanted(merchant, agent)) : q \in OverviewRequests /\ q.op = "digest"
    BY <1>0, WantedIs
  <1>2. ASSUME NEW more, IsABag(more), Exchange(EmptyBag, more), ClickOverview, runs' = runs,
               \A q \in BagToSet(more) : /\ q \in OverviewRequests /\ q.op # "poll"
                                         /\ q.op = "cost" => RunKnown(q.run),
               merchant' \in Merchants, page' \in {"login", "overview", "other"},
               summary' \in Summaries, agent' \in Agents, digest' \in Merchants \cup {None},
               agent'.run \in {NoRun, agent.run}, agent'.cost \in {NoRun, agent.cost}
        PROVE  OverviewInv'
    <2>1. IsABag(asked') /\ BagToSet(asked') \subseteq BagToSet(asked) \cup BagToSet(more)
      BY <1>0, <1>2, EmptyIs, ExchangeIs
    <2>2. OverviewTypeOK'
      BY <1>0, <1>2, <2>1, OverviewClicks DEF OverviewTypeOK
    <2>3. RunsKnown'
      BY <1>2, <2>1, KnownKept DEF RunsKnown
    <2>. QED
      BY <2>2, <2>3
  <1>3. CASE SignIn
    <2>. DEFINE q == Request("summary", merchant, NoRun)
                more == (One(q) (+) CostWanted(merchant, agent)) (+) DigestWanted(merchant, agent)
    <2>1. q \in OverviewRequests /\ q.op = "summary"
      BY <1>0, RequestMade
    <2>2. /\ Exchange(EmptyBag, more) /\ ClickOverview /\ page' = "overview"
          /\ summary' = PendingSummary(summary) /\ UNCHANGED <<merchant, agent, digest, runs>>
      BY <1>3 DEF SignIn
    <2>3. /\ IsABag(more)
          /\ BagToSet(more) = ({q} \cup BagToSet(CostWanted(merchant, agent)))
                                   \cup BagToSet(DigestWanted(merchant, agent))
      BY <1>1, OneIs, Joined
    <2>4. summary' \in Summaries /\ summary'.of = summary.of
      BY <1>0, <2>2, SummaryIs
    <2>. HIDE DEF q, more
    <2>5. \A x \in BagToSet(more) : /\ x \in OverviewRequests /\ x.op # "poll"
                                    /\ x.op = "cost" => RunKnown(x.run)
      BY <1>1, <2>1, <2>3 DEF RunKnown
    <2>6. OverviewInv'
      BY <1>0, <1>2, <2>2, <2>3, <2>4, <2>5 DEF OverviewTypeOK
    <2>. QED
      BY <2>2, <2>4, <2>6
  <1>4. ASSUME NEW to \in {"login", "other"}, ClickOverview, Leave(to)
        PROVE  /\ OverviewInv' /\ UNCHANGED <<merchant, summary, agent, runs>>
    <2>1. IsABag(asked') /\ BagToSet(asked') \subseteq BagToSet(asked)
      BY <1>0, <1>4 DEF Leave, IsABag, BagToSet
    <2>2. page' = to /\ digest' = None /\ UNCHANGED <<merchant, summary, agent, runs>>
      BY <1>4 DEF Leave
    <2>3. OverviewTypeOK'
      BY <1>0, <1>4, <2>1, <2>2, OverviewClicks DEF OverviewTypeOK
    <2>4. RunsKnown'
      BY <2>1, <2>2, KnownStays DEF RunsKnown
    <2>. QED
      BY <2>2, <2>3, <2>4
  <1>5. CASE LeaveOverview \/ SignOut
    BY <1>4, <1>5 DEF LeaveOverview, SignOut
  <1>6. CASE OpenOverview
    <2>. DEFINE more == CostWanted(merchant, agent) (+) DigestWanted(merchant, agent)
    <2>1. /\ Exchange(EmptyBag, more) /\ ClickOverview /\ page' = "overview"
          /\ UNCHANGED <<merchant, summary, agent, digest, runs>>
      BY <1>6 DEF OpenOverview
    <2>2. /\ IsABag(more)
          /\ BagToSet(more) = BagToSet(CostWanted(merchant, agent))
                                   \cup BagToSet(DigestWanted(merchant, agent))
      BY <1>1, Joined
    <2>. HIDE DEF more
    <2>3. \A x \in BagToSet(more) : /\ x \in OverviewRequests /\ x.op # "poll"
                                    /\ x.op = "cost" => RunKnown(x.run)
      BY <1>1, <2>2 DEF RunKnown
    <2>4. OverviewInv'
      BY <1>0, <1>2, <2>1, <2>2, <2>3 DEF OverviewTypeOK
    <2>. QED
      BY <2>1, <2>4
  <1>7. ASSUME NEW op \in {"summary", "trigger"}, NEW m \in Merchants
        PROVE  /\ IsABag(One(Request(op, m, NoRun)))
               /\ \A q \in BagToSet(One(Request(op, m, NoRun))) :
                     /\ q \in OverviewRequests /\ q.op # "poll"
                     /\ q.op = "cost" => RunKnown(q.run)
    BY <1>0, OneIs, RequestMade
  <1>8. CASE Retry
    <2>1. /\ Exchange(EmptyBag, One(Request("summary", merchant, NoRun)))
          /\ ClickOverview /\ summary' = PendingSummary(summary)
          /\ UNCHANGED <<merchant, page, agent, digest, runs>>
      BY <1>8 DEF Retry
    <2>2. summary' \in Summaries /\ summary'.of = summary.of
      BY <1>0, <2>1, SummaryIs
    <2>3. OverviewInv'
      BY <1>0, <1>2, <1>7, <2>1, <2>2 DEF OverviewTypeOK
    <2>. QED
      BY <2>1, <2>2, <2>3
  <1>9. CASE Generate
    <2>1. /\ Exchange(EmptyBag, One(Request("trigger", merchant, NoRun)))
          /\ ClickOverview /\ agent' = [agent EXCEPT !.generating = TRUE, !.cost = NoRun]
          /\ digest' = None /\ UNCHANGED <<merchant, page, summary, runs>>
      BY <1>9 DEF Generate
    <2>2. agent' \in Agents /\ agent'.run = agent.run /\ agent'.cost = NoRun
      BY <1>0, <2>1, AgentIs
    <2>3. OverviewInv'
      BY <1>0, <1>2, <1>7, <2>1, <2>2 DEF OverviewTypeOK
    <2>. QED
      BY <2>1, <2>2, <2>3
  <1>10. ASSUME NEW m \in Merchants, SwitchOverview(m)
         PROVE  /\ OverviewInv' /\ runs' = runs /\ summary'.of = None
                /\ agent'.run = NoRun /\ agent'.cost = NoRun
    <2>1. /\ ClickOverview /\ merchant' = m /\ agent' = ResetAgent
          /\ UNCHANGED <<page, digest, runs>>
      BY <1>10 DEF SwitchOverview
    <2>2. agent' \in Agents /\ agent'.run = NoRun /\ agent'.cost = NoRun
      BY <1>0, <2>1, AgentIs
    <2>3. summary' \in Summaries /\ summary'.of = None
      BY <1>0, <1>10, SummaryIs DEF SwitchOverview
    <2>4. CASE asked' = asked
      <3>1. OverviewTypeOK'
        BY <1>0, <2>1, <2>2, <2>3, <2>4, OverviewClicks DEF OverviewTypeOK
      <3>2. RunsKnown'
        BY <2>1, <2>2, <2>4, KnownStays
      <3>. QED
        BY <2>1, <2>2, <2>3, <3>1, <3>2
    <2>5. CASE Exchange(EmptyBag, One(Request("summary", m, NoRun)))
      <3>1. OverviewInv'
        BY <1>0, <1>2, <1>7, <2>1, <2>2, <2>3, <2>5 DEF OverviewTypeOK
      <3>. QED
        BY <2>1, <2>2, <2>3, <3>1
    <2>. QED
      BY <1>10, <2>4, <2>5 DEF SwitchOverview
  <1>. QED
    BY <1>3, <1>4, <1>5, <1>6, <1>8, <1>9, <1>10 DEF OverviewUser, LeaveOverview, SignOut
-----------------------------------------------------------------------------
\* An answer whose runs stay: it takes its request and may add effects.
LEMMA OverviewAnswered ==
    ASSUME OverviewInv, NEW op, NEW q \in Asked(op), NEW more, IsABag(more),
           Exchange(One(q), more), UNCHANGED <<merchant, page, runs, clicks>>,
           \A x \in BagToSet(more) : /\ x \in OverviewRequests /\ x.op # "poll" /\ x.op # op
                                     /\ x.op = "cost" => RunKnown(x.run),
           summary' \in Summaries, agent' \in Agents, digest' \in Merchants \cup {None},
           agent'.run # NoRun => RunKnown(agent'.run),
           agent'.cost # NoRun => RunKnown(agent'.cost)
    PROVE  OverviewInv' /\ Number(q, asked') < Number(q, asked)
  <1>. USE DEF OverviewInv
  <1>1. IsABag(asked) /\ BagToSet(asked) \subseteq OverviewRequests /\ q \in BagToSet(asked) /\ q.op = op
    BY AskedIs DEF OverviewTypeOK
  <1>2. /\ IsABag(asked') /\ BagToSet(asked') \subseteq BagToSet(asked) \cup BagToSet(more)
        /\ Number(q, asked') < Number(q, asked)
    BY <1>1, OneIs, ExchangeIs
  <1>3. OverviewTypeOK'
    BY <1>1, <1>2 DEF OverviewTypeOK
  <1>4. RunsKnown'
    BY <1>2, KnownKept
  <1>. QED
    BY <1>2, <1>3, <1>4

LEMMA SummaryAnswered ==
    ASSUME OverviewInv, AnswerSummary \/ FailSummary
    PROVE  /\ OverviewInv' /\ UNCHANGED <<merchant, agent, runs>>
           /\ summary'.of # summary.of => LateAnswer("summary", summary'.of)
  <1>1. PICK q \in Asked("summary") :
           /\ \/ summary' = [summary EXCEPT !.of = q.merchant, !.loading = FALSE]
              \/ summary' = [summary EXCEPT !.loading = FALSE, !.failed = TRUE]
           /\ Exchange(One(q), EmptyBag)
           /\ UNCHANGED <<merchant, page, agent, digest, runs, clicks>>
    BY DEF AnswerSummary, FailSummary
  <1>2. q.merchant \in Merchants
    BY AskedIs DEF OverviewInv
  <1>3. summary' \in Summaries /\ summary'.of \in {q.merchant, summary.of}
    BY <1>1, <1>2, SummaryIs DEF OverviewInv, OverviewTypeOK
  <1>4. OverviewInv' /\ Number(q, asked') < Number(q, asked)
    <2>1. /\ agent \in Agents /\ digest \in Merchants \cup {None}
          /\ agent.run # NoRun => RunKnown(agent.run)
          /\ agent.cost # NoRun => RunKnown(agent.cost)
      BY DEF OverviewInv, OverviewTypeOK, RunsKnown
    <2>. QED
      BY <1>1, <1>3, <2>1, EmptyIs, OverviewAnswered
  <1>. QED
    BY <1>1, <1>3, <1>4 DEF LateAnswer

\* A trigger starts a run of its merchant, one no portal knew of.
LEMMA TriggerAnswered ==
    ASSUME OverviewInv, AnswerTrigger
    PROVE  /\ OverviewInv' /\ UNCHANGED <<merchant, summary, agent>>
           /\ \A r : RunKnown(r) => runs'[r].of = runs[r].of
  <1>. USE DEF OverviewInv
  <1>1. PICK q \in Asked("trigger"), r \in RunIds :
           /\ Status(r) = "none"
           /\ runs' = [runs EXCEPT ![r] = [of |-> q.merchant, status |-> "running"]]
           /\ Exchange(One(q), One(Request("poll", q.merchant, r)))
           /\ UNCHANGED <<merchant, page, summary, agent, digest, clicks>>
    BY DEF AnswerTrigger
  <1>2. q.merchant \in Merchants /\ IsABag(asked) /\ BagToSet(asked) \subseteq OverviewRequests
    BY AskedIs DEF OverviewTypeOK
  <1>. DEFINE p == Request("poll", q.merchant, r)
  <1>3. p \in OverviewRequests /\ p.op = "poll" /\ p.merchant = q.merchant /\ p.run = r
    BY <1>2, RequestMade
  <1>4. IsABag(asked') /\ BagToSet(asked') \subseteq BagToSet(asked) \cup {p}
    BY <1>1, <1>2, OneIs, ExchangeIs
  <1>. HIDE DEF p
  <1>5. runs \in [RunIds -> Runs] /\ r # NoRun
    BY DEF OverviewTypeOK, RunIds, NoRun
  <1>6. /\ runs' \in [RunIds -> Runs]
        /\ runs'[r].of = q.merchant /\ runs'[r].status = "running"
    BY <1>1, <1>2, <1>5 DEF Runs
  <1>7. \A s : RunKnown(s) => s # r /\ s # NoRun
    BY <1>1 DEF RunKnown, Status
  <1>8. \A s \in RunIds \ {r} : runs'[s] = runs[s]
    BY <1>1, <1>5
  <1>9. OverviewTypeOK'
    BY <1>1, <1>2, <1>3, <1>4, <1>6 DEF OverviewTypeOK
  <1>10. ASSUME NEW s \in RunIds, RunKnown(s)
         PROVE  RunKnown(s)' /\ runs'[s].of = runs[s].of
    BY <1>7, <1>8, <1>10 DEF RunKnown, Status
  <1>11. RunKnown(r)'
    BY <1>5, <1>6 DEF RunKnown, Status, NoRun
  <1>12. /\ \A x \in Asked("poll") \cup Asked("cost") : x.run \in RunIds \cup {NoRun}
         /\ agent.run \in RunIds \cup {NoRun} /\ agent.cost \in RunIds \cup {NoRun}
    BY AskedIs DEF OverviewTypeOK, Agents
  <1>13. RunsKnown'
    <2>1. /\ Asked("poll")' \subseteq Asked("poll") \cup {p}
          /\ Asked("cost")' \subseteq Asked("cost")
      BY <1>3, <1>4 DEF Asked
    <2>2. \A x \in Asked("poll") : RunKnown(x.run)' /\ runs'[x.run].of = x.merchant
      BY <1>7, <1>10, <1>12 DEF RunsKnown
    <2>3. \A x \in Asked("cost") : RunKnown(x.run)'
      BY <1>7, <1>10, <1>12 DEF RunsKnown
    <2>4. RunKnown(p.run)' /\ runs'[p.run].of = p.merchant
      BY <1>3, <1>6, <1>11
    <2>5. /\ agent.run # NoRun => RunKnown(agent.run)'
          /\ agent.cost # NoRun => RunKnown(agent.cost)'
      <3>1. /\ agent.run # NoRun => agent.run \in RunIds /\ RunKnown(agent.run)
            /\ agent.cost # NoRun => agent.cost \in RunIds /\ RunKnown(agent.cost)
        BY <1>12 DEF RunsKnown
      <3>2. agent' = agent
        BY <1>1
      <3>. QED
        BY <1>10, <3>1, <3>2
    <2>. QED
      BY <1>1, <2>1, <2>2, <2>3, <2>4, <2>5 DEF RunsKnown, NoRun
  <1>14. \A s : RunKnown(s) => runs'[s].of = runs[s].of
    BY <1>1, <1>5, <1>7
  <1>. QED
    BY <1>1, <1>9, <1>13, <1>14

\* The server's run ends: whose it is stays.
LEMMA RunEnded ==
    ASSUME OverviewInv, NEW r \in RunIds, EndRun(r)
    PROVE  /\ OverviewInv' /\ UNCHANGED <<merchant, summary, agent>>
           /\ \A s : RunKnown(s) => runs'[s].of = runs[s].of
  <1>. USE DEF OverviewInv
  <1>1. PICK st \in {"completed", "failed"} :
           /\ runs' = [runs EXCEPT ![r].status = st]
           /\ UNCHANGED <<merchant, page, summary, agent, digest, asked, clicks>>
    BY DEF EndRun
  <1>2. runs \in [RunIds -> Runs]
    BY DEF OverviewTypeOK
  <1>3. /\ runs' \in [RunIds -> Runs]
        /\ runs'[r].of = runs[r].of /\ runs'[r].status # "none"
        /\ \A s : s # r => runs'[s] = runs[s]
    BY <1>1, <1>2 DEF Runs
  <1>4. OverviewTypeOK'
    BY <1>1, <1>3 DEF OverviewTypeOK
  <1>5. ASSUME NEW s, Status(s) # "none"
        PROVE  /\ (IF s = NoRun THEN "none" ELSE runs'[s].status) # "none"
               /\ runs'[s].of = runs[s].of
    BY <1>3, <1>5 DEF Status
  <1>6. RunsKnown'
    BY <1>1, <1>5 DEF RunsKnown, RunKnown, Status, Asked, NoRun
  <1>. QED
    BY <1>1, <1>4, <1>5, <1>6 DEF RunKnown

LEMMA PollAnswered ==
    ASSUME OverviewInv, AnswerPoll
    PROVE  /\ OverviewInv' /\ UNCHANGED <<merchant, summary, runs>>
           /\ agent'.cost = agent.cost
           /\ LateAnswer("poll", RunOf(agent'.run))
  <1>. USE DEF OverviewInv
  <1>. DEFINE more == IF page = "overview"
                      THEN CostWanted(merchant, agent') (+) DigestWanted(merchant, agent')
                      ELSE EmptyBag
  <1>1. PICK q \in Asked("poll") :
           /\ agent' = [agent EXCEPT !.generating = FALSE, !.run = q.run]
           /\ Exchange(One(q), more)
           /\ UNCHANGED <<merchant, page, summary, digest, runs, clicks>>
    BY DEF AnswerPoll
  <1>2. /\ q.run \in RunIds \cup {NoRun} /\ RunKnown(q.run) /\ runs[q.run].of = q.merchant
        /\ agent \in Agents /\ summary \in Summaries /\ digest \in Merchants \cup {None}
        /\ merchant \in Merchants
    BY AskedIs DEF OverviewTypeOK, RunsKnown
  <1>3. agent' \in Agents /\ agent'.run = q.run /\ agent'.cost = agent.cost
    BY <1>1, <1>2, AgentIs
  <1>4. /\ IsABag(CostWanted(merchant, agent')) /\ IsABag(DigestWanted(merchant, agent'))
        /\ \A x \in BagToSet(CostWanted(merchant, agent')) :
              x \in OverviewRequests /\ x.op = "cost" /\ Status(x.run) = "completed"
        /\ \A x \in BagToSet(DigestWanted(merchant, agent')) : x \in OverviewRequests /\ x.op = "digest"
    <2>. DEFINE a == agent'
    <2>1. a \in Agents
      BY <1>3
    <2>. HIDE DEF a
    <2>2. /\ IsABag(CostWanted(merchant, a)) /\ IsABag(DigestWanted(merchant, a))
          /\ \A x \in BagToSet(CostWanted(merchant, a)) :
                x \in OverviewRequests /\ x.op = "cost" /\ Status(x.run) = "completed"
          /\ \A x \in BagToSet(DigestWanted(merchant, a)) : x \in OverviewRequests /\ x.op = "digest"
      BY <1>2, <2>1, WantedIs
    <2>. QED
      BY <2>2 DEF a
  <1>5. /\ IsABag(more)
        /\ \A x \in BagToSet(more) : /\ x \in OverviewRequests /\ x.op # "poll"
                                     /\ x.op = "cost" => RunKnown(x.run)
    BY <1>4, EmptyIs, Joined DEF RunKnown
  <1>. HIDE DEF more
  <1>6. agent'.cost # NoRun => RunKnown(agent'.cost)
    BY <1>3 DEF RunsKnown
  <1>7. OverviewInv' /\ Number(q, asked') < Number(q, asked)
    BY <1>1, <1>2, <1>3, <1>5, <1>6, OverviewAnswered
  <1>8. RunOf(agent'.run) = q.merchant
    BY <1>2, <1>3 DEF RunOf, RunKnown, Status
  <1>. QED
    BY <1>1, <1>3, <1>7, <1>8 DEF LateAnswer

LEMMA RunFailed ==
    ASSUME OverviewInv, NEW op, FailRun(op)
    PROVE  /\ OverviewInv' /\ UNCHANGED <<merchant, summary, runs>>
           /\ agent'.run = agent.run /\ agent'.cost = agent.cost
  <1>1. PICK q \in Asked(op) :
           /\ agent' = [agent EXCEPT !.generating = FALSE]
           /\ Exchange(One(q), EmptyBag)
           /\ UNCHANGED <<merchant, page, summary, digest, runs, clicks>>
    BY DEF FailRun
  <1>2. agent' \in Agents /\ agent'.run = agent.run /\ agent'.cost = agent.cost
    BY <1>1, AgentIs DEF OverviewInv, OverviewTypeOK
  <1>3. /\ agent.run # NoRun => RunKnown(agent.run)
        /\ agent.cost # NoRun => RunKnown(agent.cost)
        /\ summary \in Summaries /\ digest \in Merchants \cup {None}
    BY DEF OverviewInv, OverviewTypeOK, RunsKnown
  <1>4. OverviewInv'
    BY <1>1, <1>2, <1>3, EmptyIs, OverviewAnswered
  <1>. QED
    BY <1>1, <1>2, <1>4

LEMMA CostAnswered ==
    ASSUME OverviewInv, AnswerCost
    PROVE  /\ OverviewInv' /\ UNCHANGED <<merchant, summary, runs>>
           /\ agent'.run = agent.run
  <1>1. PICK q \in Asked("cost") : \E c \in {q.run, agent.cost} :
           /\ agent' = [agent EXCEPT !.cost = c]
           /\ Exchange(One(q), EmptyBag)
           /\ UNCHANGED <<merchant, page, summary, digest, runs, clicks>>
    BY DEF AnswerCost
  <1>2. PICK c \in {q.run, agent.cost} :
           /\ agent' = [agent EXCEPT !.cost = c]
           /\ Exchange(One(q), EmptyBag)
           /\ UNCHANGED <<merchant, page, summary, digest, runs, clicks>>
    BY <1>1
  <1>3. /\ c \in RunIds \cup {NoRun} /\ (c # NoRun => RunKnown(c))
        /\ agent.run # NoRun => RunKnown(agent.run)
        /\ agent \in Agents /\ summary \in Summaries /\ digest \in Merchants \cup {None}
    BY AskedIs DEF OverviewInv, OverviewTypeOK, Agents, RunsKnown
  <1>4. agent' \in Agents /\ agent'.run = agent.run /\ agent'.cost = c
    BY <1>2, <1>3, AgentIs
  <1>5. OverviewInv'
    BY <1>2, <1>3, <1>4, EmptyIs, OverviewAnswered
  <1>. QED
    BY <1>2, <1>4, <1>5

LEMMA DigestAnswered ==
    ASSUME OverviewInv, AnswerDigest
    PROVE  OverviewInv' /\ UNCHANGED <<merchant, summary, runs, agent>>
  <1>1. PICK q \in Asked("digest") :
           /\ digest' \in {q.merchant, None}
           /\ Exchange(One(q), EmptyBag)
           /\ UNCHANGED <<merchant, page, summary, agent, runs, clicks>>
    BY DEF AnswerDigest
  <1>2. /\ agent.run # NoRun => RunKnown(agent.run)
        /\ agent.cost # NoRun => RunKnown(agent.cost)
        /\ summary \in Summaries /\ agent \in Agents /\ digest' \in Merchants \cup {None}
    BY <1>1, AskedIs DEF OverviewInv, OverviewTypeOK, RunsKnown
  <1>3. OverviewInv'
    BY <1>1, <1>2, EmptyIs, OverviewAnswered
  <1>. QED
    BY <1>1, <1>3
-----------------------------------------------------------------------------
LEMMA OverviewStep == OverviewInv /\ [OverviewNext]_overviewVars => OverviewInv'
  <1>. SUFFICES ASSUME OverviewInv, [OverviewNext]_overviewVars PROVE OverviewInv'
    OBVIOUS
  <1>1. CASE OverviewUser
    BY <1>1, OverviewClicked
  <1>2. CASE OverviewAnswer
    BY <1>2, SummaryAnswered, TriggerAnswered, PollAnswered, RunFailed, CostAnswered,
       DigestAnswered DEF OverviewAnswer
  <1>3. ASSUME NEW r \in RunIds, EndRun(r)
        PROVE  OverviewInv'
    BY <1>3, RunEnded
  <1>4. CASE UNCHANGED overviewVars
    BY <1>4 DEF overviewVars, OverviewInv, OverviewTypeOK, RunsKnown, RunKnown, Status, Asked,
                          NoRun
  <1>. QED
    BY <1>1, <1>2, <1>3, <1>4 DEF OverviewNext

(***************************************************************************)
(* Every reachable state of the overview is well formed, for any bound on  *)
(* the runs.                                                               *)
(***************************************************************************)
THEOREM OverviewTypeCorrect == OverviewSpec => []OverviewTypeOK
  <1>1. OverviewInv => OverviewTypeOK
    BY DEF OverviewInv
  <1>. QED
    BY <1>1, OverviewBegins, OverviewStep, PTL DEF OverviewSpec

(***************************************************************************)
(* A summary or a run of another merchant gets into the store only by a    *)
(* late answer: a switch, a login or a page leaves none, and a run never   *)
(* comes to belong to another merchant.                                    *)
(***************************************************************************)
THEOREM OverviewForeignCorrect == OverviewSpec => ForeignDataIsLate
  <1>. DEFINE Explained ==
          /\ OfAnother(summary.of)' /\ ~OfAnother(summary.of) => LateAnswer("summary", summary'.of)
          /\ OfAnother(RunOf(agent.run))' /\ ~OfAnother(RunOf(agent.run))
                => LateAnswer("poll", RunOf(agent.run)')
  <1>1. OverviewInv /\ [OverviewNext]_overviewVars => [Explained]_overviewVars
    <2>. SUFFICES ASSUME OverviewInv, OverviewNext PROVE Explained
      OBVIOUS
    <2>1. CASE OverviewUser
      BY <2>1, OverviewClicked DEF OfAnother, RunOf, NoRun
    <2>2. ASSUME UNCHANGED <<merchant, summary, agent>>,
                 \A s : RunKnown(s) => runs'[s].of = runs[s].of
          PROVE  Explained
      BY <2>2 DEF OverviewInv, RunsKnown, OfAnother, RunOf, NoRun
    <2>3. CASE OverviewAnswer
      <3>1. CASE AnswerSummary \/ FailSummary
        BY <3>1, SummaryAnswered DEF OfAnother, RunOf, NoRun
      <3>2. CASE AnswerTrigger
        BY <2>2, <3>2, TriggerAnswered
      <3>3. CASE AnswerPoll
        BY <3>3, PollAnswered DEF OfAnother, RunOf, NoRun
      <3>4. CASE FailRun("trigger") \/ FailRun("poll")
        BY <3>4, RunFailed DEF OfAnother, RunOf, NoRun
      <3>5. CASE AnswerCost
        BY <3>5, CostAnswered DEF OfAnother, RunOf, NoRun
      <3>6. CASE AnswerDigest
        BY <3>6, DigestAnswered DEF OfAnother, RunOf, NoRun
      <3>. QED
        BY <2>3, <3>1, <3>2, <3>3, <3>4, <3>5, <3>6 DEF OverviewAnswer
    <2>4. ASSUME NEW r \in RunIds, EndRun(r)
          PROVE  Explained
      BY <2>2, <2>4, RunEnded
    <2>. QED
      BY <2>1, <2>3, <2>4 DEF OverviewNext
  <1>. QED
    BY <1>1, OverviewBegins, OverviewStep, PTL DEF OverviewSpec, ForeignDataIsLate
-----------------------------------------------------------------------------
(***************************************************************************)
(* A spinner of the overview turns only as long as a request is on its way *)
(* whose end stops it: a switch, an answer for another merchant, another   *)
(* page and a logout leave none that nothing will stop.                    *)
(***************************************************************************)
SpinnersWait ==
    /\ summary.loading => Asked("summary") # {}
    /\ agent.generating => Asked("trigger") \cup Asked("poll") # {}

LEMMA SpinnersBegin == OverviewInit => SpinnersWait
  BY DEF OverviewInit, SpinnersWait

\* A click takes nothing that a spinner waits for.
LEMMA AskedStays ==
    ASSUME IsABag(asked), NEW more, IsABag(more), Exchange(EmptyBag, more)
    PROVE  /\ \A op : Asked(op) \subseteq Asked(op)'
           /\ \A q \in BagToSet(more) : q \in Asked(q.op)'
  <1>1. asked' = asked (+) more
    BY NoneTaken DEF Exchange
  <1>2. PICK t : t = asked' /\ BagToSet(t) = BagToSet(asked) \cup BagToSet(more)
    BY <1>1, Joined
  <1>. QED
    BY <1>2 DEF Asked

\* An answer takes only the request it is the answer to.
LEMMA AskedLeft ==
    ASSUME IsABag(asked), NEW q, NEW more, IsABag(more), Exchange(One(q), more)
    PROVE  /\ \A op : op # q.op => Asked(op) \subseteq Asked(op)'
           /\ \A x \in BagToSet(more) : x \in Asked(x.op)'
  <1>. DEFINE left == asked (-) One(q)
  <1>1. IsABag(left) /\ BagToSet(asked) \ {q} \subseteq BagToSet(left)
    BY OneIs, Taken
  <1>. HIDE DEF left
  <1>2. asked' = left (+) more
    BY DEF Exchange, left
  <1>3. PICK t : t = asked' /\ BagToSet(t) = BagToSet(left) \cup BagToSet(more)
    BY <1>1, <1>2, Joined
  <1>. QED
    BY <1>1, <1>3 DEF Asked

LEMMA ClickWaits ==
    ASSUME OverviewTypeOK, SpinnersWait, OverviewUser
    PROVE  SpinnersWait'
  <1>0. /\ merchant \in Merchants /\ summary \in Summaries /\ agent \in Agents /\ IsABag(asked)
    BY DEF OverviewTypeOK
  <1>1. ASSUME NEW more, IsABag(more), Exchange(EmptyBag, more),
               \/ summary'.loading = summary.loading
               \/ \E q \in BagToSet(more) : q.op = "summary",
               \/ agent'.generating = agent.generating
               \/ agent'.generating = FALSE
               \/ \E q \in BagToSet(more) : q.op = "trigger"
        PROVE  SpinnersWait'
    <2>1. /\ \A op : Asked(op) \subseteq Asked(op)'
          /\ \A q \in BagToSet(more) : q \in Asked(q.op)'
      BY <1>0, <1>1, AskedStays
    <2>2. summary'.loading => Asked("summary")' # {}
      BY <1>1, <2>1 DEF SpinnersWait
    <2>3. agent'.generating => Asked("trigger")' \cup Asked("poll")' # {}
      BY <1>1, <2>1 DEF SpinnersWait
    <2>. QED
      BY <2>2, <2>3 DEF SpinnersWait
  <1>2. ASSUME NEW op \in {"summary", "trigger"}, NEW m \in Merchants
        PROVE  /\ IsABag(One(Request(op, m, NoRun)))
               /\ \E q \in BagToSet(One(Request(op, m, NoRun))) : q.op = op
    BY OneIs DEF Request
  <1>3. IsABag(CostWanted(merchant, agent)) /\ IsABag(DigestWanted(merchant, agent))
    BY <1>0, WantedIs
  <1>4. CASE SignIn
    <2>. DEFINE first == One(Request("summary", merchant, NoRun))
                more == (first (+) CostWanted(merchant, agent)) (+) DigestWanted(merchant, agent)
    <2>1. IsABag(first) /\ \E q \in BagToSet(first) : q.op = "summary"
      BY <1>0, <1>2
    <2>2. Exchange(EmptyBag, more) /\ agent' = agent
      BY <1>4 DEF SignIn
    <2>. HIDE DEF first
    <2>3. IsABag(more) /\ BagToSet(first) \subseteq BagToSet(more)
      BY <1>3, <2>1, Joined
    <2>. HIDE DEF more
    <2>. QED
      BY <1>1, <2>1, <2>2, <2>3
  <1>5. ASSUME NEW to, Leave(to)
        PROVE  SpinnersWait'
    <2>1. \A q \in BagToSet(asked) : q.op # "digest" => q \in BagToSet(asked')
      BY <1>5 DEF Leave, BagToSet
    <2>2. UNCHANGED <<summary, agent>>
      BY <1>5 DEF Leave
    <2>. QED
      BY <2>1, <2>2 DEF SpinnersWait, Asked
  <1>6. CASE OpenOverview
    <2>. DEFINE more == CostWanted(merchant, agent) (+) DigestWanted(merchant, agent)
    <2>1. Exchange(EmptyBag, more) /\ UNCHANGED <<summary, agent>> /\ IsABag(more)
      BY <1>3, <1>6, Joined DEF OpenOverview
    <2>. HIDE DEF more
    <2>. QED
      BY <1>1, <2>1
  <1>7. CASE Retry
    BY <1>0, <1>1, <1>2, <1>7 DEF Retry
  <1>8. CASE Generate
    BY <1>0, <1>1, <1>2, <1>8 DEF Generate
  <1>9. ASSUME NEW m \in Merchants, SwitchOverview(m)
        PROVE  SpinnersWait'
    <2>1. agent'.generating = FALSE
      BY <1>0, <1>9 DEF SwitchOverview, ResetAgent, Agents
    <2>2. CASE m = merchant
      <3>1. summary' = SelectMerchant /\ asked' = asked
        BY <1>9, <2>2 DEF SwitchOverview
      <3>2. summary'.loading = summary.loading
        BY <1>0, <3>1 DEF SelectMerchant, Summaries
      <3>. QED
        BY <2>1, <3>1, <3>2 DEF SpinnersWait, Asked
    <2>3. CASE m # merchant
      BY <1>1, <1>2, <1>9, <2>1, <2>3 DEF SwitchOverview
    <2>. QED
      BY <2>2, <2>3
  <1>. QED
    BY <1>4, <1>5, <1>6, <1>7, <1>8, <1>9 DEF OverviewUser, LeaveOverview, SignOut

LEMMA AnswerWaits ==
    ASSUME OverviewTypeOK, SpinnersWait, OverviewAnswer
    PROVE  SpinnersWait'
  <1>0. /\ merchant \in Merchants /\ summary \in Summaries /\ agent \in Agents /\ IsABag(asked)
    BY DEF OverviewTypeOK
  <1>1. ASSUME NEW q \in BagToSet(asked), NEW more, IsABag(more), Exchange(One(q), more),
               summary'.loading => summary.loading /\ q.op # "summary",
               agent'.generating =>
                  agent.generating /\ \/ q.op \notin {"trigger", "poll"}
                                      \/ \E x \in BagToSet(more) : x.op = "poll"
        PROVE  SpinnersWait'
    <2>1. /\ \A op : op # q.op => Asked(op) \subseteq Asked(op)'
          /\ \A x \in BagToSet(more) : x \in Asked(x.op)'
      BY <1>0, <1>1, AskedLeft
    <2>2. summary'.loading => Asked("summary")' # {}
      BY <1>1, <2>1 DEF SpinnersWait
    <2>3. agent'.generating => Asked("trigger")' \cup Asked("poll")' # {}
      BY <1>1, <2>1 DEF SpinnersWait
    <2>. QED
      BY <2>2, <2>3 DEF SpinnersWait
  <1>2. \A op : \A q \in Asked(op) : q \in BagToSet(asked) /\ q.op = op
    BY DEF Asked
  <1>3. CASE AnswerSummary \/ FailSummary
    <2>1. PICK q \in Asked("summary") : Exchange(One(q), EmptyBag)
      BY <1>3 DEF AnswerSummary, FailSummary
    <2>2. agent' = agent /\ summary'.loading = FALSE
      BY <1>0, <1>3 DEF AnswerSummary, FailSummary, Summaries
    <2>. QED
      BY <1>1, <1>2, <2>1, <2>2, EmptyIs
  <1>4. CASE AnswerTrigger
    <2>1. PICK q \in Asked("trigger"), r \in RunIds :
             Exchange(One(q), One(Request("poll", q.merchant, r)))
      BY <1>4 DEF AnswerTrigger
    <2>2. UNCHANGED <<summary, agent>>
      BY <1>4 DEF AnswerTrigger
    <2>. DEFINE more == One(Request("poll", q.merchant, r))
    <2>3. IsABag(more) /\ \E x \in BagToSet(more) : x.op = "poll"
      BY OneIs DEF Request
    <2>. HIDE DEF more
    <2>4. Exchange(One(q), more)
      BY <2>1 DEF more
    <2>. QED
      BY <1>1, <1>2, <2>2, <2>3, <2>4
  <1>5. CASE AnswerPoll
    <2>. DEFINE more == IF page = "overview"
                        THEN CostWanted(merchant, agent') (+) DigestWanted(merchant, agent')
                        ELSE EmptyBag
    <2>1. PICK q \in Asked("poll") :
             /\ agent' = [agent EXCEPT !.generating = FALSE, !.run = q.run]
             /\ Exchange(One(q), more) /\ summary' = summary
      BY <1>5 DEF AnswerPoll
    <2>2. agent' \in Agents /\ agent'.generating = FALSE
      BY <1>0, <2>1, AskedIs DEF Agents
    <2>3. IsABag(more)
      <3>1. PICK a : a = agent'
        OBVIOUS
      <3>2. IsABag(CostWanted(merchant, a)) /\ IsABag(DigestWanted(merchant, a))
        BY <1>0, <2>2, <3>1, WantedIs
      <3>. QED
        BY <3>1, <3>2, EmptyIs, Joined
    <2>. HIDE DEF more
    <2>. QED
      BY <1>1, <1>2, <2>1, <2>2, <2>3
  <1>6. ASSUME NEW op \in {"trigger", "poll"}, FailRun(op)
        PROVE  SpinnersWait'
    <2>1. PICK q \in Asked(op) : Exchange(One(q), EmptyBag)
      BY <1>6 DEF FailRun
    <2>2. agent'.generating = FALSE /\ summary' = summary
      BY <1>0, <1>6 DEF FailRun, Agents
    <2>. QED
      BY <1>1, <1>2, <2>1, <2>2, EmptyIs
  <1>7. CASE AnswerCost
    <2>1. PICK q \in Asked("cost") : Exchange(One(q), EmptyBag)
      BY <1>7 DEF AnswerCost
    <2>2. agent'.generating = agent.generating /\ summary' = summary
      BY <1>0, <1>7 DEF AnswerCost, Agents
    <2>. QED
      BY <1>1, <1>2, <2>1, <2>2, EmptyIs
  <1>8. CASE AnswerDigest
    <2>1. PICK q \in Asked("digest") : Exchange(One(q), EmptyBag)
      BY <1>8 DEF AnswerDigest
    <2>2. UNCHANGED <<agent, summary>>
      BY <1>8 DEF AnswerDigest
    <2>. QED
      BY <1>1, <1>2, <2>1, <2>2, EmptyIs
  <1>. QED
    BY <1>3, <1>4, <1>5, <1>6, <1>7, <1>8 DEF OverviewAnswer

\* No spinner of the overview turns without a request that ends it.
THEOREM OverviewWaitsCorrect == OverviewSpec => []SpinnersWait
  <1>1. OverviewInv /\ SpinnersWait /\ [OverviewNext]_overviewVars => SpinnersWait'
    <2>. SUFFICES ASSUME OverviewInv, SpinnersWait, [OverviewNext]_overviewVars
                  PROVE  SpinnersWait'
      OBVIOUS
    <2>1. CASE OverviewUser
      BY <2>1, ClickWaits DEF OverviewInv
    <2>2. CASE OverviewAnswer
      BY <2>2, AnswerWaits DEF OverviewInv
    <2>3. CASE (\E r \in RunIds : EndRun(r)) \/ UNCHANGED overviewVars
      <3>1. UNCHANGED <<summary, agent, asked>>
        BY <2>3 DEF EndRun, overviewVars
      <3>. QED
        BY <3>1 DEF SpinnersWait, Asked
    <2>. QED
      BY <2>1, <2>2, <2>3 DEF OverviewNext
  <1>. QED
    BY <1>1, OverviewBegins, OverviewStep, SpinnersBegin, PTL DEF OverviewSpec
=============================================================================
