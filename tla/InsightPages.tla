---------------------------- MODULE InsightPages ----------------------------
(***************************************************************************)
(* The insights of the portal in one browser tab: the slice of the store   *)
(* (store/insightsSlice.ts), the pages that show it (InsightsListPage,     *)
(* InsightDetailPage, InsightsPanel) and the analyses (AnalysesSuite).     *)
(*                                                                         *)
(* A request is answered to whatever page is there by then.  The effects   *)
(* of a page run with the change of the store that triggers them, so that  *)
(* the requests they send belong to the same step.                         *)
(***************************************************************************)
EXTENDS PortalTab

CONSTANTS
    Kinds, Insights,
    All,       \* the filter button that shows every kind
    MaxPages   \* bound on the pages of a list

ASSUME PagesConfig ==
    /\ All \notin Kinds /\ None \notin Kinds \cup {All} \cup Insights
    /\ MaxPages \in Nat \ {0}

VARIABLES
    view,     \* the route, the insight of its address, the one selected in its panel
    list,     \* filters.kind, currentPage, total in pages, page, loading, error
    detail,   \* the insight of detail, detailLoading, detailError
    running   \* runningKind

vars == <<merchant, view, list, detail, running, asked, clicks>>

Filters == Kinds \cup {All, None}
Pages == 1..MaxPages

\* What the list shows, and null is none of it.
Shown == [merchant : Merchants, kind : Filters, page : Pages]

ASSUME NullIsNothing == None \notin Shown

\* The requests of the three thunks.  A list request with a kind in `run' is
\* the one runAnalysis waits for before it is done.
ListRequest(m, l, k) == [op |-> "list", merchant |-> m, kind |-> l.kind, page |-> l.page, run |-> k]
DetailRequest(m, i) == [op |-> "detail", merchant |-> m, insight |-> i]
RunRequest(m, k) == [op |-> "run", merchant |-> m, run |-> k]

NoList == [kind |-> None, page |-> 1, pages |-> 1, shown |-> None, loading |-> FALSE, failed |-> FALSE]
NoDetail == [shown |-> None, loading |-> FALSE, failed |-> FALSE]

\* fetchInsights.pending
Pending(l) == [l EXCEPT !.loading = TRUE, !.failed = FALSE]

\* Who fetches the list when merchant, page or filters change: on /insights the
\* page and its panel, both.
Fetchers(route) == CASE route = "insights" -> 2 [] route = "detail" -> 1 [] OTHER -> 0

\* The store now holds l: the mounted pages fetch it for m.  `answered' leave,
\* `more' join the requests on their way.
Show(l, m, route, answered, more) ==
    /\ list' = IF Fetchers(route) > 0 THEN Pending(l) ELSE l
    /\ asked' = ((asked (-) answered) (+) more) (+) Copies(ListRequest(m, l, None), Fetchers(route))
    /\ BagCardinality(asked') <= MaxAsked

Init ==
    /\ merchant \in Merchants
    /\ view = [route |-> "dashboard", link |-> None, selected |-> None]
    /\ list = NoList /\ detail = NoDetail /\ running = None
    /\ asked = EmptyBag /\ clicks = 0
-----------------------------------------------------------------------------
\* A page is opened; a panel selects the insight of its address and fetches it.
Open(route, i) ==
    /\ Click /\ route # view.route
    /\ view' = [route |-> route, link |-> i, selected |-> i]
    /\ IF i = None
       THEN Show(list, merchant, route, EmptyBag, EmptyBag) /\ UNCHANGED detail
       ELSE /\ Show(list, merchant, route, EmptyBag, Copies(DetailRequest(merchant, i), 1))
            /\ detail' = [NoDetail EXCEPT !.loading = TRUE]
    /\ UNCHANGED <<merchant, running>>

OpenPage ==
    \/ \E route \in {"dashboard", "insights", "analyses"} : Open(route, None)
    \/ \E i \in Insights : Open("detail", i)

\* The panel shows the detail it has rather than the list.
ShowsDetail == view.selected # None /\ detail.shown # None
ShowsList == view.route \in {"insights", "detail"} /\ ~ShowsDetail

\* setKindFilter; a value that is set already changes nothing.
ClickKind(k) ==
    /\ Click /\ ShowsList
    /\ IF list.kind = k /\ list.page = 1
       THEN UNCHANGED <<list, asked>>
       ELSE Show([list EXCEPT !.kind = k, !.page = 1], merchant, view.route, EmptyBag, EmptyBag)
    /\ UNCHANGED <<merchant, view, detail, running>>

\* setPage
ClickPage(p) ==
    /\ Click /\ ShowsList
    /\ p \in 1..list.pages /\ p # list.page
    /\ Show([list EXCEPT !.page = p], merchant, view.route, EmptyBag, EmptyBag)
    /\ UNCHANGED <<merchant, view, detail, running>>

\* openDetail: a card of the list.
OpenDetail(i) ==
    /\ Click /\ ShowsList /\ list.shown # None
    /\ view' = [view EXCEPT !.selected = i]
    /\ detail' = [NoDetail EXCEPT !.loading = TRUE]
    /\ asked' = asked (+) Copies(DetailRequest(merchant, i), 1)
    /\ BagCardinality(asked') <= MaxAsked
    /\ UNCHANGED <<merchant, list, running>>

\* clearDetail, by the button back to the list.
CloseDetail ==
    /\ Click /\ ShowsDetail
    /\ view' = [view EXCEPT !.selected = None]
    /\ detail' = [detail EXCEPT !.shown = None, !.failed = FALSE]
    /\ UNCHANGED <<merchant, list, running, asked>>

\* submit: only the button of the kind that runs is disabled.
RunAnalysis(k) ==
    /\ Click /\ view.route = "analyses" /\ running # k
    /\ running' = k
    /\ asked' = asked (+) Copies(RunRequest(merchant, k), 1)
    /\ BagCardinality(asked') <= MaxAsked
    /\ UNCHANGED <<merchant, view, list, detail>>

\* Mutant of Reset: the list of the old merchant is left on screen.
ResetFilters(l) == [l EXCEPT !.kind = None, !.page = 1]

\* resetInsights
Reset(l) == [l EXCEPT !.kind = None, !.page = 1, !.pages = 1, !.shown = None]

\* handleMerchantChange, what it does to the insights: the pages fetch the new
\* merchant's, and a panel with an address its insight.
SwitchMerchant(m) ==
    /\ Click
    /\ merchant' = m
    /\ running' = None
    /\ IF view.link # None /\ m # merchant
       THEN /\ detail' = [NoDetail EXCEPT !.loading = TRUE]
            /\ Show(Reset(list), m, view.route, EmptyBag, Copies(DetailRequest(m, view.link), 1))
       ELSE /\ detail' = NoDetail
            /\ Show(Reset(list), m, view.route, EmptyBag, EmptyBag)
    /\ UNCHANGED view
-----------------------------------------------------------------------------
\* Mutant of Listed: the current page is left as it is.
ListedOnly(r, pages) ==
    [list EXCEPT !.loading = FALSE, !.pages = pages,
                 !.shown = [merchant |-> r.merchant, kind |-> r.kind, page |-> r.page]]

\* Mutant of Listed: pages counted from zero.
ListedFromZero(r, pages) == [ListedOnly(r, pages) EXCEPT !.page = r.page - 1]

\* fetchInsights.fulfilled: the page answered becomes the current one.
Listed(r, pages) ==
    [list EXCEPT !.loading = FALSE, !.pages = pages, !.page = r.page,
                 !.shown = [merchant |-> r.merchant, kind |-> r.kind, page |-> r.page]]

\* Mutant of Unlisted: the error leaves the spinner on.
UnlistedLoading == [list EXCEPT !.failed = TRUE]

\* fetchInsights.rejected
Unlisted == [list EXCEPT !.loading = FALSE, !.failed = TRUE]

\* The answer leaves `l' in the store.  If it ends an analysis, submit then sets
\* the filter to its kind.  Every change is fetched by the pages.
Settle(r, l) ==
    LET filtered == IF r.run = None THEN l ELSE [l EXCEPT !.kind = r.run, !.page = 1]
        before == IF l.page # list.page THEN Fetchers(view.route) ELSE 0
        after == filtered.kind # l.kind \/ filtered.page # l.page
        fetched == Copies(ListRequest(merchant, l, None), before)
    IN /\ running' = IF r.run = None THEN running ELSE None
       /\ IF after
          THEN Show(filtered, merchant, view.route, Copies(r, 1), fetched)
          ELSE /\ list' = IF before > 0 THEN Pending(filtered) ELSE filtered
               /\ asked' = (asked (-) Copies(r, 1)) (+) fetched
               /\ BagCardinality(asked') <= MaxAsked
       /\ UNCHANGED <<merchant, view, detail, clicks>>

AnswerList ==
    \E r \in Asked("list") : \E pages \in Pages : Settle(r, Listed(r, pages))

FailList == \E r \in Asked("list") : Settle(r, Unlisted)

\* fetchInsightDetail.fulfilled and .rejected; no provenance is no failure.  The
\* answer is the insight of that id, whichever merchant it was asked for: the
\* portal's own server ignores the merchant, and the backend has no such endpoint.
AnswerDetail ==
    \E r \in Asked("detail") :
        /\ detail' = [detail EXCEPT !.loading = FALSE, !.shown = r.insight]
        /\ asked' = asked (-) Copies(r, 1)
        /\ UNCHANGED <<merchant, view, list, running, clicks>>

FailDetail ==
    \E r \in Asked("detail") :
        /\ detail' = [detail EXCEPT !.loading = FALSE, !.failed = TRUE]
        /\ asked' = asked (-) Copies(r, 1)
        /\ UNCHANGED <<merchant, view, list, running, clicks>>

\* The analysis is there: runAnalysis fetches the list of the merchant it was
\* run for, with the filters of now.
AnalysisCreated ==
    \E r \in Asked("run") :
        /\ list' = Pending(list)
        /\ asked' = (asked (-) Copies(r, 1)) (+) Copies(ListRequest(r.merchant, list, r.run), 1)
        /\ UNCHANGED <<merchant, view, detail, running, clicks>>

\* runAnalysis.rejected
AnalysisFailed ==
    \E r \in Asked("run") :
        /\ running' = None
        /\ asked' = asked (-) Copies(r, 1)
        /\ UNCHANGED <<merchant, view, list, detail, clicks>>

User ==
    \/ OpenPage \/ CloseDetail
    \/ \E k \in Kinds \cup {All} : ClickKind(k)
    \/ \E p \in Pages : ClickPage(p)
    \/ \E i \in Insights : OpenDetail(i)
    \/ \E k \in Kinds : RunAnalysis(k)
    \/ \E m \in Merchants : SwitchMerchant(m)

Answer ==
    \/ AnswerList \/ FailList \/ AnswerDetail \/ FailDetail
    \/ AnalysisCreated \/ AnalysisFailed

Next == User \/ Answer

Spec == Init /\ [][Next]_vars
-----------------------------------------------------------------------------
Requests ==
    [op : {"list"}, merchant : Merchants, kind : Filters, page : Pages, run : Kinds \cup {None}]
    \cup [op : {"detail"}, merchant : Merchants, insight : Insights]
    \cup [op : {"run"}, merchant : Merchants, run : Kinds]

Lists ==
    [kind : Filters, page : Pages, pages : Pages, loading : BOOLEAN, failed : BOOLEAN,
     shown : Shown \cup {None}]

Details == [shown : Insights \cup {None}, loading : BOOLEAN, failed : BOOLEAN]

TypeOK ==
    /\ merchant \in Merchants
    /\ view \in [route : {"dashboard", "insights", "detail", "analyses"},
                 link : Insights \cup {None}, selected : Insights \cup {None}]
    /\ list \in Lists
    /\ detail \in Details
    /\ running \in Kinds \cup {None}
    /\ BagToSet(asked) \subseteq Requests /\ IsABag(asked)
    /\ clicks \in 0..MaxClicks

(***************************************************************************)
(* A spinner, or a disabled button, is there only as long as a request is  *)
(* on its way that will take it away: whatever the answers' order, their   *)
(* failures and the pages opened meanwhile, none is left turning for good. *)
(***************************************************************************)
SpinnersEnd ==
    /\ list.loading => Asked("list") # {}
    /\ detail.loading => Asked("detail") # {}
    /\ running # None => \E r \in Asked("run") \cup Asked("list") : r.run = running

(***************************************************************************)
(* Once the list requests are answered and the last one did not fail, the  *)
(* list on screen is the page the pagination marks as current, in whatever *)
(* order several pages were asked for and answered.                        *)
(***************************************************************************)
SettledPage ==
    (view.route \in {"insights", "detail"} /\ Asked("list") = {} /\ ~list.failed)
        => list.shown # None /\ list.shown.page = list.page

(***************************************************************************)
(* The list of another merchant, and the detail of another insight than    *)
(* the one selected, get on screen only by the answer to a request for     *)
(* them, sent before: no switch, address, card or button leaves what was   *)
(* there, in whatever order they and the answers come.                     *)
(***************************************************************************)
Foreign == list.shown # None /\ list.shown.merchant # merchant
Stray == ShowsDetail /\ detail.shown # view.selected

Answered(r) == Number(r, asked') < Number(r, asked)

StrangersAreLate ==
    [][/\ ~Foreign /\ Foreign' =>
              \E r \in Asked("list") : r.merchant = list'.shown.merchant /\ Answered(r)
       /\ ~Stray /\ Stray' =>
              \E r \in Asked("detail") : r.insight = detail'.shown /\ Answered(r)]_vars
=============================================================================
