------------------------------ MODULE Overview ------------------------------
(***************************************************************************)
(* The overview of the portal in one browser tab: the shell and its        *)
(* session (DashboardShellLayout), the summary (store/dashboardSlice.ts),  *)
(* and the agent's digest (store/agentSlice.ts, AgenticDigest).            *)
(*                                                                         *)
(* The store outlives a change of merchant, a logout and another page: no- *)
(* thing resets it but handleMerchantChange.  The names that InsightPages  *)
(* has too are prefixed, since the two meet in one tab.                    *)
(***************************************************************************)
EXTENDS PortalTab

CONSTANT MaxRuns \* bound on the agent runs ever started

ASSUME OverviewConfig == MaxRuns \in Nat

VARIABLES
    page,     \* what the tab shows: the login page, the overview, another page of the shell
    summary,  \* dashboard.summary (whose it is), isLoading, error
    agent,    \* agent.generating, run, cost
    digest,   \* digest of the mounted AgenticDigest: whose insight it is
    runs      \* the server's runs, in the order they were triggered

overviewVars == <<merchant, page, summary, agent, digest, runs, asked, clicks>>

RunIds == 1..MaxRuns
NoRun == 0

Request(op, m, r) == [op |-> op, merchant |-> m, run |-> r]
One(q) == Copies(q, 1)

Exchange(answered, more) == asked' = (asked (-) answered) (+) more

ClickOverview == Click /\ BagCardinality(asked) < MaxAsked

Status(r) == IF r = NoRun THEN "none" ELSE runs[r].status

\* The effects of AgenticDigest for a completed run: its cost, unless one is
\* there, and the digest; both of the merchant selected by then.
CostWanted(m, a) == IF Status(a.run) = "completed" /\ a.cost = NoRun
                    THEN One(Request("cost", m, a.run)) ELSE EmptyBag
DigestWanted(m, a) == IF Status(a.run) = "completed"
                      THEN One(Request("digest", m, NoRun)) ELSE EmptyBag

OverviewInit ==
    /\ merchant \in Merchants
    /\ page = "login"
    /\ summary = [of |-> None, loading |-> FALSE, failed |-> FALSE]
    /\ agent = [generating |-> FALSE, run |-> NoRun, cost |-> NoRun]
    /\ digest = None
    /\ runs = [r \in RunIds |-> [of |-> None, status |-> "none"]]
    /\ asked = EmptyBag
    /\ clicks = 0

\* fetchDashboardSummary.pending
PendingSummary(s) == [s EXCEPT !.loading = TRUE, !.failed = FALSE]
-----------------------------------------------------------------------------
\* The shell is mounted and fetches the summary; the overview is its first page.
SignIn ==
    /\ ClickOverview /\ page = "login" /\ page' = "overview"
    /\ summary' = PendingSummary(summary)
    /\ Exchange(EmptyBag, (One(Request("summary", merchant, NoRun))
                           (+) CostWanted(merchant, agent)) (+) DigestWanted(merchant, agent))
    /\ UNCHANGED <<merchant, agent, digest, runs>>

\* A digest that is answered after its page was left is nobody's.
Leave(to) ==
    /\ page' = to /\ digest' = None
    /\ asked' = [q \in {q \in BagToSet(asked) : q.op # "digest"} |-> asked[q]]
    /\ UNCHANGED <<merchant, summary, agent, runs>>

LeaveOverview == ClickOverview /\ page = "overview" /\ Leave("other")

SignOut == ClickOverview /\ page # "login" /\ Leave("login")

OpenOverview ==
    /\ ClickOverview /\ page = "other" /\ page' = "overview"
    /\ Exchange(EmptyBag, CostWanted(merchant, agent) (+) DigestWanted(merchant, agent))
    /\ UNCHANGED <<merchant, summary, agent, digest, runs>>

\* handleRetry, on the card of an error.
Retry ==
    /\ ClickOverview /\ page = "overview" /\ summary.failed
    /\ summary' = PendingSummary(summary)
    /\ Exchange(EmptyBag, One(Request("summary", merchant, NoRun)))
    /\ UNCHANGED <<merchant, page, agent, digest, runs>>

\* handleGenerate and startSummary.pending: there is a button as long as no run
\* is known, or when it failed.
Generate ==
    /\ ClickOverview /\ page = "overview"
    /\ ~agent.generating /\ Status(agent.run) \in {"none", "failed"}
    /\ agent' = [agent EXCEPT !.generating = TRUE, !.cost = NoRun]
    /\ digest' = None
    /\ Exchange(EmptyBag, One(Request("trigger", merchant, NoRun)))
    /\ UNCHANGED <<merchant, page, summary, runs>>

\* setSelectedMerchant
SelectMerchant == [summary EXCEPT !.of = None]

\* Mutant of ResetAgent: the run and its cost stay.
ResetGenerating == [agent EXCEPT !.generating = FALSE]

\* Mutant of ResetAgent: the state is made anew, without a cost.
ResetAgentHalf == [generating |-> FALSE, run |-> NoRun]

\* resetAgent
ResetAgent == [agent EXCEPT !.generating = FALSE, !.run = NoRun, !.cost = NoRun]

\* handleMerchantChange, what it does to the overview.  The summary is fetched
\* only if the merchant is another one.
SwitchOverview(m) ==
    /\ ClickOverview /\ page # "login"
    /\ merchant' = m
    /\ agent' = ResetAgent
    /\ IF m = merchant
       THEN summary' = SelectMerchant /\ UNCHANGED asked
       ELSE /\ summary' = PendingSummary(SelectMerchant)
            /\ Exchange(EmptyBag, One(Request("summary", m, NoRun)))
    /\ UNCHANGED <<page, digest, runs>>
-----------------------------------------------------------------------------
\* fetchDashboardSummary.fulfilled and .rejected
AnswerSummary ==
    \E q \in Asked("summary") :
        /\ summary' = [summary EXCEPT !.of = q.merchant, !.loading = FALSE]
        /\ Exchange(One(q), EmptyBag)
        /\ UNCHANGED <<merchant, page, agent, digest, runs, clicks>>

FailSummary ==
    \E q \in Asked("summary") :
        /\ summary' = [summary EXCEPT !.loading = FALSE, !.failed = TRUE]
        /\ Exchange(One(q), EmptyBag)
        /\ UNCHANGED <<merchant, page, agent, digest, runs, clicks>>

\* triggerSummary: the server starts a run, and startSummary goes on to poll it.
AnswerTrigger ==
    \E q \in Asked("trigger"), r \in RunIds :
        /\ Status(r) = "none" /\ \A s \in 1..(r - 1) : Status(s) # "none"
        /\ runs' = [runs EXCEPT ![r] = [of |-> q.merchant, status |-> "running"]]
        /\ Exchange(One(q), One(Request("poll", q.merchant, r)))
        /\ UNCHANGED <<merchant, page, summary, agent, digest, clicks>>

\* The run of the server ends, one way or the other.
EndRun(r) ==
    /\ Status(r) = "running"
    /\ \E s \in {"completed", "failed"} : runs' = [runs EXCEPT ![r].status = s]
    /\ UNCHANGED <<merchant, page, summary, agent, digest, asked, clicks>>

\* Mutant of Ended: only success ends the polling.
EndedWell(r) == Status(r) = "completed"

\* What getRunStatus must answer for the loop of startSummary to end; until then
\* it sleeps and asks again.
Ended(r) == Status(r) # "running"

\* startSummary.fulfilled, whatever run the store knew of; the digest that is
\* mounted reacts to it.
AnswerPoll ==
    \E q \in Asked("poll") :
        /\ Ended(q.run)
        /\ agent' = [agent EXCEPT !.generating = FALSE, !.run = q.run]
        /\ Exchange(One(q), IF page = "overview"
                            THEN CostWanted(merchant, agent') (+) DigestWanted(merchant, agent')
                            ELSE EmptyBag)
        /\ UNCHANGED <<merchant, page, summary, digest, runs, clicks>>

\* startSummary.rejected: the trigger or a poll failed.
FailRun(op) ==
    \E q \in Asked(op) :
        /\ agent' = [agent EXCEPT !.generating = FALSE]
        /\ Exchange(One(q), EmptyBag)
        /\ UNCHANGED <<merchant, page, summary, digest, runs, clicks>>

\* fetchRunCost.fulfilled; nothing handles its failure.
AnswerCost ==
    \E q \in Asked("cost") : \E c \in {q.run, agent.cost} :
        /\ agent' = [agent EXCEPT !.cost = c]
        /\ Exchange(One(q), EmptyBag)
        /\ UNCHANGED <<merchant, page, summary, digest, runs, clicks>>

\* The digest's own request: its insight, or null.
AnswerDigest ==
    \E q \in Asked("digest") : \E d \in {q.merchant, None} :
        /\ digest' = d
        /\ Exchange(One(q), EmptyBag)
        /\ UNCHANGED <<merchant, page, summary, agent, runs, clicks>>

OverviewUser ==
    \/ SignIn \/ LeaveOverview \/ SignOut \/ OpenOverview \/ Retry \/ Generate
    \/ \E m \in Merchants : SwitchOverview(m)

OverviewAnswer ==
    \/ AnswerSummary \/ FailSummary \/ AnswerTrigger \/ FailRun("trigger")
    \/ AnswerPoll \/ FailRun("poll") \/ AnswerCost \/ AnswerDigest

OverviewNext == OverviewUser \/ OverviewAnswer \/ \E r \in RunIds : EndRun(r)

\* Requests are answered or fail, a run ends and the poll that finds it ended is
\* answered; the user need not do anything, and nobody counts on errors.
OverviewFairness ==
    /\ WF_overviewVars(AnswerSummary \/ FailSummary)
    /\ WF_overviewVars(AnswerTrigger \/ FailRun("trigger"))
    /\ WF_overviewVars(AnswerPoll)
    /\ \A r \in RunIds : WF_overviewVars(EndRun(r))

OverviewSpec == OverviewInit /\ [][OverviewNext]_overviewVars /\ OverviewFairness
-----------------------------------------------------------------------------
Summaries == [of : Merchants \cup {None}, loading : BOOLEAN, failed : BOOLEAN]
Agents == [generating : BOOLEAN, run : RunIds \cup {NoRun}, cost : RunIds \cup {NoRun}]
Runs == [of : Merchants \cup {None}, status : {"none", "running", "completed", "failed"}]
OverviewRequests == [op : {"summary", "trigger", "poll", "cost", "digest"},
                     merchant : Merchants, run : RunIds \cup {NoRun}]

OverviewTypeOK ==
    /\ merchant \in Merchants
    /\ page \in {"login", "overview", "other"}
    /\ summary \in Summaries
    /\ agent \in Agents
    /\ digest \in Merchants \cup {None}
    /\ runs \in [RunIds -> Runs]
    /\ BagToSet(asked) \subseteq OverviewRequests /\ IsABag(asked)
    /\ clicks \in 0..MaxClicks

(***************************************************************************)
(* A summary or a run of another merchant gets into the store only by the  *)
(* answer to a request made for that merchant before the switch: the       *)
(* switch itself leaves none.  The cost is not part of it: it is asked for *)
(* under the merchant selected by then, for whatever run is shown.         *)
(***************************************************************************)
RunOf(r) == IF r = NoRun THEN None ELSE runs[r].of
OfAnother(of) == of # None /\ of # merchant

LateAnswer(op, of) ==
    \E q \in Asked(op) : q.merchant = of /\ Number(q, asked') < Number(q, asked)

ForeignDataIsLate ==
    [][/\ OfAnother(summary.of)' /\ ~OfAnother(summary.of) => LateAnswer("summary", summary'.of)
       /\ OfAnother(RunOf(agent.run))' /\ ~OfAnother(RunOf(agent.run)) => LateAnswer("poll", RunOf(agent.run)')]_overviewVars

(***************************************************************************)
(* A spinner of the summary or of the agent stops: the requests it waits   *)
(* for are answered or fail, a run that fails ends the polling as one that *)
(* completes does, and what happens to another merchant's run, or to the   *)
(* page, does not keep it turning.                                         *)
(***************************************************************************)
SpinnersStop ==
    /\ summary.loading ~> ~summary.loading
    /\ agent.generating ~> ~agent.generating
=============================================================================
