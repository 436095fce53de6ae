# A verification project for the ZarinPal merchant dashboard

TLA+ models of the backend's own logic, TLC runs that check them on small
instances, and TLAPS proofs of what matters most for every instance. Paths are
relative to the repository; `backend/` is short for `src/backend/`.

Every module describes the code as it is. Where a document, a comment or a test
of the repository says something else, *Disagreements* says so, and one of them is
shown by a run.

## The system

A Django API, Temporal workers, a notification worker and an ingestion tool
share Postgres, Redis, ClickHouse and one LLM provider. Nothing in the code
takes a lock across processes: what keeps them apart is single Redis commands
and pipelines, one Lua script, and unique keys of Postgres.

| component | state | operations | what is hard |
|---|---|---|---|
| LLM circuit breaker, `backend/api/gateway/circuit_breaker.py` | three Redis keys per tier | `get_state`, `allow_request`, `record_success`, `record_failure` | many readers of a half-open breaker, late results, count and trip in two round trips |
| Model router chain, `gateway/chain.py`, `adapters/avalai_adapter.py` | none of its own | `handle` down cheap, mid, premium | errors anywhere in a tier send the request to the next |
| Cost ledger, `gateway/cost_ledger.py` | two Redis counters per scope and day, `COST_LEDGER_ENTRY` | `can_afford`, `debit`, audit thread | check and debit far apart, midnight, lost debits |
| Ingestion, `backend/ingestion/`, `backend/repositories/ingest_batch_repository.py` | `INGEST_BATCH`, `tx_staging`, `tx_raw` | `ingest_file` in six steps | time-outs that do not stop the server, kills, repeated files, TTL |
| Rate limiter, `api/middlewares/rate_limiter.py` | a bucket per identity in Redis | `consume` | clocks of several workers, overtaking, key expiry |
| Notifications, `gateway/notification_service.py`, `notification_worker/` | `NOTIFICATION`, a Redis list, idempotency keys | event, enqueue, deliver, mark read | swallowed errors, lost and repeated deliveries |
| Chat turn, `api/chat/services/`, `chat/repositories/` | `CHAT_SESSION`, `CHAT_MESSAGE`, `CHAT_TURN_STEP` | `handle_turn`, checkpoints, resume | retries, crashes in a turn, non-atomic checkpoints |
| Chat memory, `temporal-worker/workflows/chat_memory_consolidation.py` | `CHAT_MESSAGE`, `MERCHANT_CHAT_MEMORY` | find, summarise, upsert, delete | activities run at least once |
| Insight workflow, `temporal-worker/workflows/insight_generation.py` | `AGENT_RUN`, `INSIGHT` | six activities | repeated publish, progress after a crash |
| Agent trigger, `api/services/agent_orchestration_service.py` | idempotency keys in Redis | trigger, poll | two triggers with one key |
| ClickHouse breaker, `backend/repositories/circuit_breaker.py` | fields of one process, fallback cache in Redis | `execute_with_fallback` | threads without a lock, stale fallbacks |
| Authentication, `api/services/auth_service.py` | lockout counters, revoked tokens | login, refresh, logout | read-modify-write counters, concurrent refresh |
| Dashboard cache, `api/facades/analytics_facade.py` | summaries in Redis | cache-aside, invalidation | little: the one invalidation changes nothing that is cached |
| Portal's session, `src/frontend/src/api/`, `auth/`, `store/authSlice.ts` | tokens, `localStorage` | login, silent refresh, logout | tabs and requests that refresh at once |
| Portal's insights, `store/insightsSlice.ts`, `pages/Insights*`, `components/InsightsPanel.tsx`, `AnalysesSuite.tsx` | list, filters, page, detail, running analysis | fetch, filter, page, open, run | nothing is cancelled: answers out of order, for another page, filter or merchant |
| Portal's overview, `components/DashboardShellLayout.tsx`, `AgenticDigest.tsx`, `store/dashboardSlice.ts`, `agentSlice.ts` | selected merchant, summary, run, cost, digest | switch, fetch, generate, poll | runs that outlive the switch, the page and the session |
| Portal's chat panel, `components/ChatPanel.tsx` | sessions, messages, a stream | open, select, create, page, send, retry, abort | histories that arrive in a stream or after another session's |
| Portal's bell, `components/NotificationBell.tsx`, `store/notificationsSlice.ts` | items, read marks | fetch, mark read | optimistic marks against late lists |
| Validator, strategies, grounding, intent, MCP tools | none | pure functions over rows and results | boundaries |

`PROJECT.json` lists every component with its status, and every hazard with its
line and the properties that watch it.

## What is modelled

### The LLM gateway

`LLMCircuitBreaker` is one tier's breaker as a value: the state key, the age of
`opened_at` and the number of failures of each age, with an operator per method.
Redis keeps absolute times; the program only looks at distances, so ages lose
nothing. `CostLedger` holds the accounts (`<<scope, merchant>>` and `<<scope,
GLOBAL>>`), the ceilings and the prices of `avalai_adapter.py`.

`ModelRouterChain` composes them. Its variables are the breakers and counters in
Redis and one record per caller. A caller is a thread of an API worker or an
activity of a Temporal worker. One action is one Redis round trip, one
transaction, or one provider call:

| action | code |
|---|---|
| `Begin` | `ModelRouterChain.handle` (the tier of the context is reset to cheap; every handler prices by its own tier) |
| `Gate`, `GateCooldown` | the two `GET`s of `get_state` |
| `MerchantBudget`, `GlobalBudget` | the two `GET`s of `can_afford` |
| `Answer`, `ProviderError` | `adapter.complete` returns, or raises |
| `RecordSuccess`, `DebitAnswer` | the pipelines of `record_success` and `debit` |
| `RecordFailure`, `Trip` | the two pipelines of `record_failure` |
| `Crash` | the process dies |
| `Tick`, `Midnight` | time; the ledger's keys of a new day |

Details the model keeps: a process that could not reach Redis when it started
treats every breaker as closed and every daily ceiling as met; a Redis error in
`get_state` fails open, in `can_afford` it leaves `handle` altogether, in `debit`
it is swallowed; an exception after the debit counts as a provider failure and
sends the paid request to the next tier. `_merchant_key` and `_global_key` each read
the date, so that midnight may fall before, between or after them: `oldKeys[c]` says how
many of the keys a caller is about to use are of an earlier day (`KeysBuilt`: none, the
merchant's, or both). Counters of an earlier day are not kept: a `GET` of one may answer
anything (`Verdicts`), an increment of one is seen by nobody (`Debit`). Assumed: no tick
falls between `time.time()` and the first pipeline of `record_failure`, and no caller
sleeps through two midnights between a key and its use. `_complete` also raises when it is called inside a running event
loop; that is a `ProviderError`.

`SoftBudget` is the abstract specification of one spend ceiling: clients are
admitted while their estimate fits, settle once or drop out; one that set out to be
checked before the day ended (`late`) is let in by the counter of that day, or refused.
`AccountBudget` maps the gateway to it for one account, whichever: the admitted clients
are the callers between the `GET` that let them through and their debit, the late ones
those whose key of this account is of an earlier day (`LateCallers`). The budget does not
see a request that is charged twice: that is another admission. `MerchantsTrackGlobal` is
about the two counters of a debit together.

`GatewayHistory` adds an observer, the failures of the last window, those a
success has made the breaker forget included.

Two more things follow from the breaker's code and have no run of their own: half-open is
computed by every reader, so every caller is let through once the cooldown is over
(`circuit_breaker.py:102`; `docs/spec.md:930` says "a single half-open probe
request"); and a probe that fails after the window has emptied is one failure like
any other, which leaves the breaker half-open (`circuit_breaker.py:151`; line 4 says
"or open (failure)").

The module docstring of the ledger promises that every debit is "durably logged
to COST_LEDGER_ENTRY asynchronously" (`cost_ledger.py:7`). The audit thread
builds the row (`cost_ledger.py:264`) and never saves it: no execution has a row,
so there is nothing to model.

### Ingestion

`Ingestion` has one record per run of the tool, the `INGEST_BATCH` row of each
file, the staged chunks, the copies of every chunk in `tx_raw`, and the
`INSERT ... SELECT` of each file at the server. `CreateBatch`, `ReportDuplicate`,
`Stage`, `Promote`, `Promoted`, `PromoteError`, `Commit` and `MarkFailed` are the
steps of `ingest_file`; `ServerCopies` is ClickHouse, which completes a promotion
or stops somewhere in it, whether or not anyone is waiting; `Expire` is a merge
that applies the TTL of `tx_staging`. A file, its hash and its batch id are one,
because the row of a key is made once and never deleted. A request to Postgres
or ClickHouse may fail before or after it took effect. The TTL counts from
`created_at`, the date of the transaction (`schema/clickhouse.sql:34`): the rows of
an old file may be gone before they are promoted, and the batch is committed
with the row count of the file all the same. That is why `CommittedIsLoaded` speaks
of recent files only.

`LoadOnce` is the abstract specification of a file: registered, loaded once at most
(wholly or in part, and perhaps after it was given up), confirmed after the load, given
up for good; a file the validator rejects is never loaded. `Ingestion` maps its state
to it in `Once`: the status of the batch is the `outcome`, a promotion that is done or
has failed at the server makes the `load` over, the copies in `tx_raw` are the `copies`;
runs, staging and expiry are not seen. `CreateBatch` is a `Register`, `ServerCopies` the
`Load`, `Commit` the `Confirm` and `MarkFailed` a `GiveUp`, unless they fail and change
nothing; all else stutters.

### Rate limiter

`RateLimiter` is one identity's bucket and the workers that consume from it.
The unit of time is what refills one token. A worker reads its clock
(`Consume`), may have to connect (`Connect`), and then runs the script (`Eval`) up
to `Lag` later, after others with newer or older clocks. Fractions of tokens are
left out, and with them the rounding up of Retry-After. `Expire` is the key's
expiry, which starts the bucket afresh. Losing Redis' data is not modelled.
`RateLimitMiddleware` runs before authentication, so that identities are API keys
or addresses; a Redis error fails the request while a missing Redis lets it pass.

### Authentication and the browser's session

`AuthService` is one portal user: the attempts and the lock in `MERCHANT_USER`, the
expiry of each refresh token, and until when Redis keeps its revocation. A call is
an HTTP request, and each of its queries is a step:

| action | code |
|---|---|
| `Login` | `get_by_email`, `is_locked`, `check_password`, and the deadline of a lock, decided on the row just read |
| `Recount`, `SaveFailure` | `record_failed_login` reads the row again, adds one, and saves both columns |
| `Admit`, `Issue` | `record_successful_login`, `issue_token_pair` |
| `CheckToken`, `CheckAccount`, `Rotate`, `Issue` | `refresh` |
| `SignOut` | `logout` |
| `Fail` | any error of a store, of the rate limiter or of the process |

A request makes its own `RefreshTokenRepository`: one that does not reach Redis when
it connects looks into an empty fallback, and what it revokes is forgotten with it.
`RedisReach` says what a request may meet; `DeadStaysDead` claims nothing of revocations
unless Redis is always reached. Nor does it speak of a token that a call has already got
past `CheckToken` with: `refresh` checks and revokes in two round trips (`auth_service.py:93`
and `:109`), so that two refreshes with one token can both get a pair. What it says is
that a revocation lasts as long as its token, and that nothing issues an old one again.

`BrowserSession` composes it with the frontend: `localStorage`'s refresh token, shared by
the tabs; whether each tab has an access token and shows the login page; and the
requests, each with the page that waits for it. `Request` goes out with an access token
that expires on the way, `Unauthorized` is its 401 and sends the refresh, `Load` opens or
reloads a tab (`hydrateTokensFromStorage`), `Deliver` is what a page makes of an answer
(`TakeTokens`, `LoginRefused`, `RefreshRefused`, `LoggedOut`), `Disconnect` is `fetch`
rejecting while the server may go on, and `Discard` an answer to a page that is gone.
`abandoned` is an observer: tokens sent by requests nobody waits for any more.
Requests that end with data, or that are sent without an access token (the API
answers 403 to those, and only a 401 refreshes), change no session state.

A refresh answered after a logout stores its token again, and the next load resumes the
session; `tokenStorage.ts:9` has the token "cleared on logout". A failed login that
read the row before a success or a lock saves its stale columns after it: it brings the
count back, and can lift a lock.

### Delivery of notifications

`Delivery` has the status of each `NOTIFICATION` row, the Redis list, the keys that
make an id be delivered once a day, and each worker's place in `process_one_task`:

| action | code |
|---|---|
| `Notify` | `NotificationService.handle_event`, for an event that passes the preferences |
| `Queue` | an `LPUSH` of a task, again and again, for an id that has a row or never will |
| `MarkRead` | `NotificationMarkReadController.post` |
| `Pop`, `CheckKey`, `Missing`, `Fetch`, `Deliver`, `Save`, `SetKey` | `process_one_task`, from `BRPOP` to `SETEX` |
| `Break` | an exception it swallows, or the end of the process, at any of those places |
| `Expire` | the key's 86400 s |

`expired`, `made`, `lost` and `raced` are observers, each a count per id: keys that
expired, deliveries by whatever worker, those whose worker broke before it set the key,
and checks that found no key while another worker was on the same id (`Undelivered`,
`Owing`). What is kept of the code: a task lives only
in its worker between `BRPOP` and `SETEX`; the row fetched before the delivery is saved
after it, over a mark `read` made meanwhile; the payload names no recipient, so that the
email adapter skips and the row becomes `failed`. The service's own `_enqueue_delivery`
queues nothing, because `json.dumps` raises on the UUID of the row and the exception is
swallowed: its rows stay `pending`. `Queue` is therefore whoever else pushes a task, with
any channels (a task like the service's would have them under `channels`, while the worker
reads `all_channels`, and delivers in-app alone when it finds none).

### The portal

Four modules model one browser tab each from its own side. In all of them an effect of
React runs in the step of the change that triggers it; a request is in `asked` until it is
answered or fails; answers come in any order, and nothing in these components cancels a
request. `InsightPages` and `Overview` extend `PortalTab`, the selected merchant and the
bag `asked`; where both would define a name, `Overview` prefixes its own (`OverviewInit`,
`SwitchOverview`, `OverviewTypeOK`). In `ChatPanel` and `NotificationBell` `asked` is the sequence of the requests as they were asked, since the
properties there are about answers that do not overtake: `overtaken` remembers that one
did, and is never forgotten.

| module | the user | the answers |
|---|---|---|
| `InsightPages` | `OpenPage`, `ClickKind`, `ClickPage`, `OpenDetail`, `CloseDetail`, `RunAnalysis`, `SwitchMerchant` | `AnswerList`, `AnswerDetail`, `AnalysisCreated` and their failures: the extra reducers of `insightsSlice.ts`, and what `submit` of `AnalysesSuite.tsx` does next (`Settle`) |
| `Overview` | `SignIn`, `SignOut`, `OpenOverview`, `LeaveOverview`, `Retry`, `Generate`, `SwitchOverview` | `AnswerSummary`, `AnswerTrigger`, `AnswerPoll`, `AnswerCost`, `AnswerDigest` and failures; `EndRun` is the server |
| `ChatPanel` | `Open`, `Close`, `SwitchMerchant`, `Select`, `Create`, `LoadOlder`, `Send`, `Retry`, `Abort` | `AnswerSessions`, `AnswerCreate`, `AnswerMessages`, `AnswerOlder` and failures; `StreamEnds`, `StreamFails`, `CountDown` |
| `NotificationBell` | `Mount`, `Unmount`, `Toggle`, `SwitchMerchant`, `ClickItem` | `AnswerList`, `AnswerMark` and failures; `Serve` and `ServeMark` are the server at a list and at a mark, long before the answer arrives perhaps, `Lose` the server losing a mark |

On `/insights` the page and its panel both fetch the list, on every change of merchant,
page or filter: hence `Fetchers`, and two copies in the bag. `Show` is a change of the
list with the fetches it triggers. `handleMerchantChange` resets different slices in
different ways, which each module takes over (`Reset`, `ResetAgent`, `SelectMerchant`, and
nothing at all in the chat panel and the bell). `loadSessions` keeps the session it has
(`Chosen`), whoever's it is.

The servers differ, and where they do the models leave it open:

- A mark is kept (`NotificationMarkReadController.post`), accepted and dropped
  (`mockApi.ts:242`), or refused, and its answer may be lost; a mark that was kept may be
  lost later (`notification_worker/main.py:90` saves an older row over it, `Delivery`'s
  `Save`). The backend's list of notifications has another shape than the client
  expects, without `read_at`.
- The detail of an insight is what `mockApi.getInsight` answers: the insight of that id,
  whichever merchant is asked for. The backend has no endpoint for one insight. So the
  address `/insights/:id` shows the same insight after a switch of the merchant, and no
  property forbids it: `StrangersAreLate` is about the list of another merchant, and the
  detail of another insight than the one selected.
- A stream ends well without a word when no frame has data, and a JSON answer is read as
  `content ?? answer ?? ''` (`ChatPanel.tsx:125`), while the backend's `BufferedDelivery`
  sends `text`: `StreamEnds` fills the answer in, or leaves it empty (`blank`).
- A chat session is found under its own merchant only, as the client has it; `mockApi.ts`
  uses one session id for all merchants.

What the portal cannot promise, because it cancels nothing, is not among the properties:
they say how far wrong it can get. Read off the code, with the models at hand:

- Insights: two pages clicked in a row fetch on and on when the older answer comes last,
  since the page answered becomes the current one, which is a change to fetch; a late
  answer for another filter, or merchant, with the same page stays; a late detail replaces
  another; an analysis that ends after a switch fetches the list of the old merchant with
  the filters of the new one.
- Overview: a click on the merchant already selected clears the summary, and nothing
  fetches it again; the cost of a run is asked for under the merchant selected by then
  (`AgenticDigest.tsx:47-52`), which need not be the run's; a run of the old merchant that
  ends after the switch becomes the run shown, and stops the spinner of the new one; a
  cost of an old run keeps the new one's from being fetched; a digest stays on screen over a switch; the store survives a logout;
  the badge of a degraded answer is set by neither server.
- Chat: session, messages and error stay over a switch, and a retry posts to whatever
  session is selected by then; a failed question stays, and is there twice after a
  retry; two clicks on the button for older messages prepend one page twice; a history
  that fails empties the messages and keeps page and button; an answer being streamed
  disappears when a history arrives.
- Bell: a mark followed by a switch fetches the old merchant's list, which replaces the
  new one's; an item of the old merchant clicked under the new one looks read, and when
  its mark is refused nobody is told; a mark the server drops shows until the next list.

## The runs

| run | shows | bounds |
|---|---|---|
| `account_budget` | types; the merchants of a scope follow its counter, and part from it at midnight only; the shared chat counter implements `SoftBudget`; its overrun is bounded | 2 callers, 2 merchants, 2 tiers at the real prices and per-interaction ceilings, daily ceilings of a few calls; breaker that trips on the second failure; a Redis that may fail at every round trip; midnight between any two keys |
| `progress` | requests end; open breakers recover | 2 callers on the same breakers, 2 tiers, breaker that trips on the second failure, fairness |
| `burst` | only more than `Threshold` failures in a window make a caller open a breaker | 3 callers, 1 tier, threshold 2, window of 3 ticks, cooldown of 2 |
| `ingestion` | no row is loaded twice; committed batches of recent files are loaded; one worker per file; committed is final; the pipeline implements `LoadOnce` | 2 processes that run again and again, a file of 2 chunks, one of 1 chunk older than the staging TTL, and one with a rejected row |
| `auth_session` | dead refresh tokens stay dead; a revoked token is in `localStorage` only while an answer is awaited or was lost | 2 tabs, 2 requests at a time, 2 tokens ever issued, a clock of 2 with tokens that live 2 and locks of 1, one failure that locks |
| `rate_limiter` | the rate bound; exact Retry-After | 2 workers one tick apart, lag 1, capacity 3, costs 1 and 3, 9 ticks, keys that live 5 |
| `delivery_twice` | a race delivers one id twice (violation) | 2 workers, 2 tasks, no break, no expiry |
| `delivery` | why an id is delivered again; a key never hides an unsettled row; the queue is worked off | 2 workers, one notification and one id without a row, 3 tasks, 1 break, 1 expiry |
| `insights` | spinners end; the page shown is the page marked; another merchant's list, or another insight than the selected one, only by the answer to a request for it | 2 merchants, 2 insights, 2 kinds, 2 pages, 4 clicks, 6 requests on their way |
| `overview` | spinners stop; another merchant's summary or run only by a late answer | 2 merchants, 2 runs, 6 clicks, 4 requests on their way |
| `chat` | no empty answer is left behind but one that was empty; what is shown is the selected session's; everything under way ends | 2 merchants, 2 sessions, 2 questions, histories of 2 pages, waits of up to 2 s, 4 clicks, 2 requests on their way at a click |
| `bell` | nothing looks read for nothing; a quiet bell agrees with the server; the spinner stops | 2 merchants, 2 notifications each, 6 clicks, 3 requests on their way at a click, one mark lost by the server |

Two actors are enough for every race of two round trips; a third matters where
two others overtake each other around it, hence three callers in `burst`. The
budget runs need two tiers, to charge a request twice and to be exhausted at one above
the per-interaction ceiling ($0.0625 of a 500-token chat draft at mid is above the $0.05
of chat: chat drafts only ever reach cheap). In `progress` both callers reach Redis, so
that a failure or a success of one call comes late, between the count and the trip of the
other, or moves the date of a breaker that is open. The proofs cover the other sizes.

`auth_session` bounds the tokens ever issued to two: a rotation needs an old and a
new one, and the properties are about one token at a time. The failures counted are
bounded by one, with `MaxAttempts` one, since locks matter there only as refusals.

In the portal a click starts at most a few requests and only requests race, so that the
number of clicks (`MaxClicks`) bounds everything else; the `.cfg` of each run names the
story its clicks are enough for, and two merchants, sessions, pages or filters are
enough for one answer to be another's. `delivery` needs three tasks for an id to be
queued again while both workers hold it. `bell` counts what the server loses
(`MaxLost`).

`CHECK_DEADLOCK FALSE` stands where clicks or tasks are bounded (`delivery` and the
portal's runs): nothing happens there any more because nobody asks anything.

Fairness is stated where a run checks liveness, and only of what goes on by itself;
no user, crash or error is ever counted on.

- `progress`: a caller that has a request goes on (`WF` of `Step`: provider calls time
  out after 30 s, Redis calls return or raise) and the clock runs (`WF` of `Tick`).
- `delivery`: each worker works (`WF` of `Work(w)`): `main` loops for ever, whatever a
  task raises. `QueuedGetsKey` gives up on an id once a worker broke with a task of it, since
  that task is lost then.
- `overview`, `chat`, `bell`: `fetch` settles, so a request is answered or fails (`WF`
  of the answers of a kind, or of those to the oldest request), a stream ends or
  fails, a countdown counts (`setTimeout`). In `overview` the server's run ends too,
  one way or the other: the portal polls without a limit, and a run that never ends
  keeps its spinner.

### Disagreements

`delivery_twice` shows that two workers that each pop a task of one notification both find
no key (`notification_worker/main.py:55`), and both deliver before either sets it (`:92`):
`DuplicatesDeduplicated` fails, with no key expired and no worker broken. The module says
of itself that "duplicate delivery attempts for the same notification are deduplicated"
(`main.py:4`), and `docs/spec.md:1052` has several of them running.

Others follow from single lines, and have no run:

| the code | the text |
|---|---|
| `circuit_breaker.py:144`: `zcard` comes before `zadd`, so that the sixth failure opens | lines 3 and 133: "5 failures in 60s" |
| `circuit_breaker.py:123`: a success that comes late closes the breaker within its cooldown | line 41: "trips open for 30s" |
| `pipeline.py:186`: the server finishes a promotion its client gave up and reported as failed | line 49: "leave tx_raw untouched" |
| `pipeline.py:109`: a file whose batch failed, or is still being loaded, is reported as a duplicate, which `cli.py:77` counts as a success | `cli.py:68`: "Idempotent success" |
| `auth_service.py:62`: the lock is decided on the attempts read before the password check, so that two failures at once count as fourth and fifth and none locks | `docs/spec.md:1141`: "5 consecutive failures locks the account" |
| `cost_ledger.py:199`: a debit over midnight may count for the merchant on one day and for the scope on the next | line 190: "Atomically debit the cost ledger" |
| `ChatPanel.tsx:116`: a retry is sent with a new key | `docs/spec.md:1394`: it retries "with the SAME Message-Key header" |
| `notification_service.py`: the task of the service's own row is never queued, since `json.dumps` refuses its UUID | `docs/spec.md:947` has it enqueued |

## The proofs

| theorem | of | from |
|---|---|---|
| `Gateway_proofs!TypeCorrect` | `TypeOK` | the assumptions on constants only |
| `Gateway_proofs!TracksCorrect` | `MerchantsTrackGlobal` | `TypeOK` and the counters themselves, which are inductive: a debit moves a merchant's counter and the shared one by the same amount (`Tracks`), or the shared one alone when its caller is in `Straddling`, which that step ends (`TracksFewer`) |
| `Gateway_proofs!BudgetImplemented` | `ImplementsBudget` | `TypeOK` and: the price of an answer under way is one the provider may charge |
| `Gateway_proofs!OverrunCorrect` | `OverrunBounded` | the same, step by step: an admission starts below the ceiling, a settlement trades one worst case for its cost |
| `Gateway_proofs!BurstCorrect` | `OpensOnlyOnBurst` | `HInv`: what Redis counts of an age is no more than what the observer has logged of it (`LogCovers`), and a sum of larger numbers is larger (`SumMonotone`) |
| `Ingestion_proofs!TypeCorrect` | `TypeOK` | |
| `Ingestion_proofs!NoDoubleCountCorrect`, `!OneWorkerCorrect`, `!CommittedStays` | `NoDoubleCount`, `OneWorkerPerFile`, `CommittedIsFinal` | `Inv`: one run is past `create_batch` and its row exists (`Gate`, `OneWorkerPerFile`), what is about to be promoted never was (`Unpromoted`), what the server has not finished has left nothing (`RawFollows`) |
| `Ingestion_proofs!LoadedCorrect` | `CommittedIsLoaded` | `LoadInv`: `Inv`, a run promotes when it has staged every chunk (`StagedSoFar`), what is staged of a recent file stays, so that the statement copies all of it (`PromotedWhole`), and a commit comes after the answer (`CommitsPromoted`) |
| `Ingestion_proofs!LoadOnceImplemented` | `ImplementsLoadOnce` | `OnceInv`: `LoadInv`, the status of a file is the one its only worker left (`OnDuty`), and a statement is never sent for a file with an invalid row (`InvalidStays`) |
| `RateLimiter_proofs!TypeCorrect` | `TypeOK` | |
| `RateLimiter_proofs!RateBoundCorrect`, `!RetryAfterCorrect` | `RateBound`, `RetryAfterExact` | `Inv`: tokens minus timestamp only falls while the key lives (`Potential`), clocks under way are recent, and a key outlives the refill of an empty bucket (`KeyTTL >= Capacity + Skew + Lag`; the code's are 3600 s against 60) |
| `BrowserSession_proofs!TypeCorrect` | `TypeOK` | |
| `BrowserSession_proofs!StoredTokens` | `StoredTokenUsable` | `Inv`: nobody holds a token that was not issued (`Known`), a new token is known to its answer alone (`Unsent`), whatever may revoke a token was sent it by a page (`Owned`). A step is one of three kinds at the server (`ServeKinds`) or a `BrowserStep` |
| `BrowserSession_proofs!DeadTokensStayDead` | `DeadStaysDead` | `Outlives`: the key of a revocation is kept at least until its token expires, because both are counted with `JWT_REFRESH_TTL_SECONDS` and the token came first |
| `Delivery_proofs!TypeCorrect` | `TypeOK` | |
| `Delivery_proofs!RedeliveryCorrect` | `RedeliveryExplained` | `RedeliveryInv`: the deliveries of an id, with the workers that are past EXISTS and have yet to deliver, are covered by what has expired, been lost or raced, and by one more while its key or a worker that holds it stands for it (`IdInv`) |
| `Delivery_proofs!KeyCorrect` | `KeyMeansSettled` | `SettledInv`: a queued id, and one a worker holds, has a row or never will have one; the row a worker has saved is settled; and no step takes a row back (`RowsAdvance`) |
| `NotificationBell_proofs!TypeCorrect` | `TypeOK` | |
| `NotificationBell_proofs!ReadCorrect` | `ReadIsKept` | `ReadInv`: a list that was served names nothing that is not read on the server, but for what it has lost since, and a mark that was served was kept, lost, or is known not to have been kept (`ServedTrue`); the answer to a mark brings a list with it |
| `NotificationBell_proofs!QuietCorrect` | `QuietBellAgrees` | `QuietInv`: unless overtaken, the request asked last decides. If it is a list that was served, it says what the server still holds, unless a mark has been served since, whose answer asks for another list (`LastAgrees`); if there is none on its way, the bell agrees (`ShownAgrees`) |
| `ChatPanel_proofs!TypeCorrect` | `TypeOK` | |
| `ChatPanel_proofs!EmptyAnswerCorrect` | `EmptyAnswerExplained` | `TypeOK` and itself (`EmptyStep`): a stream that ends either fills its answer or is counted as blank |
| `ChatPanel_proofs!ShownCorrect` | `ShownIsSelected` | `OrderInv`: unless overtaken, every request for the messages of a session that is no longer selected is followed by a fresh one for the selected session (`Covered`), and messages of another session are shown only as long as such a request is on its way (`Settled`) |
| `Portal_proofs!TypeCorrect`, `!SpinnersCorrect`, `!SettledCorrect` | `TypeOK`, `SpinnersEnd`, `SettledPage` of `InsightPages` | `PagesInv`, their conjunction, which is inductive: a request leaves the bag in the step of its answer or failure, and that step either fetches again or turns its spinner off |
| `Portal_proofs!StrangersCorrect` | `StrangersAreLate` of `InsightPages` | `TypeOK`: the copies of a request in the bag get fewer in the step that answers it (`OneTaken`) |
| `Portal_proofs!OverviewTypeCorrect`, `!OverviewForeignCorrect` | `OverviewTypeOK`, `ForeignDataIsLate` | `OverviewInv`: `OverviewTypeOK` and every run that is polled, priced or shown is one the server has, and polled under its own merchant (`RunsKnown`) |
| `Gateway_proofs!RequestsDescend` | behind `RequestsEnd` | `WorkBounded`: what is left of a request is nine for every tier of the chain still to come, and the stages of the tier it is at; `Step(c)` takes from it, and no other step adds to it |
| `Ingestion_proofs!RunsDescend` | no run loops | `RunBounded`: what is left of a run is six and the chunks still to stage; its steps take from it. The chunks come in turn (`ChunksInTurn`) |
| `NotificationBell_proofs!WaitsCorrect` | behind `BellStops` | `BellWaits`, inductive with `TypeOK`: while the spinner turns, a list is asked for |
| `ChatPanel_proofs!WaitsCorrect` | behind `PanelSettles` | `PanelWaits`, likewise: for `loading` the sessions, for `creating` the new one |
| `Portal_proofs!OverviewWaitsCorrect` | behind `SpinnersStop` | `SpinnersWait`, with `OverviewInv`: an answer takes nobody else's request (`AskedLeft`), and leaving a page drops only digests |

`Gateway_proofs` is about `GatewayHistory` and `AccountBudget`, which share
`ModelRouterChain`; `Portal_proofs` is about `InsightPages` and `Overview`, which share
`PortalTab` and the facts about bags of requests.

The last five rows are what can be proved of termination without fairness. A spinner
never waits for nothing, and a request or a run has a measure that every step of its own
takes from; that the step, or the answer waited for, comes at last is fairness, and stays
with the liveness properties of the runs. They also say more than those runs: the number
of steps has a bound for any chain and any file.

The assumptions are those of the modules (`ASSUME`, each evaluated by a run) and say
only what a constant is (that merchants and callers are finitely many, that null is no
record), and of the rate limiter that a key outlives a refill.

Every invariant and every action property of the passing runs is proved, and so are both
refinements. Checked by TLC only: liveness under fairness (`RequestsEnd`,
`OpenBreakerRecovers`, `SpinnersStop`, `PanelSettles`, `BellStops`, `QueuedGetsKey`) and
whatever would need ENABLED, which are out of the prover's reach. The sums, over merchants and over the ages of
failures, need induction over finite sets; `SubsetInduction` states it of a set of good
subsets instead of a predicate, which the provers can instantiate.

## Not modelled

What runs, and has state of its own to go wrong, is modelled. The rest is left out, each
for a reason in the code:

- **Chat turn.** No turn gets through. `CHAT_TURN_STEP.message` refers to a `ChatMessage`
  and is given a `ChatSession`; `chat_controller.py:163` hands `Response` an argument it
  does not have, and `:177` names a status that does not exist; the portal posts `content`
  where the controller reads `message`, and answers 400 (`:148`). A model of checkpoints
  and resume would be of what was meant.
- **Chat memory.** The estimate of a summary, 2000 tokens, is $0.10 at cheap, above the
  $0.05 that one chat interaction may cost, and more at the other tiers: the chain is
  exhausted each time, and nothing is stored or deleted.
- **Insight workflow.** `execute_activity` is given time-outs as plain numbers and, for
  `segment_data` and `detect_candidate_insights`, several positional arguments, neither of
  which it takes: no run gets to its later steps. A retried publish would make a fresh id.
- **Agent trigger.** `Overview` has it as the portal sees it. The idempotency key of the
  API is one the portal makes anew for each request and never repeats; the API polls with a
  query, `getStatus`, that the workflow does not define.
- **ClickHouse breaker.** Only tests construct the repository that has it. The API and the
  Temporal workers have `api/` first on their path, and its `repositories` read ClickHouse
  without a breaker; `cached_fallback` is never produced.
- **Dashboard cache.** One `GET` and one `SETEX` around a query; `run_analysis` is the one
  that invalidates, and it changes nothing a summary is computed from.
- **LLM response cache.** Nobody calls it.
- **Pure functions**: the validator's rules, intent and its slots, grounding, the
  strategies and their floating-point statistics, the MCP tools. They keep no state, and
  what they do with a text or a row is what unit tests reach.
- **Cost page** of the portal: one fetch per merchant, kept in the page.
- **Provider's wire format, SSE frames, access tokens' claims, audit rows**: data that
  nothing modelled depends on. `login` answers every refusal by a lock with a retry after
  60 s, whatever is left of it, and the ledger's audit row is never saved.
- **Presentation**: the rendering of the portal's components, generated UI primitives,
  migrations, Docker files.

Most of the repository's TypeScript is of the last kind, or there more than once:
`src/frontend/.kilo/worktrees` holds two copies of the portal, which are some
12 400 of its 19 000 lines. The modules are about the one under `src/frontend/src`, and
about the Python of the backend.
