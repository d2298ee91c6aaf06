# A TLA+ verification project for Transverse

Transverse is a platform for practising programming problems: a Go backend
(`src/backend`) over PostgreSQL, Redis, MinIO and Judge0, and a Next.js
frontend (`src/frontend`). This directory holds TLA+ models of its stateful
parts, TLC configurations that check them on small instances, and TLAPS proofs
of the properties that matter most. `PROJECT.json` maps every definition to the
lines it translates, every property to a plausible bug that breaks it, and lists
the hazards of the code with the properties that watch over them.

## 1. Inventory

| component | state it keeps | operations | what is hard | what makes it correct |
|---|---|---|---|---|
| **practice engine** (`services/practice_session.go`, `repository/session_repo.go`) | `practice_sessions`, `user_problem_stats`, `topic_stats`, `users.dna` | Start, Submit, Skip, Close, RequestHint, claim, sweeper | handlers read, compute for long, and write statement by statement without a transaction; several tabs, an anonymous user, failures, a sweeper | one ACTIVE session per user; history never lost and consistent with theta and counters; an ended session stays ended; statistics count each session once; remediation follows the history |
| **scoring, theta, Glicko-2, analytics** | none | pure functions | clamps, streaks over skips, boundary cases | bounds, agreement of the streak definitions |
| **topic graph** | loaded once | ResolveScope, GetNextTopic, prerequisites | traversal with aliases and missing nodes | closure, no dead ends |
| **Judge0 client** | none; tokens at Judge0 | SubmitCode, GetVerdict, ExecuteMultipleTestCases | timeouts, stopping early, precedence of verdicts | the batch's verdict follows the documented priority |
| **job queue, workers, realtime** | `job:{id}`, `queue:{type}`, channels | Enqueue, pollQueue, PublishEvent, StreamEvents | crash between pop and completion, event before record, events lost while disconnected, commands the client library sends again | a job runs once for each time its id is listed; the record of one listed once never goes back; a terminal event means a terminal result |
| **roadmap** | templates, phases, nodes, `user_roadmaps`, `user_roadmap_node_progress` | GetCurrentRoadmap (initialises, advances), CompleteNode, TestOut, Generate | a read that writes, no transactions | a section is reached by settling the ones before it |
| **evidence** | `evidence_sources`, `evidence_extracts`, objects in MinIO | StartConnectorSource, GeneratePresignedUpload, ConfirmUpload, processing goroutine | check-then-act, restart in the middle | processed once, no residual object |
| **learner profile and caches** | `users`, caches `user:` and `dna:` | GetByID, UpdateDNA, UpdatePsychometrics | lost updates, stale read-through | a cached row is no older than its lifetime; no update is lost |
| **authentication** | `refresh_tokens`, denylist, stored token in the browser | Register, Login, Refresh, Logout, OAuth callback, client refresh | rotation races between tabs, denylist decoding | a refresh token is used once; a logged-out token is rejected |
| **rate limiter** | token buckets in Redis | Allow | refill arithmetic, failing open | never more than capacity plus refill |
| **frontend event stream** (`lib/realtime/sse-client.ts`, `components/providers/sse-provider.tsx`) | a controller, a reconnect timer, a status, listeners | start, stop, restart, connect, read frames, reconnect | a restart overlaps the connection it aborts; breaks at any time; several timers | connections do not multiply; the client never falls silent; events in order and once |
| **frontend hints** (`components/practice/use-hint.ts`, `hint-panel.tsx`, `pollHintJob`) | status, hints, refs to the running request | requestHint, event against polling loop, reset, unmount | event lost, late or repeated; deadline; older requests that settle after newer ones | the spinner is honest and ends; a finished job is not missed; hints belong to the problem shown |
| **frontend session** (`lib/api/client.ts`, `auth-provider.tsx`, `app/api/auth/*`, `middleware.ts`) | access token in memory and in localStorage, cached user, httpOnly refresh cookie | sign in and out, OAuth callback, load the user, call with one refresh and retries | several tabs share cookie and storage; a rotated token is used again; answers lost | a browser that signed in stays in, one that signed out is out; nobody waits for a refresh nobody makes |
| **frontend practice engine** (`use-practice-engine.ts`, `app/practice/*`) | React state, sessionStorage | start, submit, skip, close, summary | every answer overwrites the state it finds; late verdicts; leaving and coming back | the page is in step with the session; a closed session is closed |
| **frontend problem bank and submit flow** (`app/problems/*`, `app/solve/*`, `components/ide/*`) | query cache, drafts in localStorage, one editor | filter, page, scrape, edit, run, submit | placeholder data, debounce, a panel unmounted under its request | "no matches" is true; code is never lost; a verdict is of this panel's submission |
| **frontend onboarding** (`app/onboarding/*`, `components/quiz/*`, `components/sync/*`, `settings/connectors`) | list of sources, quiz state, tally, connector records | add, upload, remove, answer, skip, finish, results | a page that guesses when the server is done; a quiz over a session it may not have made | a failure stays shown; the quiz ends at its cap and counts each answer once |
| **frontend roadmap** (`lib/hooks/use-roadmap.ts`, `app/roadmap/*`, dashboard, tutorial) | one cached query, a transition and its timer | show, complete, refetch, generate | a fetch in flight when a node is completed | a completed node is shown so |
| ingest/seed pipelines, embedding, scraper, connectors, templates, UI, mocks | none worth modelling | batch I/O, parsing, rendering | - | - |

**How they interact.** The frontend calls the backend over HTTP. A Submit runs
in one goroutine of the practice engine, which asks Judge0 for the verdict, the
problem store for candidates, and writes session, attempt statistics and (after
failures) the learner's DNA, a job on `jobs:llm` and an event on the user's
channel. Hints go through the job queue to a worker, whose events reach the
browser by Redis pub/sub and SSE. Close merges a session into the learner's
profile and topic statistics. Roadmap reads, evidence processing and
authentication share the user row and its caches.

## 2. Plan

Order, most important first; all but two items are done.

| | module | what | proofs |
|---|---|---|---|
| 1 | `PracticeSession` | sessions, learner statistics, sweeper, in any interleaving of statements | `PracticeSessionProofs` |
| 2 | `JobQueue` | posting, the lists, the workers of several replicas, crashes and the event stream; it refines the abstract `JobLifecycle` | `JobQueueProofs` |
| 3 | `EventStream` | the browser's end of the stream | `BrowserProofs` |
| 4 | `UseHint`, `HintDelivery` | the hook behind the hint panel, composed with `JobLifecycle` | `HintDeliveryProofs` |
| 5 | `AuthSession` | tokens and cookie of one browser with several tabs, against the rotation of the backend | `BrowserProofs` |
| 6 | `PracticeClient` | the practice page against the server's sessions | `PracticeClientProofs` |
| 7 | `SolveClient` | problem bank, solve page, drafts, run and submit | `SolveClientProofs` |
| 8 | `Onboarding` | `EvidenceSync` (pages and evidence service) and `DiagnosticQuiz` on one `OnboardingTab` | `OnboardingProofs` |
| 9 | `RoadmapService`, `Roadmap` | the roadmap in the database, and the pages that show it | `RoadmapProofs` |
| 10 | not done: `LearnerProfile` | the user row with its two read-through caches | |
| 11 | not done: `Judge0Batch`, `Scoring`, `TopicGraph`, `RateLimit` | pure algorithms and one atomic script | |

A dozen runs is what stays readable and quick to repeat, so each of 5 to 9 has one
composed run, and 10 and 11 have none: the caches change what a reader sees for
their lifetime and nothing that is stored, the rest is without interleaving.

Abstract specification: the life cycle of a job (`JobLifecycle`), which `JobQueue`
implements and on which `HintDelivery` builds. The server of 6 and 8 is abstract in
the same spirit: in 6 a handler reads the session in one step and writes it in another, in 8 a
request is one step.

Theorems: every invariant, action property and refinement that a run checks is proved; the
liveness properties are not (section 12). Still to do: types of the tabs of 6, 8 and 9 as
theorems of their own, where they are parts of an inductive invariant now, and that the abstract
server of 6 and 8 is implemented by 1, as `JobQueue` implements `JobLifecycle`.

Reading the modules. An operator marked `mutant` in a comment is a plausible bug of the
definition that follows it; no specification uses it, and `PROJECT.json` says
which property notices it. History variables, and fields called history, record
the past for the properties and never guard a step.

## 3. PracticeSession

### State

| variable | code |
|---|---|
| `sessions` | rows of `practice_sessions`; status `"NONE"` is a row that does not exist yet. `fresh` tells whether `updated_at` is younger than four hours |
| `attempts` | `user_problem_stats.attempt_count` |
| `topicStats` | `topic_stats.attempt_count` |
| `profile` | `users.dna`, through its session counter |
| `analysisJobs`, `regenerations` | messages pushed to `jobs:llm` (and the `roadmap.updated` event) |
| `calls` | one entry per request goroutine: the step it is at, and what it loaded |
| `issued` | requests so far, to bound a behaviour |

### Actions

A request arrives (`StartLoad`, `SubmitLoad`, `SkipLoad`, `CloseLoad`), then
takes one step per statement that changes the database:

    Start   StartLoad -> StartCreate
    Submit  SubmitLoad [-> ClaimSession] -> SubmitVerdict [-> Remediate]
                       -> RecordAttempt -> SubmitAppend
    Skip    SkipLoad [-> ClaimSession] -> SkipAppend
    Close   CloseLoad [-> ClaimSession] -> CloseAbandon
                       | CloseTally -> CloseProfile -> CloseStats* -> CloseFinish

`RequestFails` ends a handler at any point (an error it returns, or its
context's end). Errors the code ignores do not end it: `ClaimSession` and
`Remediate` go on (`BestEffort`). `GrowStale` and `CleanupStale` are time passing
and the sweeper. A request that the code rejects before touching anything is
not a step.

### Abstractions

* Theta is an ordinal `0..MaxTheta`: only direction and clamps matter to control.
* Candidate scores choose among problems, so the choice is free within the
  candidates; the cascade that builds the candidates is exact. `FindSimilar`
  ignores the scope beyond the topic, as its SQL does.
* `CloseTally` merges Close's reads into one step. They read the user's own rows,
  which only that user's Closes and remediations write; the race between two
  Closes is still there, since each reads before it writes.
* The error-analysis bucket is not refilled (5 a day; a run is much shorter).
* `IncrementAttemptCount`, a best-effort counter of the problem, is left out, and
  so are the caches, apart from `FirstChoices`, which lets Start see an outdated
  set of seen problems when anything races or fails.
* All sessions share one scope, a constant.

### Runs

| run | question | instance |
|---|---|---|
| `session_race` | what the rows keep whatever races or fails | 2 requests, a user and the anonymous user, 2 sessions, 4 requests issued, failures on: 1.5 M states |
| `session_turns` | history chain, freshness of the next problem | 1 user waiting for each answer, 3 problems in 2 topics, one out of scope, 5 requests |
| `session_ledger` | statistics against sessions, remediation against history, and stale sessions end | streak 3 as in the code, 2 problems, 2 sessions, 6 requests: two sessions completed, or a streak of four |

`RowSummarisesHistory` says that a row's question count is the number of its
responses and that the theta of an active row is the one of its last response;
`RecordsAreFinal`, that an ended session never becomes active again and that
recorded responses are never changed or dropped.

Bounds. Two requests are enough for every race here, because each property
compares one stale read with one write; four issued requests let a Start, two
racing operations and a further one meet. `RemediationStreak` is 2 in the
small runs so that streaks happen within the bound, and 3, as in the code, in the
ledger. `MaxTheta = 1` makes both clamps reachable; `0` in the ledger, which
does not look at theta. Symmetry is used for sessions and requests, which no
definition distinguishes, and never with liveness.

`Quiescent` lets a behaviour rest when a bound is used up and no handler runs, so
TLC's deadlock check still finds a handler that is stuck.

**Fairness.** `WF(CleanupStale)`: the sweeper is a ticker in `main`. Nothing is
assumed of clients or of handlers, so `StaleSessionsEnd` holds whatever becomes of them.

### What the model has against the comments of the code

* Skip writes back the theta it loaded (`practice_session.go:821`); a Submit stored in
  between is undone, although a skip is documented not to alter theta (`:690`).
* Two Closes of one session are both merged into the profile (`:1020`, against `:856`),
  which is why the ledger is stated for a user who waits for each answer.
* `AppendResponse` has no status condition, so a Submit that passed the ACTIVE check
  may append to a session closed or swept meanwhile.
* A REGULAR session, documented to exclude attempted problems, falls back to all of
  them when none is left.
* Remediation is asked for after N failures "on the same topic" by
  `plan_backend.md:303`; the code looks back over the whole session whatever the topics
  (`scoring.go:401`), and lowers the target of the topic of the last one. "Exactly one"
  `roadmap.updated` (`practice_session.go:632`, `plan_backend.md:304`, of a run of three) is one for each
  failure at or beyond the third: a run of four publishes two and enqueues two
  regenerations. `RemediationMatchesHistory` states what the code does in both respects;
  the ledger run has both cases, mixed topics and a run of four.

### Proofs (`PracticeSessionProofs`)

Proved for all values of the constants, from `ConstantsAssumption` only:
`TypeOK`, `OneActivePerUser`, the two halves of `RowSummarisesHistory`
(`QuestionCountMatches`, `ActiveThetaIsLast`) and of the action property
`RecordsAreFinal` (`NoReactivation`, `ResponsesOnlyGrow`), and these two themselves.

The argument. `TypeOK` is not inductive, since a request's step must come with a
real user, session and problem: `TypeInv` adds `CallsOK`. One lemma per action
shows `TypeInv` preserved. `CallsMatchRows` adds that the identifier a Start has
reserved has no row and belongs to no other request, and that every other
request works on a row that exists; without it a Start could overwrite a row
and an append could give a history to a row that does not exist. From this
`Base`, `NextSessionStep` classifies every step by its effect on the table:
a row is created, claimed, appended to, or sessions end. `IInv` adds the
three invariants and `NoHistoryBeforeRow`; each is preserved by a case split on
that classification, and the action properties follow from the same split.

`AttemptsCoverResponses` is proved without a further assumption, so for any tabs and failures.
`CoverInv` keeps an account per user and problem: attempts counted against graded responses
plus Submits between their two writes. A step leaves the account alone, counts an attempt,
stores the response of a counted one, or gives one up (`AccountStep`), and
`FiniteSetTheorems` follow the cardinalities.

The other four are what a user sees who waits for each answer (`Patient`: `OneTab`, and no
anonymous user, whose session another user could claim); the two other runs are instances
of it. `InTurn` says what that buys: a user has one request, and the row it has loaded is
the row as it is, apart from what the sweeper does.

* `HistoryIsChain` follows from `InTurn`, whatever fails.
* `FreshUntilExhausted` also needs that nothing fails, since a search that fails leaves
  the handler with candidates it would have excluded. `FreshPending` says of a Submit under way
  that the problem it will offer is fresh.
* `LedgerMatchesSessions` needs that nothing fails, since a Close is several statements. `LedgerInv`
  describes the ledger in the middle of one: the profile is a session ahead, and so are the
  topics that are not in `todo` any more.
* `RemediationMatchesHistory` needs it too: the job is requested before the response is stored.
  `RemedyInv` counts requested regenerations as streaks in the history plus requests that
  owe the response for one.

**Only model-checked**: the liveness property `StaleSessionsEnd`.

## 4. JobQueue and JobLifecycle

### State

| variable | code |
|---|---|
| `post` | the HTTP request that posts a job: unused, refused, stored (after the SET, before the LPUSH), returned |
| `budget` | tokens in the hint bucket of the user's session |
| `record` | `job:{id}`; `"none"` before the SET, `"gone"` once its 24 hours have passed |
| `queues` | the Redis lists `queue:{type}`; LPUSH and BRPOP use opposite ends, so a list is a FIFO sequence of ids |
| `workers` | the polling goroutines of every replica: the step of `pollQueue` each is at, and the job it holds |
| `listening`, `streamed` | whether a user's SSE stream is subscribed, and the events it received per job |
| `pushed`, `started` | history variables: how often the id of a job was listed, and the job handed to its processor |

### Actions

    RequestHint   HintLimited | HintPanics | StoreHint -> Push
    Enqueue       StoreJob -> Push
    pollQueue     Pop -> Drop | Begin -> Process -> Announce -> Finish
    environment   Restart, Interrupt, Expire, Subscribe, Disconnect

Every command may fail when `Failures` holds, taking effect or not; errors are
ignored, returned or logged exactly where the code does. `main.go:83` leaves the Redis
client at its defaults, so a command whose reply is lost is sent again: `Resends` is how many
times. Then an LPUSH lists an id several times, a PUBLISH tells an event several times,
the limiter's script takes several tokens, and a BRPOP takes an id nobody gets; a SET
sent again changes nothing more. `PublishEvent` reaches whoever is subscribed at that
moment and nobody else.

Of the two job types in the code only `hint` has a processor registered
(`main.go`). The faults run registers a processor for the other type too, so that
the pool's `job.failed` path, which the hint processor can never take, is
exercised; the remaining runs register hints only, as the program does.

### What a client is promised: `JobLifecycle`

Of a job whose id was listed once: its record goes queued, running, then done or failed; the
stream of its owner carries `hint.ready` and then a closing event, each told at one moment and
none after the record is final, and the record agrees with the event. When the command was
sent again the telling has copies (`Copies`), next to each other. A job whose id was
listed again is processed again (`Redo`): a record that was done may say running, and
everything may be told again. What even then holds is that a hint that was shown
stands: neither the record nor an event says "failed" of it (`HintStands`). Any record may expire.
`JobQueue` implements this (`ImplementsLifecycle`) under the identity mapping of `record`
and `streamed`, with `doubled` the jobs with `pushed[j] > 1`, with any failures, resends, crashes
and expiry.

### Runs

| run | question | instance |
|---|---|---|
| `jobs_faults` | one processing for each listing, life cycle implemented, whatever fails or is sent again | 2 jobs of two types, 3 workers, failures, one resend of any command, crashes, expiry: 1.5 M states |
| `jobs_reliable` | where the id of an unfinished job is; the hint limit; answered hints are settled | 4 jobs (3 hints against 2 tokens, one job without a processor), 2 workers, nothing fails, is sent again, stops or expires, fairness: 13 k states |

Two workers on one list are what a race for an id takes, and an id listed twice then meets
two workers at once; three hints against two tokens make the limiter refuse. The
bucket of the faults run is empty, so that there a hint comes only past a limiter that
fails: tokens are the other run's question.

**Fairness.** `WF(Push(j))`: a handler that stored a job goes on to push it.
`WF(Work(w))`: a polling goroutine loops until its process ends, and each
processor has a timeout. Clients, faults and subscriptions owe nothing.

### What the model has against the docs

* A worker that stops after BRPOP takes the id with it (`worker.go:47`): the record
  stays queued or running until it expires, and no client ever hears an end, which
  `endpoints.ts:335` promises. The same becomes of a hint whose LPUSH fails, since RequestHint
  ignores the error. `jobs_faults` explores these behaviours; `NothingLost` and `HintsFinish`
  are stated without them and do not catch them.
* An id that is listed twice by a resent LPUSH is processed twice, and its record goes back
  from done to running: "at most once" is per listing.
* `HintPanics`: RequestHint goes on without a session it could not load and
  dereferences it, after a token has been taken.

### Proofs (`JobQueueProofs`)

`TypeCorrect`, `ProcessedAtMostOnce` (`Spec => []OneProcessing`) and
`QueueImplementsLifecycle` (`Spec => Lifecycle!Spec`) need `QueueAssumption` only: any failures,
crashes and expiry, and any number of resends.

The argument. `OneProcessing` alone is not inductive: nothing in it prevents
an id from being in a list and in a worker's hands at once. `Counts` keeps the account: times
processed, places in the list and workers that have popped the id never exceed the times it was
listed. The refinement needs more of an id listed once: `Placement` says that it
sits in at most one place - one position of one list, or one worker - and only after
its post was stored. `Progress` relates a job's step, its record and its story on the
stream, so that each event and each write of the record is an allowed step of `JobLifecycle`;
`Kinds` is what is left of that for an id listed again: hints never fail and others are never told
as hints. The simulation has one lemma per action: a step of the abstract specification or a
stutter.

`NothingIsLost` assumes what the property is stated for (`Reliable`: no failure, no resent
command, no crash, no expiry; the run is an instance). On top of `Placement`, `RecordsSay`
makes the record tell where the id is: queued exactly while it waits to be pushed, popped or
begun, running exactly while a worker has begun. `HintsAreLimited` assumes
`Failures = FALSE` only, since the limiter's script lets a hint through when it fails; resent
commands, crashes and expiry do no harm. `BucketInv` is the property with the finiteness of the
accepted hints, which the cardinality needs.

**Only model-checked**: the liveness property `HintsFinish`.

## 5. EventStream

The browser's end of a user's event stream: `TransverseEventSource` with the
provider that drives it, against the server handler that subscribes and sends.

### State

| variable | code |
|---|---|
| `token` | whether the token store holds an access token |
| `started` | `started`, true from the provider's mount to its unmount |
| `status` | the last value given to the status subscribers |
| `controller` | the `connect()` that `this.controller` was made for |
| `conns` | every `connect()` past its token check: awaiting the response or reading it, whether its signal is aborted, and the frames it has not read |
| `timers`, `tracked` | pending `setTimeout`s, and whether `this.reconnectTimer` refers to one of them |
| `published` | events the server published for the user |
| `handled`, `calls` | history variables: events given to the listeners; calls of `start()` and `restart()` |

### Actions

    provider      Mount (start), Unmount (stop), SetToken (restart)
    connect       Connect, then Accept -> Receive* -> Finish
    reconnecting  ScheduleReconnect, FireTimer
    server        Accept, Publish

`Finish` stands for every way out of `connect()`: the `finally` block runs after the
early return of an aborted fetch too, and `this.controller` is already the new one
when `restart()` has aborted the old. `Publish` reaches the connections of the moment;
an aborted one gets nothing more.

### Abstractions

* An event is its position in the sequence published; its contents are left out.
* Backoff delays, and `reconnectAttempt` which only sets them, are left out: a timer
  may fire at any time.
* `Conns` are identifiers for connections alive at once. They are used again, and
  since there are as many as `MaxCalls`, `BoundedConnections` implies that a
  connection never waits for one.
* The provider's cache invalidation is left out.

### Run

`stream_reconnects`: 3 calls of start and restart, 2 events, 137 k states. Three calls
let a leaked connection meet a second restart; two events are what an order needs.
Connections break without a bound, and timers fire without one.

**Fairness.** `WF(FireTimer)`: the browser's timers. `WF` of an aborted connection's
`Finish`: an aborted fetch rejects. A connection that is not aborted may stay silent
for ever.

### What it shows

"One connection for the whole app" (`sse-client.ts:178`) holds until the second call of
`start` or `restart`: each restart leaves one more timer or connection behind, because
the aborted `connect()` schedules a reconnect of its own. `BoundedConnections` states
the exact bound; `OrderedDelivery` is stated for the single connection that the
comment promises, since two connections give each event to the listeners twice.
A leaked connection is not aborted by `stop()` either; it ends when it breaks.

### Proofs (`BrowserProofs`, first part)

From `StreamAssumption` only, for any number of connections, calls and events:
`TypeOK`, `BoundedConnections`, `NeverSilent`, `OpenIsOpen` and `OrderedDelivery`.

The argument. `BoundedConnections` alone is not inductive: `stop()` clears a timer, so
`TimerTracked` has to say that a tracked timer is pending. `OpenIsOpen` needs
`FramesOfStreams`: only a response that is being read has frames to read. `StreamInv` is
the conjunction of the four properties with these two. `ConnectStep` is the shared
lemma about `connect()`: it adds one connection or one timer to what its caller left,
and never an open status. Each action then has a lemma, with the cardinality of
`Live` followed by `FiniteSetTheorems`.

`OrderedDelivery` speaks of what was handled, so `OrderInv` adds what is still to be
handled: the frames of each connection are increasing and were published, and before
a second start or restart they all come after what was handled. There is one live connection
then (`BoundedConnections`), and it is given only events published later than those it has.

**Only model-checked**: the liveness property `KeepsTrying`.

## 6. UseHint and HintDelivery

`UseHint` is the hook alone; an action that needs an answer of the server takes it
as a parameter. `HintDelivery` composes the hook with `JobLifecycle`, the promise
that `JobQueue` was shown to keep, so that the page is checked against what the
backend guarantees and not against its details.

### State

| variable | code |
|---|---|
| `problem` | session and problem of the last render |
| `mounted`, `status`, `hints` | `mountedRef`, `status`, `hints`; `pendingLevel` and `error` follow `status` |
| `requests` | each call of `requestHint`: posting, racing, shown or what ended it; whether its controller is aborted; where its polling loop is |
| `current` | the request whose controller and listener `abortRef` and `unsubRef` hold |
| `subs` | requests whose listener is at the event source |
| `record`, `streamed`, `doubled` | the job's record, its story on the stream, whether its id was listed again (`JobLifecycle`) |

### Actions

    page     Render: RequestHint | ChangeProblem | Unmount
    request  PostEnds: Posted | Refused, then the race:
             Hear (event) against Poll: PollAnswer | PollAgain
    server   Accept, Work (Start, Tell, Settle; Double, Redo for a job of `Relisted`)

### Abstractions

* A request and its job have one name. A hint's text is the request that fetched it.
* What `EventStream` does to an event is abstracted to: heard at any time after it was
  told, or never, or twice. Closing events, which the hook ignores, are not told, and copies
  of one telling are one. A job of `Relisted` may be listed, and so processed, again.
* A record lives for a day and a race for under a minute, so no record expires.
* `MaxPolls` polls fit in the 45 seconds; the deadline may also pass sooner.

### Runs

| run | question | instance |
|---|---|---|
| `hint_race` | spinner honest and ended, finished jobs not missed | 2 requests, 2 problems, 2 levels, 2 polls, fairness: 484 k states |

Two requests let an older one settle while a newer is posting; two levels let the
second be asked for after the first is shown. Deadlock is not checked: the page may
close.

**Fairness.** `WF(PostEnds(r))`, `WF(Poll(r))`: the browser ends each request with an
answer or an error, and wakes a sleeping loop. The server, the stream and the user owe
nothing: the spinner ends even if the job never does.

### What the model has against the comments of the code

* The reset effect clears what is shown (`use-hint.ts:54`) but leaves the race on, so the
  hint of the previous problem appears under the next one (`:132`).
* The `catch` of an older request, torn down by a newer one, sets "error" while the newer
  request is still being posted or raced (`:135`), so the panel may show an error and,
  later, a hint.

### Proofs (`HintDeliveryProofs`)

From `HintAssumption` only: `TypeOK`, `PendingIsFetching` and the action property
`DoneIsNotMissed`.

The argument. `TypeOK` and `PendingIsFetching` are inductive together. The lemmas are about
the hook alone, one per action, whatever the server answers: a failure or a hint takes
the spinner away, whichever request it belongs to; a click puts its own request under
way; an aborted controller only sets a flag, so no request is lost silently. The
server contributes its types. `DoneIsSeen` uses one fact of the server: the answer to a
poll is the job's record.

**Only model-checked**: the liveness property `PendingEnds`.

## 7. AuthSession

One browser: several tabs, what they share (the stored access token, the cached user, the
refresh cookie), the Next.js routes under `app/api/auth` and the backend that rotates
refresh tokens. A token pair is a number.

### State

| variable | code |
|---|---|
| `tab` | a page: `mem`, the token in memory; `shown` and `user`, the provider's React state; `mount`, how far its first effect is; `calls`, `apiFetch` calls by purpose; `req`, its auth requests: the single-flight refresh (`client`), the mount effect's own (`mount`), the form's (`form`) |
| `stored`, `cached` | `tv_access_token` and `tv_user` in localStorage |
| `cookie` | the httpOnly refresh cookie |
| `live`, `good` | `refresh_tokens` not revoked; access tokens the middleware accepts |
| `minted` | the number of the last pair |
| `promise` | history variable: whether the browser was last signed in or out, unknown once two auth requests overlapped, an answer was lost, or the backend failed a refresh that reached it |
| `events` | what visitors, expiries and faults have done, to bound a behaviour |

### Actions

    visitor  Visit, Land (OAuth), Go, Close, Submit, LogOut, UseApp
    servers  CheckRefresh | CheckFails -> RotateRefresh | RotateFails; ServeLogin,
             ServeRegister, ServeSession, ServeLogout; Unreachable
    answers  ClientRefreshed, MountRefreshed, LoggedIn, Registered, Failed, SessionSet,
             LoggedOut, CallAnswered, OnboardingGuard
    faults   Lose, CallBroken, Expire

Checking a refresh token and revoking it are two steps, as in `auth_handler.go:270`, so
two refreshes of one token may both succeed. A refresh that settles resumes every call
that waits for it in the same step, as its promise does.

### Abstractions

* Of the calls for one purpose a tab has one under way at a time.
* Whether a user who signs in is new is a choice; so is whether credentials are right.
* A cookie is sent with a request as it is at that moment, and set when the answer arrives.
* A step of a tab that also changes cookie or storage hands on what they are after it
  (`Browser`, `AsItIs`).
* A logout leaves the access token in `good`: it is put on the denylist as a boolean and looked
  up as a string, and `middleware/auth.go:80` takes that error for "not denied".
* The thirty days of a refresh token do not pass.

### Run

`auth_tabs`: two tabs, 2 tries of a GET, 2 events of the environment, from nobody signed in,
a session left from an earlier visit, or tabs at rest. Two tabs are what sharing takes; two
events suffice for a page that loads while the other signs out, or a token that
expires while a request fails. 603 k states. Deadlock is not checked: a browser may be left alone.

**Fairness.** `WF(Progress)`: servers answer and pages go on. Visitors and faults owe nothing.

`ComesToRest` says that loading the user on a new token does not set off one refresh
after the other; `NobodyIsForgotten`, that what waits for a refresh waits for one that is
under way.

### What the model has against the comments of the code

* `SessionAsPromised` needs its three conditions. The route deletes the cookie on any answer
  that is not ok (`refresh/route.ts:75`, "token is dead"). So two refreshes that overlap
  can end a session, also when another has put a newer token into the cookie; the
  provider's mount effect does overlap with the single flight, as it sends a refresh of its
  own. And a lone refresh ends it when the backend's look at the token fails, which is answered
  401 (`auth_handler.go:283`), or its limiter refuses (`CheckFails`), or the new token
  cannot be stored (`RotateFails`). An answer that is lost leaves the revoked token in the cookie.
* An old token whose revocation fails unnoticed (`auth_handler.go:290`) stays live.
* A logged-out access token is accepted until it expires (above).
* A refresh the network loses signs the user out (`doRefresh`'s catch), while
  `auth-provider.tsx:84` says a transient failure does not.
* `middleware.ts:16` says that both ways of finding a session over emit `auth-expired`;
  the mount effect does not.
* On the OAuth callback the page's effect runs before the provider subscribes, so the
  provider is not told of the new token.
* The token store's comment says the access token is never in localStorage; it is.

### Proofs (`BrowserProofs`, second part)

From `AuthAssumption` only (a finite set of tabs; any number of tries and of events of the
environment): `SessionAsPromised` and `NobodyIsForgotten`. EventStream and AuthSession share a
proof module because both are what every page has; no theorem mixes them.

The argument. `SessionInv` has four parts. `TabSound`, of one tab: a call that waits for a refresh
has one under way (`WaitsOnFlight`), the mount effect is where its request or call says
(`MountSays`), and a closed tab has nothing under way; this gives `NobodyIsForgotten`. `TokensOK`: a token on
its way to the cookie is accepted by the backend and nobody else has it, so an answer
that is late cannot put a used token back. `PromiseKept`: while the history promises
something, at most one request is under way in the whole browser, and it can only
make the promise true; this is the condition of `SessionAsPromised` at work, since a second
request turns the promise to "unknown". The operations of a tab are settled once, as functions of its record
(`Asks`, and a lemma for each operation), then one lemma per action, and the tokens and
the promise by what a step does to the requests.

**Only model-checked**: the liveness property `ComesToRest`.

## 8. PracticeClient

The practice page with its hook, and the summary page, in one tab, against the
sessions of the server. A handler reads the session first and writes it at the end, whatever
has become of it in between; the sweeper runs beside the handlers.

### State

| variable | code |
|---|---|
| `page` | the route, and the state of `usePracticeEngine` |
| `summary` | the summary page: what it read from the cache once, and its query |
| `calls` | requests under way, whether the page that sent them is still there, and their answers |
| `rows` | `practice_sessions` |
| `cache` | sessionStorage `tv-practice-close:<session>` |
| `calm` | history: since the session was opened no two requests overlapped, no answer was lost, no close or restart failed, a resumed session came with its problem, and it was not swept |
| `past` | history of the sessions: those a Close has read as open (`read`), those two have (`twice`), those that got a response after one had (`late`), those a Close could not abandon (`spared`) |
| `clicks`, `faults` | bounds |

### Actions

    clicks   startSession, submitAnswer, skip, endSession, advanceToNext, setCode
    request  executeCode -> pollVerdict* -> Serve -> Finish -> Deliver
             Serve: Start or Admit, the read; Finish: Create, AppendResponse or Close, the write
    faults   Lose, Unread (the problem of a resumed session), Spare (the write that
             abandons), Sweep
    routes   Closed (the effect that leaves for the summary), Recent, Leave, Enter, SessionQuery

### Abstractions

* Theta moves with the question count, code is known by the problem it was written
  for, hints are `UseHint`'s, a problem may have no template.
* Resuming is `Start` on an ACTIVE row. Of a handler there are the first read of the session
  and the write of it; `PracticeSession` has the statements between and after.
* A handler whose answer is lost is done by the time the page knows. One that goes on writing after
  the page has given it up is not modelled; handlers that overlap are, as two requests.
* `Polls` polls fit in a verdict's 30 seconds.

### Run

`practice_page`: 2 problems, 3 sessions, 2 requests at a time, 5 clicks, 2 polls, one fault (a
lost request or answer, a read or write that fails, a sweep): 1.4 M states. Two requests are an
overlap; five clicks start, answer, close, start again and answer; a session takes two clicks, or
one and a sweep, so identifiers do not run out.
Deadlock is not checked: the user may stop.

**Fairness.** `WF(Progress)`: browser and server answer every request in the end.

`WaitingEnds` holds whatever overlaps, fails or is lost. `ClosedIsClosed` holds then too, but for
what the code does, and its text excepts:

* Submit and Skip append to a session without looking at its status again
  (`session_repo.go:97`), so a response can come after Close has counted them: the cached total
  and the summary's tiles are then short of it (`late`);
* Close drops the error of the write that abandons (`practice_session.go:881`) and answers as if
  it had been made: the session is still open (`spared`), and the next start resumes it;
* two Closes of one session that both read it as open are both accepted (`twice`); the second
  answer may come when the page has gone on to another session, and is taken for that one's.

`InStep` is conditional on `calm`. Outside it:

* a session whose problem cannot be read when it is resumed comes without one
  (`practice_session.go:133`), and the page says that the problems are exhausted;
* the sweeper ends a session under the page, which goes on offering it;
* a close that fails, or an answer that comes late, returns the page to "active", where a
  session that has ended can be neither answered nor left; Submit and Skip stay enabled
  while the session is being closed;
* a verdict on the previous problem, or session, is shown over the next one;
* a start that fails over a closed session shows the ended workspace again.

Even in `calm` a resumed session shows a count of 0 and its first theta until the next answer,
and the mode and scope chosen for it are ignored.

### Proofs (`PracticeClientProofs`)

`ClosedStaysClosed` (`Spec => []ClosedIsClosed`) and `StaysInStep` (`Spec => []InStep`), from
`PracticeAssumption` only: any problems, sessions, requests, polls, clicks and faults; as many
requests at a time as `Slots` has members, finitely many.

The argument. `PageInv` has two halves. One holds whatever happens: what a Close has read of a
session is what the row counted then (`Counted`), a row only grows, and it grows after that read only if
the session is `late`; a Close that was accepted ended the session or spared it (`Accepted`);
so the cache (`CacheOK`) and the summary (`SummaryOK`) are right. The other half, `Ordered`,
holds while no two Closes of one session were accepted. A page could say "closed" of a session that
is not if the answer to a close came after the page had gone on to another session. `Order` excludes it: a
close of another session than the page's is of one whose close result is cached, so it is refused, since
one Close of a session is accepted (`Unique`). This needs in turn that a page which starts a session
has none, or a closed one, and has one start under way at a time, because the start card is not shown
otherwise (`PageOK`).

`InStep` speaks of a page that waits for nothing. `CalmOK` says of a calm history what holds in
between: there is one request at most, and by its operation and step it
determines what the page shows - a start its answer, a submission the problem the server
is at until it is recorded and the count afterwards, a close an open session (`StartHolds`,
`RecordHolds`, `CloseHolds`). It needs `PageInv`, the invariant of the first theorem, for the rows.

**Only model-checked**: the liveness property `WaitingEnds`.

## 9. SolveClient

The problem bank and the solve page. The bank is read through React Query with the
previous answer as placeholder; the solve page mounts an editor that the layout or
a tab may drop while its requests run.

### State

| variable | code |
|---|---|
| `route`, `world` | the page and whether its URL names a session; whether localStorage works and the problem has samples |
| `list` | filter and page of the bank, the answer shown last, whether the debounce timer runs; `hasty`, a history |
| `query` | the answers of `/problems/search` by filter and page |
| `scrape`, `preview` | the dialog that reads a problem by URL, and the preview |
| `solve` | the problem's query, the layout and the tab |
| `ed` | the editor panel: language, code, phases of run and submission; `recorded` and `lost` are histories |
| `drafts` | localStorage `tv:solve-draft:<problem>:<language>` |
| `flows` | requests of editors, mounted or not |
| `typed` | history variable: what was last typed in each language |

### Actions

    bank    SelectFilter, Type, clearFilters, useDebouncedValue, NextPage, PreviousPage,
            Refetch, searchProblems
    dialogs OpenScrape, SubmitUrl, CloseScrape, handleScraped, ScrapeFails, OpenPreview,
            ClosePreview
    page    SolveProblem, BackToProblems, findProblemById, TryAgain, SetMobileTab,
            useMediaQuery
    editor  setCode, resetToTemplate, setLanguageKey, handleRun -> executeBatch,
            handleSubmit -> executeCode -> getVerdict* -> submitPracticeAnswer, FlowFails

### Abstractions

* The bank does not change, so an answer is its key; a filter stands for the text and the
  three selects. A request that fails has used its retries.
* One problem; its code is the starter or not.

### Run

`solve_page`: filters with two, one and no pages, 2 languages, 2 requests, 4 clicks, one loss.
Two pages and a filter with one are what an offset that is not reset takes; two requests let
a dropped panel's answer meet a new panel. Deadlock is not checked: the user may stop.

**Fairness.** `WF(Progress)`: timers run and a request is answered or given up.

### What it shows

* "No problems match" is true unless the reader turns the greyed pages of another
  filter: then a page past the end is asked for, and nothing leads back from it.
  The placeholder of an empty answer says it too, while the new one loads.
* Drafts survive every switch of language, tab, layout and page while localStorage works;
  when it does not, switching language loses the edits.
* A panel never shows another panel's run or verdict. But one that was dropped leaves its submission
  going, and the new panel offers Submit again.
* Closing the scrape dialog does not stop its request: the preview opens later.
* `findProblemById` reads the first thousand problems, so a later one is "not found"; and
  nothing links to the page with `?session=`, without which Submit is not offered.

### Proofs (`SolveClientProofs`)

From `SolveAssumption` only: `EditorTypes`, `DraftsKept`, `PanelIsHonest`, `EmptyMeansNone`.

The argument. `EditorInv` is the types with `CodeInv` and `PanelInv`. `CodeInv`: as long as localStorage
works, a draft is what was typed, or none and the starter was. `PanelInv` replaces the cardinality of
`PanelIsHonest` by uniqueness: a panel in a waiting phase owns exactly one request in the
matching step, and a panel that is not there owns none. The actions fall into a few kinds (an
edit, a page that becomes another, a step of one slot, a step that does not touch the
editor), with one lemma each. `BankInv` is separate: what is shown under its own key
is a page of that filter, unless it was turned hastily.

**Only model-checked**: the liveness property `WaitingEnds`.

## 10. Onboarding

`OnboardingTab` holds the page and the bounds; `EvidenceSync` is the list of sources, the connector
card of the settings and the backend's evidence service; `DiagnosticQuiz` is the
quiz with its results; `Onboarding` composes them with the navigation, which takes
the state of a page with it and leaves its requests behind.

### State

| variable | code |
|---|---|
| `source`, `call` | the page's list with its timers; the request each source is at |
| `row`, `object` | `evidence_sources` with the goroutine's next statement; the object in MinIO |
| `jobs` | jobs whose completion the page will hear, of whatever kind |
| `card` | a connector card: its record in localStorage and on the page |
| `hurt` | history: the server's work on a source was cut short, or a statement whose error it ignores failed |
| `quiz` | the state of `useQuizSession`, with the tally by topic |
| `req`, `sess`, `cache` | requests under way, `practice_sessions`, sessionStorage |
| `results` | the results page |
| `graded` | history: answers graded for this visit and sent to it |

### Actions

    sources  addConnector, addUpload, ConnectorForm, removeSource, handleDisconnect
             Serve -> Answered | Refused (an upload: url, put, confirm)
             JobCompleted, scheduleAssumedDone
    service  Mark -> Fetch -> CreateExtract -> EnqueueHypothesisGeneration -> Purge; Abandon
    quiz     submitAnswer, skip, continueQuiz, skipQuiz, Retry, dismissError
             Judge -> ServeQuiz -> Deliver, or Lose; Generate
    pages    Follow, Done, SkipUnstarted, GenerateSucceeds, SignedOut

`Abandon` is the five-minute context that ends one goroutine, or a restart that ends all.

### Abstractions

* A source is a slot used once; a status update and the statement before it are one step,
  because nobody reads the row in between.
* A problem is its place in the order the server hands problems out, and its topic is that
  number modulo `Topics`.
* The server handles a request of the quiz in one step (`PracticeClient` has the two of a handler). A practice
  session may be ACTIVE when the user comes to the quiz.

### Run

`onboarding_tab`: one upload and one connector, a quiz of 2 questions on 2 topics with 3 problems and
2 sessions, 2 requests at a time, 4 clicks and one fault: 276 k states. The code's cap
is eight; two is the least at which one question is not the last. Four clicks reach the
page, start two sources and remove one, or answer, skip and retry. Deadlock is not
checked: the user may stop.

**Fairness.** `WF(Progress)`: requests are answered, goroutines run, effects and timers fire.

### What the model has against the comments of the code

* "Zero residual MinIO objects" (`service.go:180`) holds for work that ran to its end and whose
  statements succeeded (`NothingResidual`); a deletion that fails clears the key all the
  same, and a restart or the deadline leaves row and object as they were. An upload whose
  confirmation is never sent keeps its object for ever.
* The page never learns what became of a source. Any job's completion, or six seconds, makes
  every source in flight "done", also one whose request is still being answered, which
  later goes back to "processing". `FailureStays` says what is left: a failure of its own
  requests is shown and nothing hides it.
* "Continue to results" leads to a results page without a session, which finds none.
* A quiz that is left at its cap and entered again lets one more question in at each visit: a session
  that was resumed is not `fresh`, and `CapHolds` is stated for the others. A practice
  session that is resumed makes the quiz short and its results those of both.
* After a close that failed, Retry starts or resumes a session instead of closing; a close applied
  whose answer was lost makes the results unreachable. A second session of a visit can
  pass the cap: answers to requests of the first still set the phase, and one that
  reopens the console adds a question. So `fresh` is the session that the first start of a visit made.
* The meter calls a topic confirmed from half the answers up, the results page from a
  mastery of 60.

### Proofs (`OnboardingProofs`)

From the assumptions of the modules only, for any sources, uploads, sessions, topics, clicks and faults:
`FailureStays`, `NothingResidual`, `CapHolds` and `TallyCounts`.

The argument, for the sources. Neither of the first two is inductive: the first needs that a request under way has not failed, the
second that the object was stored before the work on it began. `EvidenceInv` has for each source a
`PageSide`, a `RequestSide` and a `ServerSide`, the last saying what each statement leaves for
the next unless the work was `hurt`. Most actions touch one source, so `OneSource` reduces them to
it; the quiz and the navigation only touch the page's half.

For the quiz, `QuizInv`. `VisitInv` ties each request to the visit it was sent by; above all, while
the session of a visit is `fresh`, every request of the visit is about it. `CapOK` counts
turns: a console that can ask, or a request whose answer would reopen it. There is one, and one
more for each fault; questions asked plus turns never exceed the cap and the faults, so a
turn that is spent on a question lets no other follow it at the cap. `TallyOK` makes `TallyCounts` inductive:
graded is the tally plus the graded answers still on their way. The proof attempt showed that the cap fails for
a later session of a visit, which the bounds of the run do not reach (above).

**Only model-checked**: the liveness property `OnboardingSettles`.

## 11. RoadmapService and Roadmap

`RoadmapService` is one user's roadmap in the database with the requests on it, statement by
statement; `Roadmap` is a tab that shows it (dashboard, `/roadmap`, node, tutorial) over one
cached query, with another device beside it.

### State

| variable | code |
|---|---|
| `ur` | `user_roadmaps`: template and current phase |
| `built`, `rule` | each template's phases with their numbers of nodes; how its nodes unlock |
| `progress` | `user_roadmap_node_progress`; a tested-out node is "mastered" here |
| `req` | requests: the next statement, and what was read so far |
| `earned`, `short` | histories: sections once complete and settled; sections left on a list of nodes that was cut short |
| `undone` | history: settled nodes that a late upsert, of a builder or a reader, took back |
| `route`, `busy` | the page, and its buttons |
| `query` | the `["roadmap"]` query: data, error, staleness, the fetch in flight, its tries |
| `transition`, `timer` | what `/roadmap` animates, and the timeout that ends it |
| `claimed` | history: nodes whose completion was confirmed to a page that shows the roadmap |

### Actions

    build   CreateTemplate -> (CreatePhase -> (CreateNode -> CreateUserNodeProgress | SkipNode)*)*
            -> UpdateUserRoadmapPhase
    read    GetUserRoadmap [-> build] | GetTemplatePhases | NoPhasesFound
            -> GetUserNodeProgresses -> GetPhaseNodes [-> UnlockSection]
    settle  CompleteNode; any statement: Fail
    page    Visit, Complete, Retry, Generate, TimerFires
    others  OtherDevice, Updated (roadmap.updated arrives)
    answers Loaded, LoadFails, Completed, CompleteFails, Generated, Dropped

### Abstractions

* Steps are the statements between which another request can make a difference. A read whose
  error the service returns is one with the loss of its answer (`Fail`).
* `roadmap_repo.go` never looks at `rows.Err()`, so a read that breaks off is a shorter list
  without an error: phases, nodes and progress rows may each be cut short, at the price of a
  fault. An answer made from progress rows that were not read in full is `blind`.
* `Unlock` is the identity: it looks a roadmap up by its own id where the user's is expected
  (`service.go:802`) and returns.
* The LLM's reply is "open", "gated", or of no use and replaced by the default. Which topics
  are chosen is data; a topic the graph does not know is left out (`SkipNode`).

### Run

`roadmap_tab`: sections of two nodes and of one, up to two templates, 2 requests at a time, 2
clicks here and one event elsewhere (a read or a completion of another device, or
`roadmap.updated`), one fault, gated replies, curated tutorials, a new and a returning user: 1.3 M
states. Two nodes and one are the least at which a list can be cut short, be only partly settled, and
a section be left; two templates let one be built while the other is read or moved on. Two clicks
complete a node and generate or open another; with the event elsewhere a node can be completed between
its two rows of the builder. A node that was both confirmed to the page and taken back
takes four clicks and is beyond these bounds; the theorem covers it. Deadlock is not checked:
the user may stop.

**Fairness.** `WF(Progress)`: requests are answered and the timer fires.

### What it shows

`SectionsEarned` is the promise of the screen: a user is in a section because the ones before it
were settled, whatever template was built, replaced or read meanwhile - except for a section left
on a list of its nodes that was cut short, all of which were mastered
(`roadmap_repo.go:131`, `service.go:205`). `CompletedShows` is the promise of the button: a node
whose completion was confirmed to a page that observes the query is shown as settled, except
when it was taken back (`undone`), when the rows were not read in full (`blind`), and after a fetch
that failed. What else the model has against the comments and tests of the code:

* no node but the first of each section is unlocked by completing another, so the nodes 1.2 on
  of the default roadmap stay locked and its end is not reached from the pages
  (`service.go:802` against `:375`), and the banner keeps proposing the mastered 1.1;
* a node can be read and completed before the builder writes its progress row, and that upsert
  takes the completion back (`service.go:509` and `:524`, `roadmap_repo.go:76`); so does a read
  that was slow, and it may move the current phase back;
* progress that could not be read is answered with 200 as untouched;
* a template whose building failed half-way is never repaired; two first reads build two;
* a generated section without a valid topic cannot be passed, and one whose first topic was not
  valid stays locked;
* invalidating does not cancel a fetch in flight for a page that is not there, so a completed
  node may show as open for 30 seconds; hence `claimed` counts pages that observe;
* after generating, the cached roadmap of before is shown for up to 30 seconds, and
  `router.push` goes there even if the user has left the results;
* curated tutorials get new ids with every answer, so a refetch turns an open
  tutorial into "not found"; the reader completes nodes whatever their status;
* of the events of a roadmap only `roadmap.updated` refreshes the query
  (`practice_session.go:632`, `sse-provider.tsx:57`), and it is published when the user keeps failing;
  `node.unlocked`, which the client listens to, is never published, and nothing listens to
  `roadmap.section_unlocked`.

### Proofs (`RoadmapProofs`)

`SectionsAlwaysEarned` and `CompletedAlwaysShows`, from the two assumptions only: sections of any
size, any number of requests, templates, clicks and faults.

The argument. `SectionsEarned` speaks of the row, but a request that has read the row writes it back
later, so `RoadmapInv` says the same of what every reader holds (`ReadOK`), of the sections
`Passed == earned \cup short`. A reader decides by rows it read before: `RowsOK` says that a section
those rows settle was passed; the reader that leaves one on fewer of its nodes puts it in `short` itself. The hard case is
a template that grows after they were read. `GrowRows` shows that a section that grew has a
node those rows lack, which is not settled, so the decision stays right: it is why the code may
not skip nodes without a row (the mutant `AllMasteredOrMissing`). The rest is bookkeeping:
templates only grow (`Grows`), a builder owns its template and is at its end (`SpotOK`, `BuildOK`),
settled nodes were built.

`CompletedShows` speaks of a page at rest; `ShowInv` follows a confirmed node there. It is settled in
the rows unless an upsert took it back (`ClaimsOK`: `claimed \ undone`), and so it is in the rows that the
query's own fetch has read, if it read them in full (`ReadsWell`), since completing a node starts that fetch anew, and then in what is
shown (`FetchedOK`). A page completes a node only while it shows a roadmap (`AskedOK`). The
least element that `First` chooses exists because the naturals are well founded (`FirstOf`).

**Only model-checked**: the liveness property `RoadmapSettles`.

## 12. What is only model-checked

The liveness properties, which need `ENABLED` and fairness and are out of TLAPS's reach:
`StaleSessionsEnd`, `HintsFinish`, `KeepsTrying`, `PendingEnds`, `ComesToRest`, `WaitingEnds` of
`PracticeClient` and of `SolveClient`, `OnboardingSettles` and `RoadmapSettles`. Every invariant, the
action properties and the refinement are proved.

The counts in the proofs (cardinalities, streaks, sums over a history) are followed step by step with
`FiniteSetTheorems`, so no proof is by induction over data; where a value is defined as the
least of a set, well-foundedness of the naturals gives it (`WFMin`). What a theorem assumes beyond
the `ASSUME`s of its module is in its statement, and is a setting of the model's own switches that
the run of the property uses too: `Patient`, `Failures = FALSE`, `Reliable`.

## 13. Not modelled

* **Learner profile and caches.** A user row filled into the cache after its SELECT may be
  older than an update that has deleted the key in between (`user_repo.go:57`), for the
  lifetime of the entry. The models read the row itself.
  The lost update of `practice_session.go:622` needs a second field of the DNA, where
  `PracticeSession` has one counter.
* **Judge0, topic graph, templates, scoring.** An HTTP client whose verdict, delay and failure
  are choices here; pure functions over static or floating-point data. The formulas
  (theta, Glicko-2, similarity) are represented by the order and bounds control depends on.
* **Rate limiter.** One script, atomic in Redis, failing open.
* **Operations nothing calls** from the app: roadmap Regenerate, a second ConfirmUpload of one
  upload (`evidence/service.go:153` would process it twice), GetErrorAnalysis.
* **Pages without a protocol**, design system, animation, mocks, the profile's paging, settings
  forms: rendering.
* **Pipelines**, embedding, scraper, the connectors' HTTP, LLM prompts: I/O and text with no
  control that a model checker would reach.
* `extras/` holds the predecessor of the practice engine and one-off scripts, which are not
  part of the program.
