# project_agent: a TLA+ model of the agent runtime

project_agent runs tool-using agents in the background. An API process accepts
runs (`POST /runs`), worker processes execute them, Postgres keeps the rows and
the transcripts, Redis carries the list of pending ids, the cancel keys and the
event channels, and clients follow a run over server-sent events. The modules in
this directory model that pipeline, the agent loop inside a worker with its tools
and sub-agents, the API's connection pool, and the two clients the repository
brings along: the browser page and the evaluation harness.
TLC checks them on small instances; TLAPS proves every safety property the runs
check, for any number of runs, workers, requests, clients, cases, turns and
messages. Liveness is model-checked only.

Paths below are relative to the repository (`app/...`, `eval/...`).

## 1. Inventory

| component | code | state it keeps | operations | talks to |
|---|---|---|---|---|
| Run entity, runs table | `app/domain/run.py`, `app/infrastructure/repositories.py` | status, result, error, four metric columns | `submit`, `mark_*`, `record_metrics`, `get`, `update` | sessions of the API and the workers |
| Submission | `app/application/run_service.py` (`RunService`), `app/interface/api/runs.py` | none beyond the row and the list | commit the row, LPUSH the id | Postgres, Redis list |
| Queue | `app/infrastructure/queue.py` | list `runs:pending` | LPUSH, BRPOP | API, workers |
| Worker | `app/worker.py` | the run in hand, its outcome | claim, run the agent, final transaction, terminal event | everything |
| Cancellation | `run_service.cancel_run`, `app/infrastructure/cancel.py`, the cancel endpoint | a key with a TTL per run | mark a queued row, set the key, publish | row, key, channel |
| Supervision | `worker._run_cancellable` | a task and a watchdog task | poll, cancel the task, await both | cancel key |
| Agent loop | `app/application/agent/loop.py`, `compaction.py` | conversation | check the key, compact, ask the model, store, dispatch tools | model, tools, `on_message` |
| Event stream | `app/application/agent/events.py`, `event_bus.py`, `runs.run_events`, `worker._make_on_message` | messages stored, channel, one generator per client | persist and publish; replay, subscribe, forward | Postgres, Redis pub/sub |
| Tools, memory, sub-agents | `app/application/agent/tools/`, `subagent.py` | memories table | dispatch with capability and timeout | agent loop |
| Metering | `app/infrastructure/llm.py`, `app/domain/usage.py` | token sums, call count | `record_call`, `compute_cost` | agent loop, row |
| API sessions, read-only endpoints | `app/infrastructure/db.py`, `deps.py`, `runs.get_run`, `runs.list_runs`, `health.py` | the engine's pool of connections | take and give back a connection; a row, a page of rows, a probe | Postgres, Redis |
| Eval harness and report | `eval/harness.py`, `eval/__main__.py` | results of the cases so far | submit, read the stream, judge, next case, exit code | the API |
| Browser page | `app/static/index.html` | active run, event source, two buttons | submit, follow, cancel | the API |
| Wiring | config, main, redis, tracing, migrations | none that changes at run time | | |

What is hard here:

* **Read, then write, without a lock.** Claim, final transaction and cancel each
  read a row and write it back later; the UPDATE tests nothing but the id, and
  sends only the columns that changed. Any two of them may overlap.
* **Two stores without a common transaction.** Row and list, row and channel,
  row and cancel key are written one after the other; a process may stop between.
* **A queue that forgets.** BRPOP removes the id before any work is done.
* **A channel that forgets.** PUBLISH reaches whoever is subscribed at that moment.
* **A client that retries.** An LPUSH whose reply was lost may be sent again.
* **Interruption at every await.** The watchdog cancels the agent's task anywhere.
* **Bounds in different units.** Compaction triggers on tokens and drops messages.
* **A pool that may run dry.** Streams last as long as runs, connections are few.
* **Callbacks of the past.** The page's requests and streams are answered when it
  may have moved on to another run.

What must hold, per component: a run is executed at most once and is never lost
without a failure; row, columns and events agree; every run ends and is
announced; a cancel request ends a stuck agent, and an agent's outcome is not
replaced by another; every request the model receives is well formed; the
transcript is complete; a client misses nothing that the protocol does not force
it to miss; the harness never passes a run that failed its case, and its exit
code says so; no request starves for a connection; the page shows one run, and its
buttons are about that run.
`PROJECT.json` lists the individual hazards with the line at which each bites.

## 2. Modules

```
RunRow ── RunPipeline ── MCRunPipeline            AgentLoop ── RunCancellable
             │      └─── RunResend
             └ INSTANCE RunLedger                 EventStream ── MCEventStream
                                                       └─ EvalHarness ── EvalSuite ── MCEvalHarness
ToolCalls (one DispatchTool of AgentLoop, seen from inside)
Page (a client of EventStream's protocol)         ApiSessions (what the API's handlers hold)
```

The theorems are in modules beside these, each extending the module it is about:
RunPipelineProofs, RunResendProofs (on top of it), EventStreamProofs,
EvalSuiteProofs (on top of that; about EvalHarness too), RunCancellableProofs
(about AgentLoop too), ToolCallsProofs, PageProofs, ApiSessionsProofs.

**RunRow** is the entity and its storage. A row is a status and three booleans:
whether `result`, `error` and the metric columns hold a value. `Mark` is the
`mark_*` methods and `MarkFrom` their guards. `Flush(stored, loaded, run)` is
`update()` and the flush that follows: a column is written only where the new
value differs from the loaded one, over whatever is stored at that moment.

**RunPipeline** is the life of the runs. Each action is the code between two
awaits that reach Postgres or Redis.

| variables | code |
|---|---|
| `row`, `queue`, `signal`, `events` | the table as committed, `runs:pending`, the cancel keys, terminal events per channel |
| `submit` | how far the submit handler of each run got |
| `wpc`, `job`, `wobj`, `worm`, `outcome` | per worker: the step in `_process_one`, the run id, the `Run` to write back, the values the ORM instance was loaded with, how the agent ended |
| `cpc`, `target`, `cobj`, `corm` | the same for each concurrent cancel request |
| `starts`, `finishes`, `interrupted` | history: committed claims and outcomes, runs that met a failure |

`SubmitCommit`/`SubmitEnqueue` are `RunService.submit`; `Dequeue`, `Claim*`,
`Agent*`, `Final*`, `PublishOutcome` are `run_worker` and `_process_one`;
`Cancel*` are the endpoint and `cancel_run`. Transactions run at READ COMMITTED.
`repo.update` asks the session for the instance again; the identity map may
still hold the one the first `get` loaded, or the row is selected anew, so
`ClaimUpdate`, `FinalUpdate` and `CancelUpdate` choose between the two. Failures
(`SubmitFails`, `DequeueLost`, `WorkerAbandons`, `CancelFails`) are process stops
and calls that raise; `WorkerAbandons` is also the `except Exception` of
`run_worker`. When a failure strikes after a commit but before the process
learned of it, the state is that of the action followed by the failure.

**RunLedger** is what the pipeline promises of status and history counters
alone: created once, started at most once, an outcome stored at most once and
only after a start, nothing back to queued, success and failure never replacing
one another. It allows what the code allows: a claim or an outcome may overwrite
a cancellation it did not see, and a cancellation may land on an outcome.

**RunResend** is RunPipeline with one more step: an LPUSH is applied, its reply is
lost, and the client sends it again (once per run: `resent`), so that an id is on
the list twice. `raced` records the runs two workers were claiming at once, from
the SELECT that found them queued to the COMMIT (`Overlap`).

**EventStream** is one run's messages and events and the handlers that stream
them. Messages are a fixed transcript of block kinds; `DeriveEvents` is
`derive_events`, `StoreMessage`/`PublishEvent` are `on_message`, and a client's
`ReadRun`, `ReadHistory`, `Replay*`, `Subscribe`, `Forward`, `Leave` are
`run_events` and `_event_stream`. `missed` records what was published between a
handler's SELECT and its SUBSCRIBE. Claim, outcome and cancel requests read the row
and write it in separate steps, as in the code (`ClaimGet`/`ClaimCommit`,
`FinalGet`/`FinalCommit`, `CancelGet`/`CancelCommit`/`CancelPublish`), so a stale
claim revives a run whose `cancelled` was sent, and a late cancel closes the
streams of a run that goes on. `overwrote` says that a COMMIT changed a status its
writer had not read, `late` holds what was published to a client after the event
that closes its stream.

**AgentLoop** is `AgentLoop.run` with `compact_messages` and the `on_message`
the worker passes in. A message keeps role, turn, number of tool blocks and
size. `StopAt` ends the coroutine at any await; `on_message` may have committed
by then. A tool call is one step: `dispatch` returns or raises, and both become
the tool's output. `received` counts the answers given to this loop; a
sub-agent's own calls go through the same metered client and come on top.

**RunCancellable** extends AgentLoop with `_run_cancellable`: the task, the
watchdog and `_process_one` awaiting one after the other. `WatchdogWakes` tests
`task.done()`, `WatchdogAnswered` calls `task.cancel()` one await later,
`WatchdogDies` is a poll that raised. The finally clause cancels the watchdog
(`TaskAwaited`), which notices when it is next resumed (`WatchdogCancelled`), and
`WatchdogAwaited` waits until it is done.

**ToolCalls** is what happens inside the tool calls that AgentLoop takes as one
step each: the registry and its capabilities, handlers under a timeout,
`remember`'s INSERT, and the sub-agent a delegate call starts. There are two
levels, agent and sub-agent; a loop is reduced to its turns and the calls left in
its last answer, so the module needs no conversation. `Timeout` cancels a
handler at whatever await it stands, `Interrupt` is the watchdog's cancel, which
passes through both levels; both may strike an INSERT that is or is not yet
committed (`CutOff`). `get_current_time` and `file_read` have no await: while
one runs, nothing else can (`Blocked`). `saved` counts the rows this agent added,
`told` the calls that reported success, `cut` those that ended while inserting.

`metered` is the call count of the run's one `MeteredLLMClient`, `billed` the
answers the provider came to, `unheard` the calls that ended without their answer.

**EvalHarness** extends EventStream with `_run_case`: the harness is one of the
stream's clients and judges the run by the lines it read. The calls that name the
expected tool are chosen at the start, whether the result has the expected text
when it is judged. httpx's timeout is per read, so it can strike whenever nothing
is left to read. It does not look at the status of the stream's response, so an
error page is a stream without events (`OpenRefused`), and a body that ends in
order without a terminal event ends the loop (`StreamEndsEarly`); both leave the
run's status `unknown`. Others may cancel the run meanwhile. **EvalSuite** is
`run_eval` and `_main` around it: each case is a run of its own, with a fresh
EventStream, and the exit code follows from the results.

**Page** is the script of `index.html`. A callback is one action (`ReceiveStep`,
`ReceiveEnd`, `ReceiveError`), and each of `submitRun` and `cancelRun` is cut at
its `await fetch`. `shown` holds the lines of the `#stream` element as kinds with
the run they are about. The server is reduced to what the page can notice: a run
is live and then ends with one of three events, its stream's handler reads the
row before it subscribes (`missed`), a cancel request may be handled long before or
without its answer, `fetch` resolves whatever the HTTP status is, and connections
break. `letGo` records the runs the page gave up on by a failure, `revived` those
that a stale claim took up again after they were cancelled.

**ApiSessions** is the lifetime of the API's database sessions: which handler has a
connection of the pool at which of its awaits. The handlers are those of
RunPipeline's endpoints, reduced to what they wait for (a connection, Postgres,
Redis, the end of a stream), and the read-only ones. `Pager` is a client that asks
for one page of `GET /runs` after another; `created` orders the runs by
`created_at`, which is set before the row is committed.

**MC…** modules hold transcripts, the symmetry of one safety run, and the
properties that need no proof. Operators whose comment begins with "Mutant" are
plausible bugs of the definition that follows; nothing uses them but the test
that the properties would notice.

## 3. Runs

| run | instance | shows |
|---|---|---|
| RunPipelineSafety | 2 runs, 2 workers, 2 cancel requests, failures | `TypeOK`, `AtMostOnce`, `Custody`, `OutcomeConsistent`, `EventsMatchRow` |
| RunPipelineLive | 2 runs, 2 workers, 1 request slot, no failures, fair | `EveryRunEnds`, `EveryOutcomeAnnounced`, `ImplementsLedger` |
| RunPipelineTerminal | 1 run, 1 worker, 1 request | `TerminalStands` is violated |
| RunResend | 1 run whose LPUSH may be sent twice, 2 workers, 1 request slot, failures, fair | `HarmOnlyByRace`, `ResentRunEnds` |
| EventStreamSafety | 1 client, 1 cancel request slot, four messages with five kinds of block, worker and request may stop, fair | `TypeOK`, `LiveInOrder`, `ClosedByOutcome`, `NothingElseLost`, `InTimeStreamEnds` |
| EventStreamHang | 1 client, three messages | `OpenStreamCloses` is violated |
| RunCancellableSafety | 4 iterations, window 1 + 2, limit 5, sizes 1 and 3, at most 1 tool per answer, failures, only the supervision fair | `TypeOK`, `RequestWellFormed`, `RequestIsRecent`, `TranscriptComplete`, `OutcomeIsAgents`, `EndedTaskIsReported`, `RequestStopsRun`, `AgentAlwaysEnds` |
| RunCancellablePoll | 2 iterations, failures | `ReturnsCoroResult` is violated |
| ToolCallsSafety | 2 levels, 2 iterations each, at most 2 calls per answer, only the agent's own loop fair | `SubAgentConfined`, `MemoryHonest`, `MeterHonest`, `AgentEnds` |
| EvalHarnessSafety | 2 cases, each a run with a tool call, 1 cancel request slot, failures, only the harness fair | `NoFalsePass`, `FailedByStreamOnly`, `ExitHonest`, `EvaluationEnds` |
| PageSafety | 2 runs one after the other, 1 cancel request slot, broken streams | `TypeOK`, `ShowsOneRun`, `LetGoOnlyByFailure`, `ControlsMatch`, `EndIsShown`, `ComesBack` |
| ApiSessionsSafety | 3 requests of any kind and the pager, a pool of 2, pages of 1, failures | `HeldForPostgresOnly`, `PagingSkipsNothing`, `EveryRequestAnswered` |

**Bounds.** Two runs make a queue with an order, two workers a race for ids, two
cancel requests a race between requests on one run as well as requests on both;
request slots are reused, so the number of requests over time is not bounded.
The proofs remove these bounds for the safety properties. A client's handler does
not interact with another client's, so one suffices; one request slot is enough for a
request that races the claim, one that races the outcome, and one that comes
again, for it is free once its request is answered. The harness's second case
starts from whatever the first left behind. One tool call is what its verdict can
miss; with several, which the theorems allow, the state space is out of reach. The page needs two runs for a late
callback to meet the next run; a cancel request of the first may still be under
way in the second. Three requests and the pager are more than the pool of two has
connections, and three submissions around a page of one shift it at every place. A window of 1 + 2 messages
is exceeded after the second turn, so four iterations compact repeatedly, sizes 1
and 3 around a limit of 5 make compaction both happen and not happen, and both
help and not help. Answers with several tool calls are left to the theorems about
RunCancellable, which hold for any number of them: with two, four iterations are
out of reach. Two turns of two calls let a call follow another in one answer
and in the next, at both levels, hence an INSERT cut off before and after one
that was reported. The real values are 50, 80 000 and 10. Deadlock is not
checked: every instance has finitely many runs, messages or iterations, and the
system really is done when they are.

**Fairness.** `FairSpec` of RunPipeline: a handler that has begun runs on, and
`run_worker` takes every step that is ready, since no step waits for another
process once its reply is there; the agent ends because iterations are bounded
and every model or tool call has a timeout. Each worker's steps are weakly fair
as one action: at most one of them is enabled at a time. Nothing obliges users to
submit or cancel. `FairSpec` of EventStream: run and handlers go on, and so does
a cancel request once it has read the row; clients may
leave. `StuckTaskSpec` of RunCancellable assumes nothing of the agent, and nothing of
Redis: only timers and asyncio's scheduler are fair. That Redis answers the watchdog is
assumed by `RequestStopsRun`, in its own statement. They are weakly fair one
by one, for a poll repeated for ever must not count as progress of the
interrupt. `FairSpec` of ToolCalls assumes that the agent's loop goes on, that its
model answers or fails, that timers fire and that a handler without an await
ends; other tools, the embedder, Postgres and sub-agents may hang.
`FairSuiteSpec` assumes only that the harness itself goes on, its
timeout included; the API and the worker may stop for good. `AgentAlwaysEnds`
assumes in its own statement that each call of the agent returns, which
the properties beside it must not. `FairResendSpec` is RunPipeline's `FairSpec`:
a worker that is never abandoned goes on. `FairSpec` of Page: callbacks run, an
accepted stream is served, runs end; users need do nothing and `fetch` need not
return. `FairSpec` of ApiSessions: Postgres and Redis answer or raise, a stream
need never end, and the pool serves in order of arrival.

## 4. What the runs found

Disagreements between the code and what the repository says of it, each with a
short counterexample:

1. *A terminal status does not stand* (RunPipelineTerminal). A worker reads
   `queued`; a cancel commits `cancelled` and answers its caller; the worker's flush
   writes `running`, and the cancelled run is executed. `run_service.py:26`: "worker
   will skip on dequeue". The cancel key usually stops it soon after, but the agent
   starts. The other way round, a cancel reads `queued`, is delayed, and commits
   `cancelled` over the outcome of a run that has since finished, whose result
   stays in the row. `run_service.py:24`: "idempotent". `EventsMatchRow` and
   `OutcomeConsistent` say precisely what survives of the agreement between status,
   columns and events.
2. *Hanging stream* (EventStreamHang). What is published between the SELECT of the
   messages and the SUBSCRIBE is lost. If that is the cancellation, the stream never
   closes (`runs.py:79`: "so any open SSE stream can close immediately"); if it is
   a step, the client never sees it (`runs.py:106`: "late-connecting clients see all
   steps"). `NothingElseLost` shows what else can be lost, and by finding 1 only: steps
   published after a `cancelled` of a run that goes on, because a stale claim or a
   late cancel wrote over its row.
3. *Watchdog failure* (RunCancellablePoll). An exception of the poll replaces the
   answer of a finished agent.

Seen while modelling, without a run of its own: `compaction.py:1` promises to
"keep messages within token budget", but compaction bounds the number of
messages, not their tokens, so a few long ones still exceed the limit; `eval/harness.py:31` lists
`failed` among the reported statuses, but line 85 stores the event's type, so a
failed run is reported as `error`, and a stream that is refused or ends early as
`unknown`, which the report words as "run did not succeed" whatever the run did; `domain/usage.py:11` says the longest prefix
wins, the code takes the first, which is the same for today's table; the page's
`cancelRun` looks only at whether `fetch` rejects, so a cancel answered with an
HTTP error leaves the button disabled until the run ends, and one whose `fetch` is
rejected late writes its "Cancel failed" line (`index.html:206`) and enables the
button although the page may show the next run by then; nothing makes
`(run_id, seq)` unique in `run_messages`, so a run executed by two workers (see
RunResend) stores two transcripts under the same numbers.

## 5. What is proved

Every invariant a passing run checks is a theorem, and so is the refinement
`ImplementsLedger`. TLC shows each on an instance, the theorem for every value of
the constants; the assumptions on those are named in the modules that declare them
(`FaultsAssumption`, `LoopAssumption`, ...) and TLC evaluates them. What the model itself
assumes is section 6. Each module proves lemmas on its operators first, then that
an inductive invariant holds at the start and survives each action, then the theorems.

### RunPipelineProofs: any runs, workers, cancel requests, with or without failures

| theorem | property |
|---|---|
| `Invariance` | `Spec => []IInv` |
| `TypeCorrect` | `TypeOK` |
| `ExecutedAtMostOnce` | `AtMostOnce` |
| `NoRunIsLost` | `Custody` |
| `ColumnsMatchStatus` | `OutcomeConsistent` |
| `AnnouncedOutcomeStands` | `EventsMatchRow` |
| `PipelineImplementsLedger` | `ImplementsLedger` |
| `OnlyCancelReplacesOutcome` | `OutcomeStands`: a stored success or failure is replaced by a cancellation at most |

Assumed of the constants: `FaultsOn` is Boolean, `NoRun` is no run, `NoRow` is no row.

None of the safety properties is inductive. `AtMostOnce` needs that an id is in
the list at most once and only while nobody has claimed it (`QueueInv`), that a
busy worker's step determines how often its run was claimed and finished
(`HolderInv`), and that these two counters confine the row (`PhaseInv`).
`OutcomeConsistent` must know what each transaction in flight is about to write
and over which loaded values: `WorkerInv` and `CancelInv` keep this narrow
enough that every possible mixture of columns is a consistent row. The hard case
is a late cancel: its instance may have been loaded before or after the worker's
outcome, and if after, with the outcome's columns already in it, then the row is
already cancelled and the flush changes only columns the invariant allows for. `EventsMatchRow`
needs that a run whose outcome was announced has left its worker
(`AnnouncedInv`), and that the row a worker is about to announce is the one it
wrote or was cancelled since (`WorkerInv`). `ImplementsLedger` takes the same
facts step by step: each action writes the status only along a ledger step.
`OutcomeStands` follows from the refinement; it is what remains true of the
statement `TerminalStands` that RunPipelineTerminal refutes.

### RunResendProofs: the same with commands sent again

| theorem | property |
|---|---|
| `ResendInvariance` | `ResendSpec => []ResendInv` |
| `HarmNeedsARace` | `HarmOnlyByRace` |
| `OutcomeStandsWithoutRace` | `CalmOutcomeStands`: `OutcomeStands` for the runs nobody raced for |

`IInv` fails here: an id may be twice in the list and two workers may hold a run.
`ResendInv` divides it by run. For every run, types hold and whoever is in a
transaction has rows in hand (`HandsInv`). A run whose id was pushed once is in one
place (`Once`), so two claims of it never overlap and `raced` stays within `resent`.
A run that did not race keeps, worker by worker, what `IInv` says (`Calm`), although
several workers may hold it: at most one of them is past the status test of the
claim, because a second that passed it would have found the run queued, hence with
`starts` 0, hence while the first had not committed its claim; that is the race.

### EventStreamProofs: any transcript, clients, cancel requests

| theorem | property |
|---|---|
| `Invariance` | `Spec => []IInv` |
| `TypeCorrect` | `TypeOK` |
| `DeliveredInOrder` | `LiveInOrder` |
| `EndsByOutcome` | `ClosedByOutcome` |
| `OnlyTheGapIsLost` | `NothingElseLost` |

Assumed: the transcript is a sequence of messages with a role and blocks.
`StageInv` says what the row may hold at each stage of the run, and what it does hold if
nobody wrote over it; `Told` which end a client may have heard of, and `CancelInv` that a
request about to publish has cancelled the row. `sent` and `inbox` together are one
sequence in the invariant: everything published is in it, in `missed` or in `late`
(`CoverInv`), its part after the replay is in order and not before the last message
replayed (`OrderInv`), and what waits is past, save for one closing event at the very
end (`ListenInv`). A step is `late` only behind a `cancelled`, and only if the row was
written over (`LateInv`): while steps are published the row says `running`, unless
somebody wrote over it. `DeriveEvents` and `Replay` are recursive functions;
the library's induction theorems take an operator and cannot be used, so the module
proves induction over a set of naturals from their well-foundedness, and defines such
a function stepwise from it, without that operator.

### EvalSuiteProofs: any transcript, clients, cancel requests and number of cases

| theorem | property |
|---|---|
| `SuiteInvariance` | `SuiteSpec => []SInv` |
| `PassesAreEarned` | `NoFalsePass` |
| `OnlyTheStreamFails` | `FailedByStreamOnly` |
| `ExitCodeIsHonest` | `ExitHonest` |

Assumed: the harness is one of the clients, there is at least one case. On top of EventStream's invariant:
nothing reaches a client that is not a stored step or a closing event, and a run succeeds only
after its last event was published (`StoredInv`); a verdict is reached on the whole closed
stream, or the case failed as `harness_error` or `unknown` (`CaseInv`); the results count what was earned (`SuiteInv`).

### RunCancellableProofs: any window, limit, sizes, tools and iterations

| theorem | property |
|---|---|
| `Invariance` | `Spec => []IInv` |
| `RunsTheLoop` | `LoopSpec`: the supervised agent implements the loop alone |
| `TypeCorrect` | `TypeOK` |
| `RequestsAreAccepted` | `RequestWellFormed` |
| `OnlyMiddleForgotten` | `RequestIsRecent` |
| `NothingUnstored` | `TranscriptComplete` |
| `OutcomeIsKept` | `OutcomeIsAgents` |

Assumed: at least one iteration, sizes and limits are natural numbers, `KeepRecent` is
even and positive (10 in the program). The evenness is what `RequestWellFormed` rests on:
the window is the first message and the end of the transcript, and what compaction
leaves out is a whole number of turns (`WindowInv`), so that a message at an even place
of the window was at an even place of the transcript, where `TranscriptInv` knows its
role and the calls it answers. `TurnInv` and `AnswersInv` tie the place in the loop to
the length of the transcript; `SupInv` says from where the outcome was taken.

### ToolCallsProofs, PageProofs, ApiSessionsProofs

| module | for any | theorem | property |
|---|---|---|---|
| ToolCallsProofs | turns, calls in an answer | `SubAgentStaysConfined` | `SubAgentConfined` |
| | | `MemoryStaysHonest` | `MemoryHonest` |
| | | `MeterStaysHonest` | `MeterHonest` |
| PageProofs | runs, cancel requests | `Invariance` | `Spec => []IInv` |
| | | `TypeCorrect` | `TypeOK` |
| | | `OneRunAtATime` | `ShowsOneRun` |
| | | `NoRunLetGo` | `LetGoOnlyByFailure` |
| | | `ControlsAgree` | `ControlsMatch` |
| | | `EndStaysShown` | `EndIsShown` |
| ApiSessionsProofs | requests, pool and page size | `ConnectionsHeldForPostgres` | `HeldForPostgresOnly` |
| | | `PagingIsComplete` | `PagingSkipsNothing` |

Assumed: bounds, pool and page are positive, the pager is none of the requests, `NoRun` is no run.
In ToolCalls the counts of memory rows and answers are inductive by themselves; the
sub-agent's confinement needs to know where each level can be (`LevelInv`). In Page a
late callback is harmless because nothing is posted while a run is shown (`PostInv`),
the lines are about that run (`LinesInv`), and an end travels only of a run that has
ended or was revived (`PipeInv`). In ApiSessions a run that was there when the pager
began is listed, or at least `offset` runs of the table are newer (`PagingInv`): no row
leaves the table, so what commits in between can only push a run to a later page.

Only model-checked: the liveness properties of all modules (`EveryRunEnds`,
`EveryOutcomeAnnounced`, `ResentRunEnds`, `InTimeStreamEnds`, `AgentEnds`,
`EndedTaskIsReported`, `RequestStopsRun`, `AgentAlwaysEnds`, `EvaluationEnds`, `ComesBack`,
`EveryRequestAnswered`), which rest on fairness and are outside what the prover can do.

## 6. Assumptions and what is left out

* In RunPipeline and its proofs each LPUSH takes effect once. RunResend drops this:
  with a duplicate, a run is executed at most once as long as no two claims of it overlap.
  The other commands may be sent again without effect (see the module's header).
* A cancel key does not expire while its run executes: it lives an hour and is
  polled twice a second.
* A row is never deleted, as no code does so. The early returns for a missing
  row are modelled where they can be reached (a cancel request for an unknown id).
* Responses of the model carry `usage`; costs and token sums are left out, whether
  they are stored is not.
* An answer that stops for tools but names none makes the loop store a user message
  without blocks. The model takes it as a well-formed request; a provider may not.
* A tool's result is always a string; what HTTP requests, files and similarity
  search return is left out.
* No two runs have the same `created_at` (it has microseconds); with equal stamps
  Postgres may order them differently for every page.
* With the FastAPI of `uv.lock`, the session a GET gets as a dependency closes after its
  response is sent; ApiSessions closes it before. The stream's handler has its session
  for the two SELECTs only, and is modelled so.
* The pool hands out connections first come, first served; overflow is part of
  its size. The worker process has an engine of its own.
* `file_read` ends. It has no await, so neither its timeout nor the watchdog could
  end it, and `AgentEnds` would fail without this.
* The page talks to the API it came from. A server that closes a stream without a
  terminal event is a broken connection to it, as it is to the browser.
* Not modelled: ids (UUIDv7 construction; taken as given and distinct), settings
  and construction of clients, log formatting, migrations, the layout of the
  evaluation report, prices and token sums. They are pure functions or wiring,
  with no state that changes at run time.

## 7. Plan

Every safety property is proved. What would say more:

1. *An abstract stream*: what `run_events` promises a client (the replay, then the
   rest in order, an end), as a specification of its own that EventStream implements.
2. *A closer page*: Page as a client of EventStream, as EvalHarness is one, so that a
   revived run is followed from the claim to the line on the page.
