# A TLA+ model of token-trackr

token-trackr counts the tokens that an organisation's applications spend on
LLM providers. An SDK inside each application queues usage events and posts
them in batches; a FastAPI backend prices them and stores them in PostgreSQL;
scheduled jobs roll them up into daily and monthly summaries; an API reports
them per tenant. This directory specifies the parts of it that are concurrent
or that fail in stages, and what they promise together: that an event is
delivered at least once or given up for a reason, and that what is delivered
ends up in the bill of its month. TLC checks the specifications on small
instances; TLAPS proves, for all values of the constants, the safety properties of
every component, that both clients, and the pipeline of clients,
network and backend, implement the delivery promise, and that the jobs implement
the promise that a run reads and writes at once, in detail and over the calendar.

Paths below are relative to the repository.

    tlc -workers 2 -config PyClientAsync.cfg MCPyClient    # a run
    tlapm PyClientProofs.tla                               # proofs

## The system

| component | state | operations | talks to |
|---|---|---|---|
| Python client, `sdk/python/src/token_trackr/client.py` | a bounded deque, a lock, a stop event, threads, fallback files | `record`, `flush`, `close`, the worker loop, the atexit callback | posts to the ingest API |
| Node client, `sdk/nodejs/src/client.ts` | an array, a timer, requests under way, fallback files | `record`, `flush`, `close`, exit handlers | posts to the ingest API |
| provider wrappers, `sdk/*/…/wrappers/` | per stream: token counts | plain calls, streams | call the client's `record` |
| host metadata, `metadata.py`, `metadata.ts` | a cached probe result | probes of cloud metadata services | read by the clients |
| ingest API, `backend/api/endpoints/usage.py`, `backend/database.py`, `backend/services/usage.py` | a SQLAlchemy session and connection per request, the pool | `POST /usage`, `POST /usage/batch` | pricing engine, `token_usage_raw` |
| pricing engine, `backend/core/pricing.py` | a copy of `config/pricing.yaml` in each process | lookup, cost, reload, listing | read by the ingest API |
| tenant queries, `backend/services/usage.py`, `backend/api/endpoints/tenants.py` | none of their own | summary, daily, monthly, raw usage | read the tables |
| aggregation jobs, `backend/jobs/aggregation.py` | one transaction per run | daily run, backfill, monthly run | read and write the tables |
| scheduler, `backend/jobs/scheduler.py` | job triggers | starts the jobs, swallows their exceptions | the jobs |
| billing reports, `backend/jobs/reports.py` | CSV files | monthly report per tenant | read the summaries |

The parts meet at three places: the HTTP request (a batch is stored or not, and
the client hears of it or not), the table `token_usage_raw` (written by ingest
transactions, read by summaries and jobs, all at READ COMMITTED), and the
summary tables (written by several runs of the jobs, which lock rows).

What is hard in it, and what should hold:

* **Clients.** Several threads (or requests under way) share one queue; a batch
  fails after an unknown part of it was done; the queue is bounded; the process
  may end in between. Nothing recorded may vanish silently, no event may be in
  two places it is sent from, an acknowledged event may not be sent again, and
  events recorded during a failing request may not be displaced by it.
* **Ingest.** A batch is one transaction but each event can fail on its own, in
  a session that a failure leaves in one of two broken states; the commit
  happens after the endpoint returned. A 201 should mean stored, an error should
  mean not stored, and every path must give its connection back.
* **Pricing and queries.** Each process prices with its own copy of a file that
  an operator edits; a summary consists of four SELECTs between which events
  are stored.
* **Aggregation.** Runs overlap with ingest and with each other (the scheduler
  worker, the Kubernetes CronJobs and a backfill by hand may all be at work),
  they block each other in either order, and they fail at or before the commit.
  Nothing may be counted twice, a reader may not see half a run, and no run may
  hang.
* **Scheduler and reports.** Three jobs, each reading what the one before wrote,
  are ordered by the clock alone; a missed or failed run is not repeated; dates
  are computed in three ways and in two time zones. A month whose jobs went
  well must be billed exactly.
* **Host metadata.** Three services are asked one after the other, at addresses
  they share, by several threads or clients at once. The label of an event
  should name the host it comes from.

`PROJECT.json` lists each of these hazards at the line where it bites, with the
properties aimed at it.

## The modules

Actions are named after the code they stand for; a definition `Name_Variant`
is a deliberately wrong form of `Name`, the bug that a property would notice,
and no specification uses it.

### Delivery

The abstract specification: an event is `new`, `pending` (its client may still
send it), `done` (stored, as its client knows) or `out` (neither); the backend
has `copies` of it. Stored once needs no excuse, each further copy needs a
failure; a pending event is given up after a failure, on a closed connection or
in exchange for a newer one. Three specifications implement it: `PyClient` and
`NodeClient`, where the backend is a choice of what becomes of a request, and
`Pipeline`, where the backend is `IngestApi`.

### Rollup

The abstract specification of the jobs: a run reads (`Read`) one set of days or
months at one moment and then replaces the summaries that it read rows for, all
at once (`Write`), or leaves no trace (`Drop`); `held` is what it has read and not
written. Two specifications implement it, each ending with its mapping:
`Aggregation`, where a read yields rows in some order, a write is a series of
upserts under row locks, and a day has many groups; and `Billing`, where a day is
one figure and a run two steps, but days and months come from a calendar.

### PyClient (MCPyClient, PyClientProofs)

One thread per `record()` call, named by its event (in async mode the flush
thread it spawns goes on under that name), the `Worker`, and `Main`, the thread
that owns the client. `queue` is the deque; `batch[t]` is the local list of a
running `flush()`; `pc[t]` says where the thread is; `attempt[t]` counts the
requests of the retry decorator. Each critical section of the lock is one action
(`RecordAppend`, `TakeBatch`, `Requeue`); what happens outside the lock is a
step of its own, as the length test of `record()` (`RecordCheck`) is. A request
can be stored and acknowledged (`SendOk`), fail with or without being stored
(`SendFails`), be stored with an answer that cannot be parsed
(`AnswerUnusable`, not retried), or hit the closed client
(`SendOnClosedClient`). `Requeue` models the loop of `appendleft` exactly: the
first events that fit, in reverse order. `Save` writes the file of the current
second, and `Tick` ends the second. `Close` joins a worker that may be still at
work (the join has a timeout), and `AtExit`/`Exit` end the process with its
daemon threads. A request that `close()` cuts off by closing the HTTP client under
it is a `SendFails`, stored or not, just before `CloseHttp`; its retry, and any
request begun later, is a `SendOnClosedClient`. `acked`, `misses`, `turnedDown` and
`givenUp` are histories: what the backend stored with and without the client
learning of it, what a requeue had no room for, and what is lost: what a full deque
dropped, and what was turned down and then not written, or overwritten in its file.
A failed save gives up nothing that was put back into the queue.

### NodeClient (NodeClientProofs)

The same component as one event loop: an action is the code between two
awaits. `Flights` are the `flush()` calls under way; unlike the Python client,
`record()` starts the flush of a full batch itself, a full queue refuses the
newest event instead of dropping the oldest, an error status is retried but a
rejected `fetch` is not, and a flush never waits for another.

### HostMetadata (SdkProofs)

One detection per thread of a Python client or per Node client (`sdk` says
which): `detection` is the probe it waits for, `AfterAnswer` the chain of
`get_host_metadata` from the AWS token to GCP, `cached` the client's or the
module's result, `own` a Node client's. `host` says what the addresses answer:
the right service, and for the paths of another cloud nothing, a line or a page.
The second AWS probe sends the token back in a header, which a page cannot
stand in.

### IngestApi (MCIngestApi, IngestProofs) and Pipeline (MCPipeline)

Requests run through `Receive`, then `Price`, `FlushRow` and `Refresh` for each
event, then `Return`, `Commit`, `Close` and `Respond`. `connected` is the
connection pool. The session is `active`, `deactivated` (SQLAlchemy knows of a
failed flush: nothing goes through, the commit raises) or `aborted` (the server
cancelled the read-back: later INSERTs raise, but COMMIT becomes a rollback
without an error). `CommitFirst` chooses between the FastAPI versions that run
a dependency's exit code before the response (0.106 to 0.117) and those that
run it after; the repository admits both.

`Pipeline` adds the clients: each posts one request after the other (`Earlier`),
gives up waiting at any moment (`TimesOut`), and posts the batch again when it
heard an error or nothing (`Posted`), while the backend still works on the
earlier attempt and holds its connection. `ClientAssumption` says what makes two
requests one client's: requests that carry the same event are ordered by `Earlier`.

### Pricing and TenantSummary (MCTenantSummary, TenantSummaryProofs)

`Pricing` keeps a file and, per process, what was loaded of it. `Load` is
`_load_pricing` (a missing or unparsable file gives the built-in prices, an
empty one gives `None`), `GetModelPricing` the lookup (exact, then the first
prefix-related entry in file order, then the default), `CalculateCost` the
price with the tenant's discount. An event is priced in one step and stored in
another, and edits, reloads and restarts come in between. `TenantSummary`
extends it with readers that do the four SELECTs of `get_tenant_summary` one by
one over the rows being stored.

### Aggregation (MCAggregation, AggregationProofs)

`raw` counts the events per day and group; `daily` and `monthly` are the
summary tables. A run is `Start…`, `Select…` (a snapshot), one `Upsert` per
group in any order, each taking a row lock, and `Commit`. `WaitsFor` is the lock
wait, `Deadlocked`/`DeadlockAbort` PostgreSQL's detector, `Fails` an error or a
kill at any stage, at the commit with either outcome. Events arrive for any day
up to today. `overtaken`, `snapshots` and `mixed` are histories. For Rollup a run
holds the totals of its rows from its SELECT to the end of its transaction, and each
upsert is a stutter: nobody sees it before the commit.

### Billing (MCBilling, BillingProofs)

The way from events to bills over the calendar. `today` and `hour` are the
worker's clock; events get their date from the database, whose day may end later
(`Zone`). `Fires` has the cron triggers, `Target` what each job computes its run
to be about; a run is selected and committed in two steps, and its detail is
Aggregation's: both keep the promise of Rollup. `Tick` passes an hour, over a slow
run too; a job whose hour comes while it is at work or the worker is down is
skipped; `Fail` and `Stop` end runs. `daily`, `monthly` and `reports` are what the
jobs wrote; `DailyQuery`, `MonthlyQuery` and `RangeQuery` are what the API and the
report over a period read from them. `prompt` and `flawed` are histories: the
events that arrived before the run of their day, and the months of which a run
failed, was skipped or came too late.

### StreamWrapper (SdkProofs)

One call of any operation of the six wrappers (`op`): chat, embeddings, a chat
session, Gemini's coroutine, a stream, and so on; also the two operations of Python
that hand `stream=True` on to the provider without looking at it (`LegacyStream`,
`GenerateStreamAsync`). `Usage` says what an answer or a chunk has at the place where
counts belong: counts (each of which may be null), nothing, a null, or text that
cannot be parsed; `ExtractTokens` and `ExtractRaises` say what the Bedrock wrappers
make of it for each family of models, `BedrockCount`, `AzureCount` and `GeminiCount`
what a stream's wrapper does, `Read` who takes a null count for zero and who passes it
on. `Recorded` is a call of `record()`: it may return; it may raise with the event in
the queue, where a flush in the same thread or the start of one fails; or it raises
on a null count and queues nothing. The application then gets that exception in place
of the answer or of the end of its stream. Python streams are iterator objects that
survive exceptions and can be asked again after their end; Node streams are generators
that start lazily and finish for good. `reported` and `hidden` are histories: the last
counts the provider sent, and whether it sent them where the wrapper does not look (a
Bedrock chunk that does not stop the stream, a family of models that is not listed, a
stream that is read without the wrapper).

## The runs

All runs use two workers. Each property has a mutant of the model that breaks
it under the same configuration (`PROJECT.json`, `mutants`); a run that shows a finding
checks one property, which TLC refutes. The type invariants are
checked with them; those of StreamWrapper and HostMetadata are left to the proofs.

| run | instance | shows |
|---|---|---|
| PyClientAsync | 3 events, queue 2, batch 2, async, 1 fault | `TypeOK`, `Accounted`, `OneOwner`, `AckedOnce`, `FullBatchNoticed`, `RequeueKeepsNewer` in every interleaving of three recording threads, worker, spawned flushes and close |
| PyClientLive | 2 events, 1 fault, fair | `Delivers`: the client implements Delivery; `EventuallyOut`: on a client nobody closes every event leaves the memory; `ExitTerminates`: the exit ends although `close()` runs twice |
| PyClientClose | 2 events, no fault | finding: `CloseFlushesAll` fails |
| NodeClient | 3 events, 2 flights, queue 2, batch 2, 2 attempts, 2 faults, fair | `Delivers`, `OneOwner`, `PutBackKeepsNewer`, `EventuallyOut` for the event loop |
| HostMetadata | 2 threads or clients, 3 events each, 2 lost probes, all 12 hosts, fair | `LabelsRight`, `DetectionEnds` |
| HostDetect | the same | finding: `DetectsCloud` fails |
| Ingest | 5 requests of 2 clients (a batch and its retry; over the limit, malformed, single), 1 connection, 2 faults, fair | `AckedDurable`, `AllOrNothing`, `ErrorsStoreNothing`, `EveryRequestAnswered`, `Delivers` |
| IngestAckFirst | 2 requests, response before commit, 1 fault | finding: `AckedStored` fails |
| TenantSummary | 2 processes, 3 events of 2 tenants, 2 price lists, 2 edits, 1 reader | `ListedIsCharged`, `ChargedSinceReload`, `PartsOnlyGrow` |
| Aggregation | 2 daily runners, 1 monthly, 2 days, 2 groups, 2 events, 3 runs, 1 fault, fair | `NeverOvercounts`, `DailySnapshot`, `ShrinksOnlyWhenOvertaken`, `RunsEnd`, `RollsUp`: the runs implement Rollup |
| Billing | December and January, of 2 and 3 days of 6 hours, 2 events, 2 faults, the database 2 hours behind, fair | `ReportsExact`, `RangeAddsUp`, `EveryMonthReported`, `RollsUp` |
| StreamWrapper | 20 operations, 3 chunks, counts up to 2 or null, 2 questions after the end | `RecordsLastCount`, `ThrownIsUnrecorded` |

Why the bounds are enough. In the client three events fill a queue of two,
so that eviction, a requeue without room and a requeue in front of newer events
all happen; with a batch of two, two appends can pass before either looks at
the length; one fault makes a request or a write fail at any place, and the
worst case of a batch, three faults in a row, is one that the proofs cover for
all constants. In Ingest the only connection makes requests wait, a retry can
be posted while its first attempt is at any stage, and two faults are a timeout
and a failing commit, or a flush and a rollback. In HostMetadata two callers are
what overlapping detections need, and one lost probe what makes them disagree. In
TenantSummary one event of the reader's tenant before and one between its
SELECTs suffice to make the parts differ, the other tenant's event to mix
tenants up, and two edits to change the file before and after a load; the model
names are a listed one, a longer, dated one, and a listed prefix of both. In
Aggregation two groups are what a deadlock needs, two daily runners what
overtaking needs, a third run repeats or repairs; `MaxRuns` also bounds a
backfill over both days. In Billing the turn of the year is where months, years
and lengths differ, the six hours of a day hold the three jobs and two hours
before and after, and two faults reach a run and its worker, or the daily run and
the monthly one that reads its row. In StreamWrapper three chunks are a count, a chunk
without, and another count, and a third record is one after a repeated end.

Billing shows more when its constants change. `MonthlyDay = 2` passes. With
`DailyHour = 3` (both aggregations in one hour), with `MonthlyDay = 3` (after the
report), or with `Zone = 3` (the day of the database ends after the daily run)
`ReportsExact` fails: the settings of `backend/config.py` admit the first two
although `scheduler.py:82` and `scheduler.py:94` fix the other hours.

The configuration of IngestAckFirst refutes `AckedStored` with `CommitFirst = TRUE`
too: the server cancels the read-back of a batch's last event, the endpoint returns the
events before it (`usage.py:107`), COMMIT rolls the aborted transaction back without an
error, and the client hears 201. This is the exception in `AckedDurable`.

`CHECK_DEADLOCK FALSE` is in every configuration because every one of these
systems may rightly come to rest: the process has exited, all requests were
answered, all bounds are used up.

Mutants of the model are as informative as the runs: for example, comparing the
queue length with `>` instead of `>=`, keeping the queue until the request was
answered, going on after a failed flush with a fresh transaction, closing the
session on the success path only, answering a batch over the limit with an empty
201, committing each upsert, adding to a summary instead of setting
it, summing up a day without its end, looking for December's report in month 0, or taking a probe that raised for
an answer are each found by the property named for it.

### What the findings say

* `PyClientClose` (`client.py:229`): `close()` waits for the worker thread only,
  five seconds at most, and flushes what is in the queue. A batch that a daemon
  flush thread has taken dies with the process.
* `IngestAckFirst` (`database.py:45`): with a FastAPI that sends the response
  first, the client hears 201 and forgets the batch, and the commit fails.
* `HostDetect` (`metadata.py:91`): no probe looks at the status of the answer,
  and the services share an address. On an Azure host that answers the AWS paths
  with an error of one line, every event is labelled `aws`, with the error as its
  instance; an error of several lines makes it `azure` on a GCP host.

### Noticed

Things noticed while reading and modelling that no run is about.

In the SDKs: `config.retry_attempts` of the Python SDK is never read
(`client.py:186` says three). Two flushes that are given up within a second write the
same fallback file, and the second truncates the first (`client.py:215`), though
`sdk/python/README.md:155` says that such events are saved for later recovery: those
that the queue had no room for are lost (in the model, `givenUp`). `get_client()` tests
and sets a global without a lock (`client.py:253`): two threads may create two clients, each with its worker and
queue. The handlers of exit of the Node client start a flush that the process
does not wait for, and those of SIGINT and SIGTERM take the place of the default
termination (`client.ts:40`). A client whose queue is larger than 1000 flushes it
as one batch, which the backend refuses, and puts it back to be refused again.
An instance that is a page longer than 255 characters makes every INSERT fail.

In the wrappers: `completions.create(stream=True)` asks the stream it got for `usage`
and raises, after the request was sent (`azure.py:193`), and
`generate_content_async(stream=True)` records what the first chunk counts and hands out
the provider's own stream (`gemini.py:110`), though `sdk/python/README.md:163` says that
all wrappers support streaming with tracking (`LegacyStream`, `GenerateStreamAsync`).
A Python stream that is asked again after its end records its usage again, and one that is left records nothing. `record()` of Python may raise with the
event in the queue (`mkdir` at `client.py:213` in sync mode, the start of a thread in
async mode), and then the application gets that error in place of the answer it paid
for, or of the end of its stream. A null count, which Python's wrappers pass on except
in an Azure chat stream, fails the validation of `UsageEvent` (`models.py:19`): an
error in place of the answer, and nothing is recorded. A null or an empty place for
the counts has the same effect in Bedrock's wrapper (`bedrock.py:143`), and a
cancelled coroutine (`gemini.py:110`) records nothing either. Counts of a Bedrock stream outside of
its `message_stop` chunk are not looked at, and zeros are recorded
(`bedrock.py:215`), as for a model of a family that `_extract_tokens` does not list
(`bedrock.py:178`).

In the backend: an event of a batch that cannot be priced is left out of a 201 and so
forgotten by the SDK. A reload of prices reaches one of
the API processes (four uvicorn workers in
`deploy/vm/token-trackr-api.service:20`, two replicas in
`deploy/kubernetes/deployment.yaml:11`), so that it does not update "pricing without
restarting the service" (`providers.py:72`), and one that meets an empty file makes
every later event of that process fail. `gpt-4o-mini-2024-07-18` is charged as
`gpt-4o`, the first related entry of `config/pricing.yaml`. Without dates the
daily summary covers 31 days (`services/usage.py:173`), not the last 30
(`tenants.py:70`).

In the jobs: events that arrive after the run of their day reach no summary
unless somebody calls `backfill` (`aggregation.py:42`; `prompt` in Billing). A
failed, skipped or late run is not made up for (`flawed`). A
`monthly_aggregation_day` of 29 to 31 passes over the short months.

## Fairness

* Python client: weak fairness of every thread's next step (the OS schedules
  runnable threads, requests end within the httpx timeout) and of the clock.
  Nothing makes the application record, flush, close or exit, and nothing makes
  a request fail. `EventuallyOut` therefore excludes clients that are closed.
* Node client: weak fairness of each request's settlement (the abort signal
  ends it) and of the interval timer.
* HostMetadata: weak fairness of each probe, which is answered or times out, and
  of the return from a detection. Nothing makes the application record.
* Ingest: strong fairness of every request once it has been received. Weak
  fairness would not do: whether a connection is free changes while a request
  waits, and the pool hands connections out in order of waiting. Nothing makes a
  client post, or time out.
* Aggregation: strong fairness of every run that was started, since PostgreSQL
  grants a row lock to the transaction that has waited longest and resolves
  deadlocks; no fairness of starting runs.
* Billing: weak fairness of the clock and of the runs that were started. Nothing
  makes the worker start again: a month it missed is one of the `flawed`.

## What is proved

### The Python client

`PyClientProofs` proves, for any set of events, any queue and batch size, either
mode and any number of faults, from the assumptions `ThreadAssumption`,
`ConfigAssumption` and `FaultAssumption` of `PyClient`:

| theorem | statement |
|---|---|
| `TypeCorrect` | `Spec => []TypeOK`: the queue never exceeds its bound, a batch is tried at most three times |
| `Ownership` | `Spec => []OneOwner` |
| `AcknowledgedOnce` | `Spec => []AckedOnce` |
| `AllAccounted` | `Spec => []Accounted` |
| `FullBatchesNoticed` | `Spec => []FullBatchNoticed` |
| `RequeueKeepsNewerEvents` | `Spec => RequeueKeepsNewer` |

The argument. `TypeOK` alone is not inductive: that a thread in `sending` or
`backoff` has an attempt left is what keeps the counter in range
(`AttemptInv`). For ownership the invariant is `OwnInv`: `OneOwner`,
`AckedOnce` and `Fresh`, which says that an event nobody has recorded yet is
nowhere, without which an append could add a second copy. The steps that move
events are lemmas of their own (`OwnAppend`, `OwnTake`, `OwnRequeue`,
`OwnReturn`), the others are covered by one frame lemma, `OwnFrame`. The hard
one is `OwnRequeue`: what is put back is a reversed prefix of a duplicate-free
batch, disjoint from the queue. `Accounted` is not inductive: that an event on file may be
missing from memory depends on why it is there. `KeptInv` follows each event through
memory and backend, and lets it go only when the deque drops it or a requeue turns it
down; `RescuedInv` says that an event that was turned down is with the thread that will
save it, on file, or given up. Together they imply `Accounted`. `FullBatchNoticed` needs
that no request is in its failure path while there was no fault (`NoticeInv`).

### The Node client

`NodeClientProofs` proves, for any number of overlapping flushes, from
`ConfigAssumption` and `FaultAssumption` of `NodeClient`:

| theorem | statement |
|---|---|
| `NodeTypes` | `Spec => []TypeOK`: what is put back keeps the queue within its bound, no batch is tried more than `retryAttempts` times |
| `NodeOneOwner` | `Spec => []OneOwner` |
| `NodePutBack` | `Spec => PutBackKeepsNewer` |
| `NodeDelivers`, `NodeCopies` | `Spec => Delivers`, and what follows from Delivery |

`Invariant` is `TypeOK`, ownership (`Own`, stated of any queue and batches so
that a step may be followed through an intermediate queue), `Within` (what is held
was recorded, hence the event of `record()` is new), and `Retries` (a flight that
pauses has an attempt left). Every step that moves events takes them from the
queue and one flight to the same two: the lemma `Moves` says once that this keeps
`Own` and `Within`, and `FlushKeeps`, `FinishKeeps` and `PutBackKeeps` apply it.
The lemmas about sequences, which the proofs of the Python client use as well,
are in `DataLemmas`.

### The ingest

`IngestProofs` proves, for any requests, number of connections and number of
errors, from `RequestAssumption`, `LimitAssumption` and `BuildAssumption` of
`IngestApi`, with clients that time out and post again at any moment
(`PipelineSpec`):

| theorem | statement |
|---|---|
| `IngestTypes` | `PipelineSpec => []TypeOK` |
| `RequestsAreAtomic` | `PipelineSpec => []AllOrNothing` |
| `ErrorsAreTrue` | `PipelineSpec => []ErrorsStoreNothing` |
| `AcknowledgedIsDurable` | `CommitFirst => (PipelineSpec => []AckedDurable)` |
| `PipelineDelivers`, `PipelineCopies` | `CommitFirst => (PipelineSpec => Delivers)`, and what follows from Delivery |

`Invariant` is `TypeOK` and, for each request, `Transaction` (before the commit
there are no rows and the session holds what was inserted; rows are there only
after the loop is complete, on a session that was never rolled back) and `Answer`
(what the status and the answer say at each stage). A step of the backend
changes the components of its own request only (`HandleIsLocal`), so the proof
of each action looks at one request (`OwnStep`), and the others keep their
part by `OthersStay`.

`PipelineDelivers` also takes `EarlierAssumption` and `ClientAssumption` of `Pipeline`.
Its invariant is `ClientInv`: beside `Invariant`, that a request was posted only when
each earlier one of its client had failed or was answered and has none of its events,
that each attempt that was given up, or refused although stored, has a failure of its
own (`Cardinality(Paid) <= faults`), and that without a failure the answer to a request
leaves none of its events out (`Complete`). A copy of an event is a request whose rows hold it; the
last two parts are why a further copy is one that Delivery allows. Every step of the
backend is, for the clients, silence (failures included), a commit or an answer
(`Silent`, `Commits`, `Answers`), and each of these maps to one step of Delivery or to
a stutter. Without `CommitFirst` a client hears of a 201 before anything is stored, as
the run IngestAckFirst shows.

### Delivery and its implementations

| theorem | statement |
|---|---|
| `ClientDelivers` (PyClientProofs) | `Spec => Delivers`: initial states of PyClient map to initial states of Delivery, its steps to steps or stuttering |
| `NodeDelivers` (NodeClientProofs), `PipelineDelivers` (IngestProofs) | the same for the Node client, and for clients, network and backend together |
| `ClientCopies`, `NodeCopies`, `PipelineCopies` | what follows from Delivery for each of them: at most one copy more than failures, and what is done is stored |

`CopiesPaidFor` and `DoneIsStored` are properties of `Delivery` itself: `DeliveryInv`,
in each of the three modules, is inductive for the steps of Delivery, and so holds of
whatever implements it.

In the clients, the mapping takes an event that is in the queue or a batch for
`pending`, an acknowledged one for `done`, one that was recorded and is neither for
`out`. The refinement needs more than the invariants above: that every copy the client does
not know of was paid for by a fault (`MissesInv`, a part of `RefinementInv`) is
why a pending event may be stored once more, and ownership is why an
acknowledged one is not pending. Steps that touch neither queue, batches nor
backend stutter; each of the others is a lemma that names the step of Delivery
it maps to. `NodeDelivers` follows the same argument with `DeliversInv`: also that an
idle flight has no batch that a new flush could overwrite (`FlightInv`).

### The aggregation

`AggregationProofs` proves, for any number of runners, groups, days and events, from
`RunnerAssumption`, `GroupAssumption` and `BoundAssumption` of `Aggregation`:

| theorem | statement |
|---|---|
| `TypesHold` | `Spec => []TypeOK` |
| `NoneCountedTwice` | `Spec => []NeverOvercounts` |
| `SummariesAreSnapshots` | `Spec => []DailySnapshot` |
| `OnlyOvertakenShrink` | `Spec => ShrinksOnlyWhenOvertaken` |
| `RunsAreAtomic` | `Spec => RollsUp` |

The properties speak of the tables only, and what a run will write is in its local
variables: the invariant `IInv` says of each run that no row it has still to write is
ahead of the events there are by now (`NotAhead`, which is why repeating a run counts
nothing twice), and that a daily run nobody overtook holds one complete state of its day,
at least as new as the summary it will replace (`Whole`). Committing is then the one
step that moves this from the run to the table (`Published`); it also has to show that
the other runs of the day, which lose their `Whole`, are marked as overtaken.

`RunsAreAtomic` maps the rows that a run has still to publish to the totals it holds in
Rollup (`Held`). In what order they are upserted and how far the run has come must not
matter: by `HeldIs` only its day and its list do, by `FilledResult` a list in any order
holds exactly the positive totals of the SELECT, and by `WrittenIsHeld` what COMMIT makes
of the table is the replacement of these rows. So SELECT maps to `Read`, COMMIT to
`Write`, an abort to `Drop`, an event to an event, and all else to a stutter. Of `IInv`
this needs that a run has no rows before its SELECT, and only positive ones after it.

### The prices and the tenant's summary

`TenantSummaryProofs` proves, for any processes, events, readers and price lists, from
`EventAssumption`, `PriceListAssumption` (the keys of a YAML mapping are unique),
`BuiltInAssumption` and `BoundAssumption` of `Pricing`:

| theorem | statement |
|---|---|
| `TypesHold` | `Spec => []TypeOK` |
| `ListedPricesAreCharged` | `Spec => []ListedIsCharged` |
| `ReloadsHold` | `Spec => ChargedSinceReload` |
| `SummariesAscend` | `Spec => []PartsOnlyGrow` |

`ListedIsCharged` needs only that what is loaded is a price list, since the exact match
of the lookup comes first and keys are unique. For `PartsOnlyGrow` the invariant is
`Ascending`: what each SELECT of a reader added up to is at most what the next one
did, and the last of them at most what is stored now. That a breakdown by any column adds up
to the total of its rows (`BreakdownAddsUp`) is the lemma `SumOfGroups` of `DataLemmas`.

### The bills

`BillingProofs` shows, for months of any length and any span of years, from
`CalendarAssumption`, `SpanAssumption`, `ScheduleAssumption` and `BoundAssumption`:

| theorem | statement |
|---|---|
| `SameMonthBilled` | the monthly job and the report job mean the same month on every date, although one goes back a day from the first and the other subtracts from the number |
| `MonthIsItsDays` | the days between the two ends that the monthly job computes are exactly the days of the month |
| `RangesAddUp` | `Spec => []RangeAddsUp`: the filter over (year, month) pairs selects an interval, so that the report over a period is the sum of its months |
| `TypesHold` | `Spec => []TypeOK`, for any schedule |
| `ReportsAreExact` | `InOrder => (Spec => []ReportsExact)` |
| `JobsAreAtomic` | `Spec => RollsUp`, for any schedule |

`InOrder` is the hypothesis under which the clock puts the jobs in order: the monthly job
runs on the first or second day of a month, which every month has, the daily job before
3 o'clock, and the day of the database is over by then. The defaults of
`backend/config.py:68` and `:69` (2 o'clock, day 1) meet it; 3 and 4 o'clock, for the
monthly job and the report, are fixed in `scheduler.py`. What `backend/config.py` admits
beyond it is where the run Billing fails, as said above.

`TableInv` (no figure, in a table or in the hands of a run, is more than there are
events) holds under any schedule. `BillInv` adds what the order gives: a day whose daily
run is due has its prompt events in the summary, or its run is at work (`Days`); a month
whose monthly run is due has the sum of its days and no daily run can change them any
more, or its run is at work (`MonthsInv`); a report is of a month that is closed
(`Reports`), each unless the month is `flawed`. The step that takes all the work is
`BillTick`, in which jobs start: that the clock comes to each hour once (`DueLater`),
and that `TooLate` marks a month whose runs overlap.

`JobsAreAtomic` needs `TableInv` only. Two steps take an argument: the monthly SELECT,
whose ends are computed by going back a day from the first of the next month, reads
exactly the days that make up the bill in Rollup (`SummariesOfMonth`), and a commit
replaces the row of a day or month that the model has (`NotAhead`). A run about a day
before the first month or after the last finds nothing and maps to a stutter.

### The wrappers

`SdkProofs` proves, for counts of any size, streams of any length and any
number of questions after the end, from `BoundAssumption` of `StreamWrapper`:

| theorem | statement |
|---|---|
| `TypesHold` | `Spec => []TypeOK` |
| `LastCountIsRecorded` | `Spec => []RecordsLastCount` |
| `NodeThrowsUnrecorded` | `Spec => []ThrownIsUnrecorded` |

`CallInv` adds three things to `TypeOK`: the wrapper has the counts that were sent last,
unless they are hidden from it or it holds a null (which `record()` refuses), and those of
Bedrock are zero until the message that ends the stream (`CountsInv`, without which a
Python wrapper that takes missing counts for zeros could lose some); nothing is recorded
of a wrapped stream while the provider may still send (`RecordsInv`, so that later counts
cannot belie a record); and before there is an answer there are no counts (`StageInv`).
`NodeInv`, for the Node wrappers, adds that a call that has thrown is finished, which is
why it cannot record later.

### The host metadata

`SdkProofs` also proves, for any number of threads or clients, events and lost probes,
from `HostBoundAssumption` of `HostMetadata` (whose names differ from those of
`StreamWrapper`, so that one module can extend both):

| theorem | statement |
|---|---|
| `HostTypesHold` | `HostSpec => []HostTypeOK` |
| `LabelsAreRight` | `HostSpec => []LabelsRight` |

`LabelsRight` compares what events carry; the invariant `HostInv` says what the probes
before have excluded when a detection is at a probe (`Excluded`: at the one for GCP,
if nothing was lost, the host is in neither of the other clouds and nothing answers in
their place), so that what a detection finds is a function of the host (`Expected`), and
that a thread about to return from its detection finds the cache full.
`ProbeOutcome` is the case analysis over the chain of probes.

### Sums and sequences

`DataLemmas` has what these proofs need of data: reversed prefixes and suffixes of
sequences, enumerations of finite sets, and sums over finite sets (an item may be taken
out, a larger function has a larger sum, the sums of the groups are the sum of all).
`SumFunctionOnSet` is defined through a recursive function on sets. Induction is not
available as a rule, its theorems having an operator as parameter; each lemma is shown
from a minimal counterexample, which the well-foundedness of strict inclusion provides
(`MinimalSubset`).

### Only model-checked

* Every liveness property: `EventuallyOut`, `ExitTerminates`, `EveryRequestAnswered`,
  `RunsEnd`, `EveryMonthReported`, `DetectionEnds`. The prover has no rules for fairness
  and `ENABLED`.
* What the three findings deny.

The sync mode of the client is covered by the proofs only.

## What is not modelled

* `get_client()`/`getClient()`: the global client. What goes wrong there (two
  clients) multiplies a component that is modelled.
* `get_raw_usage`: it has no caller. The other queries are single SELECTs; Billing
  has what they select, not the averages of latencies or the order of rows.
* The Kubernetes fields and host names of the metadata, which come from the
  environment (the two SDKs look for them in a different order).
* The layout and names of report files, payload fields, logging, rounding.
* Start-up, health checks, schema migrations, deployment and dashboards, except
  that they decide how many processes run, which the constants stand for.

## Possible extensions

* The histories of `Aggregation` and `Billing` (`overtaken`, `flawed`) belong to one
  level each; a Rollup that also knew which run read first could relate them.
* `get_client()` as a component of its own, should more than the number of clients come
  to depend on it.
