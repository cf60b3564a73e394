# A verification development of wgModelHub

wgModelHub is a Go gRPC gateway in front of model providers. Several Pods serve
the same API over one PostgreSQL table; each Pod is started on a configuration
document that is replaced while it runs. This directory holds TLA+ modules of
the parts of the gateway in which ordering, failure and concurrency decide the
outcome, TLC configurations that check them on small instances, and TLAPS proofs
for every value of the constants. All paths below are relative to the
repository (`src/`).

## 1. The system

| part | code | state | operations |
|---|---|---|---|
| asynchronous video tasks | `internal/service/modelhub/generation.go` | none of its own: one handler per call | `SubmitGeneration`, `GetGeneration` |
| task store | `internal/taskstore/store.go` | table `modelhub.generation_task`, unique `(caller, request_id)` | `InsertPending`, `GetByTaskID`, `MarkRunning`, `MarkFailed`, `MarkSucceeded` |
| provider contract | `internal/provider` | none | `RunVideoJob`, `EmitVideoChunksFromReader`, `FromHTTP`, `ToStatus` |
| video providers | `internal/infra/{ltx,geminivideo,dashscopevideo,ominilinkvideo,arkvideo}` | jobs and files live upstream | `GenerateVideo`, `SubmitVideo`, `GetVideo`, `ReadVideoResult` |
| speech | `internal/infra/minimaxtts/provider.go` | one WebSocket and four goroutines per call | `SynthesizeSpeech` |
| text and image | `service.go`, `caching.go`, `internal/infra/{genai,openai,ark,llmmetric}` | none | `Generate`, `CreateCachedContent` |
| live configuration | `config/` | one atomic pointer | `Load`, `ApplyYAML`, `ModelRoutes` |
| provider factory | `internal/infra/factory` | provider sets, built once | `Build` |
| public authentication | `internal/auth`, `internal/apikeystore` | table of key hashes | interceptors |
| process | `cmd/server/main.go` | servers, health | start, shutdown |
| migration | `internal/dbmigration`, `cmd/migrate` | a lock and a transaction in the database | migrate under an advisory lock |
| database client | `ent/` (generated) | the two tables | builders of statements |
| others | `publicrpc`, `list_models.go`, `models`, telemetry, health check, generated protocol code, `deploy` | none | |

How they interact. A client calls `SubmitGeneration`; the handler routes the
model by the configuration in force, inserts a PENDING row, calls `SubmitVideo`
of the provider built at startup, and records the outcome with a conditional
update. Any client call of `GetGeneration`, on any Pod, reads the row; it is the
only thing that ever moves an unfinished row on: it asks the provider, records
the end, and streams the video, or closes a row that was abandoned. There is no
background worker. `Generate(video)` makes the same provider calls in the
foreground under a deadline and writes no row. Configuration callbacks run on
goroutines of the Nacos client while requests are served, and from before the
providers are built. A call from the public listener passes an interceptor that
looks its key up in a table the operations platform writes to at any moment; the
name it finds is the `caller` of the task rows. `main` starts the parts in a fixed
order; on SIGTERM it reports NOT_SERVING before it stops taking calls, drains both servers and releases the parts behind them. The migration job is a
second program of the same image, which may run on several machines at once.

What is hard, and what makes each part correct:

* **Tasks.** Handlers on several Pods, crashes, statements whose outcome is not
  known, submits whose outcome is not known, skewed clocks. At most one upstream
  request per key, one task per key, verdicts that are never withdrawn, a table
  that agrees with the provider, rows that end.
* **Store.** Statements put together from columns a builder has set, defaults and
  predicates. They do to the table what the handlers suppose, also when they are
  executed late.
* **Submission.** Retries and long waits, each exchange able to fail in a way
  that does or does not exclude that a job was started; fifteen tables of what a
  model takes. At most one job, an honest outcome, a bounded duration, a body that
  is the caller's and fits the model.
* **Delivery.** Look-ahead chunking, size limits, cut bodies, deadlines. A
  well-formed stream, `final` on a whole video only, a call that ends.
* **Speech.** Four goroutines, one connection, one mutex, cancellation at every
  point. Whole audio or an error, no lost error, nothing left behind.
* **Text.** Three upstream forms of one conversation, deltas and tool calls that
  may be repeated, a client that leaves at any event. The upstream hears what the
  client said, the client gets what the model said, and what was used is counted.
* **Images.** References that are fetched one by one before the request and items
  that are fetched one by one after it. The whole image or an error, from one
  request.
* **Configuration.** Two documents read at different times, three tables that
  must agree. Routes lead to what was built, and what is bound at startup stays.
* **Keys.** A key may be revoked or expire between the query and the verdict, and
  the client may leave. A dead key opens nothing, a good one is not refused.
* **Process.** SIGTERM at any moment, calls in flight, servers that fail. Nothing
  is released under a call, no call is cut by an orderly end, the process ends.
* **Migration.** Runs on several machines, cancelled contexts, cut connections,
  crashes. They take turns, and a run that reports success has migrated.

## 2. Modules

| module | models | abstracts |
|---|---|---|
| `TaskLifecycle` | the promise of the asynchronous API: abstract specification | everything but tasks, states and what callers are told |
| `GenerationTask` | `generation.go` over `taskstore/store.go`, crashes, the database and the provider | bodies up to their hash; results |
| `Ent` | the builders of `ent/` that the program uses | a table to a set of records |
| `TaskTable` | the statements of `store.go`, made with `Ent`, under `GenerationTask` | times, models |
| `VideoSubmit` | `SubmitVideo` of the five providers: the exchanges | payloads |
| `VideoRequest` | what `SubmitVideo` is asked and sends: validation, parts, the parameter tables of every video model; extends `VideoSubmit` | texts and media up to a tag |
| `VideoPoll` | `GetVideo` of the five providers: what an upstream's document says of a job | a document up to its status word, message, code, operation and address |
| `VideoDelivery` | `RunVideoJob`, the poll of `GetGeneration`, `ReadVideoResult`, `EmitVideoChunksFromReader`; extends `VideoPoll` | bytes up to their number |
| `SpeechStream` | `minimaxtts/provider.go` | audio up to the number of messages |
| `TextRequest` | the requests the ark, openai and genai providers build, `caching.go` | texts and media up to a tag; sampling options |
| `TextStream` | `generateText`, `Generate` and `GenerateStream` of the three, `llmmetric`, and the client's follow-up; extends `TextRequest` | deltas up to their kind; token counts up to none, some, cached |
| `ImageCall` | `generateImage`, `GenerateImage` of the openai and genai providers | images up to a tag and what is wrong with them |
| `LiveConfig` | `live_config.go`, `config.go`, `appconfig_loader.go`, `factory.go`, `resolve`, `list_models.go`, the start of `main` | credentials and endpoints up to equality |
| `KeyAccess` | `public_apikey.go`, `apikeystore/store.go`, over `Ent` | headers up to their form, secrets up to their hash |
| `ServerLife` | `main.go` from its first statement to its last; extends `KeyAccess` | calls up to whether they are in a handler |
| `Migration` | `cmd/migrate`, `migrate.go` | the statement of the migration to one step |
| `Subsequences` | the loops that walk a sequence and keep some of its elements | |
| `GenerationTaskProofs`, `VideoRequestProofs`, `VideoDeliveryProofs`, `SpeechStreamProofs`, `LiveConfigProofs` | theorems about the module of that name and those it extends; the first also about `TaskTable` | |
| `PodProofs` | theorems about `ServerLife`, `KeyAccess` and `Migration`, the parts of the run `Pod` | |
| `GenerateProofs` | theorems about `TextStream` and `ImageCall`, the two sides of `Generate` | |
| `SequenceLemmas` | what the operators on sequences do: `Within`, `OfKind`, `FlattenSeq`, `Min`, `Max` | |

The `MC*` modules give the constants values for TLC. `PROJECT.json` ("map") names
for each definition the lines it is translated from. In each module an operator
whose comment begins with "Mutant" stands before the operator it would replace;
it is a plausible mistake, under which one of the properties fails, and no
specification uses it.

### GenerationTask and the code

A Submit call `s` stands for the task id it draws and for the upstream job it
may start. `pc[s]` is the point the handler has reached: `insert`
(`InsertPending`), `requery` (the lookup after a unique-key conflict),
`submitting` (`SubmitVideo`), `markFailed`, `markRunning` and `fallback` (the
writes under the detached context), `done`, `crashed`. `row` is the table. Every
statement is one atomic step `Matches`/`Result`; to its handler it is `Applied`,
`Missed` (no row, or a constraint error) or `Lost` (outcome not known), and a
lost one goes to `late`, from which `LateExecute` may apply it at any later time,
with its WHERE clause as it then stands. A crash puts the statement in flight
into `late`. `job` is the request at the provider, which may take it after its
sender gave up. A `GetGeneration` is two steps with a gap: `PollRead` reads the
row and decides, `PollStep` asks the provider and writes. `age` counts from
`created_at`; a Pod reads it with an error of at most `MaxSkew`. It grows whatever
is under way (`Tick`): nothing in `generation.go` bounds `SubmitVideo`, so a row may
be reaped while its Submit is at work, and `ReapLosesNoJob` says what that must not
do: once a caller was told RUNNING, or the row names its job, no reap closes it. The states of
`reason` are what `error_reason` tells a caller: a definite error,
INVALID_RESPONSE, or SUBMIT_OUTCOME_UNKNOWN.

`TaskTable` adds the variable `table`, a set of rows with all columns. Every step
that changes a row is the execution of one statement (`Executed`, `After`), made as
the builders make it: the columns a mutation sets over the defaults, the required
fields, the keys of the migration, the WHERE of an update. `table` decides nothing;
`TableImplementsRows` says that each statement under way would hit and miss as
`Matches` supposes, so that the handlers' view of the store is what the SQL does.

`TaskLifecycle` is implemented by it under the mapping `state <- row.state`,
`request <- Key`, `been <- Been` (the states a row must have gone through, read
off the row).

### VideoSubmit and VideoRequest

A submit is a plan of exchanges (`Path`). Each exchange is `Send`, then an
`Answer` that may be good, an error of each class `FromHTTPDetail` distinguishes,
undecodable, or lost; in a create exchange the upstream may take the job before
the answer fails (`taken`). `waitFileActive` is the step `active`, with its
pause and its deadline, which it looks at only after an answered GET. `Retries`
is ltx's loop. Time is kept for Gemini, the only client with `client.Timeout`.

`VideoRequest` runs such a submit for one `order`, a request as the service has
accepted it: model, parts, and the wished resolution, duration and ratio. The
model gives the plan (`PlanOf`). `CheckOrder` is a step without an exchange: the
provider refuses the order, or a medium is inline and is not fetched. `SendOrder` is
`Send`, and for the exchange that starts a job it puts into `body`
what the provider makes of the order: the texts, the media by their role, and the
parameters after clamping, snapping and defaulting (one operator for each table of
the code). Each step maps to a step of `VideoSubmit` or a stutter (`RequestImplementsSubmit`).
`TakenBy` states what a model takes as the code's comments and tables list it, by
model id; the operators it is compared with are the code's conversions.

### VideoPoll and VideoDelivery

A document of the upstream is its status word, whether it has a message, a code or
an `error`, and for a Veo operation `done` and an address (`Documents`, which lists
the forms a job that is running, succeeded or failed may be told in). `Status` is
the word `getTask` extracts, `QueryError` the documents it makes an error of, and
`Verdict` is `GetVideo`. Words a provider lists for a state are the words its
upstream uses for it, so the tables are not compared with themselves: what is
checked is what the code does with a word next to a message, a code, an envelope
or an operation.

`phase` is where the call is. `generate` starts at `submit`; a `get` starts at
`poll` on a RUNNING row and at `open` on a SUCCEEDED one, and writes `row` before
it answers. `ReadBlock` is `io.ReadFull` with its outcomes: a full block, the end,
a body cut short (`io.ErrUnexpectedEOF`, which the code treats as the end), the
limit; `ConnectionBreaks` is any other error. `ahead` is the block read and not
yet sent.

### TextRequest and TextStream

`Converted` is one item of `Input.items` as a provider writes it, `Upstream` the
whole request. `Generate` is `generateText` up to the provider's exchange, which
`Unsendable` requests never reach; `ChunkArrives` is one turn of a
`GenerateStream` loop, `Emit` the service's closure, `StreamEnds` the provider's
return with the accounting after it, `DocumentArrives` a call without stream, and
`SendFinal` the one final event. `FollowUp` is the client that answers the tool
calls it got, on Ark also by `previous_response_id`. `metric` holds what
`llmmetric` counted for the request. For the openai provider the model that is
meant is a Qwen on DashScope, the only one that is asked to cache. A call of Gemini
may come without an id and then goes by its name (`convertFunctionCall`), so that the
client's answer can name it.

`OpeningAssumption` says where a conversation starts: with all that was said, so it
continues no response of which nothing is known here, and its tool outputs answer
calls of assistant messages before them (`Coherent`), as a client writes them that keeps the
conversation. Every call names its function, as the three APIs require. The
requests after the first are not assumed to be so; what the client makes of the
answer is `FollowUp`.

### ImageCall

`step` is where the call is: `gathering` the references of an edit, one
`GatherReference` each, `asked`, and `reading` the items of the answer, one
`ReadItem` each, of which a URL is fetched once more. What a fetch may come to is
`Fetches`. `posted` is what the upstream got, `shown` what the client got;
`SendImage` is `validateImageEvent` and the one `Send`. A call of Gemini has no
references to gather and one document to read. It runs beside `TextStream` in
`MCTextStream`: a call of `Generate` asks for the one or the other.

### SpeechStream

`caller`, `reader`, `pinger` and `watcher` are the program counters of the
calling goroutine, `readLoop`, `pingLoop` and the `context.AfterFunc` function;
`mu` and `once` are the mutex and the `sync.Once` of `Close`, whose body is four
steps; `closing`, `failed` and `done` are the flags and the channel. The
upstream may send audio, finish, fail, stay silent or close with a polite
(1000/1001) or abrupt code at any time.

### LiveConfig

A document is a configuration and what follows it in the text (`tail`).
`ParseAndValidateYAML` returns the set of configurations it can return without
an error. `ApplyYAML` is two steps, `ApplyLoads` (parse, and read the
configuration in force) and `ApplyStores` (compare and store), so that callbacks
can interleave. `Resolve` is the routing of a request: the route by the
configuration in force, the capability by the one of the start. `ListModels` is the
list a client may ask for. `deployment` is the environment of the process: the
region decides between Nacos and AppConfig (`Source`), which is read once. The
start is `LoadConfig`, after which callbacks may come, then `Build`, which makes the
providers from what `LoadConfig` read and not from what is in force by then; any
error before the process serves is `Fatal`.

### KeyAccess and ServerLife

`call[c].at` is where a call is: `authenticating` in the interceptor, `found` when
the query has returned and the decision has not been made, `running` in its
handler, `answered`, refused, or `cut`. `LookUp` is the query, under a context that
`ClientLeaves` does not end; `Decide` judges the row as it was read, and its expiry
by the clock of the decision. `RevokeKey`, `KeyExpires` and `CreateKey` are the
operations platform and time. `arrived` and `Standing` only serve the property.

`stage` is the statement `main` is at. `StartStep` goes through `StartOrder`, each
step leaving a part in `up` or a server in `open`; `HealthAfter` is the moment the
health service says SERVING. `SelectSignal` and `SelectServeErr` are the two
branches of the select, `ClosePublic` the HTTP server's `Shutdown`, `StopBegins` and
`StopEnds` a `GracefulStop`, `Collect` one receive from `serveErr`, and `Release` one
of the deferred calls, after which, for the database client, a query may fail. `served` is the state of each server's `Serve` and of its
error in the channel.

External are the servers: that `Shutdown` returns within its time and leaves HTTP/2
connections as they are, and that `GracefulStop` waits for the calls of its server.
The public gRPC server is reached through `ServeHTTP`, for whose transports
grpc-go makes no `Drain`: it panics when a public call still runs then. `StopPanics`
is that panic. `main` unwinds (`stage` is `unwind`): its deferred calls release the
parts one by one while the handlers go on in goroutines of their own and, on the
connections they have, clients may still make calls; then the process ends, and with
it the calls (`MainReturns`). So parts are released under public calls there, and
`ServingHasItsParts` excepts exactly these calls: it holds of the intranet's, which are
drained before, and of every other way to end. `CallsAreDrained` excepts them too.

### Migration

`at` is the statement a run is at, `session` its connection, `lock` the session that
holds the advisory lock, `tx` whether its transaction has executed the statement and
may still be committed (`done`), or was given up and is still open (`abandoned`).
Every step that talks to the database has a form in which it fails, and where the
context or the connection ends in the middle both outcomes in the database are
possible. `SessionEnds` is PostgreSQL: some time after the client is gone the
transaction is rolled back and the lock is free.

Once the context is done, `tx.Commit` and `tx.Rollback` of database/sql may return
before anything is rolled back: a goroutine of the transaction does that (`AwaitDone`),
and then gives the connection up. The deferred `pg_advisory_unlock` has a context of
its own and may come first, on the same session, so the lock is not held over every
transaction that is open. It is held over every transaction that may be committed, since
an abandoned one can only be rolled back; that is what `MigrationsTakeTurns` says. `Close` waits for the transaction's goroutine, as
`sql.Conn` does.

## 3. Runs

| run | states | instance | shows |
|---|---|---|---|
| `GenerationTask_tasks` | 633,384 | 2 Submits of 1 key, 2 bodies, a public and an internal poller, skew 1, window 2, submits of any length; statements may be lost | the safety of the table, verdicts, reaping, frozen rows, the refinement of `TaskLifecycle`; the SQL statements do what the handlers suppose |
| `GenerationTask_liveness` | 61,123 | 2 Submits, 1 poller, skew 1, window 2, fairness; the database does not lose detached statements | PENDING ends; job ends are recorded; no orphan PENDING rows |
| `SpeechStream` | 43,836 | up to 3 messages, limit 2, fairness | whole audio unless the upstream closed politely, no lost error, no write after closing; cancelled and flushed calls return; nothing leaks |
| `SpeechStream_partial` | | as above, up to 2 messages | **violation**: half an audio returned as OK |
| `VideoSubmit` | 200,515 | orders for every video model, wishes and part mixes; timeout 5, poll 1, 3 attempts | one job, honest outcome, bounded duration, a body that fits and is the caller's, an end |
| `VideoSubmit_window` | | the same with the margin 1 | **violation**: a Gemini submit outlasts the window |
| `VideoDelivery` | 26,327 | all families and forms of document, block 2, limit 6, videos of 0..9 bytes, 2 ticks | rows close as jobs end, ended jobs end the wait, the stream tells the video, the call ends |
| `VideoDelivery_failed` | | OminiLink only | **violation**: a failed task with a message is not a failed job |
| `LiveConfig` | 127,754 | 2 models, 2 instances, environments that start and that do not, 2 callbacks | routes and listed models are served, startup fields are kept, only restarts are refused |
| `LiveConfig_multidoc` | | as above, one callback | **violation**: an empty second document makes an empty configuration |
| `TextStream` | 1,137,575 | 3 families, 6 conversations and the switches, 3 calls of which one has no id, 2 chunks and the last, 2 requests; or an image of 3 models, up to 3 references, 2 items | prompts and answers arrive, the accounting agrees, an image arrives whole or not at all |
| `Pod` | 290,418 | one intranet and one public call, a key that is made once, 2 secrets, a good and a bad header; or 2 migration runs | what serves has its parts, calls are drained, keys are obeyed, migrations take turns, a process that is told to end ends |

The states of a violation run are not all explored, so their number is left out.

Why the bounds are enough. A conflict on a key needs two Submits; a third adds
only another loser of the same insert. A race of polls needs two, and the proofs
have no bound. Age needs to be told apart on the two sides of the window, with
the error of a clock on either: the window is 2 ticks, the error 1, and age stops just past
both (`AgeCap`), from where every Pod reads it alike. A submit may last longer than that. Chunking distinguishes no block, one, several, a full and a partial
last block, and the limit on and off a block: block 2 and limit 6 with lengths
up to 9 have all of them. A stream of text shows order, repetition and the first
output with two chunks of up to two pieces, and a tool output needs the request
after the one with its call: two requests. A wish is told apart at every bound of
every table: `MCVideoSubmit` asks every model for each resolution with each duration
on, next to and beyond them, and for each ratio; and for each mix of up to three
parts. Gemini, whose exchanges are timed, and LTX, whose create is retried, get a
few of each. In `VideoSubmit` a unit is two minutes, so that the
timeout is 5 units and the margin 1 as in the code; the five-second poll is
rounded up to a unit. Reload documents differ from the first one in each field
that is compared, validated or routed by. A call of an image shows order and
completeness with two items and three references. The interceptor looks at one row,
and calls do not touch each other: one call by each listener and one key have every
race of a call with the shutdown and of a query with the platform. Turns are between
two runs. Time and jobs are not bounded further:
the plans are finite.

`CHECK_DEADLOCK FALSE` is given where the modelled call returns and nothing
follows (`VideoSubmit`, `VideoDelivery`, `TextStream`) or the process exits (`LiveConfig`, `Pod`).
In `GenerationTask` time always passes, and `SpeechStream` has an explicit step
`Over`, so a deadlock there would be found.

### Fairness

* `GenerationTask`: handlers continue (weak); a client polls each task again and
  again, and a statement or `GetVideo` that is made again and again succeeds some
  time (strong). The first is what `poll_after_ms` asks of clients; the code has
  no worker, so without it nothing ends. `Crash`, `LateExecute` and the upstream
  have no fairness. That `GetVideo` succeeds some time is an assumption about the
  provider which an OminiLink task that failed with a message does not keep (the
  third violation below): there `JobEndIsRecorded` promises nothing.
* `SpeechStream`: goroutines run, timers fire, `Lock` succeeds in the end, writes
  end (strong for the steps that need the mutex). The upstream owes nothing.
  `FlushEnds` has to hold without cancellation, through the timer of `Flush`.
  A write blocked for ever by a peer that does not read is excluded by this
  assumption; the code sets no write deadline except for pings.
* `VideoSubmit`: local steps happen, time passes, and an exchange ends once its
  context is done or, for Gemini, by `client.Timeout`. The other HTTP clients
  have no timeout, so nothing is claimed of a submit of theirs that is not
  cancelled. In `GenerationTask` this shows in the fairness of `SubmitStep`, on
  which only the liveness properties rest: they promise something of a Submit that
  returns. No safety property there bounds a submit.
* `Pod`: `main` goes on; a query ends, its context having three seconds; a handler
  returns. The last is an assumption: nothing in `GracefulStop` bounds a call, and
  the calls that have no deadline of their own last as long as their upstream. What
  then ends the process is the SIGKILL of the platform (`Killed`), which
  `CallsAreDrained` names and no fairness is asked of. `ShutdownEnds` says that the
  shutdown itself adds no wait that never ends.
* `VideoDelivery`: time passes, a done context interrupts, local files are read,
  a client that is there receives. No upstream need answer.

### Violations

Each of the four is a statement of the repository that the code does not keep;
`PROJECT.json` ("findings") quotes it.

1. `minimaxtts/provider.go:352`. A normal or going-away close, or `io.EOF`, before
   `task_finished` ends `readLoop` without an error: the audio received so far is
   returned as OK, against `provider.go:3` and `model_hub.proto:340`.
2. `generation.go:33`. The ten minutes are the limit of one exchange, not of a
   submit: a Gemini edit may last seven timeouts and a poll interval
   (`SubmitIsBounded` is tight), past the 12-minute window, and be closed as
   abandoned while it is at work. No safety property of `GenerationTask` depends on
   the window, so what still holds then is what they say: one upstream request, no
   verdict withdrawn, no closed row revived, a truthful table, and no job closed as
   abandoned that a caller was told of (`ReapLosesNoJob`). The caller of the reaped
   Submit gets an error, with a job at work upstream that no row names.
3. `ominilinkvideo/provider.go:378`. A task document with the status `failed` and a
   `message`, an `error.message` or a `fail_reason` is turned into an error before
   its status is looked at. `GetVideo` then fails instead of reporting
   `VideoJobFailed`, against the table of `provider_test.go:264-266`;
   `Generate(video)` fails all the same, but `GetGeneration` answers Unavailable for
   ever and the row stays RUNNING.
4. `live_config.go:72`. The check for a second document tests `err != io.EOF`
   and returns `err`, which is nil for a second document without fields: an empty
   `Config` with no error. A reload is saved by `RestartRequiredFields` (the DSN
   differs); a start takes it. Whether the process goes on to serve depends on
   `taskstore.Open`, which it then calls with an empty DSN.

Two more disagreements are part of the models and are excepted by the properties; no run
exhibits them, since what goes wrong is in grpc-go and in database/sql, which are external.

* `main.go:155`. `publicHTTP.Shutdown` waits ten seconds at most, and not for h2c
  connections; a public call that still runs then makes `GracefulStop` of its gRPC server
  panic, `main` releases the database and telemetry under it and the process ends, long
  before the grace period of `ack.yaml:33-34` that is there for such calls to finish
  (`StopPanics`).
* `migrate.go:39`. After a context that ends in `Commit` or in the statement, the unlock
  may precede the rollback (`CommitFails`, `ExecuteFails`, `AwaitDone`), against
  `docs/superpowers/specs/2026-08-27-modelhub-database-schema-isolation-design.md:40-42`.
  No two runs can commit at once through it.

## 4. Proofs

The theorems hold for every value of the constants under the assumptions the
modules state (`ASSUME`), which TLC evaluates on each run. Each proof module has
an inductive invariant, proved by one lemma per handler or kind of step,
from which the properties follow; the last step of each is temporal logic. The type
invariants (`TypeOK`, `LifeTypeOK`, ...) are conjuncts of these invariants; where a
theorem proves them no run repeats them.

`GenerationTaskProofs`: any number of Submits, Pods, pollers, callers and bodies.
The assumptions are about the bounds and, for the table, that the blank a column
starts with is not one of its values (`BlankAssumption`).

* The safety properties alone are not inductive: whether a step is harmless depends
  on what a statement still in flight will do. `IInv` therefore says of every
  statement, running or `late`, that it is `Justified`: the upstream fact it
  records is true and, as facts about jobs only grow, stays true. `RowInv` ties a
  row to its job, `KeyInv` is the unique index, `SubmitInv` and `PollInv` say what a
  handler knows at each of its points, `AnswerInv` and `ToldInv` what was told.
* `ExecuteIsSafe` proves once that a justified statement keeps all of it wherever
  it is executed; the handlers' lemmas use it, and `LateExecute` is that lemma.
* From `IInv`: `OneRequest`, `OneTask`, `TableAgrees`, `DefiniteFailures`,
  `Verdicts`, `TypeCorrect`. `ClosedRows` and `Refinement` classify every step by
  the row it writes or the state it tells (`StepWritesOrSays`); with that, each step
  is a step of `TaskLifecycle` or a stutter, without reading a row that is closed.
* `ReapsLoseNoJob` assumes nothing of how long a submit lasts. It rests on what a
  statement is `Justified` by: one that closes a row for another reason than a failed
  job expects the row PENDING, so it misses a row that names its job; and a poller that
  is about to reap has read it without one (`PollInv`).
* `TableKeepsSpec` and `TableIsRows`: `TableInv` says that every task of `row` has one
  record in the table, that there is no other, and what each of its columns holds. A statement goes by what it was
  made with (`Executed`), so the lemmas take the mutation of each of the four statements
  apart, column by column, and its WHERE: an update hits exactly when `Matches` holds,
  an insert violates the unique key exactly when another row has it, and what is
  then there is what `Result` says.
* `NoOrphans` uses that a handler leaves only after its last write, and that the
  detached context keeps the client from cancelling it; `DbMayFail` is a disjunct
  of the property.

`VideoRequestProofs`, of the submit: any timeout, poll interval and number of attempts.

* `JobInv`: as long as the call lasts, a job exists exactly when the upstream has
  taken the exchange being made. This is why ltx may repeat: an answer that allows a
  retry is never given by an upstream that took the job. `OneJob` and
  `HonestOutcome` follow.
* `FileInv` says what the file is past `waitFileActive`, and `PlanShape` that a plan
  has one create exchange, the last: `ActiveFile`.
* `TimeInv` gives each exchange the latest moment it can begin (`Begin`), and the
  wait its own bound from the start of the wait: `BoundedSubmit`, the seven timeouts
  and a poll interval of the second violation, for every timeout.

And of the request: any order of a model the service routes, of any number of
parts, with any resolution, duration and ratio (`OrdersAssumption`).

* Every step is a step of `VideoSubmit` or a stutter, so what is proved of a submit
  holds of a request.
* `BodyInv`: no exchange is made for a refused order, and the create that is under
  way, and the one a job was taken for, carry the body of the order. One lemma for
  each parameter table says that what it makes of a wish is what the model takes,
  and the wish itself where that is taken. `EveryJobFits` joins them.
* `PartsOfTheOrder` compares the body with the parts by the lemmas on `OfKind`: a
  provider's list of media, be it of first frames, references or an edit's video
  and references, has in each role the media of the order in their order, and not one
  that the model does not read. With `ActiveFile` an edit's file is one that was seen
  ACTIVE.

`PodProofs`, of the server: any calls, keys and principals, any number of writes to the keys.

* `StageInv` says for each statement of `main` which parts are up, which servers are
  open and what the health service answers; `HandlerInv` that a call in a handler
  means that `main` has not come past the draining of its server, or unwinds because
  that panicked, and then the call is a public one. Together:
  `PartsOutliveCalls` and `NoCallIsCut`.
* `KeyInv`: a key id is there once, and rows only die: no row is removed, regains
  its standing or changes its secret (`KeysOnlyDie`). So what a call found is still
  the key it asked for, perhaps dead by now; that is why a verdict may be reached on
  a row read before, and what `KeysAreObeyed` rests on.

And of the migration: any number of runs. `LockCovers` says that a session which has
executed the statement in a transaction that may still be committed holds the lock, also
when its client is gone; `TxIsOver` that such a transaction has ended before the lock is
given back; `NoErrorMeansDone` that without an error the tables are there.

`SpeechStreamProofs`: audio of any length. `ReaderInv` lists why the read loop may
have ended and `AudioInv` that audio is lost only with an error; `ResultInv` is what
the caller knows when it returns; `CloserInv` and `CloseInv` who may be closing the
connection, and that the body of `Close` is then past its lock.

`VideoDeliveryProofs`: any block, limit and length of video. `StreamInv`: the chunks a
client has are full blocks numbered from zero, the one read ahead is not among them,
and the bytes read are those of the chunks sent, the chunk under way and the block
ahead. At the end of the body the rest is in the outbox, with one final chunk.
`EndInv`: a success comes after the last chunk, every other result before it.
`EveryFamilyJudges` goes through the forms in which the five upstreams tell the state
of a job: none makes a running job an ended one, or a success of a failure. `JobInv`
adds that nothing is polled before it was submitted, and that the row and the reading
of a result follow the end of the job, which stays as it is (`RowIsTrue`). By the same
lemma a poll of an ended job that is answered ends the wait (`WaitEnds`).

`LiveConfigProofs`: any documents, instances and callbacks. `Agree` is that two
configurations bind the same at startup, `Sound` that routes name instances which
declare the model. What a callback read before it was overtaken agrees with what is
in force, because everything stored since agrees with it; so comparing with it is as
good as comparing with the one in force (`ReloadAgrees`), and what is built agrees
with both (`BuiltInv`). The same argument the other way round is `RefusalNeedsRestart`:
if a document is refused, then it differs, in something bound at startup, from what
its callback read, and so also from what is in force when it is refused. The listen
addresses are never the reason: both configurations have those of the process
(`AddressInv`).

`SequenceLemmas`: `Within` and the library's `FlattenSeq` are recursive functions. What
they do is proved by induction over a set of sequences (`SeqInduction`), which comes
down to the well-founded order of the numbers: no operator is a parameter, and no
module needs `RECURSIVE`. They distribute over concatenation (`WithinConcat`,
`FlattenConcat`), keep order and types, and drop nothing that is wanted; each element of a
flattened sequence lies where its part begins, behind those of all parts before
(`FlattenPlaces`). `Gather` maps and then flattens, which is how a conversation is written and heard.

`GenerateProofs`, of the text side: any prompts that are requests, any calls, any number
of chunks and of requests (`PromptsAssumption`, `OpeningAssumption`, `BoundsAssumption`).

* `TextInv` is the types and four facts. `Accounts`: an entry of `llmmetric` is open
  exactly while its request is at work, and its outcome is the result. `Usages`:
  `usage` is what was told last, and a report made is of that. `Asked`: `disabled` is
  reported only if the request in `sent` does not ask for caching. `Timed`: the time of
  the first output is the number of the first event that has one, or of the one whose
  Send failed. `Accounted` follows (`RequestsAreAccounted`).
* `DeliveryInv` is what the client got followed by what is in the outbox: the chunks
  so far, for Ark's stream without the calls in `emitted`, which are those that came
  before. So nothing is lost, doubled or overtaken when the call ends in whatever way
  (`AnswersArrive`).
* `PromptsArrive` has two halves. The first is about any one request and not about the
  steps (`PromptSays`). An item's entries say what the item means, converter by
  converter (`ConvertedSays`); what is said of a conversation is what is said of its
  items, one after the other, since saying distributes over concatenation
  (`GatherFlatten`). Gemini's instruction is the exception: the system messages lead up to
  some item `k`, what passes of those is in the instruction (`InstructionSays`), and of the
  items behind no system message passes, so instruction and entries meet at `k`.
* The second half, that every output answers a call, needs the history. The invariant
  `PromptInv` has `Sent`, that what was sent is the `Upstream` of the request, and
  `Answered`, that the outputs of a request answer calls in its own items or, if it
  continues a response, in `held`. A follow-up keeps that because the client only answers
  calls it was told of, and it was told of none that the model did not make: this is
  `DeliveryInv`, of which `PromptInv` is an extension (`SaidWasTold`,
  `FollowUpAnswers`). That a call of an item stands before its output also in what is heard is
  `FlattenPlaces`: what comes of the items lies in the order of the items.

`GenerateProofs`, of the image side: any order, any number of references and items
(`ImageOrdersAssumption`). `ImageInv` says how far the call is. `Gathered`: the references
fetched so far are the first of the order, and images. `Posted`: there is one request,
of a valid order, to the endpoint for it, and an edit's has every reference. `Painted`:
the items made so far are those of the first `read` items of the answer, in their
order. `Shown`: success is the one event, made of them when all were read, and an
error shows nothing (`ImagesArrive`).

## 5. Only model-checked, or not modelled

Liveness under fairness and `ENABLED` are beyond the prover and stay with TLC
(`PendingEnds`, `JobEndIsRecorded`, `CancelEndsCall`, `FlushEnds`, `NothingLeaks`,
`SubmitEnds`, `CallEnds`, `ShutdownEnds`). Every safety and
action property that a passing run checks is also proved.

Not modelled: the creation of explicit caches (`CreateCachedContent`), whose life is
the upstream's; the gRPC codes of `ToStatus`, beyond the classes of error that decide
what is stored, retried or told; the dispatch of `publicrpc` between grpc-web and gRPC
and the origins it allows, pure functions of a request; how a URL is picked among
those of a job's document; spans, exporters and the client of the health check,
which keep no state of the gateway; of `ent/` the bulk, delete, group and aggregate
builders, the transactions and the hooks, which nothing calls; generated protocol
code, `deploy` and the examples. Of a text request the sampling options, response
format, tool choice and thinking are copied by the code and left out, and so are the
thinking level and Gemini's aspect ratio of an image request.

Observed while modelling and not checked against, because nothing in the
repository says otherwise: a text stream that ends without its last event (Ark
without `response.completed`, openai without `[DONE]`) is a success; an OpenAI
answer without choices loses its id and usage; Gemini's usage is that of the last
response even when that has none; Gemini drops a system message after the first
other item; an OpenAI call without an id is sent as it is, where the other two fall
back to its name; tool-output images become user messages between the outputs; the
cache mark looks at the first system message only. The properties of `TextStream`
describe these as they are (`Passes`, `Unnamed`, `UsageTold`).

What is hard to test is listed in `PROJECT.json` ("hazards"), at the line where it
bites, each with the properties that would catch it.

## 6. What is left

1. `CachedContent`: `CreateCachedContent` and the life of an explicit cache against
   the requests that use it.
2. `ToStatus`: the code and detail each error reaches a client with, through every
   layer that may rewrite it.
