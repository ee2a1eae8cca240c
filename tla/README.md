# A verification project for CCE

CCE scores the complexity of a source repository. A command line program (`src/src/cce`) turns
a repository and a scoring spec into a record whose hash is reproducible; a service
(`src/src/cce_service`) takes scoring jobs over HTTP, queues them, and runs each of them in a
Firecracker microVM. This directory holds TLA+ models of the parts that are hard to test, the TLC
configurations that check them, and proofs that TLAPS checks.

## 1. The system

| Component | State | Operations | Interacts with |
|---|---|---|---|
| Circuit breaker (`circuit_breaker.py`) | state, failure count, time of opening, under a lock | `call`: locked gate, protected call without the lock, locked outcome | each worker has one around its dispatches |
| Job write path (`api/service.py`) | – | `create_score`: checks, `jobs.create`, `audits.append`, put on the queue | repositories, queue |
| Worker (`workers/consumer.py`, `retry.py`) | the `JobRecord` in hand, its breaker | `run_once`, `_process` | queue, dispatcher, all three repositories |
| Storage (`storage/*`) | jobs table, audit events, records by hash | create, get, update, append, since, upsert | API and workers |
| Firecracker dispatcher (`dispatch/firecracker.py`) | `_fc_process`, work directories, VM processes | `dispatch`: digests, spawn, boot, send, await, teardown | retry decorator, VMM, guest |
| In-process dispatcher (`dispatch/base.py`) | – | `dispatch` | the scoring code |
| Rate limiter (`rate_limit.py`) | one bucket per tenant and name | `allow` | request checks |
| Request checks and reads (`api/service.py`, `auth/*`) | – | 401, 403, 429, 400, 404; `get_score`, `get_record`, `list_audit`, `/metrics` | verifier, limiter, repositories, other replicas through the stores |
| Record store (`storage/clickhouse.py`, `retry.py`) | rows by hash, merged by `created_at` | `upsert` with retries, `get` with `FINAL` | workers, `get_record` |
| JWKS verifier (`auth/jwks.py`) | key set, time stamp | `verify`, `_maybe_refresh` | identity provider |
| Body limit (`api/app.py`) | byte count and two flags per request | `limited_receive`, `guarded_send` | ASGI server, FastAPI |
| `cce score` (`cli.py`, `git_ops.py`, `runtime.py`, `analyzer.py`) | timings, counters, the clone | seven stages, eight kinds of exit | the user's checkout, git, the output directory |
| Output writer and `cce verify` (`cli.py`) | three files and their `.tmp` names | `_write_outputs`, `_atomic_write`, `_verify`, `_verify_sidecar` | other runs on the same directory |
| Scoring (`scoring.py`, `spec.py`) | – | `normalise_metric`, `score_metrics`, `build_score_record` | – |
| Analyzer registry (`analyzers/registry.py`, `ops/docker/cce-entrypoint.py`) | backends by name and language, the registry of the process | register, resolve, `assert_digests` | `parse_repo`, external binaries |
| Built-in backends (`analyzers/builtin.py`) | two stacks, or the depth of a visitor | metrics of one file | – |
| Telemetry (`otel.py`) | two flags, the exporter, counters | `init_otel`, spans, counters | every stage of `cce score` |
| Logging, migrations, canonical JSON | – | – | – |

What is hard here:

* **Concurrency.** The breaker's protected call runs unlocked; several workers and requests share
  the tables and the queue; two `cce score` runs may share an output directory; the checkout that a
  local run reads is somebody else's.
* **Failure between two writes.** Row, record and audit event are three transactions, and so are
  row, audit event and queue entry in `create_score`. A queue `get` is not acknowledged. The three
  output files are replaced one after the other. A VM is spawned before the `try` block begins.
* **Time.** Recovery timeout, two deadlines in the dispatcher, lazy refill, a TTL against a clock
  that belongs to the host, tokens that expire, rows whose version is the clock of a worker.
* **Order.** An audit event has its time stamp before it is stored; the body limit is noticed while the application reads and enforced when it answers; an insert whose answer was
  lost is made again after others;
  timings must come in a fixed order; exceptions are translated on their way up.

`PROJECT.json` lists each of these as a hazard with its line and the properties aimed at it.

## 2. Modules

Names in the modules are the code's where TLA+ allows it; `map` in `PROJECT.json` has the lines of
every definition. Where one module extends two specifications, the names of one of them are its own
(`ApiSpec`, `BreakerSpec`, `LimitSpec`). A definition marked `Seeded bug` is not part of any specification: it is a
plausible mistake in the definition that follows it, and shows that a property would notice.

| Module | Models |
|---|---|
| `Breaker` | the breaker as a value: gate, failure, success, ageing. Used by the next two. |
| `CircuitBreaker`, `MCCircuitBreaker` | any number of callers of one breaker; a call is admitted in one step and reports in a later one |
| `JobLifecycle` | what a client is promised about a job |
| `ScorePipeline`, `MCScorePipeline`, `ScorePipelineProof` | a job from `create_score` to its outcome; refines `JobLifecycle` |
| `FirecrackerDispatch` | one dispatcher, called again and again |
| `DispatchProof` | the proofs about `CircuitBreaker` and `FirecrackerDispatch` |
| `TokenBucket` | what a rate limiter promises: a bucket filled at every tick |
| `RateLimiter` | `allow` with its lazy refill; refines `TokenBucket` |
| `RecordStore` | the ClickHouse table, `upsert` and its retries, merges, `FINAL` |
| `ScoreApi`, `MCScoreApi`, `ScoreApiProof` | all routes in several replicas; composes `RateLimiter` and `RecordStore`, and its proof module proves about all three |
| `BodyLimit`, `MCBodyLimit` | the body-limit middleware, one request |
| `JwksCache` | the key cache beside a provider that rotates keys |
| `RequestGuardsProof` | the proofs about `BodyLimit` and `JwksCache` |
| `OutputFiles`, `MCOutputFiles`, `OutputFilesProof` | the output directory, names and inodes |
| `Registry` | the analyzer registry as a value, and what the entrypoints put into it |
| `Telemetry` | `init_otel`, exporter and counters as a value |
| `ScoreRun`, `MCScoreRun`, `ScoreRunProof` | one `cce score` and its checkout; uses `Registry` and `Telemetry` |
| `FileMetrics`, `MCFileMetrics` | the built-in backends on a syntax tree |
| `Scoring`, `MCScoring` | normalisation and the weighted score, on scaled integers |
| `MetricsProof` | the proofs about `FileMetrics` and `Scoring` |
| `Sums` | lemmas: induction over numbers and finite sets, and what a sum over a finite set is |

**Circuit breaker.** `Admit` and `FastFail` are the first locked block with both outcomes,
`RecordFailure` and `RecordSuccess` the second. Between them a caller is `inside`, and the others go
on. Time is an age that stops at the recovery timeout, because only `>=` is ever asked of it.

**Score pipeline.** Every call to a repository or to the queue is one action; a program counter per
request and per worker says which comes next. `rows`, `records` and `audits` are the committed
contents of the stores, `queue` is a FIFO of copies. A worker's dispatch is the retry decorator's
loop (`attempt`) inside the worker's own breaker; how a dispatch ends is free. `StorageFault` is an
exception out of a repository or the queue, which leaves `run_once`; `Crash` is the end of the
process at any point, with a new breaker and a new failure counter after it, since both are in memory
(`forgotten` is what such counters had reached); `ApiFault` is either of the two in a request.
`MaxFaults` bounds them. The `except DispatchError` branch of `_process` has no action: the decorator
never lets that class through. The service has been given a dispatcher; without one
(`service.py:193`) jobs stay queued for ever. The in-memory repositories, where a copy is the stored object
itself, are for development and not modelled.

**Job lifecycle.** `JobLifecycle` has the state a client can ask for: status and record hash of each
job, the hashes that have a record, the events of each job. In `ScorePipeline` it is instantiated with
the committed contents of the stores; queueing, requeueing, retries and faults are stuttering steps.

**Firecracker dispatcher.** `pc` follows `dispatch` and its helpers. Call number *d* names both its
process and its work directory. Everything that can raise in `_spawn_vm` goes through `LeaveSpawn`,
which does not pass the `finally` clause; everything after it goes through `Teardown`. VM processes
exit at any moment; connections are answered, refused or kept open. The steps that end a blocking
read or write (`PeerStep`) are the other side's: no socket has a timeout, so they need not come. A directory
counts as gone once it was given to `rmtree`, which ignores errors.

**Rate limiter.** Tokens are counted in units in which both the refill per tick and a request are
whole numbers. `Level` is what the code computes when somebody asks; `TokenBucket` keeps that level at all times.
An observed window (`Observe`) counts the grants since an arbitrary moment.

**API.** A handler never awaits between its repository calls, so a replica serves one request at a
time; replicas share the stores and nothing else, and each has its own limiter (`Keys` are pairs of a
replica and a tenant). `CreateScore` is everything up to the first repository call: parsing, token,
scope, bucket, fields, in the code's order. `CreateJob` and `AppendAudit` are the two repository calls
that follow; the event has its `ts` after the first and is visible after the second. Reads are one step.
A token is its first defect, its tenant, its scopes and its `exp`. `Poll` is a client that asks for what
is new since the last event it has. What happens to a job afterwards, and the events of the workers,
are in `ScorePipeline`.

**Record store.** A table is a sequence of rows per hash. An insert may be carried out although it
raised (`InsertRaises` with both outcomes), and is then made again with the same `created_at`;
`Merge` drops the older of two rows at any time; `Final` is what `FINAL` reads. `created_at` is the clock of the
worker's host, which may be ahead. `ScorePipeline` keeps the simpler table in which the last upsert wins.

**Body limit.** The application is the one of `build_app`: `POST /v1/scores` reads the whole body and
then runs `create_score`, the other routes read nothing, and nothing is received after an answer has
started. FastAPI itself is outside this repository; that it behaves so is an assumption.

**JWKS cache.** The route handlers are coroutines that never await while they verify, so there is one
verification at a time; a fetch has a beginning, a moment at which the provider answers, and an end,
and time and rotations go on in between. Keys may have been published at any time, before the host
started too, while an empty cache is dated at that start (`_fetched_at = 0.0`). A key is its `kid`, signature and claims are a choice.

**Output files.** `_atomic_write` is open (create or truncate), write, replace, each a step; on an
error, unlink. A process that opened a `.tmp` keeps writing to that inode after another run moved it.
The runs score the same commit, so they have the same names. Their records differ in `computed_at` and, as
`--repo` and `--mode` are in the record and not in its hash, may differ in length: a record written
over the beginning of a longer one leaves its end, and the file is then "mixed" (`Written`).

**Score run.** One action per stage and one per way it fails. A file is its one metric, a tree a
function from files to values; `Save` and `SwitchTo` are the owner of the checkout. The branch that
returns `EXIT_DIGEST` for a malformed digest after `load_spec` cannot be reached, because `load_spec`
has refused it already. The environment is a development image, or a production image with the
entrypoint that registers lizard and scc, with or without a telemetry SDK that works. A local checkout may
lie below a directory whose name is in `_SKIP_DIRS`; then no file is listed (`Listed`). The temporary
directory of a clone is taken to lie elsewhere.

**Registry, telemetry.** Both are modelled as values: the operators take a registry (or the flags of
`otel.py`) and return the next one, and `ScoreRun` keeps them in variables. `PinnedVerified` is about
the digests that `assert_digests` sees when `parse_repo` runs.

**File metrics.** A tree is a kind and a parent per node. `WalkTs` and `CountTs` are one turn of the two
loops over explicit stacks (TypeScript); `VisitPy`, `CountPy` and `LeavePy` are the recursive visitors
(Python), which keep their depth in an attribute. They have the stack of the interpreter, and a node that lies
deeper than `RecursionLimit` raises (`RecursionFails`), which `analyse_python` does not catch; the limit is counted in
nodes. A "loop" is any construct that branches and is no `if`, which matters after an `else`.
The reference definitions say what a branch contributes in terms of its ancestors.

**Scoring.** Every metric has its own rule, as in `scoring-spec.yaml`; rules may fall and weights may be
negative, because `spec.py` accepts both. Normalised values of the spec are `Fine`-ths, weights `Whole`-ths, results `Scale`-ths
(the quantisation), and the quotient `position` is rounded to `Prec`-ths (the limited digits of
`Decimal`). `Reference` is the exact rational value.

## 3. What the runs check

All constants are small sets; every bound is a named constant and appears in a guard.

| Run | Bounds | Shows |
|---|---|---|
| `circuit_breaker` | three callers, two thresholds' worth of failures | whatever the order of outcomes: `StateMatchesCount`, `HalfOpenIsCool`, and a circuit never goes from open to closed without a trial phase (`TrialPhaseNotSkipped`) |
| `score_pipeline` | 2 jobs, 2 commits, 2 requests, 2 workers, 2 attempts, 2 faults, one failure opens a breaker | see below |
| `firecracker_dispatch` | 3 calls (what the decorator makes), deadlines of 1 and 2 ticks | a booted call leaves no process and no directory (`BootedCallsCleanUp`); the VM in use is the one that teardown takes (`HandleIsOwnVm`); every call returns or raises, or hangs in one read from a peer that neither answers nor closes: its own loops and waits end (`DispatchReturns`) |
| `score_api` | 2 replicas, 2 workers, 4 tokens, 2 ticks, three loads: 3 creations with a rate window, 2 creations with 2 polls, 2 upserts with 2 attempts | see below |
| `body_limit` | limit of 3 bytes, up to 4 messages of 0 to 4 bytes, every header | one well-formed response (`OneResponse`), 413 exactly when over the limit and nothing changed below it (`LimitDecides`) |
| `jwks_cache` | 2 keys, TTL 2, 7 ticks | a withdrawn key is accepted for less than the TTL (`WithdrawnKeyExpires`), a published one refused for less than the TTL, or by a process that has fetched nothing while the host is younger than the TTL (`PublishedKeyIsKnown`) |
| `output_files` | 3 runs, 2 at a time, 2 time stamps, records of 2 lengths, 2 errors or kills | runs one after the other: whole files at all times (`TargetsWhole`), repaired by the next success, with `.tmp` files left by kills only (`RerunRepairs`); any runs: when undisturbed runs have ended no file is empty, and all are whole unless records had different lengths (`WholeInTheEnd`) |
| `score_run` | 2 commits, 2 files, 2 changes to the checkout, all arguments, a skipped place or not, 3 images | the clone is removed on every exit (`CloneRemoved`), the timings assertion never fails (`TimingsInOrder`), every run is counted once (`CountedOnce`), spans are the names of `ALLOWED_SPAN_NAMES` in their order or none (`SpansFollowStages`), a pinned binary is verified before it is used (`PinnedVerified`), remote runs, and undisturbed ones outside skipped places, reproduce the commit's metrics (`CleanRunsReproduce`) |
| `file_metrics` | all trees of up to 5 nodes, both languages, nesting limit 2, recursion limit 4 | loops and visitors compute the reference (`CountsMatchDefinition`), every function above the limit is found once (`FunctionsFoundOnce`), the analysis ends, with an exception exactly for Python trees that are too deep (`AnalysisEnds`) |
| `scoring` | two metrics with their own rules: one with all rules of 1 or 2 cuts and all rising ones of 3, from {1, 3, 4}, the other with 4 rules; 4 weightings, one with a negative weight; raw values to 5 | exact to the rounding by the metric's own rule (`NearReference`), within the metrics' range if no weight is negative (`ScoreBetweenMetrics`), monotone where rules and weights are (`NeverFalls`) |

`score_pipeline` checks that a job is never in two hands (`SingleOwner`), that copies agree with the
row except between an assignment and its update (`CopiesAgree`), that finished jobs stay as they are
(`TerminalIsFinal`), that SUCCEEDED implies a stored record (`SucceededHasRecord`), that each fault
abandons at most one job and nothing else does (`FaultsBoundLoss`), that the failure counters, with what
restarts made them forget, and the table agree up to faults (`CounterTracksRows`), that a client sees the life of a job as
`JobLifecycle` promises it, the audit log included (`ImplementsJobLifecycle`), and that every job comes
to rest (`JobsSettle`).

`score_api` checks that no window grants more than capacity plus refill (`WindowBound`), that lazy
refill is indistinguishable from eager (`ImplementsTokenBucket`), that all replicas together accept
no more jobs of a tenant than all its buckets allow (`JobsWithinRate`), that every answer is within the
caller's rights and a refused one has no effect (`AnswersWithinRights`), that a polling client misses
an event only if it was stamped and not yet stored at an earlier poll (`MissedWereInFlight`), that a row
whose upsert returned is visible or replaced by a newer one (`AckedUpsertVisible`), and that what is read under
a hash never gets older (`RecordNeverOlder`).

`TypeOK` is listed in no run. It is a theorem for the breaker (`BreakerTypeOK`), the pipeline, the rate limiter and the scoring, and a
conjunct of the proved invariant of the dispatcher, the JWKS cache and the output files (section 4).
To check it elsewhere, name it as an `INVARIANT` of the module's configuration.

Bounds. Two jobs, requests and workers are enough for every pairwise race, two faults for a fault
during the recovery from another; one failure opens a breaker so that the requeue loop is reached.
Three runs on an output directory are one that breaks, one that overlaps, one that repairs; two at a
time and two lengths are enough for one to write over the other's `.tmp`. Three
cuts give an inner segment between two others, and the set {1, 3, 4} has spans of 1, 2 and 3, so that
`position` is exact, a half, and a third. In `jwks_cache` 7 ticks are three TTLs and a slow fetch.
In `score_api` a bucket holds one request and earns half of one per tick, so a refill that counts is
two ticks; one token expires after the first tick, one makes the verifier raise what is not an
`AuthError`; the loads are separate because what they exercise shares no state but the clock. The
replicas are symmetric. Five nodes are a function in a function, an `if` with its `else`
and something in it, and three levels where the limit is two; only a chain of all five is too deep for the
visitors, inside a function or outside.

Fairness. `score_pipeline`: a request under way goes on, a worker keeps calling `run_once` (the loop
around it is the deployment's), time passes; faults are never forced. Weak fairness of a worker also means that a dispatch
ends, in whichever way. The dispatcher does **not** guarantee that: none of its sockets has a timeout, and the
cap on a job that `consumer.py:9` speaks of is the deployment's. If a dispatch hangs, `JobsSettle` fails for its job.
`firecracker_dispatch`: the calling thread runs and time passes. Nothing is assumed of the VMM and the
guest (`PeerStep` is not fair), so `DispatchReturns` allows for a call that hangs in one read, and for
nothing else. `file_metrics`: a single thread runs on (weak fairness of its only process).

### Disagreements that runs show

* `score_pipeline_readable`: records are stored by hash alone, so a tenant that scores a commit after
  another tenant takes the record over, and the first one gets 404 for a succeeded job.
* `body_limit_effect`: an oversized body without a (true) `Content-Length` is answered with 413 after
  the job was created and queued.

### Disagreements that are stated and not part of a regular run

The last part of a module states further sentences of the documentation that the model refutes. To
see the counterexample, name the definition as the `INVARIANT` (the first one: `PROPERTY`) of the
module's configuration.

| Definition | The documentation | The code |
|---|---|---|
| `CircuitBreaker!OpensOnConsecutiveFailures` | `circuit_breaker.py:3` "After N consecutive failures" | a success while closed does not reset the count (99–107) |
| `CircuitBreaker!OneTrialRequest` | `circuit_breaker.py:5` "one trial request (half-open)" | everybody is admitted until the first outcome |
| `ScorePipeline!FailureAudited` | `firecracker.py:20` "records the failure in Postgres ``audit_events``", `ops/runbooks/firecracker-boot-fail.md:11` "Pick a failed job from the audit log" | the unexpected branch (`consumer.py:149`) writes no event |
| `ScorePipeline!DispatchFailuresCounted` | `ops/slo.md:43` "failed dispatches are categorised in `cce_job_failures_total{reason="dispatch"}`" | that branch (`consumer.py:133`) is unreachable |
| `ScorePipeline!NoInFlightJobLost` | `ops/rollback.md:4` "without losing in-flight scoring jobs" | a worker that is stopped takes its job with it |
| `FirecrackerDispatch!OneVmAtATime` | `firecracker.py:3` "One microVM per scoring job" | a VM whose boot failed is left running and the retry starts another |
| `FirecrackerDispatch!BootFailuresCounted` | `firecracker.py:18`, `ops/slo.md:42` | errors of `Popen` and of the boot requests are not counted |
| `FirecrackerDispatch!WaitBounded` | `ops/runbooks/worker-stuck.md:29` "the jailer kills the VM at 120 s", `firecracker.py:7` "wallclock=120 s via cgroup controls enforced by the jailer" | `recv` has no timeout and the jailer gets no limit |
| `JwksCache!FetchedOnFirstUse` | `jwks.py:4` "fetches the public keys on first use" | `_fetched_at = 0.0` counts as fresh until the host has been up for the TTL |
| `OutputFiles!AtomicWrites` | `cli.py:383` "Atomic writes: write to a temp file, then os.replace() to target." | overlapping runs share the `.tmp` name; with another `--repo` or `--mode` the record may end as the beginning of one and the end of another, and both runs report success |
| `OutputFiles!SidecarWorks` | `README.md:158` "works with `sha256sum -c`" | overlapping runs may leave record and sidecar of different runs |
| `ScoreRun!DocumentedSpans` | `README.md:90` "`prepared_repo → analyze → score → write_outputs`, emitted as OpenTelemetry spans", and `otel.py:257` | a run emits `load_spec`, `clone`, `parse`, `measure`, `score`, `write_outputs` |
| `ScoreRun!RecordIsOfItsCommit` | `README.md:62` "the identical record_hash" for the same commit | `--mode commit` on a local repository measures the working tree and names the commit it was asked for |
| `ScoreRun!PlaceDoesNotMatter` | `README.md:62` "the identical record_hash" for the same commit | `_SKIP_DIRS` is looked for in the whole path (`analyzer.py:189`): a checkout below a directory with such a name is scored with zeros |
| `Scoring!ScoreInUnitRange` | `README.md:43` "Scores range from 0 (minimal complexity) to 1" | `spec.py` accepts negative weights and any normalised values |
| `ScoreRun!ProductionBackendsUsed` | `analyzer.py:5` "production images can swap in digest-pinned lizard/scc backends" | they are registered without `default`, and `parse_repo` resolves to the built-in ones |
| `ScoreApi!SharedLimit` | `rate_limit.py:3` "so multiple API workers share state" | every process has its own buckets |
| `ScoreApi!TokenFailuresAre401` | `jwt.py:24` "any token-validation failure.  Maps to HTTP 401" | a header that is not an object, or an `exp` that is not a number, raises something else and is answered with 500 |
| `ScoreApi!PollerSeesAll` | `GET /v1/audit` as a log to follow | an event is stamped before it is stored, and may be stored after a poll that moved past it |
| `ScoreApi!ReadYourUpsert` (of `RecordStore`) | `clickhouse.py:98` "reads are consistent immediately after upsert" | an older insert from a worker whose clock is ahead hides the row that was just acknowledged |
| `FileMetrics!SkippedFunctionsMeasured` | `builtin.py:168` "they're counted separately by _walk_ts_functions" | functions below the nesting limit are counted nowhere |
| `FileMetrics!CountsIgnoreCharacters` | `builtin.py:146` "for a single TS function node" | the operator of a binary expression is read from the text by a byte offset, and characters of several bytes before it shift it |

## 4. What is proved

The theorems hold for every value of the constants that satisfies the named assumption of the
module. The safety proofs have the usual shape: `Init` implies the inductive invariant, every action
preserves it, it implies the property; the last step is propositional temporal logic.

**Circuit breaker** (`DispatchProof`). `TypeCorrect`, `StateMatchesCountHolds` (inductive with the
types), `HalfOpenIsCoolHolds`, and `TrialPhaseNotSkippedHolds`, a property of steps. The last two rest on
`StateMatchesCount`: a half-open breaker has reached the threshold, so any failure reopens it.
Assumption: a positive threshold and a natural timeout.

**Score pipeline** (`ScorePipelineProof`). None of the properties is inductive alone; `IInv` has three layers.

* Ownership (`OInv`): types; a request or worker holds a job exactly when it is not idle; `SingleOwner`;
  the agreement of copies; and `PhaseMatchesStatus`, which ties the program counter to the status of
  the job in hand. An update is safe for the other copies only because there are none, and a worker
  about to write "running" holds a job that is not finished. Hence `SingleOwnerHolds`,
  `CopiesAgreeHolds` and, as a property of steps, `TerminalIsFinalHolds`.
* Progress: a worker that is about to write SUCCEEDED has stored the record (`RecordsFirst`), the number
  of events of a job follows from its status and from who holds it (`EventsFollow`), and a failure has
  its reason (`FailureNamed`). Hence `SucceededHasRecordHolds`, and `ImplementsJobLifecycleHolds`: every
  step of the pipeline is one of the lifecycle, or changes nothing that a client sees.
* Counting: `FaultsBoundLossHolds` and `CounterTracksRowsHolds`. That the sets in question are finite is
  part of the invariant (they start empty and each step adds at most one element), so that neither
  jobs nor requests need be finite. The counters of the workers, of which there are finitely many, are summed,
  and `forgotten` takes up what a crash resets, so that the sum does not change with it. A step abandons at most one job because of `SingleOwner`: it can only be the one
  in the hands of the process that steps.

**API, limiter and store** (`ScoreApiProof`).

* The limiter: `TypeCorrect`; `WindowBoundHolds`, from an invariant that bounds the grants in
  the window by the capacity at its start, the refill since, and the tokens left; `Refinement`:
  `Level` is the state of a token bucket, `Allow` is one of its two answers, `Tick` fills it.
* The composition: `ApiImplementsLimiter` (a step of the API is a call of `allow`, a tick, a new
  observation, or invisible to the buckets; a caller that reaches the limiter has a bucket because it has
  the scope). `ApiWindowBound` and `ApiImplementsTokenBucket` follow.
* `MissedWereInFlightHolds`: `HandlersOK` says that the stamp of a request under way is not in the
  future, `PollOK` that the cursor is not either, and that a request whose event is stamped and not stored
  when the cursor moves past it is in `overtaken`.
* `AckedUpsertVisibleHolds` and `RecordNeverOlderHolds`: a row is the top of its hash if no row is newer
  and every row of the same time came before it. `StoreOK` says that a table with rows has a top and that the top is not older
  than any acknowledged row; a lemma on each operation says that tops only grow (`TopsGrow`). A merge drops
  only a row that is not the top.
* `AnswersWithinRightsHolds`: a request past its admission carries a token that was verified and has the
  scope, so that the answer at its end is within its rights although nothing is checked there.
* `JobsWithinRateHolds`, a sum over the replicas, which need only be finitely many. `RateInv` counts what is
  left: the jobs of a tenant that are stored or being stored, in units, and the levels of all its
  buckets are together no more than all they started with and were refilled with. A job that is about
  to be stored was paid for in the step that admitted it and is counted from there (`Creating`), so that
  storing it moves it from one count to the other; a request that fails drops out of both.

Assumptions: finitely many replicas; the keys are the pairs of a replica and a tenant that may write; a token has one of the
defects the verifiers can find, or none, and a whole `exp`; the clock of a worker is ahead of the API's by a
whole number, which may be negative.

**JWKS cache** (`RequestGuardsProof`). `WithdrawnKeyExpiresHolds`, `PublishedKeyIsKnownHolds`. The invariant
(`Freshness`) says of a key set that it shows the provider's keys as of its date or later, where the date is
the reading of the clock *before* the fetch; and that whoever looks a key up does so in a set dated
within the TTL, unless the process has never fetched one: then the set is empty, its date is 0, and
a lookup in it was dated less than a TTL after the start of the host. Assumption: the TTL is positive.

**Firecracker dispatcher** (`DispatchProof`). `BootedCallsCleanUpHolds`, `HandleIsOwnVmHolds`,
together with `CallsInOrder`: calls to come have neither process nor directory, and the directory goes to
`rmtree` after the process is gone. Assumption: deadlines and the number of calls are natural numbers.

**Body limit** (`RequestGuardsProof`). `OneResponseHolds`, `LimitDecidesHolds`, from what has been counted
(`Counted`) and sent (`Sent`) at each place of the application. Assumption: the application itself never
answers 413; no route in `src/src/cce_service` does.

**Output files** (`OutputFilesProof`). `TargetsWholeHolds`, `RerunRepairsHolds`, `WholeInTheEndHolds`. The heart
is `NamesOK`: a name leads only to an inode that was created for it, and the `.tmp` and the final name of a
file never lead to the same one. So a run that opens its `.tmp` truncates no final file. Runs that
follow one another have written what is behind them (`AloneOK`); when runs overlap without faults, whoever
emptied a file is still there to fill it (`WriterThere`), and what a file holds has the length of some record of a run
that was started, so that nothing is mixed if these have one length; a `.tmp` file has an owner that will move or
remove it, or somebody was killed (`TmpOwned`). Assumption: "no inode" is no inode, a time stamp is
none of the other texts a file can hold, and a record has at least one byte.

**Score run** (`ScoreRunProof`). `CloneRemovedHolds`, `TimingsInOrderHolds`, `CountedOnceHolds`,
`SpansFollowStagesHolds` from `TraceOK` and `EndsOK` (how many timings and spans there are at each stage);
`PinnedVerifiedHolds` from `RegistryOK` and lemmas on `Registry` (what the entrypoint registers is what
`assert_digests` looks at, and the built-in backends stay the default); `CleanRunsReproduceHolds` from
`ReadOK` (what has been read of an untouched tree is the commit's, and all of it was listed), for any number of files. Assumption: at least one
source file, of one of the two languages.

**File metrics** (`MetricsProof`), for trees of any number of nodes. The reference is a recursive function on the
tree (`Above`); that it exists, and that ancestors are ordered as they should be, is proved first
(`AboveExists`, `AboveFacts`, `AboveChain`), by induction over the node numbers in the form that `Sums` gives it.

* The search: `FunctionsFoundOnceHolds`. No node on the stack is above another (`IsFront`), so a node *waits*
  if it is on the stack or below a node that is, and a turn takes exactly one node off what waits
  (`FrontExpand`), or, where it does not go further down, a node and all below it (`FrontDrop`). `SearchInv` says that the functions
  that are wanted have either been reached or wait, never both, and that an entry's depth is the number of nodes above it
  (TypeScript) or that nothing on the stack is inside a function (Python). When the stack is empty nothing waits.
* The count: `CountsMatchDefinitionHolds`. `CountInv` says of a count under way that its numbers are those of the nodes
  it has passed (`Passed`, `TallyOK`): so many branches, the sum of one plus their nesting, the largest of these, and the extra operands of
  the boolean operations. The depths must be right for that (`DepthOK`): in TypeScript an entry carries the
  nesting of its node; in Python the entries with depth `Leave` below an entry of the stack are the
  branches around its node, so the visitor's one attribute, which is their number, is right
  whichever node comes next. In TypeScript a nested function, or what is nested too deeply, is dropped together with
  all below it, and none of that is to be counted (`CountDrop`).

Assumption: a tree has at least one node, and every other node comes after its parent. That a Python tree has no `else` nodes is part of
`AnalysisInit`. A visit that raises leaves results and stacks as they are, and neither theorem speaks of such an analysis.

**Scoring** (`MetricsProof`). `NearReferenceHolds`, `ScoreBetweenMetricsHolds`, `NeverFallsHolds` and the type
invariant, `ScoringTypes`. What is kept is what was computed (`ScoreInv`); the rest is arithmetic. A rounded
quotient is at most a half away (`RoundNear`), rounding keeps the order (`RoundMonotone`: two roundings in
the wrong order would be a whole apart, so the quotients would have to be equal), and a fraction may be
reduced before it is rounded (`RoundReduced`), which makes all three branches of `normalise_metric` the
rounding of one interpolated value (`NormaliseRounds`). The loop over the cuts ends at the two neighbours
of the value, and they are apart even where other cuts coincide (`SegmentFacts`); hence a position is between 0 and 1
(`PositionFacts`), and interpolation by a rule that does not fall keeps the order within a segment and from one to a later one
(`InterpolatedMonotone`). `ErrorBound` adds the errors of the two roundings, for falling segments too. The score keeps the order
where no weight is negative (`WeightedMonotone`), and is the common value if all metrics have the same,
because the weights add up to a whole (`WeightedEqual`). Assumption: what `_parse_normalisation` and
`_parse_weights` insist on, and nothing more; at least one metric. That weights are not negative and rules
do not fall, as in `scoring-spec.yaml`, is a condition in the properties that need it; `NearReference` does not.

**Sums** (`Sums`). The library's induction theorems have a predicate as a parameter, which the provers cannot
instantiate. Here sets take the place of predicates: a set of numbers that is not empty has a least element (`LeastElement`,
from the well-foundedness of `<`), so a set of subsets of a finite set that contains a set whenever it
contains it without any one of its elements contains them all (`SubsetInduction`). With that the recursive
function behind `SumFunctionOnSet` exists and is unique, and the lemmas follow: the order of the terms does
not matter (`SumRemove`), sums are monotone (`SumMonotone`), add up (`SumAdd`), have common factors (`SumScale`),
and change by what one term changes (`SumChange`).

Only model-checked: the liveness properties `JobsSettle`, `DispatchReturns` and `AnalysisEnds`, because the prover
does not do fairness.

## 5. What is not modelled

* lizard and scc as programs: which metrics they report as 0 is in `ScoreRun`, their numbers are not.
  Line counts of the built-in backends.
* Cryptography, JSON, YAML, HTTP framing and tar streams: outcomes only. Canonical JSON is a library call.
* Request ids, the log formatter and filter, migrations, the script that rewrites the golden hashes,
  helpers of the tests (`issue_*_token`, `reset_registry`).
* The in-process dispatcher, which has no state; its outcomes are those of a dispatch step, its stages
  those of `ScoreRun`.
* The in-memory repositories, which hand out the stored object; they are for development.
* Two threads in one `FirecrackerDispatcher`: a worker calls its dispatcher from one thread.
* Replicas whose clocks differ from each other (those of the workers may be ahead), and a replica that is
  restarted, which would give it full buckets: `JobsWithinRate` counts the buckets of replicas that stay up.
* A service without a dispatcher (`service.py:193`), whose jobs nobody takes.
* In `ScoreApi` the audit event and the put on the queue are one step; a put that raises after the event was stored
  is in `ScorePipeline` (`ApiFault`).
* Errors of `rmtree`, which the dispatcher ignores: a directory may stay.

## 6. Plan

Done: breaker, pipeline, dispatcher, rate limiter, output files, score run, scoring, body limit, JWKS
cache; then the job lifecycle and its refinement, the record store, the API over limiter and store,
registry and telemetry inside the score run, and the built-in backends.

Proved since: all invariants and step properties that the runs check, and both refinements. What is left are the three
liveness properties, which stay with TLC.
