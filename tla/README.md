# A TLA+ project for the tenant WASM sandbox service

The service takes WASM modules of many tenants, queues executions of them, runs
them in a pool of workers under quotas and timeouts, and keeps its state in one
JSON file. These modules model its concurrent core, TLC checks them on small
instances, and TLAPS proves the invariants that matter for every instance.
Around the core, three modules cover what a client sees: requests, streams and
shutdown; the budget and outcome of a run; the callback.
Paths below are relative to the root of the repository (`src/` here).

## 1. Inventory

| Component | Code | State | Operations | What makes it correct | Module |
|---|---|---|---|---|---|
| Fair queue | `internal/queue/infrastructure/fair.go` | list of jobs per tenant, ring of tenants, cursor, `notify` channel of capacity 1, closed flag | Enqueue, Dequeue (blocking), Close, Len | no job lost or doubled, no lost wakeup, ring and lists agree, turns are kept | FairQueue, JobQueue |
| Scheduler | `internal/queue/application/scheduler.go` | set of cancel marks | Submit, Cancel, Canceled | a mark drops the job it is for and no record stays open | Execution |
| Worker pool | `internal/worker/application/pool.go` | goroutines, context | Start, Wait, loop | a worker ends only when told to | FairQueue, Execution |
| Execution service | `internal/execution/application/service.go` | cancel functions by id, payloads by id, plus the records in the store | Submit, Run, Cancel, fail | one run per execution, lease and cancel function exactly during it, records end, answers are durable | Execution |
| Store, recovery | `internal/store/memory.go` | modules, contents, executions, keys; a file with all of it | Create/Update/Find/Save…, RecoverInterrupted | what was acknowledged survives a crash; no record stays open after a restart | Execution (executions and keys), Catalog (modules) |
| Resource manager | `internal/resource/application/manager.go` | quota, active count and CPU window per tenant; leases | Acquire, Release, Get, Set | counters exact, limits kept, CPU use not given back | ResourceManager |
| Server | `cmd/server/main.go` | – | wiring, signal, shutdown | recovery before serving; the shutdown leaves only what recovery repairs | Execution (Signal, CloseQueue, Restart) |
| Module catalog | `internal/module` | draft, published, withdrawn | Register, Publish, Withdraw | a withdrawn module does not come back, what was acknowledged is kept | Catalog |
| Compile cache | `internal/cache` | compiled modules and failures with a TTL | Get, Put, PutFailure, InvalidateTenant | a run gets its own code; a cached failure heals | Catalog |
| Simulated runtime | `internal/runtime/infrastructure/simulator.go` | closed flag | Compile, Execute, Close | results within the budget, marked if cut; each error is what its class says | Simulator, Sandbox; Close in Gateway |
| Meter | `internal/execution/infrastructure/meter.go` | sums per tenant | Record | the sums are of the results whose write had no error | Sandbox |
| Nodes | `internal/worker/application/nodes.go` | the state of the local node | Drain, Isolate, Stop, Ready | a drained node takes no new request | Gateway |
| HTTP server | `internal/http/router.go`, `middleware.go` | – | one handler per request | checks come before changes | Gateway, Catalog, ResourceManager |
| gRPC stream | `internal/grpcapi/service.go` | – | Execute | a stream ends; what it reports does not go back | Gateway |
| Webhook | `internal/callback/infrastructure/webhook.go` | – | Deliver | three attempts within three seconds, and no success that was none | Webhook, Sandbox |
| Request limiter | `internal/http/middleware.go` | one bucket of tokens for all requests | Allow | no more than the rate is let in, and no less | Limiter, Sandbox |
| Circuit breaker | `internal/resource/domain/circuit.go` | failures, open time | Allow, Success, Failure | no caller in the server | – |

The rest (HTTP and gRPC decoding, configuration, artifact verifier and object
store, audit and validation adapters, authentication, ids, the console)
is pure input and output, pure functions, or has no caller in the server.
`PROJECT.json` lists it with the reason.

### How the parts interact

A request goroutine calls `Submit`: look up the idempotency key, create the
record, save the key, put the payload, enqueue. A worker goroutine takes the id
from the queue, asks the scheduler for a mark, and calls `Run`: load the
record, acquire the lease, register a cancel function, write *running*, read
and compile the module, take the payload, call the runtime, write the outcome,
meter and call back, and, in a deferred function, give everything back. Another
request goroutine calls `Cancel`: load the record, call the cancel function if
there is one, else set a mark and write *canceled*. Each of these steps holds
a lock of its own (store, queue, scheduler, service, manager); no lock spans
two of them. The hard behaviours are therefore

* interleavings of Submit, Run and Cancel of one id, each of which writes a
  copy of the record that it read earlier;
* contexts that end between two steps: of the request, of the run (timeout,
  cancel), of the pool (SIGTERM);
* writes of the state file that fail after the change was made in memory;
* the end of the process between any two steps, and the repair after it;
* the handshake of Enqueue and Dequeue through a channel that drops tokens;
* a shutdown in stages, with requests, streams and workers in the middle of
  something and five seconds for them to leave;
* limits that are compared in an order, at boundaries, with contexts that end
  where nobody looks at them.

`PROJECT.json` lists each hazard with its line and the properties aimed at it.

## 2. Modules

| Module | What it is |
|---|---|
| `JobQueue` | what the queue promises the code around it: each job goes to one consumer, nothing after Shut, waiting jobs are handed out until the consumers are stopped |
| `FairQueue` | the queue as written, with the goroutines that poll it; `ImplementsJobQueue` is its refinement of `JobQueue` |
| `Execution` | Submit, Run and Cancel against store, file, scheduler, leases, contexts, shutdown and crash; uses `JobQueue` as its queue |
| `Lifecycle` | what the execution service promises the code around it about one id: how its record moves, who may make it run, and what no longer comes to run after the signal; `ImplementsLifecycle` is the refinement by `Execution` |
| `Gateway` | HTTP requests, the node, gRPC streams, workers and the stages of the shutdown, over the service as `Lifecycle` |
| `Limiter` | the token bucket |
| `Simulator` | budget, program and what the runtime computes from them, as operators |
| `Webhook` | the attempts of a callback |
| `Sandbox` | one request from limiter to callback: budget, run, error class, meter; composes the three above |
| `ResourceManager` | quotas and leases |
| `Catalog` | modules and their states against store and file, the compile cache, and the part of a run that looks up, compiles and puts |
| `MCFairQueue`, `MCExecution`, `MCResourceManager`, `MCCatalog`, `MCGateway`, `MCSandbox` | constants for TLC |
| `FairQueueProofs`, `ExecutionProofs`, `ResourceManagerProofs`, `CatalogProofs`, `GatewayProofs`, `SandboxProofs` | theorems |
| `SumProofs` | facts about sums over finite sets, for the meter and the manager |

`FairQueue` implements `JobQueue`, and the actions of `Execution` are built with
those of `JobQueue`; `Execution` implements `Lifecycle`, and those of `Gateway` are
built with the actions of `Lifecycle`. So each upper module sees of the lower one what
the lower one is shown to keep. In the other direction, the guards that `JobQueue` has
for its callers hold whenever `Execution` calls (`CallersKeepTheirPart`). There is no
one module in which all of them run together, and no theorem about their
composition: it rests on these steps.

A definition whose comment begins with *mistake* is a slip the code does not
make. It is in no action; `PROJECT.json` pairs it with the definition it would
replace and the property that then fails, so each property is known to be
able to fail.

### FairQueue

| TLA+ | Go |
|---|---|
| `byTenant`, `tenants`, `cursor`, `notify`, `closed` | the fields of `FairQueue`; an absent key of the map is `<<>>` |
| `pc[c]` | a goroutine of the pool: *polling* (about to lock), *waiting* (unlocked, in the select), *working*, *stopped* |
| `Enqueue` | `Enqueue`, with `JoinRing`, `PutLast`, `SendToken` |
| `Take` / `Wait` / `SeeClosed` | the three ways through the locked part of `Dequeue` |
| `Wake` / `SeeDone` | the two ways out of the select |
| `Close`, `CtxDone` | `Close`, the pool's context |

Jobs are opaque. A job is put again only after its worker is done with it, so
a finite set of jobs gives infinite behaviours. `Enqueue` when the tenant's
context or the queue is closed changes nothing and is left to the caller
(`SubmitEnqueue` in `Execution`).

### Execution

| TLA+ | Go |
|---|---|
| `executions`, `idempotency` / `disk` | the maps of the store / the file the last successful write left |
| `queue`, `job`, `stopping`, `closed` | the queue, through `JobQueue`; `stopping`: the signal has come, the pool's context is done |
| `canceled` | the marks of the scheduler |
| `payloads`, `cancels` | `executionPayloadRegistry`, `Service.cancels` |
| `ctx[e]` | the run's context: *live*, *canceled*, *expired*, *over* |
| `leases` | the ids with a lease of the manager |
| `wpc`, `local` | where a worker is in `Pool.loop` and `Run`, and its copy of the record; *dequeue*: about to look into the queue, *waiting*: in the select of `Dequeue`, *drop*: has a lease it will give back because the signal came before it |
| `spc`, `cpc`, `target`, `gone` | where a Submit and a Cancel are, and whether their request's context is done |
| `started`, `reported` | history: calls of the runtime; ids metered and called back |
| `SubmitFind` … `SubmitUndo` | the five locked steps of `Submit` |
| `Dequeue`, `Wait`, `Leave`, `CheckMark` | `Pool.loop`; a worker leaves when the queue is closed, or out of the wait after the signal, even if a job has come meanwhile |
| `Load` … `Release` | the steps of `Run` in their order; `Fail` is `Service.fail`, `Release` the deferred function |
| `CancelLoad` … `CancelWrite` | `Cancel` |
| `Expire`, `Abandon` | the deadline of a run; the end of a request's context |
| `Signal`, `CloseQueue`, `Restart` | SIGTERM, `queue.Close()`, the end of the process at any point and the next start with `RecoverInterrupted` |

The store looks at a context before it waits for its lock (`memory.go:182-185`),
which others hold while they write the file. A context that ends in between does not
stop the write. So `Start` may write *running* whatever the context of the run has
become by then; the run then fails at `Content`, and the failure is written under a
context of its own. Only if the context had ended before the Update, as it has for
a lease taken after the signal, the write fails for sure (*drop*).

Abstractions: a record is its status and error class; output, times, usage and
messages are left out, except the message "canceled before execution", which
is a class of its own because a property reads it. An execution is named by
the request that submits it, as ids are random. Requests that `Submit` turns
down before it creates a record change nothing and are left out. What the
manager decides is a free choice in `Acquire`/`Refuse`; what compiler and
runtime return is a free choice in `Prepare`/`Return`, limited by the context.
The state file is replaced by a rename, so it is always the result of one whole
write; a `Persist` that fails leaves the old one.

### ResourceManager

`quotas[t]` has the limit, the active count, the CPU time used and the age of
the window; `Current` is `quotaLocked`. `leases` and `memory` are the tenant and
the pages of each `tenant.Lease`. `Acquire`, `Release`, `Get` and `Set`
are the methods; `Tick` is the clock. An id is leased only while it holds
no lease: this is the caller's duty, and `CallersKeepTheirPart` of
`ExecutionProofs` shows that the caller keeps it.

### Catalog

| TLA+ | Go |
|---|---|
| `modules` / `disk` | the states in `snapshot.Modules` / in the file; *absent*: not registered |
| `what`, `target`, `seen`, `cpc` | a call, its module, the state of the copy it read, and where it is: *write* between read and write, *clear* before the cache is cleared |
| `items` | the map of the cache; the age of an entry in ticks instead of its expiry |
| `runs`, `rpc`, `compiled` | the module of a run, where it is in `Run`, the compiled module it has |
| `gone`, `cut` | requests and runs whose context is done |
| `later` | history: the states other calls gave the module of a call after its own write |
| `sinceCut` | history: how long ago a compile of this key was last interrupted |
| `Register`, `Read`, `Write`, `Clear` | `Register`; `Publish` and `Withdraw` up to and from `repo.Update`; `withdrawModule` |
| `Recalculate` | `recalculateCache` |
| `Submit`, `Get`, `Compile`, `Store` | the check of `Submit`, then `cache.Get`, `Compile` with `PutFailure`, `cache.Put` in `Run` |
| `Restart` | the end of the process and the next start, with an empty cache |

Content, digest and version of a module never change, so they are functions
of the module; whether a content compiles is fixed by its digest. `Init` is
any file an earlier process can have left. A run is here only what it does
with catalog and cache; its record, lease and contexts are in `Execution`,
whose `Prepare` takes the outcomes of `Get` … `Store` as a free choice.

Store and file: `Execution` and `Catalog` each have one half of the snapshot.
Each write saves both halves, so a write of one may repair a failed write of
the other; in each module the write of another call does the same. A state
file is configured (without one nothing is promised to survive).

### Lifecycle

`record[x]` is the status of a record with the four final ones taken together,
`work[x]` whether its id was not queued, waits, is with a worker, is with one that
will drop it, or is done with; `stopping` and `closed` are the stages of the shutdown
it depends on. It is weaker than a reader of `model.go` may expect: a final record may
become *running* again, because `Cancel` and `Run` write copies they read
earlier. What it does promise is that only the worker that holds the id does
so, that an id is handed out once, that no record is *queued* again, that
nothing is queued or handed out once the queue is closed, and that a job taken
after the signal, or that still waited for its lease then, is *dropped*: it never comes to
run. A worker that had its lease at the signal may still write *running*. In
`Execution`, `RecordOf` and `WorkOf` are the mapping.

### Gateway

| TLA+ | Go |
|---|---|
| `record`, `work` | see Lifecycle |
| `loops`, `idle` | workers in `Pool.loop`; those of them that wait in `Dequeue` |
| `node` | the state of the local node in `NodeRegistry`; no other node is ever registered |
| `phase`, `expired` | where `run` of `main.go` is after the signal; the five seconds are over |
| `pc[h]` | a request: *submit*, *cancel*, *probe* (`readyz`), *drain*, *isolate*, then *checked* (node was ready), *created* (record written), then its answer |
| `pc[s]`, `watched`, `sent`, `gone` | a stream: *open*, *polling*; the id it polls; its last snapshot; its context is done |
| `told`, `late` | history: a drain, isolation or stop is over; requests that came after it |
| `Arrive`, `CheckReady`, `Operate`, `CancelExecution` | middleware and handlers |
| `SubmitFind`, `SubmitCreate`, `SubmitQueue` | `Service.Submit` as its caller sees it |
| `Open`, `Poll`, `Disconnect`, `Hangup` | the stream: received, a tick, the context's case of the select, the client leaves |
| `Take`, `L!Begin`, `Finish`, `Wait`, `LoopEnds` | `Pool.loop` and `Run`; `Take` and `LoopEnds` may be by a worker that waited or by one that did not |
| `Signal` … `Exit`, `Expire` | `run` from the signal to its end |

A request submits at most one execution and is its id. Why a call fails
(limiter, authentication, decoding, a context, a file) is a free choice.

### Limiter, Simulator, Webhook, Sandbox

| TLA+ | Go |
|---|---|
| `tokens`, `last` | the fields of `limiter`; `now` is the clock |
| `Allow`, `Deny` | `Allow` with both results |
| `Normalize`, `Validate` | the methods of `Budget`; only `Validate`'s upper bounds exist |
| `Compiles`, `Compiled` | `Simulator.Compile`: which operations it takes, its defaults |
| `Exceeds`, `Refused`, `LengthsOf`, `Cut`, `Panics`, `Computed` | the parts of `Simulator.Execute` |
| `delivery[x]` | where a `Deliver` is, its attempt, the time it has used; how often the receiver accepted |
| `Post`, `Pause`, `GiveUp` | an attempt, the pause after it, a URL that gives no request |
| `Probe`, `Arrive`, `Submit` | the limiter, and the budget checks of `Submit` |
| `Acquire`, `Compile`, `Execute`, `Wake`, `Save`, `Report` | the stages of `Run`; `Wake` is the select in which the program sleeps |
| `Interrupt` | a cancel, or the deadline |
| `ClassOf` | the switch on the error of `Execute` |
| `stored` | history: executions whose outcome was written without error |
| `up` | false after a panic of a worker, which ends the process |

Time is in ticks that divide a second (limiter) and in units of 50 ms
(webhook); tokens are parts of a token, because the code refills fractions. It
counts them in `float64`, whose rounding is not modelled. Payloads and outputs
are lengths; the CPU time of a result is left out. The steps of `Sandbox` are coarser
than those of `Execution`: how goroutines interleave over a record is there,
what a run computes and tells is here.

## 3. Runs

| Run | Instance | Question |
|---|---|---|
| `FairQueue` | 3 tenants, 5 jobs (2+2+1), 2 workers; close and stop at any time | Is the ring consistent, can a wakeup be lost, do tenants and jobs keep their turn, does the queue implement `JobQueue`, liveness included? |
| `FairQueueRotation` (violation) | 2 tenants, 3 jobs, 1 worker | Is every tenant served? No, see 5. |
| `Execution` | 2 requests with one key, 2 workers, 1 cancel, shutdown | Do leases, cancel functions, workers, payloads and records stay in step, and is what happens to a record what `Lifecycle` promises? |
| `Gateway` | 1 request, 1 drain or isolation, 1 stream, 1 worker, shutdown at any time | Is a drain prompt, does the runtime outlive the last run, do snapshots only advance, do streams and process end? |
| `Sandbox` | 2 executions of 8 kinds, 1 probe, 1 tenant; bucket of one token in two parts, 2 ticks; attempts of 1 s | Is the rate kept in both directions, are results within budget, do classes tell causes, is the meter exact, are three attempts made? |
| `ExecutionRestart` | 2 requests, one with a key, 1 worker, 1 cancel, 1 failed write, 1 end of the process | Is what was answered durable, does a retry find it, is what is settled left alone, is nobody stranded but by the named interruptions, and nothing *running* not even by those? |
| `ExecutionLiveness` | 2 requests with one key, 1 worker, 1 cancel | Does an accepted execution end, where no new requests keep coming? |
| `ExecutionEarly` (violation) | 1 request, 1 worker, 1 cancel | Was an execution that is stored as "canceled before execution" not executed? |
| `ExecutionCancel` (violation) | the same | Does a cancel that succeeds take effect? |
| `ResourceManager` | 2 tenants, 3 leases, 3 limits, window of 2 ticks, runs of at most 2 CPU units and 3 pages | Are counters exact, grants within limits, CPU use kept, the overshoot of CPU time and memory bounded? |
| `Catalog` | 2 tenants, 3 modules (two with the same content, one that does not compile), 2 calls, 2 runs, entries live 1 tick and failures 0, 1 failed write, 1 restart | Do runs get their own code, is what a call acknowledged in the file, is a withdrawal final, do cached failures heal? |
| `CatalogRevival` (violation) | 1 module, 3 calls | Does a withdrawn module stay withdrawn? No, see 5. |

Bounds and why they are enough. In `Execution` ids meet only through the key,
the workers and the process, so two ids cover the idempotency race and a
worker that goes from one id to the next; the request without a key in
`ExecutionRestart` has one write of the file less, so that nothing repairs a failed one; two workers cover two runs at once;
one cancel call meets every step of every other goroutine, and two cancels of
one id write the same record. `MaxFaults` and `MaxRestarts` are the only
counters that are capped, each by a guard; one of each reaches *write fails,
process ends, file is repaired*. In `FairQueue` three tenants are needed for a
cursor that has both a tenant behind and one in front, two jobs for a tenant that stays in
the ring, two workers for one that sleeps while another works. In
`ResourceManager` three leases exceed the slots of two of the three limits, and
the limits go both up and down; some runs ask for more pages than any limit
allows, and three leases at the highest page limit reach the bound. In `Catalog` two tenants share a content and
one has two modules under one version, so `VersionTaken` matters; two calls are enough for
a transition that overtakes another on one module, two runs for one that is
interrupted while another depends on its entry; lives of 1 and 0 ticks tell an
entry that is served, one that is too old, and a failure from a result. The
run that brings a module back needs three calls and nothing else. In `Gateway` requests meet only through a record, the
node and the shutdown: the request and the stream may have one execution (the stream finds
that of the request), and one of the two can have the worker while the other
waits. In `Sandbox` the eight kinds of request are one per way through budget and runtime: defaults and a callback;
an output cut in the middle of a repetition; a trap; a limit that is too small
for a program that sleeps; a limit that is just enough with a negative
output limit; a budget above that of the service; an output that does not fit, after a sleep
(`MaxLength` stands for the address space); an unknown operation. Two ticks with a token of two parts
reach a refused request that keeps half a token, and idle time that must not be
saved up; attempts of a full second are the
worst case: with the pauses between them the third is cut off at the end of the three
seconds, and shorter ones, which the proof covers, only leave more time. `MaxTime` is the only
counter that is capped. The proofs of section 4 remove these bounds
for the safety properties.

Deadlock is not checked for the queue, the executions and the catalog: all
requests and runs may have ended and the pool may have stopped; nor for the
gateway and the sandbox, whose process exits or panics. It is checked
for the manager.

### Fairness

`FairQueue!Fairness` and `Execution!Fairness` ask weak fairness of each
goroutine that has begun: the Go scheduler runs what can run, no lock is held
across a wait, and the runtime returns because it looks at its context, which
has a deadline (`service.go:112`, `simulator.go`). It is not asked that somebody sends a
request, sends SIGTERM or closes the queue; nor that a write succeeds, a
deadline passes or the process ends. `Work(w)` is one fair action per worker,
as a worker never has a choice it could refuse for ever: its alternatives are
decided by others or by the outcome of a call.

`Gateway!Fairness` asks that the shutdown goes on once it has begun, that the
five seconds pass, that workers leave when the queue tells them, that a run
returns (its context ends with the pool's, and has a deadline before that), and
that a polling stream sees its next tick or the end of its context. Nothing is asked of
clients: bodies may never be sent, and a client may neither hang up nor go on.
That is why `ShutdownEnds` rests on `expired` and not on requests that end.
`Sandbox` states no fairness and no liveness.

### Properties

* **FairQueue.** `RingOK`: ring and lists name the same tenants, once, and the
  cursor is at most one past the end. `NoLostWakeup`: a worker cannot sleep
  through work although `Enqueue` drops its token when one is there.
  `UpcomingKeepTurn`: a tenant the cursor has not passed moves up with each
  service and is never pushed back. `TenantFifo`: first in, first out per
  tenant. `ImplementsJobQueue`: the refinement.
* **Execution.** `LeasesMatchRuns`: no way out of `Run` leaks or doubles a
  lease or cancel function. `OneWorkerPerJob`, `ExecutedAtMostOnce`.
  `PayloadWaitsForRun`. `ReportedIsDurable`: an outcome that was metered and
  called back is final in the file. `AcceptedIsDurable`: an
  id that was returned is in the file, and if the request had a key, a retry finds an
  execution: in the same process always, after a crash unless a write failed,
  although `SaveIdempotency` saves nothing for an ended request and its error is dropped.
  `KeysPointToRecords`: a key leads to a record that exists and was submitted with it.
  `SettledIsFinal`: once the calls that read an older copy have ended, nothing
  changes a final record or runs it. `StrandedOnlyWhenInterrupted`: a *queued*
  record has somebody who will close it, apart from the named causes (failed
  write, ended request, ended context, shutdown); a *running* one has its worker
  whatever ends, unless a write failed. `AcceptedEnds`: the same as
  liveness, for finitely many requests; it does not say that a job is served while
  other tenants keep coming, which `FairQueueRotation` refutes.
  `ImplementsLifecycle`: the refinement, with what it says of the shutdown.
* **Gateway.** `DrainIsPrompt`: once a drain was answered, what comes later is
  neither accepted nor told that the node is ready, however drain, isolation and
  stop overlap. `RuntimeClosedLast`: no run is failed by a closed runtime.
  `SnapshotsAdvance`: no stream goes back to *queued*, whatever cancels, runs
  and other requests do to the record between two ticks. `ShutdownEnds`: the
  process ends after the signal, with requests that never end and streams that
  watch a record nobody will close. `StreamsEnd`: a stream ends with its client
  and with its execution.
* **Sandbox.** `RateKept`: each stretch of time lets in at most a full
  bucket and what flows in meanwhile (`NoneTooMany`), and a request is refused only
  if some stretch up to now would have more with it (`NoneTooFew`), so that the requests
  refused in between lose nothing of the rate. `ResultWithinBudget`: what succeeded
  needed no more than it was granted, and its output is complete or marked.
  `ClassMatchesCause`: the class of an outcome is that of its cause, although
  limits, cancel and deadline may all apply. `MeterIsExact`: what is metered is
  what was written without error, apart from what is on its way from the write to the
  meter; a result whose write failed is not metered. `DeliveriesAreHonest`: no delivery gives up with attempts
  left, and none succeeds that no receiver accepted.
* **ResourceManager.** `ActiveCountsLeases`: the counter of a tenant is the
  number of its leases. `OvershootIsBounded`: neither the CPU time of a window nor
  the pages held are kept within the limit by the checks, but both are bounded through
  the slots. `GrantedWithinSlots`: no grant beyond the limit in force.
  `UsageKeptInWindow`: CPU time is not given back early.
* **Catalog.** `RunsOwnCode`: what a run executes was compiled from its module
  for its tenant, whatever others put, cleared or let expire.
  `AcknowledgedIsDurable`: after a call that returned without error, a `Withdraw`
  too, the file has the state it gave its module, or one that another call gave it
  later.
  `WithdrawalIsFinal`: a withdrawn module stays so, across restarts too, once
  the calls that read it earlier have ended. `FailuresHeal`: the failure that
  an interrupted compile leaves for others is gone when its life is over.

## 4. Proofs

Everything is proved for arbitrary constants that satisfy the `ASSUME` of the
module: any tenants, jobs, workers, requests, keys, cancels, any bounds on
faults and restarts, any limits.

| Theorem | Shows |
|---|---|
| `FairQueueProofs!QueueIsSafe` | `TypeOK`, `RingOK` and `NoLostWakeup` always hold |
| `FairQueueProofs!QueueImplementsJobQueue` | the safety half of the refinement |
| `FairQueueProofs!JobsKeepTheirOrder`, `TenantsKeepTheirTurn` | the action properties `TenantFifo` and `UpcomingKeepTurn` |
| `ExecutionProofs!RunsAreExclusive` | `TypeOK`, `LeasesMatchRuns`, `OneWorkerPerJob`, `ExecutedAtMostOnce` |
| `ExecutionProofs!PayloadsWait` | `PayloadWaitsForRun` |
| `ExecutionProofs!AnswersAreDurable` | `ReportedIsDurable`, `AcceptedIsDurable`, `KeysPointToRecords` |
| `ExecutionProofs!NobodyIsStranded` | `StrandedOnlyWhenInterrupted` |
| `ExecutionProofs!SettledStaysFinal` | the action property `SettledIsFinal` |
| `ExecutionProofs!ServiceImplementsLifecycle` | the whole refinement of `Lifecycle`, its shutdown included; it has no liveness |
| `ExecutionProofs!RetriesFind` | a retry after an accepted answer takes the way *found* and creates nothing |
| `ExecutionProofs!CallersKeepTheirPart` | the service calls queue and manager only where their models have the guard for it |
| `ExecutionProofs!LoadIsBounded` | all tenants together hold no more leases than there are workers |
| `GatewayProofs!GatewayIsSafe` | `TypeOK`, `DrainIsPrompt`, `RuntimeClosedLast` |
| `GatewayProofs!SnapshotsOnlyAdvance` | the action property `SnapshotsAdvance` |
| `SandboxProofs!RateIsKept` | `RateKept` |
| `SandboxProofs!DeliveriesTry` | `DeliveriesAreHonest` |
| `SandboxProofs!OutcomesAreTrue` | `TypeOK`, `ResultWithinBudget`, `ClassMatchesCause` |
| `SandboxProofs!MeterAddsUp` | `MeterIsExact` |
| `ResourceManagerProofs!ManagerIsSafe`, `GrantsStayWithinSlots`, `UsageIsKept` | the invariants and the two action properties of the manager |
| `CatalogProofs!CatalogIsSafe` | `TypeOK`, `RunsOwnCode`, `AcknowledgedIsDurable` |
| `CatalogProofs!WithdrawnForGood`, `FailuresPass` | the action properties `WithdrawalIsFinal`, `FailuresHeal` |

**FairQueue.** `RingOK` is inductive with the types alone once "the tenant at
the cursor has a job" is a lemma. `NoLostWakeup` is inductive by itself: a step
that takes the token makes its worker a polling one, a step that lets a worker
wait has seen an empty ring, and each job that enters the ring sends a token.
The refinement needs one fact more: a job in a tenant's list is that tenant's,
stands in it once and is held by no worker, so that removing the head of one
list removes exactly one job from the union. The two orders are proved step by
step from the same facts: positions in a list and in the ring are unique, so
`Enqueue`, which only appends, moves nobody, and `Dequeue`, which removes one head or one
tenant, moves those behind it by one and the cursor with them.

**Execution.** None of the safety properties is inductive. `Inv` is built in
layers, each proved with the ones below as hypotheses: `Typed` (types);
`Owned` (which worker holds which job, where, and that an id is queued or held
only after its Submit queued it); `Begun` (what `started` may be at each stage);
`Supplied` (who still has to put or take the payload); `LeasesMatchRuns`; `Filed`
(which copies of a record, in memory and in the file, exist at each stage of
Submit, Run and Cancel); `Attended` (for an open record that is not
interrupted, who will write it next); `LoadedOpen` (a run goes on only with
a copy that was open); `KeysKept` (from `SaveIdempotency` on, a request with a key
that is not gone has its key in memory, and in the file unless a write failed:
this is why a request that saved nothing must not be accepted, and `scheduler.Submit`
refuses it because the same context is done); and `RunningIsManned` (unless a write
failed, a *running* record has a worker between the write of *running* and
that of the outcome, which no context stops). Each layer has one step per action.
`Restart` keeps every layer because it drops what belonged to the old process and `Recovered`
closes each open record. The refinement of `Lifecycle` needs one fact more,
that a cancel call works on a record that exists (`SeenExists`); with it a
write of any copy is a `Settle` or a `Begin`, and `Begin` is by the worker that
holds the id because of `Owned`.

`JobQueue`, `FairQueue` and `ResourceManager` have guards the code does not check: an
id put once, a lease taken once. `CallersKeepTheirPart` shows that they hold at each
call, so that they hide no step of the service. What the shutdown promises is part
of `Lifecycle` and so of its refinement: the mapping makes a job *dropped* from the signal
on while it has no lease, and the proof shows that no write of *running* follows,
although the store looks at the context too early to be relied on.

**Gateway.** `Inv` adds three parts to the types (which include that there are no more
runs than workers in their loop). `Closing`: in the last stages no loop is
left. `Draining`: after an answered drain the node is not ready, and a request that
came later is not past the check; inductive because no operation of the
registry leads back to *ready*. `Watching`: a stream that reported a record as
begun watches one that has begun; it holds because `Lifecycle` never goes back
to *queued*. `SnapshotsAdvance` follows from the last. Finite sets come in with
`Busy`, which loses or gains one member per step.

**Sandbox.** The parts do not disturb each other, so each has its own
invariant. `Flow`: for each request let in, those let in since and the tokens left
came out of a full bucket and what flowed in since; `NoneTooMany` is this
without the tokens. `NoLoss`: the bucket is full, or for some request let in this is an
equation: the one that followed the last time it was full. `NoneTooFew` follows,
since a bucket with too little for one token is not full. `Delivering`: the time used by attempt *n* is at most *n - 1*
full attempts and the pauses, so the third always begins. `RunOK`: what each stage of
one execution knows, e.g. that a program that got past the limits exceeds none, and
that a result with an end of the context comes from the sleep of a program and
from the end its context really had. It also ties `stored` to the stages that follow a write without
error. `Metered`: the sums are those of the results reported
so far. `MeterIsExact` states them with a recursion over a set, in an order nobody
chose; `SumProofs` replaces it by the number of *units*, the pairs of
an execution and a number from 1 to its result, which grows by the units
of one execution when that is reported. That the recursion counts
the units is shown by a smallest subset for which it would not: the library's
induction cannot be instantiated here, its theorem about minimal elements can.

**ResourceManager.** `ActiveCountsLeases` needs that adding or removing one
lease changes the cardinality by one (hence `IsFiniteSet(LeaseIDs)`), and
`OvershootIsBounded` then follows from the order in `Acquire`: at a grant the
tenant has used less than its limit and holds fewer leases than its slots, and
every later release moves at most `RunCPU` from the second term into the first.
For the memory, each lease was within the highest page limit when it was granted
(`PagesFit`), there are at most `SlotCap` of them (`SlotsFit`), and a sum of so many such
terms is at most their product (`UnitsAtMost` of `SumProofs`).

**Catalog.** `Inv` has four layers. `Typed`: types, and that the copy a call
read accepts its transition. `Filed`: for each acknowledged call, memory and file each
have the state it gave its module or one in `later`; the file alone is not
inductive, because a write by another call takes what is in memory to it. `OwnCode`: an entry holds the code its key names, and so does
a run between compile and execution. `Traced`: a failure entry of a content
that compiles is no younger than the last interrupted compile of its key,
so that its own age bounds how long it is served.

Every safety property of the runs that pass is proved. Only model-checked are
the liveness properties `AcceptedEnds`, `ShutdownEnds`, `StreamsEnd` and the second
half of `ImplementsJobQueue`, which need ENABLED and fairness. `RetryFinds`,
`CallsFit` and `LoadFitsPool`, which the theorems of
`ExecutionProofs` state, are proved and in no run.

## 5. Where the code does something else than it says

* `FairQueueRotation`: README.md:28 promises rotation. When a tenant's last
  job is taken the tenant leaves the ring and the cursor stays; a tenant that
  comes back is appended. If it stood last it lands on the cursor again, and a tenant in front
  of the cursor waits as long as this goes on.
* `ExecutionEarly`: `Cancel` writes the copy it read at its start. A worker
  that starts and finishes the run between the look-up of the cancel function
  and this write has its outcome replaced by "canceled before execution"
  (`service.go:203-220`).
* `CatalogRevival`: `Publish` and `Withdraw` write back a copy under a lock of
  their own. Two `Publish` calls read the draft, one writes, a `Withdraw`
  follows, and the other `Publish` writes *published* again
  (`module/application/service.go:35-47`), although `model.go:104-116` has no way
  out of *withdrawn*.
* `ExecutionCancel`: a cancel (or deadline) between the registration of the
  cancel function and the write of *running* makes this write fail, and `Run`
  returns without another (`service.go:113-129`). The job has left the queue;
  the record stays *queued* until the next start repairs it.

The properties of section 3 leave these out by what they say: `StrandedOnlyWhenInterrupted`
and `AcceptedEnds` name the interruption (`Interrupted`), `SettledIsFinal` and
`WithdrawalIsFinal` wait until the late call has ended. No property promises that an
execution ends while other tenants keep submitting: `AcceptedEnds` is about
finitely many requests, where a tenant that takes the cursor's place runs out of jobs.

Met while modelling, in the model as the code has it, without a run of its own:

* A gRPC stream submits without a look at the node, so a drained node goes on
  taking executions from streams; only HTTP answers "node is not accepting
  executions" (`router.go:149-152`, `grpcapi/service.go:39`). A request that was checked
  before a drain may be accepted after it.
* A stream whose client leaves need not cancel: if the tick is picked first,
  `Get` under the ended context returns the error and the stream ends
  (`grpcapi/service.go:53-60`).
* Each error of `Submit`, a failed write too, is *InvalidArgument* to a stream
  (`grpcapi/service.go:39-42`).
* `Isolate` after `Stop` overwrites *stopped*; neither is ready.
* The first snapshot of an execution that was found by its key may be final and
  the next one *running*, see `ExecutionEarly`.
* `Validate` bounds a budget from above only. A negative output limit, or an
  output that does not fit after its repetition, panics in a worker, which
  nobody recovers (`simulator.go:146-151`, `model.go:71-88`).
* A run that is refused for its instructions is metered with what it would
  have cost; runs refused for memory or stack with nothing. A run that ends in
  `fail` (quota, compile) is neither metered nor called back.
* A deadline that passes while the module is compiled is a *runtime* or *invalid*
  error; README.md:28 tells timeouts and traps apart. `ClassMatchesCause` speaks
  of runs that reach the runtime.
* Once the module is compiled, the runtime looks at a cancel or deadline only
  while the program sleeps; one that does not sleep computes its result after its
  deadline (`simulator.go:113-121`).
* `Submit` does not look at the callback URL; one that gives no request is
  given up without a word.
* The limiter stands before the authentication and has one bucket, so health
  probes spend the tokens of executions.

## 6. Plan

Done: `JobQueue`, `FairQueue`, `Execution`, `Lifecycle`, `ResourceManager`,
`Catalog`, `Gateway`, `Limiter`, `Simulator`, `Webhook`, `Sandbox`, their proofs. Left,
in this order:

1. The composition of `Execution` with `ResourceManager` and with the cache of
   `Catalog`, whose decisions are free choices of `Execution` now.
2. What holds of entries that are put after the clearing of a withdrawal, of
   the two requests of one key that race, of payloads that outlive their job, and
   of marks that are never removed.
3. A bound on the overshoot of the meter's CPU time, once results carry it.

## 7. Not modelled

Formatting, logging, HTTP and gRPC decoding and the console change no state of
the core; that they may turn a request down is a free choice. The configuration
is read once at start, its values are constants here. The artifact verifier is a
pure comparison; the object store, the audit log, the tenant service, the
runtime registry, the circuit breaker and the retry policy have no caller in
the server, so a model could say nothing about how they are used. The gRPC client is a
command-line program without state. Ids are fresh by assumption: they are
random. CPU time is left out of results and meter; the manager's accounting of
it is in `ResourceManager`. The gRPC health status follows the node and is left out.
