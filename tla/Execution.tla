------------------------------ MODULE Execution ------------------------------
(***************************************************************************)
(* The life of an execution: the execution service                         *)
(* (src/internal/execution/application/service.go) with what it shares     *)
(* between the goroutines of a request, of a worker and of a cancel call:  *)
(* the store and its state file (src/internal/store/memory.go), the queue  *)
(* and the marks of the scheduler (src/internal/queue), the worker pool    *)
(* (src/internal/worker/application/pool.go), the leases, the registry of  *)
(* cancel functions and the payloads; and the shutdown, crash and restart  *)
(* of the process (src/cmd/server/main.go).                                *)
(*                                                                         *)
(* Each action is one stretch of a goroutine that no other goroutine can   *)
(* see half done: one call under the lock of the store, the queue, the     *)
(* scheduler or the service.  The store looks at a context before it waits *)
(* for its lock, so a worker may write after the signal, a cancel or the   *)
(* deadline that it did not see; for the context of a request this is the  *)
(* same as if the context ended after the write.                           *)
(*                                                                         *)
(* An execution is named by the request that submits it, since ids are     *)
(* drawn at random: request e creates record e or none.  Modules are       *)
(* published and owned by the tenant; a request that Submit turns down     *)
(* before it creates a record changes nothing.                             *)
(*                                                                         *)
(* A definition marked "mistake" is a slip the code does not make; it is   *)
(* in no action, and stands next to the definition it would replace.       *)
(***************************************************************************)
EXTENDS Integers, FiniteSets

CONSTANTS
    Execs,        \* ids of executions, and the requests that submit them
    Keys,         \* tenant:idempotency_key
    NoKey,        \* a request without idempotency key
    KeyOf,        \* the key of a request
    Workers,      \* the goroutines of the pool
    Cancels,      \* calls of Service.Cancel, one per request
    NoExec,
    MaxFaults,    \* bound: failures to write the state file
    MaxRestarts   \* bound: ends of the process

VARIABLES
    executions,   \* the records in memory; NoRecord for an unknown id
    idempotency,  \* the execution a key points to, or NoExec
    disk,         \* the records and keys in the state file
    queue, job, stopping, closed,   \* see JobQueue; stopping: the pool's context is done
    canceled,     \* the marks of the scheduler
    payloads,     \* ids in executionPayloadRegistry
    cancels,      \* ids in the registry of cancel functions
    ctx,          \* the context of the run of an id
    leases,       \* ids that hold a lease
    wpc, local,   \* where a worker is, and the record e it works on
    spc,          \* where the submission of an id is
    cpc, target,  \* where a cancel call is, and the id it is for
    gone,         \* requests whose context is done (timeout, client gone)
    started,      \* history: how often the runtime was called for an id
    reported,     \* history: ids metered and called back
    faults, restarts

storeVars == <<executions, idempotency, disk, faults>>
queueVars == <<queue, job, stopping, closed>>
runVars == <<payloads, cancels, ctx, leases>>
workerVars == <<wpc, local>>
requestVars == <<spc, cpc, target, gone>>
historyVars == <<started, reported, restarts>>
vars == <<storeVars, queueVars, canceled, runVars, workerVars, requestVars, historyVars>>

Q == INSTANCE JobQueue WITH
        Jobs <- Execs, Consumers <- Workers, NoJob <- NoExec,
        pending <- queue, taken <- job

ExecutionAssumption ==
    /\ NoExec \notin Execs
    /\ NoKey \notin Keys
    /\ KeyOf \in [Execs -> Keys \cup {NoKey}]
    /\ Execs \cap Cancels = {}
    /\ MaxFaults \in Nat
    /\ MaxRestarts \in Nat

ASSUME ExecutionAssumption

(***************************************************************************)
(* Records.  class is the ErrorClass; "early" is class canceled with the   *)
(* message "canceled before execution", the one message a property reads.  *)
(***************************************************************************)
TerminalStatus == {"succeeded", "failed", "canceled", "timed_out"}
Status == {"absent", "queued", "running"} \cup TerminalStatus
Classes == {"none", "invalid", "resource", "runtime", "timeout", "canceled",
            "unavailable", "early"}
Records == [status : Status, class : Classes]

Rec(s, c) == [status |-> s, class |-> c]
NoRecord == Rec("absent", "none")
Exists(r) == r.status # "absent"
TerminalButCanceled(r) ==  \* mistake: one status forgotten
    r.status \in {"succeeded", "failed", "timed_out"}
Terminal(r) == r.status \in TerminalStatus

\* mistake: a status nobody knows
OutcomesMisspelt(c) == {Rec("succeeded", "none"), Rec("timeout", "timeout")}

\* what Run can make of the result of the runtime (service.go:157-176)
Outcomes(c) ==
    {Rec("succeeded", "none"), Rec("failed", "resource"), Rec("failed", "runtime")}
    \cup (IF c = "canceled" THEN {Rec("canceled", "canceled")} ELSE {})
    \cup (IF c = "expired" THEN {Rec("timed_out", "timeout")} ELSE {})

(***************************************************************************)
(* The store.  Each change writes the whole state to the file.  When that  *)
(* fails the caller gets an error, the change stays in memory, and a later *)
(* write takes it to the file.                                             *)
(***************************************************************************)
PersistKeysOnly(ok) ==  \* mistake: the records are left out
    disk' = [disk EXCEPT !.idempotency = idempotency'] /\ UNCHANGED faults

Persist(ok) ==
    IF ok THEN /\ disk' = [executions |-> executions', idempotency |-> idempotency']
               /\ UNCHANGED faults
          ELSE /\ faults < MaxFaults
               /\ faults' = faults + 1
               /\ UNCHANGED disk

\* CreateExecution and UpdateExecution, the context not done
Put(e, r, ok) ==
    /\ executions' = [executions EXCEPT ![e] = r]
    /\ UNCHANGED idempotency
    /\ Persist(ok)

\* RecoverInterrupted
Recovered(r) ==
    IF r.status \in {"queued", "running"} THEN Rec("failed", "unavailable") ELSE r

(***************************************************************************)
(* Initial state                                                           *)
(***************************************************************************)
Init ==
    /\ executions = [e \in Execs |-> NoRecord]
    /\ idempotency = [k \in Keys |-> NoExec]
    /\ disk = [executions |-> executions, idempotency |-> idempotency]
    /\ Q!Init
    /\ canceled = {}
    /\ payloads = {}
    /\ cancels = {}
    /\ ctx = [e \in Execs |-> "none"]
    /\ leases = {}
    /\ wpc = [w \in Workers |-> "dequeue"]
    /\ local = [w \in Workers |-> NoRecord]
    /\ spc = [e \in Execs |-> "new"]
    /\ cpc = [k \in Cancels |-> "new"]
    /\ target = [k \in Cancels |-> NoExec]
    /\ gone = {}
    /\ started = [e \in Execs |-> 0]
    /\ reported = {}
    /\ faults = 0
    /\ restarts = 0

-----------------------------------------------------------------------------
(***************************************************************************)
(* Service.Submit                                                          *)
(***************************************************************************)
SubmitTo(e, next) == spc' = [spc EXCEPT ![e] = next]

\* the record FindIdempotency returns, if it finds one
Known(e) ==
    /\ e \notin gone
    /\ KeyOf[e] # NoKey
    /\ idempotency[KeyOf[e]] # NoExec
    /\ Exists(executions[idempotency[KeyOf[e]]])

SubmitFind(e) ==
    /\ spc[e] = "new"
    /\ \/ Known(e) /\ SubmitTo(e, "found")
       \/ ~Known(e) /\ SubmitTo(e, "create")
    /\ UNCHANGED <<storeVars, queueVars, canceled, runVars, workerVars,
                   cpc, target, gone, historyVars>>

\* repo.Create; its error ends the request
CreatedAnyway(ok) == "save"  \* mistake: the error is dropped
AfterCreate(ok) == IF ok THEN "save" ELSE "refused"

SubmitCreate(e) ==
    /\ spc[e] = "create"
    /\ \/ /\ e \in gone
          /\ SubmitTo(e, "refused")
          /\ UNCHANGED storeVars
       \/ /\ e \notin gone
          /\ \E ok \in BOOLEAN :
                /\ Put(e, Rec("queued", "none"), ok)
                /\ SubmitTo(e, AfterCreate(ok))
    /\ UNCHANGED <<queueVars, canceled, runVars, workerVars,
                   cpc, target, gone, historyVars>>

\* repo.SaveIdempotency, whose errors are dropped, and payloads.put
SubmitSave(e) ==
    /\ spc[e] = "save"
    /\ IF e \in gone \/ KeyOf[e] = NoKey
       THEN UNCHANGED storeVars
       ELSE /\ idempotency' = [idempotency EXCEPT ![KeyOf[e]] = e]
            /\ UNCHANGED executions
            /\ \E ok \in BOOLEAN : Persist(ok)
    /\ payloads' = payloads \cup {e}
    /\ SubmitTo(e, "enqueue")
    /\ UNCHANGED <<queueVars, canceled, cancels, ctx, leases, workerVars,
                   cpc, target, gone, historyVars>>

\* scheduler.Submit
SubmitEnqueue(e) ==
    /\ spc[e] = "enqueue"
    /\ \/ /\ e \notin gone
          /\ Q!Put(e)
          /\ SubmitTo(e, "accepted")
       \/ /\ e \in gone \/ closed
          /\ SubmitTo(e, "undo")
          /\ UNCHANGED queueVars
    /\ UNCHANGED <<storeVars, canceled, runVars, workerVars,
                   cpc, target, gone, historyVars>>

\* the Update after a failed scheduler.Submit, whose error is dropped
SubmitUndo(e) ==
    /\ spc[e] = "undo"
    /\ \/ e \in gone /\ UNCHANGED storeVars
       \/ e \notin gone /\ \E ok \in BOOLEAN : Put(e, Rec("failed", "unavailable"), ok)
    /\ SubmitTo(e, "refused")
    /\ UNCHANGED <<queueVars, canceled, runVars, workerVars,
                   cpc, target, gone, historyVars>>

Submit(e) ==
    SubmitFind(e) \/ SubmitCreate(e) \/ SubmitSave(e) \/ SubmitEnqueue(e) \/ SubmitUndo(e)

-----------------------------------------------------------------------------
(***************************************************************************)
(* Pool.loop and Service.Run                                               *)
(***************************************************************************)
WorkerTo(w, next) == wpc' = [wpc EXCEPT ![w] = next]

\* mistake: the job stays in the queue
DequeuePeek(w) ==
    /\ wpc[w] \in {"dequeue", "waiting"} /\ ~closed
    /\ \E e \in queue : job' = [job EXCEPT ![w] = e]
    /\ WorkerTo(w, "check")
    /\ UNCHANGED <<storeVars, queue, stopping, closed, canceled, runVars, local,
                   requestVars, historyVars>>

\* queue.Dequeue hands over a job, at once or after a wait
Dequeue(w) ==
    /\ wpc[w] \in {"dequeue", "waiting"}
    /\ \E e \in Execs : Q!Take(w, e)
    /\ WorkerTo(w, "check")
    /\ UNCHANGED <<storeVars, canceled, runVars, local, requestVars, historyVars>>

\* queue.Dequeue finds nothing and waits
Wait(w) ==
    /\ wpc[w] = "dequeue"
    /\ ~closed /\ queue = {}
    /\ WorkerTo(w, "waiting")
    /\ UNCHANGED <<storeVars, queueVars, canceled, runVars, local, requestVars, historyVars>>

\* Dequeue returns an error and the loop ends: the queue is closed, or the
\* context is done in the wait, also when a job has come in the meantime
MayLeaveIdle(w) == queue = {}  \* mistake: an empty queue ends the loop
MayLeave(w) == closed \/ (stopping /\ wpc[w] = "waiting")

Leave(w) ==
    /\ wpc[w] \in {"dequeue", "waiting"}
    /\ MayLeave(w)
    /\ WorkerTo(w, "stopped")
    /\ UNCHANGED <<storeVars, queueVars, canceled, runVars, local, requestVars, historyVars>>

\* scheduler.Canceled: a marked job is dropped, and the mark with it
CheckMark(w) ==
    /\ wpc[w] = "check"
    /\ canceled' = canceled \ {job[w]}
    /\ IF job[w] \in canceled
       THEN WorkerTo(w, "dequeue") /\ Q!Finish(w)
       ELSE WorkerTo(w, "load") /\ UNCHANGED queueVars
    /\ UNCHANGED <<storeVars, runVars, local, requestVars, historyVars>>

\* repo.Get, under the pool's context; a record that is final ends Run
Load(w) ==
    /\ wpc[w] = "load"
    /\ local' = [local EXCEPT ![w] = executions[job[w]]]
    /\ \/ /\ stopping \/ Terminal(executions[job[w]])
          /\ WorkerTo(w, "dequeue") /\ Q!Finish(w)
       \/ /\ ~Terminal(executions[job[w]])
          /\ WorkerTo(w, "acquire") /\ UNCHANGED queueVars
    /\ UNCHANGED <<storeVars, canceled, runVars, requestVars, historyVars>>

\* modules.Get or resources.Acquire refuses: the quota, or the pool's context,
\* under which the failure is not written either
Refuse(w) ==
    /\ wpc[w] = "acquire"
    /\ local' = [local EXCEPT ![w] = Rec("failed", "resource")]
    /\ IF stopping
       THEN WorkerTo(w, "dequeue") /\ Q!Finish(w)
       ELSE WorkerTo(w, "fail") /\ UNCHANGED queueVars
    /\ UNCHANGED <<storeVars, canceled, runVars, requestVars, historyVars>>

\* mistake: the context of the run is not made from the pool's
AcquireDetached(w) ==
    LET e == job[w] IN
    /\ wpc[w] = "acquire"
    /\ leases' = leases \cup {e}
    /\ cancels' = cancels \cup {e}
    /\ ctx' = [ctx EXCEPT ![e] = "live"]
    /\ WorkerTo(w, "start")
    /\ UNCHANGED <<storeVars, queueVars, canceled, payloads, local, requestVars, historyVars>>

\* resources.Acquire grants the lease (ResourceManager has the rule); the
\* context of the run is made and its cancel function registered.  After the
\* signal, which Acquire may have missed, the Update that follows fails for
\* sure, and Run gives all of it back.
Acquire(w) ==
    LET e == job[w] IN
    /\ wpc[w] = "acquire"
    /\ leases' = leases \cup {e}
    /\ cancels' = cancels \cup {e}
    /\ ctx' = [ctx EXCEPT ![e] = IF stopping THEN "canceled" ELSE "live"]
    /\ WorkerTo(w, IF stopping THEN "drop" ELSE "start")
    /\ UNCHANGED <<storeVars, queueVars, canceled, payloads, local, requestVars, historyVars>>

\* the Update to running.  On its error Run returns without a further write.
\* When the context ended after the Update had looked at it, the record is
\* running, and modules.Content fails.
AfterStart(w, ok) ==
    LET live == ctx[job[w]] = "live" IN
    /\ WorkerTo(w, IF ~ok THEN "release" ELSE IF live THEN "prepare" ELSE "fail")
    /\ local' = [local EXCEPT ![w] =
                    IF ok /\ ~live THEN Rec("failed", "invalid") ELSE Rec("running", "none")]

Start(w) ==
    /\ wpc[w] = "start"
    /\ \/ /\ ctx[job[w]] # "live"
          /\ AfterStart(w, FALSE)
          /\ UNCHANGED storeVars
       \/ \E ok \in BOOLEAN :
             /\ Put(job[w], Rec("running", "none"), ok)
             /\ AfterStart(w, ok)
    /\ UNCHANGED <<queueVars, canceled, runVars, requestVars, historyVars>>

\* modules.Content, cache.Get, runtime.Compile and cache.Put.  Each of them
\* looks at the context; Content's error is reported as invalid, the others
\* as a runtime error, which a bad module yields as well.
Prepare(w) ==
    /\ wpc[w] = "prepare"
    /\ \/ /\ ctx[job[w]] = "live"
          /\ WorkerTo(w, "execute")
          /\ UNCHANGED local
       \/ /\ \E class \in {"invalid", "runtime"} :
                /\ class = "invalid" => ctx[job[w]] # "live"
                /\ local' = [local EXCEPT ![w] = Rec("failed", class)]
          /\ WorkerTo(w, "fail")
    /\ UNCHANGED <<storeVars, queueVars, canceled, runVars, requestVars, historyVars>>

\* payloads.take and the call of runtime.Execute
Execute(w) ==
    LET e == job[w] IN
    /\ wpc[w] = "execute"
    /\ payloads' = payloads \ {e}
    /\ started' = [started EXCEPT ![e] = @ + 1]
    /\ WorkerTo(w, "running")
    /\ UNCHANGED <<storeVars, queueVars, canceled, cancels, ctx, leases, local,
                   requestVars, reported, restarts>>

\* runtime.Execute returns
Return(w) ==
    /\ wpc[w] = "running"
    /\ \E r \in Outcomes(ctx[job[w]]) : local' = [local EXCEPT ![w] = r]
    /\ WorkerTo(w, "commit")
    /\ UNCHANGED <<storeVars, queueVars, canceled, runVars, requestVars, historyVars>>

\* the Update with the result, under a context of its own
ReportAnyway(ok) == "report"  \* mistake: the error is dropped
AfterCommit(ok) == IF ok THEN "report" ELSE "release"

Commit(w) ==
    /\ wpc[w] = "commit"
    /\ \E ok \in BOOLEAN :
          /\ Put(job[w], local[w], ok)
          /\ WorkerTo(w, AfterCommit(ok))
    /\ UNCHANGED <<queueVars, canceled, runVars, local, requestVars, historyVars>>

\* meter.Record and the start of the callback
Report(w) ==
    /\ wpc[w] = "report"
    /\ reported' = reported \cup {job[w]}
    /\ WorkerTo(w, "release")
    /\ UNCHANGED <<storeVars, queueVars, canceled, runVars, local, requestVars,
                   started, restarts>>

\* mistake: always under the pool's context
FailUnderPool(w) ==
    /\ wpc[w] = "fail"
    /\ \/ stopping /\ UNCHANGED storeVars
       \/ \E ok \in BOOLEAN : Put(job[w], local[w], ok)
    /\ IF job[w] \in leases
       THEN WorkerTo(w, "release") /\ UNCHANGED queueVars
       ELSE WorkerTo(w, "dequeue") /\ Q!Finish(w)
    /\ UNCHANGED <<canceled, runVars, local, requestVars, historyVars>>

\* Service.fail: under the pool's context before the lease, else under its own
Fail(w) ==
    LET e == job[w] IN
    /\ wpc[w] = "fail"
    /\ \/ e \notin leases /\ stopping /\ UNCHANGED storeVars
       \/ \E ok \in BOOLEAN : Put(e, local[w], ok)
    /\ IF e \in leases
       THEN WorkerTo(w, "release") /\ UNCHANGED queueVars
       ELSE WorkerTo(w, "dequeue") /\ Q!Finish(w)
    /\ UNCHANGED <<canceled, runVars, local, requestVars, historyVars>>

\* resources.Release
ReleaseNothing(e) == UNCHANGED leases  \* mistake: not the id of the lease
ReleaseLease(e) == leases' = leases \ {e}

\* the deferred function of Run
Release(w) ==
    LET e == job[w] IN
    /\ wpc[w] \in {"release", "drop"}
    /\ ctx' = [ctx EXCEPT ![e] = IF @ = "live" THEN "over" ELSE @]
    /\ cancels' = cancels \ {e}
    /\ ReleaseLease(e)
    /\ Q!Finish(w)
    /\ WorkerTo(w, "dequeue")
    /\ UNCHANGED <<storeVars, canceled, payloads, local, requestVars, historyVars>>

Work(w) ==
    \/ Dequeue(w) \/ Wait(w) \/ Leave(w) \/ CheckMark(w) \/ Load(w) \/ Refuse(w) \/ Acquire(w)
    \/ Start(w) \/ Prepare(w) \/ Execute(w) \/ Return(w) \/ Commit(w) \/ Report(w)
    \/ Fail(w) \/ Release(w)

-----------------------------------------------------------------------------
(***************************************************************************)
(* Service.Cancel                                                          *)
(***************************************************************************)
CancelTo(k, next) == cpc' = [cpc EXCEPT ![k] = next]

\* repo.Get; an unknown or a final record ends the call
CancelLoad(k) ==
    /\ cpc[k] = "new"
    /\ \E e \in Execs :
          /\ target' = [target EXCEPT ![k] = e]
          /\ IF k \in gone \/ ~Exists(executions[e])
             THEN CancelTo(k, "error")
             ELSE CancelTo(k, IF Terminal(executions[e]) THEN "done" ELSE "lookup")
    /\ UNCHANGED <<storeVars, queueVars, canceled, runVars, workerVars,
                   spc, gone, historyVars>>

\* the lookup in the registry, and the call of the function it finds
CancelRunning(k) ==
    LET e == target[k] IN
    /\ cpc[k] = "lookup"
    /\ e \in cancels
    /\ ctx' = [ctx EXCEPT ![e] = IF @ = "live" THEN "canceled" ELSE @]
    /\ CancelTo(k, "done")
    /\ UNCHANGED <<storeVars, queueVars, canceled, payloads, cancels, leases, workerVars,
                   spc, target, gone, historyVars>>

CancelMissing(k) ==
    /\ cpc[k] = "lookup"
    /\ target[k] \notin cancels
    /\ CancelTo(k, "mark")
    /\ UNCHANGED <<storeVars, queueVars, canceled, runVars, workerVars,
                   spc, target, gone, historyVars>>

\* mistake: the payload is dropped with the mark
CancelMarkForgets(k) ==
    /\ cpc[k] = "mark"
    /\ canceled' = canceled \cup {target[k]}
    /\ payloads' = payloads \ {target[k]}
    /\ CancelTo(k, "write")
    /\ UNCHANGED <<storeVars, queueVars, cancels, ctx, leases, workerVars,
                   spc, target, gone, historyVars>>

\* scheduler.Cancel
CancelMark(k) ==
    /\ cpc[k] = "mark"
    /\ canceled' = canceled \cup {target[k]}
    /\ CancelTo(k, "write")
    /\ UNCHANGED <<storeVars, queueVars, runVars, workerVars,
                   spc, target, gone, historyVars>>

\* the Update of the record read at the start of the call
WriteCanceled(k) ==
    \E ok \in BOOLEAN :
        /\ Put(target[k], Rec("canceled", "early"), ok)
        /\ CancelTo(k, IF ok THEN "done" ELSE "error")

CancelWrite(k) ==
    /\ cpc[k] = "write"
    /\ \/ k \in gone /\ CancelTo(k, "error") /\ UNCHANGED storeVars
       \/ k \notin gone /\ WriteCanceled(k)
    /\ UNCHANGED <<queueVars, canceled, runVars, workerVars,
                   spc, target, gone, historyVars>>

Cancel(k) ==
    CancelLoad(k) \/ CancelRunning(k) \/ CancelMissing(k) \/ CancelMark(k) \/ CancelWrite(k)

-----------------------------------------------------------------------------
(***************************************************************************)
(* Contexts, shutdown, and the end of the process                          *)
(***************************************************************************)
SubmitEnds == {"found", "accepted", "refused", "lost"}
CancelEnds == {"done", "error", "lost"}

\* the deadline of a run, which may be past when the run begins
Expire(e) ==
    /\ ctx[e] = "live"
    /\ e \in cancels
    /\ ctx' = [ctx EXCEPT ![e] = "expired"]
    /\ UNCHANGED <<storeVars, queueVars, canceled, payloads, cancels, leases, workerVars,
                   requestVars, historyVars>>

\* the context of a request ends
Abandon(r) ==
    /\ r \notin gone
    /\ \/ r \in Execs /\ spc[r] \notin SubmitEnds
       \/ r \in Cancels /\ cpc[r] \notin CancelEnds
    /\ gone' = gone \cup {r}
    /\ UNCHANGED <<storeVars, queueVars, canceled, runVars, workerVars,
                   spc, cpc, target, historyVars>>

\* SIGTERM: the pool's context is done and those of the runs with it
Signal ==
    /\ Q!Stop
    /\ ctx' = [e \in Execs |-> IF ctx[e] = "live" THEN "canceled" ELSE ctx[e]]
    /\ UNCHANGED <<storeVars, canceled, payloads, cancels, leases, workerVars,
                   requestVars, historyVars>>

\* run closes the queue after the signal
CloseQueue ==
    /\ stopping
    /\ Q!Shut
    /\ UNCHANGED <<storeVars, canceled, runVars, workerVars, requestVars, historyVars>>

\* The process ends at any point, by a crash or after the shutdown, and a new
\* one loads the state file and repairs it before it serves requests.
Restart ==
    /\ restarts < MaxRestarts
    /\ restarts' = restarts + 1
    /\ executions' = [e \in Execs |-> Recovered(disk.executions[e])]
    /\ idempotency' = disk.idempotency
    /\ disk' = [executions |-> executions', idempotency |-> idempotency']
    /\ queue' = {} /\ job' = [w \in Workers |-> NoExec]
    /\ stopping' = FALSE /\ closed' = FALSE
    /\ canceled' = {} /\ payloads' = {} /\ cancels' = {} /\ leases' = {}
    /\ ctx' = [e \in Execs |-> "none"]
    /\ wpc' = [w \in Workers |-> "dequeue"]
    /\ local' = [w \in Workers |-> NoRecord]
    /\ spc' = [e \in Execs |-> IF spc[e] \in SubmitEnds \cup {"new"} THEN spc[e] ELSE "lost"]
    /\ cpc' = [k \in Cancels |-> IF cpc[k] \in CancelEnds \cup {"new"} THEN cpc[k] ELSE "lost"]
    /\ UNCHANGED <<target, gone, started, reported, faults>>

-----------------------------------------------------------------------------
Next ==
    \/ \E e \in Execs : Submit(e) \/ Expire(e)
    \/ \E w \in Workers : Work(w)
    \/ \E k \in Cancels : Cancel(k)
    \/ \E r \in Execs \cup Cancels : Abandon(r)
    \/ Signal
    \/ CloseQueue
    \/ Restart

\* A goroutine that can go on does; nobody has to send a request.
Fairness ==
    /\ \A e \in Execs : WF_vars(spc[e] # "new" /\ Submit(e))
    /\ \A w \in Workers : WF_vars(Work(w))
    /\ \A k \in Cancels : WF_vars(cpc[k] # "new" /\ Cancel(k))

SafeSpec == Init /\ [][Next]_vars
Spec == SafeSpec /\ Fairness
-----------------------------------------------------------------------------
SubmitStates == {"new", "create", "save", "enqueue", "undo"} \cup SubmitEnds
CancelStates == {"new", "lookup", "mark", "write"} \cup CancelEnds
WorkerStates == {"dequeue", "waiting", "stopped", "check", "load", "acquire", "start",
                 "prepare", "execute", "running", "commit", "report", "fail", "release", "drop"}
Contexts == {"none", "live", "canceled", "expired", "over"}

Store == [executions : [Execs -> Records], idempotency : [Keys -> Execs \cup {NoExec}]]

TypeOK ==
    /\ executions \in [Execs -> Records]
    /\ idempotency \in [Keys -> Execs \cup {NoExec}]
    /\ disk \in Store
    /\ queue \subseteq Execs
    /\ job \in [Workers -> Execs \cup {NoExec}]
    /\ stopping \in BOOLEAN /\ closed \in BOOLEAN
    /\ canceled \subseteq Execs
    /\ payloads \subseteq Execs
    /\ cancels \subseteq Execs
    /\ ctx \in [Execs -> Contexts]
    /\ leases \subseteq Execs
    /\ wpc \in [Workers -> WorkerStates]
    /\ local \in [Workers -> Records]
    /\ spc \in [Execs -> SubmitStates]
    /\ cpc \in [Cancels -> CancelStates]
    /\ target \in [Cancels -> Execs \cup {NoExec}]
    /\ gone \subseteq Execs \cup Cancels
    /\ started \in [Execs -> Nat]
    /\ reported \subseteq Execs
    /\ faults \in 0..MaxFaults
    /\ restarts \in 0..MaxRestarts

(***************************************************************************)
(* Safety                                                                  *)
(***************************************************************************)
\* worker w is between the lease and the deferred function of Run; Fail comes
\* from Acquire (class resource, no lease) or from Prepare
InRun(w) ==
    \/ wpc[w] \in {"start", "prepare", "execute", "running", "commit", "report", "release", "drop"}
    \/ wpc[w] = "fail" /\ local[w].class # "resource"

\* the stages before the runtime is called
BeforeRun == {"check", "load", "acquire", "start", "prepare", "execute"}

\* No path out of Run leaks or doubles a lease or a cancel function: an id has
\* one exactly while one worker runs it, whatever the error, cancel, timeout or
\* failed write it meets (service.go:108-122).  A leaked lease would lower the
\* tenant's concurrency for good.
LeasesMatchRuns ==
    /\ leases = {e \in Execs : \E w \in Workers : job[w] = e /\ InRun(w)}
    /\ cancels = leases

\* Two workers never work on one id, and an id that is queued is not worked on.
OneWorkerPerJob ==
    \A w \in Workers : job[w] # NoExec =>
        /\ job[w] \notin queue
        /\ \A v \in Workers : job[v] = job[w] => v = w

\* The runtime is called at most once for an execution, across cancels,
\* failed writes, restarts and repeated requests (service.go:53-191).
ExecutedAtMostOnce == \A e \in Execs : started[e] <= 1

\* What was metered and called back is final in the state file: after a crash
\* no execution the client saw ended is open again.  (Its outcome may still be
\* replaced by the "canceled" of a late cancel: see CanceledBeforeExecution.)
\* service.go:177-189
ReportedIsDurable ==
    \A e \in reported : disk.executions[e].status \in TerminalStatus

\* Submit returned an id to the client: the record is in the state file and
\* outlives a crash.  And if the request had a key, a retry with the key finds an
\* execution instead of starting another: in the same process always, and after
\* a crash unless a write failed (SaveIdempotency drops that error), although
\* it saves nothing for a request that is gone (service.go:81-93).
AcceptedIsDurable ==
    \A e \in Execs : spc[e] = "accepted" =>
        /\ Exists(disk.executions[e])
        /\ (KeyOf[e] # NoKey /\ (faults = 0 \/ restarts = 0)) =>
              idempotency[KeyOf[e]] # NoExec
        /\ (KeyOf[e] # NoKey /\ faults = 0) =>
              disk.idempotency[KeyOf[e]] # NoExec

\* An idempotency key leads to a record that was submitted with this key, in
\* memory and in the state file, so that a retry after a crash finds what it
\* asks for and never what another request asked for (service.go:57-61, 81-84).
KeysPointToRecords ==
    \A k \in Keys :
        /\ idempotency[k] # NoExec =>
              Exists(executions[idempotency[k]]) /\ KeyOf[idempotency[k]] = k
        /\ disk.idempotency[k] # NoExec =>
              /\ Exists(disk.executions[disk.idempotency[k]])
              /\ KeyOf[disk.idempotency[k]] = k

\* The payload is there when the run takes it: it is put before the job is
\* queued, no cancel takes it away, and after the run it is gone
\* (service.go:85-86, 148).
PayloadWaitsForRun ==
    \A e \in Execs :
        /\ e \in queue => e \in payloads
        /\ \A w \in Workers :
              (job[w] = e /\ wpc[w] \in BeforeRun) => e \in payloads
        /\ started[e] > 0 => e \notin payloads

(***************************************************************************)
(* Who may still write the record of e or run it.                          *)
(***************************************************************************)
WorkedOn(e) == \E w \in Workers : job[w] = e /\ wpc[w] \notin {"release", "drop"}
BeingCanceled(e) == \E k \in Cancels : target[k] = e /\ cpc[k] \in {"lookup", "mark", "write"}
BeingSubmitted(e) == spc[e] \in {"create", "save", "enqueue", "undo"}

\* worker w is in Run and went on because the copy it read was open; it holds
\* this copy until it makes it running
RunsOnOpenCopy(w) ==
    \/ wpc[w] \in {"acquire", "start"} /\ local[w].status \notin TerminalStatus
    \/ wpc[w] \in {"prepare", "execute", "running", "commit", "report", "fail"}

\* A record that is final, in the file too, is not changed and its execution
\* is not begun once the calls that had read it before have ended: neither a
\* late cancel, nor a job still in the queue or just taken, nor a restart
\* touches it (service.go:98-100, 207-209, store/memory.go:263-269).
SettledIsFinal ==
    [][\A e \in Execs :
          ( /\ executions[e].status \in TerminalStatus
            /\ disk.executions[e] = executions[e]
            /\ ~(\E w \in Workers : job[w] = e /\ RunsOnOpenCopy(w))
            /\ ~BeingCanceled(e)
            /\ ~BeingSubmitted(e) )
          => /\ executions'[e] = executions[e]
             /\ disk'.executions[e] = executions[e]
             /\ started'[e] = started[e]]_vars

\* What may leave a queued record with nobody left to finish it: a failed
\* write, a request that ends early, a run whose context ends before the record
\* is running, a shutdown.
Interrupted(e) ==
    \/ faults > 0
    \/ e \in gone
    \/ \E k \in Cancels : target[k] = e /\ k \in gone
    \/ ctx[e] \in {"canceled", "expired"}
    \/ stopping

\* Apart from these, somebody is always left to finish a record.  And a record
\* that is running has a worker that will finish it whatever cancel, deadline,
\* shutdown or restart comes, unless the state file could not be written
\* (service.go:127-179, 228-238, store/memory.go:263-269).
StrandedOnlyWhenInterrupted ==
    \A e \in Execs :
        /\ (executions[e].status = "queued" /\ ~Interrupted(e)) =>
              e \in queue \/ WorkedOn(e) \/ BeingCanceled(e) \/ BeingSubmitted(e)
        /\ (executions[e].status = "running" /\ faults = 0) =>
              \E w \in Workers :
                 /\ job[w] = e
                 /\ wpc[w] \in {"prepare", "execute", "running", "commit", "fail"}

(***************************************************************************)
(* What the rest of the server sees of it                                  *)
(***************************************************************************)
RecordOf(e) ==
    IF Terminal(executions[e]) THEN "final" ELSE executions[e].status

\* after the signal nothing comes of a job whose lease is not granted yet
Dropped(w) == stopping /\ wpc[w] \in {"check", "load", "acquire", "drop"}

WorkOf(e) ==
    IF \E w \in Workers : job[w] = e /\ ~Dropped(w) THEN "busy"
    ELSE IF \E w \in Workers : job[w] = e THEN "dropped"
    ELSE IF e \in queue THEN "waiting"
    ELSE IF spc[e] = "accepted" THEN "over" ELSE "none"

Life == INSTANCE Lifecycle WITH
            record <- [e \in Execs |-> RecordOf(e)],
            work <- [e \in Execs |-> WorkOf(e)]

\* Whatever calls race, fail or are cut off, a record and its job go only the
\* ways of Lifecycle: an id is handed to a worker once, only that worker makes
\* its record running, no record is queued again, no job that is taken or still
\* waits for its lease after the signal comes to run, and after a restart no
\* record is open (service.go:53-238, store/memory.go:255-272).
ImplementsLifecycle == Life!Spec

(***************************************************************************)
(* Liveness                                                                *)
(***************************************************************************)
\* Of finitely many requests, each accepted one ends, unless it is interrupted
\* while its record is queued or a write fails: cancel, deadline and shutdown
\* leave no record running.  (With ever new requests of other tenants a job may
\* wait for ever: see EveryTenantServed of FairQueue.)
AcceptedEnds ==
    \A e \in Execs :
        spc[e] = "accepted" ~>
            \/ executions[e].status \in TerminalStatus
            \/ executions[e].status = "queued" /\ Interrupted(e)
            \/ faults > 0

(***************************************************************************)
(* What the documentation says, and the code does not do.                  *)
(***************************************************************************)
\* "canceled before execution" (service.go:220): it was never executed.
CanceledBeforeExecution ==
    \A e \in Execs : executions[e].class = "early" => started[e] = 0

\* "cancel can cancel a queued or running execution" (README.md:28): after a
\* cancel call that reports success, the execution is over some day, while the
\* service keeps running.
CancelTakesEffect ==
    \A k \in Cancels : \A e \in Execs :
        (cpc[k] = "done" /\ target[k] = e) ~>
            (stopping \/ executions[e].status \in TerminalStatus)
=============================================================================
