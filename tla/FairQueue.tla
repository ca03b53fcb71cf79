------------------------------ MODULE FairQueue ------------------------------
(***************************************************************************)
(* FairQueue of src/internal/queue/infrastructure/fair.go with the worker  *)
(* goroutines of src/internal/worker/application/pool.go that poll it.     *)
(*                                                                         *)
(* Jobs of one tenant wait in byTenant[t]; tenants lists the tenants that  *)
(* have waiting jobs and cursor (counted from 0, as in the code) points at *)
(* the one to serve next.  Enqueue leaves at most one token in notify, a   *)
(* channel of capacity 1, and drops it when the channel is full.  Dequeue  *)
(* looks at the queue under the lock, and when it is empty waits, without  *)
(* the lock, for the token, for Close or for its context.                  *)
(*                                                                         *)
(* A member of Jobs stands for the id of an execution that is queued or    *)
(* held by a worker; once the worker is done with it the member may stand  *)
(* for a later execution of the same tenant, so a finite instance can     *)
(* run for ever.  The queue sees no id twice at once because ids are drawn *)
(* at random for each execution (src/internal/execution/infrastructure/    *)
(* ids.go).                                                                *)
(*                                                                         *)
(* A definition marked "mistake" is a slip the code does not make; it is   *)
(* in no action, and stands next to the definition it would replace.       *)
(***************************************************************************)
EXTENDS Integers, SequencesExt

CONSTANTS
    TenantIDs,
    Jobs,
    TenantOf,   \* the tenant of a job
    Consumers,  \* worker goroutines, each in Pool.loop
    NoJob

VARIABLES
    byTenant,   \* TenantIDs -> the waiting jobs; an absent key is <<>>
    tenants,    \* the tenants with waiting jobs, in ring order
    cursor,
    notify,     \* the token is in the channel
    closed,
    ctxDone,    \* the context of the pool is done
    pc,         \* where a worker is
    got         \* the job a worker holds

queueVars == <<byTenant, tenants, cursor>>
vars == <<byTenant, tenants, cursor, notify, closed, ctxDone, pc, got>>

FairQueueAssumption ==
    /\ NoJob \notin Jobs
    /\ TenantOf \in [Jobs -> TenantIDs]

ASSUME FairQueueAssumption

\* "waiting": between the unlock and the end of the select
States == {"polling", "waiting", "working", "stopped"}

(***************************************************************************)
(* Views of the queue.                                                     *)
(***************************************************************************)
WaitingJobs == UNION {ToSet(byTenant[t]) : t \in TenantIDs}

Held(j) == \E c \in Consumers : got[c] = j

\* Len(q.tenants) > 0 and the cursor wrapped as Dequeue wraps it
Head0 == IF cursor >= Len(tenants) THEN 0 ELSE cursor

-----------------------------------------------------------------------------
Init ==
    /\ byTenant = [t \in TenantIDs |-> <<>>]
    /\ tenants = <<>>
    /\ cursor = 0
    /\ notify = FALSE
    /\ closed = FALSE
    /\ ctxDone = FALSE
    /\ pc = [c \in Consumers |-> "polling"]
    /\ got = [c \in Consumers |-> NoJob]

(***************************************************************************)
(* The steps of Enqueue: the tenant joins the ring with its first job, the *)
(* job goes to the end of its tenant's list, the token is sent.            *)
(***************************************************************************)
RejoinRing(t) == Append(tenants, t)  \* mistake: joins again with each job
JoinRing(t) == IF byTenant[t] = <<>> THEN Append(tenants, t) ELSE tenants

PutInFront(j) == <<j>> \o byTenant[TenantOf[j]]  \* mistake: last in, first out
PutLast(j) == Append(byTenant[TenantOf[j]], j)

NoToken == UNCHANGED notify  \* mistake: nobody is woken
SendToken == notify' = TRUE

\* Once the queue is closed Enqueue returns ErrClosed and changes nothing.
Enqueue(j) ==
    LET t == TenantOf[j] IN
    /\ ~closed
    /\ j \notin WaitingJobs /\ ~Held(j)
    /\ tenants' = JoinRing(t)
    /\ byTenant' = [byTenant EXCEPT ![t] = PutLast(j)]
    /\ SendToken
    /\ UNCHANGED <<cursor, closed, ctxDone, pc, got>>

(***************************************************************************)
(* Dequeue takes a job of the tenant at the cursor.  If it was the last    *)
(* one the tenant leaves the ring, so that the cursor points at the next   *)
(* already; else the cursor moves on.                                      *)
(***************************************************************************)
CursorBehind == Head0 - 1   \* mistake: steps back for the removed entry
CursorSkips == Head0 + 1    \* mistake: moves on although the ring moved up
CursorAfterLeave == Head0

Rotate ==
    LET t == tenants[Head0 + 1] IN
    /\ byTenant' = [byTenant EXCEPT ![t] = Tail(@)]
    /\ IF Tail(byTenant[t]) = <<>>
       THEN /\ tenants' = RemoveAt(tenants, Head0 + 1)
            /\ cursor' = CursorAfterLeave
       ELSE /\ tenants' = tenants
            /\ cursor' = (Head0 + 1) % Len(tenants)

\* mistake: Dequeue drains the queue after Close
NeverRefuse == TRUE
Open == ~closed

\* Dequeue under the lock, the queue not empty
Take(c) ==
    /\ pc[c] = "polling"
    /\ Open
    /\ tenants # <<>>
    /\ Rotate
    /\ got' = [got EXCEPT ![c] = Head(byTenant[tenants[Head0 + 1]])]
    /\ pc' = [pc EXCEPT ![c] = "working"]
    /\ UNCHANGED <<notify, closed, ctxDone>>

\* Dequeue under the lock, the queue empty: unlock and go to the select
Wait(c) ==
    /\ pc[c] = "polling"
    /\ Open
    /\ tenants = <<>>
    /\ pc' = [pc EXCEPT ![c] = "waiting"]
    /\ UNCHANGED <<byTenant, tenants, cursor, notify, closed, ctxDone, got>>

\* Dequeue returns ErrClosed and the loop ends
SeeClosed(c) ==
    /\ pc[c] = "polling"
    /\ closed
    /\ pc' = [pc EXCEPT ![c] = "stopped"]
    /\ UNCHANGED <<byTenant, tenants, cursor, notify, closed, ctxDone, got>>

\* The select receives the token, or the zero value of the closed channel.
\* A send to a goroutine that already waits is Enqueue and then Wake.
Wake(c) ==
    /\ pc[c] = "waiting"
    /\ notify \/ closed
    /\ notify' = FALSE
    /\ pc' = [pc EXCEPT ![c] = "polling"]
    /\ UNCHANGED <<byTenant, tenants, cursor, closed, ctxDone, got>>

\* The select picks ctx.Done(), even with a token ready, and the loop ends
SeeDone(c) ==
    /\ pc[c] = "waiting"
    /\ ctxDone
    /\ pc' = [pc EXCEPT ![c] = "stopped"]
    /\ UNCHANGED <<byTenant, tenants, cursor, notify, closed, ctxDone, got>>

\* The job's mark is looked at, Run returns (or is skipped), the loop goes on
FinishJob(c) ==
    /\ pc[c] = "working"
    /\ pc' = [pc EXCEPT ![c] = "polling"]
    /\ got' = [got EXCEPT ![c] = NoJob]
    /\ UNCHANGED <<byTenant, tenants, cursor, notify, closed, ctxDone>>

Close ==
    /\ ~closed
    /\ closed' = TRUE
    /\ UNCHANGED <<byTenant, tenants, cursor, notify, ctxDone, pc, got>>

CtxDone ==
    /\ ~ctxDone
    /\ ctxDone' = TRUE
    /\ UNCHANGED <<byTenant, tenants, cursor, notify, closed, pc, got>>

Step(c) == Take(c) \/ Wait(c) \/ SeeClosed(c) \/ Wake(c) \/ SeeDone(c) \/ FinishJob(c)

Next ==
    \/ \E j \in Jobs : Enqueue(j)
    \/ \E c \in Consumers : Step(c)
    \/ Close
    \/ CtxDone

\* Every goroutine keeps running, and Run returns: its context has a
\* deadline, which the runtime obeys.  Nothing forces an Enqueue or a Close.
Fairness == \A c \in Consumers : WF_vars(Step(c))

SafeSpec == Init /\ [][Next]_vars
Spec == SafeSpec /\ Fairness
-----------------------------------------------------------------------------
TypeOK ==
    /\ byTenant \in [TenantIDs -> Seq(Jobs)]
    /\ tenants \in Seq(TenantIDs)
    /\ cursor \in Nat
    /\ notify \in BOOLEAN
    /\ closed \in BOOLEAN
    /\ ctxDone \in BOOLEAN
    /\ pc \in [Consumers -> States]
    /\ got \in [Consumers -> Jobs \cup {NoJob}]

\* The ring names each tenant that has waiting jobs, once, and no other, and
\* the cursor never runs past its end: otherwise Dequeue would index out of
\* range, take from an empty list, or never reach a tenant (fair.go:50-64).
RingOK ==
    /\ \A i, j \in 1..Len(tenants) : tenants[i] = tenants[j] => i = j
    /\ \A t \in TenantIDs :
          byTenant[t] # <<>> <=> \E i \in 1..Len(tenants) : tenants[i] = t
    /\ cursor <= Len(tenants)

\* A worker that waits for the token cannot sleep through work: while jobs
\* wait and the pool runs, the token is in the channel or a worker is up and
\* will look again, although Enqueue drops the token when one is already there
\* and a worker may be between its unlock and its select (fair.go:36-39, 68-73).
NoLostWakeup ==
    (tenants # <<>> /\ ~closed /\ ~ctxDone /\ Consumers # {}) =>
        notify \/ \E c \in Consumers : pc[c] \in {"polling", "working"}

(***************************************************************************)
(* Order of service.                                                       *)
(***************************************************************************)
\* the place of a tenant in the ring, and of a job in its tenant's list
Place(t) == CHOOSE i \in 1..Len(tenants) : tenants[i] = t
Index(j) == CHOOSE i \in 1..Len(byTenant[TenantOf[j]]) : byTenant[TenantOf[j]][i] = j

\* the tenants from the cursor to the end of the ring, and how many of them
\* are served before t; none while the cursor stands behind the last one
Upcoming == {t \in ToSet(tenants) : Place(t) > cursor}
Before(t) == Place(t) - cursor - 1

\* tenant t hands a job to a worker in this step
Serves(t) == Len(byTenant'[t]) < Len(byTenant[t])

\* A tenant that the cursor has not passed yet is served after exactly those
\* in front of it: each service of another tenant brings it one place closer,
\* and no Enqueue, of whatever tenant, pushes it back (fair.go:51-63).
UpcomingKeepTurn ==
    [][\A t \in Upcoming :
          ~Serves(t) => /\ t \in Upcoming'
                        /\ Before(t)' = Before(t)
                                - (IF \E u \in TenantIDs : Serves(u) THEN 1 ELSE 0)]_vars

\* Jobs of one tenant are taken in the order they came: a waiting job moves up
\* only when the tenant is served, by one place, and the job at the front goes
\* first (fair.go:35, 55-62).
TenantFifo ==
    [][\A j \in WaitingJobs :
          j \in WaitingJobs' =>
              Index(j)' = Index(j) - (IF Serves(TenantOf[j]) THEN 1 ELSE 0)]_vars

(***************************************************************************)
(* The queue keeps the promise of JobQueue: with the jobs of all tenants   *)
(* taken together it hands each waiting job to one worker, and keeps doing *)
(* so until the pool is stopped.                                           *)
(***************************************************************************)
JQ == INSTANCE JobQueue WITH
          pending <- WaitingJobs,
          taken <- got,
          stopping <- ctxDone

ImplementsJobQueue == JQ!Spec

\* What README.md:28 says of the queue, that it rotates over the tenants, in
\* its weakest form: a job that waits is served some day, unless the service
\* stops.
EveryTenantServed ==
    \A j \in Jobs : j \in WaitingJobs ~> (j \notin WaitingJobs \/ ctxDone \/ closed)
=============================================================================
