------------------------------- MODULE Gateway -------------------------------
(***************************************************************************)
(* The outside of the server: the HTTP requests behind the middleware      *)
(* (src/internal/http/middleware.go, router.go), the state of the node     *)
(* (src/internal/worker/application/nodes.go), the gRPC stream             *)
(* (src/internal/grpcapi/service.go) and the shutdown                      *)
(* (src/cmd/server/main.go), over the execution service, which is taken as *)
(* what Lifecycle promises, and the pool of workers.                       *)
(*                                                                         *)
(* A request or stream submits at most one execution and is the id of it.  *)
(* An invalid request, a context that is done and a failed write are the   *)
(* free choice of a call that fails.  The registry has the local node only:*)
(* no other is ever registered.  A definition marked "mistake" is a slip   *)
(* the code does not make, next to the definition it would replace.        *)
(***************************************************************************)
EXTENDS Integers, FiniteSets

CONSTANTS
    Clients,    \* HTTP requests that submit or cancel an execution, or probe
    Operators,  \* HTTP requests that drain or isolate the node
    Streams,    \* calls of ExecutionService/Execute
    PoolSize,   \* worker.count
    NoExec

VARIABLES
    record, work,  \* see Lifecycle
    loops,         \* how many workers are in their loop
    idle,          \* how many of these found the queue empty and wait in Dequeue
    node,          \* the state of the local node
    phase,         \* where main is in run
    expired,       \* the context of the shutdown is done
    pc,            \* where a request or stream is
    gone,          \* streams whose context is done
    watched,       \* the id a stream polls
    sent,          \* history: the last snapshot a stream sent
    told, late     \* history: a drain was answered; requests that came after it

Requests == Clients \cup Operators
Execs == Clients \cup Streams
Callers == Requests \cup Streams

(***************************************************************************)
(* The stages of run: the signal, the node stopped, the queue closed; the  *)
(* HTTP server shut down, the gRPC server stopped, the workers awaited;    *)
(* the runtime closed; the end of the process.                             *)
(***************************************************************************)
Stage == [serving |-> 0, signaled |-> 1, stopped |-> 2, closed |-> 3, http |-> 4, grpc |-> 5,
          pool |-> 6, ended |-> 7, exited |-> 8]
Reached(p) == Stage[phase] >= Stage[p]

L == INSTANCE Lifecycle WITH stopping <- Reached("signaled"), closed <- Reached("closed")

recordVars == <<record, work>>
mainVars == <<loops, idle, node, phase, expired>>
streamVars == <<gone, watched, sent>>
drainVars == <<told, late>>
vars == <<recordVars, mainVars, pc, streamVars, drainVars>>

GatewayAssumption ==
    /\ IsFiniteSet(Execs)
    /\ Clients \cap Streams = {} /\ Operators \cap Execs = {}
    /\ NoExec \notin Execs
    /\ PoolSize \in Nat \ {0}

ASSUME GatewayAssumption

OperationsOf(h) == IF h \in Clients THEN {"submit", "cancel", "probe"} ELSE {"drain", "isolate"}
Handling == {"submit", "cancel", "probe", "drain", "isolate", "checked", "created"}

Busy == {x \in Execs : work[x] \in {"busy", "dropped"}}

Init ==
    /\ phase = "serving"
    /\ L!Init
    /\ loops = PoolSize /\ idle = 0
    /\ node = "ready"
    /\ expired = FALSE
    /\ pc = [x \in Callers |-> "new"]
    /\ gone = {}
    /\ watched = [s \in Streams |-> NoExec]
    /\ sent = [s \in Streams |-> "none"]
    /\ told = FALSE
    /\ late = {}

To(x, stage) == pc' = [pc EXCEPT ![x] = stage]

-----------------------------------------------------------------------------
(***************************************************************************)
(* HTTP.  What limiter, authentication and decoding turn down is refused.  *)
(***************************************************************************)
Arrive(h) ==
    /\ pc[h] = "new"
    /\ ~Reached("http")
    /\ \E stage \in OperationsOf(h) \cup {"refused"} : To(h, stage)
    /\ late' = IF told THEN late \cup {h} ELSE late
    /\ UNCHANGED <<recordVars, mainVars, streamVars, told>>

\* NodeRegistry.Ready
Ready == node = "ready"

\* the first step of submitExecution, and readyz
CheckReady(h) ==
    /\ \/ pc[h] = "submit" /\ To(h, IF Ready THEN "checked" ELSE "refused")
       \/ pc[h] = "probe" /\ To(h, IF Ready THEN "ready" ELSE "refused")
    /\ UNCHANGED <<recordVars, mainVars, streamVars, drainVars>>

\* Drain and Isolate of the registry.  There is no way back to ready.
DrainedCopy ==  \* mistake: the changed copy is not put back into the map
    node # "isolated" /\ node # "stopped" /\ UNCHANGED node
Drained == node # "isolated" /\ node # "stopped" /\ node' = "draining"
Isolated == node' = "isolated"

\* drainNode and isolateNode
Operate(h) ==
    /\ \/ /\ \/ pc[h] = "drain" /\ Drained
             \/ pc[h] = "isolate" /\ Isolated
          /\ told' = TRUE
          /\ To(h, "done")
       \/ /\ pc[h] \in {"drain", "isolate"}
          /\ To(h, "refused")
          /\ UNCHANGED <<node, told>>
    /\ UNCHANGED <<recordVars, loops, idle, phase, expired, streamVars, late>>

\* Service.Cancel, with every outcome it can have for a record
Canceled(x) == L!Settle(x) \/ UNCHANGED recordVars

CancelExecution(h) ==
    /\ pc[h] = "cancel"
    /\ \E x \in Execs : Canceled(x)
    /\ \E answer \in {"done", "refused"} : To(h, answer)
    /\ UNCHANGED <<mainVars, streamVars, drainVars>>

-----------------------------------------------------------------------------
(***************************************************************************)
(* Service.Submit, called by a request that found the node ready, or by a  *)
(* stream, which does not look at the node.                                *)
(***************************************************************************)
\* the answer for execution y; a stream sends its first snapshot, and ends if
\* that fails
Accepted(x, y, status) ==
    IF x \in Requests
    THEN To(x, "accepted") /\ UNCHANGED <<watched, sent>>
    ELSE \/ /\ To(x, "polling")
            /\ watched' = [watched EXCEPT ![x] = y]
            /\ sent' = [sent EXCEPT ![x] = status]
         \/ x \in gone /\ To(x, "refused") /\ UNCHANGED <<watched, sent>>

\* the idempotency key leads to an execution of another request
SubmitFind(x) ==
    /\ \E y \in Execs : record[y] # "absent" /\ Accepted(x, y, record[y])
    /\ UNCHANGED recordVars

SubmitCreate(x) ==
    /\ \/ L!Create(x) /\ To(x, "created")
       \/ (L!Create(x) \/ UNCHANGED recordVars) /\ To(x, "refused")
    /\ UNCHANGED <<watched, sent>>

SubmitQueue(x) ==
    \/ L!Queue(x) /\ Accepted(x, x, "queued")
    \/ (L!Settle(x) \/ UNCHANGED recordVars) /\ To(x, "refused") /\ UNCHANGED <<watched, sent>>

Submit(x) ==
    /\ \/ pc[x] \in {"checked", "open"} /\ (SubmitFind(x) \/ SubmitCreate(x))
       \/ pc[x] = "created" /\ SubmitQueue(x)
    /\ UNCHANGED <<mainVars, gone, drainVars>>

-----------------------------------------------------------------------------
(***************************************************************************)
(* The gRPC stream                                                         *)
(***************************************************************************)
Open(s) ==
    /\ pc[s] = "new"
    /\ ~Reached("grpc")
    /\ To(s, "open")
    /\ UNCHANGED <<recordVars, mainVars, streamVars, drainVars>>

\* mistake: looks at the record of Submit for ever
PollFirst(s) ==
    /\ pc[s] = "polling"
    /\ To(s, IF sent[s] = "final" THEN "done" ELSE "polling")
    /\ UNCHANGED <<recordVars, mainVars, streamVars, drainVars>>

\* a tick: Get under the stream's context, and send
Poll(s) ==
    /\ pc[s] = "polling"
    /\ \/ /\ sent' = [sent EXCEPT ![s] = record[watched[s]]]
          /\ To(s, IF record[watched[s]] = "final" THEN "done" ELSE "polling")
       \/ s \in gone /\ To(s, "refused") /\ UNCHANGED sent
    /\ UNCHANGED <<recordVars, mainVars, gone, watched, drainVars>>

\* the stream's context is done: cancel under another one
Disconnect(s) ==
    /\ pc[s] = "polling"
    /\ s \in gone
    /\ Canceled(watched[s])
    /\ To(s, "refused")
    /\ UNCHANGED <<mainVars, streamVars, drainVars>>

\* the client goes away
Hangup(s) ==
    /\ pc[s] \in {"open", "created", "polling"}
    /\ s \notin gone
    /\ gone' = gone \cup {s}
    /\ UNCHANGED <<recordVars, mainVars, pc, watched, sent, drainVars>>

-----------------------------------------------------------------------------
(***************************************************************************)
(* The workers                                                             *)
(***************************************************************************)
\* a worker that holds nothing takes a job or leaves, from the wait or before it
OneIsGone == idle' \in {idle, idle - 1} \cap 0..(loops - Cardinality(Busy) - 1)

TakeMore(x) == L!Take(x) /\ UNCHANGED idle  \* mistake: more runs than workers
Take(x) == L!Take(x) /\ OneIsGone

Requeued(x) ==  \* mistake: a run that fails puts its record back
    /\ x \in Busy
    /\ work' = [work EXCEPT ![x] = "over"]
    /\ record' \in {record, [record EXCEPT ![x] = "queued"], [record EXCEPT ![x] = "final"]}

\* Run returns; it may have written the outcome before
Finish(x) == L!Leave(x) \/ (work[x] = "busy" /\ L!Settle(x))

Work(x) ==
    /\ \/ Take(x)
       \/ (L!Begin(x) \/ Finish(x)) /\ UNCHANGED idle
    /\ UNCHANGED <<loops, node, phase, expired, pc, streamVars, drainVars>>

\* Dequeue finds nothing and waits
Wait ==
    /\ Cardinality(Busy) + idle < loops
    /\ ~Reached("closed") /\ \A x \in Execs : work[x] # "waiting"
    /\ idle' = idle + 1
    /\ UNCHANGED <<recordVars, loops, node, phase, expired, pc, streamVars, drainVars>>

\* Dequeue returns an error: the queue is closed, or the context is done in the
\* wait, also when a job has come in the meantime
LoopEnds ==
    /\ Cardinality(Busy) < loops
    /\ \/ Reached("closed") /\ OneIsGone
       \/ Reached("signaled") /\ idle > 0 /\ idle' = idle - 1
    /\ loops' = loops - 1
    /\ UNCHANGED <<recordVars, node, phase, expired, pc, streamVars, drainVars>>

-----------------------------------------------------------------------------
(***************************************************************************)
(* The shutdown                                                            *)
(***************************************************************************)
PhaseTo(p) == phase' = p

\* SIGTERM, or a listener fails
Signal ==
    /\ phase = "serving" /\ PhaseTo("signaled")
    /\ L!Stop
    /\ UNCHANGED <<loops, idle, node, expired, pc, streamVars, drainVars>>

StopNode ==
    /\ phase = "signaled" /\ PhaseTo("stopped")
    /\ node' = "stopped" /\ told' = TRUE
    /\ UNCHANGED gone

CloseQueue ==
    /\ phase = "stopped" /\ PhaseTo("closed")
    /\ UNCHANGED <<node, gone, told>>

ShutHTTP ==
    /\ phase = "closed" /\ PhaseTo("http")
    /\ UNCHANGED <<node, gone, told>>

\* httpServer.Shutdown returns: no request is in a handler, or time is up
StopGracefully ==
    /\ phase = "http" /\ PhaseTo("grpc")
    /\ expired \/ \A h \in Requests : pc[h] \notin Handling
    /\ UNCHANGED <<node, gone, told>>

\* GracefulStop has waited for the streams, or Stop ends their contexts
StreamsOver == \A s \in Streams : pc[s] \notin {"open", "created", "polling"}
WaitForAll ==  \* mistake: no deadline for the streams
    phase = "grpc" /\ PhaseTo("pool") /\ StreamsOver /\ UNCHANGED <<node, gone, told>>
WaitForPool ==
    /\ phase = "grpc" /\ PhaseTo("pool")
    /\ \/ StreamsOver /\ UNCHANGED gone
       \/ expired /\ gone' = gone \cup Streams
    /\ UNCHANGED <<node, told>>

CloseRuntimeEarly ==  \* mistake: the workers are not awaited
    phase = "pool" /\ PhaseTo("ended") /\ UNCHANGED <<node, gone, told>>
CloseRuntime ==
    /\ phase = "pool" /\ PhaseTo("ended")
    /\ loops = 0
    /\ UNCHANGED <<node, gone, told>>

Exit ==
    /\ phase = "ended" /\ PhaseTo("exited")
    /\ UNCHANGED <<node, gone, told>>

Shutdown ==
    /\ StopNode \/ CloseQueue \/ ShutHTTP \/ StopGracefully \/ WaitForPool \/ CloseRuntime \/ Exit
    /\ UNCHANGED <<recordVars, loops, idle, expired, pc, watched, sent, late>>

\* the five seconds, which begin when the node is stopped
Expire ==
    /\ Reached("stopped") /\ ~expired
    /\ expired' = TRUE
    /\ UNCHANGED <<recordVars, loops, idle, node, phase, pc, streamVars, drainVars>>

-----------------------------------------------------------------------------
Next ==
    /\ phase # "exited"
    /\ \/ \E h \in Requests : Arrive(h) \/ CheckReady(h) \/ Operate(h) \/ CancelExecution(h)
       \/ \E x \in Execs : Submit(x) \/ Work(x)
       \/ \E s \in Streams : Open(s) \/ Poll(s) \/ Disconnect(s) \/ Hangup(s)
       \/ Wait
       \/ LoopEnds
       \/ Signal
       \/ Shutdown
       \/ Expire

\* Goroutines of the server go on, runs return because their context ends, and
\* timers fire.  Nobody has to send anything, read a body, or hang up.
Fairness ==
    /\ WF_vars(Shutdown)
    /\ WF_vars(Expire)
    /\ WF_vars(LoopEnds)
    /\ \A x \in Execs : WF_vars(Work(x) /\ L!Leave(x))
    /\ \A s \in Streams : WF_vars(phase # "exited" /\ (Poll(s) \/ Disconnect(s)))

SafeSpec == Init /\ [][Next]_vars
Spec == SafeSpec /\ Fairness
-----------------------------------------------------------------------------
TypeOK ==
    /\ record \in [Execs -> L!RecordStates]
    /\ work \in [Execs -> L!WorkStates]
    /\ loops \in Cardinality(Busy)..PoolSize
    /\ idle \in 0..(loops - Cardinality(Busy))
    /\ node \in {"ready", "draining", "isolated", "stopped"}
    /\ phase \in DOMAIN Stage
    /\ expired \in BOOLEAN /\ told \in BOOLEAN
    /\ pc \in [Callers -> Handling \cup {"new", "open", "polling", "refused",
                                       "accepted", "ready", "done"}]
    /\ gone \subseteq Streams
    /\ watched \in [Streams -> Execs \cup {NoExec}]
    /\ sent \in [Streams -> L!RecordStates \cup {"none"}]
    /\ late \subseteq Requests

\* Once a drain or isolation has been answered, or the node is stopped, no
\* request that comes after it is accepted and no probe finds the node ready;
\* nothing brings the node back (router.go:78-84, 149-153, nodes.go:39-89).
\* Requests that had been checked before may still be accepted, and streams
\* are: see the README.
DrainIsPrompt == \A h \in late : pc[h] \notin {"accepted", "ready"}

\* The runtime is closed after the last worker has left, so no run is ever
\* failed with "runtime closed" (main.go:124-136).
RuntimeClosedLast == Reached("ended") => Busy = {} /\ loops = 0

\* A stream never reports an execution as queued after it reported it as
\* running or final, whatever cancels and runs of it overlap (service.go:39-64).
SnapshotsAdvance ==
    [][\A s \in Streams : sent[s] \in {"running", "final"} => sent'[s] # "queued"]_vars

\* The process ends after the signal, although bodies may never be sent and
\* streams may watch a record that nobody will close (main.go:113-137).
ShutdownEnds == Reached("signaled") ~> phase = "exited"

\* A stream ends when its client has left, and when its execution is over with
\* a final record, also if another request canceled it (grpcapi/service.go:48-65).
StreamsEnd ==
    \A s \in Streams :
        (/\ pc[s] = "polling"
         /\ s \in gone \/ (record[watched[s]] = "final" /\ work[watched[s]] = "over"))
        ~> (pc[s] # "polling" \/ phase = "exited")
=============================================================================
