------------------------------ MODULE JobQueue ------------------------------
(***************************************************************************)
(* What the queue of jobs promises to the code around it (queue.Queue in   *)
(* src/internal/queue/domain/queue.go): a job that was put waits until one *)
(* consumer takes it, no job is handed to two consumers, nothing goes in   *)
(* or out after Shut, and until the consumers are told to stop a waiting   *)
(* queue keeps handing out jobs.  The order of service is not part of this *)
(* promise.  FairQueue implements it; Execution uses it.                   *)
(***************************************************************************)
EXTENDS FiniteSets

CONSTANTS
    Jobs,       \* identities of jobs
    Consumers,  \* the goroutines of worker.Pool
    NoJob       \* a consumer that holds no job

VARIABLES
    pending,    \* the jobs that wait
    taken,      \* the job each consumer holds
    stopping,   \* the consumers' context is done
    closed      \* the queue is closed

vars == <<pending, taken, stopping, closed>>

JobQueueAssumption == NoJob \notin Jobs

Init ==
    /\ pending = {}
    /\ taken = [c \in Consumers |-> NoJob]
    /\ stopping = FALSE
    /\ closed = FALSE

\* An id is queued once, and not again while a consumer works on it.
Put(j) ==
    /\ ~closed
    /\ j \notin pending
    /\ \A c \in Consumers : taken[c] # j
    /\ pending' = pending \cup {j}
    /\ UNCHANGED <<taken, stopping, closed>>

Take(c, j) ==
    /\ ~closed
    /\ taken[c] = NoJob
    /\ j \in pending
    /\ pending' = pending \ {j}
    /\ taken' = [taken EXCEPT ![c] = j]
    /\ UNCHANGED <<stopping, closed>>

Finish(c) ==
    /\ taken[c] # NoJob
    /\ taken' = [taken EXCEPT ![c] = NoJob]
    /\ UNCHANGED <<pending, stopping, closed>>

Stop ==
    /\ ~stopping
    /\ stopping' = TRUE
    /\ UNCHANGED <<pending, taken, closed>>

Shut ==
    /\ ~closed
    /\ closed' = TRUE
    /\ UNCHANGED <<pending, taken, stopping>>

Next ==
    \/ \E j \in Jobs : Put(j)
    \/ \E c \in Consumers, j \in Jobs : Take(c, j)
    \/ \E c \in Consumers : Finish(c)
    \/ Stop
    \/ Shut

KeepsServing == WF_vars(~stopping /\ \E c \in Consumers, j \in Jobs : Take(c, j))

SafeSpec == Init /\ [][Next]_vars
Spec == SafeSpec /\ KeepsServing
=============================================================================
