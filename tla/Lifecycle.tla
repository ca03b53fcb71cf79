------------------------------ MODULE Lifecycle ------------------------------
(***************************************************************************)
(* What the execution service promises the code around it about one id,    *)
(* the HTTP handlers, the gRPC stream and the shutdown: how its record     *)
(* changes, and who may make it run.  Execution implements it, Gateway     *)
(* uses it.                                                                *)
(*                                                                         *)
(* A final record may become running again: Cancel and Run write copies    *)
(* they read earlier.  But only a worker that holds the id does that, an   *)
(* id is handed to a worker once, and no record is ever queued again.      *)
(*                                                                         *)
(* After the signal no job that is handed out comes to run: it is dropped, *)
(* and its record stays as it is.  A worker that is further with its job   *)
(* at the signal may still write running: the store looks at the context   *)
(* before it waits for its lock.                                           *)
(***************************************************************************)
CONSTANT Execs

VARIABLES
    record,    \* the status of a record, the four final ones taken together
    work,      \* the job of an id: not queued, waiting, with a worker that
               \* works on it or drops it, or over
    stopping,  \* the signal has come
    closed     \* the queue is closed

vars == <<record, work, stopping, closed>>

RecordStates == {"absent", "queued", "running", "final"}
WorkStates == {"none", "waiting", "busy", "dropped", "over"}

Init ==
    /\ record = [x \in Execs |-> "absent"]
    /\ work = [x \in Execs |-> "none"]
    /\ stopping = FALSE
    /\ closed = FALSE

RecordTo(x, status) == record' = [record EXCEPT ![x] = status]
WorkTo(x, state) == work' = [work EXCEPT ![x] = state]

Create(x) == record[x] = "absent" /\ RecordTo(x, "queued") /\ UNCHANGED work

Queue(x) ==
    /\ ~closed
    /\ record[x] # "absent" /\ work[x] = "none"
    /\ WorkTo(x, "waiting")
    /\ UNCHANGED record

Take(x) ==
    /\ ~closed
    /\ work[x] = "waiting"
    /\ WorkTo(x, IF stopping THEN "dropped" ELSE "busy")
    /\ UNCHANGED record

Begin(x) ==
    /\ record[x] # "absent" /\ work[x] = "busy"
    /\ RecordTo(x, "running")
    /\ UNCHANGED work

\* by the worker, by a cancel, or by a Submit that cannot queue the id
Settle(x) == record[x] # "absent" /\ RecordTo(x, "final") /\ UNCHANGED work

\* the worker is done with the id, which may still be open
Leave(x) ==
    /\ work[x] \in {"busy", "dropped"}
    /\ WorkTo(x, "over")
    /\ \/ UNCHANGED record
       \/ work[x] = "busy" /\ record[x] # "absent" /\ RecordTo(x, "final")

\* the signal; what a worker has only just taken is dropped
Stop ==
    /\ ~stopping /\ stopping' = TRUE
    /\ work' \in [Execs -> WorkStates]
    /\ \A x \in Execs : work'[x] # work[x] => work[x] = "busy" /\ work'[x] = "dropped"
    /\ UNCHANGED record

Close == stopping /\ ~closed /\ closed' = TRUE /\ UNCHANGED <<record, work>>

\* a new process: nothing is queued or held, and no record is open
Restart ==
    /\ work' = [x \in Execs |-> IF work[x] = "none" THEN "none" ELSE "over"]
    /\ record' \in [Execs -> {"absent", "final"}]
    /\ stopping' = FALSE /\ closed' = FALSE

Next ==
    \/ /\ \E x \in Execs :
             Create(x) \/ Queue(x) \/ Take(x) \/ Begin(x) \/ Settle(x) \/ Leave(x)
       /\ UNCHANGED <<stopping, closed>>
    \/ Stop /\ UNCHANGED closed
    \/ Close /\ UNCHANGED stopping
    \/ Restart

Spec == Init /\ [][Next]_vars
=============================================================================
