---------------------------- MODULE ExecutionProofs ----------------------------
(***************************************************************************)
(* Proofs about Execution, for any executions, keys, workers and calls,    *)
(* and any number of failed writes and restarts.                           *)
(*                                                                         *)
(* The invariants of Execution are proved in layers, each of which rests   *)
(* on the ones before it:                                                  *)
(*   Typed     types, and that a worker or call past its first step has    *)
(*             an id to work on;                                           *)
(*   Owned     who may work on an id: it was accepted, and is in the queue *)
(*             or with one worker;                                         *)
(*   Begun     the runtime is not called before a worker comes to the call,*)
(*             and not after;                                              *)
(*   Supplied  the payload is there until then;                            *)
(*   LeasesMatchRuns                                                       *)
(*   Filed     which records are in the file, and that what is reported is *)
(*             final there;                                                *)
(*   Attended  an open record has somebody to close it, or was interrupted;*)
(*   LoadedOpen  a run goes on only with a copy that was open;             *)
(*   KeysKept  a request with a key is accepted only once its key is saved;*)
(*   RunningIsManned  a running record has a worker that will close it.    *)
(* A lemma for each layer says that every step keeps it; Inv is all of     *)
(* them.                                                                   *)
(*                                                                         *)
(* The last theorem, the refinement of Lifecycle, maps each step to one of *)
(* Lifecycle, or to none; next to Inv it needs SeenExists.                 *)
(***************************************************************************)
EXTENDS Execution, FiniteSetTheorems, TLAPS

(* A worker holds a job exactly between Dequeue and the next Dequeue. *)
JobsHeld == \A w \in Workers : job[w] = NoExec <=> wpc[w] \in {"dequeue", "waiting", "stopped"}

(* A cancel call works on an id once it is past its first step. *)
TargetsKnown ==
    \A k \in Cancels : cpc[k] \in {"lookup", "mark", "write"} => target[k] \in Execs

Typed == TypeOK /\ JobsHeld /\ TargetsKnown

-----------------------------------------------------------------------------
LEMMA RecTypes ==
    /\ NoRecord \in Records
    /\ Rec("queued", "none") \in Records
    /\ Rec("running", "none") \in Records
    /\ Rec("succeeded", "none") \in Records
    /\ Rec("canceled", "canceled") \in Records
    /\ Rec("canceled", "early") \in Records
    /\ Rec("timed_out", "timeout") \in Records
    /\ \A c \in Classes : Rec("failed", c) \in Records
    /\ \A r \in Records : Recovered(r) \in Records
  BY DEF NoRecord, Rec, Records, Status, TerminalStatus, Classes, Recovered

LEMMA OutcomeTypes == ASSUME NEW c PROVE Outcomes(c) \subseteq Records
  BY RecTypes DEF Outcomes, Classes

LEMMA JobIsExec ==
    ASSUME Typed, NEW w \in Workers, wpc[w] \notin {"dequeue", "waiting", "stopped"}
    PROVE  job[w] \in Execs
  BY DEF Typed, TypeOK, JobsHeld

(* A write keeps the types of the store. *)
LEMMA PutTypes ==
    ASSUME ExecutionAssumption, TypeOK, NEW e \in Execs, NEW r \in Records,
           NEW ok \in BOOLEAN, Put(e, r, ok)
    PROVE  /\ executions' \in [Execs -> Records]
           /\ idempotency' \in [Keys -> Execs \cup {NoExec}]
           /\ disk' \in Store
           /\ faults' \in 0..MaxFaults
<1>1. executions' \in [Execs -> Records] /\ idempotency' = idempotency
  BY DEF Put, TypeOK
<1>2. CASE ok
  BY <1>1, <1>2 DEF Put, Persist, TypeOK, Store
<1>3. CASE ~ok
  BY <1>1, <1>3 DEF Put, Persist, TypeOK, ExecutionAssumption
<1>4. QED
  BY <1>1, <1>2, <1>3

(* Each step keeps the types. *)
LEMMA TypeStep ==
    ASSUME ExecutionAssumption, Typed, [Next]_vars
    PROVE  TypeOK'
<1> USE DEF Typed, TypeOK, SubmitStates, CancelStates, WorkerStates, storeVars,
           queueVars, runVars, workerVars, requestVars, historyVars
<1>1. ASSUME NEW e \in Execs, SubmitFind(e) PROVE TypeOK'
  BY <1>1 DEF SubmitFind, SubmitTo, SubmitEnds
<1>2. ASSUME NEW e \in Execs, SubmitCreate(e) PROVE TypeOK'
  <2>1. /\ executions' \in [Execs -> Records]
        /\ idempotency' \in [Keys -> Execs \cup {NoExec}]
        /\ disk' \in Store
        /\ faults' \in 0..MaxFaults
    BY <1>2, PutTypes, RecTypes DEF SubmitCreate
  <2>2. QED
    BY <1>2, <2>1 DEF SubmitCreate, SubmitTo, SubmitEnds, AfterCreate
<1>3. ASSUME NEW e \in Execs, SubmitSave(e) PROVE TypeOK'
  BY <1>3 DEF SubmitSave, SubmitTo, Persist, Store, ExecutionAssumption
<1>4. ASSUME NEW e \in Execs, SubmitEnqueue(e) PROVE TypeOK'
  BY <1>4 DEF SubmitEnqueue, SubmitTo, SubmitEnds, Q!Put
<1>5. ASSUME NEW e \in Execs, SubmitUndo(e) PROVE TypeOK'
  <2>1. /\ executions' \in [Execs -> Records]
        /\ idempotency' \in [Keys -> Execs \cup {NoExec}]
        /\ disk' \in Store
        /\ faults' \in 0..MaxFaults
    BY <1>5, PutTypes, RecTypes DEF SubmitUndo, Classes
  <2>2. QED
    BY <1>5, <2>1 DEF SubmitUndo, SubmitTo, SubmitEnds
<1>6. ASSUME NEW e \in Execs, Expire(e) PROVE TypeOK'
  BY <1>6 DEF Expire, Contexts
<1>7. ASSUME NEW w \in Workers, Dequeue(w) PROVE TypeOK'
  BY <1>7 DEF Dequeue, WorkerTo, Q!Take
<1>8. ASSUME NEW w \in Workers, Wait(w) \/ Leave(w) PROVE TypeOK'
  BY <1>8 DEF Wait, Leave, WorkerTo
<1>9. ASSUME NEW w \in Workers, CheckMark(w) PROVE TypeOK'
  BY <1>9 DEF CheckMark, WorkerTo, Q!Finish
<1>10. ASSUME NEW w \in Workers, Load(w) PROVE TypeOK'
  <2>1. job[w] \in Execs
    BY <1>10, JobIsExec DEF Load
  <2>2. QED
    BY <1>10, <2>1 DEF Load, WorkerTo, Q!Finish
<1>11. ASSUME NEW w \in Workers, Refuse(w) PROVE TypeOK'
  BY <1>11, RecTypes DEF Refuse, WorkerTo, Q!Finish, Classes
<1>12. ASSUME NEW w \in Workers, Acquire(w) PROVE TypeOK'
  <2>1. job[w] \in Execs
    BY <1>12, JobIsExec DEF Acquire
  <2>2. QED
    BY <1>12, <2>1 DEF Acquire, WorkerTo, Contexts
<1>13. ASSUME NEW w \in Workers, Start(w) PROVE TypeOK'
  <2>1. /\ executions' \in [Execs -> Records]
        /\ idempotency' \in [Keys -> Execs \cup {NoExec}]
        /\ disk' \in Store
        /\ faults' \in 0..MaxFaults
    BY <1>13, PutTypes, RecTypes, JobIsExec DEF Start
  <2>2. Rec("failed", "invalid") \in Records /\ Rec("running", "none") \in Records
    BY RecTypes DEF Classes
  <2>3. ASSUME NEW ok \in BOOLEAN, AfterStart(w, ok)
        PROVE  wpc' \in [Workers -> WorkerStates] /\ local' \in [Workers -> Records]
    BY <2>2, <2>3 DEF AfterStart, WorkerTo
  <2>4. wpc' \in [Workers -> WorkerStates] /\ local' \in [Workers -> Records]
    BY <1>13, <2>3 DEF Start
  <2>5. QED
    BY <1>13, <2>1, <2>4 DEF Start
<1>14. ASSUME NEW w \in Workers, Prepare(w) PROVE TypeOK'
  BY <1>14, RecTypes DEF Prepare, WorkerTo, Classes
<1>15. ASSUME NEW w \in Workers, Execute(w) PROVE TypeOK'
  <2>1. job[w] \in Execs
    BY <1>15, JobIsExec DEF Execute
  <2>2. QED
    BY <1>15, <2>1 DEF Execute, WorkerTo
<1>16. ASSUME NEW w \in Workers, Return(w) PROVE TypeOK'
  BY <1>16, OutcomeTypes DEF Return, WorkerTo
<1>17. ASSUME NEW w \in Workers, Commit(w) PROVE TypeOK'
  <2>1. /\ executions' \in [Execs -> Records]
        /\ idempotency' \in [Keys -> Execs \cup {NoExec}]
        /\ disk' \in Store
        /\ faults' \in 0..MaxFaults
    BY <1>17, PutTypes, RecTypes, JobIsExec DEF Commit
  <2>2. QED
    BY <1>17, <2>1 DEF Commit, WorkerTo, AfterCommit
<1>18. ASSUME NEW w \in Workers, Report(w) PROVE TypeOK'
  <2>1. job[w] \in Execs
    BY <1>18, JobIsExec DEF Report
  <2>2. QED
    BY <1>18, <2>1 DEF Report, WorkerTo
<1>19. ASSUME NEW w \in Workers, Fail(w) PROVE TypeOK'
  <2>1. /\ executions' \in [Execs -> Records]
        /\ idempotency' \in [Keys -> Execs \cup {NoExec}]
        /\ disk' \in Store
        /\ faults' \in 0..MaxFaults
    BY <1>19, PutTypes, RecTypes, JobIsExec DEF Fail
  <2>2. QED
    BY <1>19, <2>1 DEF Fail, WorkerTo, Q!Finish
<1>20. ASSUME NEW w \in Workers, Release(w) PROVE TypeOK'
  BY <1>20 DEF Release, WorkerTo, ReleaseLease, Q!Finish, Contexts
<1>21. ASSUME NEW k \in Cancels, CancelLoad(k) PROVE TypeOK'
  BY <1>21 DEF CancelLoad, CancelTo, CancelEnds
<1>22. ASSUME NEW k \in Cancels, CancelRunning(k) PROVE TypeOK'
  BY <1>22 DEF CancelRunning, CancelTo, CancelEnds, Contexts
<1>23. ASSUME NEW k \in Cancels, CancelMissing(k) PROVE TypeOK'
  BY <1>23 DEF CancelMissing, CancelTo
<1>24. ASSUME NEW k \in Cancels, CancelMark(k) PROVE TypeOK'
  BY <1>24 DEF CancelMark, CancelTo, TargetsKnown
<1>25. ASSUME NEW k \in Cancels, CancelWrite(k) PROVE TypeOK'
  <2>1. /\ executions' \in [Execs -> Records]
        /\ idempotency' \in [Keys -> Execs \cup {NoExec}]
        /\ disk' \in Store
        /\ faults' \in 0..MaxFaults
    BY <1>25, PutTypes, RecTypes DEF CancelWrite, WriteCanceled, TargetsKnown
  <2>2. QED
    BY <1>25, <2>1 DEF CancelWrite, CancelTo, CancelEnds, WriteCanceled
<1>26. ASSUME NEW r \in Execs \cup Cancels, Abandon(r) PROVE TypeOK'
  BY <1>26 DEF Abandon
<1>27. CASE Signal
  BY <1>27 DEF Signal, Q!Stop, Contexts
<1>28. CASE CloseQueue
  BY <1>28 DEF CloseQueue, Q!Shut
<1>29. CASE Restart
  <2>1. executions' \in [Execs -> Records] /\ idempotency' \in [Keys -> Execs \cup {NoExec}]
    BY <1>29, RecTypes DEF Restart, Store
  <2>2. disk' \in Store /\ restarts' \in 0..MaxRestarts
    BY <1>29, <2>1 DEF Restart, Store, ExecutionAssumption
  <2>3. local' \in [Workers -> Records] /\ wpc' \in [Workers -> WorkerStates]
    BY <1>29, RecTypes DEF Restart
  <2>4. spc' \in [Execs -> SubmitStates] /\ cpc' \in [Cancels -> CancelStates]
    BY <1>29 DEF Restart, SubmitEnds, CancelEnds
  <2>5. /\ queue' = {} /\ job' \in [Workers -> Execs \cup {NoExec}]
        /\ stopping' = FALSE /\ closed' = FALSE
        /\ canceled' = {} /\ payloads' = {} /\ cancels' = {} /\ leases' = {}
        /\ ctx' \in [Execs -> Contexts]
        /\ UNCHANGED <<target, gone, started, reported, faults>>
    BY <1>29 DEF Restart, Contexts
  <2>6. QED
    BY <2>1, <2>2, <2>3, <2>4, <2>5
<1>30. CASE UNCHANGED vars
  BY <1>30 DEF vars
<1> HIDE DEF Typed, TypeOK, SubmitStates, CancelStates, WorkerStates, storeVars,
           queueVars, runVars, workerVars, requestVars, historyVars
<1>31. QED
  BY <1>1, <1>2, <1>3, <1>4, <1>5, <1>6, <1>7, <1>8, <1>9, <1>10, <1>11, <1>12, <1>13,
     <1>14, <1>15, <1>16, <1>17, <1>18, <1>19, <1>20, <1>21, <1>22, <1>23, <1>24, <1>25,
     <1>26, <1>27, <1>28, <1>29, <1>30 DEF Next, Submit, Work, Cancel

(* Each step keeps hold of the ids that are worked on. *)
LEMMA HeldStep ==
    ASSUME ExecutionAssumption, Typed, [Next]_vars
    PROVE  (JobsHeld /\ TargetsKnown)'
<1> USE DEF Typed, JobsHeld, TargetsKnown, TypeOK, ExecutionAssumption, storeVars,
           queueVars, runVars, workerVars, requestVars, historyVars
<1>1. ASSUME NEW e \in Execs, SubmitFind(e) PROVE (JobsHeld /\ TargetsKnown)'
  BY <1>1 DEF SubmitFind
<1>2. ASSUME NEW e \in Execs, SubmitCreate(e) PROVE (JobsHeld /\ TargetsKnown)'
  BY <1>2 DEF SubmitCreate
<1>3. ASSUME NEW e \in Execs, SubmitSave(e) PROVE (JobsHeld /\ TargetsKnown)'
  BY <1>3 DEF SubmitSave
<1>4. ASSUME NEW e \in Execs, SubmitEnqueue(e) PROVE (JobsHeld /\ TargetsKnown)'
  BY <1>4 DEF SubmitEnqueue, Q!Put
<1>5. ASSUME NEW e \in Execs, SubmitUndo(e) PROVE (JobsHeld /\ TargetsKnown)'
  BY <1>5 DEF SubmitUndo
<1>6. ASSUME NEW e \in Execs, Expire(e) PROVE (JobsHeld /\ TargetsKnown)'
  BY <1>6 DEF Expire
<1>7. ASSUME NEW w \in Workers, Dequeue(w) PROVE (JobsHeld /\ TargetsKnown)'
  BY <1>7 DEF Dequeue, WorkerTo, Q!Take
<1>8. ASSUME NEW w \in Workers, Wait(w) \/ Leave(w) PROVE (JobsHeld /\ TargetsKnown)'
  BY <1>8 DEF Wait, Leave, WorkerTo
<1>9. ASSUME NEW w \in Workers, CheckMark(w) PROVE (JobsHeld /\ TargetsKnown)'
  BY <1>9 DEF CheckMark, WorkerTo, Q!Finish
<1>10. ASSUME NEW w \in Workers, Load(w) PROVE (JobsHeld /\ TargetsKnown)'
  BY <1>10 DEF Load, WorkerTo, Q!Finish
<1>11. ASSUME NEW w \in Workers, Refuse(w) PROVE (JobsHeld /\ TargetsKnown)'
  BY <1>11 DEF Refuse, WorkerTo, Q!Finish
<1>12. ASSUME NEW w \in Workers, Acquire(w) PROVE (JobsHeld /\ TargetsKnown)'
  BY <1>12 DEF Acquire, WorkerTo
<1>13. ASSUME NEW w \in Workers, Start(w) PROVE (JobsHeld /\ TargetsKnown)'
  BY <1>13 DEF Start, AfterStart, WorkerTo
<1>14. ASSUME NEW w \in Workers, Prepare(w) PROVE (JobsHeld /\ TargetsKnown)'
  BY <1>14 DEF Prepare, WorkerTo
<1>15. ASSUME NEW w \in Workers, Execute(w) PROVE (JobsHeld /\ TargetsKnown)'
  BY <1>15 DEF Execute, WorkerTo
<1>16. ASSUME NEW w \in Workers, Return(w) PROVE (JobsHeld /\ TargetsKnown)'
  BY <1>16 DEF Return, WorkerTo
<1>17. ASSUME NEW w \in Workers, Commit(w) PROVE (JobsHeld /\ TargetsKnown)'
  BY <1>17 DEF Commit, WorkerTo, AfterCommit
<1>18. ASSUME NEW w \in Workers, Report(w) PROVE (JobsHeld /\ TargetsKnown)'
  BY <1>18 DEF Report, WorkerTo
<1>19. ASSUME NEW w \in Workers, Fail(w) PROVE (JobsHeld /\ TargetsKnown)'
  BY <1>19 DEF Fail, WorkerTo, Q!Finish
<1>20. ASSUME NEW w \in Workers, Release(w) PROVE (JobsHeld /\ TargetsKnown)'
  BY <1>20 DEF Release, WorkerTo, Q!Finish
<1>21. ASSUME NEW k \in Cancels, CancelLoad(k) PROVE (JobsHeld /\ TargetsKnown)'
  BY <1>21 DEF CancelLoad, CancelTo
<1>22. ASSUME NEW k \in Cancels, CancelRunning(k) PROVE (JobsHeld /\ TargetsKnown)'
  BY <1>22 DEF CancelRunning, CancelTo
<1>23. ASSUME NEW k \in Cancels, CancelMissing(k) PROVE (JobsHeld /\ TargetsKnown)'
  BY <1>23 DEF CancelMissing, CancelTo
<1>24. ASSUME NEW k \in Cancels, CancelMark(k) PROVE (JobsHeld /\ TargetsKnown)'
  BY <1>24 DEF CancelMark, CancelTo
<1>25. ASSUME NEW k \in Cancels, CancelWrite(k) PROVE (JobsHeld /\ TargetsKnown)'
  BY <1>25 DEF CancelWrite, CancelTo, WriteCanceled
<1>26. ASSUME NEW r \in Execs \cup Cancels, Abandon(r) PROVE (JobsHeld /\ TargetsKnown)'
  BY <1>26 DEF Abandon
<1>27. CASE Signal
  BY <1>27 DEF Signal, Q!Stop
<1>28. CASE CloseQueue
  BY <1>28 DEF CloseQueue, Q!Shut
<1>29. CASE Restart
  BY <1>29 DEF Restart, CancelEnds
<1>30. CASE UNCHANGED vars
  BY <1>30 DEF vars
<1> HIDE DEF Typed, JobsHeld, TargetsKnown, TypeOK, ExecutionAssumption, storeVars,
           queueVars, runVars, workerVars, requestVars, historyVars
<1>31. QED
  BY <1>1, <1>2, <1>3, <1>4, <1>5, <1>6, <1>7, <1>8, <1>9, <1>10, <1>11, <1>12, <1>13,
     <1>14, <1>15, <1>16, <1>17, <1>18, <1>19, <1>20, <1>21, <1>22, <1>23, <1>24, <1>25,
     <1>26, <1>27, <1>28, <1>29, <1>30 DEF Next, Submit, Work, Cancel

-----------------------------------------------------------------------------
(* Only an accepted execution is queued or worked on. *)
AcceptedFirst ==
    \A e \in Execs : (e \in queue \/ \E w \in Workers : job[w] = e) => spc[e] = "accepted"

Owned == OneWorkerPerJob /\ AcceptedFirst

(* No step gives an id a second owner. *)
LEMMA OwnedStep ==
    ASSUME ExecutionAssumption, Typed, Owned, [Next]_vars
    PROVE  Owned'
<1> USE DEF Typed, JobsHeld, TypeOK, ExecutionAssumption, Owned, OneWorkerPerJob,
           AcceptedFirst, storeVars, queueVars, runVars, workerVars, requestVars,
           historyVars
<1>1. ASSUME NEW e \in Execs, SubmitFind(e) PROVE Owned'
  BY <1>1 DEF SubmitFind, SubmitTo
<1>2. ASSUME NEW e \in Execs, SubmitCreate(e) PROVE Owned'
  BY <1>2 DEF SubmitCreate, SubmitTo, AfterCreate
<1>3. ASSUME NEW e \in Execs, SubmitSave(e) PROVE Owned'
  BY <1>3 DEF SubmitSave, SubmitTo
<1>4. ASSUME NEW e \in Execs, SubmitEnqueue(e) PROVE Owned'
  BY <1>4 DEF SubmitEnqueue, SubmitTo, Q!Put
<1>5. ASSUME NEW e \in Execs, SubmitUndo(e) PROVE Owned'
  BY <1>5 DEF SubmitUndo, SubmitTo
<1>6. ASSUME NEW e \in Execs, Expire(e) PROVE Owned'
  BY <1>6 DEF Expire
<1>7. ASSUME NEW w \in Workers, Dequeue(w) PROVE Owned'
  BY <1>7 DEF Dequeue, WorkerTo, Q!Take
<1>8. ASSUME NEW w \in Workers, Wait(w) \/ Leave(w) PROVE Owned'
  BY <1>8 DEF Wait, Leave, WorkerTo
<1>9. ASSUME NEW w \in Workers, CheckMark(w) PROVE Owned'
  BY <1>9 DEF CheckMark, WorkerTo, Q!Finish
<1>10. ASSUME NEW w \in Workers, Load(w) PROVE Owned'
  BY <1>10 DEF Load, WorkerTo, Q!Finish
<1>11. ASSUME NEW w \in Workers, Refuse(w) PROVE Owned'
  BY <1>11 DEF Refuse, WorkerTo, Q!Finish
<1>12. ASSUME NEW w \in Workers, Acquire(w) PROVE Owned'
  BY <1>12 DEF Acquire, WorkerTo
<1>13. ASSUME NEW w \in Workers, Start(w) PROVE Owned'
  BY <1>13 DEF Start, AfterStart, WorkerTo
<1>14. ASSUME NEW w \in Workers, Prepare(w) PROVE Owned'
  BY <1>14 DEF Prepare, WorkerTo
<1>15. ASSUME NEW w \in Workers, Execute(w) PROVE Owned'
  BY <1>15 DEF Execute, WorkerTo
<1>16. ASSUME NEW w \in Workers, Return(w) PROVE Owned'
  BY <1>16 DEF Return, WorkerTo
<1>17. ASSUME NEW w \in Workers, Commit(w) PROVE Owned'
  BY <1>17 DEF Commit, WorkerTo, AfterCommit
<1>18. ASSUME NEW w \in Workers, Report(w) PROVE Owned'
  BY <1>18 DEF Report, WorkerTo
<1>19. ASSUME NEW w \in Workers, Fail(w) PROVE Owned'
  BY <1>19 DEF Fail, WorkerTo, Q!Finish
<1>20. ASSUME NEW w \in Workers, Release(w) PROVE Owned'
  BY <1>20 DEF Release, WorkerTo, Q!Finish
<1>21. ASSUME NEW k \in Cancels, CancelLoad(k) PROVE Owned'
  BY <1>21 DEF CancelLoad
<1>22. ASSUME NEW k \in Cancels, CancelRunning(k) PROVE Owned'
  BY <1>22 DEF CancelRunning
<1>23. ASSUME NEW k \in Cancels, CancelMissing(k) PROVE Owned'
  BY <1>23 DEF CancelMissing
<1>24. ASSUME NEW k \in Cancels, CancelMark(k) PROVE Owned'
  BY <1>24 DEF CancelMark
<1>25. ASSUME NEW k \in Cancels, CancelWrite(k) PROVE Owned'
  BY <1>25 DEF CancelWrite
<1>26. ASSUME NEW r \in Execs \cup Cancels, Abandon(r) PROVE Owned'
  BY <1>26 DEF Abandon
<1>27. CASE Signal
  BY <1>27 DEF Signal, Q!Stop
<1>28. CASE CloseQueue
  BY <1>28 DEF CloseQueue, Q!Shut
<1>29. CASE Restart
  BY <1>29 DEF Restart, SubmitEnds
<1>30. CASE UNCHANGED vars
  BY <1>30 DEF vars
<1> HIDE DEF Typed, JobsHeld, TypeOK, ExecutionAssumption, Owned, OneWorkerPerJob,
           AcceptedFirst, storeVars, queueVars, runVars, workerVars, requestVars,
           historyVars
<1>31. QED
  BY <1>1, <1>2, <1>3, <1>4, <1>5, <1>6, <1>7, <1>8, <1>9, <1>10, <1>11, <1>12, <1>13,
     <1>14, <1>15, <1>16, <1>17, <1>18, <1>19, <1>20, <1>21, <1>22, <1>23, <1>24, <1>25,
     <1>26, <1>27, <1>28, <1>29, <1>30 DEF Next, Submit, Work, Cancel

-----------------------------------------------------------------------------
(* The runtime was not called for an execution that is not accepted, waits in
   the queue, or is held by a worker that has not reached the call. *)
NotBegun ==
    \A e \in Execs :
        ( \/ spc[e] # "accepted"
          \/ e \in queue
          \/ \E w \in Workers : job[w] = e /\ wpc[w] \in BeforeRun ) => started[e] = 0

Begun == NotBegun /\ ExecutedAtMostOnce

(* No step calls the runtime a second time. *)
LEMMA BegunStep ==
    ASSUME ExecutionAssumption, Typed, Owned, Begun, [Next]_vars
    PROVE  Begun'
<1> USE DEF Typed, JobsHeld, TypeOK, ExecutionAssumption, Owned, OneWorkerPerJob,
           AcceptedFirst, Begun, NotBegun, BeforeRun, ExecutedAtMostOnce, storeVars,
           queueVars, runVars, workerVars, requestVars, historyVars
<1>1. ASSUME NEW e \in Execs, SubmitFind(e) PROVE Begun'
  BY <1>1 DEF SubmitFind, SubmitTo
<1>2. ASSUME NEW e \in Execs, SubmitCreate(e) PROVE Begun'
  BY <1>2 DEF SubmitCreate, SubmitTo, AfterCreate
<1>3. ASSUME NEW e \in Execs, SubmitSave(e) PROVE Begun'
  BY <1>3 DEF SubmitSave, SubmitTo
<1>4. ASSUME NEW e \in Execs, SubmitEnqueue(e) PROVE Begun'
  BY <1>4 DEF SubmitEnqueue, SubmitTo, Q!Put
<1>5. ASSUME NEW e \in Execs, SubmitUndo(e) PROVE Begun'
  BY <1>5 DEF SubmitUndo, SubmitTo
<1>6. ASSUME NEW e \in Execs, Expire(e) PROVE Begun'
  BY <1>6 DEF Expire
<1>7. ASSUME NEW w \in Workers, Dequeue(w) PROVE Begun'
  BY <1>7 DEF Dequeue, WorkerTo, Q!Take
<1>8. ASSUME NEW w \in Workers, Wait(w) \/ Leave(w) PROVE Begun'
  BY <1>8 DEF Wait, Leave, WorkerTo
<1>9. ASSUME NEW w \in Workers, CheckMark(w) PROVE Begun'
  BY <1>9 DEF CheckMark, WorkerTo, Q!Finish
<1>10. ASSUME NEW w \in Workers, Load(w) PROVE Begun'
  BY <1>10 DEF Load, WorkerTo, Q!Finish
<1>11. ASSUME NEW w \in Workers, Refuse(w) PROVE Begun'
  BY <1>11 DEF Refuse, WorkerTo, Q!Finish
<1>12. ASSUME NEW w \in Workers, Acquire(w) PROVE Begun'
  BY <1>12 DEF Acquire, WorkerTo
<1>13. ASSUME NEW w \in Workers, Start(w) PROVE Begun'
  BY <1>13 DEF Start, AfterStart, WorkerTo
<1>14. ASSUME NEW w \in Workers, Prepare(w) PROVE Begun'
  BY <1>14 DEF Prepare, WorkerTo
<1>15. ASSUME NEW w \in Workers, Execute(w) PROVE Begun'
  BY <1>15 DEF Execute, WorkerTo
<1>16. ASSUME NEW w \in Workers, Return(w) PROVE Begun'
  BY <1>16 DEF Return, WorkerTo
<1>17. ASSUME NEW w \in Workers, Commit(w) PROVE Begun'
  BY <1>17 DEF Commit, WorkerTo, AfterCommit
<1>18. ASSUME NEW w \in Workers, Report(w) PROVE Begun'
  BY <1>18 DEF Report, WorkerTo
<1>19. ASSUME NEW w \in Workers, Fail(w) PROVE Begun'
  BY <1>19 DEF Fail, WorkerTo, Q!Finish
<1>20. ASSUME NEW w \in Workers, Release(w) PROVE Begun'
  BY <1>20 DEF Release, WorkerTo, Q!Finish
<1>21. ASSUME NEW k \in Cancels, CancelLoad(k) PROVE Begun'
  BY <1>21 DEF CancelLoad
<1>22. ASSUME NEW k \in Cancels, CancelRunning(k) PROVE Begun'
  BY <1>22 DEF CancelRunning
<1>23. ASSUME NEW k \in Cancels, CancelMissing(k) PROVE Begun'
  BY <1>23 DEF CancelMissing
<1>24. ASSUME NEW k \in Cancels, CancelMark(k) PROVE Begun'
  BY <1>24 DEF CancelMark
<1>25. ASSUME NEW k \in Cancels, CancelWrite(k) PROVE Begun'
  BY <1>25 DEF CancelWrite
<1>26. ASSUME NEW r \in Execs \cup Cancels, Abandon(r) PROVE Begun'
  BY <1>26 DEF Abandon
<1>27. CASE Signal
  BY <1>27 DEF Signal, Q!Stop
<1>28. CASE CloseQueue
  BY <1>28 DEF CloseQueue, Q!Shut
<1>29. CASE Restart
  BY <1>29 DEF Restart, SubmitEnds
<1>30. CASE UNCHANGED vars
  BY <1>30 DEF vars
<1> HIDE DEF Typed, JobsHeld, TypeOK, ExecutionAssumption, Owned, OneWorkerPerJob,
           AcceptedFirst, Begun, NotBegun, BeforeRun, ExecutedAtMostOnce, storeVars,
           queueVars, runVars, workerVars, requestVars, historyVars
<1>31. QED
  BY <1>1, <1>2, <1>3, <1>4, <1>5, <1>6, <1>7, <1>8, <1>9, <1>10, <1>11, <1>12, <1>13,
     <1>14, <1>15, <1>16, <1>17, <1>18, <1>19, <1>20, <1>21, <1>22, <1>23, <1>24, <1>25,
     <1>26, <1>27, <1>28, <1>29, <1>30 DEF Next, Submit, Work, Cancel

-----------------------------------------------------------------------------
(* The payload is put before the job. *)
PayloadFirst == \A e \in Execs : spc[e] = "enqueue" => e \in payloads

Supplied == PayloadFirst /\ PayloadWaitsForRun

(* No step takes the payload of an execution that is still to run. *)
LEMMA SuppliedStep ==
    ASSUME ExecutionAssumption, Typed, Owned, Begun, Supplied, [Next]_vars
    PROVE  Supplied'
<1> USE DEF Typed, JobsHeld, TypeOK, ExecutionAssumption, Owned, OneWorkerPerJob,
           AcceptedFirst, Begun, NotBegun, BeforeRun, Supplied, PayloadFirst,
           PayloadWaitsForRun, storeVars, queueVars, runVars, workerVars, requestVars,
           historyVars
<1>1. ASSUME NEW e \in Execs, SubmitFind(e) PROVE Supplied'
  BY <1>1 DEF SubmitFind, SubmitTo
<1>2. ASSUME NEW e \in Execs, SubmitCreate(e) PROVE Supplied'
  BY <1>2 DEF SubmitCreate, SubmitTo, AfterCreate
<1>3. ASSUME NEW e \in Execs, SubmitSave(e) PROVE Supplied'
  BY <1>3 DEF SubmitSave, SubmitTo
<1>4. ASSUME NEW e \in Execs, SubmitEnqueue(e) PROVE Supplied'
  BY <1>4 DEF SubmitEnqueue, SubmitTo, Q!Put
<1>5. ASSUME NEW e \in Execs, SubmitUndo(e) PROVE Supplied'
  BY <1>5 DEF SubmitUndo, SubmitTo
<1>6. ASSUME NEW e \in Execs, Expire(e) PROVE Supplied'
  BY <1>6 DEF Expire
<1>7. ASSUME NEW w \in Workers, Dequeue(w) PROVE Supplied'
  BY <1>7 DEF Dequeue, WorkerTo, Q!Take
<1>8. ASSUME NEW w \in Workers, Wait(w) \/ Leave(w) PROVE Supplied'
  BY <1>8 DEF Wait, Leave, WorkerTo
<1>9. ASSUME NEW w \in Workers, CheckMark(w) PROVE Supplied'
  BY <1>9 DEF CheckMark, WorkerTo, Q!Finish
<1>10. ASSUME NEW w \in Workers, Load(w) PROVE Supplied'
  BY <1>10 DEF Load, WorkerTo, Q!Finish
<1>11. ASSUME NEW w \in Workers, Refuse(w) PROVE Supplied'
  BY <1>11 DEF Refuse, WorkerTo, Q!Finish
<1>12. ASSUME NEW w \in Workers, Acquire(w) PROVE Supplied'
  BY <1>12 DEF Acquire, WorkerTo
<1>13. ASSUME NEW w \in Workers, Start(w) PROVE Supplied'
  BY <1>13 DEF Start, AfterStart, WorkerTo
<1>14. ASSUME NEW w \in Workers, Prepare(w) PROVE Supplied'
  BY <1>14 DEF Prepare, WorkerTo
<1>15. ASSUME NEW w \in Workers, Execute(w) PROVE Supplied'
  BY <1>15 DEF Execute, WorkerTo
<1>16. ASSUME NEW w \in Workers, Return(w) PROVE Supplied'
  BY <1>16 DEF Return, WorkerTo
<1>17. ASSUME NEW w \in Workers, Commit(w) PROVE Supplied'
  BY <1>17 DEF Commit, WorkerTo, AfterCommit
<1>18. ASSUME NEW w \in Workers, Report(w) PROVE Supplied'
  BY <1>18 DEF Report, WorkerTo
<1>19. ASSUME NEW w \in Workers, Fail(w) PROVE Supplied'
  BY <1>19 DEF Fail, WorkerTo, Q!Finish
<1>20. ASSUME NEW w \in Workers, Release(w) PROVE Supplied'
  BY <1>20 DEF Release, WorkerTo, Q!Finish
<1>21. ASSUME NEW k \in Cancels, CancelLoad(k) PROVE Supplied'
  BY <1>21 DEF CancelLoad
<1>22. ASSUME NEW k \in Cancels, CancelRunning(k) PROVE Supplied'
  BY <1>22 DEF CancelRunning
<1>23. ASSUME NEW k \in Cancels, CancelMissing(k) PROVE Supplied'
  BY <1>23 DEF CancelMissing
<1>24. ASSUME NEW k \in Cancels, CancelMark(k) PROVE Supplied'
  BY <1>24 DEF CancelMark
<1>25. ASSUME NEW k \in Cancels, CancelWrite(k) PROVE Supplied'
  BY <1>25 DEF CancelWrite
<1>26. ASSUME NEW r \in Execs \cup Cancels, Abandon(r) PROVE Supplied'
  BY <1>26 DEF Abandon
<1>27. CASE Signal
  BY <1>27 DEF Signal, Q!Stop
<1>28. CASE CloseQueue
  BY <1>28 DEF CloseQueue, Q!Shut
<1>29. CASE Restart
  BY <1>29 DEF Restart, SubmitEnds
<1>30. CASE UNCHANGED vars
  BY <1>30 DEF vars
<1> HIDE DEF Typed, JobsHeld, TypeOK, ExecutionAssumption, Owned, OneWorkerPerJob,
           AcceptedFirst, Begun, NotBegun, BeforeRun, Supplied, PayloadFirst,
           PayloadWaitsForRun, storeVars, queueVars, runVars, workerVars, requestVars,
           historyVars
<1>31. QED
  BY <1>1, <1>2, <1>3, <1>4, <1>5, <1>6, <1>7, <1>8, <1>9, <1>10, <1>11, <1>12, <1>13,
     <1>14, <1>15, <1>16, <1>17, <1>18, <1>19, <1>20, <1>21, <1>22, <1>23, <1>24, <1>25,
     <1>26, <1>27, <1>28, <1>29, <1>30 DEF Next, Submit, Work, Cancel

(* A step that begins a run takes the lease, and one that ends it gives it back. *)
LEMMA LeasesStep ==
    ASSUME ExecutionAssumption, Typed, Owned, LeasesMatchRuns, [Next]_vars
    PROVE  LeasesMatchRuns'
<1> USE DEF Typed, JobsHeld, TypeOK, ExecutionAssumption, Owned, OneWorkerPerJob,
           LeasesMatchRuns, InRun, storeVars, queueVars, runVars, workerVars,
           requestVars, historyVars
<1>1. ASSUME NEW e \in Execs, SubmitFind(e) PROVE LeasesMatchRuns'
  BY <1>1 DEF SubmitFind
<1>2. ASSUME NEW e \in Execs, SubmitCreate(e) PROVE LeasesMatchRuns'
  BY <1>2 DEF SubmitCreate
<1>3. ASSUME NEW e \in Execs, SubmitSave(e) PROVE LeasesMatchRuns'
  BY <1>3 DEF SubmitSave
<1>4. ASSUME NEW e \in Execs, SubmitEnqueue(e) PROVE LeasesMatchRuns'
  BY <1>4 DEF SubmitEnqueue, Q!Put
<1>5. ASSUME NEW e \in Execs, SubmitUndo(e) PROVE LeasesMatchRuns'
  BY <1>5 DEF SubmitUndo
<1>6. ASSUME NEW e \in Execs, Expire(e) PROVE LeasesMatchRuns'
  BY <1>6 DEF Expire
<1>7. ASSUME NEW w \in Workers, Dequeue(w) PROVE LeasesMatchRuns'
  BY <1>7 DEF Dequeue, WorkerTo, Q!Take
<1>8. ASSUME NEW w \in Workers, Wait(w) \/ Leave(w) PROVE LeasesMatchRuns'
  BY <1>8 DEF Wait, Leave, WorkerTo
<1>9. ASSUME NEW w \in Workers, CheckMark(w) PROVE LeasesMatchRuns'
  <2>1. \A v \in Workers : v # w => job'[v] = job[v] /\ (InRun(v)' <=> InRun(v))
    BY <1>9 DEF CheckMark, WorkerTo, Q!Finish
  <2>2. ~InRun(w) /\ ~InRun(w)' /\ UNCHANGED <<leases, cancels>>
    BY <1>9 DEF CheckMark, WorkerTo
  <2>3. QED
    BY <2>1, <2>2
<1>10. ASSUME NEW w \in Workers, Load(w) PROVE LeasesMatchRuns'
  BY <1>10 DEF Load, WorkerTo, Q!Finish
<1>11. ASSUME NEW w \in Workers, Refuse(w) PROVE LeasesMatchRuns'
  BY <1>11 DEF Refuse, WorkerTo, Q!Finish, Rec
<1>12. ASSUME NEW w \in Workers, Acquire(w) PROVE LeasesMatchRuns'
  BY <1>12 DEF Acquire, WorkerTo
<1>13. ASSUME NEW w \in Workers, Start(w) PROVE LeasesMatchRuns'
  <2>1. UNCHANGED <<job, leases, cancels>>
    BY <1>13 DEF Start
  <2>2. \A v \in Workers : v # w => (InRun(v)' <=> InRun(v))
    BY <1>13 DEF Start, AfterStart, WorkerTo
  <2>3. InRun(w) /\ InRun(w)'
    <3>1. ASSUME NEW ok \in BOOLEAN, AfterStart(w, ok)
          PROVE  \/ wpc'[w] \in {"release", "prepare"}
                 \/ wpc'[w] = "fail" /\ local'[w] = Rec("failed", "invalid")
      BY <3>1 DEF AfterStart, WorkerTo
    <3>2. Rec("failed", "invalid").class # "resource"
      BY DEF Rec
    <3>3. QED
      BY <1>13, <3>1, <3>2 DEF Start
  <2>4. QED
    BY <2>1, <2>2, <2>3
<1>14. ASSUME NEW w \in Workers, Prepare(w) PROVE LeasesMatchRuns'
  BY <1>14 DEF Prepare, WorkerTo, Rec
<1>15. ASSUME NEW w \in Workers, Execute(w) PROVE LeasesMatchRuns'
  BY <1>15 DEF Execute, WorkerTo
<1>16. ASSUME NEW w \in Workers, Return(w) PROVE LeasesMatchRuns'
  BY <1>16 DEF Return, WorkerTo
<1>17. ASSUME NEW w \in Workers, Commit(w) PROVE LeasesMatchRuns'
  BY <1>17 DEF Commit, WorkerTo, AfterCommit
<1>18. ASSUME NEW w \in Workers, Report(w) PROVE LeasesMatchRuns'
  BY <1>18 DEF Report, WorkerTo
<1>19. ASSUME NEW w \in Workers, Fail(w) PROVE LeasesMatchRuns'
  BY <1>19 DEF Fail, WorkerTo, Q!Finish
<1>20. ASSUME NEW w \in Workers, Release(w) PROVE LeasesMatchRuns'
  BY <1>20 DEF Release, WorkerTo, Q!Finish, ReleaseLease
<1>21. ASSUME NEW k \in Cancels, CancelLoad(k) PROVE LeasesMatchRuns'
  BY <1>21 DEF CancelLoad
<1>22. ASSUME NEW k \in Cancels, CancelRunning(k) PROVE LeasesMatchRuns'
  BY <1>22 DEF CancelRunning
<1>23. ASSUME NEW k \in Cancels, CancelMissing(k) PROVE LeasesMatchRuns'
  BY <1>23 DEF CancelMissing
<1>24. ASSUME NEW k \in Cancels, CancelMark(k) PROVE LeasesMatchRuns'
  BY <1>24 DEF CancelMark
<1>25. ASSUME NEW k \in Cancels, CancelWrite(k) PROVE LeasesMatchRuns'
  BY <1>25 DEF CancelWrite
<1>26. ASSUME NEW r \in Execs \cup Cancels, Abandon(r) PROVE LeasesMatchRuns'
  BY <1>26 DEF Abandon
<1>27. CASE Signal
  BY <1>27 DEF Signal, Q!Stop
<1>28. CASE CloseQueue
  BY <1>28 DEF CloseQueue, Q!Shut
<1>29. CASE Restart
  BY <1>29 DEF Restart, CancelEnds
<1>30. CASE UNCHANGED vars
  BY <1>30 DEF vars
<1> HIDE DEF Typed, JobsHeld, TypeOK, ExecutionAssumption, Owned, OneWorkerPerJob,
           LeasesMatchRuns, InRun, storeVars, queueVars, runVars, workerVars,
           requestVars, historyVars
<1>31. QED
  BY <1>1, <1>2, <1>3, <1>4, <1>5, <1>6, <1>7, <1>8, <1>9, <1>10, <1>11, <1>12, <1>13,
     <1>14, <1>15, <1>16, <1>17, <1>18, <1>19, <1>20, <1>21, <1>22, <1>23, <1>24, <1>25,
     <1>26, <1>27, <1>28, <1>29, <1>30 DEF Next, Submit, Work, Cancel

-----------------------------------------------------------------------------
(* A record is in the file before Submit goes on, and before a key points to it. *)
RecordFirst ==
    \A e \in Execs : spc[e] \in {"save", "enqueue", "undo", "accepted"} =>
        Exists(executions[e]) /\ Exists(disk.executions[e])

(* What a worker writes at the end of a run is an outcome, and of a run that
   took place if it is to be reported. *)
OutcomeReady ==
    \A w \in Workers :
        /\ wpc[w] \in {"commit", "fail"} => local[w].status \in TerminalStatus
        /\ wpc[w] \in {"running", "commit", "report"} => started[job[w]] > 0

(* An execution that is reported, or about to be, was run and is final. *)
ReportedIsFinal ==
    \A e \in Execs :
        (e \in reported \/ \E w \in Workers : job[w] = e /\ wpc[w] = "report") =>
            /\ started[e] > 0
            /\ executions[e].status \in TerminalStatus
            /\ disk.executions[e].status \in TerminalStatus

Filed == RecordFirst /\ KeysPointToRecords /\ OutcomeReady /\ ReportedIsFinal

(* What a write does to the records in memory and in the file. *)
LEMMA PutFiles ==
    ASSUME ExecutionAssumption, Typed, NEW e \in Execs, NEW r \in Records,
           NEW ok \in BOOLEAN, Put(e, r, ok)
    PROVE  /\ executions'[e] = r
           /\ \A x \in Execs : x # e => executions'[x] = executions[x]
           /\ idempotency' = idempotency
           /\ ok => disk'.executions = executions' /\ disk'.idempotency = idempotency
           /\ ~ok => disk' = disk
<1>1. executions' = [executions EXCEPT ![e] = r] /\ idempotency' = idempotency
  BY DEF Put
<1>2. ok => disk'.executions = executions' /\ disk'.idempotency = idempotency
  BY <1>1 DEF Put, Persist
<1>3. ~ok => disk' = disk
  BY DEF Put, Persist
<1>4. QED
  BY <1>1, <1>2, <1>3 DEF Typed, TypeOK

(* The Update to running fails before it writes, or writes. *)
LEMMA StartWrites ==
    ASSUME NEW w \in Workers, Start(w)
    PROVE  \/ UNCHANGED storeVars
           \/ \E ok \in BOOLEAN : Put(job[w], Rec("running", "none"), ok)
  BY DEF Start

(* A write of a record leaves no key without its record. *)
LEMMA PutKeys ==
    ASSUME ExecutionAssumption, Typed, KeysPointToRecords, NEW e \in Execs,
           NEW r \in Records, Exists(r), NEW ok \in BOOLEAN, Put(e, r, ok)
    PROVE  KeysPointToRecords'
<1>1. /\ idempotency' = idempotency
      /\ \A x \in Execs : Exists(executions[x]) => Exists(executions'[x])
  BY PutFiles
<1>2. \/ disk'.idempotency = idempotency /\ disk'.executions = executions'
      \/ disk' = disk
  BY PutFiles
<1>3. QED
  BY <1>1, <1>2 DEF KeysPointToRecords, Typed, TypeOK

LEMMA RecFields == \A s, c : Rec(s, c).status = s /\ Rec(s, c).class = c
  BY DEF Rec

(* A recovered record exists as before and stays final. *)
LEMMA RecoveredFields ==
    ASSUME NEW r \in Records
    PROVE  /\ Exists(Recovered(r)) <=> Exists(r)
           /\ r.status \in TerminalStatus => Recovered(r).status \in TerminalStatus
  BY DEF Recovered, Records, Rec, Exists, TerminalStatus

LEMMA OutcomesAreFinal == ASSUME NEW c, NEW r \in Outcomes(c)
      PROVE  r.status \in TerminalStatus
  BY RecFields DEF Outcomes, TerminalStatus

(* No step loses a record or takes an outcome back. *)
LEMMA FiledStep ==
    ASSUME ExecutionAssumption, Typed, Owned, Begun, Filed, [Next]_vars
    PROVE  Filed'
<1> USE DEF Typed, JobsHeld, TargetsKnown, TypeOK, ExecutionAssumption, Owned,
           OneWorkerPerJob, AcceptedFirst, Begun, NotBegun, BeforeRun, Filed,
           RecordFirst, OutcomeReady, ReportedIsFinal, KeysPointToRecords, storeVars,
           queueVars, runVars, workerVars, requestVars, historyVars
<1>1. ASSUME NEW e \in Execs, SubmitFind(e) PROVE Filed'
  BY <1>1 DEF SubmitFind, SubmitTo
<1>2. ASSUME NEW e \in Execs, SubmitCreate(e) PROVE Filed'
  <2>1. Rec("queued", "none") \in Records /\ e \in Execs
    BY <1>2, RecTypes DEF SubmitCreate
  <2>2. CASE SubmitTo(e, "refused") /\ UNCHANGED storeVars
    BY <1>2, <2>2 DEF SubmitCreate, SubmitTo, AfterCreate, Exists, TerminalStatus
  <2>3. ASSUME NEW ok \in BOOLEAN, Put(e, Rec("queued", "none"), ok), SubmitTo(e, AfterCreate(ok))
        PROVE  Filed'
    <3> DEFINE x == e
               r == Rec("queued", "none")
    <3>1. /\ executions'[x] = r
          /\ \A y \in Execs : y # x => executions'[y] = executions[y]
          /\ idempotency' = idempotency
          /\ ok => disk'.executions = executions' /\ disk'.idempotency = idempotency
          /\ ~ok => disk' = disk
      BY <2>1, <2>3, PutFiles
    <3>2. r.status \in Status \ {"absent"}
      BY RecFields DEF Status, TerminalStatus
    <3>3. RecordFirst'
      BY <1>2, <2>1, <2>3, <3>1, <3>2 DEF SubmitCreate, SubmitTo, AfterCreate, Exists
    <3>4. KeysPointToRecords'
      BY <2>1, <2>3, <3>2, PutKeys DEF Exists
    <3>5. OutcomeReady'
      BY <1>2, <2>1, <2>3, <3>1, <3>2 DEF SubmitCreate, SubmitTo, AfterCreate
    <3>6. ReportedIsFinal'
      BY <1>2, <2>1, <2>3, <3>1, <3>2, RecFields DEF SubmitCreate, SubmitTo, AfterCreate,
         TerminalStatus
    <3>7. QED
      BY <3>3, <3>4, <3>5, <3>6
  <2>4. QED
    BY <1>2, <2>3, <2>2 DEF SubmitCreate, SubmitTo, AfterCreate
<1>3. ASSUME NEW e \in Execs, SubmitSave(e) PROVE Filed'
  BY <1>3 DEF SubmitSave, SubmitTo, Persist
<1>4. ASSUME NEW e \in Execs, SubmitEnqueue(e) PROVE Filed'
  BY <1>4 DEF SubmitEnqueue, SubmitTo, Q!Put
<1>5. ASSUME NEW e \in Execs, SubmitUndo(e) PROVE Filed'
  <2>1. Rec("failed", "unavailable") \in Records /\ e \in Execs
    BY <1>5, RecTypes DEF SubmitUndo, Classes
  <2>2. CASE SubmitTo(e, "refused") /\ UNCHANGED storeVars
    BY <1>5, <2>2 DEF SubmitUndo, SubmitTo, Exists, TerminalStatus
  <2>3. ASSUME NEW ok \in BOOLEAN, Put(e, Rec("failed", "unavailable"), ok), SubmitTo(e, "refused")
        PROVE  Filed'
    <3> DEFINE x == e
               r == Rec("failed", "unavailable")
    <3>1. /\ executions'[x] = r
          /\ \A y \in Execs : y # x => executions'[y] = executions[y]
          /\ idempotency' = idempotency
          /\ ok => disk'.executions = executions' /\ disk'.idempotency = idempotency
          /\ ~ok => disk' = disk
      BY <2>1, <2>3, PutFiles
    <3>2. r.status \in Status \ {"absent"}
      BY RecFields DEF Status, TerminalStatus
    <3>3. RecordFirst'
      BY <1>5, <2>1, <2>3, <3>1, <3>2 DEF SubmitUndo, SubmitTo, Exists
    <3>4. KeysPointToRecords'
      BY <2>1, <2>3, <3>2, PutKeys DEF Exists
    <3>5. OutcomeReady'
      BY <1>5, <2>1, <2>3, <3>1, <3>2 DEF SubmitUndo, SubmitTo
    <3>6. ReportedIsFinal'
      BY <1>5, <2>1, <2>3, <3>1, <3>2, RecFields DEF SubmitUndo, SubmitTo, TerminalStatus
    <3>7. QED
      BY <3>3, <3>4, <3>5, <3>6
  <2>4. QED
    BY <1>5, <2>3, <2>2 DEF SubmitUndo, SubmitTo
<1>6. ASSUME NEW e \in Execs, Expire(e) PROVE Filed'
  BY <1>6 DEF Expire
<1>7. ASSUME NEW w \in Workers, Dequeue(w) PROVE Filed'
  BY <1>7 DEF Dequeue, WorkerTo, Q!Take
<1>8. ASSUME NEW w \in Workers, Wait(w) \/ Leave(w) PROVE Filed'
  BY <1>8 DEF Wait, Leave, WorkerTo
<1>9. ASSUME NEW w \in Workers, CheckMark(w) PROVE Filed'
  BY <1>9 DEF CheckMark, WorkerTo, Q!Finish
<1>10. ASSUME NEW w \in Workers, Load(w) PROVE Filed'
  BY <1>10 DEF Load, WorkerTo, Q!Finish
<1>11. ASSUME NEW w \in Workers, Refuse(w) PROVE Filed'
  BY <1>11 DEF Refuse, WorkerTo, Q!Finish, Rec, TerminalStatus
<1>12. ASSUME NEW w \in Workers, Acquire(w) PROVE Filed'
  BY <1>12 DEF Acquire, WorkerTo
<1>13. ASSUME NEW w \in Workers, Start(w) PROVE Filed'
  <2>1. Rec("running", "none") \in Records /\ job[w] \in Execs
    BY <1>13, RecTypes, JobIsExec DEF Start
  <2>2. CASE AfterStart(w, FALSE) /\ UNCHANGED storeVars
    BY <1>13, <2>2 DEF Start, AfterStart, WorkerTo, Exists, TerminalStatus
  <2>3. ASSUME NEW ok \in BOOLEAN, Put(job[w], Rec("running", "none"), ok), AfterStart(w, ok)
        PROVE  Filed'
    <3> DEFINE x == job[w]
               r == Rec("running", "none")
    <3>1. /\ executions'[x] = r
          /\ \A y \in Execs : y # x => executions'[y] = executions[y]
          /\ idempotency' = idempotency
          /\ ok => disk'.executions = executions' /\ disk'.idempotency = idempotency
          /\ ~ok => disk' = disk
      BY <2>1, <2>3, PutFiles
    <3>2. r.status \in Status \ {"absent"}
      BY RecFields DEF Status, TerminalStatus
    <3>3. /\ \A v \in Workers : v # w => wpc'[v] = wpc[v] /\ local'[v] = local[v]
          /\ wpc'[w] \in {"release", "prepare", "fail"}
          /\ wpc'[w] = "fail" => local'[w] = Rec("failed", "invalid")
          /\ UNCHANGED <<job, spc, reported, started, queue>>
      BY <1>13, <2>3 DEF Start, AfterStart, WorkerTo
    <3>4. RecordFirst'
      BY <1>13, <2>1, <3>1, <3>2, <3>3 DEF Exists
    <3>5. KeysPointToRecords'
      BY <2>1, <2>3, <3>2, PutKeys DEF Exists
    <3>6. OutcomeReady'
      <4>1. Rec("failed", "invalid").status \in TerminalStatus
        BY RecFields DEF TerminalStatus
      <4>2. QED
        BY <2>1, <3>1, <3>3, <4>1
    <3>7. ReportedIsFinal'
      <4>1. started[job[w]] = 0
        BY <1>13, <2>1 DEF Start
      <4>2. \A y \in Execs : y # job[w] => disk'.executions[y] \in
                                 {disk.executions[y], executions[y]}
        BY <3>1
      <4>3. QED
        BY <2>1, <3>1, <3>3, <4>1, <4>2
    <3>8. QED
      BY <3>4, <3>5, <3>6, <3>7
  <2>4. QED
    BY <1>13, <2>3, <2>2, ZenonT(30) DEF Start
<1>14. ASSUME NEW w \in Workers, Prepare(w) PROVE Filed'
  BY <1>14 DEF Prepare, WorkerTo, Rec, TerminalStatus
<1>15. ASSUME NEW w \in Workers, Execute(w) PROVE Filed'
  BY <1>15 DEF Execute, WorkerTo
<1>16. ASSUME NEW w \in Workers, Return(w) PROVE Filed'
  BY <1>16, OutcomesAreFinal DEF Return, WorkerTo
<1>17. ASSUME NEW w \in Workers, Commit(w) PROVE Filed'
  <2>1. local[w] \in Records /\ job[w] \in Execs
    BY <1>17, RecTypes, JobIsExec DEF Commit
  <2>3. ASSUME NEW ok \in BOOLEAN, Put(job[w], local[w], ok), WorkerTo(w, AfterCommit(ok))
        PROVE  Filed'
    <3> DEFINE x == job[w]
               r == local[w]
    <3>1. /\ executions'[x] = r
          /\ \A y \in Execs : y # x => executions'[y] = executions[y]
          /\ idempotency' = idempotency
          /\ ok => disk'.executions = executions' /\ disk'.idempotency = idempotency
          /\ ~ok => disk' = disk
      BY <2>1, <2>3, PutFiles
    <3>2. r.status \in Status \ {"absent"}
      BY <1>17 DEF Commit, Status, TerminalStatus
    <3>3. RecordFirst'
      BY <1>17, <2>1, <2>3, <3>1, <3>2 DEF Commit, WorkerTo, AfterCommit, Exists
    <3>4. KeysPointToRecords'
      BY <2>1, <2>3, <3>2, PutKeys DEF Exists
    <3>5. OutcomeReady'
      BY <1>17, <2>1, <2>3, <3>1, <3>2 DEF Commit, WorkerTo, AfterCommit
    <3>6. ReportedIsFinal'
      BY <1>17, <2>1, <2>3, <3>1, <3>2, RecFields DEF Commit, WorkerTo, AfterCommit,
         TerminalStatus
    <3>7. QED
      BY <3>3, <3>4, <3>5, <3>6
  <2>4. QED
    BY <1>17, <2>3, ZenonT(30) DEF Commit, WorkerTo, AfterCommit
<1>18. ASSUME NEW w \in Workers, Report(w) PROVE Filed'
  BY <1>18 DEF Report, WorkerTo
<1>19. ASSUME NEW w \in Workers, Fail(w) PROVE Filed'
  <2>1. local[w] \in Records /\ job[w] \in Execs
    BY <1>19, RecTypes, JobIsExec DEF Fail
  <2>2. CASE UNCHANGED storeVars
    BY <1>19, <2>2 DEF Fail, WorkerTo, Q!Finish, Exists, TerminalStatus
  <2>3. ASSUME NEW ok \in BOOLEAN, Put(job[w], local[w], ok)
        PROVE  Filed'
    <3> DEFINE x == job[w]
               r == local[w]
    <3>1. /\ executions'[x] = r
          /\ \A y \in Execs : y # x => executions'[y] = executions[y]
          /\ idempotency' = idempotency
          /\ ok => disk'.executions = executions' /\ disk'.idempotency = idempotency
          /\ ~ok => disk' = disk
      BY <2>1, <2>3, PutFiles
    <3>2. r.status \in Status \ {"absent"}
      BY <1>19 DEF Fail, Status, TerminalStatus
    <3>3. RecordFirst'
      BY <1>19, <2>1, <2>3, <3>1, <3>2 DEF Fail, WorkerTo, Q!Finish, Exists
    <3>4. KeysPointToRecords'
      BY <2>1, <2>3, <3>2, PutKeys DEF Exists
    <3>5. OutcomeReady'
      BY <1>19, <2>1, <2>3, <3>1, <3>2 DEF Fail, WorkerTo, Q!Finish
    <3>6. ReportedIsFinal'
      BY <1>19, <2>1, <2>3, <3>1, <3>2, RecFields DEF Fail, WorkerTo, Q!Finish,
         TerminalStatus
    <3>7. QED
      BY <3>3, <3>4, <3>5, <3>6
  <2>4. QED
    BY <1>19, <2>3, <2>2 DEF Fail, WorkerTo, Q!Finish
<1>20. ASSUME NEW w \in Workers, Release(w) PROVE Filed'
  BY <1>20 DEF Release, WorkerTo, Q!Finish
<1>21. ASSUME NEW k \in Cancels, CancelLoad(k) PROVE Filed'
  BY <1>21 DEF CancelLoad
<1>22. ASSUME NEW k \in Cancels, CancelRunning(k) PROVE Filed'
  BY <1>22 DEF CancelRunning
<1>23. ASSUME NEW k \in Cancels, CancelMissing(k) PROVE Filed'
  BY <1>23 DEF CancelMissing
<1>24. ASSUME NEW k \in Cancels, CancelMark(k) PROVE Filed'
  BY <1>24 DEF CancelMark
<1>25. ASSUME NEW k \in Cancels, CancelWrite(k) PROVE Filed'
  <2>1. Rec("canceled", "early") \in Records /\ target[k] \in Execs
    BY <1>25, RecTypes DEF CancelWrite
  <2>2. CASE UNCHANGED storeVars
    BY <1>25, <2>2 DEF CancelWrite, WriteCanceled, Exists, TerminalStatus
  <2>3. ASSUME NEW ok \in BOOLEAN, Put(target[k], Rec("canceled", "early"), ok)
        PROVE  Filed'
    <3> DEFINE x == target[k]
               r == Rec("canceled", "early")
    <3>1. /\ executions'[x] = r
          /\ \A y \in Execs : y # x => executions'[y] = executions[y]
          /\ idempotency' = idempotency
          /\ ok => disk'.executions = executions' /\ disk'.idempotency = idempotency
          /\ ~ok => disk' = disk
      BY <2>1, <2>3, PutFiles
    <3>2. r.status \in Status \ {"absent"}
      BY RecFields DEF Status, TerminalStatus
    <3>3. RecordFirst'
      BY <1>25, <2>1, <2>3, <3>1, <3>2 DEF CancelWrite, WriteCanceled, Exists
    <3>4. KeysPointToRecords'
      BY <2>1, <2>3, <3>2, PutKeys DEF Exists
    <3>5. OutcomeReady'
      BY <1>25, <2>1, <2>3, <3>1, <3>2 DEF CancelWrite, WriteCanceled
    <3>6. ReportedIsFinal'
      BY <1>25, <2>1, <2>3, <3>1, <3>2, RecFields DEF CancelWrite, WriteCanceled,
         TerminalStatus
    <3>7. QED
      BY <3>3, <3>4, <3>5, <3>6
  <2>4. QED
    BY <1>25, <2>3, <2>2 DEF CancelWrite, WriteCanceled
<1>26. ASSUME NEW r \in Execs \cup Cancels, Abandon(r) PROVE Filed'
  BY <1>26 DEF Abandon
<1>27. CASE Signal
  BY <1>27 DEF Signal, Q!Stop
<1>28. CASE CloseQueue
  BY <1>28 DEF CloseQueue, Q!Shut
<1>29. CASE Restart
  <2>1. RecordFirst'
    BY <1>29, RecoveredFields DEF Restart, SubmitEnds, Store
  <2>2. KeysPointToRecords'
    BY <1>29, RecoveredFields DEF Restart, Store
  <2>3. OutcomeReady'
    BY <1>29 DEF Restart
  <2>4. ReportedIsFinal'
    BY <1>29, RecoveredFields DEF Restart, Store
  <2>5. QED
    BY <2>1, <2>2, <2>3, <2>4
<1>30. CASE UNCHANGED vars
  BY <1>30 DEF vars
<1> HIDE DEF Typed, JobsHeld, TargetsKnown, TypeOK, ExecutionAssumption, Owned,
           OneWorkerPerJob, AcceptedFirst, Begun, NotBegun, BeforeRun, Filed,
           RecordFirst, OutcomeReady, ReportedIsFinal, KeysPointToRecords, storeVars,
           queueVars, runVars, workerVars, requestVars, historyVars
<1>31. QED
  BY <1>1, <1>2, <1>3, <1>4, <1>5, <1>6, <1>7, <1>8, <1>9, <1>10, <1>11, <1>12, <1>13,
     <1>14, <1>15, <1>16, <1>17, <1>18, <1>19, <1>20, <1>21, <1>22, <1>23, <1>24, <1>25,
     <1>26, <1>27, <1>28, <1>29, <1>30 DEF Next, Submit, Work, Cancel

-----------------------------------------------------------------------------
Open(e) == executions[e].status \in {"queued", "running"}

(* The context of a run is made once, and until it ends is one that can be
   interrupted or was. *)
ContextOfRun ==
    \A e \in Execs :
        /\ ( \/ spc[e] # "accepted"
             \/ e \in queue
             \/ \E w \in Workers : job[w] = e /\ wpc[w] \in {"check", "load", "acquire", "fail"}
                                              /\ e \notin leases ) => ctx[e] = "none"
        /\ e \in cancels => ctx[e] \in {"live", "canceled", "expired"}

(* A cancel call is for one id. *)
TargetOnce == \A k \in Cancels : cpc[k] = "new" => target[k] = NoExec

(* There is nothing to cancel before the record is created. *)
Unrecorded ==
    \A e \in Execs : spc[e] \in {"new", "create"} =>
        /\ ~Exists(executions[e]) /\ ~Exists(disk.executions[e])
        /\ e \notin canceled
        /\ ~BeingCanceled(e)

(* A job that will be dropped for its mark has its record closed by the cancel
   call that marked it. *)
MarkedIsClosed ==
    \A e \in Execs :
        ( /\ e \in canceled
          /\ \/ spc[e] \in {"save", "enqueue"}
             \/ e \in queue
             \/ \E w \in Workers : job[w] = e /\ wpc[w] = "check"
          /\ Open(e)
          /\ ~Interrupted(e) ) => BeingCanceled(e)

(* A run is left with its record closed. *)
LeftClosed ==
    \A w \in Workers :
        (wpc[w] \in {"release", "drop"} /\ Open(job[w])) => Interrupted(job[w])

(* An open record has somebody to close it. *)
OpenIsAttended ==
    \A e \in Execs : (Open(e) /\ ~Interrupted(e)) =>
        e \in queue \/ WorkedOn(e) \/ BeingCanceled(e) \/ BeingSubmitted(e)

Attended ==
    /\ ContextOfRun /\ TargetOnce /\ Unrecorded /\ MarkedIsClosed /\ LeftClosed
    /\ OpenIsAttended

(* A write changes one record, and is counted when it fails. *)
LEMMA PutOpen ==
    ASSUME ExecutionAssumption, Typed, NEW e \in Execs, NEW r, NEW ok \in BOOLEAN, Put(e, r, ok)
    PROVE  /\ executions'[e] = r
           /\ \A x \in Execs : x # e => executions'[x] = executions[x]
           /\ ok => faults' = faults
           /\ ~ok => faults' > 0
           /\ faults > 0 => faults' > 0
  BY DEF Put, Persist, Typed, TypeOK, ExecutionAssumption

(* A write creates no record but its own. *)
LEMMA PutCreates ==
    ASSUME ExecutionAssumption, Typed, Unrecorded,
           NEW e \in Execs, NEW r \in Records, NEW ok \in BOOLEAN, Put(e, r, ok)
    PROVE  \A x \in Execs : (x # e /\ spc[x] \in {"new", "create"}) =>
              ~Exists(executions'[x]) /\ ~Exists(disk'.executions[x])
<1> SUFFICES ASSUME NEW x \in Execs, x # e, spc[x] \in {"new", "create"}
             PROVE  ~Exists(executions'[x]) /\ ~Exists(disk'.executions[x])
  OBVIOUS
<1>1. ~Exists(executions[x]) /\ ~Exists(disk.executions[x])
  BY DEF Unrecorded
<1>2. executions'[x] = executions[x]
  BY PutFiles
<1>3. disk'.executions[x] \in {disk.executions[x], executions'[x]}
  BY PutFiles
<1>4. QED
  BY <1>1, <1>2, <1>3

(* No step leaves an open record to nobody. *)
LEMMA AttendedStep ==
    ASSUME ExecutionAssumption, Typed, Owned, Begun, Filed, LeasesMatchRuns, Attended, [Next]_vars
    PROVE  Attended'
<1> USE DEF Typed, JobsHeld, TargetsKnown, TypeOK, ExecutionAssumption, Owned,
           OneWorkerPerJob, AcceptedFirst, LeasesMatchRuns, InRun, Filed, OutcomeReady,
           ReportedIsFinal, Open, Attended, ContextOfRun, TargetOnce, Unrecorded,
           Exists, MarkedIsClosed, LeftClosed, OpenIsAttended, Interrupted,
           WorkedOn, BeingCanceled, BeingSubmitted, storeVars, queueVars, runVars,
           workerVars, requestVars, historyVars
<1>1. ASSUME NEW e \in Execs, SubmitFind(e) PROVE Attended'
  <2>1. ContextOfRun'
    BY <1>1 DEF SubmitFind, SubmitTo
  <2>2. TargetOnce'
    BY <1>1 DEF SubmitFind, SubmitTo
  <2>3. Unrecorded'
    BY <1>1 DEF SubmitFind, SubmitTo
  <2>4. MarkedIsClosed'
    BY <1>1 DEF SubmitFind, SubmitTo
  <2>5. LeftClosed'
    BY <1>1 DEF SubmitFind, SubmitTo
  <2>6. OpenIsAttended'
    BY <1>1 DEF SubmitFind, SubmitTo
  <2>7. QED
    BY <2>1, <2>2, <2>3, <2>4, <2>5, <2>6
<1>2. ASSUME NEW e \in Execs, SubmitCreate(e) PROVE Attended'
  <2>1. ContextOfRun'
    BY <1>2, PutOpen DEF SubmitCreate, AfterCreate, SubmitTo, Rec, TerminalStatus
  <2>2. TargetOnce'
    BY <1>2, PutOpen DEF SubmitCreate, AfterCreate, SubmitTo, Rec, TerminalStatus
  <2>3. Unrecorded'
    BY <1>2, PutOpen, PutCreates, RecTypes DEF SubmitCreate, AfterCreate, SubmitTo, Rec,
       TerminalStatus
  <2>4. MarkedIsClosed'
    BY <1>2, PutOpen DEF SubmitCreate, AfterCreate, SubmitTo, Rec, TerminalStatus
  <2>5. LeftClosed'
    BY <1>2, PutOpen DEF SubmitCreate, AfterCreate, SubmitTo, Rec, TerminalStatus
  <2>6. OpenIsAttended'
    BY <1>2, PutOpen DEF SubmitCreate, AfterCreate, SubmitTo, Rec, TerminalStatus
  <2>7. QED
    BY <2>1, <2>2, <2>3, <2>4, <2>5, <2>6
<1>3. ASSUME NEW e \in Execs, SubmitSave(e) PROVE Attended'
  <2>1. ContextOfRun'
    BY <1>3 DEF SubmitSave, SubmitTo, Persist
  <2>2. TargetOnce'
    BY <1>3 DEF SubmitSave, SubmitTo, Persist
  <2>3. Unrecorded'
    BY <1>3 DEF SubmitSave, SubmitTo, Persist
  <2>4. MarkedIsClosed'
    BY <1>3 DEF SubmitSave, SubmitTo, Persist
  <2>5. LeftClosed'
    BY <1>3 DEF SubmitSave, SubmitTo, Persist
  <2>6. OpenIsAttended'
    BY <1>3 DEF SubmitSave, SubmitTo, Persist
  <2>7. QED
    BY <2>1, <2>2, <2>3, <2>4, <2>5, <2>6
<1>4. ASSUME NEW e \in Execs, SubmitEnqueue(e) PROVE Attended'
  <2>1. ContextOfRun'
    BY <1>4 DEF SubmitEnqueue, Q!Put, SubmitTo
  <2>2. TargetOnce'
    BY <1>4 DEF SubmitEnqueue, Q!Put, SubmitTo
  <2>3. Unrecorded'
    BY <1>4 DEF SubmitEnqueue, Q!Put, SubmitTo
  <2>4. MarkedIsClosed'
    BY <1>4 DEF SubmitEnqueue, Q!Put, SubmitTo
  <2>5. LeftClosed'
    BY <1>4 DEF SubmitEnqueue, Q!Put, SubmitTo
  <2>6. OpenIsAttended'
    BY <1>4 DEF SubmitEnqueue, Q!Put, SubmitTo
  <2>7. QED
    BY <2>1, <2>2, <2>3, <2>4, <2>5, <2>6
<1>5. ASSUME NEW e \in Execs, SubmitUndo(e) PROVE Attended'
  <2>1. ContextOfRun'
    BY <1>5, PutOpen DEF SubmitUndo, SubmitTo, Rec, TerminalStatus
  <2>2. TargetOnce'
    BY <1>5, PutOpen DEF SubmitUndo, SubmitTo, Rec, TerminalStatus
  <2>3. Unrecorded'
    <3>1. e \in Execs /\ Rec("failed", "unavailable") \in Records /\ spc[e] = "undo"
      BY <1>5, RecTypes DEF SubmitUndo, Classes
    <3>2. CASE UNCHANGED storeVars
      BY <1>5, <3>2 DEF SubmitUndo, SubmitTo
    <3>3. ASSUME NEW ok \in BOOLEAN, Put(e, Rec("failed", "unavailable"), ok)
          PROVE  Unrecorded'
      <4>1. \A y \in Execs : (y # e /\ spc[y] \in {"new", "create"}) =>
               ~Exists(executions'[y]) /\ ~Exists(disk'.executions[y])
        BY <3>1, <3>3, PutCreates
      <4>2. QED
        BY <1>5, <3>1, <4>1 DEF SubmitUndo, SubmitTo
    <3>4. QED
      BY <1>5, <3>2, <3>3 DEF SubmitUndo
  <2>4. MarkedIsClosed'
    BY <1>5, PutOpen DEF SubmitUndo, SubmitTo, Rec, TerminalStatus
  <2>5. LeftClosed'
    BY <1>5, PutOpen DEF SubmitUndo, SubmitTo, Rec, TerminalStatus
  <2>6. OpenIsAttended'
    BY <1>5, PutOpen DEF SubmitUndo, SubmitTo, Rec, TerminalStatus
  <2>7. QED
    BY <2>1, <2>2, <2>3, <2>4, <2>5, <2>6
<1>6. ASSUME NEW e \in Execs, Expire(e) PROVE Attended'
  <2>1. ContextOfRun'
    BY <1>6 DEF Expire
  <2>2. TargetOnce'
    BY <1>6 DEF Expire
  <2>3. Unrecorded'
    BY <1>6 DEF Expire
  <2>4. MarkedIsClosed'
    BY <1>6 DEF Expire
  <2>5. LeftClosed'
    BY <1>6 DEF Expire
  <2>6. OpenIsAttended'
    BY <1>6 DEF Expire
  <2>7. QED
    BY <2>1, <2>2, <2>3, <2>4, <2>5, <2>6
<1>7. ASSUME NEW w \in Workers, Dequeue(w) PROVE Attended'
  <2>1. ContextOfRun'
    BY <1>7 DEF Dequeue, Q!Take, WorkerTo
  <2>2. TargetOnce'
    BY <1>7 DEF Dequeue, Q!Take, WorkerTo
  <2>3. Unrecorded'
    BY <1>7 DEF Dequeue, Q!Take, WorkerTo
  <2>4. MarkedIsClosed'
    BY <1>7 DEF Dequeue, Q!Take, WorkerTo
  <2>5. LeftClosed'
    BY <1>7 DEF Dequeue, Q!Take, WorkerTo
  <2>6. OpenIsAttended'
    BY <1>7 DEF Dequeue, Q!Take, WorkerTo
  <2>7. QED
    BY <2>1, <2>2, <2>3, <2>4, <2>5, <2>6
<1>8. ASSUME NEW w \in Workers, Wait(w) \/ Leave(w) PROVE Attended'
  <2>1. ContextOfRun'
    BY <1>8 DEF Wait, Leave, WorkerTo
  <2>2. TargetOnce'
    BY <1>8 DEF Wait, Leave, WorkerTo
  <2>3. Unrecorded'
    BY <1>8 DEF Wait, Leave, WorkerTo
  <2>4. MarkedIsClosed'
    BY <1>8 DEF Wait, Leave, WorkerTo
  <2>5. LeftClosed'
    BY <1>8 DEF Wait, Leave, WorkerTo
  <2>6. OpenIsAttended'
    BY <1>8, SMTT(30) DEF Wait, Leave, WorkerTo
  <2>7. QED
    BY <2>1, <2>2, <2>3, <2>4, <2>5, <2>6
<1>9. ASSUME NEW w \in Workers, CheckMark(w) PROVE Attended'
  <2>1. ContextOfRun'
    BY <1>9, JobIsExec DEF CheckMark, Q!Finish, WorkerTo
  <2>2. TargetOnce'
    BY <1>9, JobIsExec DEF CheckMark, Q!Finish, WorkerTo
  <2>3. Unrecorded'
    BY <1>9, JobIsExec DEF CheckMark, Q!Finish, WorkerTo
  <2>4. MarkedIsClosed'
    BY <1>9, JobIsExec DEF CheckMark, Q!Finish, WorkerTo
  <2>5. LeftClosed'
    BY <1>9, JobIsExec DEF CheckMark, Q!Finish, WorkerTo
  <2>6. OpenIsAttended'
    BY <1>9, JobIsExec, SMTT(30) DEF CheckMark, Q!Finish, WorkerTo
  <2>7. QED
    BY <2>1, <2>2, <2>3, <2>4, <2>5, <2>6
<1>10. ASSUME NEW w \in Workers, Load(w) PROVE Attended'
  <2>1. ContextOfRun'
    BY <1>10, JobIsExec, SMTT(30) DEF Load, Q!Finish, WorkerTo, Terminal, TerminalStatus
  <2>2. TargetOnce'
    BY <1>10, JobIsExec DEF Load, Q!Finish, WorkerTo, Terminal, TerminalStatus
  <2>3. Unrecorded'
    BY <1>10, JobIsExec DEF Load, Q!Finish, WorkerTo, Terminal, TerminalStatus
  <2>4. MarkedIsClosed'
    <3>1. /\ UNCHANGED <<storeVars, requestVars, canceled, queue, ctx, stopping>>
          /\ \A v \in Workers : wpc'[v] = "check" => wpc[v] = "check" /\ job'[v] = job[v]
      BY <1>10 DEF Load, Q!Finish, WorkerTo
    <3>2. QED
      BY <3>1
  <2>5. LeftClosed'
    BY <1>10, JobIsExec DEF Load, Q!Finish, WorkerTo, Terminal, TerminalStatus
  <2>6. OpenIsAttended'
    BY <1>10, JobIsExec, SMTT(30) DEF Load, Q!Finish, WorkerTo, Terminal, TerminalStatus
  <2>7. QED
    BY <2>1, <2>2, <2>3, <2>4, <2>5, <2>6
<1>11. ASSUME NEW w \in Workers, Refuse(w) PROVE Attended'
  <2>1. ContextOfRun'
    BY <1>11, JobIsExec DEF Refuse, WorkerTo, Q!Finish, Rec
  <2>2. TargetOnce'
    BY <1>11, JobIsExec DEF Refuse, WorkerTo, Q!Finish, Rec
  <2>3. Unrecorded'
    BY <1>11, JobIsExec DEF Refuse, WorkerTo, Q!Finish, Rec
  <2>4. MarkedIsClosed'
    BY <1>11, JobIsExec DEF Refuse, WorkerTo, Q!Finish, Rec
  <2>5. LeftClosed'
    BY <1>11, JobIsExec DEF Refuse, WorkerTo, Q!Finish, Rec
  <2>6. OpenIsAttended'
    <3>1. CASE stopping
      BY <1>11, <3>1 DEF Refuse, Q!Finish
    <3>2. CASE ~stopping
      <4>1. \A x \in Execs : WorkedOn(x) => WorkedOn(x)'
        BY <1>11, <3>2 DEF Refuse, WorkerTo
      <4>2. QED
        BY <1>11, <3>2, <4>1 DEF Refuse
    <3>3. QED
      BY <3>1, <3>2
  <2>7. QED
    BY <2>1, <2>2, <2>3, <2>4, <2>5, <2>6
<1>12. ASSUME NEW w \in Workers, Acquire(w) PROVE Attended'
  BY <1>12 DEF Acquire, WorkerTo
<1>13. ASSUME NEW w \in Workers, Start(w) PROVE Attended'
  <2>1. ContextOfRun'
    BY <1>13, PutOpen, JobIsExec DEF Start, AfterStart, WorkerTo, Rec, TerminalStatus
  <2>2. TargetOnce'
    BY <1>13, PutOpen, JobIsExec DEF Start, AfterStart, WorkerTo, Rec, TerminalStatus
  <2>3. Unrecorded'
    <3>1. job[w] \in Execs /\ Rec("running", "none") \in Records /\ spc[job[w]] = "accepted"
      BY <1>13, JobIsExec, RecTypes DEF Start, Classes
    <3>2. CASE UNCHANGED storeVars
      BY <1>13, <3>2 DEF Start
    <3>3. ASSUME NEW ok \in BOOLEAN, Put(job[w], Rec("running", "none"), ok)
          PROVE  Unrecorded'
      <4>1. \A y \in Execs : (y # job[w] /\ spc[y] \in {"new", "create"}) =>
               ~Exists(executions'[y]) /\ ~Exists(disk'.executions[y])
        BY <3>1, <3>3, PutCreates
      <4>2. QED
        BY <1>13, <3>1, <4>1 DEF Start
    <3>4. QED
      BY <1>13, <3>2, <3>3, StartWrites
  <2>4. MarkedIsClosed'
    BY <1>13, PutOpen, JobIsExec, SMTT(30) DEF Start, AfterStart, WorkerTo, Rec, TerminalStatus
  <2>5. LeftClosed'
    BY <1>13, PutOpen, JobIsExec, SMTT(30) DEF Start, AfterStart, WorkerTo, Rec, TerminalStatus
  <2>6. OpenIsAttended'
    BY <1>13, PutOpen, JobIsExec, SMTT(30) DEF Start, AfterStart, WorkerTo, Rec, TerminalStatus
  <2>7. QED
    BY <2>1, <2>2, <2>3, <2>4, <2>5, <2>6
<1>14. ASSUME NEW w \in Workers, Prepare(w) PROVE Attended'
  <2>1. ContextOfRun'
    BY <1>14, JobIsExec DEF Prepare, WorkerTo, Rec
  <2>2. TargetOnce'
    BY <1>14, JobIsExec DEF Prepare, WorkerTo, Rec
  <2>3. Unrecorded'
    BY <1>14, JobIsExec DEF Prepare, WorkerTo, Rec
  <2>4. MarkedIsClosed'
    BY <1>14, JobIsExec DEF Prepare, WorkerTo, Rec
  <2>5. LeftClosed'
    BY <1>14, JobIsExec DEF Prepare, WorkerTo, Rec
  <2>6. OpenIsAttended'
    <3>1. \A x \in Execs : WorkedOn(x) => WorkedOn(x)'
      BY <1>14 DEF Prepare, WorkerTo
    <3>2. QED
      BY <1>14, <3>1 DEF Prepare
  <2>7. QED
    BY <2>1, <2>2, <2>3, <2>4, <2>5, <2>6
<1>15. ASSUME NEW w \in Workers, Execute(w) PROVE Attended'
  BY <1>15 DEF Execute, WorkerTo
<1>16. ASSUME NEW w \in Workers, Return(w) PROVE Attended'
  <2>1. ContextOfRun'
    BY <1>16, JobIsExec DEF Return, WorkerTo
  <2>2. TargetOnce'
    BY <1>16, JobIsExec DEF Return, WorkerTo
  <2>3. Unrecorded'
    BY <1>16, JobIsExec DEF Return, WorkerTo
  <2>4. MarkedIsClosed'
    BY <1>16, JobIsExec DEF Return, WorkerTo
  <2>5. LeftClosed'
    BY <1>16, JobIsExec DEF Return, WorkerTo
  <2>6. OpenIsAttended'
    BY <1>16, JobIsExec DEF Return, WorkerTo
  <2>7. QED
    BY <2>1, <2>2, <2>3, <2>4, <2>5, <2>6
<1>17. ASSUME NEW w \in Workers, Commit(w) PROVE Attended'
  <2>1. ContextOfRun'
    BY <1>17, PutOpen, JobIsExec DEF Commit, AfterCommit, WorkerTo, Rec, TerminalStatus
  <2>2. TargetOnce'
    BY <1>17, PutOpen, JobIsExec DEF Commit, AfterCommit, WorkerTo, Rec, TerminalStatus
  <2>3. Unrecorded'
    <3>1. job[w] \in Execs /\ local[w] \in Records /\ spc[job[w]] = "accepted"
      BY <1>17, JobIsExec, RecTypes DEF Commit, Classes
    <3>3. ASSUME NEW ok \in BOOLEAN, Put(job[w], local[w], ok) PROVE Unrecorded'
      <4>1. \A y \in Execs : (y # job[w] /\ spc[y] \in {"new", "create"}) =>
               ~Exists(executions'[y]) /\ ~Exists(disk'.executions[y])
        BY <3>1, <3>3, PutCreates
      <4>2. QED
        BY <1>17, <3>1, <4>1 DEF Commit, WorkerTo, AfterCommit
    <3>4. QED
      BY <1>17, <3>3 DEF Commit
  <2>4. MarkedIsClosed'
    BY <1>17, PutOpen, JobIsExec DEF Commit, AfterCommit, WorkerTo, Rec, TerminalStatus
  <2>5. LeftClosed'
    BY <1>17, PutOpen, JobIsExec DEF Commit, AfterCommit, WorkerTo, Rec, TerminalStatus
  <2>6. OpenIsAttended'
    BY <1>17, PutOpen, JobIsExec DEF Commit, AfterCommit, WorkerTo, Rec, TerminalStatus
  <2>7. QED
    BY <2>1, <2>2, <2>3, <2>4, <2>5, <2>6
<1>18. ASSUME NEW w \in Workers, Report(w) PROVE Attended'
  <2>1. ContextOfRun'
    BY <1>18, JobIsExec DEF Report, WorkerTo, TerminalStatus
  <2>2. TargetOnce'
    BY <1>18, JobIsExec DEF Report, WorkerTo, TerminalStatus
  <2>3. Unrecorded'
    BY <1>18, JobIsExec DEF Report, WorkerTo, TerminalStatus
  <2>4. MarkedIsClosed'
    BY <1>18, JobIsExec DEF Report, WorkerTo, TerminalStatus
  <2>5. LeftClosed'
    BY <1>18, JobIsExec, SMTT(30) DEF Report, WorkerTo, TerminalStatus
  <2>6. OpenIsAttended'
    BY <1>18, JobIsExec DEF Report, WorkerTo, TerminalStatus
  <2>7. QED
    BY <2>1, <2>2, <2>3, <2>4, <2>5, <2>6
<1>19. ASSUME NEW w \in Workers, Fail(w) PROVE Attended'
  <2>1. ContextOfRun'
    BY <1>19, PutOpen, JobIsExec DEF Fail, Q!Finish, WorkerTo, Rec, TerminalStatus
  <2>2. TargetOnce'
    BY <1>19, PutOpen, JobIsExec DEF Fail, Q!Finish, WorkerTo, Rec, TerminalStatus
  <2>3. Unrecorded'
    <3>1. job[w] \in Execs /\ local[w] \in Records /\ spc[job[w]] = "accepted"
      BY <1>19, JobIsExec DEF Fail
    <3>2. CASE UNCHANGED storeVars
      BY <1>19, <3>2 DEF Fail
    <3>3. ASSUME NEW ok \in BOOLEAN, Put(job[w], local[w], ok) PROVE Unrecorded'
      <4>1. \A y \in Execs : (y # job[w] /\ spc[y] \in {"new", "create"}) =>
               ~Exists(executions'[y]) /\ ~Exists(disk'.executions[y])
        BY <3>1, <3>3, PutCreates
      <4>2. QED
        BY <1>19, <3>1, <4>1 DEF Fail
    <3>4. QED
      BY <1>19, <3>2, <3>3 DEF Fail
  <2>4. MarkedIsClosed'
    BY <1>19, PutOpen, JobIsExec DEF Fail, Q!Finish, WorkerTo, Rec, TerminalStatus
  <2>5. LeftClosed'
    BY <1>19, PutOpen, JobIsExec, SMTT(30) DEF Fail, Q!Finish, WorkerTo, Rec, TerminalStatus
  <2>6. OpenIsAttended'
    <3> SUFFICES ASSUME NEW x \in Execs, Open(x)', ~Interrupted(x)'
                 PROVE  (x \in queue \/ WorkedOn(x) \/ BeingCanceled(x) \/ BeingSubmitted(x))'
      BY DEF OpenIsAttended
    <3>1. job[w] \in Execs /\ local[w].status \in TerminalStatus
      BY <1>19, JobIsExec DEF Fail
    <3>2. CASE UNCHANGED storeVars /\ stopping
      BY <1>19, <3>2 DEF Fail, Q!Finish
    <3>3. ASSUME NEW ok \in BOOLEAN, Put(job[w], local[w], ok)
          PROVE  Open(x) /\ ~Interrupted(x) /\ x # job[w]
      BY <1>19, <3>1, <3>3, PutOpen DEF Fail, Q!Finish, TerminalStatus
    <3>4. CASE Open(x) /\ ~Interrupted(x) /\ x # job[w]
      <4>1. x \in queue \/ WorkedOn(x) \/ BeingCanceled(x) \/ BeingSubmitted(x)
        BY <3>4
      <4>2. WorkedOn(x) => WorkedOn(x)'
        BY <1>19, <3>4 DEF Fail, Q!Finish, WorkerTo
      <4>3. QED
        BY <1>19, <4>1, <4>2 DEF Fail, Q!Finish
    <3>5. QED
      BY <1>19, <3>2, <3>3, <3>4 DEF Fail
  <2>7. QED
    BY <2>1, <2>2, <2>3, <2>4, <2>5, <2>6
<1>20. ASSUME NEW w \in Workers, Release(w) PROVE Attended'
  <2>1. ContextOfRun'
    BY <1>20, JobIsExec DEF Release, WorkerTo, Q!Finish, ReleaseLease
  <2>2. TargetOnce'
    BY <1>20, JobIsExec DEF Release, WorkerTo, Q!Finish, ReleaseLease
  <2>3. Unrecorded'
    BY <1>20, JobIsExec DEF Release, WorkerTo, Q!Finish, ReleaseLease
  <2>4. MarkedIsClosed'
    BY <1>20, JobIsExec DEF Release, WorkerTo, Q!Finish, ReleaseLease
  <2>5. LeftClosed'
    BY <1>20, JobIsExec DEF Release, WorkerTo, Q!Finish, ReleaseLease
  <2>6. OpenIsAttended'
    BY <1>20, JobIsExec DEF Release, WorkerTo, Q!Finish, ReleaseLease
  <2>7. QED
    BY <2>1, <2>2, <2>3, <2>4, <2>5, <2>6
<1>21. ASSUME NEW k \in Cancels, CancelLoad(k) PROVE Attended'
  <2>1. ContextOfRun'
    BY <1>21 DEF CancelLoad, CancelTo
  <2>2. TargetOnce'
    BY <1>21 DEF CancelLoad, CancelTo
  <2>3. Unrecorded'
    BY <1>21 DEF CancelLoad, CancelTo
  <2>4. MarkedIsClosed'
    <3> SUFFICES ASSUME NEW x \in Execs, x \in canceled, Open(x), ~Interrupted(x)',
                        \/ spc[x] \in {"save", "enqueue"}
                        \/ x \in queue
                        \/ \E w \in Workers : job[w] = x /\ wpc[w] = "check"
                 PROVE  BeingCanceled(x)'
      BY <1>21 DEF CancelLoad
    <3>1. /\ target[k] = NoExec /\ cpc[k] = "new"
          /\ \A i \in Cancels : i # k => target'[i] = target[i] /\ cpc'[i] = cpc[i]
      BY <1>21 DEF CancelLoad, CancelTo
    <3>2. ~Interrupted(x)
      BY <1>21, <3>1 DEF CancelLoad
    <3>3. BeingCanceled(x)
      BY <3>2
    <3>4. QED
      BY <3>1, <3>3
  <2>5. LeftClosed'
    BY <1>21 DEF CancelLoad, CancelTo
  <2>6. OpenIsAttended'
    <3> SUFFICES ASSUME NEW x \in Execs, Open(x), ~Interrupted(x)'
                 PROVE  (x \in queue \/ WorkedOn(x) \/ BeingCanceled(x) \/ BeingSubmitted(x))'
      BY <1>21 DEF CancelLoad
    <3>1. /\ target[k] = NoExec /\ cpc[k] = "new"
          /\ \A j \in Cancels : j # k => target'[j] = target[j] /\ cpc'[j] = cpc[j]
      BY <1>21 DEF CancelLoad, CancelTo
    <3>2. ~Interrupted(x)
      BY <1>21, <3>1 DEF CancelLoad
    <3>3. x \in queue \/ WorkedOn(x) \/ BeingCanceled(x) \/ BeingSubmitted(x)
      BY <3>2
    <3>4. BeingCanceled(x) => BeingCanceled(x)'
      BY <3>1
    <3>5. QED
      BY <1>21, <3>3, <3>4 DEF CancelLoad
  <2>7. QED
    BY <2>1, <2>2, <2>3, <2>4, <2>5, <2>6
<1>22. ASSUME NEW k \in Cancels, CancelRunning(k) PROVE Attended'
  <2>1. ContextOfRun'
    BY <1>22 DEF CancelRunning, CancelTo
  <2>2. TargetOnce'
    BY <1>22 DEF CancelRunning, CancelTo
  <2>3. Unrecorded'
    BY <1>22 DEF CancelRunning, CancelTo
  <2>4. MarkedIsClosed'
    BY <1>22 DEF CancelRunning, CancelTo
  <2>5. LeftClosed'
    BY <1>22 DEF CancelRunning, CancelTo
  <2>6. OpenIsAttended'
    BY <1>22 DEF CancelRunning, CancelTo
  <2>7. QED
    BY <2>1, <2>2, <2>3, <2>4, <2>5, <2>6
<1>23. ASSUME NEW k \in Cancels, CancelMissing(k) PROVE Attended'
  BY <1>23, SMTT(30) DEF CancelMissing, CancelTo
<1>24. ASSUME NEW k \in Cancels, CancelMark(k) PROVE Attended'
  <2>1. ContextOfRun'
    BY <1>24 DEF CancelMark, CancelTo
  <2>2. TargetOnce'
    BY <1>24 DEF CancelMark, CancelTo
  <2>3. Unrecorded'
    BY <1>24 DEF CancelMark, CancelTo
  <2>4. MarkedIsClosed'
    BY <1>24 DEF CancelMark, CancelTo
  <2>5. LeftClosed'
    BY <1>24 DEF CancelMark, CancelTo
  <2>6. OpenIsAttended'
    BY <1>24 DEF CancelMark, CancelTo
  <2>7. QED
    BY <2>1, <2>2, <2>3, <2>4, <2>5, <2>6
<1>25. ASSUME NEW k \in Cancels, CancelWrite(k) PROVE Attended'
  <2>1. ContextOfRun'
    BY <1>25, PutOpen DEF CancelWrite, CancelTo, WriteCanceled, Rec, TerminalStatus
  <2>2. TargetOnce'
    BY <1>25, PutOpen DEF CancelWrite, CancelTo, WriteCanceled, Rec, TerminalStatus
  <2>3. Unrecorded'
    BY <1>25, PutOpen, PutCreates, RecTypes DEF CancelWrite, CancelTo, WriteCanceled, Rec,
       TerminalStatus
  <2>4. MarkedIsClosed'
    BY <1>25, PutOpen DEF CancelWrite, CancelTo, WriteCanceled, Rec, TerminalStatus
  <2>5. LeftClosed'
    BY <1>25, PutOpen DEF CancelWrite, CancelTo, WriteCanceled, Rec, TerminalStatus
  <2>6. OpenIsAttended'
    BY <1>25, PutOpen DEF CancelWrite, CancelTo, WriteCanceled, Rec, TerminalStatus
  <2>7. QED
    BY <2>1, <2>2, <2>3, <2>4, <2>5, <2>6
<1>26. ASSUME NEW r \in Execs \cup Cancels, Abandon(r) PROVE Attended'
  BY <1>26, SMTT(30) DEF Abandon
<1>27. CASE Signal
  BY <1>27 DEF Signal, Q!Stop
<1>28. CASE CloseQueue
  BY <1>28 DEF CloseQueue, Q!Shut
<1>29. CASE Restart
  BY <1>29 DEF Restart, SubmitEnds, CancelEnds, Recovered, Rec
<1>30. CASE UNCHANGED vars
  BY <1>30 DEF vars
<1> HIDE DEF Typed, JobsHeld, TargetsKnown, TypeOK, ExecutionAssumption, Owned,
           OneWorkerPerJob, AcceptedFirst, LeasesMatchRuns, InRun, Filed, OutcomeReady,
           ReportedIsFinal, Open, Attended, ContextOfRun, TargetOnce, Unrecorded,
           Exists, MarkedIsClosed, LeftClosed, OpenIsAttended, Interrupted,
           WorkedOn, BeingCanceled, BeingSubmitted, storeVars, queueVars, runVars,
           workerVars, requestVars, historyVars
<1>31. QED
  BY <1>1, <1>2, <1>3, <1>4, <1>5, <1>6, <1>7, <1>8, <1>9, <1>10, <1>11, <1>12, <1>13,
     <1>14, <1>15, <1>16, <1>17, <1>18, <1>19, <1>20, <1>21, <1>22, <1>23, <1>24, <1>25,
     <1>26, <1>27, <1>28, <1>29, <1>30 DEF Next, Submit, Work, Cancel

-----------------------------------------------------------------------------
(* Run goes on only with a record it read as open. *)
LoadedOpen ==
    \A w \in Workers :
        wpc[w] \in {"acquire", "start"} => local[w].status \notin TerminalStatus

(* Only Load brings a worker there. *)
LEMMA LoadedStep ==
    ASSUME Typed, LoadedOpen, [Next]_vars
    PROVE  LoadedOpen'
<1> USE DEF Typed, TypeOK, LoadedOpen, storeVars, queueVars, runVars, workerVars,
           requestVars, historyVars
<1>1. ASSUME NEW e \in Execs, SubmitFind(e) PROVE LoadedOpen'
  BY <1>1 DEF SubmitFind
<1>2. ASSUME NEW e \in Execs, SubmitCreate(e) PROVE LoadedOpen'
  BY <1>2 DEF SubmitCreate
<1>3. ASSUME NEW e \in Execs, SubmitSave(e) PROVE LoadedOpen'
  BY <1>3 DEF SubmitSave
<1>4. ASSUME NEW e \in Execs, SubmitEnqueue(e) PROVE LoadedOpen'
  BY <1>4 DEF SubmitEnqueue
<1>5. ASSUME NEW e \in Execs, SubmitUndo(e) PROVE LoadedOpen'
  BY <1>5 DEF SubmitUndo
<1>6. ASSUME NEW e \in Execs, Expire(e) PROVE LoadedOpen'
  BY <1>6 DEF Expire
<1>7. ASSUME NEW w \in Workers, Dequeue(w) PROVE LoadedOpen'
  BY <1>7 DEF Dequeue, WorkerTo
<1>8. ASSUME NEW w \in Workers, Wait(w) \/ Leave(w) PROVE LoadedOpen'
  BY <1>8 DEF Wait, Leave, WorkerTo
<1>9. ASSUME NEW w \in Workers, CheckMark(w) PROVE LoadedOpen'
  BY <1>9 DEF CheckMark, WorkerTo
<1>10. ASSUME NEW w \in Workers, Load(w) PROVE LoadedOpen'
  BY <1>10 DEF Load, WorkerTo, Terminal
<1>11. ASSUME NEW w \in Workers, Refuse(w) PROVE LoadedOpen'
  BY <1>11 DEF Refuse, WorkerTo, Q!Finish
<1>12. ASSUME NEW w \in Workers, Acquire(w) PROVE LoadedOpen'
  BY <1>12 DEF Acquire, WorkerTo
<1>13. ASSUME NEW w \in Workers, Start(w) PROVE LoadedOpen'
  BY <1>13 DEF Start, AfterStart, WorkerTo
<1>14. ASSUME NEW w \in Workers, Prepare(w) PROVE LoadedOpen'
  BY <1>14 DEF Prepare, WorkerTo
<1>15. ASSUME NEW w \in Workers, Execute(w) PROVE LoadedOpen'
  BY <1>15 DEF Execute, WorkerTo
<1>16. ASSUME NEW w \in Workers, Return(w) PROVE LoadedOpen'
  BY <1>16 DEF Return, WorkerTo
<1>17. ASSUME NEW w \in Workers, Commit(w) PROVE LoadedOpen'
  BY <1>17 DEF Commit, WorkerTo, AfterCommit
<1>18. ASSUME NEW w \in Workers, Report(w) PROVE LoadedOpen'
  BY <1>18 DEF Report, WorkerTo
<1>19. ASSUME NEW w \in Workers, Fail(w) PROVE LoadedOpen'
  BY <1>19 DEF Fail, WorkerTo
<1>20. ASSUME NEW w \in Workers, Release(w) PROVE LoadedOpen'
  BY <1>20 DEF Release, WorkerTo
<1>21. ASSUME NEW k \in Cancels, CancelLoad(k) PROVE LoadedOpen'
  BY <1>21 DEF CancelLoad
<1>22. ASSUME NEW k \in Cancels, CancelRunning(k) PROVE LoadedOpen'
  BY <1>22 DEF CancelRunning
<1>23. ASSUME NEW k \in Cancels, CancelMissing(k) PROVE LoadedOpen'
  BY <1>23 DEF CancelMissing
<1>24. ASSUME NEW k \in Cancels, CancelMark(k) PROVE LoadedOpen'
  BY <1>24 DEF CancelMark
<1>25. ASSUME NEW k \in Cancels, CancelWrite(k) PROVE LoadedOpen'
  BY <1>25 DEF CancelWrite
<1>26. ASSUME NEW r \in Execs \cup Cancels, Abandon(r) PROVE LoadedOpen'
  BY <1>26 DEF Abandon
<1>27. CASE Signal
  BY <1>27 DEF Signal
<1>28. CASE CloseQueue
  BY <1>28 DEF CloseQueue
<1>29. CASE Restart
  BY <1>29 DEF Restart
<1>30. CASE UNCHANGED vars
  BY <1>30 DEF vars
<1> HIDE DEF Typed, TypeOK, LoadedOpen, storeVars, queueVars, runVars, workerVars,
           requestVars, historyVars
<1>31. QED
  BY <1>1, <1>2, <1>3, <1>4, <1>5, <1>6, <1>7, <1>8, <1>9, <1>10, <1>11, <1>12, <1>13,
     <1>14, <1>15, <1>16, <1>17, <1>18, <1>19, <1>20, <1>21, <1>22, <1>23, <1>24, <1>25,
     <1>26, <1>27, <1>28, <1>29, <1>30 DEF Next, Submit, Work, Cancel

-----------------------------------------------------------------------------
(* A retry of request e finds an execution: in this process, unless a write
   failed and the process ended since, and from the file unless a write failed. *)
KeyFound(e) ==
    /\ faults = 0 \/ restarts = 0 => idempotency[KeyOf[e]] # NoExec
    /\ faults = 0 => disk.idempotency[KeyOf[e]] # NoExec

(* This holds from SaveIdempotency on, for a request that is not gone by then;
   a request that is gone before Enqueue is refused there. *)
KeysKept ==
    \A e \in Execs :
        ( /\ KeyOf[e] # NoKey
          /\ spc[e] = "accepted" \/ (spc[e] = "enqueue" /\ e \notin gone) )
        => KeyFound(e)

(* A write of a record takes the keys to the file as they are; if it fails that
   is counted. *)
LEMMA PutKeepsKeys ==
    ASSUME ExecutionAssumption, Typed, NEW e, NEW r, NEW ok, Put(e, r, ok)
    PROVE  /\ idempotency' = idempotency
           /\ faults' = 0 => faults = 0
           /\ faults' = 0 => disk'.idempotency = idempotency
<1>1. idempotency' = idempotency /\ Persist(ok)
  BY DEF Put
<1>2. CASE ok
  BY <1>1, <1>2 DEF Persist
<1>3. CASE ~ok
  BY <1>1, <1>3 DEF Persist, Typed, TypeOK, ExecutionAssumption
<1>4. QED
  BY <1>2, <1>3

(* No step makes a key forget a request that will be, or was, accepted. *)
LEMMA KeptStep ==
    ASSUME ExecutionAssumption, Typed, KeysKept, [Next]_vars
    PROVE  KeysKept'
<1> USE DEF Typed, TypeOK, ExecutionAssumption, KeysKept, KeyFound, storeVars, queueVars,
           runVars, workerVars, requestVars, historyVars
<1>1. ASSUME NEW e \in Execs, SubmitFind(e) PROVE KeysKept'
  BY <1>1 DEF SubmitFind, SubmitTo
<1>2. ASSUME NEW e \in Execs, SubmitCreate(e) PROVE KeysKept'
  BY <1>2, RecTypes, PutKeepsKeys DEF SubmitCreate, SubmitTo, AfterCreate
<1>3. ASSUME NEW e \in Execs, SubmitSave(e) PROVE KeysKept'
  BY <1>3 DEF SubmitSave, SubmitTo, Persist
<1>4. ASSUME NEW e \in Execs, SubmitEnqueue(e) PROVE KeysKept'
  BY <1>4 DEF SubmitEnqueue, SubmitTo, Q!Put
<1>5. ASSUME NEW e \in Execs, SubmitUndo(e) PROVE KeysKept'
  BY <1>5, RecTypes, PutKeepsKeys DEF SubmitUndo, SubmitTo, Classes
<1>6. ASSUME NEW e \in Execs, Expire(e) PROVE KeysKept'
  BY <1>6 DEF Expire
<1>7. ASSUME NEW w \in Workers, Dequeue(w) PROVE KeysKept'
  BY <1>7 DEF Dequeue, WorkerTo, Q!Take
<1>8. ASSUME NEW w \in Workers, Wait(w) \/ Leave(w) PROVE KeysKept'
  BY <1>8 DEF Wait, Leave, WorkerTo
<1>9. ASSUME NEW w \in Workers, CheckMark(w) PROVE KeysKept'
  BY <1>9 DEF CheckMark, WorkerTo, Q!Finish
<1>10. ASSUME NEW w \in Workers, Load(w) PROVE KeysKept'
  BY <1>10 DEF Load, WorkerTo, Q!Finish
<1>11. ASSUME NEW w \in Workers, Refuse(w) PROVE KeysKept'
  BY <1>11 DEF Refuse, WorkerTo, Q!Finish
<1>12. ASSUME NEW w \in Workers, Acquire(w) PROVE KeysKept'
  BY <1>12 DEF Acquire, WorkerTo
<1>13. ASSUME NEW w \in Workers, Start(w) PROVE KeysKept'
  BY <1>13, PutKeepsKeys DEF Start, AfterStart, WorkerTo
<1>14. ASSUME NEW w \in Workers, Prepare(w) PROVE KeysKept'
  BY <1>14 DEF Prepare, WorkerTo
<1>15. ASSUME NEW w \in Workers, Execute(w) PROVE KeysKept'
  BY <1>15 DEF Execute, WorkerTo
<1>16. ASSUME NEW w \in Workers, Return(w) PROVE KeysKept'
  BY <1>16 DEF Return, WorkerTo
<1>17. ASSUME NEW w \in Workers, Commit(w) PROVE KeysKept'
  BY <1>17, PutKeepsKeys DEF Commit, WorkerTo
<1>18. ASSUME NEW w \in Workers, Report(w) PROVE KeysKept'
  BY <1>18 DEF Report, WorkerTo
<1>19. ASSUME NEW w \in Workers, Fail(w) PROVE KeysKept'
  BY <1>19, PutKeepsKeys DEF Fail, WorkerTo, Q!Finish
<1>20. ASSUME NEW w \in Workers, Release(w) PROVE KeysKept'
  BY <1>20 DEF Release, WorkerTo, Q!Finish
<1>21. ASSUME NEW k \in Cancels, CancelLoad(k) PROVE KeysKept'
  BY <1>21 DEF CancelLoad
<1>22. ASSUME NEW k \in Cancels, CancelRunning(k) PROVE KeysKept'
  BY <1>22 DEF CancelRunning
<1>23. ASSUME NEW k \in Cancels, CancelMissing(k) PROVE KeysKept'
  BY <1>23 DEF CancelMissing
<1>24. ASSUME NEW k \in Cancels, CancelMark(k) PROVE KeysKept'
  BY <1>24 DEF CancelMark
<1>25. ASSUME NEW k \in Cancels, CancelWrite(k) PROVE KeysKept'
  BY <1>25, PutKeepsKeys DEF CancelWrite, WriteCanceled
<1>26. ASSUME NEW r \in Execs \cup Cancels, Abandon(r) PROVE KeysKept'
  BY <1>26 DEF Abandon
<1>27. CASE Signal
  BY <1>27 DEF Signal, Q!Stop
<1>28. CASE CloseQueue
  BY <1>28 DEF CloseQueue, Q!Shut
<1>29. CASE Restart
  BY <1>29 DEF Restart, SubmitEnds
<1>30. CASE UNCHANGED vars
  BY <1>30 DEF vars
<1> HIDE DEF Typed, TypeOK, ExecutionAssumption, KeysKept, KeyFound, storeVars, queueVars,
           runVars, workerVars, requestVars, historyVars
<1>31. QED
  BY <1>1, <1>2, <1>3, <1>4, <1>5, <1>6, <1>7, <1>8, <1>9, <1>10, <1>11, <1>12, <1>13,
     <1>14, <1>15, <1>16, <1>17, <1>18, <1>19, <1>20, <1>21, <1>22, <1>23, <1>24, <1>25,
     <1>26, <1>27, <1>28, <1>29, <1>30 DEF Next, Submit, Work, Cancel

-----------------------------------------------------------------------------
(* A record that is running has a worker on its way to close it. *)
Manned(e) ==
    \E w \in Workers :
        /\ job[w] = e
        /\ wpc[w] \in {"prepare", "execute", "running", "commit", "fail"}
        /\ InRun(w)

RunningIsManned ==
    \A e \in Execs : (executions[e].status = "running" /\ faults = 0) => Manned(e)

(* No step takes the worker off a record that is running. *)
LEMMA MannedStep ==
    ASSUME ExecutionAssumption, Typed, Owned, Filed, LeasesMatchRuns, RunningIsManned, [Next]_vars
    PROVE  RunningIsManned'
<1> USE DEF Typed, JobsHeld, TargetsKnown, TypeOK, ExecutionAssumption, Owned, OneWorkerPerJob,
           LeasesMatchRuns, InRun, Filed, OutcomeReady, Manned, RunningIsManned, storeVars,
           queueVars, runVars, workerVars, requestVars, historyVars
<1>1. ASSUME NEW e \in Execs, SubmitFind(e) PROVE RunningIsManned'
  BY <1>1 DEF SubmitFind
<1>2. ASSUME NEW e \in Execs, SubmitCreate(e) PROVE RunningIsManned'
  BY <1>2, PutOpen, RecTypes DEF SubmitCreate, Rec
<1>3. ASSUME NEW e \in Execs, SubmitSave(e) PROVE RunningIsManned'
  BY <1>3 DEF SubmitSave, Persist
<1>4. ASSUME NEW e \in Execs, SubmitEnqueue(e) PROVE RunningIsManned'
  BY <1>4 DEF SubmitEnqueue, Q!Put
<1>5. ASSUME NEW e \in Execs, SubmitUndo(e) PROVE RunningIsManned'
  BY <1>5, PutOpen, SMTT(30) DEF SubmitUndo, Rec
<1>6. ASSUME NEW e \in Execs, Expire(e) PROVE RunningIsManned'
  BY <1>6 DEF Expire
<1>7. ASSUME NEW w \in Workers, Dequeue(w) PROVE RunningIsManned'
  BY <1>7 DEF Dequeue, WorkerTo, Q!Take
<1>8. ASSUME NEW w \in Workers, Wait(w) \/ Leave(w) PROVE RunningIsManned'
  BY <1>8 DEF Wait, Leave, WorkerTo
<1>9. ASSUME NEW w \in Workers, CheckMark(w) PROVE RunningIsManned'
  BY <1>9 DEF CheckMark, WorkerTo, Q!Finish
<1>10. ASSUME NEW w \in Workers, Load(w) PROVE RunningIsManned'
  BY <1>10 DEF Load, WorkerTo, Q!Finish
<1>11. ASSUME NEW w \in Workers, Refuse(w) PROVE RunningIsManned'
  BY <1>11 DEF Refuse, WorkerTo, Q!Finish
<1>12. ASSUME NEW w \in Workers, Acquire(w) PROVE RunningIsManned'
  BY <1>12 DEF Acquire, WorkerTo
<1>13. ASSUME NEW w \in Workers, Start(w) PROVE RunningIsManned'
  BY <1>13, PutOpen, JobIsExec, SMTT(30) DEF Start, AfterStart, WorkerTo, Rec
<1>14. ASSUME NEW w \in Workers, Prepare(w) PROVE RunningIsManned'
  BY <1>14 DEF Prepare, WorkerTo, Rec
<1>15. ASSUME NEW w \in Workers, Execute(w) PROVE RunningIsManned'
  BY <1>15 DEF Execute, WorkerTo
<1>16. ASSUME NEW w \in Workers, Return(w) PROVE RunningIsManned'
  BY <1>16 DEF Return, WorkerTo
<1>17. ASSUME NEW w \in Workers, Commit(w) PROVE RunningIsManned'
  BY <1>17, PutOpen, JobIsExec DEF Commit, AfterCommit, WorkerTo, TerminalStatus
<1>18. ASSUME NEW w \in Workers, Report(w) PROVE RunningIsManned'
  BY <1>18 DEF Report, WorkerTo
<1>19. ASSUME NEW w \in Workers, Fail(w) PROVE RunningIsManned'
  BY <1>19, PutOpen, JobIsExec DEF Fail, WorkerTo, Q!Finish, TerminalStatus
<1>20. ASSUME NEW w \in Workers, Release(w) PROVE RunningIsManned'
  BY <1>20 DEF Release, WorkerTo, Q!Finish
<1>21. ASSUME NEW k \in Cancels, CancelLoad(k) PROVE RunningIsManned'
  BY <1>21 DEF CancelLoad
<1>22. ASSUME NEW k \in Cancels, CancelRunning(k) PROVE RunningIsManned'
  BY <1>22 DEF CancelRunning
<1>23. ASSUME NEW k \in Cancels, CancelMissing(k) PROVE RunningIsManned'
  BY <1>23 DEF CancelMissing
<1>24. ASSUME NEW k \in Cancels, CancelMark(k) PROVE RunningIsManned'
  BY <1>24 DEF CancelMark
<1>25. ASSUME NEW k \in Cancels, CancelWrite(k) PROVE RunningIsManned'
  BY <1>25, PutOpen DEF CancelWrite, WriteCanceled, Rec
<1>26. ASSUME NEW r \in Execs \cup Cancels, Abandon(r) PROVE RunningIsManned'
  BY <1>26 DEF Abandon
<1>27. CASE Signal
  BY <1>27 DEF Signal, Q!Stop
<1>28. CASE CloseQueue
  BY <1>28 DEF CloseQueue, Q!Shut
<1>29. CASE Restart
  BY <1>29 DEF Restart, Recovered, Store, Rec
<1>30. CASE UNCHANGED vars
  BY <1>30 DEF vars
<1> HIDE DEF Typed, JobsHeld, TargetsKnown, TypeOK, ExecutionAssumption, Owned, OneWorkerPerJob,
           LeasesMatchRuns, InRun, Filed, OutcomeReady, Manned, RunningIsManned, storeVars,
           queueVars, runVars, workerVars, requestVars, historyVars
<1>31. QED
  BY <1>1, <1>2, <1>3, <1>4, <1>5, <1>6, <1>7, <1>8, <1>9, <1>10, <1>11, <1>12, <1>13,
     <1>14, <1>15, <1>16, <1>17, <1>18, <1>19, <1>20, <1>21, <1>22, <1>23, <1>24, <1>25,
     <1>26, <1>27, <1>28, <1>29, <1>30 DEF Next, Submit, Work, Cancel

-----------------------------------------------------------------------------
Inv == Typed /\ Owned /\ Begun /\ Supplied /\ LeasesMatchRuns /\ Filed /\ Attended
       /\ LoadedOpen /\ KeysKept /\ RunningIsManned

LEMMA InvInit == ExecutionAssumption /\ Init => Inv
<1> SUFFICES ASSUME ExecutionAssumption, Init PROVE Inv
  OBVIOUS
<1> USE DEF Init, Q!Init, ExecutionAssumption
<1>1. Typed
  <2>1. TypeOK
    <3>1. executions \in [Execs -> Records] /\ disk \in Store
      BY RecTypes DEF Store
    <3>2. local \in [Workers -> Records]
      BY RecTypes
    <3>3. /\ idempotency \in [Keys -> Execs \cup {NoExec}]
          /\ queue \subseteq Execs /\ job \in [Workers -> Execs \cup {NoExec}]
          /\ stopping \in BOOLEAN /\ closed \in BOOLEAN
          /\ canceled \subseteq Execs /\ payloads \subseteq Execs
          /\ cancels \subseteq Execs /\ leases \subseteq Execs
          /\ gone \subseteq Execs \cup Cancels /\ reported \subseteq Execs
      BY Zenon
    <3>4. /\ ctx \in [Execs -> Contexts] /\ wpc \in [Workers -> WorkerStates]
          /\ spc \in [Execs -> SubmitStates] /\ cpc \in [Cancels -> CancelStates]
          /\ target \in [Cancels -> Execs \cup {NoExec}]
      BY DEF SubmitStates, CancelStates, WorkerStates, Contexts
    <3>5. started \in [Execs -> Nat] /\ faults \in 0..MaxFaults /\ restarts \in 0..MaxRestarts
      OBVIOUS
    <3>6. QED
      BY <3>1, <3>2, <3>3, <3>4, <3>5 DEF TypeOK
  <2>2. JobsHeld /\ TargetsKnown
    BY DEF JobsHeld, TargetsKnown
  <2>3. QED
    BY <2>1, <2>2 DEF Typed
<1>2. Owned
  BY DEF Owned, OneWorkerPerJob, AcceptedFirst
<1>3. Begun
  BY DEF Begun, NotBegun, ExecutedAtMostOnce
<1>4. Supplied
  BY DEF Supplied, PayloadFirst, PayloadWaitsForRun, BeforeRun
<1>5. LeasesMatchRuns
  BY DEF LeasesMatchRuns, InRun
<1>6. Filed
  <2>1. RecordFirst /\ KeysPointToRecords /\ OutcomeReady
    BY DEF RecordFirst, KeysPointToRecords, OutcomeReady
  <2>2. ReportedIsFinal
    BY DEF ReportedIsFinal
  <2>3. QED
    BY <2>1, <2>2 DEF Filed
<1>7. Attended
  BY <1>1 DEF Attended, ContextOfRun, TargetOnce, Unrecorded, MarkedIsClosed, LeftClosed,
              OpenIsAttended, Open, BeingCanceled, NoRecord, Rec, Exists
<1>8. LoadedOpen
  BY DEF LoadedOpen
<1>9. KeysKept /\ RunningIsManned
  BY DEF KeysKept, RunningIsManned, NoRecord, Rec
<1>10. QED
  BY <1>1, <1>2, <1>3, <1>4, <1>5, <1>6, <1>7, <1>8, <1>9 DEF Inv

LEMMA InvStep == ExecutionAssumption /\ Inv /\ [Next]_vars => Inv'
<1> SUFFICES ASSUME ExecutionAssumption, Inv, [Next]_vars PROVE Inv'
  OBVIOUS
<1>1. Typed' /\ Owned' /\ Begun' /\ Supplied' /\ LeasesMatchRuns' /\ Filed' /\ Attended'
      /\ LoadedOpen' /\ KeysKept' /\ RunningIsManned'
  <2>1. Typed'
    BY TypeStep, HeldStep DEF Inv, Typed
  <2>2. Owned' /\ Begun'
    BY OwnedStep, BegunStep DEF Inv
  <2>3. Supplied' /\ LeasesMatchRuns' /\ Filed'
    BY SuppliedStep, LeasesStep, FiledStep DEF Inv
  <2>4. Attended' /\ LoadedOpen' /\ KeysKept' /\ RunningIsManned'
    BY AttendedStep, LoadedStep, KeptStep, MannedStep DEF Inv
  <2>5. QED
    BY <2>1, <2>2, <2>3, <2>4
<1>2. QED
  BY <1>1 DEF Inv

LEMMA InvHolds == SafeSpec => []Inv
<1>1. Init => Inv
  BY ExecutionAssumption, InvInit
<1>2. Inv /\ [Next]_vars => Inv'
  BY ExecutionAssumption, InvStep
<1>3. QED
  BY <1>1, <1>2, PTL DEF SafeSpec

(* An execution has at most one worker, its runtime is called at most once,
   and its lease and cancel function live exactly as long as its run. *)
THEOREM RunsAreExclusive ==
    SafeSpec => [](TypeOK /\ OneWorkerPerJob /\ ExecutedAtMostOnce /\ LeasesMatchRuns)
<1>1. Inv => TypeOK /\ OneWorkerPerJob /\ ExecutedAtMostOnce /\ LeasesMatchRuns
  BY DEF Inv, Typed, Owned, Begun
<1>2. QED
  BY <1>1, InvHolds, PTL

(* The payload is there until the run takes it. *)
THEOREM PayloadsWait == SafeSpec => []PayloadWaitsForRun
<1>1. Inv => PayloadWaitsForRun
  BY DEF Inv, Supplied
<1>2. QED
  BY <1>1, InvHolds, PTL

(* What the client was told survives every crash: an accepted id has a record
   in the file, a reported one an outcome, and a key a record. *)
THEOREM AnswersAreDurable ==
    SafeSpec => [](AcceptedIsDurable /\ ReportedIsDurable /\ KeysPointToRecords)
<1>1. Inv => AcceptedIsDurable /\ ReportedIsDurable /\ KeysPointToRecords
  <2>1. Inv => AcceptedIsDurable
    BY DEF Inv, Filed, RecordFirst, KeysKept, KeyFound, AcceptedIsDurable
  <2>2. Inv => ReportedIsDurable
    BY DEF Inv, Filed, ReportedIsFinal, ReportedIsDurable, Typed, TypeOK
  <2>3. QED
    BY <2>1, <2>2 DEF Inv, Filed
<1>2. QED
  BY <1>1, InvHolds, PTL

(* A record that is queued and was not interrupted has somebody to close it,
   and one that is running has a worker that will, interrupted or not. *)
THEOREM NobodyIsStranded == SafeSpec => []StrandedOnlyWhenInterrupted
<1>1. Inv => StrandedOnlyWhenInterrupted
  BY DEF Inv, Attended, OpenIsAttended, Open, RunningIsManned, Manned,
         StrandedOnlyWhenInterrupted
<1>2. QED
  BY <1>1, InvHolds, PTL

-----------------------------------------------------------------------------
(***************************************************************************)
(* What the models of the queue and of the resource manager ask of the     *)
(* code that calls them, which is the service: JobQueue and FairQueue put  *)
(* an id only if it neither waits nor is worked on, a consumer takes a job *)
(* only with empty hands and gives back one it has, and ResourceManager    *)
(* grants a lease only for an id that holds none.                          *)
(***************************************************************************)
CallsFit ==
    /\ \A e \in Execs :
          spc[e] = "enqueue" => e \notin queue /\ \A w \in Workers : job[w] # e
    /\ \A w \in Workers :
          /\ wpc[w] \in {"dequeue", "waiting"} => job[w] = NoExec
          /\ wpc[w] \notin {"dequeue", "waiting", "stopped"} => job[w] \in Execs
          /\ wpc[w] = "acquire" => job[w] \notin leases
          /\ wpc[w] \in {"release", "drop"} => job[w] \in leases

LEMMA InvFits == Inv => CallsFit
<1> SUFFICES ASSUME Inv PROVE CallsFit
  OBVIOUS
<1>1. ASSUME NEW e \in Execs, spc[e] = "enqueue"
      PROVE  e \notin queue /\ \A w \in Workers : job[w] # e
  BY <1>1 DEF Inv, Owned, AcceptedFirst
<1>2. ASSUME NEW w \in Workers
      PROVE  /\ wpc[w] \in {"dequeue", "waiting"} => job[w] = NoExec
             /\ wpc[w] \notin {"dequeue", "waiting", "stopped"} => job[w] \in Execs
  BY DEF Inv, Typed, TypeOK, JobsHeld
<1>3. ASSUME NEW w \in Workers, wpc[w] = "acquire"
      PROVE  job[w] \notin leases
  <2>1. job[w] # NoExec /\ ~InRun(w)
    BY <1>3 DEF Inv, Typed, JobsHeld, InRun
  <2>2. \A v \in Workers : job[v] = job[w] => v = w
    BY <2>1 DEF Inv, Owned, OneWorkerPerJob
  <2>3. QED
    BY <2>1, <2>2 DEF Inv, LeasesMatchRuns
<1>4. ASSUME NEW w \in Workers, wpc[w] \in {"release", "drop"}
      PROVE  job[w] \in leases
  BY <1>2, <1>4 DEF Inv, LeasesMatchRuns, InRun
<1>5. QED
  BY <1>1, <1>2, <1>3, <1>4 DEF CallsFit

(* The guards that JobQueue, FairQueue and ResourceManager have for their callers
   never hold the service up, so that they hide none of its steps. *)
THEOREM CallersKeepTheirPart == SafeSpec => []CallsFit
<1>1. QED
  BY InvFits, InvHolds, PTL

(* A retry after an accepted answer finds an execution of its key instead of
   creating another, as long as its own context lasts; after the end of a process
   only if no write of the file failed before (service.go:57-61, 81-84). *)
RetryFinds ==
    [][\A e, a \in Execs :
          ( /\ spc[a] = "accepted" /\ KeyOf[a] # NoKey
            /\ KeyOf[e] = KeyOf[a] /\ e \notin gone
            /\ faults = 0 \/ restarts = 0
            /\ spc[e] = "new" /\ spc'[e] # "new" )
          => spc'[e] = "found" /\ executions' = executions]_vars

THEOREM RetriesFind == SafeSpec => RetryFinds
<1>1. ASSUME ExecutionAssumption, Inv, [Next]_vars, NEW e \in Execs, NEW a \in Execs,
             spc[a] = "accepted", KeyOf[a] # NoKey, KeyOf[e] = KeyOf[a], e \notin gone,
             faults = 0 \/ restarts = 0, spc[e] = "new", spc'[e] # "new"
      PROVE  spc'[e] = "found" /\ executions' = executions
  <2>1. Known(e)
    BY <1>1 DEF Inv, KeysKept, KeyFound, Filed, KeysPointToRecords, Known, ExecutionAssumption
  <2>2. SubmitFind(e)
    <3>1. ASSUME NEW x \in Execs, Submit(x) \/ Expire(x) PROVE x = e /\ SubmitFind(e)
      BY <1>1, <3>1 DEF Submit, SubmitFind, SubmitCreate, SubmitSave, SubmitEnqueue,
                        SubmitUndo, SubmitTo, Expire, requestVars, Inv, Typed, TypeOK
    <3>2. ASSUME NEW w \in Workers, Work(w) PROVE FALSE
      BY <1>1, <3>2 DEF Work, Dequeue, Wait, Leave, CheckMark, Load, Refuse, Acquire, Start,
                        Prepare, Execute, Return, Commit, Report, Fail, Release, requestVars
    <3>3. ASSUME NEW k \in Cancels, Cancel(k) PROVE FALSE
      BY <1>1, <3>3 DEF Cancel, CancelLoad, CancelRunning, CancelMissing, CancelMark,
                        CancelWrite
    <3>4. ASSUME Restart PROVE FALSE
      BY <1>1, <3>4 DEF Restart
    <3>5. QED
      BY <1>1, <3>1, <3>2, <3>3, <3>4 DEF Next, Abandon, Signal, CloseQueue, requestVars, vars
  <2>3. QED
    BY <1>1, <2>1, <2>2 DEF SubmitFind, SubmitTo, storeVars, Inv, Typed, TypeOK
<1>2. ASSUME ExecutionAssumption, Inv, [Next]_vars
      PROVE  [\A e, a \in Execs :
                 ( /\ spc[a] = "accepted" /\ KeyOf[a] # NoKey
                   /\ KeyOf[e] = KeyOf[a] /\ e \notin gone
                   /\ faults = 0 \/ restarts = 0
                   /\ spc[e] = "new" /\ spc'[e] # "new" )
                 => spc'[e] = "found" /\ executions' = executions]_vars
  BY <1>1, <1>2
<1>3. QED
  BY ExecutionAssumption, <1>2, InvHolds, PTL DEF SafeSpec, RetryFinds

(* The server holds no more leases than it has workers, whatever the tenants'
   quotas allow, and no more executions are in the hands of its workers. *)
LoadFitsPool ==
    LET held == {e \in Execs : WorkOf(e) \in {"busy", "dropped"}} IN
    Cardinality(held) <= Cardinality(Workers) /\ leases \subseteq held

THEOREM LoadIsBounded ==
    ASSUME IsFiniteSet(Workers)
    PROVE  SafeSpec => []LoadFitsPool
<1>1. Inv => LoadFitsPool
  <2> SUFFICES ASSUME Inv PROVE LoadFitsPool
    OBVIOUS
  <2> DEFINE busy == {e \in Execs : WorkOf(e) \in {"busy", "dropped"}}
             hands == {w \in Workers : job[w] \in Execs}
             f == [w \in hands |-> job[w]]
  <2>1. \A e \in Execs : WorkOf(e) \in {"busy", "dropped"} <=> \E w \in Workers : job[w] = e
    BY DEF WorkOf
  <2>2. IsFiniteSet(hands) /\ Cardinality(hands) <= Cardinality(Workers)
    BY FS_Subset
  <2>3. f \in Surjection(hands, busy)
    BY <2>1 DEF Surjection
  <2>4. IsFiniteSet(busy) /\ Cardinality(busy) <= Cardinality(hands)
    <3> HIDE DEF f, busy, hands
    <3>1. QED
      BY <2>2, <2>3, FS_Surjection
  <2>5. /\ Cardinality(busy) \in Nat /\ Cardinality(hands) \in Nat
        /\ Cardinality(Workers) \in Nat
    BY <2>2, <2>4, FS_CardinalityType
  <2>6. leases \subseteq busy
    BY <2>1 DEF Inv, LeasesMatchRuns
  <2>7. QED
    BY <2>2, <2>4, <2>5, <2>6 DEF LoadFitsPool
<1>2. QED
  BY <1>1, InvHolds, PTL

-----------------------------------------------------------------------------
(* e is final in memory and in the file, and nobody read it before it was. *)
Settled(e) ==
    /\ executions[e].status \in TerminalStatus
    /\ disk.executions[e] = executions[e]
    /\ ~(\E w \in Workers : job[w] = e /\ RunsOnOpenCopy(w))
    /\ ~BeingCanceled(e)
    /\ ~BeingSubmitted(e)

Untouched(e) ==
    /\ executions'[e] = executions[e]
    /\ disk'.executions[e] = executions[e]
    /\ started'[e] = started[e]

(* No step touches a settled record. *)
LEMMA SettledStep ==
    ASSUME ExecutionAssumption, Typed, LoadedOpen, NEW x \in Execs, Settled(x), [Next]_vars
    PROVE  Untouched(x)
<1> USE DEF Typed, JobsHeld, TargetsKnown, TypeOK, LoadedOpen, RunsOnOpenCopy, Settled, Untouched,
           BeingCanceled,
           BeingSubmitted, Store, storeVars, queueVars, runVars, workerVars,
           requestVars, historyVars
<1>1. ASSUME NEW e \in Execs, SubmitFind(e) PROVE Untouched(x)
  BY <1>1 DEF SubmitFind
<1>2. ASSUME NEW e \in Execs, SubmitCreate(e) PROVE Untouched(x)
  BY <1>2 DEF SubmitCreate, Put, Persist
<1>3. ASSUME NEW e \in Execs, SubmitSave(e) PROVE Untouched(x)
  BY <1>3 DEF SubmitSave, Persist
<1>4. ASSUME NEW e \in Execs, SubmitEnqueue(e) PROVE Untouched(x)
  BY <1>4 DEF SubmitEnqueue
<1>5. ASSUME NEW e \in Execs, SubmitUndo(e) PROVE Untouched(x)
  BY <1>5 DEF SubmitUndo, Put, Persist
<1>6. ASSUME NEW e \in Execs, Expire(e) PROVE Untouched(x)
  BY <1>6 DEF Expire
<1>7. ASSUME NEW w \in Workers, Dequeue(w) PROVE Untouched(x)
  BY <1>7 DEF Dequeue
<1>8. ASSUME NEW w \in Workers, Wait(w) \/ Leave(w) PROVE Untouched(x)
  BY <1>8 DEF Wait, Leave
<1>9. ASSUME NEW w \in Workers, CheckMark(w) PROVE Untouched(x)
  BY <1>9 DEF CheckMark
<1>10. ASSUME NEW w \in Workers, Load(w) PROVE Untouched(x)
  BY <1>10 DEF Load
<1>11. ASSUME NEW w \in Workers, Refuse(w) PROVE Untouched(x)
  BY <1>11 DEF Refuse
<1>12. ASSUME NEW w \in Workers, Acquire(w) PROVE Untouched(x)
  BY <1>12 DEF Acquire
<1>13. ASSUME NEW w \in Workers, Start(w) PROVE Untouched(x)
  <2>1. job[w] \in Execs /\ job[w] # x
    BY <1>13 DEF Start
  <2>2. ASSUME NEW ok \in BOOLEAN, Put(job[w], Rec("running", "none"), ok)
        PROVE  executions'[x] = executions[x] /\ disk'.executions[x] = executions[x]
    BY <2>1, <2>2, PutFiles, RecTypes
  <2>3. QED
    BY <1>13, <2>2, StartWrites DEF Start
<1>14. ASSUME NEW w \in Workers, Prepare(w) PROVE Untouched(x)
  BY <1>14 DEF Prepare
<1>15. ASSUME NEW w \in Workers, Execute(w) PROVE Untouched(x)
  BY <1>15 DEF Execute
<1>16. ASSUME NEW w \in Workers, Return(w) PROVE Untouched(x)
  BY <1>16 DEF Return
<1>17. ASSUME NEW w \in Workers, Commit(w) PROVE Untouched(x)
  BY <1>17 DEF Commit, Put, Persist
<1>18. ASSUME NEW w \in Workers, Report(w) PROVE Untouched(x)
  BY <1>18 DEF Report
<1>19. ASSUME NEW w \in Workers, Fail(w) PROVE Untouched(x)
  BY <1>19 DEF Fail, Put, Persist
<1>20. ASSUME NEW w \in Workers, Release(w) PROVE Untouched(x)
  BY <1>20 DEF Release
<1>21. ASSUME NEW k \in Cancels, CancelLoad(k) PROVE Untouched(x)
  BY <1>21 DEF CancelLoad
<1>22. ASSUME NEW k \in Cancels, CancelRunning(k) PROVE Untouched(x)
  BY <1>22 DEF CancelRunning
<1>23. ASSUME NEW k \in Cancels, CancelMissing(k) PROVE Untouched(x)
  BY <1>23 DEF CancelMissing
<1>24. ASSUME NEW k \in Cancels, CancelMark(k) PROVE Untouched(x)
  BY <1>24 DEF CancelMark
<1>25. ASSUME NEW k \in Cancels, CancelWrite(k) PROVE Untouched(x)
  BY <1>25 DEF CancelWrite, Put, Persist, WriteCanceled
<1>26. ASSUME NEW r \in Execs \cup Cancels, Abandon(r) PROVE Untouched(x)
  BY <1>26 DEF Abandon
<1>27. CASE Signal
  BY <1>27 DEF Signal
<1>28. CASE CloseQueue
  BY <1>28 DEF CloseQueue
<1>29. CASE Restart
  BY <1>29 DEF Restart, Recovered, TerminalStatus
<1>30. CASE UNCHANGED vars
  BY <1>30 DEF vars
<1> HIDE DEF Typed, JobsHeld, TargetsKnown, TypeOK, LoadedOpen, RunsOnOpenCopy, Settled, Untouched,
           BeingCanceled,
           BeingSubmitted, Store, storeVars, queueVars, runVars, workerVars,
           requestVars, historyVars
<1>31. QED
  BY <1>1, <1>2, <1>3, <1>4, <1>5, <1>6, <1>7, <1>8, <1>9, <1>10, <1>11, <1>12, <1>13,
     <1>14, <1>15, <1>16, <1>17, <1>18, <1>19, <1>20, <1>21, <1>22, <1>23, <1>24, <1>25,
     <1>26, <1>27, <1>28, <1>29, <1>30 DEF Next, Submit, Work, Cancel

(* An execution whose end is in the file, and that no earlier call is still
   busy with, is never changed or run again. *)
THEOREM SettledStaysFinal == SafeSpec => SettledIsFinal
<1>1. ASSUME ExecutionAssumption, Inv, [Next]_vars
      PROVE  [\A e \in Execs : Settled(e) => Untouched(e)]_vars
  BY <1>1, SettledStep DEF Inv
<1>2. Init => Inv
  BY ExecutionAssumption, InvInit
<1>3. Inv /\ [Next]_vars => Inv'
  BY ExecutionAssumption, InvStep
<1>4. [\A e \in Execs : Settled(e) => Untouched(e)]_vars =>
          [\A e \in Execs :
             ( /\ executions[e].status \in TerminalStatus
               /\ disk.executions[e] = executions[e]
               /\ ~(\E w \in Workers : job[w] = e /\ RunsOnOpenCopy(w))
               /\ ~BeingCanceled(e)
               /\ ~BeingSubmitted(e) )
             => /\ executions'[e] = executions[e]
                /\ disk'.executions[e] = executions[e]
                /\ started'[e] = started[e]]_vars
  BY DEF Settled, Untouched
<1>5. QED
  BY ExecutionAssumption, <1>1, <1>2, <1>3, <1>4, PTL DEF SafeSpec, SettledIsFinal

-----------------------------------------------------------------------------
(* The refinement of Lifecycle. *)
AbsRecord == [e \in Execs |-> RecordOf(e)]
AbsWork == [e \in Execs |-> WorkOf(e)]

(* A cancel call works on a record that exists. *)
SeenExists ==
    \A k \in Cancels :
        cpc[k] \in {"lookup", "mark", "write"} => Exists(executions[target[k]])

(* No step but a restart makes a record absent. *)
LEMMA RecordsStay ==
    ASSUME ExecutionAssumption, Inv, [Next]_vars, NEW e \in Execs, Exists(executions[e]), ~Restart
    PROVE  Exists(executions'[e])
<1> USE DEF Inv, Typed, TypeOK
<1>1. ASSUME NEW x \in Execs, NEW r \in Records, NEW ok \in BOOLEAN, Put(x, r, ok), Exists(r)
      PROVE  Exists(executions'[e])
  BY <1>1 DEF Put
<1>2. \A c \in Classes : Exists(Rec("failed", c))
  BY DEF Exists, Rec
<1>3. /\ Exists(Rec("queued", "none")) /\ Exists(Rec("running", "none"))
      /\ Exists(Rec("canceled", "early"))
  BY DEF Exists, Rec
<1>4. ASSUME NEW x \in Execs, Submit(x) PROVE Exists(executions'[e])
  BY <1>1, <1>2, <1>3, <1>4, RecTypes
     DEF Submit, SubmitFind, SubmitCreate, SubmitSave, SubmitEnqueue, SubmitUndo, storeVars, Classes
<1>5. ASSUME NEW w \in Workers, Start(w) PROVE Exists(executions'[e])
  BY <1>1, <1>3, <1>5, RecTypes, JobIsExec DEF Start, storeVars
<1>6. ASSUME NEW w \in Workers, Commit(w) \/ Fail(w) PROVE Exists(executions'[e])
  <2>1. local[w] \in Records /\ Exists(local[w])
    BY <1>6 DEF Commit, Fail, Filed, OutcomeReady, TerminalStatus, Exists
  <2>2. job[w] \in Execs
    BY <1>6, JobIsExec DEF Commit, Fail
  <2>3. QED
    BY <1>1, <1>6, <2>1, <2>2 DEF Commit, Fail, storeVars
<1>7. ASSUME NEW k \in Cancels, Cancel(k) PROVE Exists(executions'[e])
  <2>1. cpc[k] = "write" => target[k] \in Execs
    BY DEF TargetsKnown
  <2>2. QED
    BY <1>1, <1>3, <1>7, <2>1, RecTypes
       DEF Cancel, CancelLoad, CancelRunning, CancelMissing, CancelMark, CancelWrite,
           WriteCanceled, storeVars
<1>8. CASE UNCHANGED executions
  BY <1>8
<1>9. ASSUME NEW w \in Workers, Work(w), ~Start(w), ~Commit(w), ~Fail(w)
      PROVE  UNCHANGED executions
  BY <1>9 DEF Work, Dequeue, Wait, Leave, CheckMark, Load, Refuse, Acquire, Prepare, Execute,
              Return, Report, Release, storeVars
<1>10. ASSUME NEW r \in Execs \cup Cancels, Abandon(r) PROVE UNCHANGED executions
  BY <1>10 DEF Abandon, storeVars
<1>11. ASSUME NEW x \in Execs, Expire(x) PROVE UNCHANGED executions
  BY <1>11 DEF Expire, storeVars
<1>12. Signal \/ CloseQueue \/ UNCHANGED vars => UNCHANGED executions
  BY DEF Signal, CloseQueue, vars, storeVars
<1>13. QED
  BY <1>4, <1>5, <1>6, <1>7, <1>8, <1>9, <1>10, <1>11, <1>12 DEF Next

(* What a cancel call has seen stays. *)
LEMMA SeenStep ==
    ASSUME ExecutionAssumption, Inv, SeenExists, [Next]_vars
    PROVE  SeenExists'
<1> USE DEF SeenExists
<1>1. CASE Restart
  BY <1>1 DEF Restart, CancelEnds, Inv, Typed, TypeOK
<1>2. ASSUME ~Restart, NEW k \in Cancels, cpc'[k] \in {"lookup", "mark", "write"}
      PROVE  Exists(executions'[target'[k]])
  <2>1. CASE cpc'[k] = cpc[k] /\ target'[k] = target[k]
    BY <1>2, <2>1, RecordsStay DEF Inv, Typed, TargetsKnown
  <2>2. CASE Cancel(k)
    <3>1. CancelLoad(k) => target'[k] \in Execs /\ Exists(executions[target'[k]])
      BY <1>2 DEF CancelLoad, CancelTo, Inv, Typed, TypeOK
    <3>2. ~CancelLoad(k) => /\ cpc[k] \in {"lookup", "mark", "write"}
                            /\ target'[k] = target[k]
      BY <1>2, <2>2 DEF Cancel, CancelRunning, CancelMissing, CancelMark, CancelWrite,
                        WriteCanceled, CancelTo, Inv, Typed, TypeOK
    <3>3. target'[k] \in Execs /\ Exists(executions[target'[k]])
      BY <3>1, <3>2 DEF Inv, Typed, TargetsKnown
    <3>4. QED
      BY <1>2, <3>3, RecordsStay
  <2>3. CASE ~Cancel(k)
    <3>1. ASSUME NEW x \in Cancels, x # k, Cancel(x)
          PROVE  cpc'[k] = cpc[k] /\ target'[k] = target[k]
      BY <3>1 DEF Cancel, CancelLoad, CancelRunning, CancelMissing, CancelMark, CancelWrite,
                  WriteCanceled, CancelTo, Inv, Typed, TypeOK
    <3>2. ASSUME NEW e \in Execs, Submit(e) \/ Expire(e) PROVE UNCHANGED <<cpc, target>>
      BY <3>2 DEF Submit, SubmitFind, SubmitCreate, SubmitSave, SubmitEnqueue, SubmitUndo,
                  Expire, requestVars
    <3>3. ASSUME NEW w \in Workers, Work(w) PROVE UNCHANGED <<cpc, target>>
      BY <3>3 DEF Work, Dequeue, Wait, Leave, CheckMark, Load, Refuse, Acquire, Start, Prepare,
                  Execute, Return, Commit, Report, Fail, Release, requestVars
    <3>4. ASSUME NEW r \in Execs \cup Cancels, Abandon(r) PROVE UNCHANGED <<cpc, target>>
      BY <3>4 DEF Abandon
    <3>5. Signal \/ CloseQueue \/ UNCHANGED vars => UNCHANGED <<cpc, target>>
      BY DEF Signal, CloseQueue, vars, requestVars
    <3>6. cpc'[k] = cpc[k] /\ target'[k] = target[k]
      BY <1>2, <2>3, <3>1, <3>2, <3>3, <3>4, <3>5 DEF Next
    <3>7. QED
      BY <2>1, <3>6
  <2>4. QED
    BY <2>2, <2>3
<1>3. QED
  BY <1>1, <1>2

(* How the two parts of Lifecycle follow the state. *)
LEMMA RecordPut ==
    ASSUME Typed, NEW e \in Execs, NEW r \in Records, NEW ok \in BOOLEAN, Put(e, r, ok)
    PROVE  /\ Terminal(r) => AbsRecord' = [AbsRecord EXCEPT ![e] = "final"]
           /\ ~Terminal(r) => AbsRecord' = [AbsRecord EXCEPT ![e] = r.status]
<1>1. \A x \in Execs : executions'[x] = IF x = e THEN r ELSE executions[x]
  BY DEF Put, Typed, TypeOK
<1>2. \A x \in Execs : RecordOf(x)' = IF x = e THEN IF Terminal(r) THEN "final" ELSE r.status
                                               ELSE RecordOf(x)
  BY <1>1 DEF RecordOf, Terminal
<1>3. QED
  BY <1>2 DEF AbsRecord

LEMMA OpenRecs ==
    \A s \in {"queued", "running"} :
        /\ Rec(s, "none") \in Records
        /\ Rec(s, "none").status = s
        /\ ~Terminal(Rec(s, "none"))
<1>1. ~("queued" \in TerminalStatus) /\ ~("running" \in TerminalStatus)
  BY DEF TerminalStatus
<1>2. QED
  BY <1>1, RecTypes, RecFields DEF Terminal

LEMMA RecordSame == ASSUME UNCHANGED executions PROVE UNCHANGED AbsRecord
  BY DEF AbsRecord, RecordOf

LEMMA WorkKept ==
    ASSUME UNCHANGED <<queue, job>>,
           \A e \in Execs : spc'[e] = "accepted" <=> spc[e] = "accepted",
           \A w \in Workers : Dropped(w)' <=> Dropped(w)
    PROVE  UNCHANGED AbsWork
<1>1. \A e \in Execs : WorkOf(e)' = WorkOf(e)
  BY DEF WorkOf
<1>2. QED
  BY <1>1 DEF AbsWork

LEMMA WorkSame ==
    ASSUME UNCHANGED <<queue, job, stopping, wpc>>,
           \A e \in Execs : spc'[e] = "accepted" <=> spc[e] = "accepted"
    PROVE  UNCHANGED AbsWork
<1>1. \A w \in Workers : Dropped(w)' <=> Dropped(w)
  BY DEF Dropped
<1>2. QED
  BY <1>1, WorkKept

(* The job a worker holds is busy or dropped, as the worker is, and over when
   the worker is done with it. *)
LEMMA WorkBusy ==
    ASSUME Owned, NEW w \in Workers, job[w] \in Execs
    PROVE  AbsWork[job[w]] = IF Dropped(w) THEN "dropped" ELSE "busy"
<1>1. \A v \in Workers : job[v] = job[w] => v = w
  <2>1. CASE job[w] = NoExec
    BY <2>1, ExecutionAssumption DEF ExecutionAssumption
  <2>2. CASE job[w] # NoExec
    BY <2>2 DEF Owned, OneWorkerPerJob
  <2>3. QED
    BY <2>1, <2>2
<1>2. WorkOf(job[w]) = IF Dropped(w) THEN "dropped" ELSE "busy"
  BY <1>1 DEF WorkOf
<1>3. QED
  BY <1>2 DEF AbsWork

LEMMA WorkOver ==
    ASSUME ExecutionAssumption, Typed, Owned, NEW w \in Workers, NEW e \in Execs, job[w] = e,
           Q!Finish(w), UNCHANGED spc, \A v \in Workers : v # w => wpc'[v] = wpc[v]
    PROVE  AbsWork' = [AbsWork EXCEPT ![e] = "over"]
<1>1. queue' = queue /\ job' = [job EXCEPT ![w] = NoExec] /\ stopping' = stopping
  BY DEF Q!Finish
<1>2. WorkOf(e)' = "over"
  <2>1. e # NoExec /\ e \notin queue /\ spc[e] = "accepted"
    BY DEF Owned, OneWorkerPerJob, AcceptedFirst, ExecutionAssumption
  <2>2. ASSUME NEW v \in Workers PROVE job'[v] # e
    BY <1>1, <2>1 DEF Owned, OneWorkerPerJob, Typed, TypeOK
  <2>3. QED
    BY <1>1, <2>1, <2>2 DEF WorkOf
<1>3. ASSUME NEW x \in Execs, x # e PROVE WorkOf(x)' = WorkOf(x)
  <2>1. ASSUME NEW v \in Workers
        PROVE  /\ job'[v] = x <=> job[v] = x
               /\ job[v] = x => (Dropped(v)' <=> Dropped(v))
    BY <1>1, <1>3 DEF Typed, TypeOK, ExecutionAssumption, Dropped
  <2>2. QED
    BY <1>1, <2>1 DEF WorkOf
<1>4. \A x \in Execs : WorkOf(x)' = IF x = e THEN "over" ELSE WorkOf(x)
  BY <1>2, <1>3
<1>5. QED
  BY <1>4 DEF AbsWork

(* The record of a job that is held, or of a Submit on its way, exists. *)
LEMMA RecordsThere ==
    ASSUME Inv, NEW e \in Execs,
           spc[e] \in {"save", "enqueue", "undo", "accepted"} \/ \E w \in Workers : job[w] = e
    PROVE  AbsRecord[e] # "absent"
<1>1. Exists(executions[e])
  BY DEF Inv, Owned, AcceptedFirst, Filed, RecordFirst
<1>2. QED
  BY <1>1 DEF AbsRecord, RecordOf, Exists, Terminal, TerminalStatus

(* Each step of the service is one of Lifecycle, or changes nothing of it. *)
LEMMA LifeStep ==
    ASSUME ExecutionAssumption, Inv, SeenExists, [Next]_vars
    PROVE  [Life!Next]_<<AbsRecord, AbsWork, stopping, closed>>
<1> DEFINE Goal == Life!Next \/ UNCHANGED <<AbsRecord, AbsWork, stopping, closed>>
<1> USE DEF AbsRecord, AbsWork
<1>1. ASSUME NEW e \in Execs, Life!Create(e) \/ Life!Queue(e) \/ Life!Take(e) \/ Life!Begin(e)
                              \/ Life!Settle(e) \/ Life!Leave(e),
             UNCHANGED <<stopping, closed>>
      PROVE  Goal
  BY <1>1 DEF Life!Next
<1> HIDE DEF AbsRecord, AbsWork
<1>2. ASSUME NEW e \in Execs, NEW r \in Records, NEW ok \in BOOLEAN, Put(e, r, ok), Terminal(r),
             AbsRecord[e] # "absent", UNCHANGED <<AbsWork, stopping, closed>>
      PROVE  Goal
  <2>1. AbsRecord' = [AbsRecord EXCEPT ![e] = "final"]
    BY <1>2, RecordPut DEF Inv
  <2>2. Life!Settle(e)
    BY <1>2, <2>1 DEF Life!Settle, Life!RecordTo, AbsRecord, AbsWork
  <2>3. QED
    BY <1>1, <1>2, <2>2
<1>3. \A c \in Classes : Rec("failed", c) \in Records /\ Terminal(Rec("failed", c))
  BY RecTypes, RecFields DEF Terminal, TerminalStatus
<1>4. Rec("canceled", "early") \in Records /\ Terminal(Rec("canceled", "early"))
  BY RecTypes, RecFields DEF Terminal, TerminalStatus
<1>5. ASSUME NEW e \in Execs, Submit(e) PROVE Goal
  <2> USE DEF Inv, Typed, TypeOK
  <2>1. CASE SubmitFind(e)
    BY <2>1, RecordSame, WorkSame DEF SubmitFind, SubmitTo, storeVars, queueVars, workerVars
  <2>2. CASE SubmitCreate(e)
    <3>1. UNCHANGED AbsWork
      BY <2>2, WorkSame DEF SubmitCreate, SubmitTo, AfterCreate, queueVars, workerVars
    <3>2. CASE UNCHANGED storeVars
      BY <2>2, <3>1, <3>2, RecordSame DEF SubmitCreate, storeVars, queueVars
    <3>3. ASSUME NEW ok \in BOOLEAN, Put(e, Rec("queued", "none"), ok) PROVE Goal
      <4>1. AbsRecord' = [AbsRecord EXCEPT ![e] = "queued"]
        BY <3>3, OpenRecs, RecordPut
      <4>2. AbsRecord[e] = "absent"
        BY <2>2 DEF SubmitCreate, Attended, Unrecorded, Exists, AbsRecord, RecordOf,
                    Terminal, TerminalStatus
      <4>3. Life!Create(e)
        BY <3>1, <4>1, <4>2 DEF Life!Create, Life!RecordTo, AbsRecord, AbsWork
      <4>4. QED
        BY <1>1, <2>2, <4>3 DEF SubmitCreate, queueVars
    <3>4. QED
      BY <2>2, <3>2, <3>3 DEF SubmitCreate, queueVars
  <2>3. CASE SubmitSave(e)
    BY <2>3, RecordSame, WorkSame DEF SubmitSave, SubmitTo, storeVars, queueVars, workerVars
  <2>4. CASE SubmitEnqueue(e)
    <3>1. UNCHANGED AbsRecord
      BY <2>4, RecordSame DEF SubmitEnqueue, storeVars
    <3>2. CASE Q!Put(e) /\ SubmitTo(e, "accepted")
      <4>1. WorkOf(e) = "none" /\ WorkOf(e)' = "waiting"
        BY <2>4, <3>2 DEF SubmitEnqueue, WorkOf, Owned, AcceptedFirst, Q!Put, SubmitTo, workerVars
      <4>2. \A x \in Execs : x # e => WorkOf(x)' = WorkOf(x)
        BY <2>4, <3>2 DEF SubmitEnqueue, WorkOf, Q!Put, SubmitTo, workerVars, Dropped
      <4>3. AbsRecord[e] # "absent"
        BY <2>4, RecordsThere DEF SubmitEnqueue
      <4>4. ~closed /\ UNCHANGED <<stopping, closed>>
        BY <3>2 DEF Q!Put
      <4>5. Life!Queue(e)
        BY <3>1, <4>1, <4>2, <4>3, <4>4 DEF Life!Queue, Life!WorkTo, AbsRecord, AbsWork
      <4>6. QED
        BY <1>1, <4>4, <4>5
    <3>3. CASE UNCHANGED queueVars /\ SubmitTo(e, "undo")
      BY <2>4, <3>1, <3>3, WorkSame DEF SubmitEnqueue, SubmitTo, queueVars, workerVars
    <3>4. QED
      BY <2>4, <3>2, <3>3 DEF SubmitEnqueue
  <2>5. CASE SubmitUndo(e)
    <3>1. UNCHANGED <<AbsWork, stopping, closed>>
      BY <2>5, WorkSame DEF SubmitUndo, SubmitTo, queueVars, workerVars
    <3>2. AbsRecord[e] # "absent"
      BY <2>5, RecordsThere DEF SubmitUndo
    <3>3. "unavailable" \in Classes
      BY DEF Classes
    <3>4. CASE UNCHANGED storeVars
      BY <3>1, <3>4, RecordSame DEF storeVars
    <3>5. ASSUME NEW ok \in BOOLEAN, Put(e, Rec("failed", "unavailable"), ok) PROVE Goal
      BY <1>2, <1>3, <3>1, <3>2, <3>3, <3>5
    <3>6. QED
      BY <2>5, <3>4, <3>5 DEF SubmitUndo
  <2>6. QED
    BY <1>5, <2>1, <2>2, <2>3, <2>4, <2>5 DEF Submit
<1>6. ASSUME NEW w \in Workers, Work(w) PROVE Goal
  <2> USE DEF Inv
  <2>1. UNCHANGED <<spc, stopping, closed>>
    BY <1>6 DEF Work, Dequeue, Wait, Leave, CheckMark, Load, Refuse, Acquire, Start, Prepare,
                Execute, Return, Commit, Report, Fail, Release, requestVars, queueVars,
                Q!Take, Q!Finish
  <2>2. \A v \in Workers : v # w => wpc'[v] = wpc[v]
    BY <1>6 DEF Work, Dequeue, Wait, Leave, CheckMark, Load, Refuse, Acquire, Start, AfterStart,
                Prepare, Execute, Return, Commit, Report, Fail, Release, WorkerTo, Typed, TypeOK
  <2>3. \A v \in Workers : v # w => (Dropped(v)' <=> Dropped(v))
    BY <2>1, <2>2 DEF Dropped
  <2>4. CASE Dequeue(w)
    <3>1. PICK e \in Execs : Q!Take(w, e)
      BY <2>4 DEF Dequeue
    <3>2. e \in queue /\ ~closed /\ queue' = queue \ {e} /\ job' = [job EXCEPT ![w] = e]
      BY <3>1 DEF Q!Take
    <3>3. \A v \in Workers : job'[v] = e <=> v = w
      BY <3>2 DEF Owned, OneWorkerPerJob, Typed, TypeOK, ExecutionAssumption
    <3>4. Dropped(w)' <=> stopping
      BY <2>1, <2>4 DEF Dequeue, WorkerTo, Dropped, Typed, TypeOK
    <3>5. WorkOf(e) = "waiting" /\ WorkOf(e)' = IF stopping THEN "dropped" ELSE "busy"
      <4>1. \A v \in Workers : job[v] # e
        BY <3>2 DEF Owned, OneWorkerPerJob, Typed, TypeOK, ExecutionAssumption
      <4>2. QED
        BY <3>2, <3>3, <3>4, <4>1 DEF WorkOf
    <3>6. job[w] = NoExec
      BY <2>4 DEF Dequeue, Typed, JobsHeld
    <3>7. ASSUME NEW x \in Execs, x # e PROVE WorkOf(x)' = WorkOf(x)
      <4>1. ASSUME NEW v \in Workers
            PROVE  /\ job'[v] = x <=> job[v] = x
                   /\ job[v] = x => (Dropped(v)' <=> Dropped(v))
        BY <2>3, <3>2, <3>6, <3>7 DEF Typed, TypeOK, ExecutionAssumption
      <4>2. QED
        BY <2>1, <3>2, <3>7, <4>1 DEF WorkOf
    <3>8. UNCHANGED AbsRecord
      BY <2>4, RecordSame DEF Dequeue, storeVars
    <3>9. Life!Take(e)
      BY <3>2, <3>5, <3>7, <3>8 DEF Life!Take, Life!WorkTo, AbsRecord, AbsWork
    <3>10. QED
      BY <1>1, <2>1, <3>9
  <2>5. ASSUME UNCHANGED <<executions, queue, job>>, Dropped(w)' <=> Dropped(w) PROVE Goal
    BY <2>1, <2>3, <2>5, RecordSame, WorkKept
  <2>6. ASSUME Wait(w) \/ Leave(w) \/ Acquire(w) \/ Prepare(w) \/ Execute(w) \/ Return(w)
               \/ Report(w)
        PROVE  Goal
    <3>1. UNCHANGED <<executions, queue, job>>
      BY <2>6 DEF Wait, Leave, Acquire, Prepare, Execute, Return, Report, storeVars, queueVars
    <3>2. Dropped(w)' <=> Dropped(w)
      BY <2>1, <2>6 DEF Wait, Leave, Acquire, Prepare, Execute, Return, Report, WorkerTo,
                        Dropped, Typed, TypeOK
    <3>3. QED
      BY <2>5, <3>1, <3>2
  <2>7. ASSUME Q!Finish(w), job[w] \in Execs, UNCHANGED executions PROVE Goal
    <3>1. /\ AbsWork[job[w]] \in {"busy", "dropped"}
          /\ AbsWork' = [AbsWork EXCEPT ![job[w]] = "over"]
      BY <2>1, <2>2, <2>7, WorkBusy, WorkOver
    <3>2. UNCHANGED AbsRecord
      BY <2>7, RecordSame
    <3>3. Life!Leave(job[w])
      BY <3>1, <3>2 DEF Life!Leave, Life!WorkTo, AbsRecord, AbsWork
    <3>4. QED
      BY <1>1, <2>1, <2>7, <3>3
  <2>8. CASE CheckMark(w) \/ Load(w) \/ Refuse(w) \/ Release(w)
    <3>1. job[w] \in Execs /\ UNCHANGED executions
      BY <2>8, JobIsExec DEF CheckMark, Load, Refuse, Release, storeVars
    <3>2. CASE Q!Finish(w)
      BY <2>7, <3>1, <3>2
    <3>3. CASE ~Q!Finish(w)
      <4>1. UNCHANGED <<queue, job>>
        BY <2>8, <3>3 DEF CheckMark, Load, Refuse, Release, queueVars
      <4>2. Dropped(w)' <=> Dropped(w)
        BY <2>1, <2>8, <3>3 DEF CheckMark, Load, Refuse, Release, WorkerTo, Dropped,
                                Typed, TypeOK
      <4>3. QED
        BY <2>5, <3>1, <4>1, <4>2
    <3>4. QED
      BY <3>2, <3>3
  <2>9. CASE Start(w)
    <3>1. job[w] \in Execs /\ AbsWork[job[w]] = "busy" /\ AbsRecord[job[w]] # "absent"
      BY <2>9, JobIsExec, WorkBusy, RecordsThere DEF Start, Dropped
    <3>2. ~Dropped(w) /\ ~Dropped(w)'
      BY <2>9 DEF Start, AfterStart, WorkerTo, Dropped, Typed, TypeOK
    <3>3. UNCHANGED AbsWork
      BY <2>1, <2>3, <2>9, <3>2, WorkKept DEF Start, queueVars
    <3>4. CASE UNCHANGED storeVars
      BY <2>1, <3>3, <3>4, RecordSame DEF storeVars
    <3>5. ASSUME NEW ok \in BOOLEAN, Put(job[w], Rec("running", "none"), ok) PROVE Goal
      <4>1. AbsRecord' = [AbsRecord EXCEPT ![job[w]] = "running"]
        BY <3>1, <3>5, OpenRecs, RecordPut
      <4>2. Life!Begin(job[w])
        BY <3>1, <3>3, <4>1 DEF Life!Begin, Life!RecordTo, AbsRecord, AbsWork
      <4>3. QED
        BY <1>1, <2>1, <3>1, <4>2
    <3>6. QED
      BY <2>9, <3>4, <3>5 DEF Start
  <2>10. CASE Commit(w) \/ Fail(w)
    <3>1. job[w] \in Execs /\ AbsWork[job[w]] = "busy" /\ AbsRecord[job[w]] # "absent"
      BY <2>10, JobIsExec, WorkBusy, RecordsThere DEF Commit, Fail, Dropped
    <3>2. local[w] \in Records /\ Terminal(local[w])
      BY <2>10 DEF Commit, Fail, Filed, OutcomeReady, Terminal, Typed, TypeOK
    <3>3. CASE UNCHANGED queueVars
      <4>1. ~Dropped(w) /\ ~Dropped(w)'
        <5>1. wpc'[w] \in {"report", "release"}
          BY <2>10, <3>1, <3>3 DEF Commit, Fail, AfterCommit, WorkerTo, Typed, TypeOK,
                                   Q!Finish, queueVars, ExecutionAssumption
        <5>2. QED
          BY <2>10, <5>1 DEF Commit, Fail, Dropped
      <4>2. UNCHANGED AbsWork
        BY <2>1, <2>3, <3>3, <4>1, WorkKept DEF queueVars
      <4>3. CASE UNCHANGED storeVars
        BY <2>1, <4>2, <4>3, RecordSame DEF storeVars
      <4>4. ASSUME NEW ok \in BOOLEAN, Put(job[w], local[w], ok) PROVE Goal
        BY <1>2, <2>1, <3>1, <3>2, <4>2, <4>4
      <4>5. QED
        BY <2>10, <4>3, <4>4 DEF Commit, Fail
    <3>4. CASE Q!Finish(w)
      <4>1. CASE UNCHANGED storeVars
        BY <2>7, <3>1, <3>4, <4>1 DEF storeVars
      <4>2. ASSUME NEW ok \in BOOLEAN, Put(job[w], local[w], ok) PROVE Goal
        <5>1. AbsRecord' = [AbsRecord EXCEPT ![job[w]] = "final"]
          BY <3>1, <3>2, <4>2, RecordPut
        <5>2. AbsWork' = [AbsWork EXCEPT ![job[w]] = "over"]
          BY <2>1, <2>2, <3>1, <3>4, WorkOver
        <5>3. Life!Leave(job[w])
          BY <3>1, <5>1, <5>2 DEF Life!Leave, Life!WorkTo, Life!RecordTo, AbsRecord, AbsWork
        <5>4. QED
          BY <1>1, <2>1, <3>1, <5>3
      <4>3. QED
        BY <2>10, <4>1, <4>2 DEF Commit, Fail
    <3>5. QED
      BY <2>10, <3>3, <3>4 DEF Commit, Fail
  <2>11. QED
    BY <1>6, <2>4, <2>6, <2>8, <2>9, <2>10 DEF Work
<1>7. ASSUME NEW k \in Cancels, Cancel(k) PROVE Goal
  <2>1. UNCHANGED <<AbsWork, stopping, closed>>
    BY <1>7, WorkSame DEF Cancel, CancelLoad, CancelRunning, CancelMissing, CancelMark,
         CancelWrite, queueVars, workerVars
  <2>2. CASE UNCHANGED storeVars
    BY <2>1, <2>2, RecordSame DEF storeVars
  <2>3. ASSUME cpc[k] = "write", NEW ok \in BOOLEAN, Put(target[k], Rec("canceled", "early"), ok)
        PROVE  Goal
    <3>1. target[k] \in Execs /\ AbsRecord[target[k]] # "absent"
      BY <2>3 DEF Inv, Typed, TargetsKnown, SeenExists, AbsRecord, RecordOf, Exists, Terminal,
                  TerminalStatus
    <3>2. QED
      BY <1>2, <1>4, <2>1, <2>3, <3>1
  <2>4. QED
    BY <1>7, <2>2, <2>3 DEF Cancel, CancelLoad, CancelRunning, CancelMissing, CancelMark,
         CancelWrite, WriteCanceled
<1>8. CASE Restart
  <2>1. \A e \in Execs : RecordOf(e)' \in {"absent", "final"}
    <3>1. ASSUME NEW e \in Execs PROVE RecordOf(e)' \in {"absent", "final"}
      <4>1. disk.executions[e] \in Records /\ executions'[e] = Recovered(disk.executions[e])
        BY <1>8 DEF Restart, Inv, Typed, TypeOK, Store
      <4>2. Terminal(executions'[e]) \/ executions'[e].status = "absent"
        BY <4>1 DEF Recovered, Rec, Terminal, TerminalStatus, Records, Status
      <4>3. QED
        BY <4>2 DEF RecordOf, Terminal
    <3>2. QED
      BY <3>1
  <2>2. \A e \in Execs : WorkOf(e)' = IF WorkOf(e) = "none" THEN "none" ELSE "over"
    <3>1. ASSUME NEW e \in Execs
          PROVE  WorkOf(e)' = IF WorkOf(e) = "none" THEN "none" ELSE "over"
      <4>1. spc'[e] = "accepted" <=> spc[e] = "accepted"
        BY <1>8 DEF Restart, Inv, Typed, TypeOK, SubmitEnds
      <4>2. queue' = {} /\ \A w \in Workers : job'[w] # e
        BY <1>8 DEF Restart, ExecutionAssumption
      <4>3. WorkOf(e)' = IF spc[e] = "accepted" THEN "over" ELSE "none"
        BY <4>1, <4>2 DEF WorkOf
      <4>4. WorkOf(e) = "none" <=> spc[e] # "accepted"
        BY DEF WorkOf, Inv, Owned, AcceptedFirst
      <4>5. QED
        BY <4>3, <4>4
    <3>2. QED
      BY <3>1
  <2>3. Life!Restart
    BY <1>8, <2>1, <2>2 DEF Restart, Life!Restart
  <2>4. QED
    BY <2>3 DEF Life!Next
<1>9. ASSUME NEW e \in Execs, Expire(e) PROVE Goal
  BY <1>9, RecordSame, WorkSame DEF Expire, storeVars, queueVars, workerVars, requestVars
<1>10. ASSUME NEW r \in Execs \cup Cancels, Abandon(r) PROVE Goal
  BY <1>10, RecordSame, WorkSame DEF Abandon, storeVars, queueVars, workerVars
<1>11. CASE Signal
  <2>1. ~stopping /\ stopping' = TRUE /\ UNCHANGED <<queue, job, closed, spc, wpc, executions>>
    BY <1>11 DEF Signal, Q!Stop, storeVars, workerVars, requestVars
  <2>2. ASSUME NEW e \in Execs
        PROVE  /\ WorkOf(e)' \in Life!WorkStates
               /\ WorkOf(e)' # WorkOf(e) => WorkOf(e) = "busy" /\ WorkOf(e)' = "dropped"
    <3>1. \A w \in Workers : ~Dropped(w)
      BY <2>1 DEF Dropped
    <3>2. QED
      BY <2>1, <3>1 DEF WorkOf, Life!WorkStates
  <2>3. Life!Stop
    BY <2>1, <2>2, RecordSame DEF Life!Stop, AbsRecord
  <2>4. QED
    BY <2>1, <2>3 DEF Life!Next
<1>12. CASE CloseQueue
  <2>1. /\ stopping /\ ~closed /\ closed' = TRUE
        /\ UNCHANGED <<queue, job, stopping, spc, wpc, executions>>
    BY <1>12 DEF CloseQueue, Q!Shut, storeVars, workerVars, requestVars
  <2>2. Life!Close
    BY <2>1, RecordSame, WorkSame DEF Life!Close, AbsRecord, AbsWork
  <2>3. QED
    BY <2>1, <2>2 DEF Life!Next
<1>13. CASE UNCHANGED vars
  BY <1>13, RecordSame, WorkSame DEF vars, storeVars, queueVars, workerVars, requestVars
<1>14. QED
  BY <1>5, <1>6, <1>7, <1>8, <1>9, <1>10, <1>11, <1>12, <1>13 DEF Next

(* The execution service implements Lifecycle, so what is shown of the code
   around it from Lifecycle alone holds with the service as it is written. *)
THEOREM ServiceImplementsLifecycle == SafeSpec => ImplementsLifecycle
<1>1. Init => Inv /\ SeenExists
  BY ExecutionAssumption, InvInit DEF Init, SeenExists
<1>2. Inv /\ SeenExists /\ [Next]_vars => (Inv /\ SeenExists)'
  BY ExecutionAssumption, InvStep, SeenStep
<1>3. ASSUME Init PROVE Life!Init
  <2>1. \A e \in Execs : RecordOf(e) = "absent"
    BY <1>3, RecFields DEF Init, RecordOf, NoRecord, Terminal, TerminalStatus
  <2>2. \A e \in Execs : WorkOf(e) = "none"
    BY <1>3, ExecutionAssumption DEF Init, Q!Init, WorkOf, ExecutionAssumption
  <2>3. QED
    BY <1>3, <2>1, <2>2 DEF Init, Q!Init, Life!Init
<1>4. Inv /\ SeenExists /\ [Next]_vars => [Life!Next]_(Life!vars)
  BY ExecutionAssumption, LifeStep DEF Life!vars, AbsRecord, AbsWork
<1>5. QED
  BY <1>1, <1>2, <1>3, <1>4, PTL DEF SafeSpec, ImplementsLifecycle, Life!Spec
=============================================================================
