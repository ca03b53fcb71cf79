----------------------------- MODULE GatewayProofs -----------------------------
(***************************************************************************)
(* Proofs about Gateway, for any clients, operators, streams and workers.  *)
(*                                                                         *)
(* The execution service is there as Lifecycle, which Execution implements *)
(* (ExecutionProofs).                                                      *)
(* Inv has four parts, each kept by every step:                            *)
(*   TypeOK    types; no more runs and waits than workers in their loop;   *)
(*   Closing   the runtime is closed only when no worker is left;          *)
(*   Draining  after a drain was answered the node is not ready, and a     *)
(*             request that came later is not past the check;              *)
(*   Watching  a stream that reported a record as begun watches one that   *)
(*             has begun.                                                  *)
(***************************************************************************)
EXTENDS Gateway, FiniteSetTheorems, TLAPS

Closing == phase \in {"ended", "exited"} => loops = 0

Draining ==
    /\ told => node # "ready"
    /\ late # {} => told
    /\ \A h \in late : pc[h] \notin {"open", "checked", "created", "accepted", "ready"}

Begun == {"running", "final"}

Watching ==
    \A s \in Streams :
        /\ sent[s] # "none" => pc[s] \notin {"new", "open", "checked", "created"}
        /\ pc[s] = "polling" => watched[s] \in Execs
        /\ sent[s] \in Begun => watched[s] \in Execs /\ record[watched[s]] \in Begun

Inv == TypeOK /\ Closing /\ Draining /\ Watching
-----------------------------------------------------------------------------
(* Stages are passed in their order. *)
LEMMA Stages ==
    ASSUME phase \in DOMAIN Stage
    PROVE  /\ phase \in {"serving", "signaled", "stopped", "closed", "http", "grpc", "pool",
                         "ended", "exited"}
           /\ Reached("ended") <=> phase \in {"ended", "exited"}
  BY DEF Stage, Reached

(* The busy executions are finitely many. *)
LEMMA BusyFinite == IsFiniteSet(Busy) /\ Cardinality(Busy) \in Nat
<1>1. Busy \subseteq Execs /\ IsFiniteSet(Execs)
  BY GatewayAssumption DEF Busy, GatewayAssumption
<1>2. QED
  BY <1>1, FS_Subset, FS_CardinalityType

(* A step that leaves the work alone leaves the busy executions alone. *)
LEMMA BusySame == ASSUME UNCHANGED work PROVE Busy' = Busy
  BY DEF Busy

LEMMA CallerKinds ==
    ASSUME GatewayAssumption
    PROVE  /\ Requests \cap Streams = {}
           /\ \A x \in Execs : x \in Callers /\ (x \in Requests \/ x \in Streams)
           /\ \A x \in Requests \cup Streams : x \in Callers
  BY DEF GatewayAssumption, Requests, Execs, Callers

LEMMA ToStage ==
    ASSUME TypeOK, NEW x \in Callers, NEW stage, To(x, stage)
    PROVE  pc'[x] = stage /\ \A y \in Callers : y # x => pc'[y] = pc[y]
  BY DEF TypeOK, To

(* What the execution service does to a record and its work. *)
LEMMA LifeTypes ==
    ASSUME TypeOK, NEW x \in Execs,
           L!Create(x) \/ L!Queue(x) \/ L!Take(x) \/ L!Begin(x) \/ L!Settle(x) \/ L!Leave(x)
           \/ UNCHANGED recordVars
    PROVE  /\ record' \in [Execs -> L!RecordStates]
           /\ work' \in [Execs -> L!WorkStates]
           /\ \A y \in Execs : record[y] \in Begun => record'[y] \in Begun
  BY DEF TypeOK, L!Create, L!Queue, L!Take, L!Begin, L!Settle, L!Leave, L!RecordTo, L!WorkTo,
         L!RecordStates, L!WorkStates, recordVars, Begun

(* Busy executions come and go one at a time. *)
LEMMA BusySteps ==
    ASSUME TypeOK, NEW x \in Execs
    PROVE  /\ L!Create(x) \/ L!Queue(x) \/ L!Begin(x) \/ L!Settle(x) \/ UNCHANGED recordVars
                => Cardinality(Busy') = Cardinality(Busy)
           /\ L!Take(x) => Cardinality(Busy') = Cardinality(Busy) + 1
           /\ L!Leave(x) => Cardinality(Busy') = Cardinality(Busy) - 1
<1> USE DEF TypeOK
<1>1. L!Create(x) \/ L!Queue(x) \/ L!Begin(x) \/ L!Settle(x) \/ UNCHANGED recordVars
        => Busy' = Busy
  BY DEF Busy, L!Create, L!Queue, L!Begin, L!Settle, L!WorkTo, recordVars
<1>2. ASSUME L!Take(x) PROVE Cardinality(Busy') = Cardinality(Busy) + 1
  <2>1. Busy' = Busy \cup {x} /\ x \notin Busy
    BY <1>2 DEF Busy, L!Take, L!WorkTo
  <2>2. QED
    BY <2>1, BusyFinite, FS_AddElement
<1>3. ASSUME L!Leave(x) PROVE Cardinality(Busy') = Cardinality(Busy) - 1
  <2>1. Busy' = Busy \ {x} /\ x \in Busy
    BY <1>3 DEF Busy, L!Leave, L!WorkTo
  <2>2. QED
    BY <2>1, BusyFinite, FS_RemoveElement
<1>4. QED
  BY <1>1, <1>2, <1>3

-----------------------------------------------------------------------------
LEMMA InvInit == ASSUME Init PROVE Inv
<1>1. Busy = {} /\ Cardinality(Busy) = 0 /\ PoolSize \in Nat
  BY GatewayAssumption, FS_EmptySet DEF Busy, Init, L!Init, GatewayAssumption
<1>2. loops \in Cardinality(Busy)..PoolSize /\ idle \in 0..(loops - Cardinality(Busy))
  BY <1>1 DEF Init
<1>3. /\ record \in [Execs -> L!RecordStates]
      /\ work \in [Execs -> L!WorkStates]
      /\ phase \in DOMAIN Stage
  BY DEF Init, L!Init, L!RecordStates, L!WorkStates, Stage
<1>4. TypeOK
  BY <1>2, <1>3 DEF Init, TypeOK
<1>5. pc \in [Callers -> {"new"}] /\ sent \in [Streams -> {"none"}] /\ Streams \subseteq Callers
  BY DEF Init, Callers
<1>6. Watching
  BY <1>5 DEF Watching, Begun
<1>7. Closing /\ Draining
  BY DEF Init, Closing, Draining
<1>8. QED
  BY <1>4, <1>6, <1>7 DEF Inv

(* The steps of a request before it submits. *)
LEMMA RequestStep ==
    ASSUME Inv, NEW h \in Requests,
           Arrive(h) \/ CheckReady(h) \/ Operate(h)
    PROVE  Inv'
<1> USE DEF Inv
<1>1. h \in Callers /\ h \notin Streams /\ Busy' = Busy
  BY CallerKinds, GatewayAssumption, BusySame
     DEF Arrive, CheckReady, Operate, recordVars
<1>2. CASE Arrive(h)
  <2>1. TypeOK'
    BY <1>1, <1>2 DEF Arrive, To, OperationsOf, Handling, TypeOK, recordVars, mainVars,
       streamVars
  <2>2. Draining'
    BY <1>1, <1>2 DEF Arrive, To, OperationsOf, TypeOK, Draining, mainVars
  <2>3. Closing' /\ Watching'
    BY <1>1, <1>2 DEF Arrive, To, OperationsOf, TypeOK, Closing, Watching, mainVars, recordVars,
       streamVars
  <2>4. QED
    BY <2>1, <2>2, <2>3
<1>3. CASE CheckReady(h)
  <2>1. PICK stage \in {"checked", "ready", "refused"} :
          To(h, stage) /\ (stage # "refused" => node = "ready")
    BY <1>3 DEF CheckReady, Ready
  <2>2. pc'[h] = stage /\ \A y \in Callers : y # h => pc'[y] = pc[y]
    BY <1>1, <2>1, ToStage
  <2>3. UNCHANGED <<record, work, loops, idle, node, phase, expired, gone, watched, sent, told,
                    late>>
    BY <1>3 DEF CheckReady, recordVars, mainVars, streamVars, drainVars
  <2>4. TypeOK'
    BY <1>1, <2>1, <2>3 DEF To, Handling, TypeOK
  <2>5. Draining'
    BY <2>1, <2>2, <2>3, CallerKinds, GatewayAssumption DEF TypeOK, Draining
  <2>6. Closing' /\ Watching'
    BY <1>1, <2>2, <2>3, CallerKinds, GatewayAssumption DEF Closing, Watching
  <2>7. QED
    BY <2>4, <2>5, <2>6
<1>4. CASE Operate(h)
  <2>1. PICK stage \in {"done", "refused"} : To(h, stage)
    BY <1>4 DEF Operate
  <2>2. pc'[h] = stage /\ \A y \in Callers : y # h => pc'[y] = pc[y]
    BY <1>1, <2>1, ToStage
  <2>3. UNCHANGED <<record, work, loops, idle, phase, expired, gone, watched, sent, late>>
    BY <1>4 DEF Operate, recordVars, streamVars
  <2>4. \/ node' \in {"draining", "isolated"} /\ told' = TRUE
        \/ UNCHANGED <<node, told>>
    BY <1>4 DEF Operate, Drained, Isolated
  <2>5. TypeOK'
    BY <1>1, <2>1, <2>3, <2>4 DEF To, Handling, TypeOK
  <2>6. Draining'
    BY <2>1, <2>2, <2>3, <2>4, CallerKinds, GatewayAssumption DEF TypeOK, Draining
  <2>7. Closing' /\ Watching'
    BY <1>1, <2>2, <2>3, CallerKinds, GatewayAssumption DEF Closing, Watching
  <2>8. QED
    BY <2>5, <2>6, <2>7
<1>5. QED
  BY <1>2, <1>3, <1>4

(* The steps of a submit, by a request or by a stream. *)
LEMMA SubmitStep == ASSUME Inv, NEW x \in Execs, Submit(x) PROVE Inv'
<1> USE DEF Inv
<1>1. /\ UNCHANGED <<loops, idle, node, phase, expired, gone, told, late>>
      /\ pc[x] \in {"open", "checked", "created"}
      /\ x \in Callers /\ (x \in Requests \/ x \in Streams)
  BY CallerKinds, GatewayAssumption
     DEF Submit, mainVars, drainVars
<1>2. L!Create(x) \/ L!Queue(x) \/ L!Settle(x) \/ UNCHANGED recordVars
  BY DEF Submit, SubmitFind, SubmitCreate, SubmitQueue
<1>3. /\ record' \in [Execs -> L!RecordStates]
      /\ work' \in [Execs -> L!WorkStates]
      /\ \A y \in Execs : record[y] \in Begun => record'[y] \in Begun
      /\ Cardinality(Busy') = Cardinality(Busy)
  BY <1>2, LifeTypes, BusySteps
<1>4. CASE \E stage \in {"created", "accepted", "refused"} :
             /\ To(x, stage)
             /\ x \in Streams => stage # "accepted"
             /\ UNCHANGED <<watched, sent>>
  <2>1. PICK stage \in {"created", "accepted", "refused"} :
          To(x, stage) /\ UNCHANGED <<watched, sent>>
    BY <1>4
  <2>2. pc'[x] = stage /\ \A y \in Callers : y # x => pc'[y] = pc[y]
    BY <1>1, <2>1, ToStage
  <2>3. TypeOK'
    BY <1>1, <1>3, <2>1 DEF To, Handling, TypeOK
  <2>4. Draining'
    BY <1>1, <2>2, CallerKinds, GatewayAssumption DEF TypeOK, Draining
  <2>5. Watching'
    <3> SUFFICES ASSUME NEW s \in Streams
                 PROVE  /\ sent'[s] # "none" => pc'[s] \notin {"new", "open", "checked", "created"}
                        /\ pc'[s] = "polling" => watched'[s] \in Execs
                        /\ sent'[s] \in Begun =>
                             watched'[s] \in Execs /\ record'[watched'[s]] \in Begun
      BY DEF Watching
    <3>1. s \in Callers /\ (s = x \/ pc'[s] = pc[s])
      BY <2>2 DEF Callers
    <3>2. sent'[s] = sent[s] /\ watched'[s] = watched[s]
      BY <2>1
    <3>3. sent[s] # "none" => pc[s] \notin {"new", "open", "checked", "created"}
      BY DEF Watching
    <3>4. sent'[s] \in Begun => watched'[s] \in Execs /\ record'[watched'[s]] \in Begun
      BY <1>3, <3>2 DEF Watching
    <3>5. CASE s = x
      BY <1>1, <1>4, <2>1, <2>2, <3>2, <3>3, <3>4, <3>5
    <3>6. CASE s # x
      <4>1. pc'[s] = pc[s]
        BY <3>1, <3>6
      <4>2. QED
        BY <3>2, <3>4, <4>1 DEF Watching
    <3>7. QED
      BY <3>5, <3>6
  <2>6. Closing'
    BY <1>1 DEF Closing
  <2>7. QED
    BY <2>3, <2>4, <2>5, <2>6
<1>5. CASE /\ x \in Streams
           /\ To(x, "polling")
           /\ \E y \in Execs, status \in L!RecordStates :
                /\ watched' = [watched EXCEPT ![x] = y]
                /\ sent' = [sent EXCEPT ![x] = status]
                /\ status = "queued" \/ (record' = record /\ status = record[y])
  <2>1. PICK y \in Execs, status \in L!RecordStates :
          /\ watched' = [watched EXCEPT ![x] = y]
          /\ sent' = [sent EXCEPT ![x] = status]
          /\ status = "queued" \/ (record' = record /\ status = record[y])
    BY <1>5
  <2>2. pc'[x] = "polling" /\ \A z \in Callers : z # x => pc'[z] = pc[z]
    BY <1>1, <1>5, ToStage
  <2>3. TypeOK'
    BY <1>1, <1>3, <1>5, <2>1 DEF To, Handling, TypeOK
  <2>4. Draining'
    BY <1>1, <1>5, <2>2, CallerKinds, GatewayAssumption DEF TypeOK, Draining
  <2>5. Watching'
    <3> SUFFICES ASSUME NEW s \in Streams
                 PROVE  /\ sent'[s] # "none" => pc'[s] \notin {"new", "open", "checked", "created"}
                        /\ pc'[s] = "polling" => watched'[s] \in Execs
                        /\ sent'[s] \in Begun =>
                             watched'[s] \in Execs /\ record'[watched'[s]] \in Begun
      BY DEF Watching
    <3>1. CASE s = x
      <4>1. watched'[s] = y /\ sent'[s] = status
        BY <1>5, <2>1, <3>1 DEF TypeOK
      <4>2. QED
        BY <2>1, <2>2, <3>1, <4>1 DEF Begun
    <3>2. CASE s # x
      <4>1. watched'[s] = watched[s] /\ sent'[s] = sent[s] /\ pc'[s] = pc[s]
        BY <2>1, <2>2, <3>2 DEF TypeOK, Callers
      <4>2. QED
        BY <1>3, <4>1 DEF Watching
    <3>3. QED
      BY <3>1, <3>2
  <2>6. Closing'
    BY <1>1 DEF Closing
  <2>7. QED
    BY <2>3, <2>4, <2>5, <2>6
<1>6. QED
  <2>1. CASE SubmitFind(x)
    <3>1. PICK y \in Execs : Accepted(x, y, record[y]) /\ record' = record
      BY <2>1 DEF SubmitFind, recordVars
    <3>2. record[y] \in L!RecordStates
      BY DEF TypeOK
    <3>3. QED
      BY <1>1, <1>4, <1>5, <3>1, <3>2, GatewayAssumption, CallerKinds DEF Accepted
  <2>2. CASE SubmitCreate(x)
    BY <1>4, <2>2 DEF SubmitCreate
  <2>3. CASE SubmitQueue(x)
    <3>1. CASE Accepted(x, x, "queued")
      BY <1>1, <1>4, <1>5, <3>1, GatewayAssumption, CallerKinds DEF Accepted, L!RecordStates
    <3>2. QED
      BY <1>4, <2>3, <3>1 DEF SubmitQueue
  <2>4. QED
    BY <2>1, <2>2, <2>3 DEF Submit

(* A cancel asked for by a request. *)
LEMMA CancelStep == ASSUME Inv, NEW h \in Requests, CancelExecution(h) PROVE Inv'
<1> USE DEF Inv
<1>1. PICK stage \in {"done", "refused"} : To(h, stage)
  BY DEF CancelExecution
<1>2. /\ UNCHANGED <<loops, idle, node, phase, expired, gone, watched, sent, told, late>>
      /\ h \in Callers /\ h \notin Streams
  BY CallerKinds, GatewayAssumption DEF CancelExecution, mainVars, streamVars, drainVars
<1>3. pc'[h] = stage /\ \A y \in Callers : y # h => pc'[y] = pc[y]
  BY <1>1, <1>2, ToStage
<1>4. PICK x \in Execs : L!Settle(x) \/ UNCHANGED recordVars
  BY DEF CancelExecution, Canceled
<1>5. /\ record' \in [Execs -> L!RecordStates]
      /\ work' \in [Execs -> L!WorkStates]
      /\ \A y \in Execs : record[y] \in Begun => record'[y] \in Begun
      /\ Cardinality(Busy') = Cardinality(Busy)
  BY <1>4, LifeTypes, BusySteps
<1>6. TypeOK'
  BY <1>1, <1>2, <1>5 DEF To, Handling, TypeOK
<1>7. Draining' /\ Closing'
  BY <1>1, <1>2, <1>3, CallerKinds, GatewayAssumption DEF TypeOK, Draining, Closing
<1>8. Watching'
  BY <1>2, <1>3, <1>5, CallerKinds, GatewayAssumption DEF Watching
<1>9. QED
  BY <1>6, <1>7, <1>8

(* The steps of a stream between and after its submit. *)
LEMMA StreamStep ==
    ASSUME Inv, NEW s \in Streams,
           Open(s) \/ Poll(s) \/ Disconnect(s) \/ Hangup(s)
    PROVE  Inv'
<1> USE DEF Inv
<1>1. s \in Callers /\ s \notin Requests
  BY CallerKinds, GatewayAssumption DEF Callers
<1>2. UNCHANGED <<loops, idle, node, phase, expired, told, late>>
  BY DEF Open, Poll, Disconnect, Hangup, mainVars, drainVars
<1>3. Closing'
  BY <1>2 DEF Closing
<1>4. CASE Hangup(s)
  <2>1. UNCHANGED <<record, work, pc, watched, sent>> /\ gone' \subseteq Streams
    BY <1>4 DEF Hangup, TypeOK, recordVars
  <2>2. Busy' = Busy
    BY <2>1, BusySame
  <2>3. QED
    BY <1>2, <1>3, <2>1, <2>2 DEF TypeOK, Draining, Watching
<1>5. CASE Open(s)
  <2>1. UNCHANGED <<record, work, gone, watched, sent>> /\ To(s, "open") /\ pc[s] = "new"
    BY <1>5 DEF Open, recordVars, streamVars
  <2>2. Busy' = Busy
    BY <2>1, BusySame
  <2>3. pc'[s] = "open" /\ \A y \in Callers : y # s => pc'[y] = pc[y]
    BY <1>1, <2>1, ToStage
  <2>4. TypeOK'
    BY <1>1, <1>2, <2>1, <2>2 DEF To, Handling, TypeOK
  <2>5. Draining'
    BY <1>1, <1>2, <2>3, CallerKinds, GatewayAssumption DEF TypeOK, Draining
  <2>6. Watching'
    BY <1>1, <2>1, <2>3, CallerKinds, GatewayAssumption DEF Watching, Begun
  <2>7. QED
    BY <1>3, <2>4, <2>5, <2>6
<1>6. CASE Disconnect(s)
  <2>1. /\ UNCHANGED <<gone, watched, sent>> /\ To(s, "refused") /\ pc[s] = "polling"
        /\ L!Settle(watched[s]) \/ UNCHANGED recordVars
    BY <1>6 DEF Disconnect, Canceled, streamVars
  <2>2. watched[s] \in Execs
    BY <2>1 DEF Watching
  <2>3. /\ record' \in [Execs -> L!RecordStates]
        /\ work' \in [Execs -> L!WorkStates]
        /\ \A y \in Execs : record[y] \in Begun => record'[y] \in Begun
        /\ Cardinality(Busy') = Cardinality(Busy)
    BY <2>1, <2>2, LifeTypes, BusySteps
  <2>4. pc'[s] = "refused" /\ \A y \in Callers : y # s => pc'[y] = pc[y]
    BY <1>1, <2>1, ToStage
  <2>5. TypeOK'
    BY <1>1, <1>2, <2>1, <2>3 DEF To, Handling, TypeOK
  <2>6. Draining'
    BY <1>1, <1>2, <2>4, CallerKinds, GatewayAssumption DEF TypeOK, Draining
  <2>7. Watching'
    BY <1>1, <2>1, <2>3, <2>4, CallerKinds, GatewayAssumption DEF Watching
  <2>8. QED
    BY <1>3, <2>5, <2>6, <2>7
<1>7. CASE Poll(s)
  <2>1. PICK stage \in {"done", "polling", "refused"} : To(s, stage)
    BY <1>7 DEF Poll
  <2>2. /\ UNCHANGED <<record, work, gone, watched>> /\ pc[s] = "polling"
        /\ sent' = [sent EXCEPT ![s] = record[watched[s]]] \/ UNCHANGED sent
    BY <1>7 DEF Poll, recordVars
  <2>3. Busy' = Busy
    BY <2>2, BusySame
  <2>4. watched[s] \in Execs /\ record[watched[s]] \in L!RecordStates
    BY <2>2 DEF Watching, TypeOK
  <2>5. pc'[s] = stage /\ \A y \in Callers : y # s => pc'[y] = pc[y]
    BY <1>1, <2>1, ToStage
  <2>6. TypeOK'
    BY <1>1, <1>2, <2>1, <2>2, <2>3, <2>4 DEF To, Handling, TypeOK
  <2>7. Draining'
    BY <1>1, <1>2, <2>5, CallerKinds, GatewayAssumption DEF TypeOK, Draining
  <2>8. Watching'
    <3> SUFFICES ASSUME NEW r \in Streams
                 PROVE  /\ sent'[r] # "none" => pc'[r] \notin {"new", "open", "checked", "created"}
                        /\ pc'[r] = "polling" => watched'[r] \in Execs
                        /\ sent'[r] \in Begun =>
                             watched'[r] \in Execs /\ record'[watched'[r]] \in Begun
      BY DEF Watching
    <3>1. CASE r = s
      <4>1. pc'[r] \notin {"new", "open", "checked", "created"}
        BY <2>1, <2>5, <3>1
      <4>2. sent'[r] \in {sent[r], record[watched[r]]}
        BY <2>2, <3>1 DEF TypeOK
      <4>3. QED
        BY <2>2, <2>4, <3>1, <4>1, <4>2 DEF Watching
    <3>2. CASE r # s
      <4>1. sent'[r] = sent[r] /\ pc'[r] = pc[r]
        BY <2>2, <2>5, <3>2 DEF TypeOK, Callers
      <4>2. QED
        BY <2>2, <4>1 DEF Watching
    <3>3. QED
      BY <3>1, <3>2
  <2>9. QED
    BY <1>3, <2>6, <2>7, <2>8
<1>8. QED
  BY <1>4, <1>5, <1>6, <1>7

(* A worker takes an execution, begins its record or is done with it. *)
LEMMA WorkStep == ASSUME Inv, NEW x \in Execs, Work(x) PROVE Inv'
<1> USE DEF Inv
<1>1. UNCHANGED <<loops, node, phase, expired, pc, gone, watched, sent, told, late>>
  BY DEF Work, streamVars, drainVars
<1>2. L!Take(x) \/ L!Begin(x) \/ L!Settle(x) \/ L!Leave(x)
  BY DEF Work, Take, Finish
<1>3. /\ record' \in [Execs -> L!RecordStates]
      /\ work' \in [Execs -> L!WorkStates]
      /\ \A y \in Execs : record[y] \in Begun => record'[y] \in Begun
  BY <1>2, LifeTypes
<1>4. loops \in Int /\ PoolSize \in Int /\ idle \in Nat /\ Cardinality(Busy) \in Nat
  BY BusyFinite, GatewayAssumption DEF GatewayAssumption, TypeOK
<1>5. /\ Cardinality(Busy') \in Int /\ Cardinality(Busy') <= loops
      /\ idle' \in 0..(loops - Cardinality(Busy'))
  <2>1. CASE Take(x)
    <3>1. idle' \in 0..(loops - Cardinality(Busy) - 1)
      BY <2>1 DEF Take, OneIsGone
    <3>2. Cardinality(Busy') = Cardinality(Busy) + 1
      BY <2>1, BusySteps DEF Take
    <3>3. QED
      BY <1>4, <3>1, <3>2
  <2>2. CASE (L!Begin(x) \/ Finish(x)) /\ UNCHANGED idle
    <3>1. Cardinality(Busy') \in {Cardinality(Busy), Cardinality(Busy) - 1}
      BY <2>2, BusySteps DEF Finish
    <3>2. Cardinality(Busy) <= loops /\ idle <= loops - Cardinality(Busy)
      BY <1>4 DEF TypeOK
    <3>3. QED
      BY <1>4, <2>2, <3>1, <3>2
  <2>3. QED
    BY <2>1, <2>2 DEF Work
<1>6. loops' \in Cardinality(Busy')..PoolSize /\ idle' \in 0..(loops' - Cardinality(Busy'))
  BY <1>1, <1>4, <1>5 DEF TypeOK
<1>7. TypeOK'
  BY <1>1, <1>3, <1>6 DEF TypeOK
<1>8. Closing' /\ Draining' /\ Watching'
  BY <1>1, <1>3 DEF Closing, Draining, Watching
<1>9. QED
  BY <1>7, <1>8

(* A worker that holds nothing waits or leaves its loop. *)
LEMMA LoopStep == ASSUME Inv, Wait \/ LoopEnds PROVE Inv'
<1> USE DEF Inv
<1>1. UNCHANGED <<record, work, node, phase, expired, pc, gone, watched, sent, told, late>>
  BY DEF Wait, LoopEnds, recordVars, streamVars, drainVars
<1>2. loops \in Int /\ PoolSize \in Int /\ idle \in Nat /\ Cardinality(Busy) \in Nat
  BY BusyFinite, GatewayAssumption DEF GatewayAssumption, TypeOK
<1>3. Busy' = Busy
  BY <1>1, BusySame
<1>4. /\ loops' \in Cardinality(Busy)..PoolSize /\ idle' \in 0..(loops' - Cardinality(Busy))
      /\ loops = 0 => loops' = 0
  <2>1. CASE Wait
    BY <1>2, <2>1 DEF Wait, TypeOK
  <2>2. CASE LoopEnds
    <3>1. Cardinality(Busy) < loops /\ loops' = loops - 1
      BY <2>2 DEF LoopEnds
    <3>2. idle' \in 0..(loops - 1 - Cardinality(Busy))
      BY <1>2, <2>2 DEF LoopEnds, OneIsGone, TypeOK
    <3>3. QED
      BY <1>2, <3>1, <3>2 DEF TypeOK
  <2>3. QED
    BY <2>1, <2>2
<1>5. TypeOK'
  BY <1>1, <1>3, <1>4 DEF TypeOK
<1>6. Closing' /\ Draining' /\ Watching'
  BY <1>1, <1>4 DEF Closing, Draining, Watching
<1>7. QED
  BY <1>5, <1>6

(* The signal. *)
LEMMA SignalStep == ASSUME Inv, Signal PROVE Inv'
<1> USE DEF Inv
<1>1. /\ UNCHANGED <<record, loops, idle, node, expired, pc, gone, watched, sent, told, late>>
      /\ phase' = "signaled"
  BY DEF Signal, PhaseTo, L!Stop, streamVars, drainVars
<1>2. work' \in [Execs -> L!WorkStates] /\ Busy' = Busy
  BY DEF Signal, L!Stop, Busy
<1>3. TypeOK'
  BY <1>1, <1>2 DEF TypeOK, Stage
<1>4. Closing' /\ Draining' /\ Watching'
  BY <1>1 DEF Closing, Draining, Watching
<1>5. QED
  BY <1>3, <1>4

(* The stages of the shutdown that follow, and its deadline. *)
LEMMA MainStep == ASSUME Inv, Shutdown \/ Expire PROVE Inv'
<1> USE DEF Inv
<1>1. UNCHANGED <<record, work, loops, idle, pc, watched, sent, late>>
  BY DEF Shutdown, Expire, recordVars, streamVars, drainVars
<1>2. Busy' = Busy
  BY <1>1, BusySame
<1>3. expired' \in BOOLEAN /\ gone' \subseteq Streams
  BY DEF Shutdown, Expire, StopNode, CloseQueue, ShutHTTP, StopGracefully,
     WaitForPool, CloseRuntime, Exit, streamVars, TypeOK
<1>4. UNCHANGED <<node, told>> \/ (node' = "stopped" /\ told' = TRUE)
  BY DEF Shutdown, Expire, StopNode, CloseQueue, ShutHTTP, StopGracefully,
     WaitForPool, CloseRuntime, Exit, drainVars
<1>5. /\ phase' \in DOMAIN Stage
      /\ phase' \in {"ended", "exited"} => loops = 0
  BY DEF Shutdown, Expire, StopNode, CloseQueue, ShutHTTP, StopGracefully,
     WaitForPool, CloseRuntime, Exit, PhaseTo, TypeOK, Closing, Stage
<1>6. TypeOK'
  BY <1>1, <1>2, <1>3, <1>4, <1>5 DEF TypeOK
<1>7. Closing' /\ Draining' /\ Watching'
  BY <1>1, <1>4, <1>5 DEF Closing, Draining, Watching
<1>8. QED
  BY <1>6, <1>7

LEMMA InvStep == ASSUME Inv, [Next]_vars PROVE Inv'
<1>1. CASE Next
  BY <1>1, RequestStep, SubmitStep, CancelStep, StreamStep, WorkStep, LoopStep, SignalStep,
     MainStep DEF Next
<1>2. CASE UNCHANGED vars
  <2>1. UNCHANGED <<record, work, loops, idle, node, phase, expired, pc, gone, watched, sent, told,
                   late>>
    BY <1>2 DEF vars, recordVars, mainVars, streamVars, drainVars
  <2>2. Busy' = Busy
    BY <2>1, BusySame
  <2>3. QED
    BY <2>1, <2>2 DEF Inv, TypeOK, Closing, Draining, Watching
<1>3. QED
  BY <1>1, <1>2

LEMMA InvHolds == SafeSpec => []Inv
<1>1. Init => Inv
  BY InvInit
<1>2. Inv /\ [Next]_vars => Inv'
  BY InvStep
<1>3. QED
  BY <1>1, <1>2, PTL DEF SafeSpec

(* A drained node takes no request that comes later, and whatever overlaps with
   the shutdown, the runtime outlives the last run (middleware and router, main). *)
THEOREM GatewayIsSafe == SafeSpec => [](TypeOK /\ DrainIsPrompt /\ RuntimeClosedLast)
<1>1. ASSUME Inv PROVE DrainIsPrompt
  BY <1>1 DEF Inv, Draining, DrainIsPrompt
<1>2. ASSUME Inv PROVE RuntimeClosedLast
  <2> SUFFICES ASSUME Reached("ended") PROVE Busy = {} /\ loops = 0
    BY DEF RuntimeClosedLast
  <2>1. loops = 0
    BY <1>2, Stages DEF Inv, TypeOK, Closing
  <2>2. Cardinality(Busy) = 0
    BY <1>2, <2>1, BusyFinite, GatewayAssumption DEF Inv, TypeOK, GatewayAssumption
  <2>3. QED
    BY <2>1, <2>2, BusyFinite, FS_EmptySet
<1>3. Inv => TypeOK /\ DrainIsPrompt /\ RuntimeClosedLast
  BY <1>1, <1>2 DEF Inv
<1>4. QED
  BY <1>3, InvHolds, PTL

(* What a stream sends next after it sent a record as begun is begun as well. *)
LEMMA SnapshotStep ==
    ASSUME Inv, [Next]_vars, NEW s \in Streams, sent[s] \in Begun
    PROVE  sent'[s] # "queued"
<1>1. pc[s] \notin {"new", "open", "checked", "created"} /\ watched[s] \in Execs
      /\ record[watched[s]] \in Begun
  BY DEF Inv, Watching, Begun
<1>2. CASE \E x \in Execs : Submit(x)
  <2>1. PICK x \in Execs : Submit(x)
    BY <1>2
  <2>2. sent' = sent \/ \E status : sent' = [sent EXCEPT ![x] = status]
    BY <2>1 DEF Submit, SubmitFind, SubmitCreate, SubmitQueue, Accepted
  <2>3. x # s
    BY <1>1, <2>1 DEF Submit
  <2>4. QED
    BY <2>2, <2>3 DEF Inv, TypeOK, Begun
<1>3. CASE \E r \in Streams : Poll(r)
  BY <1>1, <1>3 DEF Poll, Inv, TypeOK, Begun
<1>4. CASE UNCHANGED sent
  BY <1>4 DEF Begun
<1>5. QED
  BY <1>2, <1>3, <1>4
     DEF Next, Arrive, CheckReady, Operate, CancelExecution, Work, Open, Disconnect, Hangup,
         Wait, LoopEnds, Signal, Shutdown, Expire, vars, streamVars

(* No stream goes back to queued, whatever cancels, runs and other submits of
   the same key overlap with it (grpcapi/service.go). *)
THEOREM SnapshotsOnlyAdvance == SafeSpec => SnapshotsAdvance
<1>1. ASSUME Inv, [Next]_vars
      PROVE  [\A s \in Streams : sent[s] \in {"running", "final"} => sent'[s] # "queued"]_vars
  BY <1>1, SnapshotStep DEF Begun
<1>2. QED
  BY <1>1, InvHolds, PTL DEF SafeSpec, SnapshotsAdvance

=============================================================================
