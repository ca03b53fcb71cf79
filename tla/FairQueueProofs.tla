--------------------------- MODULE FairQueueProofs ---------------------------
(***************************************************************************)
(* Proofs about FairQueue, for any number of tenants, jobs and workers.    *)
(*                                                                         *)
(* TypeOK needs RingOK (a tenant in the ring has a job to take) and RingOK *)
(* needs TypeOK, so the two are proved together with NoLostWakeup as one   *)
(* inductive invariant.  The order of the jobs of a tenant and the turns   *)
(* of the tenants are action properties that follow from it: no tenant is  *)
(* in the ring twice, so what a pop does to a position is arithmetic.      *)
(***************************************************************************)
EXTENDS FairQueue, TLAPS, SequenceTheorems

Inv == TypeOK /\ RingOK /\ NoLostWakeup

-----------------------------------------------------------------------------
(* What RemoveAt returns: the sequence without its i-th element. *)
LEMMA RemoveAtProperties ==
    ASSUME NEW S, NEW s \in Seq(S), NEW i \in 1..Len(s)
    PROVE  /\ RemoveAt(s, i) \in Seq(S)
           /\ Len(RemoveAt(s, i)) = Len(s) - 1
           /\ \A k \in 1..(Len(s) - 1) :
                 RemoveAt(s, i)[k] = IF k < i THEN s[k] ELSE s[k + 1]
<1> DEFINE front == SubSeq(s, 1, i - 1)
           back == SubSeq(s, i + 1, Len(s))
<1>1. front \in Seq(S) /\ Len(front) = i - 1 /\ \A k \in 1..(i - 1) : front[k] = s[k]
  BY SubSeqProperties
<1>2. /\ back \in Seq(S) /\ Len(back) = Len(s) - i
      /\ \A k \in 1..(Len(s) - i) : back[k] = s[i + k]
  BY SubSeqProperties
<1>3. RemoveAt(s, i) = front \o back
  BY DEF RemoveAt
<1> HIDE DEF front, back
<1>4. /\ front \o back \in Seq(S)
      /\ Len(front \o back) = Len(front) + Len(back)
      /\ \A k \in 1..(Len(front) + Len(back)) :
            (front \o back)[k] = IF k <= Len(front) THEN front[k] ELSE back[k - Len(front)]
  BY <1>1, <1>2, ConcatProperties
<1>5. ASSUME NEW k \in 1..(Len(s) - 1)
      PROVE  (front \o back)[k] = IF k < i THEN s[k] ELSE s[k + 1]
  <2>1. CASE k < i
    BY <2>1, <1>1, <1>2, <1>4
  <2>2. CASE ~(k < i)
    <3>1. (front \o back)[k] = back[k - (i - 1)]
      BY <2>2, <1>1, <1>2, <1>4
    <3>2. k - (i - 1) \in 1..(Len(s) - i) /\ i + (k - (i - 1)) = k + 1
      BY <2>2
    <3>3. QED
      BY <3>1, <3>2, <2>2, <1>2
  <2>3. QED
    BY <2>1, <2>2
<1>6. Len(front) + Len(back) = Len(s) - 1
  BY <1>1, <1>2
<1>7. QED
  BY <1>3, <1>4, <1>5, <1>6

(* The head of a non-empty list of jobs and what is left of it. *)
LEMMA HeadTail ==
    ASSUME NEW S, NEW s \in Seq(S), s # <<>>
    PROVE  /\ Head(s) \in S
           /\ Tail(s) \in Seq(S)
           /\ Len(s) \in Nat \ {0}
  BY HeadTailProperties, EmptySeq

(* In a non-empty ring the cursor, wrapped, names a tenant with a job. *)
LEMMA ServedTenant ==
    ASSUME TypeOK, RingOK, tenants # <<>>
    PROVE  /\ Len(tenants) \in Nat \ {0}
           /\ Head0 \in 0..(Len(tenants) - 1)
           /\ tenants[Head0 + 1] \in TenantIDs
           /\ byTenant[tenants[Head0 + 1]] # <<>>
<1>1. Len(tenants) \in Nat \ {0}
  BY HeadTail DEF TypeOK
<1>2. Head0 \in 0..(Len(tenants) - 1)
  BY <1>1 DEF Head0, TypeOK
<1>3. Head0 + 1 \in 1..Len(tenants)
  BY <1>1, <1>2
<1>4. tenants[Head0 + 1] \in TenantIDs
  BY <1>3, ElementOfSeq DEF TypeOK
<1>5. QED
  BY <1>1, <1>2, <1>3, <1>4 DEF RingOK

-----------------------------------------------------------------------------
(* The invariant holds at the start. *)
LEMMA InvInit == FairQueueAssumption /\ Init => Inv
<1> SUFFICES ASSUME FairQueueAssumption, Init PROVE Inv
  OBVIOUS
<1>1. TypeOK
  BY EmptySeq DEF Init, TypeOK, States
<1>2. RingOK
  BY DEF Init, RingOK
<1>3. NoLostWakeup
  BY DEF Init, NoLostWakeup
<1>4. QED
  BY <1>1, <1>2, <1>3 DEF Inv

(* Enqueue keeps the queue well-formed. *)
LEMMA EnqueueRing ==
    ASSUME FairQueueAssumption, TypeOK, RingOK, NEW j \in Jobs, Enqueue(j)
    PROVE  TypeOK' /\ RingOK'
<1> DEFINE t == TenantOf[j]
<1>1. t \in TenantIDs
  BY DEF FairQueueAssumption
<1>2. /\ byTenant[t] \in Seq(Jobs)
      /\ Append(byTenant[t], j) \in Seq(Jobs)
      /\ Append(byTenant[t], j) # <<>>
  <2>1. byTenant[t] \in Seq(Jobs)
    BY <1>1 DEF TypeOK
  <2>2. QED
    BY <2>1, AppendProperties
<1>3. byTenant' = [byTenant EXCEPT ![t] = Append(byTenant[t], j)]
  BY DEF Enqueue, PutLast
<1>4. byTenant' \in [TenantIDs -> Seq(Jobs)]
  BY <1>2, <1>3 DEF TypeOK
<1>5. \A u \in TenantIDs :
         byTenant'[u] # <<>> <=> (u = t \/ byTenant[u] # <<>>)
  BY <1>1, <1>2, <1>3 DEF TypeOK
<1>6. Len(tenants) \in Nat
  BY LenProperties DEF TypeOK
<1>7. CASE byTenant[t] = <<>>
  <2>1. tenants' = Append(tenants, t)
    BY <1>7 DEF Enqueue, JoinRing
  <2>2. /\ tenants' \in Seq(TenantIDs)
        /\ Len(tenants') = Len(tenants) + 1
        /\ \A i \in 1..Len(tenants) : tenants'[i] = tenants[i]
        /\ tenants'[Len(tenants) + 1] = t
    BY <2>1, <1>1, AppendProperties DEF TypeOK
  <2>3. \A i \in 1..Len(tenants) : tenants[i] # t
    BY <1>1, <1>7 DEF RingOK
  <2>4. RingOK'
    <3>1. \A i, k \in 1..Len(tenants') : tenants'[i] = tenants'[k] => i = k
      BY <2>2, <2>3, <1>6 DEF RingOK
    <3>2. ASSUME NEW u \in TenantIDs
          PROVE  byTenant'[u] # <<>> <=> \E i \in 1..Len(tenants') : tenants'[i] = u
      <4>1. (\E i \in 1..Len(tenants') : tenants'[i] = u)
               <=> (u = t \/ \E i \in 1..Len(tenants) : tenants[i] = u)
        BY <2>2, <1>6
      <4>2. QED
        BY <4>1, <1>5 DEF RingOK
    <3>3. cursor' <= Len(tenants')
      BY <2>2, <1>6 DEF RingOK, TypeOK, Enqueue
    <3>4. QED
      BY <3>1, <3>2, <3>3 DEF RingOK
  <2>5. TypeOK'
    BY <2>2, <1>4 DEF TypeOK, Enqueue, SendToken
  <2>6. QED
    BY <2>4, <2>5
<1>8. CASE byTenant[t] # <<>>
  <2>1. tenants' = tenants
    BY <1>8 DEF Enqueue, JoinRing
  <2>2. RingOK'
    BY <2>1, <1>5, <1>8 DEF RingOK, Enqueue
  <2>3. TypeOK'
    BY <2>1, <1>4 DEF TypeOK, Enqueue, SendToken
  <2>4. QED
    BY <2>2, <2>3
<1>9. QED
  BY <1>7, <1>8

(* So does taking a job. *)
LEMMA TakeRing ==
    ASSUME FairQueueAssumption, TypeOK, RingOK, NEW c \in Consumers, Take(c)
    PROVE  TypeOK' /\ RingOK'
<1> DEFINE h == Head0 + 1
           t == tenants[h]
           n == Len(tenants)
<1>1. tenants # <<>>
  BY DEF Take
<1>2. /\ n \in Nat \ {0} /\ h \in 1..n /\ Head0 = h - 1
      /\ t \in TenantIDs /\ byTenant[t] # <<>>
  BY <1>1, ServedTenant
<1>3. /\ byTenant[t] \in Seq(Jobs)
      /\ Head(byTenant[t]) \in Jobs
      /\ Tail(byTenant[t]) \in Seq(Jobs)
  BY <1>2, HeadTail DEF TypeOK
<1>4. byTenant' = [byTenant EXCEPT ![t] = Tail(byTenant[t])]
  BY DEF Take, Rotate
<1>5. byTenant' \in [TenantIDs -> Seq(Jobs)]
  BY <1>3, <1>4 DEF TypeOK
<1>6. /\ pc' \in [Consumers -> States]
      /\ got' \in [Consumers -> Jobs \cup {NoJob}]
  BY <1>3 DEF Take, TypeOK, States
<1>7. /\ byTenant'[t] = Tail(byTenant[t])
      /\ \A u \in TenantIDs : u # t => byTenant'[u] = byTenant[u]
  BY <1>2, <1>4 DEF TypeOK
<1> HIDE DEF t, h, n
<1>8. CASE Tail(byTenant[t]) = <<>>
  <2>1. tenants' = RemoveAt(tenants, h) /\ cursor' = h - 1
    BY <1>8, <1>2 DEF Take, Rotate, CursorAfterLeave, t, h
  <2>2. /\ tenants' \in Seq(TenantIDs)
        /\ Len(tenants') = n - 1
        /\ \A k \in 1..(n - 1) : tenants'[k] = IF k < h THEN tenants[k] ELSE tenants[k + 1]
    BY <2>1, <1>2, RemoveAtProperties DEF TypeOK, n
  <2>3. \A i, j \in 1..n : tenants[i] = tenants[j] => i = j
    BY DEF RingOK, n
  <2>4. \A i, j \in 1..Len(tenants') : tenants'[i] = tenants'[j] => i = j
    <3> SUFFICES ASSUME NEW i \in 1..(n - 1), NEW j \in 1..(n - 1), tenants'[i] = tenants'[j]
                 PROVE  i = j
      BY <2>2
    <3>1. i \in 1..n /\ j \in 1..n /\ i + 1 \in 1..n /\ j + 1 \in 1..n
      BY <1>2
    <3>2. QED
      BY <3>1, <2>2, <2>3, <1>2
  <2>5. tenants[h] = t
    BY DEF t
  <2>6. \A i \in 1..(n - 1) : tenants'[i] # t
    <3> SUFFICES ASSUME NEW i \in 1..(n - 1) PROVE tenants'[i] # t
      OBVIOUS
    <3>1. i \in 1..n /\ i + 1 \in 1..n
      BY <1>2
    <3>2. QED
      BY <3>1, <2>2, <2>3, <2>5, <1>2
  <2>7. ASSUME NEW u \in TenantIDs, u # t
        PROVE  (\E i \in 1..n : tenants[i] = u) <=> (\E i \in 1..(n - 1) : tenants'[i] = u)
    <3>1. ASSUME NEW i \in 1..n, tenants[i] = u
          PROVE  \E k \in 1..(n - 1) : tenants'[k] = u
      <4>1. i # h
        BY <3>1, <2>7, <2>5
      <4>2. CASE i < h
        <5>1. i \in 1..(n - 1)
          BY <4>2, <1>2
        <5>2. QED
          BY <5>1, <4>2, <3>1, <2>2
      <4>3. CASE i > h
        <5>1. i - 1 \in 1..(n - 1) /\ ~(i - 1 < h) /\ (i - 1) + 1 = i
          BY <4>3, <1>2
        <5>2. tenants'[i - 1] = tenants[i]
          BY <5>1, <2>2
        <5>3. QED
          BY <5>1, <5>2, <3>1
      <4>4. QED
        BY <4>1, <4>2, <4>3, <1>2
    <3>2. ASSUME NEW k \in 1..(n - 1), tenants'[k] = u
          PROVE  \E i \in 1..n : tenants[i] = u
      <4>1. k \in 1..n /\ k + 1 \in 1..n
        BY <1>2
      <4>2. QED
        BY <4>1, <3>2, <2>2
    <3>3. QED
      BY <3>1, <3>2
  <2>8. \A u \in TenantIDs :
           byTenant'[u] # <<>> <=> \E i \in 1..Len(tenants') : tenants'[i] = u
    BY <2>2, <2>6, <2>7, <1>7, <1>8 DEF RingOK, n
  <2>9. cursor' \in Nat /\ cursor' <= Len(tenants')
    BY <2>1, <2>2, <1>2
  <2>10. QED
    BY <2>2, <2>4, <2>8, <2>9, <1>5, <1>6 DEF TypeOK, RingOK, Take
<1>9. CASE Tail(byTenant[t]) # <<>>
  <2>1. tenants' = tenants /\ cursor' = h % n
    BY <1>9, <1>2 DEF Take, Rotate, t, h, n
  <2>2. cursor' \in Nat /\ cursor' <= n
    BY <2>1, <1>2
  <2>3. \A u \in TenantIDs : byTenant'[u] # <<>> <=> byTenant[u] # <<>>
    BY <1>2, <1>7, <1>9
  <2>4. QED
    BY <2>1, <2>2, <2>3, <1>5, <1>6 DEF TypeOK, RingOK, Take, n
<1>10. QED
  BY <1>8, <1>9

(* The other steps leave the queue alone. *)
LEMMA OtherRing ==
    ASSUME TypeOK, RingOK, UNCHANGED queueVars,
           \/ \E c \in Consumers : Wait(c) \/ SeeClosed(c) \/ Wake(c) \/ SeeDone(c) \/ FinishJob(c)
           \/ Close \/ CtxDone \/ UNCHANGED vars
    PROVE  TypeOK' /\ RingOK'
<1>1. RingOK'
  BY DEF RingOK, queueVars
<1>2. TypeOK'
  BY DEF TypeOK, States, queueVars, vars, Wait, SeeClosed, Wake, SeeDone, FinishJob,
         Close, CtxDone
<1>3. QED
  BY <1>1, <1>2

(* No step puts the last awake worker to sleep while jobs wait. *)
LEMMA WakeupStep ==
    ASSUME TypeOK, NoLostWakeup, [Next]_vars
    PROVE  NoLostWakeup'
<1>1. CASE UNCHANGED vars
  BY <1>1 DEF NoLostWakeup, vars
<1>2. ASSUME NEW j \in Jobs, Enqueue(j) PROVE NoLostWakeup'
  BY <1>2 DEF NoLostWakeup, Enqueue, SendToken
<1>3. ASSUME NEW c \in Consumers, Step(c) PROVE NoLostWakeup'
  <2>1. CASE Take(c) \/ Wake(c) \/ FinishJob(c)
    <3>1. pc'[c] \in {"polling", "working"}
      BY <2>1 DEF Take, Wake, FinishJob, TypeOK
    <3>2. QED
      BY <3>1 DEF NoLostWakeup
  <2>2. CASE Wait(c)
    BY <2>2 DEF Wait, NoLostWakeup
  <2>3. CASE SeeClosed(c)
    BY <2>3 DEF SeeClosed, NoLostWakeup
  <2>4. CASE SeeDone(c)
    BY <2>4 DEF SeeDone, NoLostWakeup
  <2>5. QED
    BY <1>3, <2>1, <2>2, <2>3, <2>4 DEF Step
<1>4. CASE Close
  BY <1>4 DEF Close, NoLostWakeup
<1>5. CASE CtxDone
  BY <1>5 DEF CtxDone, NoLostWakeup
<1>6. QED
  BY <1>1, <1>2, <1>3, <1>4, <1>5 DEF Next

(* The invariant is inductive. *)
LEMMA InvStep == FairQueueAssumption /\ Inv /\ [Next]_vars => Inv'
<1> SUFFICES ASSUME FairQueueAssumption, Inv, [Next]_vars PROVE Inv'
  OBVIOUS
<1> USE DEF Inv
<1>1. NoLostWakeup'
  BY WakeupStep
<1>2. ASSUME NEW j \in Jobs, Enqueue(j) PROVE TypeOK' /\ RingOK'
  BY <1>2, EnqueueRing
<1>3. ASSUME NEW c \in Consumers, Take(c) PROVE TypeOK' /\ RingOK'
  BY <1>3, TakeRing
<1>4. ASSUME \/ \E c \in Consumers :
                   Wait(c) \/ SeeClosed(c) \/ Wake(c) \/ SeeDone(c) \/ FinishJob(c)
             \/ Close \/ CtxDone \/ UNCHANGED vars
      PROVE  TypeOK' /\ RingOK'
  <2>1. UNCHANGED queueVars
    BY <1>4 DEF queueVars, vars, Wait, SeeClosed, Wake, SeeDone, FinishJob, Close, CtxDone
  <2>2. QED
    BY <1>4, <2>1, OtherRing
<1>5. TypeOK' /\ RingOK'
  BY <1>2, <1>3, <1>4 DEF Next, Step
<1>6. QED
  BY <1>1, <1>5

(* The invariants of FairQueue hold in every reachable state. *)
THEOREM QueueIsSafe == Spec => [](TypeOK /\ RingOK /\ NoLostWakeup)
<1>1. Init => Inv
  BY FairQueueAssumption, InvInit
<1>2. Inv /\ [Next]_vars => Inv'
  BY FairQueueAssumption, InvStep
<1>3. Inv => TypeOK /\ RingOK /\ NoLostWakeup
  BY DEF Inv
<1>4. QED
  BY <1>1, <1>2, <1>3, PTL DEF Spec, SafeSpec

-----------------------------------------------------------------------------
(***************************************************************************)
(* FairQueue implements the safety part of JobQueue.  The lists of the     *)
(* tenants together are a set of waiting jobs because no job waits twice:  *)
(* each list has only jobs of its tenant, and each of them once.           *)
(***************************************************************************)
JobsOK ==
    /\ \A t \in TenantIDs : \A i \in 1..Len(byTenant[t]) : TenantOf[byTenant[t][i]] = t
    /\ \A t \in TenantIDs : \A i, k \in 1..Len(byTenant[t]) :
          byTenant[t][i] = byTenant[t][k] => i = k
    /\ \A c \in Consumers : got[c] = NoJob <=> pc[c] # "working"

(* A job waits exactly when it is in the list of a tenant. *)
LEMMA WaitingIsListed ==
    ASSUME NEW b \in [TenantIDs -> Seq(Jobs)], NEW j
    PROVE  j \in UNION {ToSet(b[t]) : t \in TenantIDs} <=>
              \E t \in TenantIDs : \E i \in 1..Len(b[t]) : b[t][i] = j
<1>1. ASSUME NEW t \in TenantIDs
      PROVE  j \in ToSet(b[t]) <=> \E i \in 1..Len(b[t]) : b[t][i] = j
  <2>1. DOMAIN b[t] = 1..Len(b[t])
    BY LenProperties
  <2>2. QED
    BY <2>1 DEF ToSet
<1>2. QED
  BY <1>1

(* Enqueue adds one job to the waiting ones. *)
LEMMA EnqueuePuts ==
    ASSUME FairQueueAssumption, TypeOK, RingOK, JobsOK, NEW j \in Jobs, Enqueue(j)
    PROVE  JobsOK' /\ JQ!Put(j)
<1> DEFINE t == TenantOf[j]
<1>1. t \in TenantIDs /\ byTenant[t] \in Seq(Jobs) /\ Len(byTenant[t]) \in Nat
  BY LenProperties DEF FairQueueAssumption, TypeOK
<1>2. /\ byTenant'[t] = Append(byTenant[t], j)
      /\ \A u \in TenantIDs : u # t => byTenant'[u] = byTenant[u]
  BY <1>1 DEF Enqueue, PutLast, TypeOK
<1>3. /\ Len(byTenant'[t]) = Len(byTenant[t]) + 1
      /\ \A i \in 1..Len(byTenant[t]) : byTenant'[t][i] = byTenant[t][i]
      /\ byTenant'[t][Len(byTenant[t]) + 1] = j
  BY <1>1, <1>2, AppendProperties
<1>4. j \notin WaitingJobs
  BY DEF Enqueue
<1>5. \A i \in 1..Len(byTenant[t]) : byTenant[t][i] # j
  <2>1. byTenant \in [TenantIDs -> Seq(Jobs)]
    BY DEF TypeOK
  <2>2. ~ \E u \in TenantIDs : \E i \in 1..Len(byTenant[u]) : byTenant[u][i] = j
    BY <2>1, <1>4, WaitingIsListed DEF WaitingJobs
  <2>3. QED
    BY <2>2, <1>1
<1>6. TypeOK'
  BY EnqueueRing
<1>6a. /\ TenantOf[j] = t
       /\ \A i \in 1..Len(byTenant[t]) : TenantOf[byTenant[t][i]] = t
       /\ \A i, k \in 1..Len(byTenant[t]) : byTenant[t][i] = byTenant[t][k] => i = k
  BY <1>1 DEF JobsOK
<1>6b. \A i \in 1..Len(byTenant'[t]) :
         i \in 1..Len(byTenant[t]) \/ i = Len(byTenant[t]) + 1
  BY <1>1, <1>3
<1> HIDE DEF t
<1>7. JobsOK'
  <2>1. ASSUME NEW u \in TenantIDs, NEW i \in 1..Len(byTenant'[u])
        PROVE  TenantOf[byTenant'[u][i]] = u
    <3>1. CASE u = t
      BY <3>1, <2>1, <1>3, <1>6a, <1>6b
    <3>2. CASE u # t
      BY <3>2, <2>1, <1>2 DEF JobsOK
    <3>3. QED
      BY <3>1, <3>2
  <2>2. ASSUME NEW u \in TenantIDs, NEW i \in 1..Len(byTenant'[u]),
               NEW k \in 1..Len(byTenant'[u]), byTenant'[u][i] = byTenant'[u][k]
        PROVE  i = k
    <3>1. CASE u = t
      BY <3>1, <2>2, <1>3, <1>5, <1>6a, <1>6b
    <3>2. CASE u # t
      BY <3>2, <2>2, <1>2 DEF JobsOK
    <3>3. QED
      BY <3>1, <3>2
  <2>3. \A c \in Consumers : got'[c] = NoJob <=> pc'[c] # "working"
    BY DEF JobsOK, Enqueue
  <2>4. QED
    BY <2>1, <2>2, <2>3 DEF JobsOK
<1>8. ASSUME NEW x
      PROVE  x \in WaitingJobs' <=> x \in WaitingJobs \cup {j}
  <2>1. x \in WaitingJobs' <=>
           \E u \in TenantIDs : \E i \in 1..Len(byTenant'[u]) : byTenant'[u][i] = x
    BY <1>6, WaitingIsListed DEF WaitingJobs, TypeOK
  <2>2. (\E i \in 1..Len(byTenant'[t]) : byTenant'[t][i] = x)
           <=> (x = j \/ \E i \in 1..Len(byTenant[t]) : byTenant[t][i] = x)
    <3>1. /\ Len(byTenant[t]) + 1 \in 1..Len(byTenant'[t])
          /\ \A i \in 1..Len(byTenant[t]) : i \in 1..Len(byTenant'[t])
      BY <1>1, <1>3
    <3>2. QED
      BY <3>1, <1>3, <1>6b
  <2>3. x \in WaitingJobs <=>
           \E u \in TenantIDs : \E i \in 1..Len(byTenant[u]) : byTenant[u][i] = x
    BY WaitingIsListed DEF WaitingJobs, TypeOK
  <2>4. QED
    BY <2>1, <2>2, <2>3, <1>1, <1>2
<1>9. WaitingJobs' = WaitingJobs \cup {j}
  BY <1>8
<1>10. QED
  BY <1>4, <1>7, <1>9 DEF JQ!Put, Enqueue, Held

(* Dequeue hands one waiting job to the worker and leaves the others. *)
LEMMA TakeTakes ==
    ASSUME FairQueueAssumption, TypeOK, RingOK, JobsOK, NEW c \in Consumers, Take(c)
    PROVE  JobsOK' /\ \E j \in Jobs : JQ!Take(c, j)
<1> DEFINE t == tenants[Head0 + 1]
           j == Head(byTenant[t])
<1>1. tenants # <<>>
  BY DEF Take
<1>2. t \in TenantIDs /\ byTenant[t] # <<>>
  BY <1>1, ServedTenant
<1>3. /\ byTenant[t] \in Seq(Jobs) /\ Len(byTenant[t]) \in Nat \ {0}
      /\ j \in Jobs /\ j = byTenant[t][1]
  BY <1>2, HeadTail DEF TypeOK
<1>4. /\ byTenant'[t] = Tail(byTenant[t])
      /\ \A u \in TenantIDs : u # t => byTenant'[u] = byTenant[u]
  BY <1>2 DEF Take, Rotate, TypeOK
<1>5. /\ Len(byTenant'[t]) = Len(byTenant[t]) - 1
      /\ \A i \in 1..(Len(byTenant[t]) - 1) : byTenant'[t][i] = byTenant[t][i + 1]
  BY <1>2, <1>3, <1>4, HeadTailProperties
<1>6. TypeOK'
  BY TakeRing
<1>7. /\ got' = [got EXCEPT ![c] = j] /\ pc' = [pc EXCEPT ![c] = "working"]
      /\ pc[c] = "polling" /\ ~closed /\ closed' = closed /\ ctxDone' = ctxDone
  BY DEF Take, Open
<1>8. /\ \A i \in 1..Len(byTenant[t]) : TenantOf[byTenant[t][i]] = t
      /\ \A i, k \in 1..Len(byTenant[t]) : byTenant[t][i] = byTenant[t][k] => i = k
  BY <1>2 DEF JobsOK
<1> HIDE DEF t, j
<1>9. JobsOK'
  <2>1. ASSUME NEW u \in TenantIDs, NEW i \in 1..Len(byTenant'[u])
        PROVE  TenantOf[byTenant'[u][i]] = u
    <3>1. CASE u = t
      BY <3>1, <2>1, <1>3, <1>5, <1>8
    <3>2. CASE u # t
      BY <3>2, <2>1, <1>4 DEF JobsOK
    <3>3. QED
      BY <3>1, <3>2
  <2>2. ASSUME NEW u \in TenantIDs, NEW i \in 1..Len(byTenant'[u]),
               NEW k \in 1..Len(byTenant'[u]), byTenant'[u][i] = byTenant'[u][k]
        PROVE  i = k
    <3>1. CASE u = t
      <4>1. i + 1 \in 1..Len(byTenant[t]) /\ k + 1 \in 1..Len(byTenant[t])
        BY <3>1, <2>2, <1>3, <1>5
      <4>2. byTenant[t][i + 1] = byTenant[t][k + 1]
        BY <3>1, <2>2, <1>3, <1>5
      <4>3. QED
        BY <4>1, <4>2, <1>8
    <3>2. CASE u # t
      BY <3>2, <2>2, <1>4 DEF JobsOK
    <3>3. QED
      BY <3>1, <3>2
  <2>3. \A d \in Consumers : got'[d] = NoJob <=> pc'[d] # "working"
    BY <1>3, <1>7 DEF JobsOK, TypeOK, FairQueueAssumption
  <2>4. QED
    BY <2>1, <2>2, <2>3 DEF JobsOK
<1>10. ASSUME NEW x
       PROVE  x \in WaitingJobs' <=> x \in WaitingJobs \ {j}
  <2>1. x \in WaitingJobs' <=>
           \E u \in TenantIDs : \E i \in 1..Len(byTenant'[u]) : byTenant'[u][i] = x
    BY <1>6, WaitingIsListed DEF WaitingJobs, TypeOK
  <2>2. (\E i \in 1..Len(byTenant'[t]) : byTenant'[t][i] = x)
           <=> (x # j /\ \E i \in 1..Len(byTenant[t]) : byTenant[t][i] = x)
    <3>1. ASSUME NEW i \in 1..Len(byTenant'[t]), byTenant'[t][i] = x
          PROVE  x # j /\ \E k \in 1..Len(byTenant[t]) : byTenant[t][k] = x
      <4>1. i + 1 \in 1..Len(byTenant[t]) /\ byTenant[t][i + 1] = x /\ i + 1 # 1
        BY <3>1, <1>3, <1>5
      <4>2. 1 \in 1..Len(byTenant[t])
        BY <1>3
      <4>3. QED
        BY <4>1, <4>2, <1>3, <1>8
    <3>2. ASSUME x # j, NEW k \in 1..Len(byTenant[t]), byTenant[t][k] = x
          PROVE  \E i \in 1..Len(byTenant'[t]) : byTenant'[t][i] = x
      <4>1. k # 1
        BY <3>2, <1>3
      <4>2. /\ k - 1 \in 1..Len(byTenant'[t]) /\ k - 1 \in 1..(Len(byTenant[t]) - 1)
            /\ (k - 1) + 1 = k
        BY <4>1, <1>3, <1>5
      <4>3. byTenant'[t][k - 1] = x
        BY <4>2, <3>2, <1>5
      <4>4. QED
        BY <4>2, <4>3
    <3>3. QED
      BY <3>1, <3>2
  <2>3. ASSUME NEW u \in TenantIDs, u # t, NEW i \in 1..Len(byTenant[u])
        PROVE  byTenant[u][i] # j
    <3>1. TenantOf[byTenant[u][i]] = u
      BY <2>3 DEF JobsOK
    <3>2. 1 \in 1..Len(byTenant[t])
      BY <1>3
    <3>3. TenantOf[j] = t
      BY <3>2, <1>3, <1>8
    <3>4. QED
      BY <3>1, <3>3, <2>3
  <2>4. x \in WaitingJobs <=>
           \E u \in TenantIDs : \E i \in 1..Len(byTenant[u]) : byTenant[u][i] = x
    BY WaitingIsListed DEF WaitingJobs, TypeOK
  <2>5. QED
    BY <2>1, <2>2, <2>3, <2>4, <1>2, <1>4
<1>11. WaitingJobs' = WaitingJobs \ {j}
  BY <1>10
<1>12. j \in WaitingJobs
  <2>1. 1 \in 1..Len(byTenant[t])
    BY <1>3
  <2>2. QED
    BY <2>1, <1>2, <1>3, WaitingIsListed DEF WaitingJobs, TypeOK
<1>13. got[c] = NoJob
  BY <1>7 DEF JobsOK
<1>14. JQ!Take(c, j)
  BY <1>7, <1>11, <1>12, <1>13 DEF JQ!Take
<1>15. QED
  BY <1>3, <1>9, <1>14

(* The other steps are steps of JobQueue, or invisible to it. *)
LEMMA OtherIsQueueStep ==
    ASSUME FairQueueAssumption, TypeOK, JobsOK, UNCHANGED queueVars,
           \/ \E c \in Consumers : Wait(c) \/ SeeClosed(c) \/ Wake(c) \/ SeeDone(c) \/ FinishJob(c)
           \/ Close \/ CtxDone \/ UNCHANGED vars
    PROVE  JobsOK' /\ [JQ!Next]_(JQ!vars)
<1>1. WaitingJobs' = WaitingJobs
  BY DEF WaitingJobs, queueVars
<1>2. byTenant' = byTenant
  BY DEF queueVars
<1>3. ASSUME NEW c \in Consumers, Wait(c) \/ SeeClosed(c) \/ Wake(c) \/ SeeDone(c)
      PROVE  JobsOK' /\ UNCHANGED JQ!vars
  <2>1. /\ got' = got /\ closed' = closed /\ ctxDone' = ctxDone
        /\ \A d \in Consumers : pc'[d] # "working" <=> pc[d] # "working"
    BY <1>3 DEF Wait, SeeClosed, Wake, SeeDone, TypeOK
  <2>2. QED
    BY <2>1, <1>1, <1>2 DEF JobsOK, JQ!vars
<1>4. ASSUME NEW c \in Consumers, FinishJob(c)
      PROVE  JobsOK' /\ JQ!Finish(c)
  BY <1>4, <1>1, <1>2 DEF FinishJob, JobsOK, TypeOK, JQ!Finish
<1>5. CASE Close
  BY <1>5, <1>1, <1>2 DEF Close, JobsOK, JQ!Shut, JQ!Next
<1>6. CASE CtxDone
  BY <1>6, <1>1, <1>2 DEF CtxDone, JobsOK, JQ!Stop, JQ!Next
<1>7. CASE UNCHANGED vars
  BY <1>7, <1>1, <1>2 DEF vars, JobsOK, JQ!vars
<1>8. QED
  BY <1>3, <1>4, <1>5, <1>6, <1>7 DEF JQ!Next

(* No job waits at the start. *)
LEMMA QueueInit == FairQueueAssumption /\ Init => Inv /\ JobsOK /\ JQ!Init
<1> SUFFICES ASSUME FairQueueAssumption, Init PROVE Inv /\ JobsOK /\ JQ!Init
  OBVIOUS
<1>1. \A t \in TenantIDs : byTenant[t] = <<>> /\ Len(byTenant[t]) = 0
  BY EmptySeq DEF Init
<1>2. WaitingJobs = {}
  BY <1>1 DEF WaitingJobs, ToSet
<1>3. JobsOK
  BY <1>1 DEF JobsOK, Init
<1>4. QED
  BY <1>2, <1>3, InvInit DEF Init, JQ!Init

(* Each step keeps the lists in order and is a step of JobQueue. *)
LEMMA QueueStep ==
    FairQueueAssumption /\ Inv /\ JobsOK /\ [Next]_vars
        => Inv' /\ JobsOK' /\ [JQ!Next]_(JQ!vars)
<1> SUFFICES ASSUME FairQueueAssumption, Inv, JobsOK, [Next]_vars
             PROVE  JobsOK' /\ [JQ!Next]_(JQ!vars)
  BY InvStep
<1> USE DEF Inv
<1>1. ASSUME NEW j \in Jobs, Enqueue(j) PROVE JobsOK' /\ [JQ!Next]_(JQ!vars)
  BY <1>1, EnqueuePuts DEF JQ!Next
<1>2. ASSUME NEW c \in Consumers, Take(c) PROVE JobsOK' /\ [JQ!Next]_(JQ!vars)
  BY <1>2, TakeTakes DEF JQ!Next
<1>3. ASSUME \/ \E c \in Consumers :
                   Wait(c) \/ SeeClosed(c) \/ Wake(c) \/ SeeDone(c) \/ FinishJob(c)
             \/ Close \/ CtxDone \/ UNCHANGED vars
      PROVE  JobsOK' /\ [JQ!Next]_(JQ!vars)
  <2>1. UNCHANGED queueVars
    BY <1>3 DEF queueVars, vars, Wait, SeeClosed, Wake, SeeDone, FinishJob, Close, CtxDone
  <2>2. QED
    BY <1>3, <2>1, OtherIsQueueStep
<1>4. QED
  BY <1>1, <1>2, <1>3 DEF Next, Step

(* FairQueue hands each waiting job to one worker and loses none: it        *)
(* implements JobQueue, whose liveness part is checked by TLC.             *)
THEOREM QueueImplementsJobQueue == Spec => JQ!SafeSpec
<1>1. Init => Inv /\ JobsOK /\ JQ!Init
  BY FairQueueAssumption, QueueInit
<1>2. Inv /\ JobsOK /\ [Next]_vars => Inv' /\ JobsOK' /\ [JQ!Next]_(JQ!vars)
  BY FairQueueAssumption, QueueStep
<1>3. QED
  BY <1>1, <1>2, PTL DEF Spec, SafeSpec, JQ!SafeSpec

-----------------------------------------------------------------------------
(***************************************************************************)
(* The order of service.  Place and Index choose a position; RingOK and    *)
(* JobsOK say that there is one only, so that the proofs can name it.      *)
(***************************************************************************)

(* CHOOSE finds the one position of x in the first n of s. *)
LEMMA OnePosition ==
    ASSUME NEW s, NEW n, NEW x, NEW i \in 1..n, s[i] = x,
           \A k \in 1..n : s[k] = x => k = i
    PROVE  (CHOOSE k \in 1..n : s[k] = x) = i
  OBVIOUS

(* A job in lists b of the tenants, each with jobs of its tenant and each   *)
(* of them once, is at one position of the list of its tenant.             *)
LEMMA IndexOfListed ==
    ASSUME NEW b \in [TenantIDs -> Seq(Jobs)],
           \A t \in TenantIDs : \A i \in 1..Len(b[t]) : TenantOf[b[t][i]] = t,
           \A t \in TenantIDs : \A i, k \in 1..Len(b[t]) : b[t][i] = b[t][k] => i = k,
           NEW j \in UNION {ToSet(b[t]) : t \in TenantIDs}
    PROVE  LET s == b[TenantOf[j]]
               i == CHOOSE k \in 1..Len(s) : s[k] = j
           IN /\ TenantOf[j] \in TenantIDs
              /\ i \in 1..Len(s) /\ s[i] = j
              /\ \A k \in 1..Len(s) : s[k] = j => k = i
<1>1. PICK t \in TenantIDs : \E i \in 1..Len(b[t]) : b[t][i] = j
  BY WaitingIsListed
<1>2. PICK i \in 1..Len(b[t]) : b[t][i] = j
  BY <1>1
<1>3. TenantOf[j] = t
  BY <1>2
<1>4. \A k \in 1..Len(b[t]) : b[t][k] = j => k = i
  BY <1>2
<1>5. (CHOOSE k \in 1..Len(b[t]) : b[t][k] = j) = i
  BY <1>2, <1>4, OnePosition
<1>6. QED
  BY <1>2, <1>3, <1>4, <1>5

(* The step of a worker that takes a job: the list of the served tenant    *)
(* moves up by one, the other lists stay.                                  *)
LEMMA TakeServes ==
    ASSUME TypeOK, RingOK, NEW c \in Consumers, Take(c)
    PROVE  LET t == tenants[Head0 + 1] IN
           /\ t \in TenantIDs
           /\ Len(byTenant[t]) \in Nat \ {0}
           /\ Len(byTenant'[t]) = Len(byTenant[t]) - 1
           /\ \A i \in 1..(Len(byTenant[t]) - 1) : byTenant'[t][i] = byTenant[t][i + 1]
           /\ \A u \in TenantIDs : u # t => byTenant'[u] = byTenant[u]
           /\ \A u \in TenantIDs : Serves(u) <=> u = t
<1> DEFINE t == tenants[Head0 + 1]
<1>1. t \in TenantIDs /\ byTenant[t] # <<>>
  BY ServedTenant DEF Take
<1>2. byTenant[t] \in Seq(Jobs) /\ Len(byTenant[t]) \in Nat \ {0}
  BY <1>1, HeadTail DEF TypeOK
<1>3. /\ byTenant'[t] = Tail(byTenant[t])
      /\ \A u \in TenantIDs : u # t => byTenant'[u] = byTenant[u]
  BY <1>1 DEF Take, Rotate, TypeOK
<1>4. /\ Len(byTenant'[t]) = Len(byTenant[t]) - 1
      /\ \A i \in 1..(Len(byTenant[t]) - 1) : byTenant'[t][i] = byTenant[t][i + 1]
  BY <1>1, <1>2, <1>3, HeadTailProperties
<1> HIDE DEF t
<1>5. ASSUME NEW u \in TenantIDs PROVE Serves(u) <=> u = t
  <2>1. Len(byTenant[u]) \in Nat
    BY LenProperties DEF TypeOK
  <2>2. CASE u = t
    BY <2>2, <1>2, <1>4 DEF Serves
  <2>3. CASE u # t
    BY <2>1, <2>3, <1>3 DEF Serves
  <2>4. QED
    BY <2>2, <2>3
<1>6. QED
  BY <1>1, <1>2, <1>3, <1>4, <1>5 DEF t

(* Enqueue serves nobody and leaves every waiting job where it is. *)
LEMMA EnqueueServesNone ==
    ASSUME FairQueueAssumption, TypeOK, NEW k \in Jobs, Enqueue(k), NEW u \in TenantIDs
    PROVE  /\ ~Serves(u)
           /\ \A i \in 1..Len(byTenant[u]) :
                 i \in 1..Len(byTenant'[u]) /\ byTenant'[u][i] = byTenant[u][i]
<1> DEFINE t == TenantOf[k]
<1>1. /\ t \in TenantIDs /\ byTenant[u] \in Seq(Jobs) /\ Len(byTenant[u]) \in Nat
  BY LenProperties DEF FairQueueAssumption, TypeOK
<1>2. byTenant'[u] = IF u = t THEN Append(byTenant[t], k) ELSE byTenant[u]
  BY <1>1 DEF Enqueue, PutLast, TypeOK
<1>3. CASE u = t
  <2>1. /\ Len(byTenant'[u]) = Len(byTenant[u]) + 1
        /\ \A i \in 1..Len(byTenant[u]) : byTenant'[u][i] = byTenant[u][i]
    BY <1>1, <1>2, <1>3, AppendProperties
  <2>2. QED
    BY <2>1, <1>1 DEF Serves
<1>4. CASE u # t
  BY <1>1, <1>2, <1>4 DEF Serves
<1>5. QED
  BY <1>3, <1>4

FifoStep ==
    \A j \in WaitingJobs :
       j \in WaitingJobs' =>
           Index(j)' = Index(j) - (IF Serves(TenantOf[j]) THEN 1 ELSE 0)

(* A step keeps the order of the waiting jobs of each tenant. *)
LEMMA FifoByStep ==
    ASSUME FairQueueAssumption, Inv, JobsOK, Inv', JobsOK', [Next]_vars
    PROVE  FifoStep
<1> USE DEF Inv
<1> SUFFICES ASSUME NEW j \in WaitingJobs, j \in WaitingJobs'
             PROVE  Index(j)' = Index(j) - (IF Serves(TenantOf[j]) THEN 1 ELSE 0)
  BY DEF FifoStep
<1> DEFINE u == TenantOf[j]
           i == Index(j)
           k == Index(j)'
<1>1. /\ u \in TenantIDs
      /\ i \in 1..Len(byTenant[u]) /\ byTenant[u][i] = j
      /\ \A m \in 1..Len(byTenant[u]) : byTenant[u][m] = j => m = i
  BY IndexOfListed DEF Index, WaitingJobs, TypeOK, JobsOK
<1>2. /\ k \in 1..Len(byTenant'[u]) /\ byTenant'[u][k] = j
      /\ \A m \in 1..Len(byTenant'[u]) : byTenant'[u][m] = j => m = k
  BY IndexOfListed DEF Index, WaitingJobs, TypeOK, JobsOK
<1>3. Len(byTenant[u]) \in Nat
  BY <1>1, LenProperties DEF TypeOK
<1> HIDE DEF i, k, u
<1>4. ASSUME NEW x \in Jobs, Enqueue(x)
      PROVE  k = i /\ ~Serves(u)
  BY <1>1, <1>2, <1>4, EnqueueServesNone
<1>5. ASSUME NEW c \in Consumers, Take(c)
      PROVE  k = i - (IF Serves(u) THEN 1 ELSE 0)
  <2> DEFINE t == tenants[Head0 + 1]
  <2>1. /\ t \in TenantIDs
        /\ Len(byTenant'[t]) = Len(byTenant[t]) - 1
        /\ \A m \in 1..(Len(byTenant[t]) - 1) : byTenant'[t][m] = byTenant[t][m + 1]
        /\ \A v \in TenantIDs : v # t => byTenant'[v] = byTenant[v]
        /\ \A v \in TenantIDs : Serves(v) <=> v = t
    BY <1>5, TakeServes
  <2> HIDE DEF t
  <2>2. CASE u = t
    <3>1. k + 1 \in 1..Len(byTenant[u]) /\ byTenant[u][k + 1] = j
      BY <1>2, <1>3, <2>1, <2>2
    <3>2. k + 1 = i
      BY <3>1, <1>1
    <3>3. QED
      BY <3>2, <2>1, <2>2, <1>1, <1>2
  <2>3. CASE u # t
    BY <1>1, <1>2, <2>1, <2>3
  <2>4. QED
    BY <2>2, <2>3
<1>6. ASSUME byTenant' = byTenant
      PROVE  k = i /\ ~Serves(u)
  BY <1>1, <1>2, <1>3, <1>6 DEF Serves
<1>7. QED
  <2>1. k = i - (IF Serves(u) THEN 1 ELSE 0)
    <3>1. i \in Int
      BY <1>1
    <3>2. CASE \E x \in Jobs : Enqueue(x)
      BY <3>1, <3>2, <1>4
    <3>3. CASE \E c \in Consumers : Take(c)
      BY <3>3, <1>5
    <3>4. CASE ~(\E x \in Jobs : Enqueue(x)) /\ ~(\E c \in Consumers : Take(c))
      <4>1. byTenant' = byTenant
        BY <3>4 DEF Next, Step, Wait, SeeClosed, Wake, SeeDone, FinishJob, Close, CtxDone, vars
      <4>2. QED
        BY <4>1, <3>1, <1>6
    <3>5. QED
      BY <3>2, <3>3, <3>4
  <2>2. QED
    BY <2>1 DEF i, k, u

(* Jobs of one tenant are taken in the order they came. *)
THEOREM JobsKeepTheirOrder == Spec => TenantFifo
<1>1. Init => Inv /\ JobsOK
  BY FairQueueAssumption, QueueInit
<1>2. Inv /\ JobsOK /\ [Next]_vars => Inv' /\ JobsOK'
  BY FairQueueAssumption, QueueStep
<1>3. Inv /\ JobsOK /\ Inv' /\ JobsOK' /\ [Next]_vars => FifoStep
  BY FairQueueAssumption, FifoByStep
<1>4. Inv /\ JobsOK /\ Inv' /\ JobsOK' /\ [Next]_vars => [FifoStep]_vars
  BY <1>3
<1>5. ([][FifoStep]_vars) => TenantFifo
  BY DEF TenantFifo, FifoStep
<1>6. QED
  BY <1>1, <1>2, <1>4, <1>5, PTL DEF Spec, SafeSpec

(* In a ring without repetitions an entry is at its place. *)
LEMMA PlaceAt ==
    ASSUME NEW S, NEW s \in Seq(S),
           \A i, k \in 1..Len(s) : s[i] = s[k] => i = k,
           NEW i \in 1..Len(s)
    PROVE  s[i] \in ToSet(s) /\ (CHOOSE k \in 1..Len(s) : s[k] = s[i]) = i
<1>1. s[i] \in ToSet(s)
  BY LenProperties DEF ToSet
<1>2. QED
  BY <1>1, OnePosition

(* And each tenant of the ring has a place. *)
LEMMA PlaceOf ==
    ASSUME NEW S, NEW s \in Seq(S),
           \A i, k \in 1..Len(s) : s[i] = s[k] => i = k,
           NEW t \in ToSet(s)
    PROVE  LET i == CHOOSE k \in 1..Len(s) : s[k] = t
           IN i \in 1..Len(s) /\ s[i] = t
<1>1. PICK i \in 1..Len(s) : s[i] = t
  BY LenProperties DEF ToSet
<1>2. QED
  BY <1>1, PlaceAt

TurnStep ==
    \A t \in Upcoming :
       ~Serves(t) => /\ t \in Upcoming'
                     /\ Before(t)' = Before(t)
                             - (IF \E u \in TenantIDs : Serves(u) THEN 1 ELSE 0)

(* A step keeps the turn of the tenants that the cursor has not passed. *)
LEMMA TurnByStep ==
    ASSUME FairQueueAssumption, Inv, Inv', [Next]_vars
    PROVE  TurnStep
<1> USE DEF Inv
<1> DEFINE served == \E u \in TenantIDs : Serves(u)
           one == IF served THEN 1 ELSE 0
<1> SUFFICES ASSUME NEW t \in Upcoming, ~Serves(t)
             PROVE  t \in Upcoming' /\ Before(t)' = Before(t) - one
  BY DEF TurnStep
<1> DEFINE p == Place(t)
           n == Len(tenants)
<1>1. /\ p \in 1..n /\ tenants[p] = t /\ p > cursor
      /\ n \in Nat /\ cursor \in Nat
  <2>1. /\ t \in ToSet(tenants) /\ Place(t) > cursor
        /\ tenants \in Seq(TenantIDs) /\ cursor \in Nat
    BY DEF Upcoming, TypeOK
  <2>2. \A i, k \in 1..Len(tenants) : tenants[i] = tenants[k] => i = k
    BY DEF RingOK
  <2>3. Place(t) \in 1..Len(tenants) /\ tenants[Place(t)] = t
    BY <2>1, <2>2, PlaceOf DEF Place
  <2>4. QED
    BY <2>1, <2>3, LenProperties
<1>2. t \in TenantIDs
  BY <1>1, ElementOfSeq DEF TypeOK
\* it is enough to say where the step puts the tenant
<1>3. ASSUME NEW q \in 1..Len(tenants'), tenants'[q] = t, q > cursor',
             q - cursor' = p - cursor - one
      PROVE  t \in Upcoming' /\ Before(t)' = Before(t) - one
  <2>1. /\ tenants' \in Seq(TenantIDs) /\ cursor' \in Nat
        /\ \A i, k \in 1..Len(tenants') : tenants'[i] = tenants'[k] => i = k
    BY DEF TypeOK, RingOK
  <2>2. t \in ToSet(tenants') /\ (CHOOSE k \in 1..Len(tenants') : tenants'[k] = t) = q
    BY <2>1, <1>3, PlaceAt
  <2>3. Place(t)' = q
    BY <2>2 DEF Place
  <2>4. t \in Upcoming'
    BY <2>2, <2>3, <1>3 DEF Upcoming
  <2>5. one \in Int /\ q \in Int
    OBVIOUS
  <2> HIDE DEF one
  <2>6. Before(t)' = Before(t) - one
    BY <2>1, <2>3, <2>5, <1>1, <1>3 DEF Before
  <2>7. QED
    BY <2>4, <2>6
<1> DEFINE Goal == t \in Upcoming' /\ Before(t)' = Before(t) - one
<1> HIDE DEF p, n
<1>4. ASSUME NEW x \in Jobs, Enqueue(x) PROVE Goal
  <2>1. one = 0
    BY <1>4, EnqueueServesNone
  <2>2. cursor' = cursor
    BY <1>4 DEF Enqueue
  <2>3. p \in 1..Len(tenants') /\ tenants'[p] = t
    <3>1. TenantOf[x] \in TenantIDs
      BY DEF FairQueueAssumption
    <3>2. CASE tenants' = Append(tenants, TenantOf[x])
      BY <3>1, <3>2, <1>1, AppendProperties DEF TypeOK, n
    <3>3. CASE tenants' = tenants
      BY <3>3, <1>1 DEF n
    <3>4. QED
      BY <3>2, <3>3, <1>4 DEF Enqueue, JoinRing
  <2> HIDE DEF one
  <2>4. QED
    BY <2>1, <2>2, <2>3, <1>1, <1>3
<1>5. ASSUME NEW c \in Consumers, Take(c) PROVE Goal
  <2> DEFINE h == Head0 + 1
             u == tenants[h]
  <2>1. /\ u \in TenantIDs
        /\ \A v \in TenantIDs : Serves(v) <=> v = u
    BY <1>5, TakeServes
  <2>2. one = 1 /\ u # t
    BY <2>1
  <2>3. h = cursor + 1 /\ Head0 = cursor
    BY <1>1 DEF Head0, n
  <2>4. p > h /\ h \in 1..n /\ h < n
    BY <2>2, <2>3, <1>1
  <2> HIDE DEF one
  <2>5. CASE tenants' = RemoveAt(tenants, h) /\ cursor' = cursor
    <3>1. /\ Len(tenants') = n - 1
          /\ \A k \in 1..(n - 1) : tenants'[k] = IF k < h THEN tenants[k] ELSE tenants[k + 1]
      BY <2>4, <2>5, RemoveAtProperties DEF TypeOK, n
    <3>2. p - 1 \in 1..(n - 1) /\ ~(p - 1 < h) /\ (p - 1) + 1 = p
      BY <1>1, <2>3, <2>4
    <3>3. p - 1 \in 1..Len(tenants') /\ tenants'[p - 1] = t
      BY <3>1, <3>2, <1>1
    <3>4. p - 1 > cursor' /\ (p - 1) - cursor' = p - cursor - one
      BY <1>1, <2>2, <2>3, <2>4, <2>5
    <3>5. QED
      BY <3>3, <3>4, <1>3
  <2>6. CASE tenants' = tenants /\ cursor' = h % n
    <3>1. cursor' = cursor + 1
      BY <1>1, <2>3, <2>4, <2>6
    <3>2. /\ p \in 1..Len(tenants') /\ tenants'[p] = t
          /\ p > cursor' /\ p - cursor' = p - cursor - one
      BY <3>1, <1>1, <2>2, <2>3, <2>4, <2>6 DEF n
    <3>3. QED
      BY <3>2, <1>3
  <2>7. QED
    BY <2>3, <2>5, <2>6, <1>5 DEF Take, Rotate, CursorAfterLeave, n
<1>6. ASSUME UNCHANGED queueVars PROVE Goal
  <2>1. byTenant' = byTenant /\ tenants' = tenants /\ cursor' = cursor
    BY <1>6 DEF queueVars
  <2>2. one = 0
    <3>1. \A v \in TenantIDs : Len(byTenant[v]) \in Nat
      BY LenProperties DEF TypeOK
    <3>2. QED
      BY <2>1, <3>1 DEF Serves
  <2> HIDE DEF one
  <2>3. QED
    BY <2>1, <2>2, <1>1, <1>3 DEF n
<1>7. QED
  <2>1. CASE \E x \in Jobs : Enqueue(x)
    BY <2>1, <1>4
  <2>2. CASE \E c \in Consumers : Take(c)
    BY <2>2, <1>5
  <2>3. CASE ~(\E x \in Jobs : Enqueue(x)) /\ ~(\E c \in Consumers : Take(c))
    <3>1. UNCHANGED queueVars
      BY <2>3 DEF Next, Step, Wait, SeeClosed, Wake, SeeDone, FinishJob, Close, CtxDone,
                  vars, queueVars
    <3>2. QED
      BY <3>1, <1>6
  <2>4. QED
    BY <2>1, <2>2, <2>3

(* A tenant that the cursor has not passed is served after exactly those   *)
(* in front of it, whatever is enqueued meanwhile.                         *)
THEOREM TenantsKeepTheirTurn == Spec => UpcomingKeepTurn
<1>1. Init => Inv
  BY FairQueueAssumption, InvInit
<1>2. Inv /\ [Next]_vars => Inv'
  BY FairQueueAssumption, InvStep
<1>3. Inv /\ Inv' /\ [Next]_vars => [TurnStep]_vars
  BY FairQueueAssumption, TurnByStep
<1>4. ([][TurnStep]_vars) => UpcomingKeepTurn
  BY DEF UpcomingKeepTurn, TurnStep
<1>5. QED
  BY <1>1, <1>2, <1>3, <1>4, PTL DEF Spec, SafeSpec
=============================================================================
