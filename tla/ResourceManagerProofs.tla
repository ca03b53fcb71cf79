------------------------ MODULE ResourceManagerProofs ------------------------
(***************************************************************************)
(* Proofs about ResourceManager, for any tenants, limits and windows.      *)
(*                                                                         *)
(* Both bounds of OvershootIsBounded rest on ActiveCountsLeases: a release *)
(* finds the counter above zero because the lease it gives back is counted,*)
(* and the pages of a tenant are those of as many leases as it counts.  A  *)
(* limit set later may be lower than what is held, so the invariant speaks *)
(* of the highest limits.                                                  *)
(***************************************************************************)
EXTENDS ResourceManager, SumProofs, TLAPS

(* What is charged in a window and what the leases can still add to it. *)
CPUBounded ==
    \A t \in Tenants :
        quotas[t].used + quotas[t].active * RunCPU <= CPUCap - 1 + SlotCap * RunCPU

(* A counter is within the highest limit, and so is the memory of a lease. *)
SlotsFit == \A t \in Tenants : quotas[t].active <= SlotCap
PagesFit == \A l \in LeaseIDs : memory[l] <= PageCap

Inv == TypeOK /\ ActiveCountsLeases /\ CPUBounded /\ SlotsFit /\ PagesFit

-----------------------------------------------------------------------------
(* Multiplication by a natural number keeps the order. *)
LEMMA TimesMonotonic ==
    ASSUME NEW a \in Nat, NEW b \in Nat, NEW c \in Nat, a <= b
    PROVE  a * c <= b * c /\ a * c \in Nat /\ b * c \in Nat
  OBVIOUS

LEMMA TimesNext ==
    ASSUME NEW a \in Nat, NEW c \in Nat
    PROVE  (a + 1) * c = a * c + c /\ a * c \in Nat
  OBVIOUS

(* Setting two fields of a quota, one after the other. *)
LEMMA SetUse ==
    ASSUME NEW q \in Quota, NEW u \in Nat, NEW a \in 0..Window
    PROVE  /\ [q EXCEPT !.used = u, !.age = a] \in Quota
           /\ [q EXCEPT !.used = u, !.age = a].limit = q.limit
           /\ [q EXCEPT !.used = u, !.age = a].active = q.active
           /\ [q EXCEPT !.used = u, !.age = a].used = u
<1> DEFINE r == [q EXCEPT !.used = u]
<1>1. r \in Quota /\ r.limit = q.limit /\ r.active = q.active /\ r.used = u
  BY DEF Quota
<1> HIDE DEF r
<1>2. /\ [r EXCEPT !.age = a] \in Quota
      /\ [r EXCEPT !.age = a].limit = r.limit
      /\ [r EXCEPT !.age = a].active = r.active
      /\ [r EXCEPT !.age = a].used = r.used
  BY <1>1 DEF Quota
<1>3. [q EXCEPT !.used = u, !.age = a] = [r EXCEPT !.age = a]
  BY Zenon DEF r
<1>4. QED
  BY <1>1, <1>2, <1>3, Zenon

LEMMA SetActive ==
    ASSUME NEW q \in Quota, NEW a \in Nat, NEW u \in Nat
    PROVE  [q EXCEPT !.active = a, !.used = u] \in Quota
<1> DEFINE r == [q EXCEPT !.active = a]
<1>1. r \in Quota
  BY DEF Quota
<1> HIDE DEF r
<1>2. [r EXCEPT !.used = u] \in Quota
  BY <1>1 DEF Quota
<1>3. [q EXCEPT !.active = a, !.used = u] = [r EXCEPT !.used = u]
  BY Zenon DEF r
<1>4. QED
  BY <1>2, <1>3, Zenon

LEMMA SetActiveUse ==
    ASSUME NEW q \in Quota, NEW a \in Nat, NEW u \in Nat
    PROVE  [q EXCEPT !.active = a, !.used = u].used = u
<1> DEFINE r == [q EXCEPT !.active = a]
<1>1. r \in Quota
  BY DEF Quota
<1> HIDE DEF r
<1>2. [r EXCEPT !.used = u].used = u
  BY <1>1 DEF Quota
<1>3. [q EXCEPT !.active = a, !.used = u] = [r EXCEPT !.used = u]
  BY Zenon DEF r
<1>4. QED
  BY <1>2, <1>3, Zenon

(* A new window forgets the usage and nothing else. *)
LEMMA CurrentProperties ==
    ASSUME ResourceAssumption, TypeOK, NEW t \in Tenants
    PROVE  /\ Current(t) \in Quota
           /\ Current(t).limit = quotas[t].limit
           /\ Current(t).active = quotas[t].active
           /\ Current(t).used <= quotas[t].used
<1> DEFINE q == quotas[t]
<1>1. q \in Quota
  BY DEF TypeOK
<1>2. Current(t) = IF q.age >= Window THEN [q EXCEPT !.used = 0, !.age = 0] ELSE q
  BY DEF Current
<1> HIDE DEF q
<1>3. CASE q.age >= Window
  <2>1. Current(t) = [q EXCEPT !.used = 0, !.age = 0]
    BY <1>2, <1>3
  <2>2. 0 \in Nat /\ 0 \in 0..Window
    BY DEF ResourceAssumption
  <2>3. /\ Current(t) \in Quota
        /\ Current(t).limit = q.limit /\ Current(t).active = q.active /\ Current(t).used = 0
    <3>1. /\ [q EXCEPT !.used = 0, !.age = 0] \in Quota
          /\ [q EXCEPT !.used = 0, !.age = 0].limit = q.limit
          /\ [q EXCEPT !.used = 0, !.age = 0].active = q.active
          /\ [q EXCEPT !.used = 0, !.age = 0].used = 0
      BY <1>1, <2>2, SetUse, Zenon
    <3>2. QED
      BY <3>1, <2>1, Zenon
  <2>4. q.used \in Nat
    BY <1>1 DEF Quota
  <2>5. QED
    BY <2>3, <2>4 DEF q
<1>4. CASE ~(q.age >= Window)
  <2>1. Current(t) = q
    BY <1>2, <1>4
  <2>2. q.used \in Nat
    BY <1>1 DEF Quota
  <2>3. QED
    BY <1>1, <2>1, <2>2 DEF q
<1>5. QED
  BY <1>3, <1>4

(* The leases of a tenant are finitely many. *)
LEMMA LeasesFinite ==
    ASSUME ResourceAssumption, NEW t
    PROVE  IsFiniteSet(LeasesOf(t)) /\ Cardinality(LeasesOf(t)) \in Nat
<1>1. LeasesOf(t) \subseteq LeaseIDs
  BY DEF LeasesOf
<1>2. IsFiniteSet(LeasesOf(t))
  BY <1>1, FS_Subset DEF ResourceAssumption
<1>3. QED
  BY <1>2, FS_CardinalityType

-----------------------------------------------------------------------------
LEMMA InvInit == ResourceAssumption /\ Init => Inv
<1> SUFFICES ASSUME ResourceAssumption, Init PROVE Inv
  OBVIOUS
<1>1. TypeOK
  BY DEF Init, TypeOK, Quota, FreshQuota, ResourceAssumption, Limit
<1>2. ActiveCountsLeases
  <2> SUFFICES ASSUME NEW t \in Tenants
               PROVE  quotas[t].active = Cardinality(LeasesOf(t))
    BY DEF ActiveCountsLeases
  <2>1. LeasesOf(t) = {}
    BY DEF LeasesOf, Init, ResourceAssumption
  <2>2. QED
    BY <2>1, FS_EmptySet DEF Init, FreshQuota
<1>3. CPUBounded
  <2>1. CPUCap - 1 \in Nat /\ SlotCap * RunCPU \in Nat /\ 0 * RunCPU = 0
    BY DEF ResourceAssumption, Limit
  <2>2. QED
    BY <2>1 DEF CPUBounded, Init, FreshQuota
<1>4. SlotsFit /\ PagesFit
  BY DEF SlotsFit, PagesFit, Init, FreshQuota, ResourceAssumption
<1>5. QED
  BY <1>1, <1>2, <1>3, <1>4 DEF Inv

(* A grant adds one lease to the tenant and one to its counter. *)
LEMMA AcquireInv ==
    ASSUME ResourceAssumption, Inv, NEW t \in Tenants, NEW l \in LeaseIDs,
           NEW pages \in Pages, Acquire(t, l, pages)
    PROVE  Inv'
<1> DEFINE q == Current(t)
<1> USE DEF Inv
<1>1. /\ q \in Quota /\ q.limit = quotas[t].limit /\ q.active = quotas[t].active
      /\ q.used <= quotas[t].used
  BY CurrentProperties
<1>2. /\ leases[l] = NoTenant
      /\ q.active < q.limit.slots /\ q.used < q.limit.cpu
      /\ quotas' = [quotas EXCEPT ![t] = [q EXCEPT !.active = q.active + 1]]
      /\ known' = known \cup {t}
      /\ leases' = [leases EXCEPT ![l] = t]
      /\ memory' = [memory EXCEPT ![l] = pages]
      /\ pages <= q.limit.pages /\ pages \in Nat
  BY DEF Acquire, Keep, ResourceAssumption
<1> HIDE DEF q
<1>3. [q EXCEPT !.active = q.active + 1] \in Quota
  BY <1>1 DEF Quota
<1>4. TypeOK'
  BY <1>2, <1>3 DEF TypeOK
<1>5. /\ quotas'[t].active = q.active + 1 /\ quotas'[t].used = q.used
      /\ \A u \in Tenants : u # t => quotas'[u] = quotas[u]
  BY <1>1, <1>2 DEF TypeOK, Quota
<1>6. ActiveCountsLeases'
  <2>1. LeasesOf(t)' = LeasesOf(t) \cup {l} /\ l \notin LeasesOf(t)
    BY <1>2 DEF LeasesOf, TypeOK, ResourceAssumption
  <2>2. Cardinality(LeasesOf(t)') = Cardinality(LeasesOf(t)) + 1
    BY <2>1, LeasesFinite, FS_AddElement
  <2>3. \A u \in Tenants : u # t => LeasesOf(u)' = LeasesOf(u)
    BY <1>2 DEF LeasesOf, TypeOK, ResourceAssumption
  <2>4. QED
    BY <2>2, <2>3, <1>1, <1>5 DEF ActiveCountsLeases
<1>7. CPUBounded'
  <2>1. /\ q.active + 1 \in Nat /\ q.used \in Nat
        /\ q.active + 1 <= SlotCap /\ q.used <= CPUCap - 1
    BY <1>1, <1>2 DEF Quota, Limit, ResourceAssumption
  <2>2. (q.active + 1) * RunCPU <= SlotCap * RunCPU
        /\ (q.active + 1) * RunCPU \in Nat /\ SlotCap * RunCPU \in Nat
    BY <2>1, TimesMonotonic DEF ResourceAssumption
  <2>3. q.used + (q.active + 1) * RunCPU <= CPUCap - 1 + SlotCap * RunCPU
    BY <2>1, <2>2 DEF ResourceAssumption
  <2>4. QED
    BY <2>3, <1>5 DEF CPUBounded
<1>8. SlotsFit'
  <2>1. q.active + 1 <= SlotCap
    BY <1>1, <1>2 DEF Quota, Limit, ResourceAssumption
  <2>2. QED
    BY <2>1, <1>5 DEF SlotsFit
<1>9. PagesFit'
  <2>1. pages <= PageCap
    BY <1>1, <1>2 DEF Quota, Limit, ResourceAssumption
  <2>2. QED
    BY <2>1, <1>2 DEF PagesFit, TypeOK
<1>10. QED
  BY <1>4, <1>6, <1>7, <1>8, <1>9

(* A release takes one lease from the tenant and charges at most RunCPU. *)
LEMMA ReleaseInv ==
    ASSUME ResourceAssumption, Inv, NEW l \in LeaseIDs, NEW cpu \in 0..RunCPU, Release(l, cpu)
    PROVE  Inv'
<1> DEFINE t == leases[l]
           q == Current(t)
<1> USE DEF Inv
<1>1. t \in Tenants
  BY DEF Release, TypeOK
<1>2. /\ q \in Quota /\ q.limit = quotas[t].limit /\ q.active = quotas[t].active
      /\ q.used <= quotas[t].used
  BY <1>1, CurrentProperties
<1>3. l \in LeasesOf(t)
  BY DEF LeasesOf
<1>4. q.active > 0
  <2>1. IsFiniteSet(LeasesOf(t)) /\ Cardinality(LeasesOf(t)) \in Nat
    BY LeasesFinite
  <2>2. Cardinality(LeasesOf(t)) # 0
    BY <1>3, <2>1, FS_EmptySet
  <2>3. quotas[t].active = Cardinality(LeasesOf(t))
    BY <1>1 DEF ActiveCountsLeases
  <2>4. QED
    BY <2>1, <2>2, <2>3, <1>2
<1>5. /\ quotas' = [quotas EXCEPT ![t] = [q EXCEPT !.active = q.active - 1,
                                                   !.used = q.used + cpu]]
      /\ known' = known \cup {t}
      /\ leases' = [leases EXCEPT ![l] = NoTenant]
      /\ memory' = [memory EXCEPT ![l] = 0]
  BY <1>4 DEF Release, Keep, Charged
<1> HIDE DEF q
<1>6. [q EXCEPT !.active = q.active - 1, !.used = q.used + cpu] \in Quota
  <2>1. q.active - 1 \in Nat /\ q.used + cpu \in Nat
    BY <1>2, <1>4 DEF Quota, ResourceAssumption
  <2>2. QED
    BY <1>2, <2>1, SetActive, Zenon
<1>7. TypeOK'
  BY <1>1, <1>5, <1>6 DEF TypeOK
<1>8. /\ quotas'[t].active = q.active - 1 /\ quotas'[t].used = q.used + cpu
      /\ \A u \in Tenants : u # t => quotas'[u] = quotas[u]
  BY <1>1, <1>2, <1>5 DEF TypeOK, Quota
<1>9. ActiveCountsLeases'
  <2>1. {k \in LeaseIDs : leases'[k] = t} = LeasesOf(t) \ {l}
    BY <1>1, <1>5 DEF LeasesOf, TypeOK, ResourceAssumption
  <2>2. Cardinality(LeasesOf(t) \ {l}) = Cardinality(LeasesOf(t)) - 1
    BY <1>3, LeasesFinite, FS_RemoveElement
  <2>3. ASSUME NEW u \in Tenants, u # t
        PROVE  {k \in LeaseIDs : leases'[k] = u} = LeasesOf(u)
    BY <2>3, <1>1, <1>5 DEF LeasesOf, TypeOK, ResourceAssumption
  <2>4. \A u \in Tenants :
           quotas'[u].active = Cardinality({k \in LeaseIDs : leases'[k] = u})
    <3> SUFFICES ASSUME NEW u \in Tenants
                 PROVE  quotas'[u].active = Cardinality({k \in LeaseIDs : leases'[k] = u})
      OBVIOUS
    <3>1. CASE u = t
      BY <3>1, <2>1, <2>2, <1>1, <1>2, <1>8 DEF ActiveCountsLeases
    <3>2. CASE u # t
      BY <3>2, <2>3, <1>8 DEF ActiveCountsLeases
    <3>3. QED
      BY <3>1, <3>2
  <2>5. QED
    BY <2>4 DEF ActiveCountsLeases, LeasesOf
<1>10. CPUBounded'
  <2> DEFINE a == q.active - 1
  <2>1. a \in Nat /\ a + 1 = q.active /\ q.used \in Nat /\ quotas[t].used \in Nat /\ cpu \in Nat
        /\ cpu <= RunCPU /\ RunCPU \in Nat
    BY <1>1, <1>2, <1>4 DEF Quota, TypeOK, ResourceAssumption
  <2>2. (a + 1) * RunCPU = a * RunCPU + RunCPU /\ a * RunCPU \in Nat
    BY <2>1, TimesNext
  <2>3. quotas[t].used + (a + 1) * RunCPU <= CPUCap - 1 + SlotCap * RunCPU
    BY <1>1, <1>2, <2>1 DEF CPUBounded
  <2>4. SlotCap * RunCPU \in Nat /\ CPUCap \in Nat
    BY TimesMonotonic DEF ResourceAssumption
  <2> HIDE DEF a
  <2>5. q.used + cpu + a * RunCPU <= CPUCap - 1 + SlotCap * RunCPU
    BY <2>1, <2>2, <2>3, <2>4, <1>2
  <2>6. QED
    BY <2>5, <1>8 DEF CPUBounded, a
<1>11. SlotsFit' /\ PagesFit'
  <2>1. q.active - 1 <= SlotCap
    BY <1>1, <1>2 DEF SlotsFit, Quota, ResourceAssumption
  <2>2. SlotsFit'
    BY <2>1, <1>8 DEF SlotsFit
  <2>3. PagesFit'
    BY <1>5 DEF PagesFit, TypeOK, ResourceAssumption
  <2>4. QED
    BY <2>2, <2>3
<1>12. QED
  BY <1>7, <1>9, <1>10, <1>11

(* Looking up, setting limits and the clock change no count and add no use. *)
LEMMA QuietInv ==
    ASSUME ResourceAssumption, Inv, TypeOK', UNCHANGED <<leases, memory>>,
           \A t \in Tenants : /\ quotas'[t].active = quotas[t].active
                              /\ quotas'[t].used <= quotas[t].used
    PROVE  Inv'
<1> USE DEF Inv
<1>1. ActiveCountsLeases'
  BY DEF ActiveCountsLeases, LeasesOf
<1>2. CPUBounded'
  <2> SUFFICES ASSUME NEW t \in Tenants
               PROVE  quotas'[t].used + quotas'[t].active * RunCPU
                         <= CPUCap - 1 + SlotCap * RunCPU
    BY DEF CPUBounded
  <2>1. /\ quotas[t].used \in Nat /\ quotas'[t].used \in Nat /\ quotas[t].active \in Nat
        /\ CPUCap \in Nat
    BY DEF TypeOK, Quota, ResourceAssumption
  <2>2. quotas[t].active * RunCPU \in Nat /\ SlotCap * RunCPU \in Nat
    BY <2>1, TimesMonotonic DEF ResourceAssumption
  <2>3. quotas[t].used + quotas[t].active * RunCPU <= CPUCap - 1 + SlotCap * RunCPU
    BY DEF CPUBounded
  <2>4. QED
    BY <2>1, <2>2, <2>3
<1>3. SlotsFit' /\ PagesFit'
  BY DEF SlotsFit, PagesFit
<1>4. QED
  BY <1>1, <1>2, <1>3

LEMMA InvStep == ResourceAssumption /\ Inv /\ [Next]_vars => Inv'
<1> SUFFICES ASSUME ResourceAssumption, Inv, [Next]_vars PROVE Inv'
  OBVIOUS
<1>1. ASSUME NEW t \in Tenants, NEW l \in LeaseIDs, NEW pages \in Pages, Acquire(t, l, pages)
      PROVE  Inv'
  BY <1>1, AcquireInv
<1>2. ASSUME NEW l \in LeaseIDs, NEW cpu \in 0..RunCPU, Release(l, cpu) PROVE Inv'
  BY <1>2, ReleaseInv
<1>3. ASSUME NEW t \in Tenants, Get(t) PROVE Inv'
  <2>1. /\ Current(t) \in Quota /\ Current(t).active = quotas[t].active
        /\ Current(t).used <= quotas[t].used
    BY CurrentProperties DEF Inv
  <2>2. TypeOK'
    BY <1>3, <2>1 DEF Get, Keep, Inv, TypeOK
  <2>3. \A u \in Tenants : /\ quotas'[u].active = quotas[u].active
                           /\ quotas'[u].used <= quotas[u].used
    BY <1>3, <2>1 DEF Get, Keep, Inv, TypeOK, Quota
  <2>4. QED
    BY <1>3, <2>2, <2>3, QuietInv DEF Get
<1>4. ASSUME NEW t \in Tenants, NEW limit \in Limits, Set(t, limit) PROVE Inv'
  <2>1. /\ Current(t) \in Quota /\ Current(t).active = quotas[t].active
        /\ Current(t).used <= quotas[t].used
    BY CurrentProperties DEF Inv
  <2>2. [Current(t) EXCEPT !.limit = limit] \in Quota
    BY <2>1 DEF Quota, ResourceAssumption
  <2>3. TypeOK'
    BY <1>4, <2>2 DEF Set, Keep, Inv, TypeOK
  <2>4. \A u \in Tenants : /\ quotas'[u].active = quotas[u].active
                           /\ quotas'[u].used <= quotas[u].used
    BY <1>4, <2>1 DEF Set, Keep, Inv, TypeOK, Quota
  <2>5. QED
    BY <1>4, <2>3, <2>4, QuietInv DEF Set
<1>5. CASE Tick
  <2>1. TypeOK'
    BY <1>5 DEF Tick, Inv, TypeOK, Quota, ResourceAssumption
  <2>2. \A u \in Tenants : /\ quotas'[u].active = quotas[u].active
                           /\ quotas'[u].used <= quotas[u].used
    BY <1>5 DEF Tick, Inv, TypeOK, Quota
  <2>3. QED
    BY <1>5, <2>1, <2>2, QuietInv DEF Tick
<1>6. CASE UNCHANGED vars
  BY <1>6 DEF vars, Inv, TypeOK, ActiveCountsLeases, LeasesOf, CPUBounded, SlotsFit, PagesFit
<1>7. QED
  BY <1>1, <1>2, <1>3, <1>4, <1>5, <1>6 DEF Next

(* Neither budget of a tenant is exceeded by more than its slots make up for. *)
LEMMA InvBounds == ResourceAssumption /\ Inv => OvershootIsBounded
<1> SUFFICES ASSUME ResourceAssumption, Inv, NEW t \in Tenants
             PROVE  MemoryOf(t) <= SlotCap * PageCap
  BY DEF OvershootIsBounded, Inv, CPUBounded
<1> DEFINE S == LeasesOf(t)
<1>1. S \subseteq LeaseIDs /\ IsFiniteSet(S)
  BY LeasesFinite DEF LeasesOf
<1>2. \A x \in S : memory[x] \in Nat /\ memory[x] <= PageCap
  BY <1>1 DEF Inv, TypeOK, PagesFit
<1>3. PageCap \in Nat /\ SlotCap \in Nat
  BY DEF ResourceAssumption
<1>4. /\ MemoryOf(t) \in Nat
      /\ MemoryOf(t) <= Cardinality(S) * PageCap
  <2>1. MapThenSumSet(LAMBDA x : memory[x], S) = Cardinality(Units(memory, S))
    <3>1. IsFiniteSet(S) /\ \A x \in S : memory[x] \in Nat
      BY <1>1, <1>2
    <3> HIDE DEF S
    <3>2. QED
      BY <3>1, SumIsUnits
  <2>2. /\ Cardinality(Units(memory, S)) \in Nat
        /\ Cardinality(Units(memory, S)) <= Cardinality(S) * PageCap
    BY <1>1, <1>2, <1>3, UnitsAtMost
  <2>3. QED
    BY <2>1, <2>2 DEF MemoryOf
<1>5. /\ Cardinality(LeasesOf(t)) = quotas[t].active
      /\ quotas[t].active \in Nat /\ quotas[t].active <= SlotCap
  BY DEF Inv, ActiveCountsLeases, SlotsFit, TypeOK, Quota
<1>6. /\ quotas[t].active * PageCap <= SlotCap * PageCap
      /\ quotas[t].active * PageCap \in Nat /\ SlotCap * PageCap \in Nat
  BY <1>3, <1>5, TimesMonotonic
<1>7. QED
  BY <1>4, <1>5, <1>6

(* The counters are exact and the overshoot bounded in every state. *)
THEOREM ManagerIsSafe == Spec => [](TypeOK /\ ActiveCountsLeases /\ OvershootIsBounded)
<1>1. Init => Inv
  BY ResourceAssumption, InvInit
<1>2. Inv /\ [Next]_vars => Inv'
  BY ResourceAssumption, InvStep
<1>3. Inv => TypeOK /\ ActiveCountsLeases /\ OvershootIsBounded
  BY ResourceAssumption, InvBounds DEF Inv
<1>4. QED
  BY <1>1, <1>2, <1>3, PTL DEF Spec

-----------------------------------------------------------------------------
(* A current quota lost its usage only when the window was over. *)
LEMMA CurrentKeepsUse ==
    ASSUME ResourceAssumption, TypeOK, NEW t \in Tenants
    PROVE  Current(t).used = quotas[t].used \/ quotas[t].age = Window
<1>1. CASE quotas[t].age >= Window
  BY <1>1 DEF TypeOK, Quota, ResourceAssumption
<1>2. CASE ~(quotas[t].age >= Window)
  BY <1>2 DEF Current
<1>3. QED
  BY <1>1, <1>2

(* Each step that grants a lease finds a free slot under the current limit. *)
THEOREM GrantsStayWithinSlots == Spec => GrantedWithinSlots
<1>1. ASSUME ResourceAssumption, Inv, [Next]_vars, NEW t \in Tenants, NEW l \in LeaseIDs,
             leases[l] = NoTenant, leases'[l] = t
      PROVE  Cardinality(LeasesOf(t)) < quotas[t].limit.slots
  <2>1. t # NoTenant
    BY <1>1 DEF ResourceAssumption
  <2>2. PICK u \in Tenants, k \in LeaseIDs, pages \in Pages : Acquire(u, k, pages)
    <3>1. leases' # leases
      BY <1>1, <2>1
    <3>2. ASSUME NEW k \in LeaseIDs, NEW cpu \in 0..RunCPU, Release(k, cpu) PROVE FALSE
      <4>1. leases[k] # NoTenant /\ leases' = [leases EXCEPT ![k] = NoTenant]
        BY <3>2, <1>1 DEF Release, Inv, TypeOK
      <4>2. QED
        BY <4>1, <2>1, <1>1 DEF Inv, TypeOK
    <3>3. QED
      BY <1>1, <3>1, <3>2 DEF Next, vars, Get, Set, Tick
  <2>3. k = l /\ u = t
    BY <1>1, <2>1, <2>2 DEF Acquire, Inv, TypeOK
  <2>4. /\ Current(t).active = quotas[t].active /\ Current(t).limit = quotas[t].limit
        /\ Current(t).active < Current(t).limit.slots
    BY <1>1, <2>2, <2>3, CurrentProperties DEF Acquire, Inv
  <2>5. QED
    BY <2>4, <1>1 DEF Inv, ActiveCountsLeases
<1>2. ASSUME ResourceAssumption, Inv, [Next]_vars
      PROVE  [\A t \in Tenants : \A l \in LeaseIDs :
                 (leases[l] = NoTenant /\ leases'[l] = t) =>
                     Cardinality(LeasesOf(t)) < quotas[t].limit.slots]_vars
  BY <1>1, <1>2
<1>3. Init => Inv
  BY ResourceAssumption, InvInit
<1>4. Inv /\ [Next]_vars => Inv'
  BY ResourceAssumption, InvStep
<1>5. QED
  BY ResourceAssumption, <1>2, <1>3, <1>4, PTL DEF Spec, GrantedWithinSlots

(* No step gives CPU time back before the window is over. *)
THEOREM UsageIsKept == Spec => UsageKeptInWindow
<1>1. ASSUME ResourceAssumption, Inv, [Next]_vars, NEW t \in Tenants,
             quotas'[t].used < quotas[t].used
      PROVE  quotas[t].age = Window
  <2>1. quotas \in [Tenants -> Quota] /\ quotas[t].used \in Nat
    BY <1>1 DEF Inv, TypeOK, Quota
  <2>2. /\ Current(t) \in Quota
        /\ Current(t).used = quotas[t].used \/ quotas[t].age = Window
    BY <1>1, CurrentProperties, CurrentKeepsUse DEF Inv
  <2>3. Current(t).used \in Nat
    BY <2>2 DEF Quota
  <2>4. ASSUME NEW u \in Tenants, NEW l \in LeaseIDs, NEW pages \in Pages, Acquire(u, l, pages)
        PROVE  quotas'[t].used = quotas[t].used \/ quotas'[t].used = Current(t).used
    BY <2>4, <2>1, <2>2 DEF Acquire, Keep, Quota
  <2>5. ASSUME NEW l \in LeaseIDs, NEW cpu \in 0..RunCPU, Release(l, cpu)
        PROVE  \/ quotas'[t].used = quotas[t].used
               \/ quotas'[t].used = Current(t).used + cpu
    <3>1. CASE leases[l] # t
      BY <3>1, <2>5, <2>1 DEF Release, Keep
    <3>2. CASE leases[l] = t
      <4> DEFINE a == IF Current(t).active > 0 THEN Current(t).active - 1
                                               ELSE Current(t).active
                 v == Current(t).used + cpu
      <4>1. a \in Nat /\ v \in Nat
        BY <2>2, <1>1 DEF Quota, ResourceAssumption
      <4>2. quotas' = [quotas EXCEPT ![t] = [Current(t) EXCEPT !.active = a, !.used = v]]
        BY <3>2, <2>5 DEF Release, Keep, Charged
      <4> HIDE DEF a, v
      <4>3. [Current(t) EXCEPT !.active = a, !.used = v].used = v
        <5>1. Current(t) \in Quota
          BY <2>2
        <5>2. a \in Nat
          BY <4>1
        <5>3. v \in Nat
          BY <4>1
        <5>4. QED
          BY <5>1, <5>2, <5>3, SetActiveUse, Zenon
      <4>4. quotas'[t] = [Current(t) EXCEPT !.active = a, !.used = v]
        BY <4>2, <2>1, Zenon
      <4>5. QED
        BY <4>3, <4>4, Zenon DEF v
    <3>3. QED
      BY <3>1, <3>2
  <2>6. ASSUME NEW u \in Tenants, Get(u)
        PROVE  quotas'[t].used = quotas[t].used \/ quotas'[t].used = Current(t).used
    BY <2>6, <2>1 DEF Get, Keep
  <2>7. ASSUME NEW u \in Tenants, NEW limit \in Limits, Set(u, limit)
        PROVE  quotas'[t].used = quotas[t].used \/ quotas'[t].used = Current(t).used
    BY <2>7, <2>1, <2>2 DEF Set, Keep, Quota
  <2>8. CASE Tick
    BY <2>8, <2>1, <1>1 DEF Tick, Quota
  <2>9. CASE UNCHANGED vars
    BY <2>9, <2>1, <1>1 DEF vars
  <2>10. ASSUME NEW cpu \in 0..RunCPU PROVE cpu \in Nat
    BY <1>1 DEF ResourceAssumption
  <2>11. QED
    BY <1>1, <2>1, <2>2, <2>3, <2>4, <2>5, <2>6, <2>7, <2>8, <2>9, <2>10 DEF Next
<1>2. ASSUME ResourceAssumption, Inv, [Next]_vars
      PROVE  [\A t \in Tenants : quotas[t]'.used < quotas[t].used => quotas[t].age = Window]_vars
  BY <1>1, <1>2
<1>3. Init => Inv
  BY ResourceAssumption, InvInit
<1>4. Inv /\ [Next]_vars => Inv'
  BY ResourceAssumption, InvStep
<1>5. QED
  BY ResourceAssumption, <1>2, <1>3, <1>4, PTL DEF Spec, UsageKeptInWindow
=============================================================================
