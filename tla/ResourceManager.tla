--------------------------- MODULE ResourceManager ---------------------------
(***************************************************************************)
(* The manager of quotas and leases, src/internal/resource/application/    *)
(* manager.go.  Every operation runs under one lock and is one action.     *)
(*                                                                         *)
(* The clock is seen only through the age of a tenant's CPU window, counted*)
(* in parts of the minute and no further than the minute.  A lease id is   *)
(* the id of an execution; the execution service leases an id only while   *)
(* it holds no lease (CallsFit of ExecutionProofs), which is the guard     *)
(* "l not leased" of Acquire.  The HTTP handler demands positive limits,   *)
(* and NewManager raises the default slots to one; the default CPU time is *)
(* not checked, and a negative one grants no more than 0.  A definition    *)
(* marked "mistake" is a slip the code does not make, next to the          *)
(* definition it would replace.                                            *)
(***************************************************************************)
EXTENDS Integers, FiniteSets, FiniteSetsExt

CONSTANTS
    Tenants,
    LeaseIDs,
    Limits,       \* the limits an operator may set: [slots, cpu, pages]
    DefaultLimit, \* defaultQuota
    Pages,        \* what a lease may ask for
    NoTenant,
    RunCPU,       \* the longest CPU time a run reports
    Window,       \* the length of the CPU window, in ticks
    SlotCap,      \* no limit has more slots
    CPUCap,       \* no limit has more CPU time
    PageCap       \* no limit has more pages

VARIABLES
    quotas,  \* Tenants -> limits and usage; fresh for a tenant with no entry
    known,   \* the tenants with an entry in m.quotas
    leases,  \* LeaseIDs -> its tenant, or NoTenant
    memory   \* LeaseIDs -> the pages of the lease, 0 for an id without one

vars == <<quotas, known, leases, memory>>

Limit == [slots : 1..SlotCap, cpu : 0..CPUCap, pages : 0..PageCap]

ResourceAssumption ==
    /\ NoTenant \notin Tenants
    /\ IsFiniteSet(LeaseIDs)
    /\ SlotCap \in Nat /\ CPUCap \in Nat \ {0} /\ PageCap \in Nat
    /\ Limits \subseteq Limit
    /\ DefaultLimit \in Limit
    /\ Pages \subseteq Nat
    /\ RunCPU \in Nat
    /\ Window \in Nat \ {0}

ASSUME ResourceAssumption

FreshQuota == [limit |-> DefaultLimit, active |-> 0, used |-> 0, age |-> 0]

\* quotaLocked: a tenant without an entry gets the default, an elapsed window
\* starts anew.  The caller decides whether the result is kept.
Current(t) ==
    IF quotas[t].age >= Window
    THEN [quotas[t] EXCEPT !.used = 0, !.age = 0]
    ELSE quotas[t]

Keep(t, q) ==
    /\ quotas' = [quotas EXCEPT ![t] = q]
    /\ known' = known \cup {t}

Init ==
    /\ quotas = [t \in Tenants |-> FreshQuota]
    /\ known = {}
    /\ leases = [l \in LeaseIDs |-> NoTenant]
    /\ memory = [l \in LeaseIDs |-> 0]

\* mistake: admits when the limit is reached
AcquireAtLimit(t, l, pages) ==
    LET q == Current(t) IN
    /\ leases[l] = NoTenant
    /\ q.active <= q.limit.slots /\ pages <= q.limit.pages /\ q.used <= q.limit.cpu
    /\ Keep(t, [q EXCEPT !.active = @ + 1])
    /\ leases' = [leases EXCEPT ![l] = t]
    /\ memory' = [memory EXCEPT ![l] = pages]

\* Acquire that grants; a refusal keeps nothing, not even a new window
Acquire(t, l, pages) ==
    LET q == Current(t) IN
    /\ leases[l] = NoTenant
    /\ q.active < q.limit.slots
    /\ pages <= q.limit.pages
    /\ q.used < q.limit.cpu
    /\ Keep(t, [q EXCEPT !.active = @ + 1])
    /\ leases' = [leases EXCEPT ![l] = t]
    /\ memory' = [memory EXCEPT ![l] = pages]

\* mistake: the CPU time is given back
Refunded(used, cpu) == used - cpu
Charged(used, cpu) == used + cpu

\* Release of a lease the manager knows; of another id it does nothing.  The
\* whole CPU time counts in the window the release falls in.
Release(l, cpu) ==
    LET t == leases[l]
        q == Current(t)
    IN  /\ t # NoTenant
        /\ Keep(t, [q EXCEPT !.active = IF @ > 0 THEN @ - 1 ELSE @,
                             !.used = Charged(@, cpu)])
        /\ leases' = [leases EXCEPT ![l] = NoTenant]
        /\ memory' = [memory EXCEPT ![l] = 0]

Get(t) ==
    /\ Keep(t, Current(t))
    /\ UNCHANGED <<leases, memory>>

\* mistake: a new limit starts a new entry
SetAnew(t, limit) ==
    /\ Keep(t, [FreshQuota EXCEPT !.limit = limit])
    /\ UNCHANGED <<leases, memory>>

Set(t, limit) ==
    /\ Keep(t, [Current(t) EXCEPT !.limit = limit])
    /\ UNCHANGED <<leases, memory>>

\* time passes; a tenant without an entry has no window
Tick ==
    /\ quotas' = [t \in Tenants |->
                    IF t \in known /\ quotas[t].age < Window
                    THEN [quotas[t] EXCEPT !.age = @ + 1]
                    ELSE quotas[t]]
    /\ UNCHANGED <<known, leases, memory>>

Next ==
    \/ \E t \in Tenants, l \in LeaseIDs, pages \in Pages : Acquire(t, l, pages)
    \/ \E l \in LeaseIDs, cpu \in 0..RunCPU : Release(l, cpu)
    \/ \E t \in Tenants : Get(t)
    \/ \E t \in Tenants, limit \in Limits : Set(t, limit)
    \/ Tick

Spec == Init /\ [][Next]_vars
-----------------------------------------------------------------------------
LeasesOf(t) == {l \in LeaseIDs : leases[l] = t}

Quota == [limit : Limit, active : Nat, used : Nat, age : 0..Window]

TypeOK ==
    /\ quotas \in [Tenants -> Quota]
    /\ known \subseteq Tenants
    /\ leases \in [LeaseIDs -> Tenants \cup {NoTenant}]
    /\ memory \in [LeaseIDs -> Nat]

\* The counter of a tenant is the number of its leases, whatever operators set
\* and however windows elapse in between: a counter that drifts up would lock
\* the tenant out, one that drifts down would let it exceed its slots
\* (manager.go:56-75).
ActiveCountsLeases ==
    \A t \in Tenants : quotas[t].active = Cardinality(LeasesOf(t))

MemoryOf(t) == MapThenSumSet(LAMBDA l : memory[l], LeasesOf(t))

\* Neither budget is kept by the check alone: CPU time is charged only when a
\* run ends, and pages are compared lease by lease and never added up.  Both are
\* bounded through the slots.  In a window a tenant uses, with what its leases
\* can still add, less than the limit and all slots running their longest; and
\* its leases never hold more pages than all slots at the highest limit, although
\* limits are lowered and raised while leases are held (manager.go:47-61, 73).
OvershootIsBounded ==
    \A t \in Tenants :
        /\ quotas[t].used + quotas[t].active * RunCPU <= CPUCap - 1 + SlotCap * RunCPU
        /\ MemoryOf(t) <= SlotCap * PageCap

\* A lease is granted only while the tenant holds fewer leases than the limit
\* in force now, also after an operator lowered it below what is in use.
GrantedWithinSlots ==
    [][\A t \in Tenants : \A l \in LeaseIDs :
          (leases[l] = NoTenant /\ leases'[l] = t) =>
              Cardinality(LeasesOf(t)) < quotas[t].limit.slots]_vars

\* What a tenant used is forgotten only when its window is over: no new limit,
\* look-up, refusal or release gives CPU time back early.
UsageKeptInWindow ==
    [][\A t \in Tenants :
          quotas[t]'.used < quotas[t].used => quotas[t].age = Window]_vars
=============================================================================
