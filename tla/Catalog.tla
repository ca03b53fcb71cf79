------------------------------ MODULE Catalog ------------------------------
(***************************************************************************)
(* The catalog of modules (src/internal/module, and its half of            *)
(* src/internal/store/memory.go) with the compile cache (src/internal/     *)
(* cache/infrastructure/memory.go): operators register, publish and        *)
(* withdraw modules while runs look their compiled form up, compile it and *)
(* put it into the cache (execution/application/service.go:130-147).       *)
(*                                                                         *)
(* Publish and Withdraw read a module, check the transition on their copy  *)
(* and write it back under another lock.  The content of a module is       *)
(* stored with it in one step and never changes, so a module stands for    *)
(* its content and DigestOf gives its digest.  Calls that are turned down  *)
(* before they write change nothing and are left out.  Time is seen only   *)
(* through the age of cache entries, counted in ticks.                     *)
(*                                                                         *)
(* A definition marked "mistake" is a slip the code does not make; it is   *)
(* in no action, and stands next to the definition it would replace.       *)
(***************************************************************************)
EXTENDS Integers

CONSTANTS
    Modules,
    TenantOf, DigestOf, VersionOf,  \* of a module; VersionOf: name and version
    GoodDigests,  \* the digests of contents that compile
    Calls,        \* requests of operators
    Runs,         \* executions
    NoModule,
    Lifetime,     \* cacheTTL, in ticks; configured, also below a minute
    FailureLife,  \* the minute a failure is kept, in ticks
    MaxFaults,    \* bound: failures to write the state file
    MaxRestarts   \* bound: ends of the process

VARIABLES
    modules,   \* the state of each module in memory
    disk,      \* the same in the state file
    later,     \* history: the states other calls have given the module of a
               \* call since this one wrote it without error
    items,     \* Key -> what the cache holds
    what, target, seen, cpc,  \* a call: its kind, module, the copy it read, its stage
    gone,      \* calls whose context is done
    runs, rpc, \* the module of a run, and its stage
    compiled,  \* what a run has got from the cache or the compiler
    cut,       \* runs whose context is done
    sinceCut,  \* history: Key -> the age of its last interrupted compile
    faults, restarts

storeVars == <<modules, disk, faults, later>>
callVars == <<what, target, seen, cpc, gone>>
runVars == <<runs, rpc, compiled, cut>>
vars == <<storeVars, items, callVars, runVars, sinceCut, restarts>>

Tenants == {TenantOf[m] : m \in Modules}
Digests == {DigestOf[m] : m \in Modules}

CatalogAssumption ==
    /\ NoModule \notin Modules
    /\ Lifetime \in Nat
    /\ FailureLife \in Nat
    /\ MaxFaults \in Nat
    /\ MaxRestarts \in Nat

ASSUME CatalogAssumption

ModuleStates == {"absent", "draft", "published", "withdrawn"}

(***************************************************************************)
(* The cache.  An entry is a compiled module or a failure; a compiled      *)
(* module is known by the tenant whose run made it and its digest.         *)
(***************************************************************************)
Key == Tenants \X Digests
Compiled == [tenant : Tenants, digest : Digests]
NoCode == [tenant |-> NoModule, digest |-> NoModule]
Kinds == {"none", "good", "failure"}

NoItem == [kind |-> "none", code |-> NoCode, age |-> 0]

\* what Run compiles, and where it looks for it; the runtime version is one
CodeOf(m) == [tenant |-> TenantOf[m], digest |-> DigestOf[m]]
SharedKey(m) == <<CHOOSE t \in Tenants : TRUE, DigestOf[m]>>  \* mistake: no tenant in the key
KeyOf(m) == <<TenantOf[m], DigestOf[m]>>

\* how long an entry is served
SameLife(kind) == Lifetime  \* mistake: a failure is kept like a result
LifeOf(kind) == IF kind = "failure" THEN FailureLife ELSE Lifetime
Longest == IF Lifetime > FailureLife THEN Lifetime ELSE FailureLife

\* an expired entry is deleted and counts as a miss
Hit(k) == items[k].kind # "none" /\ items[k].age <= LifeOf(items[k].kind)

Keep(k, kind, code) ==
    items' = [items EXCEPT ![k] = [kind |-> kind, code |-> code, age |-> 0]]

\* InvalidateTenant
Invalidate(t) ==
    items' = [k \in Key |-> IF k[1] = t THEN NoItem ELSE items[k]]

-----------------------------------------------------------------------------
\* no two modules of a tenant have the same name and version
VersionsDiffer(states) ==
    \A m, n \in Modules :
        (states[m] # "absent" /\ states[n] # "absent" /\ m # n) =>
            TenantOf[m] # TenantOf[n] \/ VersionOf[m] # VersionOf[n]

\* the process starts with the file an earlier one left
Init ==
    /\ modules \in {f \in [Modules -> ModuleStates] : VersionsDiffer(f)}
    /\ disk = modules
    /\ later = [c \in Calls |-> {}]
    /\ items = [k \in Key |-> NoItem]
    /\ what = [c \in Calls |-> "none"]
    /\ target = [c \in Calls |-> NoModule]
    /\ seen = [c \in Calls |-> "absent"]
    /\ cpc = [c \in Calls |-> "new"]
    /\ gone = {}
    /\ runs = [r \in Runs |-> NoModule]
    /\ rpc = [r \in Runs |-> "new"]
    /\ compiled = [r \in Runs |-> NoCode]
    /\ cut = {}
    /\ sinceCut = [k \in Key |-> FailureLife + 1]
    /\ faults = 0
    /\ restarts = 0

(***************************************************************************)
(* The store: a change stays in memory when the file cannot be written.    *)
(***************************************************************************)
\* stages of a call whose write had no error
Acknowledged == {"clear", "done"}

Put(m, state, ok) ==
    /\ modules' = [modules EXCEPT ![m] = state]
    /\ later' = [c \in Calls |->
                    later[c] \cup {s \in {state} : target[c] = m /\ cpc[c] \in Acknowledged}]
    /\ IF ok THEN disk' = modules' /\ UNCHANGED faults
             ELSE faults < MaxFaults /\ faults' = faults + 1 /\ UNCHANGED disk

\* an error of the store is the error of the call
DoneAnyway(ok, next) == next  \* mistake: the error is dropped
AfterWrite(ok, next) == IF ok THEN next ELSE "error"

VersionTaken(m) ==
    \E n \in Modules : /\ modules[n] # "absent"
                       /\ TenantOf[n] = TenantOf[m]
                       /\ VersionOf[n] = VersionOf[m]

Begin(c, kind, m, next) ==
    /\ cpc[c] = "new"
    /\ c \notin gone
    /\ what' = [what EXCEPT ![c] = kind]
    /\ target' = [target EXCEPT ![c] = m]
    /\ seen' = [seen EXCEPT ![c] = modules[m]]
    /\ cpc' = [cpc EXCEPT ![c] = next]
    /\ UNCHANGED gone

\* Service.Register; ids are fresh
Register(c, m) ==
    /\ modules[m] = "absent"
    /\ ~VersionTaken(m)
    /\ \E ok \in BOOLEAN :
          /\ Put(m, "draft", ok)
          /\ Begin(c, "register", m, AfterWrite(ok, "done"))
    /\ UNCHANGED <<items, runVars, sinceCut, restarts>>

\* the transitions Module.Publish and Module.Withdraw accept, on the copy
AcceptsAny(state, kind) == state # "absent"  \* mistake: the state is not looked at
Accepts(state, kind) ==
    \/ kind = "publish" /\ state = "draft"
    \/ kind = "withdraw" /\ state = "published"

\* mistake: no such state
ResultUnknown(kind) == IF kind = "publish" THEN "published" ELSE "retired"
Result(kind) == IF kind = "publish" THEN "published" ELSE "withdrawn"

\* repo.Get and the transition
Read(c, kind, m) ==
    /\ Accepts(modules[m], kind)
    /\ Begin(c, kind, m, "write")
    /\ UNCHANGED <<storeVars, items, runVars, sinceCut, restarts>>

\* repo.Update of the copy
Write(c) ==
    /\ cpc[c] = "write"
    /\ \/ /\ c \in gone
          /\ cpc' = [cpc EXCEPT ![c] = "error"]
          /\ UNCHANGED storeVars
       \/ /\ c \notin gone
          /\ \E ok \in BOOLEAN :
                /\ Put(target[c], Result(what[c]), ok)
                /\ cpc' = [cpc EXCEPT ![c] =
                        AfterWrite(ok, IF what[c] = "withdraw" THEN "clear" ELSE "done")]
    /\ UNCHANGED <<items, what, target, seen, gone, runVars, sinceCut, restarts>>

\* withdrawModule clears the cache of the tenant, unless its context is done,
\* and answers 200 either way
Clear(c) ==
    /\ cpc[c] = "clear"
    /\ IF c \in gone THEN UNCHANGED items ELSE Invalidate(TenantOf[target[c]])
    /\ cpc' = [cpc EXCEPT ![c] = "done"]
    /\ UNCHANGED <<storeVars, what, target, seen, gone, runVars, sinceCut, restarts>>

\* recalculateCache
Recalculate(t) ==
    /\ Invalidate(t)
    /\ UNCHANGED <<storeVars, callVars, runVars, sinceCut, restarts>>

Abandon(c) ==
    /\ cpc[c] \in {"write", "clear"}
    /\ gone' = gone \cup {c}
    /\ UNCHANGED <<storeVars, items, what, target, seen, cpc, runVars, sinceCut, restarts>>

-----------------------------------------------------------------------------
(***************************************************************************)
(* Runs                                                                    *)
(***************************************************************************)
RunTo(r, next) == rpc' = [rpc EXCEPT ![r] = next]

\* Service.Submit accepts an execution of a published module; Run reads the
\* module again and does not look at its state
Submit(r, m) ==
    /\ rpc[r] = "new"
    /\ modules[m] = "published"
    /\ runs' = [runs EXCEPT ![r] = m]
    /\ RunTo(r, "get")
    /\ UNCHANGED <<storeVars, items, callVars, compiled, cut, sinceCut, restarts>>

\* modules.Content and cache.Get, which look at the context of the run
Get(r) ==
    LET k == KeyOf(runs[r]) IN
    /\ rpc[r] = "get"
    /\ IF r \in cut
       THEN RunTo(r, "failed") /\ UNCHANGED <<items, compiled>>
       ELSE IF Hit(k)
       THEN /\ compiled' = [compiled EXCEPT ![r] = items[k].code]
            /\ RunTo(r, IF items[k].kind = "good" THEN "ran" ELSE "failed")
            /\ UNCHANGED items
       ELSE /\ items' = [items EXCEPT ![k] = NoItem]
            /\ RunTo(r, "compile")
            /\ UNCHANGED compiled
    /\ UNCHANGED <<storeVars, callVars, runs, cut, sinceCut, restarts>>

\* runtime.Compile; a failure is kept, also that of a context that is done
Compile(r) ==
    LET m == runs[r]
        k == KeyOf(m)
    IN
    /\ rpc[r] = "compile"
    /\ IF r \notin cut /\ DigestOf[m] \in GoodDigests
       THEN /\ compiled' = [compiled EXCEPT ![r] = CodeOf(m)]
            /\ RunTo(r, "put")
            /\ UNCHANGED <<items, sinceCut>>
       ELSE /\ Keep(k, "failure", NoCode)
            /\ RunTo(r, "failed")
            /\ sinceCut' = IF r \in cut THEN [sinceCut EXCEPT ![k] = 0] ELSE sinceCut
            /\ UNCHANGED compiled
    /\ UNCHANGED <<storeVars, callVars, runs, cut, restarts>>

\* cache.Put
Store(r) ==
    /\ rpc[r] = "put"
    /\ IF r \in cut
       THEN RunTo(r, "failed") /\ UNCHANGED items
       ELSE RunTo(r, "ran") /\ Keep(KeyOf(runs[r]), "good", compiled[r])
    /\ UNCHANGED <<storeVars, callVars, runs, compiled, cut, sinceCut, restarts>>

\* cancel, deadline or shutdown
Interrupt(r) ==
    /\ rpc[r] \in {"get", "compile", "put"}
    /\ cut' = cut \cup {r}
    /\ UNCHANGED <<storeVars, items, callVars, runs, rpc, compiled, sinceCut, restarts>>

-----------------------------------------------------------------------------
Tick ==
    /\ items' = [k \in Key |->
                    IF items[k].kind # "none" /\ items[k].age <= Longest
                    THEN [items[k] EXCEPT !.age = @ + 1]
                    ELSE items[k]]
    /\ sinceCut' = [k \in Key |->
                      IF sinceCut[k] <= FailureLife THEN sinceCut[k] + 1 ELSE sinceCut[k]]
    /\ UNCHANGED <<storeVars, callVars, runVars, restarts>>

\* the process ends, and a new one loads the file with an empty cache
Restart ==
    /\ restarts < MaxRestarts
    /\ restarts' = restarts + 1
    /\ modules' = disk
    /\ items' = [k \in Key |-> NoItem]
    /\ cpc' = [c \in Calls |-> IF cpc[c] \in {"write", "clear"} THEN "lost" ELSE cpc[c]]
    /\ rpc' = [r \in Runs |-> IF rpc[r] \in {"get", "compile", "put"} THEN "lost" ELSE rpc[r]]
    /\ UNCHANGED <<disk, faults, later, what, target, seen, gone, runs, compiled, cut, sinceCut>>

Next ==
    \/ \E c \in Calls, m \in Modules :
          Register(c, m) \/ Read(c, "publish", m) \/ Read(c, "withdraw", m)
    \/ \E c \in Calls : Write(c) \/ Clear(c) \/ Abandon(c)
    \/ \E t \in Tenants : Recalculate(t)
    \/ \E r \in Runs, m \in Modules : Submit(r, m)
    \/ \E r \in Runs : Get(r) \/ Compile(r) \/ Store(r) \/ Interrupt(r)
    \/ Tick
    \/ Restart

Spec == Init /\ [][Next]_vars
-----------------------------------------------------------------------------
TypeOK ==
    /\ modules \in [Modules -> ModuleStates]
    /\ disk \in [Modules -> ModuleStates]
    /\ later \in [Calls -> SUBSET ModuleStates]
    /\ items \in [Key -> [kind : Kinds, code : Compiled \cup {NoCode}, age : 0..Longest + 1]]
    /\ what \in [Calls -> {"none", "register", "publish", "withdraw"}]
    /\ target \in [Calls -> Modules \cup {NoModule}]
    /\ seen \in [Calls -> ModuleStates]
    /\ cpc \in [Calls -> {"new", "write", "clear", "done", "error", "lost"}]
    /\ gone \subseteq Calls
    /\ runs \in [Runs -> Modules \cup {NoModule}]
    /\ rpc \in [Runs -> {"new", "get", "compile", "put", "ran", "failed", "lost"}]
    /\ compiled \in [Runs -> Compiled \cup {NoCode}]
    /\ cut \subseteq Runs
    /\ sinceCut \in [Key -> 0..FailureLife + 1]
    /\ faults \in 0..MaxFaults
    /\ restarts \in 0..MaxRestarts

\* A run that comes to the runtime runs the code of its own module, compiled
\* for its own tenant, also when another tenant has registered the same
\* content, and whatever was put, invalidated or expired in between
\* (README.md:29, execution/application/service.go:134-147).
RunsOwnCode ==
    \A r \in Runs : rpc[r] = "ran" => compiled[r] = CodeOf(runs[r])

Outcome(c) == IF what[c] = "register" THEN "draft" ELSE Result(what[c])

\* What a call acknowledged is in the state file and outlives a crash, whether
\* it registered, published or withdrew: the file has the state it gave its
\* module, or one that another call gave it later, whatever writes fail in
\* between and whichever write takes them to the file
\* (module/application/service.go:30-62, store/memory.go:87-116).
AcknowledgedIsDurable ==
    \A c \in Calls : cpc[c] \in Acknowledged =>
        disk[target[c]] \in {Outcome(c)} \cup later[c]

\* A withdrawn module stays withdrawn, in the file and across restarts, once
\* the calls that read it before it was withdrawn have ended.
WithdrawalIsFinal ==
    [][\A m \in Modules :
          ( /\ modules[m] = "withdrawn"
            /\ disk[m] = "withdrawn"
            /\ ~(\E c \in Calls :
                    target[c] = m /\ cpc[c] = "write" /\ seen[c] # "withdrawn") )
          => modules'[m] = "withdrawn" /\ disk'[m] = "withdrawn"]_vars

\* A cached failure heals: a run whose own context is live, of a module that
\* compiles, fails for what the cache says only within the life of a failure
\* after some run of this tenant and digest was interrupted in its compile
\* (execution/application/service.go:136-141,
\* cache/infrastructure/memory.go:38-49).
FailuresHeal ==
    [][\A r \in Runs :
          (rpc[r] # "failed" /\ rpc'[r] = "failed" /\ r \notin cut
             /\ DigestOf[runs[r]] \in GoodDigests)
          => sinceCut[KeyOf(runs[r])] <= FailureLife]_vars

\* "cannot publish withdrawn module" (module/domain/model.go:104-107): no call
\* brings a withdrawn module back.
WithdrawnStaysWithdrawn ==
    [][\A m \in Modules : modules[m] = "withdrawn" => modules'[m] = "withdrawn"]_vars
=============================================================================
