---------------------------- MODULE CatalogProofs ----------------------------
(***************************************************************************)
(* Proofs about Catalog, for any modules, tenants, digests, calls, runs    *)
(* and lives of cache entries.                                             *)
(*                                                                         *)
(* Inv has four parts: Typed, the types and that a call or run past its    *)
(* first step has a module; Filed, that memory and file have what a call   *)
(* acknowledged or what came later; OwnCode, that an entry of the cache and what a run   *)
(* holds is what its key says; and Traced, that a failure of a content     *)
(* that compiles goes back to an interrupted compile no older than itself. *)
(***************************************************************************)
EXTENDS Catalog, TLAPS

Typed ==
    /\ TypeOK
    /\ \A c \in Calls : cpc[c] \in {"write", "clear", "done"} => target[c] \in Modules
    /\ \A c \in Calls : cpc[c] = "write" =>
          what[c] \in {"publish", "withdraw"} /\ Accepts(seen[c], what[c])
    /\ \A r \in Runs : rpc[r] \in {"get", "compile", "put", "ran"} => runs[r] \in Modules

(* What a call acknowledged, or what another call made of it later, is in
   memory, from where the next write takes it to the file, and in the file. *)
Kept(states, c) == states[target[c]] \in {Outcome(c)} \cup later[c]

Filed == \A c \in Calls : cpc[c] \in Acknowledged => Kept(modules, c) /\ Kept(disk, c)

(* An entry holds the code its key names. *)
OwnCode ==
    /\ \A k \in Key : items[k].kind = "good" => items[k].code = [tenant |-> k[1], digest |-> k[2]]
    /\ \A r \in Runs : rpc[r] \in {"put", "ran"} => compiled[r] = CodeOf(runs[r])

(* A failure of a content that compiles is no older than the last interrupted
   compile of its key. *)
Traced ==
    \A k \in Key :
        (items[k].kind = "failure" /\ k[2] \in GoodDigests /\ items[k].age <= FailureLife)
            => sinceCut[k] <= items[k].age

LEMMA KeyTypes ==
    \A m \in Modules :
        /\ TenantOf[m] \in Tenants /\ DigestOf[m] \in Digests
        /\ KeyOf(m) \in Key
        /\ KeyOf(m)[1] = TenantOf[m] /\ KeyOf(m)[2] = DigestOf[m]
        /\ CodeOf(m) \in Compiled
        /\ CodeOf(m) = [tenant |-> KeyOf(m)[1], digest |-> KeyOf(m)[2]]
  BY DEF Tenants, Digests, KeyOf, Key, CodeOf, Compiled

LEMMA LongestType == CatalogAssumption => Longest \in Nat /\ FailureLife \in 0..Longest
  BY DEF CatalogAssumption, Longest

(* An entry that ages stays an entry. *)
LEMMA AgedType ==
    ASSUME CatalogAssumption,
           NEW i \in [kind : Kinds, code : Compiled \cup {NoCode}, age : 0..Longest + 1],
           i.age <= Longest
    PROVE  [i EXCEPT !.age = @ + 1]
              \in [kind : Kinds, code : Compiled \cup {NoCode}, age : 0..Longest + 1]
  BY LongestType

LEMMA PutTypes ==
    ASSUME CatalogAssumption, TypeOK, NEW m \in Modules, NEW s \in ModuleStates,
           NEW ok \in BOOLEAN, Put(m, s, ok)
    PROVE  /\ modules' \in [Modules -> ModuleStates]
           /\ disk' \in [Modules -> ModuleStates]
           /\ later' \in [Calls -> SUBSET ModuleStates]
           /\ faults' \in 0..MaxFaults
  BY DEF Put, TypeOK, CatalogAssumption

(* Each step keeps the types. *)
LEMMA TypedStep ==
    ASSUME CatalogAssumption, Typed, [Next]_vars
    PROVE  Typed'
<1> USE DEF Typed, TypeOK, storeVars, callVars, runVars, NoItem, Kinds
<1>1. ASSUME NEW c \in Calls, NEW m \in Modules, Register(c, m) PROVE Typed'
  <2>1. /\ modules' \in [Modules -> ModuleStates]
        /\ disk' \in [Modules -> ModuleStates]
        /\ later' \in [Calls -> SUBSET ModuleStates]
        /\ faults' \in 0..MaxFaults
    BY <1>1, PutTypes DEF Register, ModuleStates
  <2>2. /\ what' \in [Calls -> {"none", "register", "publish", "withdraw"}]
        /\ target' \in [Calls -> Modules \cup {NoModule}]
        /\ seen' \in [Calls -> ModuleStates]
        /\ cpc' \in [Calls -> {"new", "write", "clear", "done", "error", "lost"}]
        /\ cpc'[c] # "write" /\ target'[c] = m
        /\ \A d \in Calls : d # c => /\ what'[d] = what[d] /\ target'[d] = target[d]
                                     /\ seen'[d] = seen[d] /\ cpc'[d] = cpc[d]
    BY <1>1 DEF Register, Begin, AfterWrite
  <2>3. QED
    BY <1>1, <2>1, <2>2 DEF Register, Begin
<1>2. ASSUME NEW c \in Calls, NEW m \in Modules, Read(c, "publish", m) PROVE Typed'
  BY <1>2 DEF Read, Begin
<1>3. ASSUME NEW c \in Calls, NEW m \in Modules, Read(c, "withdraw", m) PROVE Typed'
  BY <1>3 DEF Read, Begin
<1>4. ASSUME NEW c \in Calls, Write(c) PROVE Typed'
  <2>1. /\ modules' \in [Modules -> ModuleStates]
        /\ disk' \in [Modules -> ModuleStates]
        /\ later' \in [Calls -> SUBSET ModuleStates]
        /\ faults' \in 0..MaxFaults
    BY <1>4, PutTypes DEF Write, ModuleStates, Result
  <2>2. QED
    BY <1>4, <2>1 DEF Write, AfterWrite
<1>5. ASSUME NEW c \in Calls, Clear(c) PROVE Typed'
  BY <1>5, LongestType DEF Clear, Invalidate
<1>6. ASSUME NEW c \in Calls, Abandon(c) PROVE Typed'
  BY <1>6 DEF Abandon
<1>7. ASSUME NEW t \in Tenants, Recalculate(t) PROVE Typed'
  BY <1>7, LongestType DEF Recalculate, Invalidate
<1>8. ASSUME NEW r \in Runs, NEW m \in Modules, Submit(r, m) PROVE Typed'
  BY <1>8 DEF Submit, RunTo
<1>9. ASSUME NEW r \in Runs, Get(r) PROVE Typed'
  <2>1. runs[r] \in Modules /\ KeyOf(runs[r]) \in Key
    BY <1>9, KeyTypes DEF Get
  <2>2. items' \in [Key -> [kind : Kinds, code : Compiled \cup {NoCode}, age : 0..Longest + 1]]
    BY <1>9, <2>1, LongestType DEF Get
  <2>3. compiled' \in [Runs -> Compiled \cup {NoCode}]
    <3>1. items[KeyOf(runs[r])].code \in Compiled \cup {NoCode}
      BY <2>1
    <3>2. QED
      BY <1>9, <3>1 DEF Get
  <2>4. rpc' \in [Runs -> {"new", "get", "compile", "put", "ran", "failed", "lost"}]
        /\ \A q \in Runs : q # r => rpc'[q] = rpc[q]
    BY <1>9 DEF Get, RunTo
  <2>5. QED
    BY <1>9, <2>1, <2>2, <2>3, <2>4 DEF Get
<1>10. ASSUME NEW r \in Runs, Compile(r) PROVE Typed'
  <2>1. runs[r] \in Modules /\ KeyOf(runs[r]) \in Key /\ CodeOf(runs[r]) \in Compiled
    BY <1>10, KeyTypes DEF Compile
  <2>2. items' \in [Key -> [kind : Kinds, code : Compiled \cup {NoCode}, age : 0..Longest + 1]]
    BY <1>10, <2>1, LongestType DEF Compile, Keep
  <2>3. sinceCut' \in [Key -> 0..FailureLife + 1]
    BY <1>10, <2>1, LongestType DEF Compile
  <2>4. QED
    BY <1>10, <2>1, <2>2, <2>3 DEF Compile, RunTo
<1>11. ASSUME NEW r \in Runs, Store(r) PROVE Typed'
  <2>1. runs[r] \in Modules /\ KeyOf(runs[r]) \in Key
    BY <1>11, KeyTypes DEF Store
  <2>2. items' \in [Key -> [kind : Kinds, code : Compiled \cup {NoCode}, age : 0..Longest + 1]]
    BY <1>11, <2>1, LongestType DEF Store, Keep
  <2>3. QED
    BY <1>11, <2>1, <2>2 DEF Store, RunTo
<1>12. ASSUME NEW r \in Runs, Interrupt(r) PROVE Typed'
  BY <1>12 DEF Interrupt
<1>13. CASE Tick
  <2>1. items' \in [Key -> [kind : Kinds, code : Compiled \cup {NoCode}, age : 0..Longest + 1]]
    <3>1. ASSUME NEW k \in Key
          PROVE (IF items[k].kind # "none" /\ items[k].age <= Longest
                 THEN [items[k] EXCEPT !.age = @ + 1]
                 ELSE items[k])
                   \in [kind : Kinds, code : Compiled \cup {NoCode}, age : 0..Longest + 1]
      BY <3>1, AgedType
    <3>2. QED
      BY <1>13, <3>1 DEF Tick
  <2>2. sinceCut' \in [Key -> 0..FailureLife + 1]
    BY <1>13, LongestType DEF Tick
  <2>3. QED
    BY <1>13, <2>1, <2>2 DEF Tick
<1>14. CASE Restart
  BY <1>14, LongestType DEF Restart, CatalogAssumption
<1>15. CASE UNCHANGED vars
  BY <1>15 DEF vars
<1> HIDE DEF Typed, TypeOK, storeVars, callVars, runVars, NoItem, Kinds
<1>16. QED
  BY <1>1, <1>2, <1>3, <1>4, <1>5, <1>6, <1>7, <1>8,
     <1>9, <1>10, <1>11, <1>12, <1>13, <1>14, <1>15 DEF Next

(* A write keeps for the calls acknowledged before what they have, and gives
   the call that makes it, if it has no error, what that call acknowledges. *)
LEMMA PutKeeps ==
    ASSUME CatalogAssumption, Typed, Filed, NEW m \in Modules, NEW s \in ModuleStates,
           NEW ok \in BOOLEAN, Put(m, s, ok)
    PROVE  /\ \A c \in Calls : cpc[c] \in Acknowledged =>
                 /\ modules'[target[c]] \in {Outcome(c)} \cup later'[c]
                 /\ disk'[target[c]] \in {Outcome(c)} \cup later'[c]
           /\ modules'[m] = s
           /\ ok => disk'[m] = s
<1>1. modules' = [modules EXCEPT ![m] = s] /\ (disk' = modules' \/ disk' = disk)
  BY DEF Put
<1>2. modules'[m] = s /\ (ok => disk'[m] = s)
  BY <1>1 DEF Put, Typed, TypeOK
<1>3. ASSUME NEW c \in Calls, cpc[c] \in Acknowledged
      PROVE  /\ modules'[target[c]] \in {Outcome(c)} \cup later'[c]
             /\ disk'[target[c]] \in {Outcome(c)} \cup later'[c]
  <2>1. target[c] \in Modules
    BY <1>3 DEF Typed, Acknowledged
  <2>2. later[c] \subseteq later'[c] /\ (target[c] = m => s \in later'[c])
    BY <1>3 DEF Put
  <2>3. modules'[target[c]] \in {s, modules[target[c]]} /\ (target[c] # m =>
           modules'[target[c]] = modules[target[c]])
    BY <1>1, <2>1 DEF Typed, TypeOK
  <2>4. modules'[target[c]] \in {Outcome(c)} \cup later'[c]
    BY <1>3, <2>2, <2>3 DEF Filed, Kept
  <2>5. QED
    BY <1>1, <1>3, <2>2, <2>4 DEF Filed, Kept
<1>4. QED
  BY <1>2, <1>3

(* A step that writes nothing and acknowledges nothing new keeps Filed. *)
LEMMA FiledSame ==
    ASSUME Filed, UNCHANGED <<modules, disk, later, target, what>>,
           \A c \in Calls : cpc'[c] \in Acknowledged => cpc[c] \in Acknowledged
    PROVE  Filed'
  BY DEF Filed, Kept, Outcome

(* Each step keeps what was acknowledged. *)
LEMMA FiledStep ==
    ASSUME CatalogAssumption, Typed, Filed, [Next]_vars
    PROVE  Filed'
<1> USE DEF storeVars, callVars, runVars
<1>1. ASSUME NEW c \in Calls, NEW m \in Modules, Register(c, m) PROVE Filed'
  <2>1. PICK ok \in BOOLEAN : Put(m, "draft", ok)
                             /\ Begin(c, "register", m, AfterWrite(ok, "done"))
    BY <1>1 DEF Register
  <2>2. \A d \in Calls : d # c => what'[d] = what[d] /\ target'[d] = target[d] /\ cpc'[d] = cpc[d]
    BY <2>1 DEF Begin, Typed, TypeOK
  <2>3. what'[c] = "register" /\ target'[c] = m /\ (cpc'[c] \in Acknowledged => ok)
    BY <2>1 DEF Begin, AfterWrite, Acknowledged, Typed, TypeOK
  <2>4. /\ \A d \in Calls : cpc[d] \in Acknowledged =>
              /\ modules'[target[d]] \in {Outcome(d)} \cup later'[d]
              /\ disk'[target[d]] \in {Outcome(d)} \cup later'[d]
        /\ modules'[m] = "draft"
        /\ ok => disk'[m] = "draft"
    BY <2>1, PutKeeps DEF ModuleStates
  <2>5. QED
    BY <2>2, <2>3, <2>4 DEF Filed, Kept, Outcome
<1>2. ASSUME NEW c \in Calls, NEW m \in Modules, NEW kind, Read(c, kind, m) PROVE Filed'
  <2>1. \A d \in Calls : d # c => what'[d] = what[d] /\ target'[d] = target[d] /\ cpc'[d] = cpc[d]
    BY <1>2 DEF Read, Begin, Typed, TypeOK
  <2>2. cpc'[c] \notin Acknowledged /\ UNCHANGED <<modules, disk, later>>
    BY <1>2 DEF Read, Begin, Acknowledged, Typed, TypeOK
  <2>3. QED
    BY <2>1, <2>2 DEF Filed, Kept, Outcome
<1>3. ASSUME NEW c \in Calls, Write(c) PROVE Filed'
  <2>1. UNCHANGED <<what, target>> /\ \A d \in Calls : d # c => cpc'[d] = cpc[d]
    BY <1>3 DEF Write, Typed, TypeOK
  <2>2. target[c] \in Modules /\ what[c] \in {"publish", "withdraw"}
    BY <1>3 DEF Write, Typed
  <2>3. CASE c \in gone
    BY <1>3, <2>3, FiledSame DEF Write, Acknowledged, Typed, TypeOK
  <2>4. ASSUME NEW ok \in BOOLEAN, Put(target[c], Result(what[c]), ok),
               cpc'[c] \in Acknowledged => ok
        PROVE  Filed'
    <3>1. /\ \A d \in Calls : cpc[d] \in Acknowledged =>
                /\ modules'[target[d]] \in {Outcome(d)} \cup later'[d]
                /\ disk'[target[d]] \in {Outcome(d)} \cup later'[d]
          /\ modules'[target[c]] = Result(what[c])
          /\ ok => disk'[target[c]] = Result(what[c])
      BY <2>2, <2>4, PutKeeps DEF Result, ModuleStates
    <3>2. Outcome(c) = Result(what[c])
      BY <2>2 DEF Outcome
    <3>3. QED
      BY <2>1, <2>4, <3>1, <3>2 DEF Filed, Kept, Outcome
  <2>5. ASSUME NEW ok \in BOOLEAN,
               cpc' = [cpc EXCEPT ![c] =
                         AfterWrite(ok, IF what[c] = "withdraw" THEN "clear" ELSE "done")]
        PROVE  cpc'[c] \in Acknowledged => ok
    BY <2>5 DEF AfterWrite, Acknowledged, Typed, TypeOK
  <2>6. QED
    BY <1>3, <2>3, <2>4, <2>5 DEF Write
<1>4. ASSUME NEW c \in Calls, Clear(c) PROVE Filed'
  BY <1>4, FiledSame DEF Clear, Acknowledged
<1>5. ASSUME NEW c \in Calls, Abandon(c) PROVE Filed'
  BY <1>5, FiledSame DEF Abandon
<1>6. ASSUME NEW t \in Tenants, Recalculate(t) PROVE Filed'
  BY <1>6, FiledSame DEF Recalculate
<1>7. ASSUME NEW r \in Runs, NEW m \in Modules, Submit(r, m) PROVE Filed'
  BY <1>7, FiledSame DEF Submit
<1>8. ASSUME NEW r \in Runs, Get(r) \/ Compile(r) \/ Store(r) \/ Interrupt(r) PROVE Filed'
  BY <1>8, FiledSame DEF Get, Compile, Store, Interrupt
<1>9. CASE Tick
  BY <1>9, FiledSame DEF Tick
<1>10. CASE Restart
  <2>1. \A c \in Calls : cpc'[c] \in Acknowledged => cpc[c] \in Acknowledged
    BY <1>10 DEF Restart, Acknowledged
  <2>2. QED
    BY <1>10, <2>1 DEF Restart, Filed, Kept, Outcome
<1>11. CASE UNCHANGED vars
  BY <1>11, FiledSame DEF vars
<1>12. QED
  BY <1>1, <1>2, <1>3, <1>4, <1>5, <1>6, <1>7, <1>8, <1>9, <1>10, <1>11 DEF Next

(* Keep replaces one entry. *)
LEMMA KeepSets ==
    ASSUME TypeOK, NEW key \in Key, NEW kind, NEW code, Keep(key, kind, code)
    PROVE  /\ items'[key].code = code
           /\ \A k \in Key : k # key => items'[k] = items[k]
  BY DEF Keep, TypeOK

(* Each step keeps the code of the entries and of the runs. *)
LEMMA OwnCodeStep ==
    ASSUME CatalogAssumption, Typed, OwnCode, [Next]_vars
    PROVE  OwnCode'
<1> USE DEF Typed, TypeOK, OwnCode, storeVars, callVars, runVars, NoItem
<1>1. ASSUME NEW c \in Calls, NEW m \in Modules, Register(c, m) PROVE OwnCode'
  BY <1>1 DEF Register, Begin, AfterWrite
<1>2. ASSUME NEW c \in Calls, NEW m \in Modules, Read(c, "publish", m) PROVE OwnCode'
  BY <1>2 DEF Read, Begin, Accepts
<1>3. ASSUME NEW c \in Calls, NEW m \in Modules, Read(c, "withdraw", m) PROVE OwnCode'
  BY <1>3 DEF Read, Begin, Accepts
<1>4. ASSUME NEW c \in Calls, Write(c) PROVE OwnCode'
  BY <1>4 DEF Write, AfterWrite, Result
<1>5. ASSUME NEW c \in Calls, Clear(c) PROVE OwnCode'
  BY <1>5 DEF Clear, Invalidate
<1>6. ASSUME NEW c \in Calls, Abandon(c) PROVE OwnCode'
  BY <1>6 DEF Abandon
<1>7. ASSUME NEW t \in Tenants, Recalculate(t) PROVE OwnCode'
  BY <1>7 DEF Recalculate, Invalidate
<1>8. ASSUME NEW r \in Runs, NEW m \in Modules, Submit(r, m) PROVE OwnCode'
  BY <1>8 DEF Submit, RunTo
<1>9. ASSUME NEW r \in Runs, Get(r) PROVE OwnCode'
  <2>1. runs[r] \in Modules /\ KeyOf(runs[r]) \in Key
        /\ CodeOf(runs[r]) = [tenant |-> KeyOf(runs[r])[1], digest |-> KeyOf(runs[r])[2]]
    BY <1>9, KeyTypes DEF Get
  <2>2. QED
    BY <1>9, <2>1 DEF Get, RunTo
<1>10. ASSUME NEW r \in Runs, Compile(r) PROVE OwnCode'
  <2>1. runs[r] \in Modules /\ KeyOf(runs[r]) \in Key
    BY <1>10, KeyTypes DEF Compile
  <2>2. \A k \in Key : items'[k] = items[k] \/ items'[k].kind = "failure"
    BY <1>10, <2>1 DEF Compile, Keep
  <2>3. \A q \in Runs : rpc'[q] \in {"put", "ran"} => compiled'[q] = CodeOf(runs[q])
    BY <1>10 DEF Compile, RunTo
  <2>4. UNCHANGED runs
    BY <1>10 DEF Compile
  <2>5. \A k \in Key : items'[k].kind = "good" =>
                          items'[k].code = [tenant |-> k[1], digest |-> k[2]]
    BY <2>2, Zenon
  <2>6. \A q \in Runs : CodeOf(runs[q])' = CodeOf(runs[q])
    BY <2>4 DEF CodeOf
  <2>7. QED
    BY <2>3, <2>5, <2>6, Zenon
<1>11. ASSUME NEW r \in Runs, Store(r) PROVE OwnCode'
  <2>1. runs[r] \in Modules /\ KeyOf(runs[r]) \in Key
        /\ CodeOf(runs[r]) = [tenant |-> KeyOf(runs[r])[1], digest |-> KeyOf(runs[r])[2]]
    BY <1>11, KeyTypes DEF Store
  <2>2. compiled[r] = CodeOf(runs[r])
    BY <1>11 DEF Store
  <2>3. \A k \in Key : \/ items'[k] = items[k]
                       \/ items'[k].code = [tenant |-> k[1], digest |-> k[2]]
    <3>1. CASE r \in cut
      BY <1>11, <3>1 DEF Store
    <3>2. CASE r \notin cut
      <4>1. Keep(KeyOf(runs[r]), "good", compiled[r])
        BY <1>11, <3>2 DEF Store
      <4>2. items'[KeyOf(runs[r])].code = CodeOf(runs[r])
        BY <2>1, <2>2, <4>1, KeepSets
      <4>3. \A k \in Key : k # KeyOf(runs[r]) => items'[k] = items[k]
        BY <2>1, <4>1, KeepSets
      <4>4. QED
        BY <2>1, <4>2, <4>3
    <3>3. QED
      BY <3>1, <3>2
  <2>4. \A q \in Runs : rpc'[q] \in {"put", "ran"} => rpc[q] \in {"put", "ran"}
    BY <1>11 DEF Store, RunTo
  <2>5. \A k \in Key : items'[k].kind = "good" =>
                          items'[k].code = [tenant |-> k[1], digest |-> k[2]]
    BY <2>3
  <2>6. \A q \in Runs : rpc'[q] \in {"put", "ran"} => compiled'[q] = CodeOf(runs'[q])
    BY <1>11, <2>4 DEF Store, CodeOf
  <2>7. QED
    BY <2>5, <2>6
<1>12. ASSUME NEW r \in Runs, Interrupt(r) PROVE OwnCode'
  BY <1>12 DEF Interrupt
<1>13. CASE Tick
  BY <1>13 DEF Tick
<1>14. CASE Restart
  BY <1>14 DEF Restart
<1>15. CASE UNCHANGED vars
  BY <1>15 DEF vars
<1> HIDE DEF Typed, TypeOK, OwnCode, storeVars, callVars, runVars, NoItem
<1>16. QED
  BY <1>1, <1>2, <1>3, <1>4, <1>5, <1>6, <1>7, <1>8,
     <1>9, <1>10, <1>11, <1>12, <1>13, <1>14, <1>15 DEF Next

(* Each step keeps the trace of failures. *)
LEMMA TracedStep ==
    ASSUME CatalogAssumption, Typed, Traced, [Next]_vars
    PROVE  Traced'
<1> USE DEF Typed, TypeOK, Traced, storeVars, callVars, runVars, NoItem
<1>1. ASSUME NEW c \in Calls, NEW m \in Modules, Register(c, m) PROVE Traced'
  BY <1>1 DEF Register, Begin, AfterWrite
<1>2. ASSUME NEW c \in Calls, NEW m \in Modules, Read(c, "publish", m) PROVE Traced'
  BY <1>2 DEF Read, Begin, Accepts
<1>3. ASSUME NEW c \in Calls, NEW m \in Modules, Read(c, "withdraw", m) PROVE Traced'
  BY <1>3 DEF Read, Begin, Accepts
<1>4. ASSUME NEW c \in Calls, Write(c) PROVE Traced'
  BY <1>4 DEF Write, AfterWrite, Result
<1>5. ASSUME NEW c \in Calls, Clear(c) PROVE Traced'
  BY <1>5 DEF Clear, Invalidate
<1>6. ASSUME NEW c \in Calls, Abandon(c) PROVE Traced'
  BY <1>6 DEF Abandon
<1>7. ASSUME NEW t \in Tenants, Recalculate(t) PROVE Traced'
  BY <1>7 DEF Recalculate, Invalidate
<1>8. ASSUME NEW r \in Runs, NEW m \in Modules, Submit(r, m) PROVE Traced'
  BY <1>8 DEF Submit, RunTo
<1>9. ASSUME NEW r \in Runs, Get(r) PROVE Traced'
  <2>1. runs[r] \in Modules /\ KeyOf(runs[r]) \in Key
    BY <1>9, KeyTypes DEF Get
  <2>2. QED
    BY <1>9, <2>1 DEF Get
<1>10. ASSUME NEW r \in Runs, Compile(r) PROVE Traced'
  <2>1. /\ runs[r] \in Modules /\ KeyOf(runs[r]) \in Key
        /\ KeyOf(runs[r])[2] = DigestOf[runs[r]]
    BY <1>10, KeyTypes DEF Compile
  <2>2. QED
    BY <1>10, <2>1 DEF Compile, Keep
<1>11. ASSUME NEW r \in Runs, Store(r) PROVE Traced'
  <2>1. runs[r] \in Modules /\ KeyOf(runs[r]) \in Key
    BY <1>11, KeyTypes DEF Store
  <2>2. \A k \in Key : items'[k] = items[k] \/ items'[k].kind = "good"
    BY <1>11, <2>1 DEF Store, Keep
  <2>3. sinceCut' = sinceCut
    BY <1>11 DEF Store
  <2>4. QED
    BY <2>2, <2>3
<1>12. ASSUME NEW r \in Runs, Interrupt(r) PROVE Traced'
  BY <1>12 DEF Interrupt
<1>13. CASE Tick
  <2>1. SUFFICES ASSUME NEW k \in Key, items'[k].kind = "failure", k[2] \in GoodDigests,
                        items'[k].age <= FailureLife
                 PROVE  sinceCut'[k] <= items'[k].age
    BY DEF Traced
  <2>2. /\ items[k].kind = "failure"
        /\ items[k].age <= Longest => items'[k].age = items[k].age + 1
        /\ ~(items[k].age <= Longest) => items'[k].age = items[k].age
    BY <1>13, <2>1 DEF Tick
  <2>3. items[k].age \in 0..Longest + 1 /\ sinceCut[k] \in 0..FailureLife + 1
    OBVIOUS
  <2>4. items[k].age <= Longest /\ items[k].age + 1 <= FailureLife
    BY <2>1, <2>2, <2>3, LongestType
  <2>5. sinceCut[k] <= items[k].age
    BY <2>1, <2>2, <2>3, <2>4, LongestType
  <2>6. sinceCut'[k] = sinceCut[k] + 1
    BY <1>13, <2>3, <2>4, <2>5, LongestType DEF Tick
  <2>7. QED
    BY <2>2, <2>4, <2>5, <2>6, <2>3
<1>14. CASE Restart
  BY <1>14 DEF Restart
<1>15. CASE UNCHANGED vars
  BY <1>15 DEF vars
<1> HIDE DEF Typed, TypeOK, Traced, storeVars, callVars, runVars, NoItem
<1>16. QED
  BY <1>1, <1>2, <1>3, <1>4, <1>5, <1>6, <1>7, <1>8,
     <1>9, <1>10, <1>11, <1>12, <1>13, <1>14, <1>15 DEF Next

-----------------------------------------------------------------------------
Inv == Typed /\ Filed /\ OwnCode /\ Traced

LEMMA InvInit == CatalogAssumption /\ Init => Inv
<1> SUFFICES ASSUME CatalogAssumption, Init PROVE Inv
  OBVIOUS
<1> USE DEF Init
<1>1. Typed
  BY LongestType DEF Typed, TypeOK, NoItem, Kinds, ModuleStates, CatalogAssumption
<1>2. Filed
  BY DEF Filed, Acknowledged
<1>3. OwnCode
  BY DEF OwnCode, NoItem
<1>4. Traced
  BY DEF Traced, NoItem
<1>5. QED
  BY <1>1, <1>2, <1>3, <1>4 DEF Inv

LEMMA InvHolds == Spec => []Inv
<1>1. Init => Inv
  BY CatalogAssumption, InvInit
<1>2. Inv /\ [Next]_vars => Inv'
  BY CatalogAssumption, TypedStep, FiledStep, OwnCodeStep, TracedStep DEF Inv
<1>3. QED
  BY <1>1, <1>2, PTL DEF Spec

(* The types hold; a run that comes to the runtime runs the code of its own
   module and tenant; and what a call acknowledged, be it a withdrawal, or what
   another call made of the module later, is in the state file. *)
THEOREM CatalogIsSafe == Spec => [](TypeOK /\ RunsOwnCode /\ AcknowledgedIsDurable)
<1>1. Inv => TypeOK /\ RunsOwnCode /\ AcknowledgedIsDurable
  BY DEF Inv, Typed, Filed, Kept, AcknowledgedIsDurable, OwnCode, RunsOwnCode
<1>2. QED
  BY <1>1, InvHolds, PTL

-----------------------------------------------------------------------------
(* m is withdrawn in memory and in the file, and no call works on a copy it
   read before. *)
OutOfService(m) ==
    /\ modules[m] = "withdrawn"
    /\ disk[m] = "withdrawn"
    /\ ~(\E c \in Calls : target[c] = m /\ cpc[c] = "write" /\ seen[c] # "withdrawn")

LEMMA OutOfServiceStep ==
    ASSUME Typed, NEW x \in Modules, OutOfService(x), [Next]_vars
    PROVE  modules'[x] = "withdrawn" /\ disk'[x] = "withdrawn"
<1> DEFINE Stays == modules'[x] = "withdrawn" /\ disk'[x] = "withdrawn"
<1> USE DEF Typed, TypeOK, OutOfService, storeVars, callVars, runVars
<1>1. ASSUME NEW c \in Calls, NEW m \in Modules, Register(c, m) PROVE Stays
  BY <1>1 DEF Register, Put
<1>2. ASSUME NEW c \in Calls, NEW m \in Modules, Read(c, "publish", m) PROVE Stays
  BY <1>2 DEF Read
<1>3. ASSUME NEW c \in Calls, NEW m \in Modules, Read(c, "withdraw", m) PROVE Stays
  BY <1>3 DEF Read
<1>4. ASSUME NEW c \in Calls, Write(c) PROVE Stays
  BY <1>4 DEF Write, Put, Accepts
<1>5. ASSUME NEW c \in Calls, Clear(c) PROVE Stays
  BY <1>5 DEF Clear
<1>6. ASSUME NEW c \in Calls, Abandon(c) PROVE Stays
  BY <1>6 DEF Abandon
<1>7. ASSUME NEW t \in Tenants, Recalculate(t) PROVE Stays
  BY <1>7 DEF Recalculate
<1>8. ASSUME NEW r \in Runs, NEW m \in Modules, Submit(r, m) PROVE Stays
  BY <1>8 DEF Submit
<1>9. ASSUME NEW r \in Runs, Get(r) PROVE Stays
  BY <1>9 DEF Get
<1>10. ASSUME NEW r \in Runs, Compile(r) PROVE Stays
  BY <1>10 DEF Compile
<1>11. ASSUME NEW r \in Runs, Store(r) PROVE Stays
  BY <1>11 DEF Store
<1>12. ASSUME NEW r \in Runs, Interrupt(r) PROVE Stays
  BY <1>12 DEF Interrupt
<1>13. CASE Tick
  BY <1>13 DEF Tick
<1>14. CASE Restart
  BY <1>14 DEF Restart
<1>15. CASE UNCHANGED vars
  BY <1>15 DEF vars
<1> HIDE DEF Typed, TypeOK, OutOfService, storeVars, callVars, runVars
<1>16. QED
  BY <1>1, <1>2, <1>3, <1>4, <1>5, <1>6, <1>7, <1>8,
     <1>9, <1>10, <1>11, <1>12, <1>13, <1>14, <1>15 DEF Next

(* A withdrawn module stays withdrawn once the calls that read it before have
   ended. *)
THEOREM WithdrawnForGood == Spec => WithdrawalIsFinal
<1>1. ASSUME Inv, [Next]_vars
      PROVE  [\A m \in Modules : OutOfService(m) =>
                modules'[m] = "withdrawn" /\ disk'[m] = "withdrawn"]_vars
  BY <1>1, OutOfServiceStep DEF Inv
<1>2. [\A m \in Modules : OutOfService(m) =>
                modules'[m] = "withdrawn" /\ disk'[m] = "withdrawn"]_vars
      => [\A m \in Modules :
          ( /\ modules[m] = "withdrawn"
            /\ disk[m] = "withdrawn"
            /\ ~(\E c \in Calls :
                    target[c] = m /\ cpc[c] = "write" /\ seen[c] # "withdrawn") )
          => modules'[m] = "withdrawn" /\ disk'[m] = "withdrawn"]_vars
  BY DEF OutOfService
<1>3. QED
  BY <1>1, <1>2, InvHolds, PTL DEF Spec, WithdrawalIsFinal

(* A run whose own context is live fails with a content that compiles only
   after a compile of this content was interrupted. *)
OthersFault(r) ==
    (rpc[r] # "failed" /\ rpc'[r] = "failed" /\ r \notin cut /\ DigestOf[runs[r]] \in GoodDigests)
        => sinceCut[KeyOf(runs[r])] <= FailureLife

LEMMA OthersFaultStep ==
    ASSUME CatalogAssumption, Typed, Traced, NEW x \in Runs, [Next]_vars
    PROVE  OthersFault(x)
<1> USE DEF Typed, TypeOK, OthersFault, storeVars, callVars, runVars
<1>1. ASSUME NEW c \in Calls, NEW m \in Modules, Register(c, m) PROVE OthersFault(x)
  BY <1>1 DEF Register, Begin
<1>2. ASSUME NEW c \in Calls, NEW m \in Modules, Read(c, "publish", m) PROVE OthersFault(x)
  BY <1>2 DEF Read, Begin
<1>3. ASSUME NEW c \in Calls, NEW m \in Modules, Read(c, "withdraw", m) PROVE OthersFault(x)
  BY <1>3 DEF Read, Begin
<1>4. ASSUME NEW c \in Calls, Write(c) PROVE OthersFault(x)
  BY <1>4 DEF Write
<1>5. ASSUME NEW c \in Calls, Clear(c) PROVE OthersFault(x)
  BY <1>5 DEF Clear
<1>6. ASSUME NEW c \in Calls, Abandon(c) PROVE OthersFault(x)
  BY <1>6 DEF Abandon
<1>7. ASSUME NEW t \in Tenants, Recalculate(t) PROVE OthersFault(x)
  BY <1>7 DEF Recalculate
<1>8. ASSUME NEW r \in Runs, NEW m \in Modules, Submit(r, m) PROVE OthersFault(x)
  BY <1>8 DEF Submit, RunTo
<1>9. ASSUME NEW r \in Runs, Get(r) PROVE OthersFault(x)
  <2>1. CASE x = r
    <3>1. /\ runs[r] \in Modules /\ KeyOf(runs[r]) \in Key
          /\ KeyOf(runs[r])[2] = DigestOf[runs[r]]
      BY <1>9, KeyTypes DEF Get
    <3>2. ASSUME rpc'[r] = "failed", r \notin cut
          PROVE  Hit(KeyOf(runs[r])) /\ items[KeyOf(runs[r])].kind = "failure"
      BY <1>9, <3>1, <3>2 DEF Get, RunTo, Hit, Kinds
    <3>3. QED
      BY <2>1, <3>1, <3>2 DEF Hit, LifeOf, Traced, CatalogAssumption
  <2>2. CASE x # r
    BY <1>9, <2>2 DEF Get, RunTo
  <2>3. QED
    BY <2>1, <2>2
<1>10. ASSUME NEW r \in Runs, Compile(r) PROVE OthersFault(x)
  BY <1>10 DEF Compile, RunTo
<1>11. ASSUME NEW r \in Runs, Store(r) PROVE OthersFault(x)
  BY <1>11 DEF Store, RunTo
<1>12. ASSUME NEW r \in Runs, Interrupt(r) PROVE OthersFault(x)
  BY <1>12 DEF Interrupt
<1>13. CASE Tick
  BY <1>13 DEF Tick
<1>14. CASE Restart
  BY <1>14 DEF Restart
<1>15. CASE UNCHANGED vars
  BY <1>15 DEF vars
<1> HIDE DEF Typed, TypeOK, OthersFault, storeVars, callVars, runVars
<1>16. QED
  BY <1>1, <1>2, <1>3, <1>4, <1>5, <1>6, <1>7, <1>8,
     <1>9, <1>10, <1>11, <1>12, <1>13, <1>14, <1>15 DEF Next

(* What the cache keeps of an interrupted compile is over after its life. *)
THEOREM FailuresPass == Spec => FailuresHeal
<1>1. ASSUME CatalogAssumption, Inv, [Next]_vars
      PROVE  [\A r \in Runs : OthersFault(r)]_vars
  BY <1>1, OthersFaultStep DEF Inv
<1>2. [\A r \in Runs : OthersFault(r)]_vars =>
          [\A r \in Runs :
             (rpc[r] # "failed" /\ rpc'[r] = "failed" /\ r \notin cut
                /\ DigestOf[runs[r]] \in GoodDigests)
             => sinceCut[KeyOf(runs[r])] <= FailureLife]_vars
  BY DEF OthersFault
<1>3. QED
  BY CatalogAssumption, <1>1, <1>2, InvHolds, PTL DEF Spec, FailuresHeal
=============================================================================
