------------------------------- MODULE Sandbox -------------------------------
(***************************************************************************)
(* What a request may cost and what is told about it: from the limiter in  *)
(* front of the HTTP server, through the budget (Service.Submit), the      *)
(* runtime and the classification of its result (Service.Run), to the      *)
(* meter (src/internal/execution/infrastructure/meter.go) and the callback.*)
(*                                                                         *)
(* The goroutines of one execution are taken together here, one step per   *)
(* stage; how they interleave over the record is in Execution.  What a     *)
(* lease, a cache or a file refuses is a free choice.  A definition marked *)
(* "mistake" is a slip the code does not make, next to the definition it   *)
(* would replace.                                                          *)
(***************************************************************************)
EXTENDS Limiter, Simulator, Webhook, FiniteSets, FiniteSetsExt

CONSTANTS
    Requests,  \* what is asked: [budget, program, size, callback]
    Probes,    \* requests for something else, which only spend tokens
    Tenants,
    TenantOf   \* the tenant of an execution

VARIABLES
    pc,       \* where a request or execution is
    request,  \* what an execution asks for
    budget,   \* the budget in its record
    ctx,      \* the context of its run
    result,   \* what the run got, with the cause of an error
    class,    \* the error class in its record
    stored,   \* history: executions whose outcome was written without error
    meter,    \* of each tenant
    up        \* the process has not panicked

runVars == <<request, budget, ctx, result, class, stored>>
vars == <<limiterVars, delivery, pc, runVars, meter, up>>

SandboxAssumption ==
    /\ \A r \in Requests :
          /\ DOMAIN r = {"budget", "program", "size", "callback"}
          /\ IsBudget(r.budget) /\ IsProgram(r.program)
          /\ r.size \in Nat /\ r.callback \in BOOLEAN
    /\ TenantOf \in [Execs -> Tenants]
    /\ IsFiniteSet(Execs)
    /\ Execs \cap Probes = {}

ASSUME SandboxAssumption

NoBudget == [f \in BudgetFields |-> 0]
NoRequest == [budget |-> NoBudget, size |-> 0, callback |-> FALSE, program |->
    [operation |-> "", cost |-> 0, pages |-> 0, stack |-> 0, delay |-> 0, repeat |-> 0]]
NoUsage == [executions |-> 0, instructions |-> 0, output |-> 0]

Program(x) == Compiled(request[x].program)

Init ==
    /\ LimiterInit /\ WebhookInit
    /\ pc = [x \in Execs \cup Probes |-> "new"]
    /\ request = [x \in Execs |-> NoRequest]
    /\ budget = [x \in Execs |-> NoBudget]
    /\ ctx = [x \in Execs |-> "none"]
    /\ result = [x \in Execs |-> Empty("none")]
    /\ class = [x \in Execs |-> "none"]
    /\ stored = {}
    /\ meter = [t \in Tenants |-> NoUsage]
    /\ up = TRUE

To(x, stage) == pc' = [pc EXCEPT ![x] = stage]

-----------------------------------------------------------------------------
(***************************************************************************)
(* The limiter stands before the authentication, and meets every HTTP      *)
(* request; a stream does not pass it.                                     *)
(***************************************************************************)
Probe(h) ==
    /\ pc[h] = "new"
    /\ \/ Allow /\ To(h, "served")
       \/ Deny /\ To(h, "refused")
    /\ UNCHANGED <<delivery, runVars, meter>>

Arrive(x) ==
    /\ pc[x] = "new"
    /\ \/ /\ Allow \/ UNCHANGED limiterVars
          /\ \E r \in Requests : request' = [request EXCEPT ![x] = r]
          /\ To(x, "asking")
       \/ (Allow \/ Deny) /\ To(x, "refused") /\ UNCHANGED request
    /\ UNCHANGED <<delivery, budget, ctx, result, class, stored, meter>>

\* the checks of Submit
Submit(x) ==
    /\ pc[x] = "asking"
    /\ LET b == Normalize(request[x].budget)
       IN  IF Validate(b)
           THEN To(x, "queued") /\ budget' = [budget EXCEPT ![x] = b]
           ELSE To(x, "refused") /\ UNCHANGED budget
    /\ UNCHANGED <<limiterVars, delivery, request, ctx, result, class, stored, meter>>

-----------------------------------------------------------------------------
(***************************************************************************)
(* Service.Run                                                             *)
(***************************************************************************)
\* fail writes a class of its own; it neither meters nor calls back
Fail(x, cause, c) ==
    /\ result' = [result EXCEPT ![x] = Empty(cause)]
    /\ class' = [class EXCEPT ![x] = c]
    /\ To(x, "done")

\* the module and the lease
Acquire(x) ==
    /\ pc[x] = "queued"
    /\ \/ To(x, "leased") /\ ctx' = [ctx EXCEPT ![x] = "live"] /\ UNCHANGED <<result, class>>
       \/ Fail(x, "unprepared", "invalid") /\ UNCHANGED ctx
       \/ Fail(x, "quota", "resource") /\ UNCHANGED ctx
    /\ UNCHANGED <<limiterVars, delivery, request, budget, stored, meter>>

\* a cancel, or the deadline
Interrupt(x) ==
    /\ ctx[x] = "live" /\ pc[x] \in {"leased", "compiled", "asleep"}
    /\ \E end \in {"canceled", "deadline"} : ctx' = [ctx EXCEPT ![x] = end]
    /\ UNCHANGED <<limiterVars, delivery, pc, request, budget, result, class, stored, meter>>

\* writes running, which leaves the record behind if it fails, see Execution;
\* reads the content, and gets the code from the cache or compiles it
Compile(x) ==
    /\ pc[x] = "leased"
    /\ \/ To(x, "stranded") /\ UNCHANGED <<result, class>>
       \/ ctx[x] # "live" /\ Fail(x, "unprepared", "invalid")
       \/ Fail(x, "unprepared", "runtime")
       \/ ~Compiles(request[x].program) /\ Fail(x, "compile", "runtime")
       \/ /\ Compiles(request[x].program) /\ ctx[x] = "live"
          /\ To(x, "compiled") /\ UNCHANGED <<result, class>>
    /\ UNCHANGED <<limiterVars, delivery, request, budget, ctx, stored, meter>>

Return(x, r) ==
    /\ result' = [result EXCEPT ![x] = r]
    /\ To(x, "returned")
    /\ UNCHANGED up

\* the rest of Execute; nobody recovers a panic of a worker
Compute(x) ==
    \E r \in Computed(Program(x), request[x].size, budget[x]) :
        IF r = Panic THEN up' = FALSE /\ UNCHANGED <<pc, result>> ELSE Return(x, r)

\* mistake: the program sleeps before its limits are compared
ExecuteLazily(x) ==
    /\ pc[x] = "compiled"
    /\ IF Program(x).delay > 0
       THEN To(x, "asleep") /\ UNCHANGED <<result, up>>
       ELSE IF Exceeds(Program(x), budget[x])
            THEN Return(x, Refused(Program(x), budget[x]))
            ELSE Compute(x)
    /\ UNCHANGED <<limiterVars, delivery, request, budget, ctx, class, stored, meter>>

\* Execute up to its select: the limits come first, whatever the context says
Execute(x) ==
    /\ pc[x] = "compiled"
    /\ IF Exceeds(Program(x), budget[x])
       THEN Return(x, Refused(Program(x), budget[x]))
       ELSE IF Program(x).delay > 0
            THEN To(x, "asleep") /\ UNCHANGED <<result, up>>
            ELSE Compute(x)
    /\ UNCHANGED <<limiterVars, delivery, request, budget, ctx, class, stored, meter>>

\* the select: the only place where the runtime looks at the context
Wake(x) ==
    /\ pc[x] = "asleep"
    /\ \/ ctx[x] # "live" /\ Return(x, Empty(ctx[x]))
       \/ Compute(x)
    /\ UNCHANGED <<limiterVars, delivery, request, budget, ctx, class, stored, meter>>

\* the switch on the error of Execute
ClassOf(error) ==
    CASE error = "none" -> "none"
      [] error = "canceled" -> "canceled"
      [] error = "deadline" -> "timeout"
      [] error \in {"instructions", "memory", "stack"} -> "resource"
      [] OTHER -> "runtime"

\* the record is written, or the run ends with the error of the write
Save(x) ==
    /\ pc[x] = "returned"
    /\ class' = [class EXCEPT ![x] = ClassOf(result[x].error)]
    /\ \/ To(x, "saved") /\ stored' = stored \cup {x}
       \/ To(x, "unsaved") /\ UNCHANGED stored
    /\ UNCHANGED <<limiterVars, delivery, request, budget, ctx, result, meter>>

\* MemoryMeter.Record
Record(x) ==
    meter' = [meter EXCEPT ![TenantOf[x]] =
        [executions |-> @.executions + 1, instructions |-> @.instructions + result[x].instructions,
         output |-> @.output + result[x].output]]

\* mistake: the error of the write is dropped
WrittenOrNot(x) == pc[x] \in {"saved", "unsaved"}
Written(x) == pc[x] = "saved"

Report(x) ==
    /\ Written(x)
    /\ Record(x)
    /\ IF request[x].callback THEN BeginDelivery(x) ELSE UNCHANGED delivery
    /\ To(x, "reported")
    /\ UNCHANGED <<limiterVars, runVars>>

Run(x) == Acquire(x) \/ Compile(x) \/ Save(x) \/ Report(x)

-----------------------------------------------------------------------------
Next ==
    /\ up
    /\ \/ /\ \/ \E h \in Probes : Probe(h)
             \/ \E x \in Execs : Arrive(x) \/ Submit(x) \/ Run(x) \/ Interrupt(x)
             \/ \E x \in Execs : Deliver(x) /\ UNCHANGED <<limiterVars, pc, runVars, meter>>
             \/ Tick /\ UNCHANGED <<delivery, pc, runVars, meter>>
          /\ UNCHANGED up
       \/ \E x \in Execs : Execute(x) \/ Wake(x)

Spec == Init /\ [][Next]_vars
-----------------------------------------------------------------------------
Classes == {"none", "invalid", "canceled", "timeout", "resource", "runtime"}
Errors == {"none", "quota", "compile", "unprepared", "instructions", "memory", "stack",
           "canceled", "deadline", "trap", "operation"}

TypeOK ==
    /\ LimiterTypeOK /\ WebhookTypeOK
    /\ pc \in [Execs \cup Probes -> {"new", "refused", "served", "asking", "queued", "leased",
          "stranded", "compiled", "asleep", "returned", "saved", "unsaved", "reported", "done"}]
    /\ request \in [Execs -> Requests \cup {NoRequest}]
    /\ budget \in [Execs -> [BudgetFields -> Int]]
    /\ ctx \in [Execs -> {"none", "live", "canceled", "deadline"}]
    /\ result \in [Execs -> [error : Errors, instructions : Nat, full : Nat, output : Nat,
                             truncated : BOOLEAN]]
    /\ class \in [Execs -> Classes]
    /\ stored \subseteq Execs
    /\ meter \in [Tenants -> [executions : Nat, instructions : Nat, output : Nat]]
    /\ up \in BOOLEAN

\* the run has written its outcome
Settled(x) == pc[x] \in {"saved", "unsaved", "reported", "done"}

\* An execution that succeeds has needed no more than it was granted, was
\* granted what it asked for and no more than the service has, and its output
\* is all the program made unless it is marked as truncated, in which case it
\* fills the limit (model.go:53-88, simulator.go:101-152).
ResultWithinBudget ==
    \A x \in Execs : (Settled(x) /\ class[x] = "none") =>
        /\ ~Exceeds(Program(x), budget[x])
        /\ \A f \in BudgetFields :
              /\ budget[x][f] <= MaxBudget[f]
              /\ budget[x][f] = request[x].budget[f] \/ request[x].budget[f] = 0
        /\ result[x].output <= budget[x].output
        /\ IF result[x].truncated
           THEN result[x].output = budget[x].output
           ELSE result[x].output = result[x].full

\* The class of an outcome tells the causes apart, as README.md:28 says, for
\* runs that reach the runtime: resource exactly if a limit is too small, even if the
\* run was canceled or late as well; canceled and timeout only for programs
\* that sleep, by the end their context really had; runtime only for traps and
\* sums of something else (service.go:157-176, simulator.go:101-145).
ClassMatchesCause ==
    \A x \in Execs :
        (Settled(x) /\ result[x].error \notin {"quota", "compile", "unprepared"}) =>
            /\ class[x] = "resource" <=> Exceeds(Program(x), budget[x])
            /\ class[x] = "canceled" => ctx[x] = "canceled" /\ Program(x).delay > 0
            /\ class[x] = "timeout" => ctx[x] = "deadline" /\ Program(x).delay > 0
            /\ class[x] = "runtime" => Program(x).operation \in {"fail", "sum"}
            /\ Program(x).operation = "fail" => class[x] # "none"

\* While the process lives, the meter of a tenant is the sum of the results of
\* its executions whose outcome was written without error, each counted once,
\* but for those between the write and the meter; a result whose write failed
\* is not metered (service.go:177-182, meter.go:24-39).
MeterIsExact ==
    \A t \in Tenants :
        LET counted == {x \in stored : TenantOf[x] = t /\ pc[x] # "saved"}
        IN  /\ meter[t].executions = Cardinality(counted)
            /\ meter[t].instructions = MapThenSumSet(LAMBDA x : result[x].instructions, counted)
            /\ meter[t].output = MapThenSumSet(LAMBDA x : result[x].output, counted)
=============================================================================
