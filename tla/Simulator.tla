------------------------------ MODULE Simulator ------------------------------
(***************************************************************************)
(* The budget of an execution (Budget in                                   *)
(* src/internal/execution/domain/model.go) and what the simulated runtime  *)
(* computes from program, payload and budget                               *)
(* (src/internal/runtime/infrastructure/simulator.go).                     *)
(*                                                                         *)
(* A payload and an output are their lengths.  The CPU time of a result is *)
(* left out.                                                               *)
(***************************************************************************)
EXTENDS Integers

CONSTANTS
    MaxBudget,  \* the limits of the service, from the configuration
    MaxLength,  \* the longest slice the process can make
    Lengths     \* the lengths that a payload or the text of a sum may have

BudgetFields == {"instructions", "pages", "stack", "timeout", "output"}

\* unsigned but for timeout and output
IsBudget(b) ==
    /\ DOMAIN b = BudgetFields
    /\ \A f \in BudgetFields : b[f] \in Int
    /\ \A f \in {"instructions", "pages", "stack"} : b[f] >= 0

SimulatorAssumption ==
    /\ IsBudget(MaxBudget) /\ \A f \in BudgetFields : MaxBudget[f] > 0
    /\ MaxLength \in Nat
    /\ Lengths \subseteq Nat

ASSUME SimulatorAssumption

Normalize(b) == [f \in BudgetFields |-> IF b[f] = 0 THEN MaxBudget[f] ELSE b[f]]

Validate(b) == \A f \in BudgetFields : b[f] <= MaxBudget[f]

-----------------------------------------------------------------------------
Operations == {"echo", "upper", "sum", "hash", "reverse", "fail"}

IsProgram(p) ==
    /\ DOMAIN p = {"operation", "cost", "pages", "stack", "delay", "repeat"}
    /\ \A f \in {"cost", "pages", "stack"} : p[f] \in Nat
    /\ \A f \in {"delay", "repeat"} : p[f] \in Int

Compiles(p) == p.operation \in Operations \cup {""}

OrElse(n, default) == IF n = 0 THEN default ELSE n

\* Compile
Compiled(p) ==
    [p EXCEPT !.operation = IF @ = "" THEN "echo" ELSE @,
              !.cost = OrElse(@, 100),
              !.pages = OrElse(@, 1),
              !.stack = OrElse(@, 4096),
              !.repeat = IF @ < 1 THEN 1 ELSE @]

-----------------------------------------------------------------------------
\* runtime.Result and the error of Execute; full: history, the length before
\* the cut
Result(error, instructions, full, output) ==
    [error |-> error, instructions |-> instructions, full |-> full,
     output |-> output, truncated |-> output < full]

Empty(error) == Result(error, 0, 0, 0)

\* the limits, in the order they are compared, for a compiled program
Exceeds(p, b) ==
    p.cost > b.instructions \/ p.pages > b.pages \/ p.stack > b.stack
Refused(p, b) ==
    IF p.cost > b.instructions THEN Result("instructions", p.cost, 0, 0)
    ELSE IF p.pages > b.pages THEN Empty("memory") ELSE Empty("stack")

\* the lengths the operation may make of a payload of n bytes.  Outside ASCII
\* upper and reverse may change the length.
LengthsOf(p, n) ==
    CASE p.operation = "echo" -> {n}
      [] p.operation = "hash" -> {64}
      [] p.operation \in {"upper", "reverse"} -> IF n = 0 THEN {0} ELSE Lengths
      [] p.operation = "sum" -> Lengths \ {0}
      [] OTHER -> {}

\* out[:budget.MaxOutputBytes]
CutLate(p, length, limit) ==  \* mistake: cut before the output is repeated
    Result("none", p.cost, length * p.repeat,
           p.repeat * (IF length > limit THEN limit ELSE length))
Cut(p, length, limit) ==
    LET full == length * p.repeat
    IN  Result("none", p.cost, full, IF full > limit THEN limit ELSE full)

\* The worker panics: the repeated output does not fit, or the limit is
\* negative and every output is cut.
\* mistake: cut to less than nothing
PanicsWhenLong(p, length, limit) == length * p.repeat > MaxLength
Panics(p, length, limit) == length * p.repeat > MaxLength \/ limit < 0
Panic == Empty("panic")

\* what may be computed once limits and delay are behind
Computed(p, n, b) ==
    LET lengths == LengthsOf(p, n)
        bad == {k \in lengths : Panics(p, k, b.output)}
    IN  {Cut(p, k, b.output) : k \in lengths \ bad}
        \cup (IF bad = {} THEN {} ELSE {Panic})
        \cup (IF p.operation = "fail" THEN {Result("trap", p.cost, 0, 0)} ELSE {})
        \cup (IF p.operation = "sum" THEN {Empty("operation")} ELSE {})
=============================================================================
