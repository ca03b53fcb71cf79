----------------------------- MODULE MCSandbox -----------------------------
(* Two executions of one tenant, with a few programs and budgets each. *)
EXTENDS Sandbox, TLC

CONSTANTS x1, x2, t1

MCExecs == {x1, x2}
MCTenantOf == [x \in MCExecs |-> t1]

MCMaxBudget ==
    [instructions |-> 1000, pages |-> 8, stack |-> 8192, timeout |-> 5000, output |-> 10]
MCBudget == [f \in DOMAIN MCMaxBudget |-> 0]
MCProgram ==
    [operation |-> "", cost |-> 0, pages |-> 0, stack |-> 0, delay |-> 0, repeat |-> 0]
MCRequest == [budget |-> MCBudget, program |-> MCProgram, size |-> 4, callback |-> FALSE]

MCRequests == {
    [MCRequest EXCEPT !.callback = TRUE],
    [MCRequest EXCEPT !.program.operation = "sum", !.program.repeat = 2, !.program.delay = 20,
                      !.budget.output = 7],
    [MCRequest EXCEPT !.program.operation = "fail", !.program.cost = 7],
    [MCRequest EXCEPT !.program.cost = 900, !.program.delay = 20, !.budget.instructions = 500],
    [MCRequest EXCEPT !.program.stack = 8000, !.program.operation = "reverse",
                      !.budget.stack = 8000, !.budget.output = -1],
    [MCRequest EXCEPT !.program.operation = "hash", !.budget.output = 11],
    [MCRequest EXCEPT !.program.operation = "upper", !.program.repeat = 600, !.program.delay = 20],
    [MCRequest EXCEPT !.program.operation = "loop"]}

MCSymmetry == Permutations(MCExecs)
=============================================================================
