------------------------------ MODULE LoopRun ------------------------------
(***************************************************************************)
(* A program with loops whose bounds the verifier has proved, running on   *)
(* the machine: the run counts what the bounds are about.  The registers   *)
(* start anywhere in the ranges the verifier saw, and nothing writes a     *)
(* counter before its loop, so those ranges are also the snapshots that    *)
(* enforce_loop_bounds reads.                                              *)
(***************************************************************************)
EXTENDS Alu, LoopBound

CONSTANTS
    Codes,       \* the programs
    Entries,     \* register ranges at the entry: functions from registers
    MaxLoopSteps, \* VerifyConfig::max_loop_steps
    NoState,     \* None: a block that is never reached
    OnlyPrecise  \* leave out the loops the verifier counts wrongly

VARIABLES
    code, pc, regs,
    limits,  \* loop -> [trips, steps] of its LoopBound
    trips,   \* loop -> executions of its latch since the loop was entered
    inside,  \* loop -> instructions executed in it since then; both count up to their limit
    ran      \* instructions executed so far, up to Budget

vars == <<code, pc, regs, limits, trips, inside, ran>>

\* One loop's worth of the budget and the instructions outside of it.
Budget == MaxLoopSteps + Len(code)

Snapshots(c, entry) ==
    [b \in Leaders(c) |-> IF b \in Closure(Graph(c), {1}, {}) THEN entry ELSE NoState]

-----------------------------------------------------------------------------
(***************************************************************************)
(* Where a count may fall short of the machine, and everything outside.    *)
(***************************************************************************)

\* The snapshot is taken before the stride, the first test comes after it.
TestsAfterStride(c, l) ==
    \/ CondBlock(c, l) = l.latch
    \/ BlockOfPc(c, StrideSite(c, l, Cond(c, l).dst)) = l.header

\* One way out of the test leaves the loop.
HasExit(c, l) == ~ (Successors(c, CondBlock(c, l)) \subseteq l.body)

\* The loop is entered once, or its counter is past the bound ever after.
EnteredOnce(loops, l) == \A m \in loops : m # l => l.header \notin m.body

Precise(c, loops, l, entry) ==
    LET cond == Cond(c, l)
        k == cond.src.imm
        op == Kept(c, l)
        stride == Stride(c, l, cond.dst)
        init == entry[cond.dst]
    IN  /\ HasExit(c, l)
        /\ cond.width = 64 /\ c[StrideSite(c, l, cond.dst)].width = 64
        /\ PreciseCount(op, k, stride, init, TestsAfterStride(c, l))
        /\ op \in {"Gt", "Ge", "Ne"} => EnteredOnce(loops, l)

-----------------------------------------------------------------------------
\* Programs that enforce_loop_bounds lets through, with what it promises.
Init ==
    /\ code \in Codes
    /\ \E entry \in Entries :
          LET snapshots == Snapshots(code, entry)
              loops == Loops(Graph(code))
          IN  /\ Enforced(code, snapshots, NoState, MaxLoopSteps)
              /\ OnlyPrecise => \A l \in loops : Precise(code, loops, l, entry)
              /\ limits = LoopBounds(code, snapshots, NoState)
              /\ regs \in [DOMAIN entry -> UNION {entry[r].lo .. entry[r].hi : r \in DOMAIN entry}]
              /\ \A r \in DOMAIN entry : regs[r] \in entry[r].lo .. entry[r].hi
    /\ pc = 1
    /\ trips = [l \in DOMAIN limits |-> 0]
    /\ inside = [l \in DOMAIN limits |-> 0]
    /\ ran = 0

Halted == pc \notin DOMAIN code \/ code[pc].insn = "Exit"

Value(o) == IF IsReg(o) THEN regs[o.reg] ELSE o.imm
Taken(i) == ~ IsConditional(i) \/ JumpTakenW(i.op, regs[i.dst], Value(i.src), i.width)

\* Vm::step on the instructions loops are made of.
NextPc == IF IsJump(code[pc]) /\ Taken(code[pc]) THEN ResolveTarget(code, pc) ELSE pc + 1

Step ==
    /\ ~ Halted
    /\ pc' = NextPc
    /\ regs' = IF code[pc].insn = "Alu"
               THEN [regs EXCEPT ![code[pc].dst] =
                       AluApply(code[pc].op, @, Value(code[pc].src), code[pc].width)]
               ELSE regs
    /\ LET block == BlockOfPc(code, pc)
           stays(l) == pc' \in DOMAIN code /\ BlockOfPc(code, pc') \in l.body
       IN  /\ inside' = [l \in DOMAIN limits |->
                           IF block \in l.body /\ stays(l)
                           THEN Lesser(inside[l] + 1, limits[l].steps) ELSE 0]
           /\ trips' = [l \in DOMAIN limits |->
                          IF block \in l.body /\ stays(l)
                          THEN Lesser(trips[l] + (IF pc = BlockLast(code, l.latch) THEN 1 ELSE 0),
                                     limits[l].trips)
                          ELSE 0]
    /\ ran' = Lesser(ran + 1, Budget)
    /\ UNCHANGED <<code, limits>>

\* A machine that is not halted takes its next step.
Spec == Init /\ [][Step]_vars /\ WF_vars(Step)

-----------------------------------------------------------------------------
(***************************************************************************)
(* Properties                                                              *)
(***************************************************************************)

\* LoopBound: no loop executes its latch more often, or more instructions,
\* than the bound it was accepted with, each time it is entered.
WithinBound ==
    \A l \in DOMAIN limits : trips[l] < limits[l].trips /\ inside[l] < limits[l].steps

\* bound.rs: what is accepted comes to its end.
Terminates == <> Halted

\* verify.rs:18: "acceptance implies termination inside it", the budget.
EndsInBudget == ran < Budget
=============================================================================
