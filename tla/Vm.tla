--------------------------------- MODULE Vm ---------------------------------
(***************************************************************************)
(* The interpreter running one program (ebpf-vm/src/lib.rs, Vm::run;       *)
(* ebpf-vm/src/xdp.rs, run_xdp): the lowered program, the program counter  *)
(* and the step budget around Machine.                                     *)
(***************************************************************************)
EXTENDS Machine, Exec, FiniteSets

CONSTANTS
    Programs, \* the programs to run
    Packets,  \* the packets to run them on; NoBytes for a run without one
    MaxSteps  \* max_steps

ASSUME VmAssumption ==
    /\ Programs \subseteq Seq(Instruction)
    /\ \A p \in Packets \ {NoBytes} : p \in Seq(0 .. (Radix - 1))
    /\ MaxSteps \in Nat

VARIABLES
    code,  \* Vm.insns
    exec,  \* Vm.exec
    pc,    \* Vm.pc, counted from 1
    steps  \* iterations of the loop in Vm::run

vars == <<code, exec, pc, steps, machine>>

Init ==
    /\ code \in Programs
    /\ exec = Lowered(code)
    /\ pc = 1
    /\ steps = 0
    /\ \E p \in Packets : Boot(p, NoBytes)

Fetched == pc \in DOMAIN exec

NextPc ==
    IF exec[pc].insn = "Jump" /\ Taken(exec[pc]) THEN exec[pc].offset ELSE pc + 1

\* Variant: a step that is not counted.
StepUncounted ==
    /\ Running /\ steps < MaxSteps /\ UNCHANGED <<code, exec, steps>>
    /\ \/ Fetched /\ Execute(exec[pc]) /\ pc' = IF ret' = Continue THEN NextPc ELSE pc
       \/ ~ Fetched /\ Fails(Error("JumpOutOfBounds")) /\ pc' = pc

\* Vm::step
Step ==
    /\ Running /\ steps < MaxSteps
    /\ steps' = steps + 1
    /\ UNCHANGED <<code, exec>>
    /\ \/ Fetched /\ Execute(exec[pc]) /\ pc' = IF ret' = Continue THEN NextPc ELSE pc
       \/ ~ Fetched /\ Fails(Error("JumpOutOfBounds")) /\ pc' = pc

\* The end of the loop in Vm::run.
OutOfSteps ==
    /\ Running /\ steps = MaxSteps
    /\ Fails(Error("StepsExceeded"))
    /\ UNCHANGED <<code, exec, pc, steps>>

Next == Step \/ OutOfSteps

\* Vm::run is one loop without a wait in it.
Spec == Init /\ [][Next]_vars /\ WF_vars(Next)

-----------------------------------------------------------------------------
(***************************************************************************)
(* Properties                                                              *)
(***************************************************************************)

\* Registers are words, the frame pointer never moves, and the program
\* counter stands on an instruction or right behind the last one.
TypeOK ==
    /\ regs \in [0..10 -> Word]
    /\ regs[Fp] = Mem!StackBase
    /\ Mem!StackBase - StackSize = Mem!Low
    /\ \A w \in DOMAIN initialized : initialized[w] \subseteq 0..63
    /\ DOMAIN stores = DOMAIN MapTable
    /\ pc \in 1 .. (Len(code) + 1)

\* exec::load: the resolved program runs as its slots say, with the same
\* fault in the same place for every jump that leads nowhere.
Image ==
    [slot \in 0 .. (Slot(code, Len(code) + 1) - 1) |->
        IF At(code, slot) = {} THEN [insn |-> "Second"] ELSE code[CHOOSE j \in At(code, slot) : TRUE]]
Flow == INSTANCE SlotFlow WITH
    text <- Image, at <- Slot(code, pc), status <- ret.result
ImplementsSlotFlow == Flow!Spec

\* Vm::step and the helpers: a step that ends in an error has changed no
\* register, no byte and no map entry, however many arguments it had read.
FaultsLeaveStateAlone ==
    [][ret'.result \notin {"done", "exit"} => UNCHANGED <<regs, memory, stores>>]_vars

\* helper_map_update: what is refused changes no store, what is accepted
\* leaves every key of every map its width and every map within its limit.
StoresWellFormed ==
    \A fd \in DOMAIN MapTable :
        /\ Cardinality(DOMAIN stores[fd]) <= MapTable[fd].entries
        /\ \A k \in DOMAIN stores[fd] :
              /\ Len(k) = MapTable[fd].key
              /\ Len(stores[fd][k]) = MapTable[fd].value

\* Vm::run always returns: the budget ends every loop of the program.
Terminates == <>(~ Running)
=============================================================================
