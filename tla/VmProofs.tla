------------------------------ MODULE VmProofs ------------------------------
(***************************************************************************)
(* Proofs about the interpreter, for every program, map table and budget:  *)
(* a step that fails has changed nothing, the maps keep their widths and   *)
(* limits, the loaded program goes where the slots of the bytecode say, and*)
(* the registers and what is read from memory are words and bytes.         *)
(***************************************************************************)
EXTENDS Vm, MachineProofs

-----------------------------------------------------------------------------
(***************************************************************************)
(* Errors                                                                  *)
(***************************************************************************)

\* ebpf-vm/src/lib.rs, Vm::step and the helpers: a step that ends in an error
\* has changed no register, no byte and no map entry.
THEOREM ErrorsChangeNothing == Spec => FaultsLeaveStateAlone
  <1>1. [Next]_vars => [ret'.result \notin {"done", "exit"} => UNCHANGED <<regs, memory, stores>>]_vars
    <2>1. ASSUME Step, ret'.result \notin {"done", "exit"}
          PROVE  UNCHANGED <<regs, memory, stores>>
      <3>1. CASE Fetched /\ Execute(exec[pc])
        BY <2>1, <3>1, ExecuteFaults
      <3>2. CASE Fails(Error("JumpOutOfBounds"))
        BY <3>2 DEF Fails
      <3>. QED  BY <2>1, <3>1, <3>2 DEF Step
    <2>2. OutOfSteps => UNCHANGED <<regs, memory, stores>>
      BY DEF OutOfSteps, Fails
    <2>. QED  BY <2>1, <2>2 DEF Next
  <1>. QED  BY <1>1, PTL DEF Spec, FaultsLeaveStateAlone

-----------------------------------------------------------------------------
(***************************************************************************)
(* Maps                                                                    *)
(***************************************************************************)

LEMMA BootInv == Init => RegsInv /\ BytesInv /\ MasksInv /\ MapsInv
  <1> SUFFICES ASSUME Init PROVE RegsInv /\ BytesInv /\ MasksInv /\ MapsInv
    OBVIOUS
  <1>1. PICK p \in Packets : Boot(p, NoBytes)
    BY DEF Init
  <1>2. p # NoBytes => p \in Seq(Mem!Byte)
    BY VmAssumption DEF Mem!Byte
  <1>. QED  BY <1>1, <1>2, BootTypes

LEMMA MapsNext == MapsInv /\ [Next]_vars => MapsInv'
  <1> SUFFICES ASSUME MapsInv, [Next]_vars PROVE MapsInv'
    OBVIOUS
  <1>1. CASE stores' = stores
    BY <1>1 DEF MapsInv, Allowed
  <1>2. CASE Step
    BY <1>1, <1>2, MapsExecute DEF Step, Fails
  <1>3. CASE OutOfSteps
    BY <1>1, <1>3 DEF OutOfSteps, Fails
  <1>4. CASE UNCHANGED vars
    BY <1>1, <1>4 DEF vars, machine
  <1>. QED  BY <1>2, <1>3, <1>4 DEF Next

\* ebpf-vm/src/lib.rs, helper_map_update and helper_map_delete: every entry of
\* every map keeps the widths of its descriptor, and no map outgrows its limit.
THEOREM MapsKeepTheirLimits == Spec => []StoresWellFormed
  <1>1. MapsInv => StoresWellFormed
    BY DEF MapsInv, Allowed, StoresWellFormed
  <1>. QED  BY <1>1, BootInv, MapsNext, PTL DEF Spec

-----------------------------------------------------------------------------
(***************************************************************************)
(* Control flow                                                            *)
(***************************************************************************)

FlowInv ==
    /\ code \in Programs
    /\ exec = Lowered(code)
    /\ pc \in 1 .. (Len(code) + 1)

LEMMA ProgramText ==
    ASSUME FlowInv
    PROVE  /\ Len(code) \in Nat /\ DOMAIN code = 1 .. Len(code)
           /\ \A n \in 1 .. Len(code) : code[n] \in Instruction
           /\ DOMAIN exec = 1 .. Len(code)
  <1>1. code \in Seq(Instruction)
    BY VmAssumption DEF FlowInv
  <1>2. Len(code) \in Nat /\ DOMAIN code = 1 .. Len(code)
        /\ \A n \in 1 .. Len(code) : code[n] \in Instruction
    BY <1>1
  <1>. QED  BY <1>2 DEF FlowInv, Lowered

\* What the loader makes of an instruction.
LEMMA LoadedAs ==
    ASSUME FlowInv, NEW n \in DOMAIN code
    PROVE  \/ /\ code[n].insn = "Jump" /\ Destination(code, n, code[n].offset) = {}
              /\ exec[n] = Trap("JumpOutOfBounds")
           \/ /\ code[n].insn = "Jump" /\ exec[n].insn = "Jump" /\ exec[n].op = code[n].op
              /\ exec[n].offset \in Destination(code, n, code[n].offset)
           \/ code[n].insn = "Unknown" /\ exec[n] = Trap("IllegalInstruction")
           \/ /\ code[n].insn = "Alu"
              /\ \E kind \in {"IllegalInstruction", "InvalidEndWidth"} : exec[n] = Trap(kind)
           \/ code[n].insn \in Kinds \ {"Jump", "Unknown"} /\ exec[n] = code[n]
  <1>1. exec[n] = Lower(code, n)
    BY DEF FlowInv, Lowered
  <1>2. code[n] \in Instruction
    BY ProgramText
  <1>3. code[n].insn \in Kinds
    BY <1>2, InstructionKinds
  <1>4. CASE code[n].insn = "Jump" /\ Destination(code, n, code[n].offset) = {}
    BY <1>1, <1>4 DEF Lower
  <1>5. CASE code[n].insn = "Jump" /\ Destination(code, n, code[n].offset) # {}
    <2>1. PICK t : t = CHOOSE u \in Destination(code, n, code[n].offset) : TRUE
      OBVIOUS
    <2>2. t \in Destination(code, n, code[n].offset)
      BY <1>5, <2>1
    <2>3. exec[n] = [code[n] EXCEPT !.offset = t]
      BY <1>1, <1>5, <2>1 DEF Lower
    <2>. QED  BY <1>2, <1>5, <2>2, <2>3, InstructionKinds
  <1>6. CASE code[n].insn = "Unknown"
    BY <1>1, <1>6 DEF Lower
  <1>7. CASE code[n].insn = "Alu"
    BY <1>1, <1>7 DEF Lower, Kinds
  <1>8. CASE code[n].insn \in Kinds \ {"Jump", "Unknown", "Alu"}
    BY <1>1, <1>8 DEF Lower
  <1>. QED  BY <1>3, <1>4, <1>5, <1>6, <1>7, <1>8 DEF Kinds

\* The slots as an array: an instruction at its own slot, and nothing that
\* starts anywhere else.
LEMMA ImageIs ==
    ASSUME FlowInv
    PROVE  /\ \A n \in DOMAIN code : /\ Flow!IsStart(Slot(code, n))
                                     /\ Image[Slot(code, n)] = code[n]
           /\ \A slot : Flow!IsStart(slot) => At(code, slot) # {}
           /\ ~ Flow!IsStart(Slot(code, Len(code) + 1))
  <1>1. /\ Len(code) \in Nat /\ DOMAIN code = 1 .. Len(code)
        /\ \A n \in DOMAIN code : code[n] \in Instruction
    BY ProgramText
  <1>2. PICK end \in Nat : end = Slot(code, Len(code) + 1)
    BY <1>1, SlotsAreCounted
  <1>3. DOMAIN Image = 0 .. (end - 1)
    BY <1>2 DEF Image
  <1>4. \A slot \in DOMAIN Image :
           Image[slot] = IF At(code, slot) = {} THEN [insn |-> "Second"]
                         ELSE code[CHOOSE j \in At(code, slot) : TRUE]
    BY DEF Image
  <1>5. ASSUME NEW n \in DOMAIN code
        PROVE  Flow!IsStart(Slot(code, n)) /\ Image[Slot(code, n)] = code[n]
    <2>1. Slot(code, n) \in DOMAIN Image /\ At(code, Slot(code, n)) = {n}
      BY <1>1, <1>2, <1>3, SlotsInside
    <2>2. Image[Slot(code, n)] = code[n]
      BY <1>4, <2>1
    <2>3. code[n].insn # "Second"
      BY <1>1, InstructionKinds DEF Kinds
    <2>. QED  BY <2>1, <2>2, <2>3 DEF Flow!IsStart, Flow!Second
  <1>6. ASSUME NEW slot, Flow!IsStart(slot) PROVE At(code, slot) # {}
    BY <1>4, <1>6 DEF Flow!IsStart, Flow!Second
  <1>7. end \notin DOMAIN Image
    BY <1>3
  <1>. QED  BY <1>2, <1>5, <1>6, <1>7 DEF Flow!IsStart

\* A jump of the loaded program goes to an instruction, and where its slots
\* say; one without a destination would not have been a jump any more.
LEMMA Targets ==
    ASSUME FlowInv, NEW n \in DOMAIN code, code[n].insn = "Jump"
    PROVE  LET target == Slot(code, n) + 1 + code[n].offset
           IN  /\ Destination(code, n, code[n].offset) = {} <=> ~ Flow!IsStart(target)
               /\ \A t \in Destination(code, n, code[n].offset) :
                     t \in DOMAIN code /\ Slot(code, t) = target
  <1>1. PICK target : target = Slot(code, n) + 1 + code[n].offset
    OBVIOUS
  <1>2. Destination(code, n, code[n].offset) = At(code, target)
    BY <1>1 DEF Destination
  <1>3. \A t \in At(code, target) : t \in DOMAIN code /\ Slot(code, t) = target
    BY DEF At
  <1>4. At(code, target) = {} <=> ~ Flow!IsStart(target)
    BY <1>3, ImageIs
  <1>. QED  BY <1>1, <1>2, <1>3, <1>4

\* The target of a jump that was lowered to a jump.
LEMMA LoadedTargets ==
    ASSUME FlowInv, NEW n \in DOMAIN exec, exec[n].insn = "Jump"
    PROVE  /\ n \in DOMAIN code /\ code[n].insn = "Jump" /\ exec[n].op = code[n].op
           /\ exec[n].offset \in Destination(code, n, code[n].offset)
  <1>1. n \in DOMAIN code
    BY ProgramText
  <1>2. \A kind : Trap(kind).insn # "Jump"
    BY DEF Trap
  <1>. QED  BY <1>1, <1>2, LoadedAs DEF Kinds

LEMMA FlowInit == Init => FlowInv
  <1> SUFFICES ASSUME Init PROVE FlowInv
    OBVIOUS
  <1>1. code \in Seq(Instruction)
    BY VmAssumption DEF Init
  <1>2. Len(code) \in Nat
    BY <1>1
  <1>. QED  BY <1>2 DEF Init, FlowInv

LEMMA FlowNext == FlowInv /\ [Next]_vars => FlowInv'
  <1> SUFFICES ASSUME FlowInv, [Next]_vars PROVE FlowInv'
    OBVIOUS
  <1>1. UNCHANGED <<code, exec>>
    BY DEF Next, Step, OutOfSteps, vars
  <1>2. CASE pc' = pc
    BY <1>1, <1>2 DEF FlowInv
  <1>3. CASE Fetched /\ pc' = NextPc
    <2>1. /\ DOMAIN exec = DOMAIN code /\ DOMAIN code = 1 .. Len(code) /\ Len(code) \in Nat
      BY ProgramText
    <2>2. CASE exec[pc].insn = "Jump" /\ pc' = exec[pc].offset
      <3>1. pc' \in DOMAIN code
        BY <1>3, <2>2, LoadedTargets, Targets DEF Fetched
      <3>. QED  BY <1>1, <2>1, <3>1 DEF FlowInv
    <2>3. CASE pc' = pc + 1
      BY <1>1, <1>3, <2>1, <2>3 DEF FlowInv, Fetched
    <2>. QED  BY <1>3, <2>2, <2>3 DEF NextPc
  <1>. QED  BY <1>2, <1>3 DEF Next, Step, OutOfSteps, vars

\* The slot under execution and its instruction: the one the program counter
\* stands on, or none behind the last.
LEMMA FlowAt ==
    ASSUME FlowInv
    PROVE  /\ Fetched => /\ pc \in DOMAIN code /\ Flow!IsStart(Slot(code, pc))
                         /\ Image[Slot(code, pc)] = code[pc]
                         /\ Slot(code, pc + 1) = Slot(code, pc) + Slots(code[pc])
           /\ ~ Fetched => ~ Flow!IsStart(Slot(code, pc))
  <1>1. /\ DOMAIN exec = DOMAIN code /\ DOMAIN code = 1 .. Len(code) /\ Len(code) \in Nat
        /\ pc \in 1 .. (Len(code) + 1)
    BY ProgramText DEF FlowInv
  <1>2. CASE Fetched
    <2>1. pc \in DOMAIN code /\ pc \in Nat \ {0}
      BY <1>1, <1>2 DEF Fetched
    <2>. QED  BY <1>2, <2>1, ImageIs, SlotStep
  <1>3. CASE ~ Fetched
    <2>1. pc = Len(code) + 1
      BY <1>1, <1>3 DEF Fetched
    <2>. QED  BY <1>3, <2>1, ImageIs
  <1>. QED  BY <1>2, <1>3

LEMMA FlowStops ==
    ASSUME UNCHANGED <<code, pc>>, NEW result, ret' = Error(result)
    PROVE  \A results : result \in results => Flow!Stop(results)
  <1>1. Slot(code', pc') = Slot(code, pc)
    OBVIOUS
  <1>. QED  BY <1>1 DEF Flow!Stop, Error

\* One instruction.
LEMMA FlowExecutes ==
    ASSUME FlowInv, Running, Fetched, UNCHANGED code, Execute(exec[pc]),
           pc' = IF ret' = Continue THEN NextPc ELSE pc
    PROVE  Flow!Next
  <1>1. Image' = Image
    BY DEF Image
  <1>2. ret.result = "done" /\ (ret' = Continue => ret'.result = "done")
    BY Answers DEF Running
  <1>3. PICK here : here = Slot(code, pc)
    OBVIOUS
  <1>4. /\ pc \in DOMAIN code /\ Flow!IsStart(here) /\ Image[here] = code[pc]
        /\ Slot(code, pc + 1) = here + Slots(code[pc]) /\ code[pc].insn \in Kinds
    BY <1>3, FlowAt, ProgramText, InstructionKinds
  <1>5. \A result, results :
           ret' = Error(result) /\ pc' = pc /\ result \in results => Flow!Stop(results)
    BY FlowStops
  <1>6. Slot(code', pc') = Slot(code, pc')
    OBVIOUS
  <1>7. ASSUME NEW kind, exec[pc] = Trap(kind), kind \in {"JumpOutOfBounds", "IllegalInstruction", "InvalidEndWidth"}
        PROVE  ret' = Error(kind) /\ ret'.result = kind /\ pc' = pc
    <2>1. exec[pc].insn = "Trap" /\ exec[pc].kind = kind
      BY <1>7 DEF Trap
    <2>2. ret' = Error(kind)
      BY <2>1 DEF Execute, Fails
    <2>3. ret'.result = kind /\ ret' # Continue
      BY <1>7, <2>2, Answers
    <2>. QED  BY <2>2, <2>3
  <1>8. CASE code[pc].insn = "Jump" /\ Destination(code, pc, code[pc].offset) = {}
    <2>1. exec[pc] = Trap("JumpOutOfBounds")
      BY <1>4, <1>8, LoadedAs DEF Kinds
    <2>2. ~ Flow!IsStart(here + 1 + code[pc].offset)
      BY <1>3, <1>4, <1>8, Targets
    <2>3. Flow!Stop({"JumpOutOfBounds"})
      BY <1>5, <1>7, <2>1
    <2>. QED  BY <1>1, <1>2, <1>3, <1>4, <1>8, <2>2, <2>3 DEF Flow!Next, Flow!IsJump
  <1>9. CASE code[pc].insn = "Jump" /\ Destination(code, pc, code[pc].offset) # {}
    <2>1. /\ exec[pc].insn = "Jump" /\ exec[pc].op = code[pc].op
          /\ exec[pc].offset \in Destination(code, pc, code[pc].offset)
      BY <1>4, <1>9, LoadedAs DEF Kinds
    <2>2. PICK target : target = here + 1 + code[pc].offset
      OBVIOUS
    <2>3. Flow!IsStart(target) /\ Slot(code, exec[pc].offset) = target
      BY <1>3, <1>4, <1>9, <2>1, <2>2, Targets
    <2>4. ret' = Continue /\ ret'.result = "done"
      BY <1>2, <2>1 DEF Execute
    <2>5. pc' = IF Taken(exec[pc]) THEN exec[pc].offset ELSE pc + 1
      BY <2>1, <2>4 DEF NextPc
    <2>6. Slots(code[pc]) = 1
      BY <1>9 DEF Slots
    <2>7. Slot(code, pc') \in (IF code[pc].op # "Always" THEN {target, here + 1} ELSE {target})
      BY <1>4, <2>1, <2>3, <2>5, <2>6 DEF Taken
    <2>8. Slot(code', pc') \in
            (IF Flow!IsConditional(Image[here]) THEN {target, here + 1} ELSE {target})
      BY <1>4, <1>6, <1>9, <2>7 DEF Flow!IsConditional, Flow!IsJump
    <2>9. Flow!IsJump(Image[here])
      BY <1>4, <1>9 DEF Flow!IsJump
    <2>. QED  BY <1>1, <1>2, <1>3, <1>4, <2>2, <2>3, <2>4, <2>8, <2>9 DEF Flow!Next
  <1>10. CASE code[pc].insn = "Exit"
    <2>1. exec[pc].insn = "Exit"
      BY <1>4, <1>10, LoadedAs DEF Kinds
    <2>2. ret' = ExitWith(regs[0])
      BY <2>1 DEF Execute, Fails
    <2>3. ret'.result = "exit" /\ pc' = pc
      BY <2>2, Answers
    <2>4. Flow!Stop({"exit"})
      BY <2>3 DEF Flow!Stop
    <2>. QED  BY <1>1, <1>2, <1>3, <1>4, <1>10, <2>4 DEF Flow!Next
  <1>11. CASE code[pc].insn = "Unknown"
    <2>1. exec[pc] = Trap("IllegalInstruction")
      BY <1>4, <1>11, LoadedAs DEF Kinds
    <2>2. Flow!Stop({"IllegalInstruction"})
      BY <1>5, <1>7, <2>1
    <2>. QED  BY <1>1, <1>2, <1>3, <1>4, <1>11, <2>2 DEF Flow!Next
  <1>12. CASE code[pc].insn \notin {"Jump", "Exit", "Unknown"}
    <2>1. CASE ret' = Continue
      <3>1. exec[pc].insn # "Jump"
        BY <1>4, <1>12, LoadedTargets DEF Fetched
      <3>2. pc' = pc + 1
        BY <2>1, <3>1 DEF NextPc
      <3>3. Slot(code', pc') = here + Slots(Image[here]) /\ ret'.result = "done"
        BY <1>2, <1>4, <1>6, <2>1, <3>2
      <3>. QED  BY <1>1, <1>2, <1>3, <1>4, <1>12, <3>3 DEF Flow!Next, Flow!Slots, Slots
    <2>2. CASE ret'.result \notin {"done", "exit", "JumpOutOfBounds"} /\ pc' = pc
      BY <1>1, <1>2, <1>3, <1>4, <1>12, <2>2 DEF Flow!Next
    <2>3. CASE exec[pc] = code[pc] /\ code[pc].insn \in Kinds \ {"Jump", "Unknown"}
      <3>1. ret' = Continue \/ ret'.result \notin {"done", "exit", "JumpOutOfBounds"}
        BY <1>12, <2>3, ExecuteEnds
      <3>2. ret' = Continue \/ pc' = pc
        OBVIOUS
      <3>. QED  BY <2>1, <2>2, <3>1, <3>2
    <2>4. ASSUME NEW kind \in {"IllegalInstruction", "InvalidEndWidth"}, exec[pc] = Trap(kind)
          PROVE  Flow!Next
      BY <1>7, <2>2, <2>4
    <2>. QED  BY <1>4, <1>12, <2>3, <2>4, LoadedAs
  <1>. QED  BY <1>8, <1>9, <1>10, <1>11, <1>12

LEMMA FlowStep == FlowInv /\ [Next]_vars => [Flow!Next]_(Flow!vars)
  <1> SUFFICES ASSUME FlowInv, [Next]_vars PROVE [Flow!Next]_(Flow!vars)
    OBVIOUS
  <1>1. UNCHANGED code
    BY DEF Next, Step, OutOfSteps, vars
  <1>2. Image' = Image
    BY <1>1 DEF Image
  <1>3. Running => ret.result = "done"
    BY Answers DEF Running
  <1>4. CASE Running /\ Fetched /\ Execute(exec[pc]) /\ pc' = IF ret' = Continue THEN NextPc ELSE pc
    BY <1>1, <1>4, FlowExecutes
  <1>5. CASE Running /\ ~ Fetched /\ ret' = Error("JumpOutOfBounds") /\ pc' = pc
    <2>1. ~ Flow!IsStart(Slot(code, pc))
      BY FlowAt, <1>5
    <2>2. Flow!Stop({"JumpOutOfBounds"})
      BY <1>1, <1>5, FlowStops
    <2>. QED  BY <1>2, <1>3, <1>5, <2>1, <2>2 DEF Flow!Next
  <1>6. CASE Running /\ ret' = Error("StepsExceeded") /\ pc' = pc
    <2>1. Flow!Stop({"StepsExceeded"})
      BY <1>1, <1>6, FlowStops
    <2>. QED  BY <1>2, <1>3, <1>6, <2>1 DEF Flow!Next
  <1>7. CASE UNCHANGED vars
    <2>1. Slot(code', pc') = Slot(code, pc) /\ ret' = ret
      BY <1>7 DEF vars, machine
    <2>. QED  BY <1>2, <2>1 DEF Flow!vars
  <1>. QED  BY <1>4, <1>5, <1>6, <1>7 DEF Next, Step, OutOfSteps, Fails

\* ebpf-vm/src/exec.rs, load: the resolved program runs as its slots say, and
\* a jump faults exactly when it leads to no instruction.
THEOREM LoadedCodeKeepsItsFlow == Spec => ImplementsSlotFlow
  <1>1. Init => Flow!Init
    <2> SUFFICES ASSUME Init PROVE Flow!Init
      OBVIOUS
    <2>1. Slot(code, pc) = 0
      BY FirstSlot DEF Init
    <2>2. ret.result = "done"
      BY Answers DEF Init, Boot
    <2>. QED  BY <2>1, <2>2 DEF Flow!Init
  <1>. QED  BY <1>1, FlowInit, FlowNext, FlowStep, PTL DEF Spec, ImplementsSlotFlow, Flow!Spec

-----------------------------------------------------------------------------
(***************************************************************************)
(* Types: registers hold words because memory holds bytes                  *)
(***************************************************************************)

\* What the loader leaves to run, apart from jumps, is an instruction of the
\* program; a byte swap among them has one of the three widths.
LEMMA Runnable ==
    ASSUME FlowInv, Fetched, exec[pc].insn \notin {"Jump", "Trap"}
    PROVE  exec[pc] \in Instruction /\ SwapsKnownWidth(exec[pc])
  <1>1. pc \in DOMAIN code /\ code[pc] \in Instruction
    BY ProgramText DEF Fetched
  <1>2. \A kind : Trap(kind).insn = "Trap"
    BY DEF Trap
  <1>3. exec[pc] = code[pc]
    BY <1>1, <1>2, LoadedAs
  <1>4. exec[pc] = Lower(code, pc)
    BY <1>1 DEF FlowInv, Lowered
  <1>5. ASSUME code[pc].insn = "Alu", code[pc].op \in EndOps
        PROVE  ~ IsReg(code[pc].src) /\ code[pc].src.imm \in EndWidths
    <2>1. Lower(code, pc) = IF IsReg(code[pc].src) THEN Trap("IllegalInstruction")
                            ELSE IF code[pc].src.imm \notin {16, 32, 64} THEN Trap("InvalidEndWidth")
                            ELSE code[pc]
      BY <1>5 DEF Lower, EndOps
    <2>. QED  BY <1>2, <1>3, <1>4, <1>5, <2>1 DEF EndWidths
  <1>. QED  BY <1>1, <1>3, <1>5 DEF SwapsKnownWidth

LEMMA TypesNext ==
    FlowInv /\ MapsInv /\ RegsInv /\ BytesInv /\ MasksInv /\ [Next]_vars
        => RegsInv' /\ BytesInv' /\ MasksInv'
  <1> SUFFICES ASSUME FlowInv, MapsInv, RegsInv, BytesInv, MasksInv, [Next]_vars
               PROVE  RegsInv' /\ BytesInv' /\ MasksInv'
    OBVIOUS
  <1>1. CASE Fetched /\ Execute(exec[pc])
    <2>1. exec[pc].insn \notin {"Jump", "Trap"} => exec[pc] \in Instruction /\ SwapsKnownWidth(exec[pc])
      BY <1>1, Runnable
    <2>. QED  BY <1>1, <2>1, ExecuteTypes
  <1>2. CASE UNCHANGED regs /\ UNCHANGED memory /\ UNCHANGED stores
    BY <1>2, TypesStay
  <1>. QED  BY <1>1, <1>2 DEF Next, Step, OutOfSteps, Fails, vars, machine

\* ebpf-vm/src/lib.rs, Vm: whatever an instruction computes or reads is a
\* word, r10 is the top of the stack for the whole run, no mask of the bitmap
\* has more bits than its word, and the program counter never leaves the
\* loaded program.
THEOREM RegistersAreWords == Spec => []TypeOK
  <1>1. FlowInv /\ MapsInv /\ RegsInv /\ BytesInv /\ MasksInv => TypeOK
    <2> SUFFICES ASSUME FlowInv, MapsInv, RegsInv, BytesInv, MasksInv PROVE TypeOK
      OBVIOUS
    <2>1. regs \in [0..10 -> Word] /\ regs[Fp] = Mem!StackBase
      BY DEF RegsInv, Register
    <2>2. Mem!StackBase - StackSize = Mem!Low
      BY Constants
    <2>3. DOMAIN stores = DOMAIN MapTable /\ pc \in 1 .. (Len(code) + 1)
      BY DEF MapsInv, FlowInv
    <2>. QED  BY <2>1, <2>2, <2>3 DEF MasksInv, TypeOK
  <1>. QED  BY <1>1, FlowInit, FlowNext, BootInv, MapsNext, TypesNext, PTL DEF Spec

=============================================================================
