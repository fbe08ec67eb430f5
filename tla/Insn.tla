------------------------------- MODULE Insn -------------------------------
(***************************************************************************)
(* Decoded instructions (ebpf-isa/src/insn.rs, `Insn` and `Operand`) as    *)
(* records.  Registers are numbers, sizes are bytes, offsets and           *)
(* immediates integers.                                                    *)
(***************************************************************************)
EXTENDS Integers

Reg(r) == [reg |-> r]
Imm(k) == [imm |-> k]
IsReg(o) == DOMAIN o = {"reg"}

Alu(width, op, dst, src) ==
    [insn |-> "Alu", width |-> width, op |-> op, dst |-> dst, src |-> src]
LdImm64(dst, imm) == [insn |-> "LoadImm64", dst |-> dst, imm |-> imm]
Ldx(size, dst, base, offset) ==
    [insn |-> "Load", size |-> size, dst |-> dst, base |-> base, offset |-> offset]
St(size, base, offset, src) ==
    [insn |-> "Store", size |-> size, base |-> base, offset |-> offset, src |-> src]
Jump(width, op, dst, src, offset) ==
    [insn |-> "Jump", width |-> width, op |-> op, dst |-> dst, src |-> src, offset |-> offset]
\* The decoder gives `ja` operands nobody reads.
JumpAlways(offset) == Jump(64, "Always", 0, Imm(0), offset)
Call(func) == [insn |-> "Call", func |-> func]
Exit == [insn |-> "Exit"]
Unknown == [insn |-> "Unknown"]

\* Conditional jumps have two ways out, `ja` and `exit` leave the straight
\* line for good.
IsJump(i) == i.insn = "Jump"
IsConditional(i) == IsJump(i) /\ i.op # "Always"

\* Eight-byte slots of an instruction.
Slots(i) == IF i.insn = "LoadImm64" THEN 2 ELSE 1
=============================================================================
