-------------------------------- MODULE Exec --------------------------------
(***************************************************************************)
(* Lowering to the form the interpreter steps (ebpf-vm/src/exec.rs).  A    *)
(* program is a sequence of instructions; jumps count eight-byte slots, of *)
(* which a wide load takes two, and are resolved here to indices of whole  *)
(* instructions.  What can never run becomes a trap in its own place.      *)
(***************************************************************************)
EXTENDS Insn, Sequences, FiniteSetsExt

Trap(kind) == [insn |-> "Trap", kind |-> kind]

\* Variant: a wide load counted as one slot.
SlotNarrow(code, i) == i - 1

\* slot_table: the slot of the i-th instruction, and the instruction that
\* starts at a slot (none at the second half of a wide load).
Slot(code, i) == MapThenSumSet(LAMBDA j : Slots(code[j]), 1 .. (i - 1))
At(code, slot) == {j \in DOMAIN code : Slot(code, j) = slot}

\* resolve
Destination(code, i, offset) == At(code, Slot(code, i) + 1 + offset)

\* lower_one; `End` wants one of three widths as an immediate.
Lower(code, i) ==
    LET ins == code[i]
    IN  CASE ins.insn = "Alu" /\ ins.op \in {"EndLe", "EndBe"} ->
                IF IsReg(ins.src) THEN Trap("IllegalInstruction")
                ELSE IF ins.src.imm \notin {16, 32, 64} THEN Trap("InvalidEndWidth")
                ELSE ins
          [] ins.insn = "Jump" ->
                IF Destination(code, i, ins.offset) = {} THEN Trap("JumpOutOfBounds")
                ELSE [ins EXCEPT !.offset = CHOOSE t \in Destination(code, i, ins.offset) : TRUE]
          [] ins.insn = "Unknown" -> Trap("IllegalInstruction")
          [] OTHER -> ins

\* load: in a lowered program the offset of a jump is its absolute target.
Lowered(code) == [i \in DOMAIN code |-> Lower(code, i)]
=============================================================================
