-------------------------------- MODULE MCVm --------------------------------
(***************************************************************************)
(* TLC instance of Vm: 24-bit words, every program of three instructions   *)
(* from a pool about control flow, and every mix of three map instructions *)
(* after a prologue that stages a key and a value on the stack.            *)
(***************************************************************************)
EXTENDS Vm, TLC

MCTable == 1 :> [kind |-> "Hash", key |-> 1, value |-> 2, entries |-> 1]
        @@ 2 :> [kind |-> "Array", key |-> 1, value |-> 1, entries |-> 2]
MCPackets == {NoBytes, <<1, 2>>}

FlowPool ==
    {LdImm64(1, 9), JumpAlways(1), JumpAlways(-3),
     Jump(64, "Eq", 0, Imm(0), 1), Jump(32, "Sgt", 1, Reg(0), -4),
     Alu(32, "EndBe", 1, Imm(16)), Alu(64, "EndLe", 0, Imm(12)),
     Alu(64, "Mov", 10, Imm(0)), Ldx(4, 0, 1, 0), Unknown, Exit}
FlowPrograms == {<<a, b, c>> : a, b, c \in FlowPool}

\* The key 1 at r10-1, the value at r10-3.
Prologue ==
    <<St(1, Fp, -1, Imm(1)), St(1, Fp, -3, Imm(5)), St(1, Fp, -2, Imm(6)),
      Alu(64, "Mov", 2, Reg(Fp)), Alu(64, "Add", 2, Imm(-1)),
      Alu(64, "Mov", 3, Reg(Fp)), Alu(64, "Sub", 3, Imm(3)),
      Alu(64, "Mov", 0, Imm(9)), LdImm64(1, 1)>>
MapPool ==
    {Call(1), Call(2), Call(3), Alu(64, "Mov", 4, Imm(2)), LdImm64(1, 2), LdImm64(1, 3),
     St(1, Fp, -1, Imm(0)), Alu(64, "Mov", 2, Imm(7)),
     Alu(64, "Mov", 3, Imm(7)), St(2, 0, 0, Imm(3))}
MapPrograms ==
    {Prologue \o <<a, b, c, Exit>> : a, b, c \in MapPool}

MCPrograms == FlowPrograms \cup MapPrograms
=============================================================================
