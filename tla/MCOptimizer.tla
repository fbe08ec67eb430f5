----------------------------- MODULE MCOptimizer -----------------------------
(***************************************************************************)
(* TLC instances of Optimizer: programs of every shape the passes treat    *)
(* differently, on words of eight bits.                                    *)
(***************************************************************************)
EXTENDS Optimizer

MCPool == <<0, 2, 3, 4, 5, 6, 7, 8, 9>>

Mov(d, s) == Alu(64, "Mov", d, s)
Add(d, s) == Alu(64, "Add", d, s)
Jeq(d, k, o) == Jump(64, "Eq", d, Imm(k), o)
Jlt(d, k, o) == Jump(64, "Slt", d, Imm(k), o)

\* Constants, copies and arithmetic of both widths in one block.
Straight ==
    {<<Mov(2, Imm(3)), Add(2, Imm(4)), Mov(0, Reg(2)), Exit>>,
     <<Mov(2, Imm(-1)), Alu(32, "Mov", 3, Reg(2)), Add(3, Reg(1)), Mov(0, Reg(3)), Exit>>,
     <<LdImm64(2, 100), Alu(32, "Add", 2, Imm(7)), Alu(64, "Neg", 2, Imm(0)), Mov(0, Reg(2)), Exit>>,
     <<Ldx(4, 2, 1, 0), Ldx(4, 3, 1, 2), Alu(64, "Sub", 3, Reg(2)), St(8, 10, -2, Reg(3)), Exit>>,
     <<Mov(0, Imm(5)), Alu(64, "EndBe", 0, Imm(16)), Exit>>,
     <<Ldx(1, 0, 1, 0), Alu(64, "EndBe", 2, Imm(7)), Exit>>,
     <<Add(10, Imm(1)), Mov(0, Reg(10)), Exit>>,
     <<Mov(0, Imm(1)), Unknown, Exit>>,
     <<JumpAlways(5), Exit>>}

\* Diamonds and triangles: phis of two inputs.
Diamonds ==
    {<<Ldx(1, 2, 1, 0), Jeq(2, 0, 2), Mov(0, Imm(1)), JumpAlways(1), Mov(0, Imm(2)), Exit>>,
     <<Mov(3, Reg(1)), Jlt(1, 6, 1), Add(3, Imm(2)), Mov(0, Reg(3)), Exit>>,
     <<Mov(2, Imm(1)), Mov(3, Imm(2)), Jlt(1, 6, 3), Mov(4, Reg(2)), Mov(2, Reg(3)), Mov(3, Reg(4)),
       St(8, 10, -1, Reg(2)), Mov(0, Reg(3)), Exit>>,
     <<Jump(32, "Set", 1, Imm(1), 1), LdImm64(0, 77), Add(0, Reg(1)), Exit>>,
     <<Mov(0, Imm(1)), Jump(64, "Exit", 0, Reg(0), 1), Add(0, Reg(1)), Exit>>,
     <<Mov(0, Imm(2)), Jeq(1, 5, -2)>>}

\* Loops: counted, rotated, entered at their head, nested, with calls.
Loops ==
    {<<Mov(2, Imm(0)), Add(2, Imm(1)), Jlt(2, 3, -2), Mov(0, Reg(2)), Exit>>,
     <<Mov(2, Imm(0)), Mov(3, Imm(1)), Mov(4, Reg(2)), Mov(2, Reg(3)), Mov(3, Reg(4)), Add(1, Imm(1)),
       Jlt(1, 7, -5), St(8, 10, -1, Reg(3)), Mov(0, Reg(2)), Exit>>,
     <<Add(1, Imm(1)), Jlt(1, 7, -2), Mov(0, Reg(1)), Exit>>,
     <<Mov(6, Imm(0)), Mov(7, Reg(1)), Mov(1, Reg(7)), Call(1), Add(6, Imm(1)), Jlt(6, 2, -4),
       Mov(0, Reg(6)), Exit>>,
     <<Mov(2, Imm(0)), Mov(3, Imm(0)), Add(3, Imm(1)), Jlt(3, 2, -2), Add(2, Imm(1)), Jlt(2, 2, -5),
       Mov(0, Reg(2)), Exit>>}

\* Everything a body can do to three registers.
Body == {Mov(2, Reg(3)), Mov(3, Reg(2)), Mov(2, Imm(1)), Add(2, Reg(3)), Add(3, Reg(1)),
         Alu(32, "Sub", 3, Reg(2)), Ldx(8, 2, 1, 0), St(8, 10, -1, Reg(2))}

\* Two of them in a loop, on the two ways of a diamond, and in a loop with a
\* way around the second.
LoopOf(x, y) ==
    <<Mov(2, Reg(1)), x, y, Add(1, Imm(1)), Jlt(1, 7, -4), Add(2, Reg(3)), Mov(0, Reg(2)), Exit>>
EntryLoopOf(x, y) ==
    <<x, y, Add(1, Imm(1)), Jlt(1, 7, -4), St(8, 10, 0, Reg(3)), Mov(0, Reg(2)), Exit>>
DiamondOf(x, y) ==
    <<Mov(2, Imm(2)), Mov(3, Imm(3)), Jlt(1, 6, 2), x, JumpAlways(1), y, Add(2, Reg(3)), Mov(0, Reg(2)),
      Exit>>
WayAroundOf(x, y) ==
    <<Mov(3, Imm(3)), x, Jlt(2, 2, 1), y, Add(1, Imm(1)), Jlt(1, 7, -5), Add(3, Reg(2)), Mov(0, Reg(3)),
      Exit>>
Shapes(x, y) == {LoopOf(x, y), EntryLoopOf(x, y), DiamondOf(x, y), WayAroundOf(x, y)}

MCCodes == Straight \cup Diamonds \cup Loops \cup UNION {Shapes(x, y) : x, y \in Body}

\* The block with the definition comes later in the program than its use.
LaterCodes ==
    {<<JumpAlways(3), Mov(2, Imm(7)), Add(0, Reg(2)), Exit, Ldx(8, 0, 1, 0), JumpAlways(-5)>>}

\* A register narrowed in place.
NarrowedCodes == {<<Ldx(8, 2, 1, 0), Alu(32, "Mov", 2, Reg(2)), Mov(0, Reg(2)), Exit>>}

\* The result of a call is an argument of the next one.
ResultCodes == {<<Call(1), Mov(3, Reg(0)), Call(1), Exit>>}

\* A value kept over a call whose arguments need a shuffle.
SavedCodes == {<<Ldx(8, 6, 1, 0), Ldx(8, 2, 1, 0), Mov(1, Imm(1)), Call(1), Mov(0, Reg(6)), Exit>>}

GapCodes == LaterCodes \cup NarrowedCodes \cup ResultCodes \cup SavedCodes
=============================================================================
