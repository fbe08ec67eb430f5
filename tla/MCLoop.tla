------------------------------- MODULE MCLoop -------------------------------
(***************************************************************************)
(* TLC instances of LoopRun over words of eight bits with four-bit         *)
(* immediates: loops tested at the latch and at the header, nested loops   *)
(* and bodies with a branch, for every comparison and several strides.     *)
(***************************************************************************)
EXTENDS LoopRun, TLC

CONSTANTS Ops, Strides

MCStrides == {-3, -1, 1, 2}

J(op, r, k, off) == Jump(64, op, r, Imm(k), off)
Inc(r, s) == Alu(64, "Add", r, Imm(s))

AtLatch(op, k, s) == <<Inc(1, s), J(op, 1, k, -2), Exit>>
AtHeader(op, k, s) == <<J(op, 1, k, 2), Inc(1, s), JumpAlways(-3), Exit>>
Delayed(op, k, s) == <<Inc(2, 0)>> \o AtHeader(op, k, s)
IntoBody(op, k, s) == <<J(op, 1, k, 1), Exit, Inc(1, s), JumpAlways(-4)>>
\* The inner loop counts r2 and is not reset between rounds of the outer one.
Nested(op, k, s) == <<Inc(2, s), J(op, 2, k, -2), Inc(1, 1), J("Slt", 1, 3, -4), Exit>>
\* The stride is skipped while r2 is zero.
Skipping(op, k, s) == <<J("Eq", 2, 0, 1), Inc(1, s), J(op, 1, k, -3), Exit>>
\* Two latches for one header.
TwoLatches(op, k, s) == <<Inc(1, s), J(op, 1, k, -2), Inc(2, 1), J("Slt", 2, 2, -4), Exit>>
\* Both ways out of the header lead back to it.
NoExit(op, k, s) == <<J(op, 1, k, 0), Inc(1, s), JumpAlways(-3)>>

Build(f(_, _, _)) == {f(op, 3, s) : op \in Ops, s \in Strides}

MCCodes ==
    Build(AtLatch) \cup Build(AtHeader) \cup {Nested(op, 3, s) : op \in Ops, s \in {-1, 2}}
        \cup {IntoBody(op, k, s) : op \in Ops, k \in {-2, 3}, s \in {-1, 2}}
        \cup {Delayed(op, 3, s) : op \in {"Eq", "Sge"}, s \in {1, 2}}
        \cup {Skipping(op, 3, 1) : op \in Ops} \cup {TwoLatches("Slt", 3, 1), NoExit("Slt", 3, 1)}

\* A cycle entered at two places.
Irreducible == <<J("Eq", 2, 0, 1), Inc(1, 1), Inc(2, 1), JumpAlways(-3), Exit>>

\* Loops that outrun the budget: without an exit; with two entries; tested
\* after the stride at its bound, or at the end of the word; moving away from
\* the value that ends it; stepping over zero; entered again with its counter
\* past the bound.
GapCodes ==
    {NoExit("Slt", 3, 1), Irreducible, AtLatch("Slt", 4, -1), AtLatch("Slt", 4, 1),
     AtHeader("Eq", 0, 1), AtHeader("Le", 0, -3), Nested("Ne", 3, 1)}

MCEntries ==
    {(1 :> a @@ 2 :> Interval(0, 1)) : a \in {Exact(0), Exact(3), Exact(6), Interval(-2, 5)}}
OneEntry == {(1 :> Exact(a) @@ 2 :> Exact(0)) : a \in {0, 4, IMax}}
=============================================================================
