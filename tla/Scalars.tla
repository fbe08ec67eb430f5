------------------------------ MODULE Scalars ------------------------------
(***************************************************************************)
(* One scalar register in two worlds at once: the range the verifier keeps *)
(* for it and the word the machine holds, through any sequence of ALU      *)
(* instructions, conditional jumps and merges with other paths.  The       *)
(* verifier is right about the register as long as the range contains the  *)
(* word.                                                                   *)
(***************************************************************************)
EXTENDS Precision

CONSTANTS
    AluOps,     \* the ALU operations that are executed
    Jumps,      \* the comparisons that are executed
    Operands,   \* ranges of the other operand, and of merged paths
    MaxLength   \* bound on the number of instructions

ASSUME ScalarsAssumption ==
    /\ AluOps \subseteq AluNames
    /\ Jumps \subseteq JumpNames \ {"Always"}
    /\ Operands \subseteq Ranges
    /\ \A r \in Operands : WellFormed(r)
    /\ MaxLength \in Nat

VARIABLES
    range, \* the verifier's range
    word,  \* the machine's word
    length \* instructions executed

scalar == <<range, word, length>>

Members(r) == {v \in Word : Contains(r, v)}
\* The ends of a range and the words next to them.
Samples(r) ==
    IF ~ IsInterval(r) THEN {v \in {IMin, -1, 0, 1, IMax} : Contains(r, v)}
    ELSE {v \in {r.lo, r.lo + 1, r.hi - 1, r.hi} : Contains(r, v)}

ScalarInit ==
    /\ range \in Operands
    /\ word \in Samples(range)
    /\ length = 0

-----------------------------------------------------------------------------
\* An ALU instruction whose source operand the verifier knows as b.
Operate(op, b, width) ==
    /\ OnlyPrecise => PreciseAlu(op, range, b, width)
    /\ range' = RangeAlu(op, range, b, width)
    /\ \E y \in Samples(b) : word' = AluApply(op, word, y, width)

\* BPF_END takes its width from the immediate.
Swap(op, imm, width) ==
    /\ range' = RangeAlu(op, range, Exact(imm), width)
    /\ word' = AluApply(op, word, imm, width)

\* A conditional jump against an immediate; the machine chooses the edge.
Branch(op, k, width) ==
    /\ OnlyPrecise => PreciseJump(op, range, k, width)
    /\ range' = Refine(range, op, k, JumpTakenW(op, word, k, width))
    /\ word' = word

\* The path meets another one at a block, once with a join, once widened.
Meet(b) ==
    /\ range' \in {RangeJoin(range, b), RangeWiden(range, b), RangeJoin(b, range), RangeWiden(b, range)}
    /\ word' = word

ScalarNext ==
    /\ length < MaxLength
    /\ length' = length + 1
    /\ \E width \in {32, 64} :
          \/ \E op \in AluOps \ EndOps, b \in Operands : Operate(op, b, width)
          \/ \E op \in AluOps \cap EndOps, imm \in EndWidths : Swap(op, imm, width)
          \/ \E op \in Jumps, b \in Operands : IsExact(b) /\ Branch(op, b.lo, width)
          \/ \E b \in Operands : Meet(b)

ScalarSpec == ScalarInit /\ [][ScalarNext]_scalar

-----------------------------------------------------------------------------
(***************************************************************************)
(* Properties                                                              *)
(***************************************************************************)

\* state.rs:121: the operators are sound over-approximations.  After any
\* sequence of instructions, branches and merges the register's word is one
\* of those its range stands for; a wrapped bound, a truncation that folds
\* an interval or a refinement of the wrong edge would lose it.
Covered == Contains(range, word)
=============================================================================
