----------------------------- MODULE RangeBits -----------------------------
(***************************************************************************)
(* The abstract operators that look at the bits of a bound                 *)
(* (ebpf-verifier/src/state.rs: BitAnd, BitOr, Shl and Shr for `Range`)    *)
(* and the choice between all the abstract operators that alu_transfer     *)
(* makes for an ALU instruction on scalars.                                *)
(***************************************************************************)
EXTENDS Alu

\* Both operands are intervals; otherwise the result is Bottom or Top.
OnIntervals(a, b, result) ==
    IF Bottom \in {a, b} THEN Bottom
    ELSE IF Top \in {a, b} THEN Top
    ELSE result

Ordered(lo, hi) == IF lo <= hi THEN Interval(lo, hi) ELSE Top

\* A bitwise operator applied to the two low and to the two high bounds.
OnBounds(op, a, b) ==
    OnIntervals(a, b, Ordered(AluApply(op, a.lo, b.lo, 64), AluApply(op, a.hi, b.hi, 64)))

\* BitAnd and BitOr for Range
RangeAnd(a, b) == OnBounds("And", a, b)
RangeOr(a, b) == OnBounds("Or", a, b)

\* Shl for Range: checked_shl only refuses a count beyond the word, bits
\* shifted out are lost.
RangeShl(a, b) ==
    OnIntervals(a, b,
        IF a.lo >= 0 /\ a.hi >= 0 /\ b.lo >= 0 /\ b.hi < WordBits
        THEN OnBounds("Lsh", a, b)
        ELSE Top)

\* Shr for Range: by a known count, on the bounds read as unsigned.
RangeShr(a, b) ==
    OnIntervals(a, b,
        IF IsExact(b) /\ 0 <= b.lo /\ b.lo < WordBits
        THEN Interval(AluApply("Rsh", a.lo, b.lo, 64), AluApply("Rsh", a.hi, b.lo, 64))
        ELSE Top)

\* The scalar part of alu_transfer.
RangeResult(op, a, b) ==
    CASE op = "Add" -> RangeAdd(a, b)
      [] op \in {"Sub", "Mul", "Div", "Mod", "Neg"} \cup EndOps -> Top
      [] op = "Or"  -> RangeOr(a, b)
      [] op = "And" -> RangeAnd(a, b)
      [] op \in {"Xor", "Arsh"} -> RangeUntracked(a, b)
      [] op = "Mov" -> b
      [] op = "Lsh" -> RangeShl(a, b)
      [] op = "Rsh" -> RangeShr(a, b)

RangeAlu(op, a, b, width) ==
    IF width = 32 THEN Trunc32(RangeResult(op, a, b)) ELSE RangeResult(op, a, b)
=============================================================================
