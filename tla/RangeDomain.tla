---------------------------- MODULE RangeDomain ----------------------------
(***************************************************************************)
(* The interval lattice the verifier keeps for every scalar register       *)
(* (ebpf-verifier/src/state.rs, `Range`) and the narrowing of a range on    *)
(* the two edges of a conditional jump (ebpf-verifier/src/refine.rs).       *)
(*                                                                         *)
(* A range is Bottom, Top or an interval of machine words.  The word is    *)
(* the code's i64; its bounds are constants, so that TLC explores a short  *)
(* word while the proofs hold for every word size.                          *)
(***************************************************************************)
EXTENDS Integers

CONSTANTS
    IMax,   \* i64::MAX
    UMax32  \* u32::MAX, the mask of a 32-bit (ALU32) result

\* Two's complement words, and a 32-bit half that fits in the positive ones.
ASSUME WordAssumption ==
    /\ IMax \in Nat \ {0}
    /\ UMax32 \in 1..IMax

IMin == -IMax - 1   \* i64::MIN
Word == IMin..IMax

-----------------------------------------------------------------------------
(***************************************************************************)
(* The lattice.                                                            *)
(***************************************************************************)

Bottom == [kind |-> "Bottom"]
Top == [kind |-> "Top"]
Interval(lo, hi) == [kind |-> "Interval", lo |-> lo, hi |-> hi]
Exact(v) == Interval(v, v)

IsInterval(r) == r.kind = "Interval"
IsExact(r) == IsInterval(r) /\ r.lo = r.hi

Intervals == [kind : {"Interval"}, lo : Word, hi : Word]
Ranges == {Bottom, Top} \cup Intervals

\* The ranges the type's documentation allows: lo <= hi in every interval.
WellFormed(r) == IsInterval(r) => r.lo <= r.hi

\* The words a range stands for.
Contains(r, v) ==
    \/ r.kind = "Top"
    \/ IsInterval(r) /\ r.lo <= v /\ v <= r.hi

Lesser(a, b) == IF a <= b THEN a ELSE b
Greater(a, b) == IF a >= b THEN a ELSE b

\* Range::join
RangeJoin(a, b) ==
    IF a = Bottom THEN b
    ELSE IF b = Bottom THEN a
    ELSE IF Top \in {a, b} THEN Top
    ELSE Interval(Lesser(a.lo, b.lo), Greater(a.hi, b.hi))

\* Range::meet
RangeMeet(a, b) ==
    IF Bottom \in {a, b} THEN Bottom
    ELSE IF a = Top THEN b
    ELSE IF b = Top THEN a
    ELSE LET lo == Greater(a.lo, b.lo)
             hi == Lesser(a.hi, b.hi)
         IN  IF lo <= hi THEN Interval(lo, hi) ELSE Bottom

\* Range::widen: a bound that moved outward jumps to the extreme.
RangeWiden(a, b) ==
    IF a = Bottom THEN b
    ELSE IF b = Bottom THEN a
    ELSE IF Top \in {a, b} THEN Top
    ELSE LET lo == IF b.lo < a.lo THEN IMin ELSE a.lo
             hi == IF b.hi > a.hi THEN IMax ELSE a.hi
         IN  IF lo = IMin /\ hi = IMax THEN Top ELSE Interval(lo, hi)

-----------------------------------------------------------------------------
(***************************************************************************)
(* Abstract arithmetic.  The bitwise operators and the shifts, which need  *)
(* the bits of a word, are in RangeBits.                                   *)
(***************************************************************************)

\* i64 results of checked_add / checked_sub that did not overflow.
Fits(n) == IMin <= n /\ n <= IMax

\* Variant: saturating instead of checked addition of the bounds.
RangeAddSaturates(a, b) ==
    IF Bottom \in {a, b} THEN Bottom
    ELSE IF Top \in {a, b} THEN Top
    ELSE Interval(Lesser(IMax, Greater(IMin, a.lo + b.lo)),
                  Lesser(IMax, Greater(IMin, a.hi + b.hi)))

\* Add for Range
RangeAdd(a, b) ==
    IF Bottom \in {a, b} THEN Bottom
    ELSE IF Top \in {a, b} THEN Top
    ELSE IF Fits(a.lo + b.lo) /\ Fits(a.hi + b.hi)
         THEN Interval(a.lo + b.lo, a.hi + b.hi)
         ELSE Top

\* Sub for Range
RangeSub(a, b) ==
    IF Bottom \in {a, b} THEN Bottom
    ELSE IF Top \in {a, b} THEN Top
    ELSE IF Fits(a.lo - b.hi) /\ Fits(a.hi - b.lo)
         THEN Interval(a.lo - b.hi, a.hi - b.lo)
         ELSE Top

\* Range::sar and BitXor for Range: never tracked.
RangeUntracked(a, b) == IF Bottom \in {a, b} THEN Bottom ELSE Top

\* The low 32 bits of a word, zero-extended.
Low32(v) == v % (UMax32 + 1)

\* Range::trunc32
Trunc32(r) ==
    IF ~ IsInterval(r) THEN r
    ELSE IF Low32(r.lo) <= Low32(r.hi)
         THEN Interval(Low32(r.lo), Low32(r.hi))
         ELSE Top

-----------------------------------------------------------------------------
(***************************************************************************)
(* Branch refinement (refine.rs).  A comparison and whether its branch was  *)
(* taken first become one of Eq, Lt, Le; the unsigned comparisons share    *)
(* the arms of the signed ones.                                            *)
(***************************************************************************)

Complement == [Ne |-> "Eq", Ge |-> "Lt", Gt |-> "Le", Sge |-> "Slt", Sgt |-> "Sle"]

\* The canonical (op, taken) pair of refine's first match.
Canonical(op, taken) ==
    IF op \in DOMAIN Complement
    THEN [op |-> Complement[op], taken |-> ~taken]
    ELSE [op |-> op, taken |-> taken]

SatDec(k) == IF k = IMin THEN IMin ELSE k - 1
SatInc(k) == IF k = IMax THEN IMax ELSE k + 1

Refine(r, cmp, k, branch) ==
    LET c == Canonical(cmp, branch)
    IN  CASE c.op = "Eq" /\ c.taken                -> RangeMeet(r, Exact(k))
          [] c.op \in {"Lt", "Slt"} /\ c.taken     -> RangeMeet(r, Interval(IMin, SatDec(k)))
          [] c.op \in {"Lt", "Slt"} /\ ~c.taken    -> RangeMeet(r, Interval(k, IMax))
          [] c.op \in {"Le", "Sle"} /\ c.taken     -> RangeMeet(r, Interval(IMin, k))
          [] c.op \in {"Le", "Sle"} /\ ~c.taken    -> RangeMeet(r, Interval(SatInc(k), IMax))
          [] OTHER                                 -> r

-----------------------------------------------------------------------------
(***************************************************************************)
(* What the abstract operations stand for: the machine's own arithmetic    *)
(* (AluOp::apply) and comparisons (jump_taken_64) on words.                *)
(***************************************************************************)

\* The word that a sum or a difference of two words wraps to.
Wrap(n) ==
    IF n > IMax THEN n - 2 * (IMax + 1)
    ELSE IF n < IMin THEN n + 2 * (IMax + 1)
    ELSE n

WrappingAdd(x, y) == Wrap(x + y)
WrappingSub(x, y) == Wrap(x - y)

\* cast_unsigned
Unsigned(v) == IF v < 0 THEN v + 2 * (IMax + 1) ELSE v

UnsignedOps == {"Lt", "Le", "Gt", "Ge"}
Comparisons == {"Eq", "Ne", "Slt", "Sle", "Sgt", "Sge"} \cup UnsignedOps

JumpTaken(cmp, v, k) ==
    CASE cmp = "Eq"  -> v = k
      [] cmp = "Ne"  -> v # k
      [] cmp = "Slt" -> v < k
      [] cmp = "Sle" -> v <= k
      [] cmp = "Sgt" -> v > k
      [] cmp = "Sge" -> v >= k
      [] cmp = "Lt"  -> Unsigned(v) < Unsigned(k)
      [] cmp = "Le"  -> Unsigned(v) <= Unsigned(k)
      [] cmp = "Gt"  -> Unsigned(v) > Unsigned(k)
      [] cmp = "Ge"  -> Unsigned(v) >= Unsigned(k)
=============================================================================
