----------------------------- MODULE Precision -----------------------------
(***************************************************************************)
(* Where the operators of RangeDomain and RangeBits lose no word.  The     *)
(* verifier checks none of this; what its ranges say holds for the         *)
(* instructions that these conditions let pass.                            *)
(***************************************************************************)
EXTENDS RangeBits

CONSTANT OnlyPrecise   \* leave out what the verifier gets wrong

ASSUME PrecisionAssumption == OnlyPrecise \in BOOLEAN

\* Both bounds have the same sign, so their order as unsigned numbers is the
\* order of the signed ones.
SameSign(r) == IsInterval(r) => r.lo >= 0 \/ r.hi < 0
NonNegative(r) == IsInterval(r) /\ r.lo >= 0

\* The words of the range agree with their lower halves.
FitsHalf(r) == IsInterval(r) => r.lo >= 0 /\ r.hi <= UMax32
\* The lower halves of the range do not wrap more than once.
Narrow(r) == IsInterval(r) => r.hi - r.lo <= UMax32

PreciseOp(op, a, b) ==
    (IsInterval(a) /\ IsInterval(b)) =>
        CASE op \in {"And", "Or"} -> IsExact(a) /\ IsExact(b)
          [] op = "Lsh" -> (b.lo >= 0 /\ b.hi < WordBits) => a.hi <= IMax \div 2 ^ b.hi
          [] op = "Rsh" -> SameSign(a)
          [] OTHER -> TRUE

PreciseAlu(op, a, b, width) ==
    /\ PreciseOp(op, a, b)
    /\ width = 32 =>
          /\ Narrow(RangeResult(op, a, b))
          /\ op = "Rsh" => FitsHalf(a)
          /\ op \in {"Lsh", "Rsh"} /\ IsInterval(b) => b.hi < HalfBits

PreciseJump(op, r, k, width) ==
    /\ op \in UnsignedOps => k >= 0 /\ NonNegative(r)
    /\ width = 32 =>
          \/ op = "Set"
          \/ NonNegative(r) /\ {k, r.hi} \subseteq 0 .. (UMax32 \div 2)
=============================================================================
