-------------------------------- MODULE Alu --------------------------------
(***************************************************************************)
(* Machine words and the arithmetic of the instruction set                 *)
(* (ebpf-isa/src/insn.rs, `AluOp::apply`; ebpf-vm/src/lib.rs,              *)
(* `jump_taken`).  The interpreter and the constant folder both evaluate   *)
(* with these operators, so they are stated once, for words of eight bytes *)
(* of ByteBits bits each: 8 in the code, fewer in the model-checked        *)
(* instances.                                                              *)
(***************************************************************************)
EXTENDS RangeDomain, FiniteSetsExt

CONSTANT ByteBits   \* 8, the bits of a byte

WordBits == 8 * ByteBits
HalfBits == 4 * ByteBits

ASSUME AluAssumption ==
    /\ ByteBits \in Nat \ {0}
    /\ IMax = 2 ^ (WordBits - 1) - 1
    /\ UMax32 = 2 ^ HalfBits - 1

\* What the proofs use of `^`, which the provers do not know.
ASSUME PowersAssumption ==
    /\ 2 ^ 0 = 1
    /\ \A n \in 0 .. (WordBits - 1) : 2 ^ (n + 1) = 2 * 2 ^ n

\* cast_signed for a word of w bits
Signed(u, w) == IF u >= 2 ^ (w - 1) THEN u - 2 ^ w ELSE u

\* The positions of the 1 bits of an unsigned number, and back.
Bits(u) == {i \in 0 .. (WordBits - 1) : (u \div 2 ^ i) % 2 = 1}
Number(bits) == MapThenSumSet(LAMBDA i : 2 ^ i, bits)

ShiftLeft(u, s, w) == (u % 2 ^ (w - s)) * 2 ^ s
ShiftRight(u, s) == u \div 2 ^ s

\* A product by shifts and sums: no intermediate result is wider than 2w.
Times(l, r, w) == MapThenSumSet(LAMBDA i : ShiftLeft(l, i, w), Bits(r)) % 2 ^ w

\* u16, u32 and u64 swap_bytes: n bytes in the opposite order.
SwapBytes(u, n) ==
    MapThenSumSet(LAMBDA i : ((u \div 2 ^ (i * ByteBits)) % 2 ^ ByteBits) * 2 ^ ((n - 1 - i) * ByteBits),
                  0 .. (n - 1))

\* endian_swap and endian_swap_32.  The immediate names the width; a 32-bit
\* operation asked for 64 bits has only the lower half to swap.
EndWidths == {16, 32, 64}
EndSwap(u, imm, big, w) ==
    LET n == Lesser(imm \div 8, w \div ByteBits)
        masked == u % 2 ^ (n * ByteBits)
    IN  IF big THEN SwapBytes(masked, n) ELSE masked

\* alu64 and alu32 on unsigned operands of w bits: wrapping, division and
\* modulo by zero give zero, shift counts are taken modulo the width.
AluUnsigned(op, l, r, w) ==
    CASE op = "Add"  -> (l + r) % 2 ^ w
      [] op = "Sub"  -> (l - r) % 2 ^ w
      [] op = "Mul"  -> Times(l, r, w)
      [] op = "Div"  -> IF r = 0 THEN 0 ELSE l \div r
      [] op = "Mod"  -> IF r = 0 THEN 0 ELSE l % r
      [] op = "Or"   -> Number(Bits(l) \cup Bits(r))
      [] op = "And"  -> Number(Bits(l) \cap Bits(r))
      [] op = "Xor"  -> Number((Bits(l) \cup Bits(r)) \ (Bits(l) \cap Bits(r)))
      [] op = "Mov"  -> r
      [] op = "Neg"  -> (-l) % 2 ^ w
      [] op = "Lsh"  -> ShiftLeft(l, r % w, w)
      [] op = "Rsh"  -> ShiftRight(l, r % w)
      [] op = "Arsh" -> ShiftRight(Signed(l, w), r % w) % 2 ^ w

EndOps == {"EndLe", "EndBe"}
AluNames == EndOps \cup {"Add", "Sub", "Mul", "Div", "Mod", "Or", "And", "Xor", "Mov", "Neg",
                         "Lsh", "Rsh", "Arsh"}

\* AluOp::apply.  A 32-bit result is zero-extended.
AluApply(op, lhs, rhs, width) ==
    LET w == IF width = 64 THEN WordBits ELSE HalfBits
        l == Unsigned(lhs) % 2 ^ w
        r == Unsigned(rhs) % 2 ^ w
        u == IF op \in EndOps THEN EndSwap(l, rhs, op = "EndBe", w)
             ELSE AluUnsigned(op, l, r, w)
    IN  IF width = 64 THEN Signed(u, w) ELSE u

\* jump_taken: 64-bit comparisons, or 32-bit ones over the low halves.  A call or
\* exit code in any other than its own encoding is a jump that is never taken.
NeverTaken == {"Call", "Exit"}
JumpNames == Comparisons \cup NeverTaken \cup {"Set", "Always"}
JumpTakenW(op, lhs, rhs, width) ==
    LET w == IF width = 64 THEN WordBits ELSE HalfBits
        l == Unsigned(lhs) % 2 ^ w
        r == Unsigned(rhs) % 2 ^ w
    IN  CASE op = "Set"       -> Bits(l) \cap Bits(r) # {}
          [] op \in NeverTaken -> FALSE
          [] op \in {"Lt", "Le", "Gt", "Ge"} -> JumpTaken(op, l, r)
          [] op \in Comparisons \ UnsignedOps -> JumpTaken(op, Signed(l, w), Signed(r, w))
=============================================================================
