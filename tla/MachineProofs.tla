---------------------------- MODULE MachineProofs ----------------------------
(***************************************************************************)
(* Proofs about words and about one step of the machine, for every width,  *)
(* layout and map table: powers of two, remainders, numbers as sums of     *)
(* digits, that every ALU operation returns a word, what the operations    *)
(* the verifier tracks return; what memory and maps answer, and that an    *)
(* instruction keeps the types and the widths of the maps.                 *)
(***************************************************************************)
EXTENDS Machine, ExecProofs

(***************************************************************************)
(* Powers of two, up to the width of a word                                *)
(***************************************************************************)

LEMMA Widths ==
    /\ WordBits \in Nat \ {0} /\ HalfBits \in Nat \ {0} /\ HalfBits < WordBits
    /\ HalfBits + HalfBits = WordBits /\ 8 * ByteBits = WordBits /\ ByteBits \in Nat \ {0}
  BY AluAssumption DEF WordBits, HalfBits

LEMMA PowerStep ==
    /\ 2 ^ 0 = 1
    /\ \A n \in 0 .. (WordBits - 1) : 2 ^ (n + 1) = 2 * 2 ^ n
  BY PowersAssumption

LEMMA PowersAreNumbers == \A n \in 0 .. WordBits : 2 ^ n \in Nat \ {0} /\ n < 2 ^ n
  <1> DEFINE Good == {n \in Nat : n <= WordBits => 2 ^ n \in Nat \ {0} /\ n < 2 ^ n}
  <1>1. 0 \in Good
    BY PowerStep
  <1>2. ASSUME NEW n \in Nat, n \in Good PROVE n + 1 \in Good
    <2>1. ASSUME n + 1 <= WordBits PROVE 2 ^ (n + 1) \in Nat \ {0} /\ n + 1 < 2 ^ (n + 1)
      <3>1. n \in 0 .. (WordBits - 1)
        BY <2>1, Widths
      <3>2. 2 ^ n \in Nat \ {0} /\ n < 2 ^ n
        BY <1>2, <2>1, Widths
      <3>3. 2 ^ (n + 1) = 2 * 2 ^ n
        BY <3>1, PowerStep
      <3>4. PICK k \in Nat : k = 2 ^ n /\ k # 0 /\ n < k
        BY <3>2
      <3>. QED  BY <3>3, <3>4
    <2>. QED  BY <2>1
  <1>3. Inductive(Good)
    <2> HIDE DEF Good
    <2>. QED  BY <1>1, <1>2 DEF Inductive
  <1>4. Nat \subseteq Good
    <2> HIDE DEF Good
    <2>. QED  BY <1>3, NumberInduction
  <1>. QED  BY <1>4, Widths

LEMMA PowersMultiply ==
    ASSUME NEW m \in Nat, NEW n \in Nat, m + n <= WordBits
    PROVE  2 ^ (m + n) = 2 ^ m * 2 ^ n
  <1> DEFINE Good == {k \in Nat : m + k <= WordBits => 2 ^ (m + k) = 2 ^ m * 2 ^ k}
  <1>1. 2 ^ m \in Nat
    BY PowersAreNumbers, Widths
  <1>2. 0 \in Good
    <2>1. m + 0 = m
      OBVIOUS
    <2>. QED  BY <1>1, <2>1, PowerStep
  <1>3. ASSUME NEW k \in Nat, k \in Good PROVE k + 1 \in Good
    <2>1. ASSUME m + (k + 1) <= WordBits PROVE 2 ^ (m + (k + 1)) = 2 ^ m * 2 ^ (k + 1)
      <3>1. m + (k + 1) = m + k + 1 /\ m + k \in 0 .. (WordBits - 1) /\ k \in 0 .. (WordBits - 1)
        BY <2>1, Widths
      <3>2. 2 ^ (m + k + 1) = 2 * 2 ^ (m + k) /\ 2 ^ (k + 1) = 2 * 2 ^ k
        BY <3>1, PowerStep
      <3>3. 2 ^ (m + k) = 2 ^ m * 2 ^ k
        BY <1>3, <3>1, Widths
      <3>4. PICK a \in Nat, b \in Nat : a = 2 ^ m /\ b = 2 ^ k
        BY <1>1, <3>1, Widths, PowersAreNumbers
      <3>5. 2 * (a * b) = a * (2 * b)
        OBVIOUS
      <3>. QED  BY <3>1, <3>2, <3>3, <3>4, <3>5
    <2>. QED  BY <2>1
  <1>4. Inductive(Good)
    <2> HIDE DEF Good
    <2>. QED  BY <1>2, <1>3 DEF Inductive
  <1>5. Nat \subseteq Good
    <2> HIDE DEF Good
    <2>. QED  BY <1>4, NumberInduction
  <1>. QED  BY <1>5

\* The word, its unsigned values and its lower half in powers of two.
LEMMA WordPowers ==
    /\ 2 ^ WordBits = 2 * (IMax + 1) /\ 2 ^ (WordBits - 1) = IMax + 1
    /\ 2 ^ HalfBits = UMax32 + 1 /\ 2 * (IMax + 1) = (UMax32 + 1) * (UMax32 + 1)
    /\ IMax \in Nat \ {0} /\ UMax32 \in Nat \ {0} /\ UMax32 <= IMax
  <1>1. IMax \in Nat \ {0} /\ UMax32 \in Nat \ {0} /\ UMax32 <= IMax
    BY WordAssumption
  <1>2. 2 ^ (WordBits - 1) \in Nat /\ 2 ^ HalfBits \in Nat
    BY PowersAreNumbers, Widths
  <1>3. 2 ^ (WordBits - 1) = IMax + 1 /\ 2 ^ HalfBits = UMax32 + 1
    BY <1>1, <1>2, AluAssumption
  <1>4. WordBits - 1 \in 0 .. (WordBits - 1) /\ WordBits - 1 + 1 = WordBits
    BY Widths
  <1>5. 2 ^ WordBits = 2 * 2 ^ (WordBits - 1)
    BY <1>4, PowerStep
  <1>6. 2 ^ (HalfBits + HalfBits) = 2 ^ HalfBits * 2 ^ HalfBits
    BY Widths, PowersMultiply
  <1>. QED  BY <1>1, <1>3, <1>5, <1>6, Widths

-----------------------------------------------------------------------------
(***************************************************************************)
(* Division                                                                *)
(***************************************************************************)

LEMMA Remainders ==
    ASSUME NEW a \in Int, NEW b \in Nat \ {0}
    PROVE  a % b \in 0 .. (b - 1) /\ a \div b \in Int /\ a = b * (a \div b) + (a % b)
  OBVIOUS

LEMMA RemainderIs ==
    ASSUME NEW b \in Nat \ {0}, NEW q \in Int, NEW r \in 0 .. (b - 1), NEW a, a = q * b + r
    PROVE  a % b = r /\ a \div b = q
  <1>1. a \in Int
    OBVIOUS
  <1>2. PICK p \in Int, s \in 0 .. (b - 1) : p = a \div b /\ s = a % b /\ a = b * p + s
    BY <1>1, Remainders
  <1>3. (q - p) * b = s - r
    BY <1>2
  <1>4. ~ (q - p >= 1)
    <2>1. q - p >= 1 => (q - p) * b >= b
      OBVIOUS
    <2>. QED  BY <1>3, <2>1
  <1>5. ~ (q - p <= -1)
    <2>1. q - p <= -1 => (q - p) * b <= -b
      OBVIOUS
    <2>. QED  BY <1>3, <2>1
  <1>6. q = p
    BY <1>4, <1>5
  <1>. QED  BY <1>2, <1>3, <1>6

LEMMA SmallRemainder ==
    ASSUME NEW b \in Nat \ {0}, NEW a \in 0 .. (b - 1)
    PROVE  a % b = a /\ a \div b = 0
  <1>1. a = 0 * b + a
    OBVIOUS
  <1>. QED  BY <1>1, RemainderIs

LEMMA Quotients ==
    ASSUME NEW a \in Nat, NEW b \in Nat \ {0}
    PROVE  a \div b \in 0 .. a
  OBVIOUS

-----------------------------------------------------------------------------
(***************************************************************************)
(* Words and their unsigned values                                         *)
(***************************************************************************)

LEMMA UnsignedOfWord ==
    ASSUME NEW v \in Word
    PROVE  /\ Unsigned(v) \in 0 .. (2 ^ WordBits - 1)
           /\ Unsigned(v) % 2 ^ WordBits = Unsigned(v)
           /\ Signed(Unsigned(v), WordBits) = v
           /\ v >= 0 => Unsigned(v) = v
  <1>1. v \in Int /\ -IMax - 1 <= v /\ v <= IMax
    BY WordPowers DEF Word, IMin
  <1>2. PICK m \in Nat \ {0} : m = IMax + 1 /\ 2 ^ WordBits = 2 * m /\ 2 ^ (WordBits - 1) = m
    BY WordPowers
  <1>3. Unsigned(v) = IF v < 0 THEN v + 2 * m ELSE v
    BY <1>2 DEF Unsigned
  <1>4. PICK u \in 0 .. (2 * m - 1) : u = Unsigned(v)
    BY <1>1, <1>2, <1>3, WordPowers
  <1>5. Signed(u, WordBits) = IF u >= m THEN u - 2 * m ELSE u
    BY <1>2 DEF Signed
  <1>6. Signed(u, WordBits) = v
    BY <1>1, <1>2, <1>3, <1>4, <1>5, WordPowers
  <1>7. u % (2 * m) = u
    BY SmallRemainder
  <1>. QED  BY <1>1, <1>2, <1>3, <1>4, <1>6, <1>7

LEMMA SignedIsWord ==
    ASSUME NEW u \in 0 .. (2 ^ WordBits - 1)
    PROVE  /\ Signed(u, WordBits) \in Word
           /\ u <= IMax => Signed(u, WordBits) = u
           /\ u > IMax => Signed(u, WordBits) = u - 2 * (IMax + 1)
  <1>1. /\ IMax \in Nat /\ 2 ^ WordBits = 2 * (IMax + 1) /\ 2 ^ (WordBits - 1) = IMax + 1
    BY WordPowers
  <1>2. u \in Nat /\ u <= 2 * IMax + 1
    BY <1>1
  <1>3. Signed(u, WordBits) = IF u >= IMax + 1 THEN u - 2 * (IMax + 1) ELSE u
    BY <1>1 DEF Signed
  <1>. QED  BY <1>1, <1>2, <1>3 DEF Word, IMin

LEMMA HalfIsWord == 0 .. (2 ^ HalfBits - 1) \subseteq Word
  BY WordPowers DEF Word, IMin

\* The lower half of a word does not depend on its reading.
LEMMA LowHalf ==
    ASSUME NEW v \in Word
    PROVE  /\ Unsigned(v) % 2 ^ HalfBits = Low32(v)
           /\ Low32(v) \in 0 .. UMax32
           /\ v \in 0 .. UMax32 => Low32(v) = v
  <1>1. v \in Int /\ IMax \in Nat
    BY WordPowers DEF Word, IMin
  <1>2. PICK m \in Nat \ {0} : m = UMax32 + 1 /\ 2 ^ HalfBits = m /\ 2 * (IMax + 1) = m * m
    BY WordPowers
  <1>3. PICK q \in Int, r \in 0 .. (m - 1) : v = q * m + r /\ r = v % m
    <2>1. v % m \in 0 .. (m - 1) /\ v \div m \in Int /\ v = m * (v \div m) + (v % m)
      BY <1>1, Remainders
    <2>2. PICK q \in Int, r \in 0 .. (m - 1) : q = v \div m /\ r = v % m /\ v = m * q + r
      BY <2>1
    <2>3. m * q = q * m
      OBVIOUS
    <2>. QED  BY <2>2, <2>3
  <1>4. Unsigned(v) % m = r
    <2>1. CASE v >= 0
      BY <1>1, <1>3, <2>1 DEF Unsigned
    <2>2. CASE v < 0
      <3>1. Unsigned(v) = v + m * m
        BY <1>2, <2>2 DEF Unsigned
      <3>2. q * m + r + m * m = (q + m) * m + r /\ q + m \in Int
        OBVIOUS
      <3>3. Unsigned(v) = (q + m) * m + r
        BY <1>3, <3>1, <3>2
      <3>. QED  BY <3>2, <3>3, RemainderIs
    <2>. QED  BY <1>1, <2>1, <2>2
  <1>5. UMax32 \in Nat
    BY WordPowers
  <1>6. v \in 0 .. UMax32 => v % m = v
    BY <1>2, <1>5, SmallRemainder
  <1>. QED  BY <1>2, <1>3, <1>4, <1>5, <1>6 DEF Low32

-----------------------------------------------------------------------------
(***************************************************************************)
(* Numbers as sums of their digits                                         *)
(***************************************************************************)

LEMMA PowersGrow ==
    ASSUME NEW n \in 0 .. WordBits, NEW m \in 0 .. n
    PROVE  2 ^ m <= 2 ^ n
  <1>1. /\ n \in Nat /\ m \in Nat /\ m <= n /\ n <= WordBits /\ n - m \in Nat /\ m + (n - m) = n
    BY Widths
  <1>2. 2 ^ n = 2 ^ m * 2 ^ (n - m)
    BY <1>1, PowersMultiply
  <1>3. 2 ^ m \in Nat \ {0} /\ 2 ^ (n - m) \in Nat \ {0}
    <2>1. m \in 0 .. WordBits /\ n - m \in 0 .. WordBits
      BY <1>1, Widths
    <2>. QED  BY <2>1, PowersAreNumbers
  <1>4. PICK a \in Nat \ {0}, b \in Nat \ {0} : a = 2 ^ m /\ b = 2 ^ (n - m)
    BY <1>3
  <1>5. a <= a * b
    OBVIOUS
  <1>. QED  BY <1>2, <1>4, <1>5

\* `Number` is a sum of powers, whatever order it is taken in.
PowersIn(S) == [i \in S |-> 2 ^ i]

LEMMA NumberIs ==
    ASSUME NEW S, IsFiniteSet(S)
    PROVE  \E f : IsSum(S, PowersIn(S), f) /\ Number(S) = f[S]
  <1> DEFINE weight == PowersIn(S)
             Sum(f) == f = [s \in SUBSET S |->
                              IF s = {} THEN 0 ELSE 2 ^ Pick(s) + f[s \ {Pick(s)}]]
  <1>1. ASSUME NEW f PROVE Sum(f) <=> IsSum(S, weight, f)
    <2>1. \A s \in SUBSET S : s # {} => weight[Pick(s)] = 2 ^ Pick(s)
      BY DEF Pick, PowersIn
    <2> HIDE DEF weight
    <2>2. \A s \in SUBSET S : SumStep(weight, f, s) =
                                 IF s = {} THEN 0 ELSE 2 ^ Pick(s) + f[s \ {Pick(s)}]
      BY <2>1 DEF SumStep
    <2>. QED  BY <2>2, Zenon DEF IsSum
  <1>2. \E f : IsSum(S, weight, f)
    BY SumExists
  <1>3. PICK f : f = (CHOOSE h : Sum(h)) /\ Sum(f)
    <2> HIDE DEF Sum
    <2>. QED  BY <1>1, <1>2
  <1>4. Number(S) = (CHOOSE h : Sum(h))[S]
    BY DEF Number, MapThenSumSet, MapThenFoldSet, Pick
  <1> HIDE DEF Sum
  <1>. QED  BY <1>1, <1>3, <1>4

LEMMA PlacesOfPowers ==
    ASSUME NEW n \in 0 .. WordBits, NEW p, p = [i \in 0 .. WordBits |-> 2 ^ i]
    PROVE  Places(n, p)
  <1>1. \A i \in 0 .. n : i \in 0 .. WordBits /\ p[i] = 2 ^ i /\ 2 ^ i \in Nat
    BY PowersAreNumbers, Widths
  <1>2. ASSUME NEW i \in 0 .. (n - 1) PROVE p[i] <= p[i + 1]
    <2>1. i \in 0 .. n /\ i + 1 \in 0 .. n /\ i + 1 \in 0 .. WordBits /\ i \in 0 .. (i + 1)
      BY Widths
    <2>2. 2 ^ i <= 2 ^ (i + 1)
      BY <2>1, PowersGrow
    <2>. QED  BY <1>1, <2>1, <2>2
  <1>. QED  BY <1>1, <1>2 DEF Places

LEMMA NumberFits ==
    ASSUME NEW n \in 0 .. WordBits, NEW S \in SUBSET (0 .. (n - 1))
    PROVE  Number(S) \in 0 .. (2 ^ n - 1)
  <1>1. IsFiniteSet(S)
    <2>1. IsFiniteSet(0 .. (n - 1))
      BY FS_Interval
    <2>. QED  BY <2>1, FS_Subset
  <1>2. PICK f : IsSum(S, PowersIn(S), f) /\ Number(S) = f[S]
    BY <1>1, NumberIs
  <1>3. PICK p : p = [i \in 0 .. WordBits |-> 2 ^ i]
    OBVIOUS
  <1>4. Places(n, p)
    BY <1>3, PlacesOfPowers
  <1>5. Digits(S, n, PowersIn(S), p)
    <2>1. ASSUME NEW i \in S
          PROVE  /\ i \in 0 .. (n - 1) /\ PowersIn(S)[i] \in Nat
                 /\ PowersIn(S)[i] <= p[i + 1] - p[i]
      <3>1. /\ i \in 0 .. (n - 1) /\ i \in 0 .. (WordBits - 1)
            /\ i \in 0 .. WordBits /\ i + 1 \in 0 .. WordBits
        BY Widths
      <3>2. p[i + 1] = 2 * 2 ^ i /\ p[i] = 2 ^ i /\ PowersIn(S)[i] = 2 ^ i /\ 2 ^ i \in Nat
        BY <1>3, <3>1, PowerStep, PowersAreNumbers DEF PowersIn
      <3>3. PICK k \in Nat : k = 2 ^ i
        BY <3>2
      <3>. QED  BY <3>1, <3>2, <3>3
    <2>. QED  BY <2>1 DEF Digits
  <1>6. f[S] \in 0 .. (p[n] - p[0])
    <2>1. n \in Nat
      OBVIOUS
    <2>. QED  BY <1>1, <1>2, <1>4, <1>5, <2>1, SumBelow
  <1>7. p[0] = 1 /\ p[n] = 2 ^ n
    <2>1. 0 \in 0 .. WordBits
      BY Widths
    <2>. QED  BY <1>3, <2>1, PowerStep
  <1>. QED  BY <1>2, <1>6, <1>7

\* The bits of a number lie below any power that exceeds it.
LEMMA BitsBelow ==
    ASSUME NEW n \in 0 .. WordBits, NEW u \in 0 .. (2 ^ n - 1)
    PROVE  Bits(u) \in SUBSET (0 .. (n - 1))
  <1>1. ASSUME NEW i \in Bits(u), i >= n PROVE FALSE
    <2>1. i \in 0 .. WordBits /\ n \in 0 .. i /\ (u \div 2 ^ i) % 2 = 1
      BY <1>1, Widths DEF Bits
    <2>2. 2 ^ n <= 2 ^ i /\ 2 ^ i \in Nat \ {0} /\ 2 ^ n \in Nat
      BY <2>1, PowersGrow, PowersAreNumbers
    <2>3. PICK d \in Nat \ {0} : d = 2 ^ i /\ u \in 0 .. (d - 1)
      BY <2>2
    <2>4. u \div d = 0
      BY <2>3, SmallRemainder
    <2>5. (0 % 2) # 1
      OBVIOUS
    <2>. QED  BY <2>1, <2>3, <2>4, <2>5
  <1>2. \A i \in Bits(u) : i \in Nat /\ n \in Int
    BY Widths DEF Bits
  <1>. QED  BY <1>1, <1>2

-----------------------------------------------------------------------------
(***************************************************************************)
(* Every operation returns a word                                          *)
(***************************************************************************)

IsWidth(w) == w \in {WordBits, HalfBits}

LEMMA WidthPowers ==
    ASSUME NEW w, IsWidth(w)
    PROVE  /\ w \in Nat \ {0} /\ w \in 0 .. WordBits
           /\ 2 ^ w \in Nat \ {0}
           /\ \A i \in 0 .. w : 2 ^ i \in Nat \ {0} /\ 2 ^ i <= 2 ^ w
  <1>1. w \in Nat \ {0} /\ w \in 0 .. WordBits
    BY Widths DEF IsWidth
  <1>2. \A i \in 0 .. w : i \in 0 .. WordBits
    BY <1>1, Widths
  <1>. QED  BY <1>1, <1>2, PowersAreNumbers, PowersGrow

LEMMA ShiftLeftFits ==
    ASSUME NEW w, IsWidth(w), NEW u \in Nat, NEW s \in 0 .. (w - 1)
    PROVE  ShiftLeft(u, s, w) \in 0 .. (2 ^ w - 1)
  <1>1. w \in Nat /\ s \in Nat /\ w - s \in Nat /\ w - s \in 0 .. w /\ s \in 0 .. w /\ (w - s) + s = w
        /\ w <= WordBits
    BY WidthPowers
  <1>2. PICK a \in Nat \ {0}, b \in Nat \ {0}, c \in Nat : a = 2 ^ (w - s) /\ b = 2 ^ s /\ c = 2 ^ w
    BY <1>1, WidthPowers
  <1>3. c = a * b
    BY <1>1, <1>2, PowersMultiply
  <1>4. PICK r \in 0 .. (a - 1) : r = u % a
    <2>1. u % a \in 0 .. (a - 1)
      BY Remainders
    <2>. QED  BY <2>1
  <1>5. r * b >= 0 /\ r * b <= (a - 1) * b /\ (a - 1) * b = a * b - b /\ r * b \in Int /\ a * b \in Int
    OBVIOUS
  <1>6. ShiftLeft(u, s, w) = r * b
    BY <1>2, <1>4 DEF ShiftLeft
  <1>. QED  BY <1>2, <1>3, <1>5, <1>6

LEMMA TimesFits ==
    ASSUME NEW w, IsWidth(w), NEW l \in Nat, NEW r \in 0 .. (2 ^ w - 1)
    PROVE  Times(l, r, w) \in 0 .. (2 ^ w - 1)
  <1> DEFINE S == Bits(r)
             weight == [i \in S |-> ShiftLeft(l, i, w)]
             Sum(f) == f = [s \in SUBSET S |->
                              IF s = {} THEN 0 ELSE ShiftLeft(l, Pick(s), w) + f[s \ {Pick(s)}]]
  <1>1. S \in SUBSET (0 .. (w - 1)) /\ 2 ^ w \in Nat \ {0}
    BY BitsBelow, WidthPowers
  <1>2. IsFiniteSet(S)
    <2>1. IsFiniteSet(0 .. (w - 1))
      BY WidthPowers, FS_Interval
    <2> HIDE DEF S
    <2>. QED  BY <1>1, <2>1, FS_Subset
  <1>3. ASSUME NEW f PROVE Sum(f) <=> IsSum(S, weight, f)
    <2>1. \A s \in SUBSET S : s # {} => weight[Pick(s)] = ShiftLeft(l, Pick(s), w)
      BY DEF Pick
    <2> HIDE DEF weight, S
    <2>2. \A s \in SUBSET S : SumStep(weight, f, s) =
                                 IF s = {} THEN 0 ELSE ShiftLeft(l, Pick(s), w) + f[s \ {Pick(s)}]
      BY <2>1 DEF SumStep
    <2>. QED  BY <2>2, Zenon DEF IsSum
  <1>4. \E f : IsSum(S, weight, f)
    <2> HIDE DEF weight, S
    <2>. QED  BY <1>2, SumExists
  <1>5. PICK f : f = (CHOOSE h : Sum(h)) /\ Sum(f)
    <2> HIDE DEF Sum, S, weight
    <2>. QED  BY <1>3, <1>4
  <1>6. Times(l, r, w) = (CHOOSE h : Sum(h))[S] % 2 ^ w
    BY DEF Times, MapThenSumSet, MapThenFoldSet, Pick
  <1>7. Weighs(S, weight)
    <2>1. \A i \in S : weight[i] = ShiftLeft(l, i, w) /\ ShiftLeft(l, i, w) \in 0 .. (2 ^ w - 1)
      BY <1>1, ShiftLeftFits
    <2> HIDE DEF weight, S
    <2>. QED  BY <2>1 DEF Weighs
  <1> HIDE DEF Sum, weight, S
  <1>8. IsSum(S, weight, f)
    BY <1>3, <1>5, Zenon
  <1>9. f[S] \in Int
    BY <1>2, <1>7, <1>8, SumTyped
  <1>. QED  BY <1>1, <1>5, <1>6, <1>9, Remainders

\* Bytes in the opposite order: the terms fall between the powers as they are
\* read from the other end.
LEMMA SwapFits ==
    ASSUME NEW n \in 1 .. 8, NEW u \in Nat
    PROVE  SwapBytes(u, n) \in 0 .. (2 ^ (n * ByteBits) - 1)
  <1> DEFINE S == 0 .. (n - 1)
             term(i) == ((u \div 2 ^ (i * ByteBits)) % 2 ^ ByteBits) * 2 ^ ((n - 1 - i) * ByteBits)
             weight == [i \in S |-> term(i)]
             p == [i \in 0 .. n |-> - 2 ^ ((n - i) * ByteBits)]
             Sum(f) == f = [s \in SUBSET S |->
                              IF s = {} THEN 0 ELSE term(Pick(s)) + f[s \ {Pick(s)}]]
  <1>1. IsFiniteSet(S) /\ n \in Nat /\ n <= 8
    BY FS_Interval
  <1>2. \A i \in 0 .. n : /\ i * ByteBits \in 0 .. WordBits
                          /\ 2 ^ (i * ByteBits) \in Nat \ {0}
    <2>1. ASSUME NEW i \in 0 .. n PROVE i * ByteBits \in 0 .. WordBits
      <3>1. PICK b \in Nat : b = ByteBits /\ WordBits = 8 * b
        BY Widths
      <3>2. i * b <= 8 * b /\ i * b >= 0 /\ i * b \in Int
        BY <1>1
      <3>. QED  BY <3>1, <3>2
    <2>. QED  BY <2>1, PowersAreNumbers
  <1>3. ASSUME NEW i \in S
        PROVE  term(i) \in Nat /\ i + 1 \in 0 .. n /\ i \in 0 .. n /\ term(i) <= p[i + 1] - p[i]
    <2>1. /\ i \in 0 .. n /\ i + 1 \in 0 .. n /\ n - 1 - i \in 0 .. n /\ n - i \in 0 .. n
          /\ n - (i + 1) = n - 1 - i /\ 1 \in 0 .. n /\ 1 * ByteBits = ByteBits
      BY <1>1, Widths
    <2>2. PICK radix \in Nat \ {0}, place \in Nat \ {0}, whole \in Nat \ {0}, below \in Nat \ {0} :
             /\ radix = 2 ^ ByteBits /\ place = 2 ^ ((n - 1 - i) * ByteBits)
             /\ whole = 2 ^ ((n - i) * ByteBits) /\ below = 2 ^ (i * ByteBits)
      BY <1>2, <2>1
    <2>3. whole = place * radix
      <3>1. (n - i) * ByteBits = (n - 1 - i) * ByteBits + ByteBits
            /\ (n - 1 - i) * ByteBits \in Nat /\ ByteBits \in Nat
            /\ (n - 1 - i) * ByteBits + ByteBits <= WordBits
        <4>1. PICK b \in Nat, k \in Nat : b = ByteBits /\ k = n - 1 - i /\ n - i = k + 1
          BY <2>1, Widths
        <4>2. (k + 1) * b = k * b + b /\ k * b \in Nat
          OBVIOUS
        <4>3. (n - i) * ByteBits <= WordBits
          BY <1>2, <2>1, Widths
        <4>. QED  BY <4>1, <4>2, <4>3
      <3>. QED  BY <2>2, <3>1, PowersMultiply
    <2>4. PICK d \in 0 .. (radix - 1) : d = (u \div below) % radix
      <3>1. u \div below \in Nat
        BY Quotients
      <3>. QED  BY <3>1, Remainders
    <2>5. term(i) = d * place
      BY <2>2, <2>4
    <2>6. d * place \in Nat /\ d * place <= (radix - 1) * place
          /\ (radix - 1) * place = place * radix - place
      OBVIOUS
    <2>7. p[i + 1] = -place /\ p[i] = -whole
      BY <2>1, <2>2
    <2> HIDE DEF p, term
    <2>. QED  BY <2>1, <2>3, <2>5, <2>6, <2>7
  <1>4. ASSUME NEW f PROVE Sum(f) <=> IsSum(S, weight, f)
    <2>1. \A s \in SUBSET S : s # {} => weight[Pick(s)] = term(Pick(s))
      BY DEF Pick
    <2> HIDE DEF weight, S, term
    <2>2. \A s \in SUBSET S : SumStep(weight, f, s) =
                                 IF s = {} THEN 0 ELSE term(Pick(s)) + f[s \ {Pick(s)}]
      BY <2>1 DEF SumStep
    <2>. QED  BY <2>2, Zenon DEF IsSum
  <1>5. \E f : IsSum(S, weight, f)
    <2> HIDE DEF weight, S
    <2>. QED  BY <1>1, SumExists
  <1>6. PICK f : f = (CHOOSE h : Sum(h)) /\ Sum(f)
    <2> HIDE DEF Sum, S, weight
    <2>. QED  BY <1>4, <1>5
  <1>7. SwapBytes(u, n) = (CHOOSE h : Sum(h))[S]
    BY DEF SwapBytes, MapThenSumSet, MapThenFoldSet, Pick
  <1>8. Places(n, p)
    <2>1. \A i \in 0 .. n : p[i] \in Int
      <3>1. ASSUME NEW i \in 0 .. n PROVE p[i] \in Int
        <4>1. n - i \in 0 .. n
          BY <1>1
        <4>. QED  BY <1>2, <4>1
      <3>. QED  BY <3>1
    <2>2. \A i \in 0 .. (n - 1) : p[i] <= p[i + 1]
      <3>1. ASSUME NEW i \in 0 .. (n - 1) PROVE p[i] <= p[i + 1]
        <4>1. i \in S
          OBVIOUS
        <4> HIDE DEF p, S, term
        <4>2. term(i) \in Nat /\ term(i) <= p[i + 1] - p[i] /\ p[i + 1] \in Int /\ p[i] \in Int
          BY <1>3, <2>1, <4>1
        <4>. QED  BY <4>2
      <3>. QED  BY <3>1
    <2> HIDE DEF p
    <2>. QED  BY <2>1, <2>2 DEF Places
  <1>9. Digits(S, n, weight, p)
    <2>1. \A i \in S : weight[i] = term(i) /\ i \in 0 .. (n - 1)
      OBVIOUS
    <2> HIDE DEF weight, p, term, S
    <2>. QED  BY <1>3, <2>1 DEF Digits
  <1>10. p[0] = - 2 ^ (n * ByteBits) /\ p[n] = -1
    <2>1. n - 0 = n /\ n - n = 0 /\ 0 * ByteBits = 0 /\ 0 \in 0 .. n /\ n \in 0 .. n
      BY <1>1, Widths
    <2>2. (n - n) * ByteBits = 0
      BY <2>1
    <2>. QED  BY <2>1, <2>2, PowerStep
  <1> HIDE DEF Sum, weight, S, p, term
  <1>11. IsSum(S, weight, f)
    BY <1>4, <1>6, Zenon
  <1>12. f[S] \in 0 .. (p[n] - p[0])
    BY <1>1, <1>8, <1>9, <1>11, SumBelow
  <1>13. 2 ^ (n * ByteBits) \in Nat
    BY <1>1, <1>2
  <1>. QED  BY <1>6, <1>7, <1>10, <1>12, <1>13

LEMMA UnsignedClosed ==
    ASSUME NEW w, IsWidth(w), NEW l \in 0 .. (2 ^ w - 1), NEW r \in 0 .. (2 ^ w - 1),
           NEW op \in AluNames \ EndOps
    PROVE  AluUnsigned(op, l, r, w) \in 0 .. (2 ^ w - 1)
  <1>1. /\ w \in Nat \ {0} /\ w \in 0 .. WordBits
        /\ 2 ^ w \in Nat \ {0} /\ \A i \in 0 .. w : 2 ^ i \in Nat \ {0}
    BY WidthPowers
  <1>2. PICK m \in Nat \ {0} : m = 2 ^ w
    BY <1>1
  <1>3. l \in 0 .. (m - 1) /\ r \in 0 .. (m - 1) /\ l \in Nat /\ r \in Nat
    BY <1>2
  <1>4. PICK s \in 0 .. (w - 1) : s = r % w
    <2>1. \A a \in Int : a % w \in 0 .. (w - 1)
      BY <1>1, Remainders
    <2>. QED  BY <1>3, <2>1
  <1>5. \A a \in Int : a % m \in 0 .. (m - 1)
    BY Remainders
  <1>6. CASE op = "Add"
    <2>1. AluUnsigned(op, l, r, w) = (l + r) % m
      BY <1>2, <1>6 DEF AluUnsigned
    <2>. QED  BY <1>2, <1>3, <1>5, <2>1
  <1>7. CASE op = "Sub"
    <2>1. AluUnsigned(op, l, r, w) = (l - r) % m
      BY <1>2, <1>7 DEF AluUnsigned
    <2>. QED  BY <1>2, <1>3, <1>5, <2>1
  <1>8. CASE op = "Mul"
    <2>1. AluUnsigned(op, l, r, w) = Times(l, r, w)
      BY <1>8 DEF AluUnsigned
    <2>. QED  BY <1>3, <2>1, TimesFits
  <1>9. CASE op = "Div"
    <2>1. AluUnsigned(op, l, r, w) = IF r = 0 THEN 0 ELSE l \div r
      BY <1>9 DEF AluUnsigned
    <2>2. r # 0 => l \div r \in 0 .. l
      BY <1>3, Quotients
    <2>. QED  BY <1>2, <1>3, <2>1, <2>2
  <1>10. CASE op = "Mod"
    <2>1. AluUnsigned(op, l, r, w) = IF r = 0 THEN 0 ELSE l % r
      BY <1>10 DEF AluUnsigned
    <2>2. r # 0 => l % r \in 0 .. (r - 1)
      BY <1>3, Remainders
    <2>. QED  BY <1>2, <1>3, <2>1, <2>2
  <1>11. Bits(l) \in SUBSET (0 .. (w - 1)) /\ Bits(r) \in SUBSET (0 .. (w - 1))
    BY <1>1, BitsBelow
  <1>12. \A S \in SUBSET (0 .. (w - 1)) : Number(S) \in 0 .. (2 ^ w - 1)
    BY <1>1, NumberFits
  <1>13. CASE op \in {"Or", "And", "Xor"}
    <2>1. PICK S \in SUBSET (0 .. (w - 1)) : AluUnsigned(op, l, r, w) = Number(S)
      <3>1. CASE op = "Or"
        <4>1. AluUnsigned(op, l, r, w) = Number(Bits(l) \cup Bits(r))
          BY <3>1 DEF AluUnsigned
        <4>2. Bits(l) \cup Bits(r) \in SUBSET (0 .. (w - 1))
          BY <1>11
        <4>. QED  BY <4>1, <4>2, Zenon
      <3>2. CASE op = "And"
        <4>1. AluUnsigned(op, l, r, w) = Number(Bits(l) \cap Bits(r))
          BY <3>2 DEF AluUnsigned
        <4>2. Bits(l) \cap Bits(r) \in SUBSET (0 .. (w - 1))
          BY <1>11
        <4>. QED  BY <4>1, <4>2, Zenon
      <3>3. CASE op = "Xor"
        <4>1. AluUnsigned(op, l, r, w) = Number((Bits(l) \cup Bits(r)) \ (Bits(l) \cap Bits(r)))
          BY <3>3 DEF AluUnsigned
        <4>2. (Bits(l) \cup Bits(r)) \ (Bits(l) \cap Bits(r)) \in SUBSET (0 .. (w - 1))
          BY <1>11
        <4>. QED  BY <4>1, <4>2, Zenon
      <3>. QED  BY <1>13, <3>1, <3>2, <3>3
    <2>. QED  BY <1>12, <2>1
  <1>14. CASE op = "Mov"
    BY <1>14 DEF AluUnsigned
  <1>15. CASE op = "Neg"
    <2>1. AluUnsigned(op, l, r, w) = (-l) % m
      BY <1>2, <1>15 DEF AluUnsigned
    <2>. QED  BY <1>2, <1>3, <1>5, <2>1
  <1>16. CASE op = "Lsh"
    <2>1. AluUnsigned(op, l, r, w) = ShiftLeft(l, s, w)
      BY <1>4, <1>16 DEF AluUnsigned
    <2>. QED  BY <1>3, <2>1, ShiftLeftFits
  <1>17. PICK d \in Nat \ {0} : d = 2 ^ s
    BY <1>1
  <1>18. CASE op = "Rsh"
    <2>1. AluUnsigned(op, l, r, w) = l \div d
      BY <1>4, <1>17, <1>18 DEF AluUnsigned, ShiftRight
    <2>2. l \div d \in 0 .. l
      BY <1>3, Quotients
    <2>. QED  BY <1>2, <1>3, <2>1, <2>2
  <1>19. CASE op = "Arsh"
    <2>1. AluUnsigned(op, l, r, w) = (Signed(l, w) \div d) % m
      BY <1>2, <1>4, <1>17, <1>19 DEF AluUnsigned, ShiftRight
    <2>2. Signed(l, w) \in Int
      BY <1>2, <1>3 DEF Signed
    <2>3. Signed(l, w) \div d \in Int
      BY <2>2, Remainders
    <2>. QED  BY <1>2, <1>5, <2>1, <2>3
  <1>. QED  BY <1>6, <1>7, <1>8, <1>9, <1>10, <1>13, <1>14, <1>15, <1>16, <1>18, <1>19
            DEF AluNames, EndOps

\* A byte swap keeps as many bytes as the width leaves.
LEMMA EndClosed ==
    ASSUME NEW w, IsWidth(w), NEW u \in Nat, NEW imm \in EndWidths, NEW big \in BOOLEAN
    PROVE  EndSwap(u, imm, big, w) \in 0 .. (2 ^ w - 1)
  <1>1. PICK k \in {4, 8} : w = k * ByteBits
    BY DEF IsWidth, WordBits, HalfBits
  <1>2. PICK b \in Nat \ {0} : b = ByteBits
    BY Widths
  <1>3. w \div b = k
    <2>1. k * b = k * b + 0 /\ 0 \in 0 .. (b - 1) /\ k \in Int
      OBVIOUS
    <2>. QED  BY <1>1, <1>2, <2>1, RemainderIs
  <1>4. imm \div 8 \in {2, 4, 8}
    BY DEF EndWidths
  <1>5. PICK n \in {2, 4, 8} : n = Lesser(imm \div 8, w \div ByteBits) /\ n <= k
    BY <1>2, <1>3, <1>4 DEF Lesser
  <1>6. n * ByteBits \in 0 .. w
    <2>1. \A i \in Nat : n + i = k => n * b + i * b = k * b /\ n * b \in Nat /\ i * b \in Nat
      OBVIOUS
    <2>2. k - n \in Nat /\ n + (k - n) = k
      BY <1>5
    <2>. QED  BY <1>1, <1>2, <2>1, <2>2
  <1>7. PICK m \in Nat \ {0} : m = 2 ^ (n * ByteBits) /\ m <= 2 ^ w /\ 2 ^ w \in Nat
    BY <1>6, WidthPowers
  <1>8. PICK masked \in 0 .. (m - 1) : masked = u % 2 ^ (n * ByteBits)
    <2>1. u % m \in 0 .. (m - 1)
      BY Remainders
    <2>. QED  BY <1>7, <2>1
  <1>9. EndSwap(u, imm, big, w) = IF big THEN SwapBytes(masked, n) ELSE masked
    BY <1>5, <1>8 DEF EndSwap
  <1>10. SwapBytes(masked, n) \in 0 .. (2 ^ (n * ByteBits) - 1)
    <2>1. n \in 1 .. 8 /\ masked \in Nat
      OBVIOUS
    <2>. QED  BY <2>1, SwapFits
  <1>. QED  BY <1>7, <1>8, <1>9, <1>10

\* AluOp::apply is total on words: whatever the operation, a word comes back.
THEOREM AluClosed ==
    ASSUME NEW op \in AluNames, NEW x \in Word, NEW y \in Word, NEW width \in {32, 64},
           op \in EndOps => y \in EndWidths
    PROVE  /\ AluApply(op, x, y, width) \in Word
           /\ width = 32 => AluApply(op, x, y, width) \in 0 .. UMax32
  <1>1. PICK w : w = (IF width = 64 THEN WordBits ELSE HalfBits) /\ IsWidth(w)
    BY DEF IsWidth
  <1>2. PICK m \in Nat \ {0} : m = 2 ^ w
    BY <1>1, WidthPowers
  <1>3. Unsigned(x) \in Int /\ Unsigned(y) \in Int
    BY UnsignedOfWord, WordPowers
  <1>4. PICK l \in 0 .. (m - 1), r \in 0 .. (m - 1) : l = Unsigned(x) % m /\ r = Unsigned(y) % m
    <2>1. Unsigned(x) % m \in 0 .. (m - 1) /\ Unsigned(y) % m \in 0 .. (m - 1)
      BY <1>3, Remainders
    <2>. QED  BY <2>1
  <1>5. PICK u : u = IF op \in EndOps THEN EndSwap(l, y, op = "EndBe", w)
                     ELSE AluUnsigned(op, l, r, w)
    OBVIOUS
  <1>6. u \in 0 .. (2 ^ w - 1)
    <2>1. CASE op \in EndOps
      <3>1. l \in Nat /\ (op = "EndBe") \in BOOLEAN /\ y \in EndWidths
        BY <2>1
      <3>2. EndSwap(l, y, op = "EndBe", w) \in 0 .. (2 ^ w - 1)
        BY <1>1, <3>1, EndClosed
      <3>. QED  BY <1>5, <2>1, <3>2
    <2>2. CASE op \notin EndOps
      <3>1. op \in AluNames \ EndOps /\ l \in 0 .. (2 ^ w - 1) /\ r \in 0 .. (2 ^ w - 1)
        BY <1>2, <2>2
      <3>2. AluUnsigned(op, l, r, w) \in 0 .. (2 ^ w - 1)
        BY <1>1, <3>1, UnsignedClosed
      <3>. QED  BY <1>5, <2>2, <3>2
    <2>. QED  BY <2>1, <2>2
  <1>7. AluApply(op, x, y, width) = IF width = 64 THEN Signed(u, w) ELSE u
    BY <1>1, <1>2, <1>4, <1>5 DEF AluApply
  <1>8. CASE width = 64
    <2>1. w = WordBits
      BY <1>1, <1>8
    <2>. QED  BY <1>6, <1>7, <1>8, <2>1, SignedIsWord
  <1>9. CASE width = 32
    <2>1. w = HalfBits
      BY <1>1, <1>9
    <2>. QED  BY <1>6, <1>7, <1>9, <2>1, HalfIsWord, WordPowers
  <1>. QED  BY <1>8, <1>9

-----------------------------------------------------------------------------
(***************************************************************************)
(* 64-bit results, and the 32-bit ones as their lower halves               *)
(***************************************************************************)

LEMMA UnsignedOfSigned ==
    ASSUME NEW u \in 0 .. (2 ^ WordBits - 1)
    PROVE  Unsigned(Signed(u, WordBits)) = u
  <1>1. PICK m \in Nat \ {0} : m = IMax + 1 /\ 2 ^ WordBits = 2 * m /\ 2 ^ (WordBits - 1) = m
    BY WordPowers
  <1>2. u \in Nat /\ u < 2 * m
    BY <1>1
  <1>3. CASE u < m
    <2>1. Signed(u, WordBits) = u
      BY <1>1, <1>2, <1>3 DEF Signed
    <2>. QED  BY <1>2, <2>1 DEF Unsigned
  <1>4. CASE u >= m
    <2>1. Signed(u, WordBits) = u - 2 * m
      BY <1>1, <1>4 DEF Signed
    <2>2. u - 2 * m < 0 /\ u - 2 * m + 2 * m = u
      BY <1>2
    <2>. QED  BY <1>1, <2>1, <2>2 DEF Unsigned
  <1>. QED  BY <1>2, <1>3, <1>4

LEMMA Apply ==
    ASSUME NEW op \in AluNames \ EndOps, NEW x \in Word, NEW y \in Word
    PROVE  /\ AluUnsigned(op, Unsigned(x), Unsigned(y), WordBits) \in 0 .. (2 ^ WordBits - 1)
           /\ AluApply(op, x, y, 64) = Signed(AluUnsigned(op, Unsigned(x), Unsigned(y), WordBits), WordBits)
           /\ AluApply(op, x, y, 32) = AluUnsigned(op, Low32(x), Low32(y), HalfBits)
           /\ Low32(AluApply(op, x, y, 64))
                 = AluUnsigned(op, Unsigned(x), Unsigned(y), WordBits) % 2 ^ HalfBits
  <1>1. /\ Unsigned(x) \in 0 .. (2 ^ WordBits - 1) /\ Unsigned(y) \in 0 .. (2 ^ WordBits - 1)
        /\ Unsigned(x) % 2 ^ WordBits = Unsigned(x) /\ Unsigned(y) % 2 ^ WordBits = Unsigned(y)
    BY UnsignedOfWord
  <1>2. Unsigned(x) % 2 ^ HalfBits = Low32(x) /\ Unsigned(y) % 2 ^ HalfBits = Low32(y)
    BY LowHalf
  <1>3. PICK u : u = AluUnsigned(op, Unsigned(x), Unsigned(y), WordBits)
    OBVIOUS
  <1>4. u \in 0 .. (2 ^ WordBits - 1)
    <2>1. IsWidth(WordBits)
      BY DEF IsWidth
    <2>. QED  BY <1>1, <1>3, <2>1, UnsignedClosed
  <1>5. AluApply(op, x, y, 64) = Signed(u, WordBits)
    BY <1>1, <1>3 DEF AluApply
  <1>6. AluApply(op, x, y, 32) = AluUnsigned(op, Low32(x), Low32(y), HalfBits)
    BY <1>2 DEF AluApply
  <1>7. Low32(Signed(u, WordBits)) = u % 2 ^ HalfBits
    <2>1. PICK v \in Word : v = Signed(u, WordBits) /\ Unsigned(v) = u
      BY <1>4, SignedIsWord, UnsignedOfSigned
    <2>2. Unsigned(v) % 2 ^ HalfBits = Low32(v)
      BY LowHalf
    <2>. QED  BY <2>1, <2>2
  <1>. QED  BY <1>3, <1>4, <1>5, <1>6, <1>7

LEMMA MovResult ==
    ASSUME NEW x \in Word, NEW y \in Word
    PROVE  AluApply("Mov", x, y, 64) = y /\ AluApply("Mov", x, y, 32) = Low32(y)
  <1>1. "Mov" \in AluNames \ EndOps
    BY DEF AluNames, EndOps
  <1>2. \A l, r, w : AluUnsigned("Mov", l, r, w) = r
    BY DEF AluUnsigned
  <1>. QED  BY <1>1, <1>2, Apply, UnsignedOfWord

\* Equal up to a multiple of m.
LEMMA SameRemainder ==
    ASSUME NEW m \in Nat \ {0}, NEW a \in Int, NEW b \in Int, NEW k \in Int, a = b + k * m
    PROVE  a % m = b % m
  <1>1. PICK q \in Int, r \in 0 .. (m - 1) : r = b % m /\ b = m * q + r
    BY Remainders
  <1>2. a = (q + k) * m + r /\ q + k \in Int
    <2>1. m * q + r + k * m = (q + k) * m + r
      OBVIOUS
    <2>. QED  BY <1>1, <2>1
  <1>3. a % m = r
    BY <1>2, RemainderIs
  <1>. QED  BY <1>1, <1>3

LEMMA AddResult ==
    ASSUME NEW x \in Word, NEW y \in Word
    PROVE  /\ AluApply("Add", x, y, 64) = WrappingAdd(x, y)
           /\ AluApply("Add", x, y, 32) = Low32(WrappingAdd(x, y))
  <1>0. "Add" \in AluNames \ EndOps
    BY DEF AluNames, EndOps
  <1>1. \A l, r, w : AluUnsigned("Add", l, r, w) = (l + r) % 2 ^ w
    BY DEF AluUnsigned
  <1>2. PICK n \in Nat \ {0}, m \in Nat \ {0} :
           /\ n = IMax + 1 /\ 2 ^ WordBits = 2 * n /\ 2 ^ (WordBits - 1) = n
           /\ m = UMax32 + 1 /\ 2 ^ HalfBits = m /\ 2 * n = m * m
    BY WordPowers
  <1>3. PICK X \in 0 .. (2 * n - 1), Y \in 0 .. (2 * n - 1) : X = Unsigned(x) /\ Y = Unsigned(y)
    BY <1>2, UnsignedOfWord
  <1>4. /\ x \in Int /\ y \in Int /\ -n <= x /\ x < n /\ -n <= y /\ y < n
        /\ X = (IF x < 0 THEN x + 2 * n ELSE x) /\ Y = (IF y < 0 THEN y + 2 * n ELSE y)
    <2>1. IMax \in Int /\ n = IMax + 1
      BY <1>2, WordPowers
    <2>. QED  BY <1>2, <1>3, <2>1 DEF Word, IMin, Unsigned
  <1>5. PICK t \in 0 .. (2 * n - 1), k \in Int : t = (X + Y) % (2 * n) /\ X + Y = k * (2 * n) + t
    <2>1. PICK d \in Nat \ {0} : d = 2 * n
      OBVIOUS
    <2>2. PICK k \in Int, t \in 0 .. (d - 1) : t = (X + Y) % d /\ X + Y = d * k + t
      <3>1. X + Y \in Int
        OBVIOUS
      <3>. QED  BY <3>1, Remainders
    <2>3. d * k = k * d
      OBVIOUS
    <2>. QED  BY <2>1, <2>2, <2>3
  <1>6. Signed(t, WordBits) = IF t >= n THEN t - 2 * n ELSE t
    BY <1>2 DEF Signed
  <1>7. WrappingAdd(x, y) = IF x + y >= n THEN x + y - 2 * n ELSE IF x + y < -n THEN x + y + 2 * n ELSE x + y
    <2>1. IMax = n - 1 /\ IMin = -n
      BY <1>2, WordPowers DEF IMin
    <2>. QED  BY <1>2, <1>4, <2>1 DEF WrappingAdd, Wrap
  <1>8. k \in {0, 1}
    <2>1. X + Y >= 0 /\ X + Y < 4 * n
      OBVIOUS
    <2>2. k >= 2 => k * (2 * n) >= 4 * n
      OBVIOUS
    <2>3. k <= -1 => k * (2 * n) <= -(2 * n)
      OBVIOUS
    <2>. QED  BY <1>5, <2>1, <2>2, <2>3
  <1>9. Signed(t, WordBits) = WrappingAdd(x, y)
    <2>1. CASE k = 0
      <3>1. X + Y = t
        BY <1>5, <2>1
      <3>2. CASE x >= 0 /\ y >= 0
        BY <1>4, <1>6, <1>7, <3>1, <3>2
      <3>3. CASE x < 0 /\ y >= 0
        BY <1>4, <1>6, <1>7, <3>1, <3>3
      <3>4. CASE x >= 0 /\ y < 0
        BY <1>4, <1>6, <1>7, <3>1, <3>4
      <3>5. CASE x < 0 /\ y < 0
        BY <1>4, <1>6, <1>7, <3>1, <3>5
      <3>. QED  BY <1>4, <3>2, <3>3, <3>4, <3>5
    <2>2. CASE k = 1
      <3>1. X + Y = t + 2 * n
        BY <1>5, <2>2
      <3>2. CASE x >= 0 /\ y >= 0
        BY <1>4, <1>6, <1>7, <3>1, <3>2
      <3>3. CASE x < 0 /\ y >= 0
        BY <1>4, <1>6, <1>7, <3>1, <3>3
      <3>4. CASE x >= 0 /\ y < 0
        BY <1>4, <1>6, <1>7, <3>1, <3>4
      <3>5. CASE x < 0 /\ y < 0
        BY <1>4, <1>6, <1>7, <3>1, <3>5
      <3>. QED  BY <1>4, <3>2, <3>3, <3>4, <3>5
    <2>. QED  BY <1>8, <2>1, <2>2
  <1>10. AluApply("Add", x, y, 64) = WrappingAdd(x, y)
    BY <1>0, <1>1, <1>2, <1>3, <1>5, <1>9, Apply
  <1>11. Low32(AluApply("Add", x, y, 64)) = t % m
    BY <1>0, <1>1, <1>2, <1>3, <1>5, Apply
  <1>12. AluApply("Add", x, y, 32) = (Low32(x) + Low32(y)) % m
    BY <1>0, <1>1, <1>2, Apply
  <1>13. t % m = (Low32(x) + Low32(y)) % m
    <2>0. ASSUME NEW a \in Int PROVE \E p \in Int, l \in Int : l = a % m /\ a = m * p + l
      <3>1. PICK p \in Int, l \in Int : p = a \div m /\ l = a % m
        <4>1. a % m \in 0 .. (m - 1) /\ a \div m \in Int
          BY Remainders
        <4>. QED  BY <4>1
      <3>2. a = m * p + l
        BY <3>1, Remainders
      <3>. QED  BY <3>1, <3>2
    <2>1. PICK l \in Int, p \in Int : l = Low32(x) /\ X = m * p + l
      <3>1. X % m = Low32(x)
        BY <1>2, <1>3, LowHalf
      <3>2. X \in Int
        OBVIOUS
      <3>. QED  BY <2>0, <3>1, <3>2
    <2>2. PICK r \in Int, q \in Int : r = Low32(y) /\ Y = m * q + r
      <3>1. Y % m = Low32(y)
        BY <1>2, <1>3, LowHalf
      <3>2. Y \in Int
        OBVIOUS
      <3>. QED  BY <2>0, <3>1, <3>2
    <2>3. t = m * p + l + (m * q + r) - k * (m * m)
      BY <1>2, <1>5, <2>1, <2>2
    <2>4. m * p + l + (m * q + r) - k * (m * m) = (l + r) + (p + q - k * m) * m
          /\ p + q - k * m \in Int
      OBVIOUS
    <2>5. l + r \in Int /\ t \in Int
      OBVIOUS
    <2>6. PICK b \in Int, j \in Int : b = l + r /\ j = p + q - k * m
      OBVIOUS
    <2>7. t = b + j * m
      BY <2>3, <2>4, <2>6
    <2>8. t % m = b % m
      BY <2>5, <2>7, SameRemainder
    <2>. QED  BY <2>1, <2>2, <2>6, <2>8
  <1>. QED  BY <1>10, <1>11, <1>12, <1>13

LEMMA SubResult ==
    ASSUME NEW x \in Word, NEW y \in Word
    PROVE  AluApply("Sub", x, y, 64) = WrappingSub(x, y)
  <1>0. "Sub" \in AluNames \ EndOps
    BY DEF AluNames, EndOps
  <1>1. \A l, r, w : AluUnsigned("Sub", l, r, w) = (l - r) % 2 ^ w
    BY DEF AluUnsigned
  <1>2. PICK n \in Nat \ {0}, m \in Nat \ {0} :
           /\ n = IMax + 1 /\ 2 ^ WordBits = 2 * n /\ 2 ^ (WordBits - 1) = n
           /\ m = UMax32 + 1 /\ 2 ^ HalfBits = m /\ 2 * n = m * m
    BY WordPowers
  <1>3. PICK X \in 0 .. (2 * n - 1), Y \in 0 .. (2 * n - 1) : X = Unsigned(x) /\ Y = Unsigned(y)
    BY <1>2, UnsignedOfWord
  <1>4. /\ x \in Int /\ y \in Int /\ -n <= x /\ x < n /\ -n <= y /\ y < n
        /\ X = (IF x < 0 THEN x + 2 * n ELSE x) /\ Y = (IF y < 0 THEN y + 2 * n ELSE y)
    <2>1. IMax \in Int /\ n = IMax + 1
      BY <1>2, WordPowers
    <2>. QED  BY <1>2, <1>3, <2>1 DEF Word, IMin, Unsigned
  <1>5. PICK t \in 0 .. (2 * n - 1), k \in Int : t = (X - Y) % (2 * n) /\ X - Y = k * (2 * n) + t
    <2>1. PICK d \in Nat \ {0} : d = 2 * n
      OBVIOUS
    <2>2. PICK k \in Int, t \in 0 .. (d - 1) : t = (X - Y) % d /\ X - Y = d * k + t
      <3>1. X - Y \in Int
        OBVIOUS
      <3>. QED  BY <3>1, Remainders
    <2>3. d * k = k * d
      OBVIOUS
    <2>. QED  BY <2>1, <2>2, <2>3
  <1>6. Signed(t, WordBits) = IF t >= n THEN t - 2 * n ELSE t
    BY <1>2 DEF Signed
  <1>7. WrappingSub(x, y) = IF x - y >= n THEN x - y - 2 * n ELSE IF x - y < -n THEN x - y + 2 * n ELSE x - y
    <2>1. IMax = n - 1 /\ IMin = -n
      BY <1>2, WordPowers DEF IMin
    <2>. QED  BY <1>2, <1>4, <2>1 DEF WrappingSub, Wrap
  <1>8. k \in {0, -1}
    <2>1. X - Y > -(2 * n) /\ X - Y < 2 * n
      OBVIOUS
    <2>2. k >= 1 => k * (2 * n) >= 2 * n
      OBVIOUS
    <2>3. k <= -2 => k * (2 * n) <= -(4 * n)
      OBVIOUS
    <2>. QED  BY <1>5, <2>1, <2>2, <2>3
  <1>9. Signed(t, WordBits) = WrappingSub(x, y)
    <2>1. CASE k = 0
      <3>1. X - Y = t
        BY <1>5, <2>1
      <3>2. CASE x >= 0 /\ y >= 0
        BY <1>4, <1>6, <1>7, <3>1, <3>2
      <3>3. CASE x < 0 /\ y >= 0
        BY <1>4, <1>6, <1>7, <3>1, <3>3
      <3>4. CASE x >= 0 /\ y < 0
        BY <1>4, <1>6, <1>7, <3>1, <3>4
      <3>5. CASE x < 0 /\ y < 0
        BY <1>4, <1>6, <1>7, <3>1, <3>5
      <3>. QED  BY <1>4, <3>2, <3>3, <3>4, <3>5
    <2>2. CASE k = -1
      <3>1. X - Y = t - 2 * n
        BY <1>5, <2>2
      <3>2. CASE x >= 0 /\ y >= 0
        BY <1>4, <1>6, <1>7, <3>1, <3>2
      <3>3. CASE x < 0 /\ y >= 0
        BY <1>4, <1>6, <1>7, <3>1, <3>3
      <3>4. CASE x >= 0 /\ y < 0
        BY <1>4, <1>6, <1>7, <3>1, <3>4
      <3>5. CASE x < 0 /\ y < 0
        BY <1>4, <1>6, <1>7, <3>1, <3>5
      <3>. QED  BY <1>4, <3>2, <3>3, <3>4, <3>5
    <2>. QED  BY <1>8, <2>1, <2>2
  <1>10. AluApply("Sub", x, y, 64) = WrappingSub(x, y)
    BY <1>0, <1>1, <1>2, <1>3, <1>5, <1>9, Apply
  <1>. QED  BY <1>10

\* The lower bits of a number are those of its remainder, and the other way
\* around.
LEMMA NumberLow ==
    ASSUME NEW S \in SUBSET (0 .. (WordBits - 1))
    PROVE  Number(S) % 2 ^ HalfBits = Number(S \cap (0 .. (HalfBits - 1)))
  <1> DEFINE T == 0 .. (HalfBits - 1)
  <1>1. IsFiniteSet(S) /\ IsFiniteSet(S \cap T)
    <2>1. IsFiniteSet(0 .. (WordBits - 1))
      BY Widths, FS_Interval
    <2>2. S \cap T \in SUBSET (0 .. (WordBits - 1))
      OBVIOUS
    <2> HIDE DEF T
    <2>. QED  BY <2>1, <2>2, FS_Subset
  <1>2. PICK f : IsSum(S, PowersIn(S), f) /\ Number(S) = f[S]
    BY <1>1, NumberIs
  <1>3. PICK g : IsSum(S \cap T, PowersIn(S \cap T), g) /\ Number(S \cap T) = g[S \cap T]
    <2> HIDE DEF T
    <2>. QED  BY <1>1, NumberIs
  <1>4. \A x \in S : x \in 0 .. WordBits /\ x \in Nat /\ x < WordBits
    BY Widths
  <1>5. Weighs(S, PowersIn(S))
    BY <1>4, PowersAreNumbers DEF Weighs, PowersIn
  <1>6. Accumulates(S, PowersIn(S), f)
    BY <1>1, <1>2, <1>5, SumAccumulates
  <1>7. g[S \cap T] = f[S \cap T]
    <2>1. \A x \in S \cap T : PowersIn(S)[x] = PowersIn(S \cap T)[x]
      BY DEF PowersIn
    <2>2. \A s \in SUBSET (S \cap T) : s \in SUBSET S
      OBVIOUS
    <2> HIDE DEF T
    <2>3. Accumulates(S \cap T, PowersIn(S \cap T), f)
      BY <1>6, <2>1, <2>2 DEF Accumulates
    <2>. QED  BY <1>1, <1>3, <2>3, SumIs
  <1>8. PICK m \in Nat \ {0} : m = 2 ^ HalfBits
    BY WordPowers
  <1>9. Divides(S, T, PowersIn(S), m)
    <2>1. ASSUME NEW x \in S \ T PROVE \E q \in Int : PowersIn(S)[x] = q * m
      <3>1. PICK k \in Nat : k + HalfBits = x /\ k \in 0 .. WordBits /\ HalfBits \in Nat
                             /\ k + HalfBits <= WordBits
        <4>1. HalfBits \in Nat /\ x >= HalfBits
          BY <1>4, Widths
        <4>. QED  BY <1>4, <4>1, Widths
      <3>2. 2 ^ x = 2 ^ k * 2 ^ HalfBits
        BY <3>1, PowersMultiply
      <3>3. PICK q \in Int : q = 2 ^ k
        BY <3>1, PowersAreNumbers
      <3>. QED  BY <1>8, <3>2, <3>3 DEF PowersIn
    <2>. QED  BY <2>1 DEF Divides
  <1>10. PICK q \in Int : f[S] = f[S \cap T] + q * m
    <2> HIDE DEF T
    <2>1. m \in Int
      OBVIOUS
    <2>2. PICK w : w = PowersIn(S)
      OBVIOUS
    <2>3. IsFiniteSet(S)
      BY <1>1
    <2>4. Weighs(S, w)
      BY <1>5, <2>2
    <2>5. IsSum(S, w, f)
      BY <1>2, <2>2
    <2>6. Divides(S, T, w, m)
      BY <1>9, <2>2
    <2>7. Congruent(f[S], f[S \cap T], m)
      BY <2>1, <2>3, <2>4, <2>5, <2>6, SumModulo
    <2>. QED  BY <2>7 DEF Congruent
  <1>11. Number(S \cap T) \in 0 .. (m - 1)
    <2>1. S \cap T \in SUBSET (0 .. (HalfBits - 1)) /\ HalfBits \in 0 .. WordBits
      BY Widths
    <2> HIDE DEF T
    <2>. QED  BY <1>8, <2>1, NumberFits
  <1> HIDE DEF T
  <1>12. PICK r \in 0 .. (m - 1) : r = Number(S \cap T) /\ Number(S) = q * m + r
    <2>1. PICK r \in 0 .. (m - 1) : r = Number(S \cap T)
      BY <1>11
    <2>2. Number(S) = r + q * m
      BY <1>2, <1>3, <1>7, <1>10, <2>1
    <2>3. r + q * m = q * m + r
      OBVIOUS
    <2>. QED  BY <2>1, <2>2, <2>3
  <1>13. Number(S) % m = r
    <2>1. PICK n \in Int : n = Number(S) /\ n = q * m + r
      BY <1>12
    <2>2. n % m = r
      BY <2>1, RemainderIs
    <2>. QED  BY <2>1, <2>2
  <1>. QED  BY <1>8, <1>12, <1>13 DEF T

LEMMA BitsLow ==
    ASSUME NEW u \in 0 .. (2 ^ WordBits - 1)
    PROVE  Bits(u % 2 ^ HalfBits) = Bits(u) \cap (0 .. (HalfBits - 1))
  <1>0. PICK m \in Nat \ {0} : m = 2 ^ HalfBits
    BY WordPowers
  <1>1. PICK q \in Int, r \in 0 .. (m - 1) : r = u % m /\ u = m * q + r
    <2>1. u \in Int
      BY WordPowers
    <2>2. PICK q \in Int, r \in 0 .. (m - 1) : q = u \div m /\ r = u % m
      <3>1. u \div m \in Int /\ u % m \in 0 .. (m - 1)
        BY <2>1, Remainders
      <3>. QED  BY <3>1
    <2>3. u = m * q + r
      BY <2>1, <2>2, Remainders
    <2>. QED  BY <2>2, <2>3
  <1>2. Bits(r) \in SUBSET (0 .. (HalfBits - 1))
    <2>1. HalfBits \in 0 .. WordBits
      BY Widths
    <2>. QED  BY <1>0, <2>1, BitsBelow
  <1>3. ASSUME NEW i \in 0 .. (HalfBits - 1)
        PROVE  (r \div 2 ^ i) % 2 = (u \div 2 ^ i) % 2
    <2>1. /\ i \in Nat /\ i \in 0 .. WordBits
          /\ HalfBits - 1 - i \in Nat /\ HalfBits - 1 - i \in 0 .. (WordBits - 1)
          /\ i + (HalfBits - 1 - i + 1) = HalfBits /\ HalfBits <= WordBits
      BY Widths
    <2>2. PICK d \in Nat \ {0}, e \in Nat \ {0} : d = 2 ^ i /\ e = 2 ^ (HalfBits - 1 - i)
      <3>1. HalfBits - 1 - i \in 0 .. WordBits
        BY <2>1, Widths
      <3>. QED  BY <2>1, <3>1, PowersAreNumbers
    <2>3. m = d * (2 * e)
      <3>1. PICK h \in Nat : h = HalfBits - 1 - i + 1
        BY <2>1
      <3>2. 2 ^ h = 2 * e
        BY <2>1, <2>2, <3>1, PowerStep
      <3>3. i + h = HalfBits /\ i + h <= WordBits
        BY <2>1, <3>1
      <3>4. 2 ^ (i + h) = 2 ^ i * 2 ^ h
        BY <2>1, <3>3, PowersMultiply
      <3>. QED  BY <1>0, <2>2, <3>2, <3>3, <3>4
    <2>4. PICK a \in Int, b \in 0 .. (d - 1) : a = r \div d /\ r = d * a + b
      <3>1. PICK a \in Int, b \in 0 .. (d - 1) : a = r \div d /\ b = r % d
        <4>1. r \div d \in Int /\ r % d \in 0 .. (d - 1)
          BY Remainders
        <4>. QED  BY <4>1
      <3>2. r = d * a + b
        BY <3>1, Remainders
      <3>. QED  BY <3>1, <3>2
    <2>5. PICK k \in Int : k = e * q
      OBVIOUS
    <2>6. u = (2 * k + a) * d + b
      <3>1. u = (d * (2 * e)) * q + (d * a + b)
        BY <1>1, <2>3, <2>4
      <3>2. (d * (2 * e)) * q + (d * a + b) = (2 * (e * q) + a) * d + b
        OBVIOUS
      <3>. QED  BY <2>5, <3>1, <3>2
    <2>7. u \div d = 2 * k + a
      <3>1. PICK p \in Int : p = 2 * k + a
        OBVIOUS
      <3>2. u = p * d + b
        BY <2>6, <3>1, Zenon
      <3>3. u \div d = p
        BY <3>2, RemainderIs
      <3>. QED  BY <3>1, <3>3
    <2>8. (2 * k + a) % 2 = a % 2
      OBVIOUS
    <2>. QED  BY <2>2, <2>4, <2>7, <2>8
  <1>4. \A i \in 0 .. (HalfBits - 1) : i \in 0 .. (WordBits - 1)
    BY Widths
  <1>5. Bits(r) = Bits(u) \cap (0 .. (HalfBits - 1))
    BY <1>2, <1>3, <1>4 DEF Bits
  <1>. QED  BY <1>0, <1>1, <1>5

LEMMA BitwiseResult ==
    ASSUME NEW op \in {"And", "Or"}, NEW x \in Word, NEW y \in Word
    PROVE  AluApply(op, x, y, 32) = Low32(AluApply(op, x, y, 64))
  <1> DEFINE Result(S, R) == IF op = "And" THEN S \cap R ELSE S \cup R
             low == 0 .. (HalfBits - 1)
  <1>1. op \in AluNames \ EndOps
    BY DEF AluNames, EndOps
  <1>2. \A l, r, w : AluUnsigned(op, l, r, w) = Number(Result(Bits(l), Bits(r)))
    BY DEF AluUnsigned
  <1>3. /\ Unsigned(x) \in 0 .. (2 ^ WordBits - 1) /\ Unsigned(y) \in 0 .. (2 ^ WordBits - 1)
        /\ Unsigned(x) % 2 ^ HalfBits = Low32(x) /\ Unsigned(y) % 2 ^ HalfBits = Low32(y)
    BY UnsignedOfWord, LowHalf
  <1>4. /\ Bits(Low32(x)) = Bits(Unsigned(x)) \cap low
        /\ Bits(Low32(y)) = Bits(Unsigned(y)) \cap low
    BY <1>3, BitsLow
  <1>5. PICK X, Y : X = Bits(Unsigned(x)) /\ Y = Bits(Unsigned(y))
    OBVIOUS
  <1>6. Result(X, Y) \in SUBSET (0 .. (WordBits - 1))
    BY <1>5 DEF Bits
  <1>7. Number(Result(X, Y)) % 2 ^ HalfBits = Number(Result(X, Y) \cap low)
    <2> HIDE DEF Result
    <2>. QED  BY <1>6, NumberLow
  <1>8. Result(X, Y) \cap low = Result(X \cap low, Y \cap low)
    OBVIOUS
  <1> HIDE DEF Result, low
  <1>9. Low32(AluApply(op, x, y, 64)) = Number(Result(X, Y)) % 2 ^ HalfBits
    BY <1>1, <1>2, <1>5, Apply
  <1>10. AluApply(op, x, y, 32) = Number(Result(X \cap low, Y \cap low))
    <2>1. PICK l, r : l = Low32(x) /\ r = Low32(y)
      OBVIOUS
    <2>2. AluApply(op, x, y, 32) = AluUnsigned(op, l, r, HalfBits)
      BY <1>1, <2>1, Apply
    <2>3. Bits(l) = X \cap low /\ Bits(r) = Y \cap low
      BY <1>4, <1>5, <2>1
    <2>. QED  BY <1>2, <2>2, <2>3
  <1>. QED  BY <1>7, <1>8, <1>9, <1>10

\* Counts of a shift are words, and what they name is not changed by the
\* reductions that AluOp::apply makes.
LEMMA Counts ==
    ASSUME NEW y \in 0 .. (WordBits - 1)
    PROVE  /\ y \in Nat /\ y \in Word /\ Unsigned(y) = y /\ y % WordBits = y
           /\ y < HalfBits => Low32(y) = y /\ y % HalfBits = y /\ y \in 0 .. (HalfBits - 1)
  <1>1. y \in Nat /\ WordBits \in Nat \ {0} /\ HalfBits \in Nat \ {0} /\ HalfBits < WordBits
    BY Widths
  <1>2. WordBits - 1 < IMax + 1
    <2>1. WordBits - 1 \in 0 .. WordBits
      BY <1>1
    <2>. QED  BY <2>1, PowersAreNumbers, WordPowers
  <1>3. HalfBits < UMax32 + 1
    <2>1. HalfBits \in 0 .. WordBits
      BY <1>1
    <2>. QED  BY <2>1, PowersAreNumbers, WordPowers
  <1>4. y \in Word
    BY <1>1, <1>2, WordPowers DEF Word, IMin
  <1>5. y % WordBits = y
    BY <1>1, SmallRemainder
  <1>6. ASSUME y < HalfBits PROVE Low32(y) = y /\ y % HalfBits = y /\ y \in 0 .. (HalfBits - 1)
    <2>1. y \in 0 .. UMax32 /\ y \in 0 .. (HalfBits - 1)
      BY <1>1, <1>3, <1>6, WordPowers
    <2>. QED  BY <1>1, <1>4, <2>1, LowHalf, SmallRemainder
  <1>. QED  BY <1>1, <1>4, <1>5, <1>6, UnsignedOfWord

\* A left shift that loses no bit multiplies.
LEMMA LshResult ==
    ASSUME NEW x \in 0 .. IMax, NEW y \in 0 .. (WordBits - 1), x * 2 ^ y <= IMax
    PROVE  /\ AluApply("Lsh", x, y, 64) = x * 2 ^ y
           /\ y < HalfBits => AluApply("Lsh", x, y, 32) = Low32(x * 2 ^ y)
  <1>0. "Lsh" \in AluNames \ EndOps
    BY DEF AluNames, EndOps
  <1>1. \A l, r, w : AluUnsigned("Lsh", l, r, w) = (l % 2 ^ (w - (r % w))) * 2 ^ (r % w)
    BY DEF AluUnsigned, ShiftLeft
  <1>2. /\ y \in Nat /\ y \in Word /\ Unsigned(y) = y /\ y % WordBits = y
        /\ y < HalfBits => Low32(y) = y /\ y % HalfBits = y /\ y \in 0 .. (HalfBits - 1)
    BY Counts
  <1>3. x \in Nat /\ x \in Word /\ Unsigned(x) = x
    <2>1. x \in Nat /\ x \in Word
      BY WordPowers DEF Word, IMin
    <2>. QED  BY <2>1, UnsignedOfWord
  <1>4. PICK b \in Nat \ {0}, a \in Nat \ {0} :
           b = 2 ^ y /\ a = 2 ^ (WordBits - y) /\ 2 ^ WordBits = a * b
    <2>1. PICK k \in Nat : k = WordBits - y /\ k \in 0 .. WordBits /\ y \in 0 .. WordBits
                           /\ k + y = WordBits
      BY <1>2, Widths
    <2>2. 2 ^ k \in Nat \ {0} /\ 2 ^ y \in Nat \ {0}
      BY <2>1, PowersAreNumbers
    <2>3. 2 ^ (k + y) = 2 ^ k * 2 ^ y
      <3>1. k + y <= WordBits
        BY <2>1, Widths
      <3>. QED  BY <1>2, <3>1, PowersMultiply
    <2>. QED  BY <2>1, <2>2, <2>3
  <1>5. PICK v \in Nat : v = x * b /\ v <= IMax /\ v = x * 2 ^ y
    BY <1>3, <1>4
  <1>6. v \in 0 .. (2 ^ WordBits - 1) /\ v \in Word
    BY <1>5, WordPowers DEF Word, IMin
  <1>7. x < a
    <2>1. x >= a => x * b >= a * b
      BY <1>3
    <2>2. v < a * b /\ a * b \in Int
      BY <1>4, <1>5, WordPowers
    <2>. QED  BY <1>3, <1>5, <2>1, <2>2
  <1>8. x % a = x
    BY <1>3, <1>7, SmallRemainder
  <1>9. AluUnsigned("Lsh", Unsigned(x), Unsigned(y), WordBits) = v
    <2>1. AluUnsigned("Lsh", x, y, WordBits)
             = (x % 2 ^ (WordBits - (y % WordBits))) * 2 ^ (y % WordBits)
      BY <1>1
    <2>2. AluUnsigned("Lsh", x, y, WordBits) = x * b
      BY <1>2, <1>4, <1>8, <2>1
    <2>. QED  BY <1>2, <1>3, <1>5, <2>2
  <1>10. AluApply("Lsh", x, y, 64) = v
    <2>1. AluApply("Lsh", x, y, 64)
             = Signed(AluUnsigned("Lsh", Unsigned(x), Unsigned(y), WordBits), WordBits)
      BY <1>0, <1>2, <1>3, Apply
    <2>. QED  BY <1>5, <1>6, <1>9, <2>1, SignedIsWord
  <1>11. ASSUME y < HalfBits PROVE AluApply("Lsh", x, y, 32) = Low32(v)
    <2>1. PICK c \in Nat \ {0}, m \in Nat \ {0} :
             c = 2 ^ (HalfBits - y) /\ m = 2 ^ HalfBits /\ m = c * b
      <3>1. PICK k \in Nat : k = HalfBits - y /\ k \in 0 .. WordBits /\ HalfBits \in 0 .. WordBits
                             /\ k + y = HalfBits /\ HalfBits <= WordBits
        BY <1>2, <1>11, Widths
      <3>2. 2 ^ k \in Nat \ {0} /\ 2 ^ HalfBits \in Nat \ {0}
        BY <3>1, PowersAreNumbers
      <3>3. 2 ^ (k + y) = 2 ^ k * 2 ^ y
        BY <1>2, <3>1, PowersMultiply
      <3>. QED  BY <1>4, <3>1, <3>2, <3>3
    <2>2. PICK l \in Int, q \in Int : l = Low32(x) /\ x = m * q + l
      <3>1. x % m = Low32(x) /\ x \in Int
        BY <1>3, <2>1, LowHalf
      <3>2. PICK l \in Int, q \in Int : l = x % m /\ q = x \div m
        <4>1. x % m \in 0 .. (m - 1) /\ x \div m \in Int
          BY <3>1, Remainders
        <4>. QED  BY <4>1
      <3>3. x = m * q + l
        BY <3>1, <3>2, Remainders
      <3>. QED  BY <3>1, <3>2, <3>3
    <2>3. PICK r \in 0 .. (c - 1), p \in Int : r = l % c /\ l = c * p + r
      <3>1. PICK r \in 0 .. (c - 1), p \in Int : r = l % c /\ p = l \div c
        <4>1. l % c \in 0 .. (c - 1) /\ l \div c \in Int
          BY Remainders
        <4>. QED  BY <4>1
      <3>2. l = c * p + r
        BY <3>1, Remainders
      <3>. QED  BY <3>1, <3>2
    <2>4. AluApply("Lsh", x, y, 32) = r * b
      <3>1. AluApply("Lsh", x, y, 32) = AluUnsigned("Lsh", l, y, HalfBits)
        BY <1>0, <1>2, <1>3, <1>11, <2>2, Apply
      <3>2. AluUnsigned("Lsh", l, y, HalfBits)
               = (l % 2 ^ (HalfBits - (y % HalfBits))) * 2 ^ (y % HalfBits)
        BY <1>1
      <3>. QED  BY <1>2, <1>4, <1>11, <2>1, <2>3, <3>1, <3>2
    <2>5. PICK k \in Int, s \in Nat : k = b * q + p /\ s = r * b
      OBVIOUS
    <2>6. v = k * m + s
      <3>1. v = ((c * b) * q + (c * p + r)) * b
        BY <1>5, <2>1, <2>2, <2>3
      <3>2. ((c * b) * q + (c * p + r)) * b = (b * q + p) * (c * b) + r * b
        OBVIOUS
      <3>3. (b * q + p) * (c * b) + r * b = k * (c * b) + s
        BY <2>5, Zenon
      <3>4. k * (c * b) + s = k * m + s
        BY <2>1, Zenon
      <3>. QED  BY <3>1, <3>2, <3>3, <3>4, Zenon
    <2>7. s <= m - 1
      <3>1. r <= c - 1 /\ r \in Int
        OBVIOUS
      <3>2. r * b <= (c - 1) * b /\ (c - 1) * b = c * b - b
        BY <3>1
      <3>3. PICK n \in Int : n = c * b
        OBVIOUS
      <3>. QED  BY <2>1, <2>5, <3>2, <3>3
    <2>8. v % m = s
      <3>1. s \in 0 .. (m - 1)
        BY <2>7
      <3>. QED  BY <2>6, <3>1, RemainderIs
    <2>9. Low32(v) = v % m
      BY <2>1, WordPowers DEF Low32
    <2>. QED  BY <2>4, <2>5, <2>8, <2>9
  <1>. QED  BY <1>5, <1>10, <1>11

\* A right shift divides, a negative word as the large number it reads as.
LEMMA RshResult ==
    ASSUME NEW x \in Word, NEW y \in 0 .. (WordBits - 1)
    PROVE  /\ AluApply("Rsh", x, y, 64) = IF y = 0 THEN x ELSE Unsigned(x) \div 2 ^ y
           /\ x >= 0 => AluApply("Rsh", x, y, 64) = x \div 2 ^ y
           /\ x \in 0 .. UMax32 /\ y < HalfBits => AluApply("Rsh", x, y, 32) = x \div 2 ^ y
  <1>0. "Rsh" \in AluNames \ EndOps
    BY DEF AluNames, EndOps
  <1>1. \A l, r, w : AluUnsigned("Rsh", l, r, w) = l \div 2 ^ (r % w)
    BY DEF AluUnsigned, ShiftRight
  <1>2. /\ y \in Nat /\ y \in Word /\ Unsigned(y) = y /\ y % WordBits = y
        /\ y < HalfBits => Low32(y) = y /\ y % HalfBits = y
    BY Counts
  <1>3. PICK d \in Nat \ {0} : d = 2 ^ y /\ (y # 0 => d >= 2) /\ (y = 0 => d = 1)
    <2>1. y \in 0 .. WordBits
      BY <1>2, Widths
    <2>2. 2 ^ y \in Nat \ {0} /\ y < 2 ^ y
      BY <2>1, PowersAreNumbers
    <2>3. PICK d \in Nat \ {0} : d = 2 ^ y /\ y < d
      BY <2>2
    <2>4. y # 0 => d >= 2
      BY <1>2, <2>3
    <2>5. y = 0 => d = 1
      BY <2>3, PowerStep
    <2>. QED  BY <2>3, <2>4, <2>5, Zenon
  <1>4. PICK u \in Nat : u = Unsigned(x) /\ u <= 2 * IMax + 1 /\ (x >= 0 => u = x)
    BY UnsignedOfWord, WordPowers
  <1>5. PICK n \in 0 .. u : n = u \div d
    <2>1. u \div d \in 0 .. u
      BY Quotients
    <2>. QED  BY <2>1
  <1>6. AluApply("Rsh", x, y, 64) = Signed(n, WordBits)
    BY <1>0, <1>1, <1>2, <1>3, <1>4, <1>5, Apply
  <1>7. IMax \in Nat /\ n \in 0 .. (2 ^ WordBits - 1)
    BY <1>4, <1>5, WordPowers
  <1>8. ASSUME y = 0 PROVE AluApply("Rsh", x, y, 64) = x /\ n = u
    <2>1. n = u
      <3>1. u = u * 1 + 0 /\ 0 \in 0 .. (1 - 1)
        OBVIOUS
      <3>2. u \div 1 = u
        BY <3>1, RemainderIs
      <3>. QED  BY <1>3, <1>5, <1>8, <3>2
    <2>2. AluApply("Rsh", x, y, 64) = x
      BY <1>4, <1>6, <2>1, UnsignedOfWord
    <2>. QED  BY <2>1, <2>2
  <1>9. ASSUME y # 0 PROVE AluApply("Rsh", x, y, 64) = n
    <2>1. n <= IMax
      <3>1. PICK s \in 0 .. (d - 1) : s = u % d /\ u = d * n + s
        <4>1. u % d \in 0 .. (d - 1) /\ u = d * (u \div d) + (u % d)
          BY Remainders
        <4>. QED  BY <1>5, <4>1
      <3>2. d * n >= 2 * n
        BY <1>3, <1>9
      <3>3. PICK k \in Int : k = d * n
        OBVIOUS
      <3>. QED  BY <1>4, <1>7, <3>1, <3>2, <3>3
    <2>. QED  BY <1>6, <1>7, <2>1, SignedIsWord
  <1>10. ASSUME x \in 0 .. UMax32, y < HalfBits
         PROVE  AluApply("Rsh", x, y, 32) = x \div 2 ^ y
    <2>1. Low32(x) = x
      BY <1>10, LowHalf
    <2>. QED  BY <1>0, <1>1, <1>2, <1>10, <2>1, Apply
  <1>11. AluApply("Rsh", x, y, 64) = IF y = 0 THEN x ELSE Unsigned(x) \div 2 ^ y
    BY <1>3, <1>4, <1>5, <1>8, <1>9
  <1>12. x >= 0 => AluApply("Rsh", x, y, 64) = x \div 2 ^ y
    BY <1>3, <1>4, <1>5, <1>8, <1>9
  <1>. QED  BY <1>10, <1>11, <1>12

LEMMA ProductsGrow ==
    ASSUME NEW a \in Nat, NEW b \in Nat, NEW c \in Nat, NEW d \in Nat, a <= c, b <= d
    PROVE  a * b \in Nat /\ a * b <= c * d
  <1>1. a * b <= c * b
    OBVIOUS
  <1>2. c * b <= c * d
    OBVIOUS
  <1>3. PICK p \in Int, q \in Int, r \in Int : p = a * b /\ q = c * b /\ r = c * d
    OBVIOUS
  <1>4. p >= 0
    BY <1>3
  <1>. QED  BY <1>1, <1>2, <1>3, <1>4

LEMMA QuotientsGrow ==
    ASSUME NEW a \in Int, NEW c \in Int, NEW d \in Nat \ {0}, a <= c
    PROVE  a \div d <= c \div d
  <1>1. PICK p \in Int, r \in 0 .. (d - 1) : p = a \div d /\ r = a % d /\ a = d * p + r
    BY Remainders
  <1>2. PICK q \in Int, s \in 0 .. (d - 1) : q = c \div d /\ s = c % d /\ c = d * q + s
    BY Remainders
  <1>3. ~ (p - q >= 1)
    <2>1. p - q >= 1 => d * (p - q) >= d
      OBVIOUS
    <2>2. d * (p - q) = d * p - d * q
      OBVIOUS
    <2>. QED  BY <1>1, <1>2, <2>1, <2>2
  <1>. QED  BY <1>1, <1>2, <1>3

LEMMA EndWidthsAreWords == EndWidths \subseteq Word
  <1>1. 7 \in 0 .. (WordBits - 1) /\ WordBits - 1 \in 0 .. WordBits
    BY Widths
  <1>2. 2 ^ 7 <= 2 ^ (WordBits - 1)
    <2>1. 7 \in 0 .. (WordBits - 1)
      BY <1>1
    <2>. QED  BY <1>1, PowersGrow
  <1>3. 2 ^ 7 = 128
    <2>1. \A n \in 0 .. 6 : n \in 0 .. (WordBits - 1)
      BY <1>1, Widths
    <2>2. \A n \in 0 .. 6 : 2 ^ (n + 1) = 2 * 2 ^ n
      BY <2>1, PowerStep
    <2>3. 2 ^ (0 + 1) = 2 * 2 ^ 0 /\ 2 ^ (1 + 1) = 2 * 2 ^ 1 /\ 2 ^ (2 + 1) = 2 * 2 ^ 2
          /\ 2 ^ (3 + 1) = 2 * 2 ^ 3 /\ 2 ^ (4 + 1) = 2 * 2 ^ 4 /\ 2 ^ (5 + 1) = 2 * 2 ^ 5
          /\ 2 ^ (6 + 1) = 2 * 2 ^ 6
      BY <2>2
    <2>4. 2 ^ 0 = 1
      BY PowerStep
    <2>. QED  BY <2>3, <2>4
  <1>4. 127 <= IMax
    BY <1>2, <1>3, WordPowers
  <1>. QED  BY <1>4, WordPowers DEF EndWidths, Word, IMin

-----------------------------------------------------------------------------
(***************************************************************************)
(* What the memory answers                                                 *)
(***************************************************************************)

LEMMA Answers ==
    /\ "done" \notin MemErrors /\ "exit" \notin MemErrors /\ "loaded" \notin MemErrors
    /\ "copied" \notin MemErrors /\ "JumpOutOfBounds" \notin MemErrors /\ "none" \notin MemErrors
    /\ Continue.result = "done" /\ Mem!Done = Continue
    /\ \A v : ExitWith(v).result = "exit"
    /\ \A kind : Error(kind).result = kind
    /\ \A e, a : Mem!Fault(e, a).result = e
  BY DEF MemErrors, Continue, Mem!Done, ExitWith, Error, Mem!Fault

LEMMA FaultsAreErrors ==
    ASSUME NEW a, NEW w
    PROVE  /\ Mem!LoadFault(a, w) \in MemErrors \cup {"none"}
           /\ Mem!StoreFault(a, w) \in MemErrors \cup {"none"}
  <1>1. Mem!BoundsFault(a, w) \in MemErrors \cup {"none"}
    BY DEF Mem!BoundsFault, MemErrors
  <1>2. Mem!LoadFault(a, w) \in MemErrors \cup {"none"}
    BY <1>1 DEF Mem!LoadFault, MemErrors
  <1>3. Mem!StoreFault(a, w) \in MemErrors \cup {"none"}
    BY <1>1 DEF Mem!StoreFault, MemErrors
  <1>. QED  BY <1>2, <1>3

LEMMA LoadAnswers ==
    ASSUME NEW a, NEW w
    PROVE  Mem!Loading(a, w).result \in MemErrors \cup {"loaded"}
  <1>1. CASE Mem!LoadFault(a, w) # "none"
    BY <1>1, FaultsAreErrors, Answers DEF Mem!Loading
  <1>2. CASE Mem!LoadFault(a, w) = "none"
    BY <1>2 DEF Mem!Loading, Mem!Loaded
  <1>. QED  BY <1>1, <1>2

\* A copy has as many bytes as were asked for.
LEMMA CopyAnswers ==
    ASSUME NEW a, NEW n \in Nat
    PROVE  \/ Mem!Copying(a, n).result \in MemErrors
           \/ /\ Mem!Copying(a, n).result = "copied"
              /\ Len(Mem!Copying(a, n).value) = n
  <1>1. \A s : Mem!Copied(s).result = "copied" /\ Mem!Copied(s).value = s
    BY DEF Mem!Copied
  <1>2. ASSUME NEW f, f = [i \in 1..n |-> f[i]] PROVE Len(f) = n
    <2>1. f \in Seq({f[i] : i \in 1..n})
      BY <1>2
    <2>2. DOMAIN f = 1..n
      BY <1>2
    <2>. QED  BY <2>1, <2>2
  <1>3. CASE n = 0
    BY <1>1, <1>3 DEF Mem!Copying
  <1>4. CASE n # 0 /\ Mem!BulkServes(a, n)
    <2>1. PICK f : f = [i \in 1..n |-> Mem!ReadAt(Mem!Classify(a), a + i - 1)]
      OBVIOUS
    <2>2. Mem!Copying(a, n) = Mem!Copied(f)
      BY <1>4, <2>1 DEF Mem!Copying
    <2>3. f = [i \in 1..n |-> f[i]]
      BY <2>1
    <2>. QED  BY <1>1, <1>2, <2>2, <2>3
  <1>5. CASE n # 0 /\ ~ Mem!BulkServes(a, n) /\ Mem!SlowFaults(a, n) = {}
    <2>1. PICK f : f = [i \in 1..n |-> Mem!ReadAt(Mem!Classify(a + i - 1), a + i - 1)]
      OBVIOUS
    <2>2. Mem!Copying(a, n) = Mem!Copied(f)
      BY <1>5, <2>1 DEF Mem!Copying
    <2>3. f = [i \in 1..n |-> f[i]]
      BY <2>1
    <2>. QED  BY <1>1, <1>2, <2>2, <2>3
  <1>6. CASE n # 0 /\ ~ Mem!BulkServes(a, n) /\ Mem!SlowFaults(a, n) # {}
    <2>1. PICK faults : faults = Mem!SlowFaults(a, n)
      OBVIOUS
    <2>2. faults \in SUBSET Nat /\ \A i \in faults : Mem!LoadFault(a + i, 1) # "none"
      BY <2>1 DEF Mem!SlowFaults
    <2>3. PICK first : first = CHOOSE i \in faults : \A j \in faults : i <= j
      OBVIOUS
    <2>4. first \in faults
      BY <1>6, <2>1, <2>2, <2>3, LeastElement, Zenon
    <2>5. Mem!Copying(a, n) = Mem!Fault(Mem!LoadFault(a + first, 1), a + first)
      BY <1>6, <2>1, <2>3 DEF Mem!Copying
    <2>. QED  BY <2>2, <2>4, <2>5, FaultsAreErrors, Answers
  <1>. QED  BY <1>3, <1>4, <1>5, <1>6

LEMMA Descriptors ==
    ASSUME NEW fd \in DOMAIN MapTable
    PROVE  /\ MapTable[fd].kind \in {"Hash", "Array"} /\ MapTable[fd].key \in Nat
           /\ MapTable[fd].value \in Nat /\ MapTable[fd].entries \in Nat
  BY MachineAssumption

LEMMA KeysAnswer ==
    ASSUME NEW fd \in DOMAIN MapTable
    PROVE  /\ \/ KeyAt(fd).result \in MemErrors
              \/ KeyAt(fd).result = "copied" /\ Len(KeyAt(fd).value) = MapTable[fd].key
           /\ \/ ValueAt(fd).result \in MemErrors
              \/ ValueAt(fd).result = "copied" /\ Len(ValueAt(fd).value) = MapTable[fd].value
  BY Descriptors, CopyAnswers DEF KeyAt, ValueAt

LEMMA CallFaults ==
    ASSUME NEW i, ExecCall(i), ret'.result \notin {"done", "exit"}
    PROVE  UNCHANGED <<regs, memory, stores>>
  <1>1. \A result : Fails(result) => UNCHANGED <<regs, memory, stores>>
    BY DEF Fails
  <1>2. \A v : ~ Returns(v)
    BY Answers DEF Returns
  <1>3. CASE MapLookup
    <2>1. \A key : ~ Hit(regs[1], key)
      BY <1>2, Answers DEF Hit, Mem!SetMapScratch
    <2>. QED  BY <1>1, <1>2, <1>3, <2>1 DEF MapLookup
  <1>4. CASE MapUpdate
    BY <1>1, <1>2, <1>4 DEF MapUpdate
  <1>5. CASE MapDelete
    BY <1>1, <1>2, <1>5 DEF MapDelete
  <1>. QED  BY <1>1, <1>3, <1>4, <1>5 DEF ExecCall

LEMMA ExecuteFaults ==
    ASSUME NEW i, Execute(i), ret'.result \notin {"done", "exit"}
    PROVE  UNCHANGED <<regs, memory, stores>>
  <1>1. ret' # Continue
    BY Answers
  <1>2. \A result : Fails(result) => UNCHANGED <<regs, memory, stores>>
    BY DEF Fails
  <1>3. CASE ExecLoad(i)
    BY <1>1, <1>2, <1>3 DEF ExecLoad
  <1>4. CASE ExecStore(i)
    <2>1. UNCHANGED <<regs, stores>> /\ Mem!Store(Address(i), i.size, ToBytes(Value(i.src)))
      BY <1>4 DEF ExecStore
    <2>2. UNCHANGED <<Mem!stack, Mem!staged, alignChecks>>
      BY <1>1, <2>1, Answers DEF Mem!Store
    <2>. QED  BY <2>1, <2>2 DEF memory, Mem!stack, Mem!staged
  <1>5. CASE ExecCall(i)
    BY <1>5, CallFaults
  <1>. QED  BY <1>1, <1>2, <1>3, <1>4, <1>5 DEF Execute, ExecAlu, ExecLoadImm64

-----------------------------------------------------------------------------
(***************************************************************************)
(* Maps                                                                    *)
(***************************************************************************)

\* A store that its descriptor allows; MapsInv is StoresWellFormed with what
\* its induction needs.
Allowed(fd, store) ==
    /\ IsFiniteSet(DOMAIN store) /\ Cardinality(DOMAIN store) <= MapTable[fd].entries
    /\ \A k \in DOMAIN store :
          Len(k) = MapTable[fd].key /\ Len(store[k]) = MapTable[fd].value
MapsInv ==
    /\ DOMAIN stores = DOMAIN MapTable
    /\ \A fd \in DOMAIN MapTable : Allowed(fd, stores[fd])

\* Any function on 1..n is a sequence of n elements.
LEMMA LenIs ==
    ASSUME NEW n \in Nat, NEW f, f = [i \in 1..n |-> f[i]]
    PROVE  Len(f) = n
  <1>1. f \in Seq({f[i] : i \in 1..n}) /\ DOMAIN f = 1..n
    OBVIOUS
  <1>. QED  BY <1>1

LEMMA ZeroValueFits ==
    ASSUME NEW fd \in DOMAIN MapTable
    PROVE  Len(ZeroValue(fd)) = MapTable[fd].value
  <1>1. PICK n \in Nat : n = MapTable[fd].value
    BY Descriptors
  <1>2. ZeroValue(fd) = [i \in 1..n |-> ZeroValue(fd)[i]]
    BY <1>1 DEF ZeroValue
  <1>. QED  BY <1>1, <1>2, LenIs

\* An array starts with a key for each index, all with zeroed values.
LEMMA FreshAllowed ==
    ASSUME NEW fd \in DOMAIN MapTable
    PROVE  Allowed(fd, Fresh(fd))
  <1>1. PICK n \in Nat, m \in Nat : n = MapTable[fd].entries /\ m = MapTable[fd].key
    BY Descriptors
  <1> DEFINE key(i) == [j \in 1 .. m |-> (i \div 2 ^ ((j - 1) * ByteBits)) % Radix]
             K == {key(i) : i \in 0 .. (n - 1)}
  <1>2. DOMAIN Fresh(fd) = IF MapTable[fd].kind = "Array" THEN K ELSE {}
    BY <1>1 DEF Fresh
  <1>3. \A k \in DOMAIN Fresh(fd) : Fresh(fd)[k] = ZeroValue(fd)
    BY DEF Fresh
  <1>4. \A k \in K : Len(k) = m
    <2>1. ASSUME NEW i \in 0 .. (n - 1) PROVE Len(key(i)) = m
      <3>1. key(i) = [j \in 1 .. m |-> key(i)[j]]
        OBVIOUS
      <3> HIDE DEF key
      <3>. QED  BY <1>1, <3>1, LenIs
    <2>. QED  BY <2>1
  <1>5. IsFiniteSet(K) /\ Cardinality(K) <= n
    <2>1. IsFiniteSet(0 .. (n - 1)) /\ Cardinality(0 .. (n - 1)) = n
      BY FS_Interval
    <2> DEFINE f == [i \in 0 .. (n - 1) |-> key(i)]
    <2>2. K = {f[i] : i \in 0 .. (n - 1)}
      OBVIOUS
    <2>3. f \in Surjection(0 .. (n - 1), K)
      BY DEF Surjection
    <2> HIDE DEF f, K
    <2>. QED  BY <2>1, <2>3, FS_Surjection
  <1>6. IsFiniteSet({}) /\ Cardinality({}) = 0
    BY FS_EmptySet
  <1> HIDE DEF K
  <1>. QED  BY <1>1, <1>2, <1>3, <1>4, <1>5, <1>6, ZeroValueFits DEF Allowed

LEMMA UpdateAllowed ==
    ASSUME NEW fd \in DOMAIN MapTable, NEW store, Allowed(fd, store), NEW key, NEW val,
           Len(key) = MapTable[fd].key, Len(val) = MapTable[fd].value,
           key \notin DOMAIN store => Cardinality(DOMAIN store) < MapTable[fd].entries
    PROVE  Allowed(fd, [k \in DOMAIN store \cup {key} |-> IF k = key THEN val ELSE store[k]])
  <1>1. PICK D : D = DOMAIN store /\ IsFiniteSet(D)
    BY DEF Allowed
  <1>2. /\ IsFiniteSet(D \cup {key})
        /\ Cardinality(D \cup {key}) = IF key \in D THEN Cardinality(D) ELSE Cardinality(D) + 1
    BY <1>1, FS_AddElement
  <1>3. Cardinality(D) \in Nat /\ MapTable[fd].entries \in Nat
    BY <1>1, FS_CardinalityType, Descriptors
  <1>4. Cardinality(D \cup {key}) <= MapTable[fd].entries
    BY <1>1, <1>2, <1>3 DEF Allowed
  <1>5. PICK s : s = [k \in D \cup {key} |-> IF k = key THEN val ELSE store[k]]
    OBVIOUS
  <1>6. DOMAIN s = D \cup {key}
    BY <1>5
  <1>7. \A k \in D \cup {key} : Len(k) = MapTable[fd].key /\ Len(s[k]) = MapTable[fd].value
    BY <1>1, <1>5 DEF Allowed
  <1>8. Allowed(fd, s)
    BY <1>2, <1>4, <1>6, <1>7 DEF Allowed
  <1>. QED  BY <1>1, <1>5, <1>8

LEMMA DeleteAllowed ==
    ASSUME NEW fd \in DOMAIN MapTable, NEW store, Allowed(fd, store), NEW key \in DOMAIN store
    PROVE  /\ Allowed(fd, [store EXCEPT ![key] = ZeroValue(fd)])
           /\ Allowed(fd, [k \in DOMAIN store \ {key} |-> store[k]])
  <1>1. PICK z : z = [store EXCEPT ![key] = ZeroValue(fd)]
    OBVIOUS
  <1>2. DOMAIN z = DOMAIN store /\ \A k \in DOMAIN store : z[k] = ZeroValue(fd) \/ z[k] = store[k]
    BY <1>1
  <1>3. Allowed(fd, z)
    BY <1>2, ZeroValueFits DEF Allowed
  <1>4. PICK D : D = DOMAIN store /\ IsFiniteSet(D)
    BY DEF Allowed
  <1>5. IsFiniteSet(D \ {key}) /\ Cardinality(D \ {key}) = Cardinality(D) - 1
    BY <1>4, FS_RemoveElement
  <1>6. Cardinality(D \ {key}) <= MapTable[fd].entries
    <2>1. Cardinality(D) \in Nat /\ MapTable[fd].entries \in Nat
      BY <1>4, FS_CardinalityType, Descriptors
    <2>. QED  BY <1>4, <1>5, <2>1 DEF Allowed
  <1>7. PICK s : s = [k \in D \ {key} |-> store[k]]
    OBVIOUS
  <1>8. DOMAIN s = D \ {key} /\ \A k \in D \ {key} : s[k] = store[k]
    BY <1>7
  <1>9. Allowed(fd, s)
    BY <1>4, <1>5, <1>6, <1>8 DEF Allowed
  <1>. QED  BY <1>1, <1>3, <1>4, <1>7, <1>9

\* One store is replaced by one that is allowed.
LEMMA OneStoreAllowed ==
    ASSUME MapsInv, NEW fd \in DOMAIN MapTable, NEW store, Allowed(fd, store),
           stores' = [stores EXCEPT ![fd] = store]
    PROVE  MapsInv'
  <1>1. DOMAIN stores' = DOMAIN stores
    OBVIOUS
  <1>2. \A d \in DOMAIN MapTable : stores'[d] = IF d = fd THEN store ELSE stores[d]
    BY DEF MapsInv
  <1>. QED  BY <1>1, <1>2 DEF MapsInv, Allowed

LEMMA MapsExecute ==
    ASSUME MapsInv, NEW i, Execute(i)
    PROVE  MapsInv'
  <1>1. CASE stores' = stores
    BY <1>1 DEF MapsInv, Allowed
  <1>2. ASSUME NEW fd \in DOMAIN MapTable, fd = regs[1], MapUpdate, stores' # stores
        PROVE  MapsInv'
    <2>1. /\ KeyAt(fd).result = "copied" /\ ValueAt(fd).result = "copied"
          /\ Writable(fd, KeyAt(fd).value, regs[4])
          /\ stores' = [stores EXCEPT ![fd] =
               [k \in DOMAIN stores[fd] \cup {KeyAt(fd).value} |->
                  IF k = KeyAt(fd).value THEN ValueAt(fd).value ELSE stores[fd][k]]]
      BY <1>2 DEF MapUpdate, Fails
    <2>2. /\ Len(KeyAt(fd).value) = MapTable[fd].key
          /\ Len(ValueAt(fd).value) = MapTable[fd].value
      BY <2>1, KeysAnswer, Answers
    <2>3. PICK key, val, store : key = KeyAt(fd).value /\ val = ValueAt(fd).value /\ store = stores[fd]
      OBVIOUS
    <2>4. key \notin DOMAIN store => Cardinality(DOMAIN store) < MapTable[fd].entries
      BY <2>1, <2>3 DEF Writable
    <2>5. Allowed(fd, store)
      BY <2>3 DEF MapsInv
    <2>6. Allowed(fd, [k \in DOMAIN store \cup {key} |-> IF k = key THEN val ELSE store[k]])
      <3>1. Len(key) = MapTable[fd].key /\ Len(val) = MapTable[fd].value
        BY <2>2, <2>3
      <3>. QED  BY <2>4, <2>5, <3>1, UpdateAllowed
    <2>7. stores' = [stores EXCEPT ![fd] =
             [k \in DOMAIN store \cup {key} |-> IF k = key THEN val ELSE store[k]]]
      BY <2>1, <2>3
    <2>. QED  BY <2>6, <2>7, OneStoreAllowed
  <1>3. ASSUME NEW fd \in DOMAIN MapTable, fd = regs[1], MapDelete, stores' # stores
        PROVE  MapsInv'
    <2>1. PICK key, store : key = KeyAt(fd).value /\ store = stores[fd]
      OBVIOUS
    <2>2. /\ key \in DOMAIN store
          /\ stores' = [stores EXCEPT ![fd] =
               IF MapTable[fd].kind = "Array"
               THEN [store EXCEPT ![key] = ZeroValue(fd)]
               ELSE [k \in DOMAIN store \ {key} |-> store[k]]]
      BY <1>3, <2>1 DEF MapDelete, Fails
    <2>3. Allowed(fd, store)
      BY <2>1 DEF MapsInv
    <2>4. PICK new : /\ new = IF MapTable[fd].kind = "Array"
                              THEN [store EXCEPT ![key] = ZeroValue(fd)]
                              ELSE [k \in DOMAIN store \ {key} |-> store[k]]
                     /\ Allowed(fd, new)
      BY <2>2, <2>3, DeleteAllowed
    <2>5. stores' = [stores EXCEPT ![fd] = new]
      BY <2>2, <2>4
    <2>. QED  BY <2>4, <2>5, OneStoreAllowed
  <1>4. ASSUME stores' # stores
        PROVE  regs[1] \in DOMAIN MapTable /\ (MapUpdate \/ MapDelete)
    BY <1>4 DEF Execute, ExecAlu, ExecLoadImm64, ExecLoad, ExecStore, ExecCall,
                MapLookup, MapUpdate, MapDelete, Fails
  <1>. QED  BY <1>1, <1>2, <1>3, <1>4

-----------------------------------------------------------------------------
(***************************************************************************)
(* What an instruction can be, and how it ends                             *)
(***************************************************************************)

Kinds == {"Alu", "LoadImm64", "Load", "Store", "Jump", "Call", "Exit", "Unknown"}

LEMMA InstructionKinds ==
    ASSUME NEW i \in Instruction
    PROVE  /\ i.insn \in Kinds
           /\ i.insn = "Jump" => /\ i.offset \in Int
                                 /\ \A t : LET j == [i EXCEPT !.offset = t]
                                           IN  j.insn = "Jump" /\ j.op = i.op /\ j.offset = t
  <1>1. i.insn \in Kinds
    BY DEF Instruction, Kinds
  <1>2. ASSUME i.insn = "Jump"
        PROVE  i \in [insn : {"Jump"}, width : {32, 64}, op : JumpNames, dst : Register,
                      src : Operand, offset : Word]
    BY <1>2 DEF Instruction
  <1>3. Word \subseteq Int
    BY WordAssumption DEF Word, IMin
  <1>. QED  BY <1>1, <1>2, <1>3

\* What a running program's exit from an instruction can be.
LEMMA ExecuteEnds ==
    ASSUME NEW i, Execute(i), i.insn \in Kinds \ {"Jump", "Exit", "Unknown"}
    PROVE  ret' = Continue \/ ret'.result \notin {"done", "exit", "JumpOutOfBounds"}
  <1>1. \A result : Fails(result) => ret' = result
    BY DEF Fails
  <1>2. \A v : Returns(v) => ret' = Continue
    BY DEF Returns
  <1>3. \A result : result.result \in MemErrors => result.result \notin {"done", "exit", "JumpOutOfBounds"}
    BY Answers
  <1>4. CASE ExecLoad(i)
    <2>1. CASE ret' = Continue
      BY <2>1
    <2>2. CASE ret' = Mem!Loading(Address(i), i.size) /\ ret'.result # "loaded"
      BY <1>3, <2>2, LoadAnswers
    <2>. QED  BY <1>1, <1>4, <2>1, <2>2 DEF ExecLoad
  <1>5. CASE ExecStore(i)
    <2>1. PICK fault : fault = Mem!StoreFault(Address(i), i.size)
      OBVIOUS
    <2>2. \/ ret' = Continue
          \/ fault # "none" /\ ret' = Mem!Fault(fault, Address(i))
      BY <1>5, <2>1, Answers DEF ExecStore, Mem!Store
    <2>. QED  BY <1>3, <2>1, <2>2, FaultsAreErrors, Answers
  <1>6. CASE ExecCall(i)
    <2>1. CASE Fails(Error("UnknownHelper"))
      BY <1>1, <2>1, Answers
    <2>2. CASE ret' = Continue
      BY <2>2
    <2>3. ASSUME NEW fd \in DOMAIN MapTable, KeyAt(fd).result # "copied", Fails(KeyAt(fd))
          PROVE  ret'.result \notin {"done", "exit", "JumpOutOfBounds"}
      BY <1>1, <1>3, <2>3, KeysAnswer
    <2>4. ASSUME NEW fd \in DOMAIN MapTable, ValueAt(fd).result # "copied", Fails(ValueAt(fd))
          PROVE  ret'.result \notin {"done", "exit", "JumpOutOfBounds"}
      BY <1>1, <1>3, <2>4, KeysAnswer
    <2>5. CASE MapLookup
      <3>1. \A key : Hit(regs[1], key) => ret' = Continue
        BY <1>2, Answers DEF Hit, Mem!SetMapScratch
      <3>. QED  BY <1>2, <2>3, <2>5, <3>1 DEF MapLookup
    <2>6. CASE MapUpdate
      BY <1>2, <2>3, <2>4, <2>6 DEF MapUpdate
    <2>7. CASE MapDelete
      BY <1>2, <2>3, <2>7 DEF MapDelete
    <2>. QED  BY <1>6, <2>1, <2>5, <2>6, <2>7 DEF ExecCall
  <1>. QED  BY <1>4, <1>5, <1>6 DEF Execute, ExecAlu, ExecLoadImm64, Kinds

-----------------------------------------------------------------------------
(***************************************************************************)
(* Registers hold words because memory holds bytes                         *)
(***************************************************************************)

\* Every place a byte can be read from.
BytesInv ==
    /\ bytes \in [Mem!Offsets -> Mem!Byte]
    /\ packet # NoBytes => packet \in Seq(Mem!Byte)
    /\ xdpMd \in Seq(Mem!Byte) /\ mapScratch \in Seq(Mem!Byte)
    /\ rodata # NoBytes => rodata \in Seq(Mem!Byte)
    /\ \A fd \in DOMAIN stores : \A k \in DOMAIN stores[fd] : stores[fd][k] \in Seq(Mem!Byte)
MasksInv == \A w \in DOMAIN initialized : initialized[w] \subseteq 0..63
RegsInv == regs \in [Register -> Word] /\ regs[Fp] = Mem!StackBase

LEMMA Constants ==
    /\ StackSize \in Nat \ {0} /\ Gap \in Nat /\ StackSize <= Gap
    /\ Mem!Low = Gap - StackSize /\ Mem!StackBase = Gap /\ Mem!PacketBase = 2 * Gap
    /\ Mem!MapScratchBase = 3 * Gap /\ Mem!XdpMdBase = 4 * Gap /\ Mem!RodataBase = 5 * Gap
    /\ Radix \in Nat \ {0} /\ Mem!Byte = 0 .. (Radix - 1) /\ 0 \in Mem!Byte
    /\ Word \subseteq Int /\ 0 .. UMax32 \subseteq Word /\ -1 \in Word
    /\ Mem!StackBase \in Word /\ Mem!XdpMdBase \in Word /\ Mem!MapScratchBase \in Word
  <1>1. StackSize \in Nat \ {0} /\ Gap \in Nat /\ StackSize <= Gap /\ 6 * Gap <= UMax32
    BY MachineAssumption
  <1>2. Radix \in Nat \ {0}
    <2>1. ByteBits \in 0 .. WordBits
      BY Widths
    <2>. QED  BY <2>1, PowersAreNumbers DEF Radix
  <1>3. Mem!Byte = 0 .. (Radix - 1) /\ 0 \in Mem!Byte
    BY <1>2 DEF Mem!Byte
  <1>4. Word \subseteq Int /\ 0 .. UMax32 \subseteq Word /\ -1 \in Word
    BY WordPowers DEF Word, IMin
  <1>5. /\ Mem!Low = Gap - StackSize /\ Mem!StackBase = Gap /\ Mem!PacketBase = 2 * Gap
        /\ Mem!MapScratchBase = 3 * Gap /\ Mem!XdpMdBase = 4 * Gap /\ Mem!RodataBase = 5 * Gap
    BY DEF Mem!Low, Mem!StackBase, Mem!PacketBase, Mem!MapScratchBase, Mem!XdpMdBase, Mem!RodataBase
  <1>6. {Gap, 3 * Gap, 4 * Gap} \subseteq 0 .. UMax32
    BY <1>1, WordPowers
  <1>. QED  BY <1>1, <1>2, <1>3, <1>4, <1>5, <1>6

LEMMA BytesOf == \A n \in Int : n % Radix \in Mem!Byte /\ n \div Radix \in Int
  BY Constants, Remainders

\* What the bounds check lets through is a byte.
LEMMA InsideIsByte ==
    ASSUME BytesInv, NEW a \in Int, NEW n \in Nat, Mem!Classify(a) # "Unknown",
           Mem!Inside(Mem!Classify(a), a, n), NEW i \in 0 .. (n - 1)
    PROVE  Mem!ReadAt(Mem!Classify(a), a + i) \in Mem!Byte
  <1>1. PICK r : r = Mem!Classify(a)
    OBVIOUS
  <1>2. r \in {"Stack", "Packet", "MapScratch", "XdpMd", "Rodata"}
    BY <1>1 DEF Mem!Classify
  <1>3. CASE r = "Stack"
    <2>1. Mem!Low <= a /\ a - Mem!Low <= StackSize - n
      BY <1>1, <1>3 DEF Mem!Classify, Mem!Inside
    <2>2. PICK x \in Int : x = a + i
      OBVIOUS
    <2>3. x - Mem!Low \in Mem!Offsets
      BY <2>1, <2>2, Constants DEF Mem!Offsets
    <2>4. Mem!ReadAt(r, x) = bytes[x - Mem!Low]
      BY <1>3 DEF Mem!ReadAt
    <2>6. bytes \in [Mem!Offsets -> Mem!Byte]
      BY DEF BytesInv
    <2>7. bytes[x - Mem!Low] \in Mem!Byte
      BY <2>3, <2>6
    <2>. QED  BY <1>1, <2>2, <2>4, <2>7
  <1>4. CASE r # "Stack"
    <2>1. PICK c, b : c = Mem!Contents(r) /\ b = Mem!Base(r)
      OBVIOUS
    <2>2. c # NoBytes /\ a - b + n <= Len(c)
      BY <1>1, <1>4, <2>1 DEF Mem!Inside
    <2>3. c \in Seq(Mem!Byte)
      BY <1>2, <1>4, <2>1, <2>2 DEF Mem!Contents, BytesInv
    <2>4. b \in Int /\ b <= a
      <3>1. /\ r = "Rodata" => b = Mem!RodataBase /\ a >= Mem!RodataBase
            /\ r = "XdpMd" => b = Mem!XdpMdBase /\ a >= Mem!XdpMdBase
            /\ r = "MapScratch" => b = Mem!MapScratchBase /\ a >= Mem!MapScratchBase
            /\ r = "Packet" => b = Mem!PacketBase /\ a >= Mem!PacketBase
        BY <1>1, <2>1 DEF Mem!Classify, Mem!Base
      <3>. QED  BY <1>2, <1>4, <3>1, Constants
    <2>5. PICK x \in Int : x = a + i /\ x - b + 1 \in 1 .. Len(c)
      BY <2>2, <2>3, <2>4
    <2>6. Mem!ReadAt(r, x) = c[x - b + 1]
      BY <1>4, <2>1 DEF Mem!ReadAt
    <2>. QED  BY <1>1, <2>3, <2>5, <2>6
  <1>. QED  BY <1>3, <1>4

LEMMA NoFaultIsInside ==
    ASSUME NEW a, NEW w, Mem!LoadFault(a, w) = "none" \/ Mem!StoreFault(a, w) = "none"
    PROVE  Mem!Classify(a) # "Unknown" /\ Mem!Inside(Mem!Classify(a), a, w)
  <1>1. Mem!BoundsFault(a, w) = "none"
    BY DEF Mem!LoadFault, Mem!StoreFault
  <1>. QED  BY <1>1 DEF Mem!BoundsFault

LEMMA LoadedBytes ==
    ASSUME BytesInv, NEW a \in Int, NEW w \in {1, 2, 4, 8}, Mem!Loading(a, w).result = "loaded"
    PROVE  Mem!Loading(a, w).value \in [0..7 -> Mem!Byte]
  <1>1. Mem!LoadFault(a, w) = "none"
    BY FaultsAreErrors, Answers DEF Mem!Loading
  <1>2. Mem!Loading(a, w).value =
           [i \in 0..7 |-> IF i < w THEN Mem!ReadAt(Mem!Classify(a), a + i) ELSE 0]
    BY <1>1 DEF Mem!Loading, Mem!Loaded
  <1>3. ASSUME NEW i \in 0..7, i < w
        PROVE  Mem!ReadAt(Mem!Classify(a), a + i) \in Mem!Byte
    <2>1. w \in Nat /\ i \in 0 .. (w - 1)
      BY <1>3
    <2>2. Mem!Classify(a) # "Unknown" /\ Mem!Inside(Mem!Classify(a), a, w)
      BY <1>1, NoFaultIsInside
    <2>. QED  BY <2>1, <2>2, InsideIsByte
  <1>4. 0 \in Mem!Byte
    BY Constants
  <1>. QED  BY <1>2, <1>3, <1>4

LEMMA CopiedBytes ==
    ASSUME BytesInv, NEW a \in Int, NEW n \in Nat, Mem!Copying(a, n).result = "copied"
    PROVE  Mem!Copying(a, n).value \in Seq(Mem!Byte)
  <1>1. \A s : Mem!Copied(s).value = s
    BY DEF Mem!Copied
  <1>2. CASE n = 0
    <2>1. Mem!Copying(a, n).value = <<>>
      BY <1>1, <1>2 DEF Mem!Copying
    <2>. QED  BY <2>1
  <1>3. ASSUME NEW f, f = [i \in 1..n |-> f[i]], \A i \in 1..n : f[i] \in Mem!Byte
        PROVE  f \in Seq(Mem!Byte)
    BY <1>3
  <1>4. CASE n # 0 /\ Mem!BulkServes(a, n)
    <2>1. PICK f : f = [i \in 1..n |-> Mem!ReadAt(Mem!Classify(a), a + i - 1)]
      OBVIOUS
    <2>2. Mem!Copying(a, n).value = f
      BY <1>1, <1>4, <2>1 DEF Mem!Copying
    <2>3. ASSUME NEW i \in 1..n PROVE f[i] \in Mem!Byte
      <3>1. Mem!Classify(a) # "Unknown" /\ Mem!Inside(Mem!Classify(a), a, n)
        BY <1>4 DEF Mem!BulkServes
      <3>2. PICK j \in 0 .. (n - 1) : j = i - 1 /\ a + i - 1 = a + j
        OBVIOUS
      <3>3. Mem!ReadAt(Mem!Classify(a), a + j) \in Mem!Byte
        BY <3>1, InsideIsByte
      <3>. QED  BY <2>1, <3>2, <3>3
    <2>. QED  BY <1>3, <2>1, <2>2, <2>3
  <1>5. CASE n # 0 /\ ~ Mem!BulkServes(a, n) /\ Mem!SlowFaults(a, n) = {}
    <2>1. PICK f : f = [i \in 1..n |-> Mem!ReadAt(Mem!Classify(a + i - 1), a + i - 1)]
      OBVIOUS
    <2>2. Mem!Copying(a, n).value = f
      BY <1>1, <1>5, <2>1 DEF Mem!Copying
    <2>3. ASSUME NEW i \in 1..n PROVE f[i] \in Mem!Byte
      <3>1. PICK j \in 0 .. (n - 1) : j = i - 1 /\ a + i - 1 = a + j
        OBVIOUS
      <3>2. PICK b \in Int : b = a + j
        OBVIOUS
      <3>3. Mem!LoadFault(b, 1) = "none"
        <4>1. j \in Mem!SlowFaults(a, n) <=> Mem!LoadFault(a + j, 1) # "none"
          BY DEF Mem!SlowFaults
        <4>. QED  BY <1>5, <3>2, <4>1
      <3>4. Mem!Classify(b) # "Unknown" /\ Mem!Inside(Mem!Classify(b), b, 1)
        BY <3>3, NoFaultIsInside
      <3>5. 0 \in 0 .. (1 - 1) /\ 1 \in Nat /\ b + 0 = b
        OBVIOUS
      <3>6. Mem!ReadAt(Mem!Classify(b), b + 0) \in Mem!Byte
        BY <3>4, <3>5, InsideIsByte
      <3>. QED  BY <2>1, <3>1, <3>2, <3>5, <3>6
    <2>. QED  BY <1>3, <2>1, <2>2, <2>3
  <1>6. CASE n # 0 /\ ~ Mem!BulkServes(a, n) /\ Mem!SlowFaults(a, n) # {}
    <2>1. PICK first : first = CHOOSE i \in Mem!SlowFaults(a, n) :
                                  \A j \in Mem!SlowFaults(a, n) : i <= j
      OBVIOUS
    <2>2. \A i \in Mem!SlowFaults(a, n) : i \in Nat /\ Mem!LoadFault(a + i, 1) # "none"
      BY DEF Mem!SlowFaults
    <2>3. first \in Mem!SlowFaults(a, n)
      <3>1. PICK faults : faults = Mem!SlowFaults(a, n)
        OBVIOUS
      <3>2. faults \in SUBSET Nat /\ faults # {}
        BY <1>6, <2>2, <3>1
      <3>3. first = CHOOSE i \in faults : \A j \in faults : i <= j
        BY <2>1, <3>1
      <3>. QED  BY <3>1, <3>2, <3>3, LeastElement, Zenon
    <2>4. Mem!Copying(a, n) = Mem!Fault(Mem!LoadFault(a + first, 1), a + first)
      BY <1>6, <2>1 DEF Mem!Copying
    <2>. QED  BY <2>2, <2>3, <2>4, FaultsAreErrors, Answers
  <1>. QED  BY <1>2, <1>4, <1>5, <1>6

-----------------------------------------------------------------------------
(***************************************************************************)
(* A word from its bytes, and the bytes of a word                          *)
(***************************************************************************)

LEMMA ToBytesType ==
    ASSUME NEW v \in Word
    PROVE  ToBytes(v) \in [0..7 -> Mem!Byte]
  <1>1. ASSUME NEW i \in 0..7
        PROVE  (Unsigned(v) \div 2 ^ (i * ByteBits)) % Radix \in Mem!Byte
    <2>1. i * ByteBits \in 0 .. WordBits
      <3>1. PICK b \in Nat : b = ByteBits /\ WordBits = 8 * b
        BY Widths
      <3>2. i * b <= 8 * b /\ i * b \in Nat
        OBVIOUS
      <3>. QED  BY <3>1, <3>2
    <2>2. PICK d \in Nat \ {0} : d = 2 ^ (i * ByteBits)
      BY <2>1, PowersAreNumbers
    <2>3. PICK u \in Int : u = Unsigned(v)
      BY UnsignedOfWord, WordPowers
    <2>4. u \div d \in Int
      BY Remainders
    <2>. QED  BY <2>2, <2>3, <2>4, BytesOf
  <1>. QED  BY <1>1 DEF ToBytes

\* from_le_bytes adds the bytes at their places.
ByteWeights(b) == [i \in 0..7 |-> b[i] * 2 ^ (i * ByteBits)]

LEMMA FromBytesIs ==
    ASSUME NEW b \in [0..7 -> Mem!Byte]
    PROVE  /\ IsFiniteSet(0..7)
           /\ \E f : IsSum(0..7, ByteWeights(b), f) /\ FromBytes(b) = Signed(f[0..7], WordBits)
  <1> DEFINE S == 0..7
             term(i) == b[i] * 2 ^ (i * ByteBits)
             weight == ByteWeights(b)
             Sum(f) == f = [s \in SUBSET S |->
                              IF s = {} THEN 0 ELSE term(Pick(s)) + f[s \ {Pick(s)}]]
  <1>1. IsFiniteSet(S)
    <2>1. PICK low \in Int, high \in Int : low = 0 /\ high = 7
      OBVIOUS
    <2>2. IsFiniteSet(low .. high)
      BY FS_Interval
    <2>. QED  BY <2>1, <2>2
  <1>2. ASSUME NEW f PROVE Sum(f) <=> IsSum(S, weight, f)
    <2>1. \A s \in SUBSET S : s # {} => weight[Pick(s)] = term(Pick(s))
      BY DEF Pick, ByteWeights
    <2> HIDE DEF weight, S, term
    <2>2. \A s \in SUBSET S : SumStep(weight, f, s) =
                                 IF s = {} THEN 0 ELSE term(Pick(s)) + f[s \ {Pick(s)}]
      BY <2>1 DEF SumStep
    <2>. QED  BY <2>2, Zenon DEF IsSum
  <1>3. \E f : IsSum(S, weight, f)
    <2> HIDE DEF weight, S
    <2>. QED  BY <1>1, SumExists
  <1>4. PICK f : f = (CHOOSE h : Sum(h)) /\ Sum(f)
    <2> HIDE DEF Sum, S, weight
    <2>. QED  BY <1>2, <1>3
  <1>5. FromBytes(b) = Signed((CHOOSE h : Sum(h))[S], WordBits)
    BY DEF FromBytes, MapThenSumSet, MapThenFoldSet, Pick
  <1>6. IsSum(S, weight, f) /\ FromBytes(b) = Signed(f[S], WordBits)
    <2> HIDE DEF Sum, S, weight, term
    <2>. QED  BY <1>2, <1>4, <1>5, Zenon
  <1>. QED  BY <1>1, <1>6

\* Eight bytes are a number below 2^WordBits.
LEMMA FromBytesIsWord ==
    ASSUME NEW b \in [0..7 -> Mem!Byte]
    PROVE  FromBytes(b) \in Word
  <1> DEFINE S == 0..7
             term(i) == b[i] * 2 ^ (i * ByteBits)
             weight == ByteWeights(b)
             p == [i \in 0..8 |-> 2 ^ (i * ByteBits)]
  <1>1. IsFiniteSet(S) /\ 8 \in Nat
    BY FromBytesIs
  <1>2. \A i \in 0..8 : i * ByteBits \in 0 .. WordBits /\ 2 ^ (i * ByteBits) \in Nat \ {0}
    <2>1. ASSUME NEW i \in 0..8 PROVE i * ByteBits \in 0 .. WordBits
      <3>1. PICK c \in Nat : c = ByteBits /\ WordBits = 8 * c
        BY Widths
      <3>2. i * c <= 8 * c /\ i * c \in Nat
        OBVIOUS
      <3>. QED  BY <3>1, <3>2
    <2>. QED  BY <2>1, PowersAreNumbers
  <1>3. ASSUME NEW i \in S
        PROVE  term(i) \in Nat /\ i \in 0 .. (8 - 1) /\ i \in 0..8 /\ i + 1 \in 0..8
               /\ term(i) <= p[i + 1] - p[i] /\ p[i + 1] \in Nat /\ p[i] \in Nat
    <2>1. i \in 0 .. (8 - 1) /\ i \in 0..8 /\ i + 1 \in 0..8
      OBVIOUS
    <2>2. PICK radix \in Nat \ {0}, place \in Nat \ {0}, next \in Nat \ {0} :
             radix = Radix /\ place = 2 ^ (i * ByteBits) /\ next = 2 ^ ((i + 1) * ByteBits)
      BY <1>2, <2>1, Constants
    <2>3. next = place * radix
      <3>1. /\ (i + 1) * ByteBits = i * ByteBits + ByteBits
            /\ i * ByteBits \in Nat /\ ByteBits \in Nat /\ i * ByteBits + ByteBits <= WordBits
        <4>1. PICK c \in Nat : c = ByteBits
          BY Widths
        <4>2. (i + 1) * c = i * c + c /\ i * c \in Nat
          OBVIOUS
        <4>3. (i + 1) * ByteBits <= WordBits
          BY <1>2, <2>1, Widths
        <4>. QED  BY <4>1, <4>2, <4>3
      <3>. QED  BY <2>2, <3>1, PowersMultiply DEF Radix
    <2>4. PICK d \in 0 .. (radix - 1) : d = b[i]
      BY <2>2, Constants
    <2>5. term(i) = d * place /\ p[i] = place /\ p[i + 1] = next
      BY <2>1, <2>2, <2>4
    <2>6. d * place \in Nat /\ d * place <= (radix - 1) * place
          /\ (radix - 1) * place = place * radix - place
      OBVIOUS
    <2> HIDE DEF p, term
    <2>. QED  BY <2>1, <2>3, <2>5, <2>6
  <1>4. PICK f : IsSum(S, weight, f) /\ FromBytes(b) = Signed(f[S], WordBits)
    BY FromBytesIs
  <1>5. Places(8, p)
    <2>1. \A i \in 0..8 : p[i] \in Int
      BY <1>2
    <2>2. ASSUME NEW i \in 0 .. (8 - 1) PROVE p[i] <= p[i + 1]
      <3>1. i \in S
        OBVIOUS
      <3> HIDE DEF p, S, term
      <3>. QED  BY <1>3, <3>1
    <2> HIDE DEF p
    <2>. QED  BY <2>1, <2>2 DEF Places
  <1>6. Digits(S, 8, weight, p)
    <2>1. \A i \in S : weight[i] = term(i)
      BY DEF ByteWeights
    <2> HIDE DEF weight, p, term, S
    <2>. QED  BY <1>3, <2>1 DEF Digits
  <1>7. p[0] = 1 /\ p[8] = 2 ^ WordBits
    <2>1. 0 * ByteBits = 0 /\ 8 * ByteBits = WordBits /\ 0 \in 0..8 /\ 8 \in 0..8
      BY Widths
    <2>. QED  BY <2>1, PowerStep
  <1> HIDE DEF weight, S, p, term
  <1>8. f[S] \in 0 .. (p[8] - p[0])
    BY <1>1, <1>4, <1>5, <1>6, SumBelow
  <1>. QED  BY <1>4, <1>7, <1>8, SignedIsWord

\* u32::to_le_bytes, read back.
LEMMA QuotientBelow ==
    ASSUME NEW n \in Nat, NEW b \in Nat \ {0}, NEW m \in Nat, n < b * m
    PROVE  /\ n \div b \in 0 .. (m - 1)
           /\ n % b \in 0 .. (b - 1) /\ n = (n % b) + b * (n \div b)
  <1>1. PICK q \in Nat, r \in 0 .. (b - 1) : q = n \div b /\ r = n % b /\ n = b * q + r
    <2>1. n \div b \in Nat
      BY Quotients
    <2>2. n % b \in 0 .. (b - 1) /\ n = b * (n \div b) + (n % b)
      BY Remainders
    <2>. QED  BY <2>1, <2>2
  <1>2. ASSUME q >= m PROVE FALSE
    <2>1. PICK k \in Nat : q = m + k
      BY <1>2
    <2>2. b * (m + k) = b * m + b * k /\ b * k \in Nat /\ b * m \in Nat
      OBVIOUS
    <2>. QED  BY <1>1, <2>1, <2>2
  <1>. QED  BY <1>1, <1>2

Spelled(n, r, q1, q2, q3) ==
    /\ n % r \in Nat /\ q1 % r \in Nat /\ q2 % r \in Nat /\ q3 \in 0 .. (r - 1) /\ q3 % r = q3
    /\ n = (n % r) + r * ((q1 % r) + r * ((q2 % r) + r * q3))

LEMMA FourPlaces ==
    ASSUME NEW r \in Nat \ {0}, NEW n \in Nat, n < r * (r * (r * r)),
           NEW q1, q1 = n \div r, NEW q2, q2 = q1 \div r, NEW q3, q3 = q2 \div r
    PROVE  Spelled(n, r, q1, q2, q3)
  <1>1. r * r \in Nat /\ r * (r * r) \in Nat
    OBVIOUS
  <1>2. q1 \in 0 .. (r * (r * r) - 1) /\ n % r \in 0 .. (r - 1) /\ n = (n % r) + r * q1
    BY <1>1, QuotientBelow
  <1>3. q2 \in 0 .. (r * r - 1) /\ q1 % r \in 0 .. (r - 1) /\ q1 = (q1 % r) + r * q2
    <2>1. q1 \in Nat /\ q1 < r * (r * r)
      BY <1>1, <1>2
    <2>. QED  BY <1>1, <2>1, QuotientBelow
  <1>4. q3 \in 0 .. (r - 1) /\ q2 % r \in 0 .. (r - 1) /\ q2 = (q2 % r) + r * q3
    <2>1. q2 \in Nat /\ q2 < r * r
      BY <1>1, <1>3
    <2>. QED  BY <2>1, QuotientBelow
  <1>5. q3 % r = q3
    BY <1>4, SmallRemainder
  <1>6. PICK d0 \in Nat, d1 \in Nat, d2 \in Nat : d0 = n % r /\ d1 = q1 % r /\ d2 = q2 % r
    BY <1>2, <1>3, <1>4
  <1>7. n = d0 + r * (d1 + r * (d2 + r * q3))
    BY <1>2, <1>3, <1>4, <1>6
  <1>. QED  BY <1>4, <1>5, <1>6, <1>7 DEF Spelled

\* The bytes of a 32-bit number, zero-extended.
IsFour(b, le) ==
    /\ b[0] = le[1] /\ b[1] = le[2] /\ b[2] = le[3] /\ b[3] = le[4]
    /\ b[4] = 0 /\ b[5] = 0 /\ b[6] = 0 /\ b[7] = 0

LEMMA FromFour ==
    ASSUME NEW n \in 0 .. UMax32, NEW b \in [0..7 -> Mem!Byte], IsFour(b, Mem!Le4(n))
    PROVE  FromBytes(b) = n
  <1>1. PICK r \in Nat \ {0} : r = Radix /\ r = 2 ^ ByteBits
    BY Constants DEF Radix
  <1>2. PICK q1, q2, q3 : q1 = n \div r /\ q2 = q1 \div r /\ q3 = q2 \div r
    OBVIOUS
  <1>3. PICK w : w = ByteWeights(b)
    OBVIOUS
  <1>4. PICK f : IsSum(0..7, w, f) /\ FromBytes(b) = Signed(f[0..7], WordBits)
    BY <1>3, FromBytesIs
  <1>5. /\ 2 ^ (0 * ByteBits) = 1 /\ 2 ^ (1 * ByteBits) = r /\ 2 ^ (2 * ByteBits) = r * r
        /\ 2 ^ (3 * ByteBits) = r * (r * r) /\ UMax32 + 1 = r * (r * (r * r))
        /\ \A i \in 0..8 : 2 ^ (i * ByteBits) \in Nat
    <2>1. PICK c \in Nat : c = ByteBits /\ WordBits = 8 * c /\ HalfBits = 4 * c
      BY Widths DEF HalfBits
    <2>2. 2 ^ (c + c) = r * r
      BY <1>1, <2>1, PowersMultiply
    <2>3. 2 ^ (c + (c + c)) = r * (r * r)
      BY <1>1, <2>1, <2>2, PowersMultiply
    <2>4. 2 ^ (c + (c + (c + c))) = r * (r * (r * r))
      BY <1>1, <2>1, <2>3, PowersMultiply
    <2>5. 0 * c = 0 /\ 1 * c = c /\ 2 * c = c + c /\ 3 * c = c + (c + c) /\ 4 * c = c + (c + (c + c))
      OBVIOUS
    <2>6. \A i \in 0..8 : i * c \in 0 .. WordBits
      <3>1. ASSUME NEW i \in 0..8 PROVE i * c \in Nat /\ i * c <= 8 * c
        OBVIOUS
      <3>. QED  BY <2>1, <3>1
    <2>. QED  BY <1>1, <2>1, <2>2, <2>3, <2>4, <2>5, <2>6, PowerStep, WordPowers, PowersAreNumbers
  <1>6. /\ n % r \in Nat /\ q1 % r \in Nat /\ q2 % r \in Nat /\ q3 \in Nat /\ q3 % r = q3
        /\ n = (n % r) + r * ((q1 % r) + r * ((q2 % r) + r * q3))
    <2>1. n \in Nat /\ n < r * (r * (r * r))
      BY <1>5, WordPowers
    <2>2. Spelled(n, r, q1, q2, q3)
      BY <1>2, <2>1, FourPlaces
    <2>. QED  BY <2>2 DEF Spelled
  <1>7. /\ b[0] = n % r /\ b[1] = q1 % r /\ b[2] = q2 % r /\ b[3] = q3
    BY <1>1, <1>2, <1>6 DEF IsFour, Mem!Le4
  <1>8. /\ w[0] = n % r /\ w[1] = (q1 % r) * r /\ w[2] = (q2 % r) * (r * r) /\ w[3] = q3 * (r * (r * r))
        /\ w[4] = 0 /\ w[5] = 0 /\ w[6] = 0 /\ w[7] = 0
    <2>1. \A i \in 0..7 : w[i] = b[i] * 2 ^ (i * ByteBits)
      BY <1>3 DEF ByteWeights
    <2>2. /\ w[0] = (n % r) * 1 /\ w[1] = (q1 % r) * r /\ w[2] = (q2 % r) * (r * r)
          /\ w[3] = q3 * (r * (r * r))
      BY <1>5, <1>7, <2>1
    <2>3. ASSUME NEW i \in 4..7 PROVE w[i] = 0
      <3>1. PICK m \in Nat : m = 2 ^ (i * ByteBits)
        BY <1>5
      <3>2. w[i] = 0 * m
        BY <2>1, <3>1 DEF IsFour
      <3>. QED  BY <3>2
    <2>. QED  BY <1>6, <2>2, <2>3
  <1>9. f[0..7] = w[0] + w[1] + w[2] + w[3]
    <2>1. /\ w[0] \in Int /\ w[1] \in Int /\ w[2] \in Int /\ w[3] \in Int
          /\ \A i \in 0..7 : w[i] \in Int
      BY <1>6, <1>8
    <2>2. PICK S : S = 0..7
      OBVIOUS
    <2>3. Accumulates(S, w, f) /\ \A s \in SUBSET S : f[s] \in Int
      <3>1. IsFiniteSet(S) /\ Weighs(S, w)
        BY <2>1, <2>2, FromBytesIs DEF Weighs
      <3>. QED  BY <1>4, <2>2, <3>1, SumAccumulates, SumTyped
    <2>4. ASSUME NEW m \in 0..7 PROVE f[0..m] = w[m] + f[0 .. (m - 1)] /\ f[0 .. (m - 1)] \in Int
      <3>1. PICK s \in SUBSET S, u \in SUBSET S : s = 0..m /\ u = 0 .. (m - 1)
        BY <2>2
      <3>2. s \ {m} = u /\ m \in s
        BY <3>1
      <3>3. f[s] = w[m] + f[s \ {m}] /\ f[u] \in Int
        BY <2>3, <3>2 DEF Accumulates
      <3>. QED  BY <3>1, <3>2, <3>3
    <2>5. f[0 .. (0 - 1)] = 0
      <3>1. 0 .. (0 - 1) = {}
        OBVIOUS
      <3>. QED  BY <2>3, <3>1 DEF Accumulates
    <2>6. /\ f[0..7] = w[7] + f[0..6] /\ f[0..6] = w[6] + f[0..5] /\ f[0..5] = w[5] + f[0..4]
          /\ f[0..4] = w[4] + f[0..3] /\ f[0..3] \in Int
      <3>1. 7 - 1 = 6 /\ 6 - 1 = 5 /\ 5 - 1 = 4 /\ 4 - 1 = 3
        OBVIOUS
      <3>. QED  BY <2>4, <3>1
    <2>7. /\ f[0..3] = w[3] + f[0..2] /\ f[0..2] = w[2] + f[0..1] /\ f[0..1] = w[1] + f[0..0]
          /\ f[0..0] = w[0] + 0
      <3>1. 3 - 1 = 2 /\ 2 - 1 = 1 /\ 1 - 1 = 0
        OBVIOUS
      <3>. QED  BY <2>4, <2>5, <3>1
    <2>8. f[0..7] = f[0..3]
      BY <1>8, <2>6
    <2>. QED  BY <2>1, <2>7, <2>8
  <1>10. f[0..7] = n
    <2>1. PICK d0 \in Nat, d1 \in Nat, d2 \in Nat, d3 \in Nat :
             d0 = n % r /\ d1 = q1 % r /\ d2 = q2 % r /\ d3 = q3
      BY <1>6
    <2>2. d0 + d1 * r + d2 * (r * r) + d3 * (r * (r * r)) = d0 + r * (d1 + r * (d2 + r * d3))
      OBVIOUS
    <2>. QED  BY <1>6, <1>8, <1>9, <2>1, <2>2
  <1>11. n \in 0 .. (2 ^ WordBits - 1) /\ n <= IMax
    BY WordPowers
  <1>. QED  BY <1>4, <1>10, <1>11, SignedIsWord

-----------------------------------------------------------------------------
(***************************************************************************)
(* One instruction keeps the types                                         *)
(***************************************************************************)

LEMMA TypesStay ==
    /\ UNCHANGED regs /\ RegsInv => RegsInv'
    /\ UNCHANGED <<memory, stores>> /\ BytesInv => BytesInv'
    /\ UNCHANGED memory /\ MasksInv => MasksInv'
  BY DEF memory, RegsInv, BytesInv, MasksInv, Mem!StackBase, Mem!Byte, Mem!Offsets

LEMMA WrittenType ==
    ASSUME RegsInv, NEW r \in Register, NEW v \in Word
    PROVE  /\ regs' = Written(r, v) => RegsInv'
           /\ regs' = [regs EXCEPT ![0] = v] => RegsInv'
  BY DEF RegsInv, Written, Fp, Register, Mem!StackBase

LEMMA ValueType ==
    ASSUME RegsInv, NEW o \in Operand
    PROVE  Value(o) \in Word
  <1>1. CASE o \in [reg : Register]
    BY <1>1 DEF RegsInv, Value, IsReg
  <1>2. CASE o \in [imm : Word]
    <2>1. DOMAIN o = {"imm"} /\ o.imm \in Word
      BY <1>2
    <2>2. {"imm"} # {"reg"}
      OBVIOUS
    <2>. QED  BY <2>1, <2>2 DEF Value, IsReg
  <1>. QED  BY <1>1, <1>2 DEF Operand

LEMMA Fields ==
    ASSUME NEW i \in Instruction
    PROVE  /\ i.insn = "Alu" => /\ i.width \in {32, 64} /\ i.op \in AluNames
                                /\ i.dst \in Register /\ i.src \in Operand
           /\ i.insn = "LoadImm64" => i.dst \in Register /\ i.imm \in Word
           /\ i.insn = "Load" => /\ i.size \in {1, 2, 4, 8} /\ i.dst \in Register
                                 /\ i.base \in Register /\ i.offset \in Word
           /\ i.insn = "Store" => /\ i.size \in {1, 2, 4, 8} /\ i.src \in Operand
                                  /\ i.base \in Register /\ i.offset \in Word
  BY DEF Instruction

LEMMA AddressType ==
    ASSUME RegsInv, NEW i, i.base \in Register, i.offset \in Word
    PROVE  Address(i) \in Int
  <1>1. regs[i.base] \in Int /\ i.offset \in Int /\ IMax \in Int
    <2>1. regs[i.base] \in Word
      BY DEF RegsInv
    <2>2. IMax \in Int /\ \A x \in Word : x \in Int
      BY WordPowers DEF Word, IMin
    <2>. QED  BY <2>1, <2>2
  <1>. QED  BY <1>1 DEF Address, WrappingAdd, Wrap, IMin

\* lower_one lets no other byte swap through.
SwapsKnownWidth(i) ==
    i.insn = "Alu" /\ i.op \in EndOps => ~ IsReg(i.src) /\ i.src.imm \in EndWidths

LEMMA AluTypes ==
    ASSUME RegsInv, NEW i \in Instruction, i.insn = "Alu", SwapsKnownWidth(i), ExecAlu(i)
    PROVE  /\ RegsInv'
           /\ i.op \in EndOps => Value(i.src) \in EndWidths
           /\ AluApply(i.op, regs[i.dst], Value(i.src), i.width) \in Word
  <1>1. /\ i.width \in {32, 64} /\ i.op \in AluNames /\ i.dst \in Register /\ i.src \in Operand
    BY Fields
  <1>2. PICK x \in Word, y \in Word : x = regs[i.dst] /\ y = Value(i.src)
    BY <1>1, ValueType DEF RegsInv
  <1>3. i.op \in EndOps => y \in EndWidths
    BY <1>2 DEF Value, SwapsKnownWidth
  <1>4. AluApply(i.op, x, y, i.width) \in Word
    BY <1>1, <1>3, AluClosed
  <1>5. regs' = Written(i.dst, AluApply(i.op, x, y, i.width))
    BY <1>2 DEF ExecAlu
  <1>. QED  BY <1>1, <1>2, <1>3, <1>4, <1>5, WrittenType

LEMMA LoadTypes ==
    ASSUME RegsInv, BytesInv, NEW i \in Instruction, i.insn = "Load", ExecLoad(i)
    PROVE  RegsInv'
  <1>1. i.size \in {1, 2, 4, 8} /\ i.dst \in Register /\ i.base \in Register /\ i.offset \in Word
    BY Fields
  <1>2. PICK a \in Int : a = Address(i)
    BY <1>1, AddressType
  <1>3. CASE /\ Mem!Loading(a, i.size).result = "loaded"
             /\ regs' = Written(i.dst, FromBytes(Mem!Loading(a, i.size).value))
    <2>1. FromBytes(Mem!Loading(a, i.size).value) \in Word
      BY <1>1, <1>3, LoadedBytes, FromBytesIsWord
    <2>. QED  BY <1>1, <1>3, <2>1, WrittenType
  <1>4. CASE regs' = regs
    BY <1>4, TypesStay
  <1>. QED  BY <1>2, <1>3, <1>4 DEF ExecLoad, Fails

\* mark_init sets no bit outside a word.
LEMMA MarkedMasks ==
    ASSUME MasksInv, NEW i \in Int, NEW w \in 1..8, NEW n \in DOMAIN initialized
    PROVE  /\ DOMAIN Mem!Marked(i, w) = DOMAIN initialized
           /\ Mem!Marked(i, w)[n] \subseteq 0..63
  <1>1. PICK bit \in 0..63, word \in Int : bit = i % 64 /\ word = i \div 64
    OBVIOUS
  <1>2. initialized[n] \subseteq 0..63
    BY DEF MasksInv
  <1>3. CASE bit + w <= 64
    <2>1. Mem!Marked(i, w) = [initialized EXCEPT ![word] = @ \cup (bit .. (bit + w - 1))]
      BY <1>1, <1>3 DEF Mem!Marked
    <2>2. bit .. (bit + w - 1) \subseteq 0..63
      BY <1>3
    <2>3. PICK more : more = bit .. (bit + w - 1)
      OBVIOUS
    <2>4. Mem!Marked(i, w)[n] \subseteq initialized[n] \cup more
      BY <2>1, <2>3
    <2>. QED  BY <1>2, <2>1, <2>2, <2>3, <2>4
  <1>4. CASE ~ (bit + w <= 64)
    <2>1. PICK upper, lower : upper = bit .. 63 /\ lower = 0 .. (w - (64 - bit) - 1)
      OBVIOUS
    <2>2. Mem!Marked(i, w) =
             [initialized EXCEPT ![word] = @ \cup upper, ![word + 1] = @ \cup lower]
      BY <1>1, <1>4, <2>1 DEF Mem!Marked
    <2>3. upper \subseteq 0..63 /\ lower \subseteq 0..63
      BY <2>1
    <2>4. Mem!Marked(i, w)[n] \subseteq initialized[n] \cup upper \cup lower
      BY <2>2
    <2>. QED  BY <1>2, <2>2, <2>3, <2>4
  <1>. QED  BY <1>3, <1>4

LEMMA StoreTypes ==
    ASSUME RegsInv, BytesInv, MasksInv, NEW i \in Instruction, i.insn = "Store", ExecStore(i)
    PROVE  RegsInv' /\ BytesInv' /\ MasksInv'
  <1>1. i.size \in {1, 2, 4, 8} /\ i.base \in Register /\ i.offset \in Word /\ i.src \in Operand
    BY Fields
  <1>2. PICK a \in Int, w \in 1..8 : a = Address(i) /\ w = i.size
    BY <1>1, AddressType
  <1>3. PICK v \in [0..7 -> Mem!Byte] : v = ToBytes(Value(i.src))
    BY <1>1, ValueType, ToBytesType
  <1>4. UNCHANGED <<regs, stores>> /\ Mem!Store(a, w, v)
    BY <1>2, <1>3 DEF ExecStore
  <1>5. RegsInv'
    BY <1>4, TypesStay
  <1>6. CASE UNCHANGED memory
    BY <1>4, <1>5, <1>6, TypesStay
  <1>7. CASE /\ bytes' = [j \in Mem!Offsets |->
                            IF j \in (a - Mem!Low) .. (a - Mem!Low + w - 1)
                            THEN v[j - (a - Mem!Low)] ELSE bytes[j]]
             /\ initialized' = Mem!Marked(a - Mem!Low, w)
             /\ UNCHANGED <<packet, xdpMd, mapScratch, rodata>>
    <2>1. PICK o \in Int : o = a - Mem!Low
      BY Constants
    <2>2. bytes \in [Mem!Offsets -> Mem!Byte]
      BY DEF BytesInv
    <2>3. ASSUME NEW j \in Mem!Offsets PROVE bytes'[j] \in Mem!Byte
      <3>1. CASE j \in o .. (o + w - 1)
        <4>1. j - o \in 0..7
          BY <3>1
        <4>. QED  BY <1>7, <2>1, <3>1, <4>1
      <3>2. CASE j \notin o .. (o + w - 1)
        BY <1>7, <2>1, <2>2, <3>2
      <3>. QED  BY <3>1, <3>2
    <2>4. bytes' \in [Mem!Offsets -> Mem!Byte]
      BY <1>7, <2>3
    <2>5. BytesInv'
      BY <1>4, <1>7, <2>4 DEF BytesInv, Mem!Byte, Mem!Offsets
    <2>6. MasksInv'
      <3>1. PICK marked : marked = Mem!Marked(o, w) /\ initialized' = marked
        BY <1>7, <2>1
      <3>2. \A n \in DOMAIN initialized :
               DOMAIN Mem!Marked(o, w) = DOMAIN initialized /\ Mem!Marked(o, w)[n] \subseteq 0..63
        BY MarkedMasks
      <3>3. DOMAIN marked = DOMAIN initialized
        BY <3>1 DEF Mem!Marked
      <3>. QED  BY <3>1, <3>2, <3>3 DEF MasksInv
    <2>. QED  BY <1>5, <2>5, <2>6
  <1>8. CASE /\ mapScratch' = [j \in DOMAIN mapScratch |->
                                 IF j - 1 \in (a - Mem!MapScratchBase) .. (a - Mem!MapScratchBase + w - 1)
                                 THEN v[j - 1 - (a - Mem!MapScratchBase)] ELSE mapScratch[j]]
             /\ UNCHANGED <<bytes, initialized, packet, xdpMd, rodata>>
    <2>1. PICK o \in Int : o = a - Mem!MapScratchBase
      BY Constants
    <2>2. PICK n \in Nat : DOMAIN mapScratch = 1..n /\ \A j \in 1..n : mapScratch[j] \in Mem!Byte
      BY DEF BytesInv
    <2>3. ASSUME NEW j \in 1..n PROVE mapScratch'[j] \in Mem!Byte
      <3>1. CASE j - 1 \in o .. (o + w - 1)
        <4>1. j - 1 - o \in 0..7
          BY <3>1
        <4>. QED  BY <1>8, <2>1, <2>2, <3>1, <4>1
      <3>2. CASE j - 1 \notin o .. (o + w - 1)
        BY <1>8, <2>1, <2>2, <3>2
      <3>. QED  BY <3>1, <3>2
    <2>4. mapScratch' = [j \in 1..n |-> mapScratch'[j]]
      BY <1>8, <2>2
    <2>5. mapScratch' \in Seq(Mem!Byte)
      BY <2>3, <2>4
    <2>6. BytesInv'
      BY <1>4, <1>8, <2>5 DEF BytesInv, Mem!Byte, Mem!Offsets
    <2>7. MasksInv'
      BY <1>8 DEF MasksInv
    <2>. QED  BY <1>5, <2>6, <2>7
  <1>. QED  BY <1>4, <1>6, <1>7, <1>8 DEF Mem!Store, Mem!stack, Mem!staged, memory

LEMMA ZeroValueType ==
    ASSUME NEW fd \in DOMAIN MapTable
    PROVE  ZeroValue(fd) \in Seq(Mem!Byte)
  <1>1. PICK n \in Nat : n = MapTable[fd].value
    BY Descriptors
  <1>2. 0 \in Mem!Byte
    BY Constants
  <1>3. ZeroValue(fd) = [i \in 1..n |-> 0]
    BY <1>1 DEF ZeroValue
  <1>. QED  BY <1>2, <1>3

\* One store is replaced by one whose values are bytes.
LEMMA StoresType ==
    ASSUME BytesInv, NEW fd, NEW store, \A k \in DOMAIN store : store[k] \in Seq(Mem!Byte),
           stores' = [stores EXCEPT ![fd] = store], UNCHANGED memory
    PROVE  BytesInv'
  <1>1. \A d \in DOMAIN stores : stores'[d] = IF d = fd THEN store ELSE stores[d]
    OBVIOUS
  <1>2. DOMAIN stores' = DOMAIN stores
    OBVIOUS
  <1>3. \A d \in DOMAIN stores' : \A k \in DOMAIN stores'[d] : stores'[d][k] \in Seq(Mem!Byte)
    BY <1>1, <1>2 DEF BytesInv
  <1>. QED  BY <1>3 DEF BytesInv, memory, Mem!Byte, Mem!Offsets

LEMMA KeysAreBytes ==
    ASSUME RegsInv, BytesInv, NEW fd \in DOMAIN MapTable
    PROVE  /\ KeyAt(fd).result = "copied" => KeyAt(fd).value \in Seq(Mem!Byte)
           /\ ValueAt(fd).result = "copied" => ValueAt(fd).value \in Seq(Mem!Byte)
  <1>1. PICK a \in Int, b \in Int : a = regs[2] /\ b = regs[3]
    <2>1. regs[2] \in Word /\ regs[3] \in Word
      BY DEF RegsInv, Register
    <2>2. \A x \in Word : x \in Int
      BY WordPowers DEF Word, IMin
    <2>. QED  BY <2>1, <2>2
  <1>2. PICK n \in Nat, m \in Nat : n = MapTable[fd].key /\ m = MapTable[fd].value
    BY Descriptors
  <1>3. KeyAt(fd) = Mem!Copying(a, n) /\ ValueAt(fd) = Mem!Copying(b, m)
    BY <1>1, <1>2 DEF KeyAt, ValueAt
  <1>. QED  BY <1>3, CopiedBytes

LEMMA CallTypes ==
    ASSUME RegsInv, BytesInv, MasksInv, MapsInv, NEW i, ExecCall(i)
    PROVE  RegsInv' /\ BytesInv' /\ MasksInv'
  <1>1. 0 \in Register /\ 0 \in Word /\ -1 \in Word /\ Mem!MapScratchBase \in Word
    BY Constants, WordPowers DEF Register
  <1>2. \A v \in {0, -1} : Returns(v) => RegsInv'
    BY <1>1, WrittenType DEF Returns
  <1>3. ASSUME NEW result, Fails(result) PROVE RegsInv' /\ BytesInv' /\ MasksInv'
    BY <1>3, TypesStay DEF Fails
  <1>4. ASSUME UNCHANGED <<memory, stores>>, NEW v \in {0, -1}, Returns(v)
        PROVE  RegsInv' /\ BytesInv' /\ MasksInv'
    BY <1>2, <1>4, TypesStay
  <1>5. CASE MapLookup
    <2>1. PICK fd : fd = regs[1]
      OBVIOUS
    <2>2. CASE fd \notin DOMAIN MapTable
      BY <1>4, <1>5, <2>1, <2>2 DEF MapLookup
    <2>3. CASE fd \in DOMAIN MapTable /\ KeyAt(fd).result # "copied"
      BY <1>3, <1>5, <2>1, <2>3 DEF MapLookup
    <2>4. CASE fd \in DOMAIN MapTable /\ KeyAt(fd).result = "copied"
      <3>1. PICK key : key = KeyAt(fd).value /\ Hit(fd, key) /\ stores' = stores
        BY <1>5, <2>1, <2>4 DEF MapLookup
      <3>2. CASE key \notin DOMAIN stores[fd]
        BY <1>4, <3>1, <3>2 DEF Hit
      <3>3. CASE key \in DOMAIN stores[fd]
        <4>1. /\ mapScratch' = stores[fd][key]
              /\ regs' = [regs EXCEPT ![0] = Mem!MapScratchBase]
              /\ UNCHANGED <<bytes, initialized, packet, xdpMd, rodata>>
          BY <3>1, <3>3 DEF Hit, Mem!SetMapScratch, Mem!stack
        <4>2. stores[fd][key] \in Seq(Mem!Byte)
          BY <2>4, <3>3 DEF BytesInv, MapsInv
        <4>3. BytesInv'
          BY <3>1, <4>1, <4>2 DEF BytesInv, Mem!Byte, Mem!Offsets
        <4>4. MasksInv'
          BY <4>1 DEF MasksInv
        <4>5. RegsInv'
          BY <1>1, <4>1, WrittenType
        <4>. QED  BY <4>3, <4>4, <4>5
      <3>. QED  BY <3>2, <3>3
    <2>. QED  BY <2>2, <2>3, <2>4
  <1>6. ASSUME UNCHANGED memory, NEW fd, NEW store, NEW v \in {0, -1}, Returns(v),
               \A k \in DOMAIN store : store[k] \in Seq(Mem!Byte),
               stores' = [stores EXCEPT ![fd] = store]
        PROVE  RegsInv' /\ BytesInv' /\ MasksInv'
    <2>1. BytesInv'
      BY <1>6, StoresType
    <2>. QED  BY <1>2, <1>6, <2>1, TypesStay
  <1>7. CASE MapUpdate
    <2>1. PICK fd, store, key, val :
             fd = regs[1] /\ store = stores[fd] /\ key = KeyAt(fd).value /\ val = ValueAt(fd).value
      OBVIOUS
    <2>2. CASE /\ fd \in DOMAIN MapTable /\ ValueAt(fd).result = "copied"
               /\ Returns(0) /\ UNCHANGED memory
               /\ stores' = [stores EXCEPT ![fd] =
                    [k \in DOMAIN store \cup {key} |-> IF k = key THEN val ELSE store[k]]]
      <3>1. PICK new : new = [k \in DOMAIN store \cup {key} |-> IF k = key THEN val ELSE store[k]]
        OBVIOUS
      <3>2. val \in Seq(Mem!Byte)
        BY <2>1, <2>2, KeysAreBytes
      <3>3. \A k \in DOMAIN store : store[k] \in Seq(Mem!Byte)
        BY <2>1, <2>2 DEF BytesInv, MapsInv
      <3>4. \A k \in DOMAIN new : new[k] \in Seq(Mem!Byte)
        BY <3>1, <3>2, <3>3
      <3>5. stores' = [stores EXCEPT ![fd] = new] /\ 0 \in {0, -1}
        BY <2>2, <3>1
      <3>. QED  BY <1>6, <2>2, <3>4, <3>5
    <2>3. CASE (Returns(0) \/ Returns(-1)) /\ UNCHANGED <<memory, stores>>
      BY <1>4, <2>3
    <2>4. CASE \E result : Fails(result)
      BY <1>3, <2>4
    <2>. QED  BY <1>7, <2>1, <2>2, <2>3, <2>4 DEF MapUpdate
  <1>8. CASE MapDelete
    <2>1. PICK fd, store, key : fd = regs[1] /\ store = stores[fd] /\ key = KeyAt(fd).value
      OBVIOUS
    <2>2. CASE /\ fd \in DOMAIN MapTable /\ key \in DOMAIN store
               /\ Returns(0) /\ UNCHANGED memory
               /\ stores' = [stores EXCEPT ![fd] =
                    IF MapTable[fd].kind = "Array"
                    THEN [store EXCEPT ![key] = ZeroValue(fd)]
                    ELSE [k \in DOMAIN store \ {key} |-> store[k]]]
      <3>1. PICK new : new = IF MapTable[fd].kind = "Array"
                             THEN [store EXCEPT ![key] = ZeroValue(fd)]
                             ELSE [k \in DOMAIN store \ {key} |-> store[k]]
        OBVIOUS
      <3>2. ZeroValue(fd) \in Seq(Mem!Byte)
        BY <2>2, ZeroValueType
      <3>3. \A k \in DOMAIN store : store[k] \in Seq(Mem!Byte)
        BY <2>1, <2>2 DEF BytesInv, MapsInv
      <3>4. \A k \in DOMAIN new : new[k] \in Seq(Mem!Byte)
        BY <3>1, <3>2, <3>3
      <3>5. stores' = [stores EXCEPT ![fd] = new] /\ 0 \in {0, -1}
        BY <2>2, <3>1
      <3>. QED  BY <1>6, <2>2, <3>4, <3>5
    <2>3. CASE (Returns(0) \/ Returns(-1)) /\ UNCHANGED <<memory, stores>>
      BY <1>4, <2>3
    <2>4. CASE \E result : Fails(result)
      BY <1>3, <2>4
    <2>. QED  BY <1>8, <2>1, <2>2, <2>3, <2>4 DEF MapDelete
  <1>. QED  BY <1>3, <1>5, <1>7, <1>8 DEF ExecCall

LEMMA ExecuteTypes ==
    ASSUME MapsInv, RegsInv, BytesInv, MasksInv, NEW i, Execute(i),
           i.insn \notin {"Jump", "Trap"} => i \in Instruction /\ SwapsKnownWidth(i)
    PROVE  RegsInv' /\ BytesInv' /\ MasksInv'
  <1>1. ASSUME NEW result, Fails(result) PROVE RegsInv' /\ BytesInv' /\ MasksInv'
    BY <1>1, TypesStay DEF Fails
  <1>2. CASE i.insn = "Alu" /\ ExecAlu(i)
    <2>1. i \in Instruction /\ SwapsKnownWidth(i)
      BY <1>2
    <2>. QED  BY <1>2, <2>1, AluTypes, TypesStay DEF ExecAlu
  <1>3. CASE i.insn = "LoadImm64" /\ ExecLoadImm64(i)
    <2>1. i.dst \in Register /\ i.imm \in Word
      BY <1>3, Fields
    <2>. QED  BY <1>3, <2>1, WrittenType, TypesStay DEF ExecLoadImm64
  <1>4. CASE i.insn = "Load" /\ ExecLoad(i)
    <2>1. i \in Instruction
      BY <1>4
    <2>2. RegsInv'
      BY <1>4, <2>1, LoadTypes
    <2>3. UNCHANGED <<memory, stores>>
      BY <1>4 DEF ExecLoad, Fails
    <2>. QED  BY <2>2, <2>3, TypesStay
  <1>5. CASE i.insn = "Store" /\ ExecStore(i)
    <2>1. i \in Instruction
      BY <1>5
    <2>. QED  BY <1>5, <2>1, StoreTypes
  <1>6. CASE ExecCall(i)
    BY <1>6, CallTypes
  <1>7. CASE UNCHANGED <<regs, memory, stores>>
    BY <1>7, TypesStay
  <1>. QED  BY <1>1, <1>2, <1>3, <1>4, <1>5, <1>6, <1>7 DEF Execute

LEMMA ContextType ==
    ASSUME NEW p \in Seq(Mem!Byte)
    PROVE  Mem!Context(p) \in Seq(Mem!Byte)
  <1>1. ASSUME NEW n \in Int PROVE Mem!Le4(n) \in Seq(Mem!Byte)
    <2>1. PICK m1 \in Int, m2 \in Int, m3 \in Int :
            m1 = n \div Radix /\ m2 = m1 \div Radix /\ m3 = m2 \div Radix
      BY BytesOf
    <2>2. Mem!Le4(n) = <<n % Radix, m1 % Radix, m2 % Radix, m3 % Radix>>
      BY <2>1 DEF Mem!Le4
    <2>3. n % Radix \in Mem!Byte /\ m1 % Radix \in Mem!Byte
          /\ m2 % Radix \in Mem!Byte /\ m3 % Radix \in Mem!Byte
      BY BytesOf
    <2>. QED  BY <2>2, <2>3
  <1>2. PICK base \in Int, end \in Int : base = Mem!PacketBase /\ end = Mem!PacketBase + Len(p)
    <2>1. Mem!PacketBase \in Int /\ Len(p) \in Nat
      BY Constants
    <2>. QED  BY <2>1
  <1>3. PICK low \in Seq(Mem!Byte), high \in Seq(Mem!Byte) : low = Mem!Le4(base) /\ high = Mem!Le4(end)
    BY <1>1
  <1>4. low \o high \in Seq(Mem!Byte)
    OBVIOUS
  <1>. QED  BY <1>2, <1>3, <1>4 DEF Mem!Context

\* Vm::new, install_xdp_packet and install_rodata.
LEMMA BootTypes ==
    ASSUME NEW p, NEW d, Boot(p, d), p # NoBytes => p \in Seq(Mem!Byte), d # NoBytes => d \in Seq(Mem!Byte)
    PROVE  RegsInv /\ BytesInv /\ MasksInv /\ MapsInv
  <1>1. RegsInv
    <2>1. regs = [r \in 0..10 |-> IF r = Fp THEN Mem!StackBase
                                  ELSE IF r = 1 /\ p # NoBytes THEN Mem!XdpMdBase ELSE 0]
      BY DEF Boot
    <2>2. 0 \in Word /\ Mem!StackBase \in Word /\ Mem!XdpMdBase \in Word
      BY Constants, WordPowers
    <2>. QED  BY <2>1, <2>2 DEF RegsInv, Register, Fp
  <1>2. MasksInv
    BY DEF Boot, MasksInv
  <1>3. bytes \in [Mem!Offsets -> Mem!Byte]
    <2>1. bytes = [i \in Mem!Offsets |-> 0]
      BY DEF Boot, Mem!Offsets
    <2>2. 0 \in Mem!Byte
      BY Constants
    <2>. QED  BY <2>1, <2>2
  <1>4. Mem!NoContext \in Seq(Mem!Byte)
    <2>1. 0 \in Mem!Byte
      BY Constants
    <2>. QED  BY <2>1 DEF Mem!NoContext
  <1>5. /\ packet = p /\ mapScratch = <<>> /\ rodata = d
        /\ xdpMd = IF p = NoBytes THEN Mem!NoContext ELSE Mem!Context(p)
        /\ stores = [fd \in DOMAIN MapTable |-> Fresh(fd)]
    BY DEF Boot
  <1>6. xdpMd \in Seq(Mem!Byte)
    BY <1>4, <1>5, ContextType
  <1>7. mapScratch \in Seq(Mem!Byte)
    BY <1>5
  <1>8. \A fd \in DOMAIN stores : \A k \in DOMAIN stores[fd] : stores[fd][k] \in Seq(Mem!Byte)
    <2>1. ASSUME NEW fd \in DOMAIN MapTable, NEW k \in DOMAIN Fresh(fd)
          PROVE  Fresh(fd)[k] \in Seq(Mem!Byte)
      <3>1. Fresh(fd)[k] = ZeroValue(fd)
        BY DEF Fresh
      <3>. QED  BY <3>1, ZeroValueType
    <2>. QED  BY <1>5, <2>1
  <1>9. MapsInv
    BY <1>5, FreshAllowed DEF MapsInv
  <1>. QED  BY <1>1, <1>2, <1>3, <1>5, <1>6, <1>7, <1>8, <1>9 DEF BytesInv

=============================================================================
