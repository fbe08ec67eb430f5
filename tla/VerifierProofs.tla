---------------------------- MODULE VerifierProofs ----------------------------
(***************************************************************************)
(* Proofs about the verifier, for every word size, layout, map table and   *)
(* program: the abstract domain covers the words it speaks of, whatever is *)
(* computed, compared or merged; a loop goes round no more often than its  *)
(* counter allows; and along every path of an accepted program the machine *)
(* is where the verifier believes it to be and does not fault in memory.   *)
(***************************************************************************)
EXTENDS Oracle, Scalars, TripCount, MachineProofs

(***************************************************************************)
(* Words in ranges                                                         *)
(***************************************************************************)

LEMMA RangeCases ==
    ASSUME NEW r \in Ranges
    PROVE  r = Bottom \/ r = Top \/ r \in Intervals
  BY DEF Ranges

LEMMA KindsDiffer ==
    /\ Bottom # Top /\ Bottom \notin Intervals /\ Top \notin Intervals
    /\ \A v : ~ Contains(Bottom, v) /\ Contains(Top, v)
  BY DEF Bottom, Top, Intervals, Contains, IsInterval

LEMMA IntervalContains ==
    ASSUME NEW lo, NEW hi, NEW v
    PROVE  Contains(Interval(lo, hi), v) <=> lo <= v /\ v <= hi
  BY DEF Contains, Interval, IsInterval

\* Merging two ranges keeps the words of both.
THEOREM MergesKeepWords ==
    ASSUME NEW a \in Ranges, NEW b \in Ranges, NEW v \in Word,
           Contains(a, v) \/ Contains(b, v)
    PROVE  Contains(RangeJoin(a, b), v) /\ Contains(RangeWiden(a, b), v)
  <1>1. CASE a \notin Intervals \/ b \notin Intervals
    BY <1>1, RangeCases, KindsDiffer DEF RangeJoin, RangeWiden
  <1>2. CASE a \in Intervals /\ b \in Intervals
    <2>1. a \notin {Bottom, Top} /\ b \notin {Bottom, Top}
      BY <1>2, KindsDiffer
    <2>2. /\ a.lo \in Word /\ a.hi \in Word /\ b.lo \in Word /\ b.hi \in Word
          /\ \/ a.lo <= v /\ v <= a.hi
             \/ b.lo <= v /\ v <= b.hi
      BY <1>2 DEF Intervals, Contains, IsInterval
    <2>3. Contains(RangeJoin(a, b), v)
      BY <2>1, <2>2, IntervalContains, WordAssumption
         DEF RangeJoin, Lesser, Greater, Word, IMin
    <2>4. Contains(RangeWiden(a, b), v)
      BY <2>1, <2>2, IntervalContains, KindsDiffer, WordAssumption
         DEF RangeWiden, Word, IMin
    <2>. QED  BY <2>3, <2>4
  <1>. QED  BY <1>1, <1>2

\* Add and Sub for Range: the checked bounds send every interval in which
\* some sum could wrap to Top, so an interval never hides a wrapped word.
THEOREM ArithmeticSound ==
    ASSUME NEW a \in Ranges, NEW b \in Ranges, NEW x \in Word, NEW y \in Word,
           Contains(a, x), Contains(b, y)
    PROVE  /\ Contains(RangeAdd(a, b), WrappingAdd(x, y))
           /\ Contains(RangeSub(a, b), WrappingSub(x, y))
  <1>1. CASE a \notin Intervals \/ b \notin Intervals
    BY <1>1, RangeCases, KindsDiffer DEF RangeAdd, RangeSub
  <1>2. CASE a \in Intervals /\ b \in Intervals
    <2>1. a \notin {Bottom, Top} /\ b \notin {Bottom, Top}
      BY <1>2, KindsDiffer
    <2>2. /\ a.lo \in Int /\ a.hi \in Int /\ b.lo \in Int /\ b.hi \in Int
          /\ a.lo <= x /\ x <= a.hi /\ b.lo <= y /\ y <= b.hi
          /\ x \in Int /\ y \in Int /\ IMax \in Int
      BY <1>2, WordAssumption DEF Intervals, Contains, IsInterval, Word, IMin
    <2>3. Contains(RangeAdd(a, b), WrappingAdd(x, y))
      <3>1. CASE Fits(a.lo + b.lo) /\ Fits(a.hi + b.hi)
        <4>1. RangeAdd(a, b) = Interval(a.lo + b.lo, a.hi + b.hi)
          BY <2>1, <3>1 DEF RangeAdd
        <4>2. WrappingAdd(x, y) = x + y
          BY <2>2, <3>1 DEF WrappingAdd, Wrap, Fits, IMin
        <4>. QED  BY <2>2, <4>1, <4>2, IntervalContains
      <3>2. CASE ~(Fits(a.lo + b.lo) /\ Fits(a.hi + b.hi))
        BY <2>1, <3>2, KindsDiffer DEF RangeAdd
      <3>. QED  BY <3>1, <3>2
    <2>4. Contains(RangeSub(a, b), WrappingSub(x, y))
      <3>1. CASE Fits(a.lo - b.hi) /\ Fits(a.hi - b.lo)
        <4>1. RangeSub(a, b) = Interval(a.lo - b.hi, a.hi - b.lo)
          BY <2>1, <3>1 DEF RangeSub
        <4>2. WrappingSub(x, y) = x - y
          BY <2>2, <3>1 DEF WrappingSub, Wrap, Fits, IMin
        <4>. QED  BY <2>2, <4>1, <4>2, IntervalContains
      <3>2. CASE ~(Fits(a.lo - b.hi) /\ Fits(a.hi - b.lo))
        BY <2>1, <3>2, KindsDiffer DEF RangeSub
      <3>. QED  BY <3>1, <3>2
    <2>. QED  BY <2>3, <2>4
  <1>. QED  BY <1>1, <1>2

LEMMA MeetContains ==
    ASSUME NEW r \in Ranges, NEW lo \in Word, NEW hi \in Word, NEW v \in Word,
           Contains(r, v), lo <= v, v <= hi
    PROVE  Contains(RangeMeet(r, Interval(lo, hi)), v)
  <1>0. Interval(lo, hi) \in Intervals /\ Interval(lo, hi).lo = lo /\ Interval(lo, hi).hi = hi
    BY DEF Interval, Intervals
  <1>1. CASE r \notin Intervals
    BY <1>0, <1>1, RangeCases, KindsDiffer, IntervalContains DEF RangeMeet
  <1>2. CASE r \in Intervals
    <2>1. r \notin {Bottom, Top} /\ Interval(lo, hi) \notin {Bottom, Top}
      BY <1>0, <1>2, KindsDiffer
    <2>2. /\ r.lo \in Int /\ r.hi \in Int /\ r.lo <= v /\ v <= r.hi
          /\ v \in Int /\ lo \in Int /\ hi \in Int
      BY <1>2, WordAssumption DEF Intervals, Contains, IsInterval, Word, IMin
    <2>3. Greater(r.lo, lo) <= v /\ v <= Lesser(r.hi, hi) /\ Greater(r.lo, lo) <= Lesser(r.hi, hi)
      BY <2>2 DEF Greater, Lesser
    <2>4. RangeMeet(r, Interval(lo, hi)) = Interval(Greater(r.lo, lo), Lesser(r.hi, hi))
      BY <1>0, <2>1, <2>3 DEF RangeMeet
    <2>. QED  BY <2>3, <2>4, IntervalContains
  <1>. QED  BY <1>1, <1>2

\* refine: the word in the register stays in the range of the edge it takes.
\* The unsigned comparisons share the arms of the signed ones, which is right
\* as long as neither side is negative.
THEOREM RefinementSound ==
    ASSUME NEW r \in Ranges, NEW cmp \in Comparisons, NEW k \in Word, NEW v \in Word,
           NEW branch \in BOOLEAN,
           Contains(r, v), JumpTaken(cmp, v, k) = branch,
           cmp \in UnsignedOps => v >= 0 /\ k >= 0
    PROVE  Contains(Refine(r, cmp, k, branch), v)
  <1>0. /\ v \in Int /\ k \in Int /\ IMin \in Word /\ IMax \in Word
        /\ IMin <= v /\ v <= IMax
        /\ SatDec(k) \in Word /\ SatInc(k) \in Word
        /\ v < k => v <= SatDec(k)
        /\ v > k => SatInc(k) <= v
    BY WordAssumption DEF Word, IMin, SatDec, SatInc
  <1> DEFINE c == Canonical(cmp, branch)
  <1>1. /\ c.taken \in BOOLEAN
        /\ c.op = "Eq" /\ c.taken => v = k
        /\ c.op \in {"Lt", "Slt"} /\ c.taken => v < k
        /\ c.op \in {"Lt", "Slt"} /\ ~c.taken => k <= v
        /\ c.op \in {"Le", "Sle"} /\ c.taken => v <= k
        /\ c.op \in {"Le", "Sle"} /\ ~c.taken => k < v
    <2>1. CASE cmp \in {"Eq", "Slt", "Sle"}
      <3>1. c = [op |-> cmp, taken |-> branch]
        BY <2>1 DEF Canonical, Complement
      <3>. QED  BY <1>0, <2>1, <3>1 DEF JumpTaken
    <2>2. CASE cmp \in {"Lt", "Le"}
      <3>1. c = [op |-> cmp, taken |-> branch]
        BY <2>2 DEF Canonical, Complement
      <3>2. Unsigned(v) = v /\ Unsigned(k) = k
        BY <1>0, <2>2 DEF UnsignedOps, Unsigned
      <3>. QED  BY <1>0, <2>2, <3>1, <3>2 DEF JumpTaken
    <2>0. ASSUME NEW op \in {"Ne", "Ge", "Gt", "Sge", "Sgt"}
          PROVE  Canonical(op, branch) = [op |-> Complement[op], taken |-> ~branch]
      BY DEF Canonical, Complement
    <2>3. CASE cmp = "Ne"
      <3>1. c = [op |-> "Eq", taken |-> ~branch]
        BY <2>0, <2>3 DEF Complement
      <3>2. c.op = "Eq" /\ c.taken = ~branch
        BY <3>1
      <3>3. branch <=> v # k
        BY <2>3 DEF JumpTaken
      <3> HIDE DEF c
      <3>4. CASE branch
        BY <1>0, <3>2, <3>3, <3>4
      <3>5. CASE ~branch
        <4>1. c.op = "Eq" /\ c.taken = TRUE
          BY <3>2, <3>5
        <4>2. v = k
          BY <1>0, <3>3, <3>5
        <4>. QED  BY <1>0, <4>1, <4>2
      <3>. QED  BY <3>4, <3>5
    <2>4. CASE cmp = "Sgt"
      <3>1. c = [op |-> "Sle", taken |-> ~branch]
        BY <2>0, <2>4 DEF Complement
      <3>2. c.op = "Sle" /\ c.taken = ~branch
        BY <3>1
      <3>3. branch <=> v > k
        BY <2>4 DEF JumpTaken
      <3> HIDE DEF c
      <3>4. CASE branch
        BY <1>0, <3>2, <3>3, <3>4
      <3>5. CASE ~branch
        <4>1. c.op = "Sle" /\ c.taken = TRUE
          BY <3>2, <3>5
        <4>2. v <= k
          BY <1>0, <3>3, <3>5
        <4>. QED  BY <1>0, <4>1, <4>2
      <3>. QED  BY <3>4, <3>5
    <2>5. CASE cmp = "Sge"
      <3>1. c = [op |-> "Slt", taken |-> ~branch]
        BY <2>0, <2>5 DEF Complement
      <3>2. c.op = "Slt" /\ c.taken = ~branch
        BY <3>1
      <3>3. branch <=> v >= k
        BY <2>5 DEF JumpTaken
      <3> HIDE DEF c
      <3>4. CASE branch
        BY <1>0, <3>2, <3>3, <3>4
      <3>5. CASE ~branch
        <4>1. c.op = "Slt" /\ c.taken = TRUE
          BY <3>2, <3>5
        <4>2. v < k
          BY <1>0, <3>3, <3>5
        <4>. QED  BY <1>0, <4>1, <4>2
      <3>. QED  BY <3>4, <3>5
    <2>6. CASE cmp \in {"Gt", "Ge"}
      <3>1. /\ cmp = "Gt" => c = [op |-> "Le", taken |-> ~branch]
            /\ cmp = "Ge" => c = [op |-> "Lt", taken |-> ~branch]
        BY <2>0 DEF Complement
      <3>2. Unsigned(v) = v /\ Unsigned(k) = k
        BY <1>0, <2>6 DEF UnsignedOps, Unsigned
      <3>3. /\ cmp = "Gt" => c.op = "Le" /\ (branch <=> v > k)
            /\ cmp = "Ge" => c.op = "Lt" /\ (branch <=> v >= k)
        BY <3>1, <3>2 DEF JumpTaken
      <3>4. c.taken = ~branch
        BY <2>6, <3>1
      <3> HIDE DEF c
      <3>5. CASE branch
        BY <1>0, <2>6, <3>3, <3>4, <3>5
      <3>6. CASE ~branch
        <4>1. c.taken = TRUE
          BY <3>4, <3>6
        <4>2. (cmp = "Gt" => c.op = "Le" /\ v <= k) /\ (cmp = "Ge" => c.op = "Lt" /\ v < k)
          BY <1>0, <3>3, <3>6
        <4>. QED  BY <1>0, <2>6, <4>1, <4>2
      <3>. QED  BY <3>5, <3>6
    <2>. QED  BY <2>1, <2>2, <2>3, <2>4, <2>5, <2>6 DEF Comparisons, UnsignedOps
  <1>2. Refine(r, cmp, k, branch) =
          CASE c.op = "Eq" /\ c.taken                -> RangeMeet(r, Interval(k, k))
            [] c.op \in {"Lt", "Slt"} /\ c.taken     -> RangeMeet(r, Interval(IMin, SatDec(k)))
            [] c.op \in {"Lt", "Slt"} /\ ~c.taken    -> RangeMeet(r, Interval(k, IMax))
            [] c.op \in {"Le", "Sle"} /\ c.taken     -> RangeMeet(r, Interval(IMin, k))
            [] c.op \in {"Le", "Sle"} /\ ~c.taken    -> RangeMeet(r, Interval(SatInc(k), IMax))
            [] OTHER                                 -> r
    BY DEF Refine, Exact
  <1> HIDE DEF c
  <1>3. CASE c.op = "Eq" /\ c.taken
    BY <1>0, <1>1, <1>2, <1>3, MeetContains
  <1>4. CASE c.op \in {"Lt", "Slt"} /\ c.taken
    BY <1>0, <1>1, <1>2, <1>4, MeetContains
  <1>5. CASE c.op \in {"Lt", "Slt"} /\ ~c.taken
    BY <1>0, <1>1, <1>2, <1>5, MeetContains
  <1>6. CASE c.op \in {"Le", "Sle"} /\ c.taken
    BY <1>0, <1>1, <1>2, <1>6, MeetContains
  <1>7. CASE c.op \in {"Le", "Sle"} /\ ~c.taken
    BY <1>0, <1>1, <1>2, <1>7, MeetContains
  <1>8. CASE c.op \notin {"Lt", "Slt", "Le", "Sle"} /\ ~(c.op = "Eq" /\ c.taken)
    BY <1>2, <1>8
  <1>. QED  BY <1>3, <1>4, <1>5, <1>6, <1>7, <1>8

-----------------------------------------------------------------------------
(***************************************************************************)
(* From ranges to states: the domain that Fixpoint assumes.  The proofs go *)
(* up the levels of the state: ranges, register types, states.             *)
(***************************************************************************)

\* Inclusion of ranges, bound by bound.
RangeLeq(a, b) ==
    \/ a = Bottom
    \/ b = Top
    \/ IsInterval(a) /\ IsInterval(b) /\ b.lo <= a.lo /\ a.hi <= b.hi

LEMMA RangeShape ==
    ASSUME NEW r \in Ranges
    PROVE  \/ r = Bottom
           \/ r = Top
           \/ IsInterval(r) /\ r.lo \in Int /\ r.hi \in Int
              /\ r = Interval(r.lo, r.hi) /\ r # Bottom /\ r # Top
  BY DEF Ranges, Intervals, Word, Bottom, Top, IsInterval, Interval, IMin

LEMMA RangeKinds == Bottom # Top /\ ~ IsInterval(Bottom) /\ ~ IsInterval(Top)
  BY DEF Bottom, Top, IsInterval

\* A merge that changes nothing is an inclusion, and conversely.
LEMMA RangeJoinOrder ==
    ASSUME NEW a \in Ranges, NEW b \in Ranges
    PROVE  RangeJoin(b, a) = b <=> RangeLeq(a, b)
  <1>1. CASE a \in {Bottom, Top} \/ b \in {Bottom, Top}
    BY <1>1, RangeShape, RangeKinds DEF RangeJoin, RangeLeq
  <1>2. CASE a \notin {Bottom, Top} /\ b \notin {Bottom, Top}
    <2>1. /\ IsInterval(a) /\ a.lo \in Int /\ a.hi \in Int
          /\ IsInterval(b) /\ b.lo \in Int /\ b.hi \in Int /\ b = Interval(b.lo, b.hi)
      BY <1>2, RangeShape
    <2>2. RangeJoin(b, a) = Interval(Lesser(b.lo, a.lo), Greater(b.hi, a.hi))
      BY <1>2 DEF RangeJoin
    <2>3. RangeJoin(b, a) = b <=> Lesser(b.lo, a.lo) = b.lo /\ Greater(b.hi, a.hi) = b.hi
      BY <2>1, <2>2 DEF Interval
    <2>. QED  BY <1>2, <2>1, <2>3 DEF Lesser, Greater, RangeLeq
  <1>. QED  BY <1>1, <1>2

LEMMA RangeLeqOrder ==
    ASSUME NEW a \in Ranges, NEW b \in Ranges, NEW c \in Ranges
    PROVE  /\ RangeLeq(a, a)
           /\ RangeLeq(a, b) /\ RangeLeq(b, c) => RangeLeq(a, c)
           /\ RangeLeq(a, b) /\ RangeLeq(b, a) => a = b
  BY RangeShape, RangeKinds DEF RangeLeq

\* Range::join and Range::widen are upper bounds.
LEMMA RangeJoinUpper ==
    ASSUME NEW a \in Ranges, NEW b \in Ranges
    PROVE  /\ RangeJoin(a, b) \in Ranges
           /\ RangeLeq(a, RangeJoin(a, b))
           /\ RangeLeq(b, RangeJoin(a, b))
  <1>1. CASE a \in {Bottom, Top} \/ b \in {Bottom, Top}
    <2>1. RangeJoin(a, b) \in {a, b, Top}
      BY <1>1 DEF RangeJoin
    <2>. QED  BY <1>1, <2>1, RangeShape, RangeKinds DEF RangeJoin, RangeLeq, Ranges
  <1>2. CASE a \notin {Bottom, Top} /\ b \notin {Bottom, Top}
    <2>1. a \in Intervals /\ b \in Intervals
      BY <1>2 DEF Ranges
    <2>2. RangeJoin(a, b) = Interval(Lesser(a.lo, b.lo), Greater(a.hi, b.hi))
      BY <1>2 DEF RangeJoin
    <2>. QED  BY <2>1, <2>2, WordAssumption
              DEF Intervals, Interval, Lesser, Greater, Word, IMin, RangeLeq, IsInterval, Ranges
  <1>. QED  BY <1>1, <1>2

LEMMA RangeWidenUpper ==
    ASSUME NEW a \in Ranges, NEW b \in Ranges
    PROVE  /\ RangeWiden(a, b) \in Ranges
           /\ RangeLeq(a, RangeWiden(a, b))
           /\ RangeLeq(b, RangeWiden(a, b))
  <1>1. CASE a \in {Bottom, Top} \/ b \in {Bottom, Top}
    <2>1. RangeWiden(a, b) \in {a, b, Top}
      BY <1>1 DEF RangeWiden
    <2>. QED  BY <1>1, <2>1, RangeShape, RangeKinds DEF RangeWiden, RangeLeq, Ranges
  <1>2. CASE a \notin {Bottom, Top} /\ b \notin {Bottom, Top}
    <2>1. a \in Intervals /\ b \in Intervals
      BY <1>2 DEF Ranges
    <2>2. PICK lo, hi : /\ lo = (IF b.lo < a.lo THEN IMin ELSE a.lo)
                        /\ hi = (IF b.hi > a.hi THEN IMax ELSE a.hi)
                        /\ RangeWiden(a, b) = IF lo = IMin /\ hi = IMax THEN Top
                                              ELSE Interval(lo, hi)
      BY <1>2 DEF RangeWiden
    <2>3. /\ lo \in Word /\ hi \in Word
          /\ lo <= a.lo /\ lo <= b.lo /\ a.hi <= hi /\ b.hi <= hi
      BY <2>1, <2>2, WordAssumption DEF Intervals, Word, IMin
    <2>4. CASE lo = IMin /\ hi = IMax
      BY <2>2, <2>4 DEF RangeLeq, Ranges
    <2>5. CASE ~(lo = IMin /\ hi = IMax)
      BY <2>1, <2>2, <2>3, <2>5 DEF RangeLeq, Ranges, Intervals, Interval, IsInterval
    <2>. QED  BY <2>4, <2>5
  <1>. QED  BY <1>1, <1>2

(***************************************************************************)
(* Register types                                                          *)
(***************************************************************************)

\* The order of the register types, spelled out: NotInit above everything,
\* the unknown scalar above every written register, a map pointer below the
\* nullable pointer of its map, and ranges compared within one type.
RegBelow(a, b) ==
    \/ b = NotInit
    \/ a # NotInit /\ b = Scalar(Top)
    \/ a = b
    \/ a.type \in Ranged /\ b.type = a.type /\ RangeLeq(a.range, b.range)
    \/ a.type = "MapPtr" /\ b.type = "MaybeMapPtr" /\ a.fd = b.fd

\* A register holds one of five shapes.
LEMMA RegShape ==
    ASSUME NEW a \in RegType
    PROVE  \/ a = NotInit
           \/ a = XdpMdPtr
           \/ a.type \in Ranged /\ a.range \in Ranges
              /\ a = [type |-> a.type, range |-> a.range]
           \/ a.type = "StackPtr" /\ a.offset \in Int /\ a = StackPtr(a.offset)
           \/ a.type \in {"MapPtr", "MaybeMapPtr"} /\ a.fd \in Fds
              /\ a = [type |-> a.type, fd |-> a.fd]
  BY DEF RegType, StackPtr

LEMMA RegKinds ==
    /\ NotInit.type = "NotInit" /\ XdpMdPtr.type = "XdpMdPtr"
    /\ Scalar(Top).type = "Scalar" /\ Scalar(Top).range = Top
    /\ NotInit \in RegType /\ XdpMdPtr \in RegType /\ Scalar(Top) \in RegType
  BY DEF NotInit, XdpMdPtr, Scalar, RegType, Ranged, Ranges

\* What a join does, case by case.
LEMMA RegJoinCases ==
    ASSUME NEW a \in RegType, NEW b \in RegType
    PROVE  \/ NotInit \in {a, b} /\ RegJoin(a, b) = NotInit
           \/ /\ a.type \in Ranged /\ b.type = a.type
              /\ RegJoin(a, b) = [type |-> a.type, range |-> RangeJoin(a.range, b.range)]
           \/ a = b /\ a.type \notin Ranged /\ RegJoin(a, b) = a
           \/ /\ {a.type, b.type} = {"MapPtr", "MaybeMapPtr"} /\ a.fd = b.fd
              /\ RegJoin(a, b) = MaybeMapPtr(a.fd)
           \/ /\ NotInit \notin {a, b} /\ a # b
              /\ ~(a.type \in Ranged /\ b.type = a.type)
              /\ ~({a.type, b.type} = {"MapPtr", "MaybeMapPtr"} /\ a.fd = b.fd)
              /\ RegJoin(a, b) = Scalar(Top)
  <1> DEFINE C1 == NotInit \in {a, b}
             C2 == a.type \in Ranged /\ b.type = a.type
             C3 == a.type = "StackPtr" /\ b.type = "StackPtr" /\ a.offset = b.offset
             C4 == a.type = "MapPtr" /\ b.type = "MapPtr" /\ a.fd = b.fd
             C5 == /\ {a.type, b.type} \subseteq {"MapPtr", "MaybeMapPtr"}
                   /\ "MaybeMapPtr" \in {a.type, b.type} /\ a.fd = b.fd
             C6 == a = XdpMdPtr /\ b = XdpMdPtr
  <1>0. "NotInit" \notin Ranged /\ "XdpMdPtr" \notin Ranged /\ "StackPtr" \notin Ranged
        /\ "MapPtr" \notin Ranged /\ "MaybeMapPtr" \notin Ranged
    BY DEF Ranged
  <1>1. CASE C1
    BY <1>0, <1>1, RegKinds DEF RegJoin
  <1>2. CASE ~C1 /\ C2
    BY <1>0, <1>2, RegKinds DEF RegJoin
  <1>3. CASE ~C1 /\ C3
    BY <1>0, <1>3, RegShape, RegKinds DEF RegJoin
  <1>4. CASE ~C1 /\ C4
    BY <1>0, <1>4, RegShape, RegKinds DEF RegJoin
  <1>5. CASE ~C1 /\ C5
    BY <1>0, <1>5, RegShape, RegKinds DEF RegJoin, MaybeMapPtr
  <1>6. CASE ~C1 /\ C6
    BY <1>0, <1>6, RegShape, RegKinds DEF RegJoin
  <1>7. CASE ~C1 /\ ~C2 /\ ~C3 /\ ~C4 /\ ~C5 /\ ~C6
    BY <1>0, <1>7, RegShape, RegKinds DEF RegJoin
  <1>. QED  BY <1>1, <1>2, <1>3, <1>4, <1>5, <1>6, <1>7

\* The register part of a merge changes nothing exactly when the incoming
\* register is below the stored one.
LEMMA RegLeqIff ==
    ASSUME NEW a \in RegType, NEW b \in RegType
    PROVE  RegLeq(a, b) <=> RegBelow(a, b)
  <1>1. CASE NotInit \in {a, b}
    <2>1. RegJoin(b, a) = NotInit
      BY <1>1, RegJoinCases, RegKinds DEF Ranged
    <2>. QED  BY <1>1, <2>1, RegKinds DEF RegLeq, RegBelow, Ranged
  <1>2. CASE /\ b.type \in Ranged /\ a.type = b.type
    <2>1. RegJoin(b, a) = [type |-> b.type, range |-> RangeJoin(b.range, a.range)]
      BY <1>2, RegJoinCases, RegKinds DEF Ranged
    <2>2. /\ a.range \in Ranges /\ b.range \in Ranges
          /\ b = [type |-> b.type, range |-> b.range]
          /\ a = [type |-> a.type, range |-> a.range]
      BY <1>2, RegShape, RegKinds DEF Ranged, StackPtr
    <2>3. RegLeq(a, b) <=> RangeJoin(b.range, a.range) = b.range
      BY <2>1, <2>2 DEF RegLeq
    <2>4. RegLeq(a, b) <=> RangeLeq(a.range, b.range)
      BY <2>2, <2>3, RangeJoinOrder
    <2>5. b = Scalar(Top) => RangeLeq(a.range, b.range)
      BY RegKinds DEF RangeLeq
    <2>6. a = b => RangeLeq(a.range, b.range)
      BY <2>2, RangeLeqOrder
    <2>. QED  BY <1>2, <2>4, <2>5, <2>6, RegKinds DEF RegBelow, Ranged
  <1>3. CASE a = b /\ a.type \notin Ranged
    BY <1>3, RegJoinCases DEF RegLeq, RegBelow, MaybeMapPtr
  <1>4. CASE {a.type, b.type} = {"MapPtr", "MaybeMapPtr"} /\ a.fd = b.fd
    <2>1. RegJoin(b, a) = MaybeMapPtr(a.fd)
      BY <1>4, RegJoinCases, RegKinds DEF Ranged
    <2>2. b.type = "MaybeMapPtr" => b = MaybeMapPtr(b.fd)
      BY RegShape, RegKinds DEF MaybeMapPtr, Ranged, StackPtr
    <2>3. MaybeMapPtr(a.fd).type = "MaybeMapPtr"
      BY DEF MaybeMapPtr
    <2>. QED  BY <1>4, <2>1, <2>2, <2>3, RegKinds DEF RegLeq, RegBelow, Ranged
  <1>5. CASE /\ NotInit \notin {a, b} /\ a # b
             /\ ~(b.type \in Ranged /\ a.type = b.type)
             /\ ~({a.type, b.type} = {"MapPtr", "MaybeMapPtr"} /\ a.fd = b.fd)
    <2>1. RegJoin(b, a) = Scalar(Top)
      BY <1>5, RegJoinCases
    <2>. QED  BY <1>5, <2>1 DEF RegLeq, RegBelow
  <1>. QED  BY <1>1, <1>2, <1>3, <1>4, <1>5

LEMMA RegBelowOrder ==
    ASSUME NEW a \in RegType, NEW b \in RegType, NEW c \in RegType,
           RegBelow(a, b), RegBelow(b, c)
    PROVE  RegBelow(a, c)
  <1>0. \A x \in RegType : x.type \in Ranged => x.range \in Ranges
    BY RegShape, RegKinds DEF Ranged, StackPtr
  <1>1. CASE c = NotInit \/ b = NotInit \/ a = b \/ b = c
    BY <1>1, RegKinds DEF RegBelow, Ranged
  <1>2. CASE c = Scalar(Top)
    BY <1>1, <1>2, RegKinds DEF RegBelow, Ranged
  <1>3. CASE b = Scalar(Top) /\ c # NotInit /\ b # c
    <2>1. c.type = "Scalar" /\ RangeLeq(Top, c.range) /\ c.range \in Ranges
      BY <1>0, <1>3, RegKinds DEF RegBelow, Ranged
    <2>2. c.range = Top
      BY <2>1, RangeKinds DEF RangeLeq
    <2>3. c = Scalar(Top)
      BY <2>1, <2>2, RegShape, RegKinds DEF Scalar, StackPtr
    <2>. QED  BY <1>3, <2>3
  <1>4. CASE /\ a.type \in Ranged /\ b.type = a.type /\ RangeLeq(a.range, b.range)
             /\ c.type = b.type /\ RangeLeq(b.range, c.range)
    <2>1. RangeLeq(a.range, c.range)
      BY <1>0, <1>4, RangeLeqOrder
    <2>. QED  BY <1>4, <2>1 DEF RegBelow
  <1>. QED  BY <1>1, <1>2, <1>3, <1>4, RegKinds DEF RegBelow, Ranged

\* RegType::join and the widening of a register are upper bounds.
LEMMA RegJoinUpper ==
    ASSUME NEW a \in RegType, NEW b \in RegType
    PROVE  /\ RegJoin(a, b) \in RegType
           /\ RegBelow(a, RegJoin(a, b))
           /\ RegBelow(b, RegJoin(a, b))
  <1>1. CASE NotInit \in {a, b} /\ RegJoin(a, b) = NotInit
    BY <1>1, RegKinds DEF RegBelow
  <1>2. CASE /\ a.type \in Ranged /\ b.type = a.type
             /\ RegJoin(a, b) = [type |-> a.type, range |-> RangeJoin(a.range, b.range)]
    <2>1. a.range \in Ranges /\ b.range \in Ranges
      BY <1>2, RegShape, RegKinds DEF Ranged, StackPtr
    <2>2. /\ RangeJoin(a.range, b.range) \in Ranges
          /\ RangeLeq(a.range, RangeJoin(a.range, b.range))
          /\ RangeLeq(b.range, RangeJoin(a.range, b.range))
      BY <2>1, RangeJoinUpper
    <2>. QED  BY <1>2, <2>2 DEF RegBelow, RegType
  <1>3. CASE a = b /\ a.type \notin Ranged /\ RegJoin(a, b) = a
    BY <1>3 DEF RegBelow
  <1>4. CASE /\ {a.type, b.type} = {"MapPtr", "MaybeMapPtr"} /\ a.fd = b.fd
             /\ RegJoin(a, b) = MaybeMapPtr(a.fd)
    <2>1. \A x \in RegType : x.type \in {"MapPtr", "MaybeMapPtr"} =>
             x.fd \in Fds /\ x = [type |-> x.type, fd |-> x.fd]
      BY RegShape, RegKinds DEF Ranged, StackPtr
    <2>2. MaybeMapPtr(a.fd) \in RegType
      BY <1>4, <2>1 DEF RegType, MaybeMapPtr
    <2>. QED  BY <1>4, <2>1, <2>2 DEF RegBelow, MaybeMapPtr
  <1>5. CASE NotInit \notin {a, b} /\ RegJoin(a, b) = Scalar(Top)
    BY <1>5, RegKinds DEF RegBelow
  <1>. QED  BY <1>1, <1>2, <1>3, <1>4, <1>5, RegJoinCases

LEMMA RegWidenUpper ==
    ASSUME NEW a \in RegType, NEW b \in RegType
    PROVE  /\ RegWiden(a, b) \in RegType
           /\ RegBelow(a, RegWiden(a, b))
           /\ RegBelow(b, RegWiden(a, b))
  <1>1. CASE a.type \in Ranged /\ b.type = a.type
    <2>1. a.range \in Ranges /\ b.range \in Ranges
      BY <1>1, RegShape, RegKinds DEF Ranged, StackPtr
    <2>2. /\ RangeWiden(a.range, b.range) \in Ranges
          /\ RangeLeq(a.range, RangeWiden(a.range, b.range))
          /\ RangeLeq(b.range, RangeWiden(a.range, b.range))
      BY <2>1, RangeWidenUpper
    <2>. QED  BY <1>1, <2>2 DEF RegWiden, RegBelow, RegType
  <1>2. CASE ~(a.type \in Ranged /\ b.type = a.type)
    BY <1>2, RegJoinUpper DEF RegWiden
  <1>. QED  BY <1>1, <1>2

(***************************************************************************)
(* States                                                                  *)
(***************************************************************************)

LEMMA StateShape ==
    ASSUME NEW s \in AbsState
    PROVE  /\ \A r \in Regs : s.regs[r] \in RegType
           /\ s.init \subseteq StackByte
  BY DEF AbsState

\* Merging keeps the state in the domain and loses nothing of either side:
\* the registers go up, the bytes known to be written go down.
LEMMA StateJoinUpper ==
    ASSUME NEW s \in AbsState, NEW t \in AbsState
    PROVE  /\ StateJoin(s, t) \in AbsState
           /\ StateLeq(s, StateJoin(s, t))
           /\ StateLeq(t, StateJoin(s, t))
  <1>1. \A r \in Regs : /\ RegJoin(s.regs[r], t.regs[r]) \in RegType
                        /\ RegLeq(s.regs[r], RegJoin(s.regs[r], t.regs[r]))
                        /\ RegLeq(t.regs[r], RegJoin(s.regs[r], t.regs[r]))
    BY StateShape, RegJoinUpper, RegLeqIff
  <1>. QED  BY <1>1, StateShape DEF StateJoin, StateLeq, AbsState

LEMMA StateWidenUpper ==
    ASSUME NEW s \in AbsState, NEW t \in AbsState
    PROVE  /\ StateWiden(s, t) \in AbsState
           /\ StateLeq(s, StateWiden(s, t))
           /\ StateLeq(t, StateWiden(s, t))
  <1>1. \A r \in Regs : /\ RegWiden(s.regs[r], t.regs[r]) \in RegType
                        /\ RegLeq(s.regs[r], RegWiden(s.regs[r], t.regs[r]))
                        /\ RegLeq(t.regs[r], RegWiden(s.regs[r], t.regs[r]))
    BY StateShape, RegWidenUpper, RegLeqIff
  <1>. QED  BY <1>1, StateShape DEF StateWiden, StateLeq, AbsState

LEMMA StateLeqOrder ==
    ASSUME NEW s \in AbsState, NEW t \in AbsState, NEW u \in AbsState
    PROVE  /\ StateLeq(s, s)
           /\ StateLeq(s, t) /\ StateLeq(t, u) => StateLeq(s, u)
  <1>1. \A r \in Regs : RegLeq(s.regs[r], s.regs[r])
    BY StateShape, RegLeqIff DEF RegBelow
  <1>2. ASSUME StateLeq(s, t), StateLeq(t, u)
        PROVE  \A r \in Regs : RegLeq(s.regs[r], u.regs[r])
    <2> SUFFICES ASSUME NEW r \in Regs PROVE RegLeq(s.regs[r], u.regs[r])
      OBVIOUS
    <2>1. s.regs[r] \in RegType /\ t.regs[r] \in RegType /\ u.regs[r] \in RegType
      BY StateShape
    <2>2. RegBelow(s.regs[r], t.regs[r]) /\ RegBelow(t.regs[r], u.regs[r])
      BY <1>2, <2>1, RegLeqIff DEF StateLeq
    <2>3. RegBelow(s.regs[r], u.regs[r])
      BY <2>1, <2>2, RegBelowOrder
    <2>. QED  BY <2>1, <2>3, RegLeqIff
  <1>. QED  BY <1>1, <1>2 DEF StateLeq

\* VerifierState::join_assign and ::widen_assign meet the assumption of
\* Fixpoint about its domain, for every word size, register set and stack:
\* the two merges return upper bounds, and "unchanged" is an order.  So what
\* is proved about the worklist holds of the verifier's own states.
THEOREM MergesAreUpperBounds ==
    /\ \A s, t \in AbsState :
          /\ StateJoin(s, t) \in AbsState
          /\ StateLeq(s, StateJoin(s, t)) /\ StateLeq(t, StateJoin(s, t))
          /\ StateWiden(s, t) \in AbsState
          /\ StateLeq(s, StateWiden(s, t)) /\ StateLeq(t, StateWiden(s, t))
    /\ \A s \in AbsState : StateLeq(s, s)
    /\ \A s, t \in AbsState : StateLeq(s, t) =>
          \A u \in AbsState : StateLeq(t, u) => StateLeq(s, u)
  BY StateJoinUpper, StateWidenUpper, StateLeqOrder

\* How often widening can change a range, a register and a state.
LEMMA RangeWidenRank ==
    ASSUME NEW a \in Ranges, NEW b \in Ranges
    PROVE  /\ RangeRank(a) \in 0 .. 3
           /\ RangeRank(RangeWiden(a, b)) <= RangeRank(a)
           /\ RangeWiden(a, b) # a => RangeRank(RangeWiden(a, b)) < RangeRank(a)
  <1>1. RangeRank(Bottom) = 3 /\ RangeRank(Top) = 0
    BY RangeKinds DEF RangeRank
  <1>2. ASSUME NEW r \in Ranges, r # Bottom, r # Top
        PROVE  RangeRank(r) = IF r.lo # IMin /\ r.hi # IMax THEN 2 ELSE 1
    BY <1>2 DEF RangeRank
  <1>3. RangeRank(a) \in 0 .. 3
    BY <1>1, <1>2
  <1>4. CASE a = Bottom
    <2>1. RangeWiden(a, b) = b
      BY <1>4 DEF RangeWiden
    <2>. QED  BY <1>1, <1>2, <1>4, <2>1
  <1>5. CASE b = Bottom \/ a = Top
    <2>1. RangeWiden(a, b) = a
      BY <1>5, RangeKinds DEF RangeWiden
    <2>. QED  BY <1>3, <2>1
  <1>6. CASE a # Bottom /\ a # Top /\ b = Top
    <2>1. RangeWiden(a, b) = Top
      BY <1>6, RangeKinds DEF RangeWiden
    <2>. QED  BY <1>1, <1>2, <1>6, <2>1
  <1>7. CASE a \notin {Bottom, Top} /\ b \notin {Bottom, Top}
    <2>1. /\ a.lo \in Word /\ a.hi \in Word /\ b.lo \in Word /\ b.hi \in Word
          /\ a = Interval(a.lo, a.hi)
      BY <1>7, RangeShape DEF Ranges, Intervals
    <2>2. PICK lo, hi : /\ lo = (IF b.lo < a.lo THEN IMin ELSE a.lo)
                        /\ hi = (IF b.hi > a.hi THEN IMax ELSE a.hi)
                        /\ RangeWiden(a, b) = IF lo = IMin /\ hi = IMax THEN Top
                                              ELSE Interval(lo, hi)
      BY <1>7 DEF RangeWiden
    <2>3. RangeRank(a) = IF a.lo # IMin /\ a.hi # IMax THEN 2 ELSE 1
      BY <1>2, <1>7
    <2>4. CASE lo = IMin /\ hi = IMax
      BY <1>1, <2>2, <2>3, <2>4
    <2>5. CASE ~ (lo = IMin /\ hi = IMax)
      <3>1. RangeWiden(a, b) = Interval(lo, hi)
        BY <2>2, <2>5
      <3>2. lo \in {a.lo, IMin} /\ hi \in {a.hi, IMax}
        BY <2>2
      <3>3. RangeRank(Interval(lo, hi)) = IF lo # IMin /\ hi # IMax THEN 2 ELSE 1
        <4>1. /\ Interval(lo, hi).lo = lo /\ Interval(lo, hi).hi = hi
              /\ Interval(lo, hi) # Bottom /\ Interval(lo, hi) # Top
          BY RangeKinds DEF Interval, Bottom, Top
        <4>. QED  BY <4>1 DEF RangeRank
      <3>4. CASE lo = a.lo /\ hi = a.hi
        BY <1>3, <2>1, <3>1, <3>4
      <3>5. CASE lo # a.lo
        <4>1. lo = IMin /\ a.lo # IMin /\ hi # IMax
          BY <2>5, <3>2, <3>5
        <4>2. a.hi # IMax
          BY <2>1, <2>2, <4>1
        <4>. QED  BY <2>3, <3>1, <3>3, <4>1, <4>2
      <3>6. CASE hi # a.hi
        <4>1. hi = IMax /\ a.hi # IMax /\ lo # IMin
          BY <2>5, <3>2, <3>6
        <4>2. a.lo # IMin
          BY <2>1, <2>2, <4>1
        <4>. QED  BY <2>3, <3>1, <3>3, <4>1, <4>2
      <3>. QED  BY <3>4, <3>5, <3>6
    <2>. QED  BY <2>4, <2>5
  <1>. QED  BY <1>3, <1>4, <1>5, <1>6, <1>7

LEMMA RegWidenRank ==
    ASSUME NEW a \in RegType, NEW b \in RegType
    PROVE  /\ RegRank(a) \in 0 .. 5
           /\ RegRank(RegWiden(a, b)) <= RegRank(a)
           /\ RegWiden(a, b) # a => RegRank(RegWiden(a, b)) < RegRank(a)
  <1>1. RegRank(NotInit) = 0 /\ RegRank(XdpMdPtr) = 2
    BY RegKinds DEF RegRank, XdpMdPtr, NotInit
  <1>2. ASSUME NEW k \in Ranged, NEW r \in Ranges
        PROVE  RegRank([type |-> k, range |-> r]) = RangeRank(r) + (IF k = "Scalar" THEN 1 ELSE 2)
    BY RegKinds DEF RegRank, Ranged, NotInit
  <1>3. ASSUME NEW o PROVE RegRank(StackPtr(o)) = 2
    BY RegKinds DEF RegRank, StackPtr, NotInit
  <1>4. ASSUME NEW f
        PROVE  RegRank([type |-> "MapPtr", fd |-> f]) = 3 /\ RegRank(MaybeMapPtr(f)) = 2
    BY RegKinds DEF RegRank, MaybeMapPtr, NotInit
  <1>5. ASSUME NEW x \in RegType
        PROVE  /\ RegRank(x) \in 0 .. 5
               /\ x # NotInit => RegRank(x) > 0
               /\ x # NotInit /\ x.type # "Scalar" => RegRank(x) > 1
    <2>1. CASE x.type \in Ranged /\ x.range \in Ranges /\ x = [type |-> x.type, range |-> x.range]
      <3>1. RangeRank(x.range) \in 0 .. 3
        BY <2>1, RangeWidenRank
      <3>2. RegRank(x) = RangeRank(x.range) + (IF x.type = "Scalar" THEN 1 ELSE 2)
        BY <1>2, <2>1
      <3>. QED  BY <3>1, <3>2
    <2>2. CASE x = NotInit \/ x = XdpMdPtr
      BY <1>1, <2>2
    <2>3. CASE x.type = "StackPtr" /\ x = StackPtr(x.offset)
      <3>1. RegRank(x) = 2
        BY <1>3, <2>3
      <3>. QED  BY <3>1
    <2>4. CASE x.type \in {"MapPtr", "MaybeMapPtr"} /\ x = [type |-> x.type, fd |-> x.fd]
      <3>1. x = [type |-> "MapPtr", fd |-> x.fd] \/ x = MaybeMapPtr(x.fd)
        BY <2>4 DEF MaybeMapPtr
      <3>2. RegRank(x) \in {2, 3}
        BY <1>4, <3>1
      <3>. QED  BY <3>2
    <2>. QED  BY <2>1, <2>2, <2>3, <2>4, RegShape
  <1>6. RegRank(Scalar(Top)) = 1
    <2>1. RangeRank(Top) = 0 /\ Top \in Ranges /\ "Scalar" \in Ranged
      BY RangeKinds DEF RangeRank, Ranges, Ranged
    <2>. QED  BY <1>2, <2>1 DEF Scalar
  <1>7. CASE a.type \in Ranged /\ b.type = a.type
    <2>1. /\ a.range \in Ranges /\ b.range \in Ranges
          /\ a = [type |-> a.type, range |-> a.range]
      BY <1>7, RegShape, RegKinds DEF Ranged, StackPtr
    <2>2. PICK w \in Ranges : w = RangeWiden(a.range, b.range)
      BY <2>1, RangeWidenUpper
    <2>3. RegWiden(a, b) = [type |-> a.type, range |-> w]
      BY <1>7, <2>2 DEF RegWiden
    <2>4. /\ RangeRank(a.range) \in 0 .. 3 /\ RangeRank(w) \in 0 .. 3
          /\ RangeRank(w) <= RangeRank(a.range)
          /\ w # a.range => RangeRank(w) < RangeRank(a.range)
      BY <2>1, <2>2, RangeWidenRank
    <2>5. PICK d \in {1, 2} : /\ RegRank(a) = RangeRank(a.range) + d
                              /\ RegRank(RegWiden(a, b)) = RangeRank(w) + d
      BY <1>2, <1>7, <2>1, <2>3
    <2>6. RegWiden(a, b) # a => w # a.range
      BY <2>1, <2>3
    <2>. QED  BY <1>5, <2>4, <2>5, <2>6
  <1>8. CASE ~ (a.type \in Ranged /\ b.type = a.type)
    <2>1. RegWiden(a, b) = RegJoin(a, b)
      BY <1>8 DEF RegWiden
    <2>2. CASE RegJoin(a, b) = a
      BY <1>5, <2>1, <2>2
    <2>3. CASE RegJoin(a, b) = NotInit /\ a # NotInit
      BY <1>1, <1>5, <2>1, <2>3
    <2>4. CASE /\ {a.type, b.type} = {"MapPtr", "MaybeMapPtr"} /\ a.fd = b.fd
               /\ RegJoin(a, b) = MaybeMapPtr(a.fd)
      <3>1. a = [type |-> "MapPtr", fd |-> a.fd] \/ a = MaybeMapPtr(a.fd)
        BY <2>4, RegShape, RegKinds DEF MaybeMapPtr, Ranged, StackPtr
      <3>. QED  BY <1>4, <1>5, <2>1, <2>4, <3>1
    <2>5. CASE a # NotInit /\ a.type # "Scalar" /\ RegJoin(a, b) = Scalar(Top)
      BY <1>5, <1>6, <2>1, <2>5
    <2>6. CASE a.type = "Scalar" /\ RegJoin(a, b) = Scalar(Top) /\ a # Scalar(Top)
      <3>1. a.range \in Ranges /\ a = Scalar(a.range) /\ a.range # Top
        BY <2>6, RegShape, RegKinds DEF StackPtr, Scalar
      <3>2. RegRank(a) = RangeRank(a.range) + 1
        BY <1>2, <3>1 DEF Ranged, Scalar
      <3>3. RangeRank(a.range) \in 1 .. 3
        BY <3>1 DEF RangeRank
      <3>. QED  BY <1>5, <1>6, <2>1, <2>6, <3>2, <3>3
    <2>. QED  BY <1>8, <2>2, <2>3, <2>4, <2>5, <2>6, RegJoinCases
  <1>. QED  BY <1>5, <1>7, <1>8

\* VerifierState::widen_assign forces finite ascent, as the comment above the
\* worklist says: a widening that changes anything lowers a rank that no state
\* has more than five of for each register and one for each stack byte.  With
\* it the bound on the changes of a block holds of the verifier's own states.
THEOREM WideningUsesRank ==
    /\ StateHeight \in Nat
    /\ \A s \in AbsState : StateRank(s) \in 0 .. StateHeight
    /\ \A s, t \in AbsState :
          StateWiden(s, t) # s => StateRank(StateWiden(s, t)) < StateRank(s)
  <1> DEFINE Fives == [r \in Regs |-> 5]
             Ranks(s) == [r \in Regs |-> RegRank(s.regs[r])]
  <1>1. IsFiniteSet(Regs) /\ IsFiniteSet(StackByte) /\ Cardinality(StackByte) = StackBytes
        /\ StackBytes \in Nat
    BY AbsAssumption, FS_Interval DEF StackByte
  <1>2. ASSUME NEW s \in AbsState
        PROVE  /\ IsFiniteSet(s.init) /\ Cardinality(s.init) \in 0 .. StackBytes
               /\ \A r \in Regs : RegRank(s.regs[r]) \in 0 .. 5
    BY <1>1, StateShape, RegWidenRank, FS_Subset, FS_CardinalityType
  <1>3. ASSUME NEW s \in AbsState
        PROVE  /\ \A r \in Regs : Ranks(s)[r] \in Nat /\ Fives[r] \in Nat /\ Ranks(s)[r] <= Fives[r]
               /\ Weighs(Regs, Ranks(s)) /\ Weighs(Regs, Fives)
    BY <1>2 DEF Weighs
  <1>4. /\ StateHeight = SumFunctionOnSet(Fives, Regs) + StackBytes
        /\ \A s : StateRank(s) = SumFunctionOnSet(Ranks(s), Regs) + Cardinality(s.init)
    BY DEF StateHeight, StateRank
  <1>5. \A r \in Regs : Fives[r] \in Nat
    OBVIOUS
  <1>6. ASSUME NEW s \in AbsState, NEW t \in AbsState, StateWiden(s, t) # s
        PROVE  StateRank(StateWiden(s, t)) < StateRank(s)
    <2>1. PICK u \in AbsState : u = StateWiden(s, t)
      BY StateWidenUpper
    <2>2. /\ \A r \in Regs : u.regs[r] = RegWiden(s.regs[r], t.regs[r])
          /\ u.init = s.init \cap t.init
      BY <2>1 DEF StateWiden
    <2>3. ASSUME NEW r \in Regs
          PROVE  /\ Ranks(u)[r] <= Ranks(s)[r]
                 /\ u.regs[r] # s.regs[r] => Ranks(u)[r] < Ranks(s)[r]
      BY <2>2, StateShape, RegWidenRank
    <2>4. /\ Cardinality(u.init) <= Cardinality(s.init)
          /\ u.init # s.init => Cardinality(u.init) < Cardinality(s.init)
      <3>1. u.init \subseteq s.init /\ IsFiniteSet(s.init)
        BY <1>2, <2>2
      <3>2. Cardinality(u.init) <= Cardinality(s.init)
            /\ (Cardinality(u.init) = Cardinality(s.init) => u.init = s.init)
        BY <3>1, FS_Subset
      <3>3. Cardinality(u.init) \in Nat /\ Cardinality(s.init) \in Nat
        BY <1>2
      <3>. QED  BY <3>2, <3>3
    <2>5. (\E r \in Regs : u.regs[r] # s.regs[r]) \/ u.init # s.init
      BY <1>6, <2>1 DEF AbsState
    <2>6. PICK k \in Nat, l \in Nat, c \in Nat, d \in Nat :
             /\ k = SumFunctionOnSet(Ranks(u), Regs) /\ l = SumFunctionOnSet(Ranks(s), Regs)
             /\ c = Cardinality(u.init) /\ d = Cardinality(s.init)
      <3> HIDE DEF Ranks
      <3>. QED  BY <1>1, <1>2, <1>3, FunctionSumTyped
    <2>7. k <= l /\ \A r \in Regs : \A n \in Nat : Ranks(u)[r] + n <= Ranks(s)[r] => k + n <= l
      <3> HIDE DEF Ranks
      <3>. QED  BY <1>1, <1>3, <2>3, <2>6, FunctionSumBelow
    <2>8. k + c < l + d
      <3>1. CASE u.init # s.init
        BY <2>4, <2>6, <2>7, <3>1
      <3>2. CASE \E r \in Regs : u.regs[r] # s.regs[r]
        <4>1. PICK r \in Regs : Ranks(u)[r] < Ranks(s)[r]
          BY <2>3, <3>2
        <4>2. Ranks(u)[r] + 1 <= Ranks(s)[r]
          <5> HIDE DEF Ranks
          <5>. QED  BY <1>3, <4>1
        <4>3. k + 1 <= l
          <5> HIDE DEF Ranks
          <5>. QED  BY <2>7, <4>2
        <4>. QED  BY <2>4, <2>6, <4>3
      <3>. QED  BY <2>5, <3>1, <3>2
    <2> HIDE DEF Ranks
    <2>. QED  BY <1>4, <2>1, <2>6, <2>8
  <1> HIDE DEF Fives, Ranks
  <1>7. PICK h \in Nat : h = SumFunctionOnSet(Fives, Regs)
    BY <1>1, <1>5, FunctionSumTyped
  <1>8. ASSUME NEW s \in AbsState PROVE StateRank(s) \in 0 .. StateHeight
    <2>1. PICK k \in Nat, c \in 0 .. StackBytes :
             k = SumFunctionOnSet(Ranks(s), Regs) /\ c = Cardinality(s.init)
      BY <1>1, <1>2, <1>3, FunctionSumTyped
    <2>2. k <= h
      BY <1>1, <1>3, <1>7, <2>1, FunctionSumBelow
    <2>. QED  BY <1>1, <1>4, <1>7, <2>1, <2>2
  <1>. QED  BY <1>1, <1>4, <1>6, <1>7, <1>8

-----------------------------------------------------------------------------
(***************************************************************************)
(* One register in both worlds: the operators of Scalars, and the          *)
(* invariant that the range contains the word.                             *)
(***************************************************************************)

LEMMA IntervalBounds ==
    ASSUME NEW r \in Ranges, NEW v
    PROVE  /\ IsInterval(r) => /\ r \in Intervals /\ r # Bottom /\ r # Top
                               /\ r.lo \in Word /\ r.hi \in Word
                               /\ Contains(r, v) <=> r.lo <= v /\ v <= r.hi
           /\ ~ IsInterval(r) /\ Contains(r, v) => r = Top
  BY RangeCases, KindsDiffer DEF Intervals, IsInterval, Top, Bottom, Contains

LEMMA IntervalInRanges ==
    ASSUME NEW lo \in Word, NEW hi \in Word
    PROVE  Interval(lo, hi) \in Ranges /\ IsInterval(Interval(lo, hi))
  BY DEF Interval, Ranges, Intervals, IsInterval

LEMMA WordsAreIntegers ==
    /\ \A v \in Word : v \in Int /\ IMin <= v /\ v <= IMax
    /\ \A v \in Int : IMin <= v /\ v <= IMax => v \in Word
    /\ IMax \in Nat \ {0} /\ IMin \in Int
  BY WordPowers DEF Word, IMin

\* Range::trunc32, on ranges that do not span more than one lower half.
LEMMA TruncSound ==
    ASSUME NEW r \in Ranges, NEW v \in Word, Contains(r, v), Narrow(r)
    PROVE  Contains(Trunc32(r), Low32(v))
  <1>1. CASE ~ IsInterval(r)
    BY <1>1, IntervalBounds, KindsDiffer DEF Trunc32
  <1>2. CASE IsInterval(r)
    <2>1. PICK lo \in Int, hi \in Int, m \in Nat \ {0} :
             /\ lo = r.lo /\ hi = r.hi /\ lo <= v /\ v <= hi /\ m = UMax32 + 1 /\ hi - lo < m
      BY <1>2, IntervalBounds, WordsAreIntegers, WordPowers DEF Narrow
    <2>2. PICK p \in Int, l \in 0 .. (m - 1) : l = lo % m /\ lo = m * p + l
      BY Remainders
    <2>3. PICK q \in Int, h \in 0 .. (m - 1) : h = hi % m /\ hi = m * q + h
      BY Remainders
    <2>4. Trunc32(r) = IF l <= h THEN Interval(l, h) ELSE Top
      BY <1>2, <2>1, <2>2, <2>3 DEF Trunc32, Low32
    <2>5. CASE l <= h
      <3>1. ~ (q - p >= 1)
        <4>1. q - p >= 1 => m * (q - p) >= m
          OBVIOUS
        <4>2. m * (q - p) = m * q - m * p
          OBVIOUS
        <4>. QED  BY <2>1, <2>2, <2>3, <2>5, <4>1, <4>2
      <3>2. ~ (q - p <= -1)
        <4>1. q - p <= -1 => m * (q - p) <= -m
          OBVIOUS
        <4>2. m * (q - p) = m * q - m * p
          OBVIOUS
        <4>3. v \in Int
          BY WordsAreIntegers
        <4>. QED  BY <2>1, <2>2, <2>3, <2>5, <4>1, <4>2, <4>3
      <3>3. p = q
        BY <3>1, <3>2
      <3>4. PICK c \in Int : c = p * m /\ c = m * p
        OBVIOUS
      <3>5. PICK w \in Int : w = v - c
        BY WordsAreIntegers
      <3>6. w \in 0 .. (m - 1) /\ v = c + w /\ l <= w /\ w <= h
        <4>1. lo = c + l /\ hi = c + h
          BY <2>2, <2>3, <3>3, <3>4
        <4>2. v \in Int /\ lo <= v /\ v <= hi
          BY <2>1, WordsAreIntegers
        <4>. QED  BY <3>5, <4>1, <4>2
      <3>7. v = p * m + w
        BY <3>4, <3>6
      <3>8. v % m = w
        BY <3>6, <3>7, RemainderIs
      <3>. QED  BY <2>1, <2>4, <2>5, <3>6, <3>8, IntervalContains DEF Low32
    <2>6. CASE ~ (l <= h)
      BY <2>4, <2>6, KindsDiffer
    <2>. QED  BY <2>5, <2>6
  <1>. QED  BY <1>1, <1>2

LEMMA TruncTyped ==
    ASSUME NEW r \in Ranges
    PROVE  Trunc32(r) \in Ranges
  <1>1. CASE IsInterval(r)
    <2>1. r.lo \in Word /\ r.hi \in Word
      BY <1>1, IntervalBounds
    <2>2. Low32(r.lo) \in Word /\ Low32(r.hi) \in Word
      BY <2>1, LowHalf, WordPowers DEF Word, IMin
    <2>. QED  BY <1>1, <2>2, IntervalInRanges DEF Trunc32, Ranges
  <1>2. CASE ~ IsInterval(r)
    BY <1>2 DEF Trunc32
  <1>. QED  BY <1>1, <1>2

LEMMA OnIntervalsIs ==
    ASSUME NEW a \in Ranges, NEW b \in Ranges, NEW x, NEW y, Contains(a, x), Contains(b, y), NEW result
    PROVE  /\ OnIntervals(a, b, result) = IF IsInterval(a) /\ IsInterval(b) THEN result ELSE Top
           /\ RangeUntracked(a, b) = Top
  <1>1. a # Bottom /\ b # Bottom
    BY KindsDiffer
  <1>2. (a # Top <=> IsInterval(a)) /\ (b # Top <=> IsInterval(b))
    BY IntervalBounds, RangeKinds
  <1>. QED  BY <1>1, <1>2 DEF OnIntervals, RangeUntracked

LEMMA RangeAddTyped ==
    ASSUME NEW a \in Ranges, NEW b \in Ranges
    PROVE  RangeAdd(a, b) \in Ranges
  <1>1. CASE Bottom \in {a, b} \/ Top \in {a, b}
    BY <1>1 DEF RangeAdd, Ranges
  <1>2. CASE ~(Bottom \in {a, b} \/ Top \in {a, b})
    <2>1. PICK al \in Int, ah \in Int, bl \in Int, bh \in Int :
             al = a.lo /\ ah = a.hi /\ bl = b.lo /\ bh = b.hi
      BY <1>2, WordsAreIntegers DEF Ranges, Intervals
    <2>2. RangeAdd(a, b) = IF Fits(al + bl) /\ Fits(ah + bh) THEN Interval(al + bl, ah + bh) ELSE Top
      BY <1>2, <2>1 DEF RangeAdd
    <2>3. Fits(al + bl) /\ Fits(ah + bh) => al + bl \in Word /\ ah + bh \in Word
      BY WordsAreIntegers DEF Fits
    <2>. QED  BY <2>2, <2>3, IntervalInRanges DEF Ranges
  <1>. QED  BY <1>1, <1>2

LEMMA RangeSubTyped ==
    ASSUME NEW a \in Ranges, NEW b \in Ranges
    PROVE  RangeSub(a, b) \in Ranges
  <1>1. CASE Bottom \in {a, b} \/ Top \in {a, b}
    BY <1>1 DEF RangeSub, Ranges
  <1>2. CASE ~(Bottom \in {a, b} \/ Top \in {a, b})
    <2>1. PICK al \in Int, ah \in Int, bl \in Int, bh \in Int :
             al = a.lo /\ ah = a.hi /\ bl = b.lo /\ bh = b.hi
      BY <1>2, WordsAreIntegers DEF Ranges, Intervals
    <2>2. RangeSub(a, b) = IF Fits(al - bh) /\ Fits(ah - bl) THEN Interval(al - bh, ah - bl) ELSE Top
      BY <1>2, <2>1 DEF RangeSub
    <2>3. Fits(al - bh) /\ Fits(ah - bl) => al - bh \in Word /\ ah - bl \in Word
      BY WordsAreIntegers DEF Fits
    <2>. QED  BY <2>2, <2>3, IntervalInRanges DEF Ranges
  <1>. QED  BY <1>1, <1>2

\* The abstract operators return ranges.
LEMMA ResultTyped ==
    ASSUME NEW a \in Ranges, NEW b \in Ranges, NEW op \in AluNames
    PROVE  RangeResult(op, a, b) \in Ranges
  <1>1. Bottom \in Ranges /\ Top \in Ranges
    BY DEF Ranges
  <1>2. /\ Bottom \notin {a, b} /\ Top \notin {a, b} =>
              a.lo \in Word /\ a.hi \in Word /\ b.lo \in Word /\ b.hi \in Word
    BY IntervalBounds DEF Ranges, Intervals
  <1>3. \A o \in {"And", "Or", "Lsh"} : OnBounds(o, a, b) \in Ranges
    <2> SUFFICES ASSUME NEW o \in {"And", "Or", "Lsh"}, Bottom \notin {a, b}, Top \notin {a, b}
                 PROVE  Ordered(AluApply(o, a.lo, b.lo, 64), AluApply(o, a.hi, b.hi, 64)) \in Ranges
      BY <1>1 DEF OnBounds, OnIntervals
    <2>1. o \in AluNames \ EndOps
      BY DEF AluNames, EndOps
    <2>2. AluApply(o, a.lo, b.lo, 64) \in Word /\ AluApply(o, a.hi, b.hi, 64) \in Word
      BY <1>2, <2>1, AluClosed
    <2>. QED  BY <1>1, <2>2, IntervalInRanges DEF Ordered
  <1>4. RangeShr(a, b) \in Ranges
    <2> SUFFICES ASSUME Bottom \notin {a, b}, Top \notin {a, b}
                 PROVE  Interval(AluApply("Rsh", a.lo, b.lo, 64), AluApply("Rsh", a.hi, b.lo, 64)) \in Ranges
      BY <1>1 DEF RangeShr, OnIntervals
    <2>1. "Rsh" \in AluNames \ EndOps
      BY DEF AluNames, EndOps
    <2>2. AluApply("Rsh", a.lo, b.lo, 64) \in Word /\ AluApply("Rsh", a.hi, b.lo, 64) \in Word
      BY <1>2, <2>1, AluClosed
    <2>. QED  BY <2>2, IntervalInRanges
  <1>5. RangeShl(a, b) \in Ranges
    BY <1>1, <1>3 DEF RangeShl, OnIntervals
  <1>6. RangeUntracked(a, b) \in Ranges
    BY <1>1 DEF RangeUntracked
  <1>. QED  BY <1>1, <1>3, <1>4, <1>5, <1>6, RangeAddTyped
            DEF RangeResult, RangeAnd, RangeOr, AluNames, EndOps

LEMMA AluTyped ==
    ASSUME NEW a \in Ranges, NEW b \in Ranges, NEW op \in AluNames, NEW width
    PROVE  RangeAlu(op, a, b, width) \in Ranges
  BY ResultTyped, TruncTyped DEF RangeAlu

\* A left shift that is tracked loses no bit of any word in the range.
LEMMA LshGrows ==
    ASSUME NEW a \in Ranges, NEW b \in Ranges, NEW x \in Word, NEW y \in Word,
           IsInterval(a), IsInterval(b), Contains(a, x), Contains(b, y),
           a.lo >= 0, b.lo >= 0, b.hi < WordBits, PreciseOp("Lsh", a, b)
    PROVE  /\ x \in 0 .. IMax /\ y \in 0 .. (WordBits - 1) /\ y <= b.hi
           /\ x * 2 ^ y <= IMax
           /\ AluApply("Lsh", a.lo, b.lo, 64) <= x * 2 ^ y
           /\ x * 2 ^ y <= AluApply("Lsh", a.hi, b.hi, 64)
  <1>1. PICK al \in Nat, ah \in Nat, bl \in Nat, bh \in Nat :
           /\ al = a.lo /\ ah = a.hi /\ bl = b.lo /\ bh = b.hi
           /\ al <= x /\ x <= ah /\ bl <= y /\ y <= bh
           /\ ah <= IMax
    BY IntervalBounds, WordsAreIntegers
  <1>2. /\ x \in Nat /\ y \in Nat /\ x \in 0 .. IMax /\ al \in 0 .. IMax /\ ah \in 0 .. IMax
        /\ bl \in 0 .. (WordBits - 1) /\ y \in 0 .. (WordBits - 1) /\ bh \in 0 .. (WordBits - 1)
        /\ bl \in 0 .. y /\ y \in 0 .. bh
        /\ bl \in 0 .. WordBits /\ y \in 0 .. WordBits /\ bh \in 0 .. WordBits
    BY <1>1, WordsAreIntegers, Widths
  <1>3. PICK dl \in Nat \ {0}, dy \in Nat \ {0}, dh \in Nat \ {0} :
           dl = 2 ^ bl /\ dy = 2 ^ y /\ dh = 2 ^ bh /\ dl <= dy /\ dy <= dh
    <2>1. 2 ^ bl \in Nat \ {0} /\ 2 ^ y \in Nat \ {0} /\ 2 ^ bh \in Nat \ {0}
      BY <1>2, PowersAreNumbers
    <2>2. 2 ^ bl <= 2 ^ y /\ 2 ^ y <= 2 ^ bh
      BY <1>2, PowersGrow
    <2>. QED  BY <2>1, <2>2
  <1>4. ah <= IMax \div dh
    BY <1>1, <1>3 DEF PreciseOp
  <1>5. ah * dh <= IMax /\ ah * dh \in Nat
    <2>1. IMax \in Int
      BY WordsAreIntegers
    <2>2. PICK q \in Int, r \in 0 .. (dh - 1) : q = IMax \div dh /\ r = IMax % dh
      <3>1. IMax \div dh \in Int /\ IMax % dh \in 0 .. (dh - 1)
        BY <2>1, Remainders
      <3>. QED  BY <3>1
    <2>3. IMax = dh * q + r
      BY <2>1, <2>2, Remainders
    <2>4. ah <= q
      BY <1>4, <2>2
    <2>5. ah * dh <= q * dh /\ q * dh = dh * q /\ ah * dh \in Nat
      <3>1. q \in Nat
        BY <2>4
      <3>. QED  BY <2>4, <3>1, ProductsGrow
    <2>. QED  BY <2>1, <2>3, <2>5
  <1>6. /\ al * dl \in Nat /\ al * dl <= x * dy
        /\ x * dy \in Nat /\ x * dy <= ah * dh
    BY <1>1, <1>2, <1>3, ProductsGrow
  <1>7. al * dl <= IMax /\ x * dy <= IMax
    BY <1>5, <1>6, WordsAreIntegers
  <1>8. AluApply("Lsh", al, bl, 64) = al * dl /\ AluApply("Lsh", ah, bh, 64) = ah * dh
    BY <1>2, <1>3, <1>5, <1>7, LshResult
  <1>. QED  BY <1>1, <1>2, <1>3, <1>6, <1>7, <1>8

\* A right shift keeps the order of words of one sign.
LEMMA RshGrows ==
    ASSUME NEW x \in Word, NEW z \in Word, NEW y \in 0 .. (WordBits - 1), x <= z,
           x >= 0 \/ z < 0
    PROVE  AluApply("Rsh", x, y, 64) <= AluApply("Rsh", z, y, 64)
  <1>1. AluApply("Rsh", x, y, 64) = (IF y = 0 THEN x ELSE Unsigned(x) \div 2 ^ y)
        /\ AluApply("Rsh", z, y, 64) = (IF y = 0 THEN z ELSE Unsigned(z) \div 2 ^ y)
    BY RshResult
  <1>2. PICK d \in Nat \ {0} : d = 2 ^ y
    <2>1. y \in 0 .. WordBits
      BY Widths
    <2>. QED  BY <2>1, PowersAreNumbers
  <1>3. PICK u \in Int, w \in Int : u = Unsigned(x) /\ w = Unsigned(z) /\ u <= w
    BY WordsAreIntegers DEF Unsigned
  <1>4. u \div d <= w \div d
    BY <1>3, QuotientsGrow
  <1>. QED  BY <1>1, <1>2, <1>3, <1>4

LEMMA ExactWord ==
    ASSUME NEW r \in Ranges, NEW v \in Word, Contains(r, v), IsExact(r)
    PROVE  r.lo = v /\ r.hi = v
  <1>1. IsInterval(r) /\ r.lo = r.hi
    BY DEF IsExact
  <1>2. r.lo \in Int /\ v \in Int /\ r.lo <= v /\ v <= r.hi
    BY <1>1, IntervalBounds, WordsAreIntegers
  <1>. QED  BY <1>1, <1>2

\* The 64-bit result is in the range of the result.
LEMMA ResultSound ==
    ASSUME NEW a \in Ranges, NEW b \in Ranges, NEW x \in Word, NEW y \in Word,
           Contains(a, x), Contains(b, y), NEW op \in AluNames, PreciseOp(op, a, b)
    PROVE  Contains(RangeResult(op, a, b), AluApply(op, x, y, 64))
  <1>1. \A v : Contains(Top, v)
    BY KindsDiffer
  <1>2. \A r : OnIntervals(a, b, r) = IF IsInterval(a) /\ IsInterval(b) THEN r ELSE Top
    BY OnIntervalsIs
  <1>3. CASE op \in {"Sub", "Mul", "Div", "Mod", "Neg"} \cup EndOps
    BY <1>1, <1>3 DEF RangeResult, EndOps
  <1>4. CASE op \in {"Xor", "Arsh"}
    <2>1. RangeResult(op, a, b) = RangeUntracked(a, b)
      BY <1>4 DEF RangeResult, EndOps
    <2>. QED  BY <1>1, <2>1, OnIntervalsIs
  <1>5. CASE op = "Mov"
    BY <1>5, MovResult DEF RangeResult, EndOps
  <1>6. CASE op = "Add"
    <2>1. RangeResult(op, a, b) = RangeAdd(a, b)
      BY <1>6 DEF RangeResult, EndOps
    <2>. QED  BY <1>6, <2>1, AddResult, ArithmeticSound
  <1>7. CASE op \in {"And", "Or"}
    <2>1. RangeResult(op, a, b) = OnBounds(op, a, b)
      BY <1>7 DEF RangeResult, RangeAnd, RangeOr, EndOps
    <2>2. CASE IsInterval(a) /\ IsInterval(b)
      <3>1. a.lo = a.hi /\ b.lo = b.hi
        BY <1>7, <2>2 DEF PreciseOp, IsExact
      <3>2. a.lo = x /\ b.lo = y
        BY <2>2, <3>1, IntervalBounds, WordsAreIntegers
      <3>3. PICK v \in Word : v = AluApply(op, x, y, 64)
        <4>1. op \in AluNames \ EndOps
          BY <1>7 DEF EndOps
        <4>. QED  BY <4>1, AluClosed
      <3>4. OnBounds(op, a, b) = Ordered(v, v)
        BY <1>2, <2>2, <3>1, <3>2, <3>3 DEF OnBounds
      <3>5. Ordered(v, v) = Interval(v, v) /\ v <= v
        BY WordsAreIntegers DEF Ordered
      <3>. QED  BY <2>1, <3>3, <3>4, <3>5, IntervalContains
    <2>3. CASE ~(IsInterval(a) /\ IsInterval(b))
      BY <1>1, <1>2, <2>1, <2>3 DEF OnBounds
    <2>. QED  BY <2>2, <2>3
  <1>8. CASE op = "Lsh"
    <2>1. RangeResult(op, a, b) = RangeShl(a, b)
      BY <1>8 DEF RangeResult, EndOps
    <2>2. CASE /\ IsInterval(a) /\ IsInterval(b)
               /\ a.lo >= 0 /\ a.hi >= 0 /\ b.lo >= 0 /\ b.hi < WordBits
      <3>1. PICK l, h : l = AluApply("Lsh", a.lo, b.lo, 64) /\ h = AluApply("Lsh", a.hi, b.hi, 64)
        OBVIOUS
      <3>2. RangeResult(op, a, b) = Ordered(l, h)
        BY <1>2, <2>1, <2>2, <3>1 DEF RangeShl, OnBounds
      <3>3. /\ x \in 0 .. IMax /\ y \in 0 .. (WordBits - 1)
            /\ x * 2 ^ y <= IMax /\ l <= x * 2 ^ y /\ x * 2 ^ y <= h
        BY <1>8, <2>2, <3>1, LshGrows
      <3>4. AluApply(op, x, y, 64) = x * 2 ^ y
        BY <1>8, <3>3, LshResult
      <3>. QED  BY <1>1, <3>2, <3>3, <3>4, IntervalContains DEF Ordered
    <2>3. CASE ~ /\ IsInterval(a) /\ IsInterval(b)
                 /\ a.lo >= 0 /\ a.hi >= 0 /\ b.lo >= 0 /\ b.hi < WordBits
      BY <1>1, <1>2, <2>1, <2>3 DEF RangeShl
    <2>. QED  BY <2>2, <2>3
  <1>9. CASE op = "Rsh"
    <2>1. RangeResult(op, a, b) = RangeShr(a, b)
      BY <1>9 DEF RangeResult, EndOps
    <2>2. CASE /\ IsInterval(a) /\ IsInterval(b)
               /\ IsExact(b) /\ 0 <= b.lo /\ b.lo < WordBits
      <3>0. b.lo = y
        BY <2>2, ExactWord
      <3>1. b.lo = y /\ y \in 0 .. (WordBits - 1)
        BY <2>2, <3>0, WordsAreIntegers, Widths
      <3>2. RangeResult(op, a, b)
               = Interval(AluApply("Rsh", a.lo, y, 64), AluApply("Rsh", a.hi, y, 64))
        BY <1>2, <2>1, <2>2, <3>1 DEF RangeShr
      <3>3. /\ a.lo \in Word /\ a.hi \in Word /\ a.lo <= x /\ x <= a.hi
            /\ a.lo >= 0 \/ a.hi < 0
        BY <1>9, <2>2, IntervalBounds DEF PreciseOp, SameSign
      <3>4. (a.lo >= 0 \/ x < 0) /\ (x >= 0 \/ a.hi < 0)
        BY <3>3, WordsAreIntegers
      <3>5. /\ AluApply("Rsh", a.lo, y, 64) <= AluApply("Rsh", x, y, 64)
            /\ AluApply("Rsh", x, y, 64) <= AluApply("Rsh", a.hi, y, 64)
        BY <3>1, <3>3, <3>4, RshGrows
      <3>. QED  BY <1>9, <3>2, <3>5, IntervalContains
    <2>3. CASE ~ /\ IsInterval(a) /\ IsInterval(b)
                 /\ IsExact(b) /\ 0 <= b.lo /\ b.lo < WordBits
      BY <1>1, <1>2, <2>1, <2>3 DEF RangeShr
    <2>. QED  BY <2>2, <2>3
  <1>. QED  BY <1>3, <1>4, <1>5, <1>6, <1>7, <1>8, <1>9 DEF AluNames, EndOps

\* Where the result is tracked, the 32-bit result is the lower half of the
\* 64-bit one.
LEMMA HalfResult ==
    ASSUME NEW a \in Ranges, NEW b \in Ranges, NEW x \in Word, NEW y \in Word,
           Contains(a, x), Contains(b, y), NEW op \in AluNames, PreciseAlu(op, a, b, 32),
           IsInterval(RangeResult(op, a, b))
    PROVE  AluApply(op, x, y, 32) = Low32(AluApply(op, x, y, 64))
  <1>0. ~ IsInterval(Top)
    BY RangeKinds
  <1>1. \A r : OnIntervals(a, b, r) = IF IsInterval(a) /\ IsInterval(b) THEN r ELSE Top
    BY OnIntervalsIs
  <1>2. op \notin {"Sub", "Mul", "Div", "Mod", "Neg"} \cup EndOps
    BY <1>0 DEF RangeResult, EndOps
  <1>3. op \notin {"Xor", "Arsh"}
    <2>1. op \in {"Xor", "Arsh"} => RangeResult(op, a, b) = RangeUntracked(a, b)
      BY DEF RangeResult, EndOps
    <2>. QED  BY <1>0, <2>1, OnIntervalsIs
  <1>4. CASE op = "Mov"
    BY <1>4, MovResult
  <1>5. CASE op = "Add"
    BY <1>5, AddResult
  <1>6. CASE op \in {"And", "Or"}
    BY <1>6, BitwiseResult
  <1>7. CASE op = "Lsh"
    <2>1. RangeResult(op, a, b) = RangeShl(a, b)
      BY <1>7 DEF RangeResult, EndOps
    <2>2. /\ IsInterval(a) /\ IsInterval(b)
          /\ a.lo >= 0 /\ a.hi >= 0 /\ b.lo >= 0 /\ b.hi < WordBits
      BY <1>0, <1>1, <2>1 DEF RangeShl
    <2>3. PreciseOp("Lsh", a, b) /\ b.hi < HalfBits
      BY <1>7, <2>2 DEF PreciseAlu
    <2>4. x \in 0 .. IMax /\ y \in 0 .. (WordBits - 1) /\ y <= b.hi /\ x * 2 ^ y <= IMax
      BY <2>2, <2>3, LshGrows
    <2>5. y < HalfBits
      <3>1. b.hi \in Int /\ y \in Int
        BY <2>2, IntervalBounds, WordsAreIntegers
      <3>. QED  BY <2>3, <2>4, <3>1, Widths
    <2>. QED  BY <1>7, <2>4, <2>5, LshResult
  <1>8. CASE op = "Rsh"
    <2>1. RangeResult(op, a, b) = RangeShr(a, b)
      BY <1>8 DEF RangeResult, EndOps
    <2>2. /\ IsInterval(a) /\ IsInterval(b)
          /\ IsExact(b) /\ 0 <= b.lo /\ b.lo < WordBits
      BY <1>0, <1>1, <2>1 DEF RangeShr
    <2>0. b.lo = y /\ b.hi = y
      BY <2>2, ExactWord
    <2>3. b.lo = y /\ b.hi = y /\ y \in 0 .. (WordBits - 1)
      BY <2>0, <2>2, WordsAreIntegers, Widths
    <2>4. a.lo >= 0 /\ a.hi <= UMax32 /\ y < HalfBits
      BY <1>8, <2>2, <2>3 DEF PreciseAlu, FitsHalf
    <2>5. x \in 0 .. UMax32
      BY <2>2, <2>4, IntervalBounds, WordsAreIntegers, WordPowers
    <2>6. PICK d \in Nat \ {0} : d = 2 ^ y
      <3>1. y \in 0 .. WordBits
        BY <2>3, Widths
      <3>. QED  BY <3>1, PowersAreNumbers
    <2>7. PICK q \in 0 .. UMax32 : q = x \div d
      <3>1. x \in Nat /\ x <= UMax32 /\ UMax32 \in Nat
        BY <2>5, WordPowers
      <3>2. x \div d \in 0 .. x
        BY <3>1, Quotients
      <3>. QED  BY <3>1, <3>2
    <2>8. AluApply("Rsh", x, y, 64) = q /\ AluApply("Rsh", x, y, 32) = q
      BY <2>3, <2>4, <2>5, <2>6, <2>7, RshResult
    <2>9. q \in Word
      BY WordPowers DEF Word, IMin
    <2>10. Low32(q) = q
      BY <2>9, LowHalf
    <2>. QED  BY <1>8, <2>8, <2>10
  <1>. QED  BY <1>2, <1>3, <1>4, <1>5, <1>6, <1>7, <1>8 DEF AluNames, EndOps

\* alu_transfer on scalars: what AluOp::apply computes is in the new range,
\* for every instruction that the verifier tracks right.
THEOREM AluSound ==
    ASSUME NEW a \in Ranges, NEW b \in Ranges, NEW x \in Word, NEW y \in Word,
           Contains(a, x), Contains(b, y), NEW op \in AluNames, NEW width \in {32, 64},
           op \in EndOps => y \in EndWidths, PreciseAlu(op, a, b, width)
    PROVE  Contains(RangeAlu(op, a, b, width), AluApply(op, x, y, width))
  <1>1. PICK r \in Ranges : r = RangeResult(op, a, b)
    BY ResultTyped
  <1>2. PICK v \in Word : v = AluApply(op, x, y, 64) /\ Contains(r, v)
    <2>1. PreciseOp(op, a, b)
      BY DEF PreciseAlu
    <2>2. AluApply(op, x, y, 64) \in Word
      BY AluClosed
    <2>. QED  BY <1>1, <2>1, <2>2, ResultSound
  <1>3. CASE width = 64
    BY <1>1, <1>2, <1>3 DEF RangeAlu
  <1>4. CASE width = 32
    <2>1. RangeAlu(op, a, b, width) = Trunc32(r) /\ Narrow(r) /\ PreciseAlu(op, a, b, 32)
      BY <1>1, <1>4 DEF RangeAlu, PreciseAlu
    <2>2. CASE IsInterval(r)
      <3>1. AluApply(op, x, y, 32) = Low32(v)
        BY <1>1, <1>2, <2>1, <2>2, HalfResult
      <3>. QED  BY <1>2, <1>4, <2>1, <3>1, TruncSound
    <2>3. CASE ~ IsInterval(r)
      <3>1. r = Top
        BY <1>2, <2>3, IntervalBounds
      <3>. QED  BY <2>1, <2>3, <3>1, KindsDiffer DEF Trunc32
    <2>. QED  BY <2>2, <2>3
  <1>. QED  BY <1>3, <1>4

\* Narrowing returns a range.
LEMMA MeetTyped ==
    ASSUME NEW r \in Ranges, NEW lo \in Word, NEW hi \in Word
    PROVE  RangeMeet(r, Interval(lo, hi)) \in Ranges
  <1>1. Interval(lo, hi) \in Ranges /\ Interval(lo, hi).lo = lo /\ Interval(lo, hi).hi = hi
    BY IntervalInRanges DEF Interval
  <1>2. CASE IsInterval(r)
    <2>1. r.lo \in Word /\ r.hi \in Word
      BY <1>2, IntervalBounds
    <2>2. Greater(r.lo, lo) \in Word /\ Lesser(r.hi, hi) \in Word
      BY <2>1 DEF Greater, Lesser
    <2>. QED  BY <1>1, <2>2, IntervalInRanges DEF RangeMeet, Ranges
  <1>3. CASE ~ IsInterval(r)
    <2>1. r \in {Bottom, Top}
      BY <1>3, RangeShape
    <2>. QED  BY <1>1, <2>1 DEF RangeMeet, Ranges
  <1>. QED  BY <1>2, <1>3

LEMMA RefineTyped ==
    ASSUME NEW r \in Ranges, NEW op \in JumpNames, NEW k \in Word, NEW branch
    PROVE  Refine(r, op, k, branch) \in Ranges
  <1>1. IMin \in Word /\ IMax \in Word /\ SatDec(k) \in Word /\ SatInc(k) \in Word
    BY WordsAreIntegers DEF SatDec, SatInc
  <1>2. PICK c : c = Canonical(op, branch)
    OBVIOUS
  <1>3. Refine(r, op, k, branch) =
          CASE c.op = "Eq" /\ c.taken                -> RangeMeet(r, Interval(k, k))
            [] c.op \in {"Lt", "Slt"} /\ c.taken     -> RangeMeet(r, Interval(IMin, SatDec(k)))
            [] c.op \in {"Lt", "Slt"} /\ ~c.taken    -> RangeMeet(r, Interval(k, IMax))
            [] c.op \in {"Le", "Sle"} /\ c.taken     -> RangeMeet(r, Interval(IMin, k))
            [] c.op \in {"Le", "Sle"} /\ ~c.taken    -> RangeMeet(r, Interval(SatInc(k), IMax))
            [] OTHER                                 -> r
    BY <1>2 DEF Refine, Exact
  <1>. QED  BY <1>1, <1>3, MeetTyped

\* Comparing the halves of words that fit in them is comparing the words.
LEMMA JumpAgrees ==
    ASSUME NEW r \in Ranges, NEW op \in Comparisons, NEW k \in Word, NEW v \in Word,
           NEW width \in {32, 64}, Contains(r, v), PreciseJump(op, r, k, width)
    PROVE  /\ JumpTakenW(op, v, k, width) = JumpTaken(op, v, k)
           /\ JumpTaken(op, v, k) \in BOOLEAN
           /\ op \in UnsignedOps => v >= 0 /\ k >= 0
  <1>1. op # "Set" /\ op \notin NeverTaken
    BY DEF Comparisons, UnsignedOps, NeverTaken
  <1>2. PICK w : w = IF width = 64 THEN WordBits ELSE HalfBits
    OBVIOUS
  <1>3. PICK l, m : l = Unsigned(v) % 2 ^ w /\ m = Unsigned(k) % 2 ^ w
    OBVIOUS
  <1>4. JumpTakenW(op, v, k, width) =
           IF op \in UnsignedOps THEN JumpTaken(op, l, m)
           ELSE JumpTaken(op, Signed(l, w), Signed(m, w))
    BY <1>1, <1>2, <1>3 DEF JumpTakenW, Comparisons, UnsignedOps
  <1>5. /\ Unsigned(v) \in Nat /\ Unsigned(k) \in Nat
        /\ Unsigned(Unsigned(v)) = Unsigned(v) /\ Unsigned(Unsigned(k)) = Unsigned(k)
    <2>1. Unsigned(v) \in Nat /\ Unsigned(k) \in Nat
      BY UnsignedOfWord, WordPowers
    <2>2. \A n \in Nat : Unsigned(n) = n
      BY DEF Unsigned
    <2>. QED  BY <2>1, <2>2
  <1>6. ASSUME width = 64 PROVE JumpTakenW(op, v, k, width) = JumpTaken(op, v, k)
    <2>1. l = Unsigned(v) /\ m = Unsigned(k) /\ Signed(l, w) = v /\ Signed(m, w) = k
      BY <1>2, <1>3, <1>6, UnsignedOfWord
    <2>2. CASE op \in UnsignedOps
      <3>1. JumpTaken(op, Unsigned(v), Unsigned(k)) = JumpTaken(op, v, k)
        BY <1>5, <2>2 DEF JumpTaken, UnsignedOps
      <3>. QED  BY <1>4, <2>1, <2>2, <3>1
    <2>3. CASE op \notin UnsignedOps
      BY <1>4, <2>1, <2>3
    <2>. QED  BY <2>2, <2>3
  <1>7. ASSUME width = 32 PROVE JumpTakenW(op, v, k, width) = JumpTaken(op, v, k)
    <2>1. IsInterval(r) /\ r.lo >= 0 /\ {k, r.hi} \subseteq 0 .. (UMax32 \div 2)
      BY <1>1, <1>7 DEF PreciseJump, NonNegative
    <2>2. PICK h \in Nat \ {0} : h = 2 ^ (HalfBits - 1) /\ 2 ^ HalfBits = 2 * h /\ UMax32 = 2 * h - 1
      <3>1. HalfBits - 1 \in 0 .. WordBits /\ HalfBits - 1 \in 0 .. (WordBits - 1) /\ HalfBits - 1 + 1 = HalfBits
        BY Widths
      <3>2. 2 ^ (HalfBits - 1) \in Nat \ {0} /\ 2 ^ (HalfBits - 1 + 1) = 2 * 2 ^ (HalfBits - 1)
        BY <3>1, PowersAreNumbers, PowerStep
      <3>3. PICK h \in Nat \ {0} : h = 2 ^ (HalfBits - 1)
        BY <3>2
      <3>. QED  BY <3>1, <3>2, <3>3, WordPowers
    <2>3. UMax32 \div 2 = h - 1
      BY <2>2
    <2>4. v \in 0 .. (h - 1) /\ k \in 0 .. (h - 1)
      BY <2>1, <2>3, IntervalBounds, WordsAreIntegers
    <2>5. \A u \in 0 .. (h - 1) : u \in 0 .. UMax32 /\ Signed(u, HalfBits) = u /\ Unsigned(u) = u
      BY <2>2 DEF Signed, Unsigned
    <2>6. l = v /\ m = k
      BY <1>2, <1>3, <1>7, <2>4, <2>5, LowHalf
    <2>7. Signed(l, w) = v /\ Signed(m, w) = k
      BY <1>2, <1>7, <2>4, <2>5, <2>6
    <2>. QED  BY <1>4, <2>6, <2>7
  <1>8. JumpTaken(op, v, k) \in BOOLEAN
    <2>1. op \in {"Eq", "Ne", "Slt", "Sle", "Sgt", "Sge", "Lt", "Le", "Gt", "Ge"}
      BY DEF Comparisons, UnsignedOps
    <2>2. CASE op \in {"Eq", "Ne"}
      BY <2>2 DEF JumpTaken
    <2>0. \A a \in Int, b \in Int : (a < b) \in BOOLEAN /\ (a <= b) \in BOOLEAN
                                   /\ (a > b) \in BOOLEAN /\ (a >= b) \in BOOLEAN
      OBVIOUS
    <2>3. CASE op \in {"Slt", "Sle", "Sgt", "Sge"}
      <3>1. v \in Int /\ k \in Int
        BY WordsAreIntegers
      <3>. QED  BY <2>0, <2>3, <3>1 DEF JumpTaken
    <2>4. CASE op \in {"Lt", "Le", "Gt", "Ge"}
      <3>1. PICK a \in Int, b \in Int : a = Unsigned(v) /\ b = Unsigned(k)
        BY <1>5
      <3>. QED  BY <2>0, <2>4, <3>1 DEF JumpTaken
    <2>. QED  BY <2>1, <2>2, <2>3, <2>4
  <1>9. op \in UnsignedOps => v >= 0 /\ k >= 0
    BY IntervalBounds, WordsAreIntegers DEF PreciseJump, NonNegative
  <1>10. JumpTakenW(op, v, k, width) = JumpTaken(op, v, k)
    BY <1>6, <1>7
  <1>. QED  BY <1>8, <1>9, <1>10

LEMMA BranchSound ==
    ASSUME NEW r \in Ranges, NEW op \in JumpNames \ {"Always"}, NEW k \in Word, NEW v \in Word,
           NEW width \in {32, 64}, Contains(r, v), PreciseJump(op, r, k, width)
    PROVE  Contains(Refine(r, op, k, JumpTakenW(op, v, k, width)), v)
  <1>1. CASE op \in Comparisons
    <2>1. PICK branch \in BOOLEAN : branch = JumpTakenW(op, v, k, width) /\ JumpTaken(op, v, k) = branch
      BY <1>1, JumpAgrees
    <2>2. op \in UnsignedOps => v >= 0 /\ k >= 0
      BY <1>1, JumpAgrees
    <2>. QED  BY <1>1, <2>1, <2>2, RefinementSound
  <1>2. CASE op \notin Comparisons
    <2>1. op \in {"Set", "Call", "Exit"}
      BY <1>2 DEF JumpNames, NeverTaken
    <2>2. \A branch : Canonical(op, branch) = [op |-> op, taken |-> branch]
      BY <2>1 DEF Canonical, Complement
    <2>3. \A branch : Refine(r, op, k, branch) = r
      BY <2>1, <2>2 DEF Refine
    <2>. QED  BY <2>3
  <1>. QED  BY <1>1, <1>2

LEMMA SamplesAreMembers ==
    ASSUME NEW r \in Ranges, NEW v \in Samples(r)
    PROVE  v \in Word /\ Contains(r, v)
  <1>1. CASE IsInterval(r)
    <2>1. Contains(r, v) /\ v \in {r.lo, r.lo + 1, r.hi - 1, r.hi}
      BY <1>1 DEF Samples
    <2>2. r.lo \in Int /\ r.hi \in Int /\ IMin <= r.lo /\ r.hi <= IMax /\ r.lo <= v /\ v <= r.hi
      BY <1>1, <2>1, IntervalBounds, WordsAreIntegers
    <2>. QED  BY <2>1, <2>2, WordsAreIntegers
  <1>2. CASE ~ IsInterval(r)
    <2>1. Contains(r, v) /\ v \in {IMin, -1, 0, 1, IMax}
      BY <1>2 DEF Samples
    <2>. QED  BY <2>1, WordPowers DEF Word, IMin
  <1>. QED  BY <1>1, <1>2

\* The range is a range and the word a word in it.
CoveredInv == range \in Ranges /\ word \in Word /\ Covered

\* state.rs:121: the operators are sound over-approximations.  Through any
\* sequence of ALU instructions, jumps and merges, of any length and for
\* every word size, the range keeps the machine's word, once the
\* instructions that the verifier is known to get wrong are left out.
THEOREM RangesCoverWords ==
    ASSUME OnlyPrecise = TRUE
    PROVE  ScalarSpec => []Covered
  <1>1. ScalarInit => CoveredInv
    <2>1. ASSUME ScalarInit PROVE CoveredInv
      <3>1. range \in Ranges /\ word \in Samples(range)
        BY <2>1, ScalarsAssumption DEF ScalarInit
      <3>. QED  BY <3>1, SamplesAreMembers DEF CoveredInv, Covered
    <2>. QED  BY <2>1
  <1>2. CoveredInv /\ [ScalarNext]_scalar => CoveredInv'
    <2> SUFFICES ASSUME CoveredInv, [ScalarNext]_scalar PROVE CoveredInv'
      OBVIOUS
    <2>0. range \in Ranges /\ word \in Word /\ Contains(range, word)
      BY DEF CoveredInv, Covered
    <2>1. ASSUME NEW width \in {32, 64}, NEW op \in AluOps \ EndOps, NEW b \in Operands,
                 Operate(op, b, width)
          PROVE  CoveredInv'
      <3>1. op \in AluNames \ EndOps /\ b \in Ranges
        BY ScalarsAssumption
      <3>2. PICK y \in Samples(b) : word' = AluApply(op, word, y, width)
        BY <2>1 DEF Operate
      <3>3. y \in Word /\ Contains(b, y)
        BY <3>1, <3>2, SamplesAreMembers
      <3>4. PreciseAlu(op, range, b, width) /\ range' = RangeAlu(op, range, b, width)
        BY <2>1 DEF Operate
      <3>5. word' \in Word
        BY <2>0, <3>1, <3>2, <3>3, AluClosed
      <3>6. range' \in Ranges
        BY <2>0, <3>1, <3>4, AluTyped
      <3>7. Contains(range', word')
        BY <2>0, <3>1, <3>2, <3>3, <3>4, AluSound
      <3>. QED  BY <3>5, <3>6, <3>7 DEF CoveredInv, Covered
    <2>2. ASSUME NEW width \in {32, 64}, NEW op \in AluOps \cap EndOps, NEW imm \in EndWidths,
                 Swap(op, imm, width)
          PROVE  CoveredInv'
      <3>1. imm \in Word /\ op \in AluNames
        BY EndWidthsAreWords, ScalarsAssumption
      <3>2. word' \in Word
        BY <2>0, <2>2, <3>1, AluClosed DEF Swap
      <3>3. range' = Top
        BY <2>2, RangeKinds DEF Swap, RangeAlu, RangeResult, EndOps, Trunc32
      <3>. QED  BY <3>2, <3>3, KindsDiffer DEF CoveredInv, Covered, Ranges
    <2>3. ASSUME NEW width \in {32, 64}, NEW op \in Jumps, NEW b \in Operands, IsExact(b),
                 Branch(op, b.lo, width)
          PROVE  CoveredInv'
      <3>1. op \in JumpNames \ {"Always"} /\ b \in Ranges
        BY ScalarsAssumption
      <3>2. PICK k \in Word : k = b.lo
        BY <2>3, <3>1, IntervalBounds DEF IsExact
      <3>3. /\ PreciseJump(op, range, k, width) /\ word' = word
            /\ range' = Refine(range, op, k, JumpTakenW(op, word, k, width))
        BY <2>3, <3>2 DEF Branch
      <3>4. range' \in Ranges
        BY <2>0, <3>1, <3>3, RefineTyped
      <3>5. Contains(range', word)
        BY <2>0, <3>1, <3>3, BranchSound
      <3>. QED  BY <2>0, <3>3, <3>4, <3>5 DEF CoveredInv, Covered
    <2>4. ASSUME NEW b \in Operands, Meet(b) PROVE CoveredInv'
      <3>1. b \in Ranges
        BY ScalarsAssumption
      <3>2. word' = word /\ range' \in {RangeJoin(range, b), RangeWiden(range, b),
                                        RangeJoin(b, range), RangeWiden(b, range)}
        BY <2>4 DEF Meet
      <3>3. range' \in Ranges
        BY <2>0, <3>1, <3>2, RangeJoinUpper, RangeWidenUpper
      <3>4. Contains(range', word)
        BY <2>0, <3>1, <3>2, MergesKeepWords
      <3>. QED  BY <2>0, <3>2, <3>3, <3>4 DEF CoveredInv, Covered
    <2>5. CASE UNCHANGED scalar
      BY <2>0, <2>5 DEF scalar, CoveredInv, Covered
    <2>. QED  BY <2>1, <2>2, <2>3, <2>4, <2>5 DEF ScalarNext
  <1>3. CoveredInv => Covered
    BY DEF CoveredInv
  <1>. QED  BY <1>1, <1>2, <1>3, PTL DEF ScalarSpec

-----------------------------------------------------------------------------
(***************************************************************************)
(* Trips of a loop                                                         *)
(***************************************************************************)

\* i32 immediates; a stride may also be a negated one.
Immediate(n) == n \in Int /\ -(UMax32 + 1) <= 2 * n /\ 2 * n <= UMax32 + 1

\* f holds the counter at the head of each round, round after round.
Strides(f, n, stride) ==
    /\ f \in [0..n -> Word]
    /\ \A i \in 0 .. (n - 1) : f[i + 1] = WrappingAdd(f[i], stride)

LEMMA WordRange ==
    /\ \A v \in Word : v \in Int /\ Fits(v)
    /\ \A v \in Int : Fits(v) => v \in Word
    /\ IMax \in Nat \ {0} /\ UMax32 \in Nat \ {0} /\ UMax32 <= IMax /\ IMin = -IMax - 1
  BY WordAssumption DEF Word, IMin, Fits

LEMMA FitsDoesNotWrap ==
    ASSUME NEW x \in Int, NEW y \in Int, Fits(x + y)
    PROVE  WrappingAdd(x, y) = x + y
  BY WordRange DEF WrappingAdd, Wrap, Fits

\* A counter that does not wrap is where its strides have brought it.
LEMMA Rounds ==
    ASSUME NEW n \in Nat, NEW f, NEW stride \in Int, Strides(f, n, stride),
           NEW m \in 0..n,
           \A i \in 0 .. (m - 1) : Fits(f[i] + stride) \/ Fits(f[0] + i * stride + stride)
    PROVE  \A i \in 0..m : f[i] = f[0] + i * stride
  <1> DEFINE Good == {i \in Nat : i <= m => f[i] = f[0] + i * stride}
  <1>0. \A i \in 0..n : f[i] \in Int
    BY WordRange DEF Strides
  <1>1. 0 \in Good
    BY <1>0
  <1>2. ASSUME NEW i \in Nat, i \in Good, i + 1 <= m PROVE f[i + 1] = f[0] + (i + 1) * stride
    <2>1. /\ i \in 0 .. (m - 1) /\ i \in 0 .. (n - 1) /\ i \in 0..n /\ 0 \in 0..n
          /\ f[i] = f[0] + i * stride
      BY <1>2
    <2>2. f[i + 1] = WrappingAdd(f[i], stride) /\ f[i] \in Int /\ f[0] \in Int
      BY <1>0, <2>1 DEF Strides
    <2>3. PICK p \in Int : p = i * stride
      OBVIOUS
    <2>4. Fits(f[i] + stride)
      BY <2>1, <2>2, <2>3
    <2>5. f[i + 1] = f[i] + stride
      BY <2>2, <2>4, FitsDoesNotWrap
    <2>6. (i + 1) * stride = i * stride + stride
      OBVIOUS
    <2>. QED  BY <2>1, <2>2, <2>3, <2>5, <2>6
  <1>3. \A i \in Nat : i \in Good => i + 1 \in Good
    BY <1>2
  <1>4. Inductive(Good)
    BY <1>1, <1>3 DEF Inductive
  <1>5. Nat \subseteq Good
    <2> HIDE DEF Good
    <2>. QED  BY <1>4, NumberInduction
  <1>. QED  BY <1>5

\* div_ceil: the least number of strides that covers the distance.
LEMMA DivCeilLeast ==
    ASSUME NEW n \in Nat, NEW s \in Nat \ {0}, NEW d \in Nat, n > 0 => (n - 1) * s < d
    PROVE  DivCeil(d, s) \in Int /\ n <= DivCeil(d, s)
  <1>1. PICK q \in Int, r \in 0 .. (s - 1) : q = (d + s - 1) \div s /\ d + s - 1 = s * q + r
    BY Remainders
  <1>2. d <= s * q
    <2>1. PICK p \in Int : p = s * q
      OBVIOUS
    <2>. QED  BY <1>1, <2>1
  <1>3. q >= 0
    <2>1. q < 0 => s * q <= -s
      BY QuotientsGrow
    <2>. QED  BY <1>2, <2>1
  <1>4. n > q => s * q <= (n - 1) * s
    <2>1. SUFFICES ASSUME n > q PROVE s * q <= (n - 1) * s
      OBVIOUS
    <2>2. q \in Nat /\ n - 1 \in Nat /\ q <= n - 1
      BY <1>3, <2>1
    <2>3. q * s <= (n - 1) * s
      BY <2>2, ProductsGrow
    <2>. QED  BY <2>3
  <1>5. ~ (n > q)
    <2>1. PICK a \in Int, b \in Int : a = s * q /\ b = (n - 1) * s
      OBVIOUS
    <2>. QED  BY <1>2, <1>3, <1>4, <2>1
  <1>. QED  BY <1>1, <1>5 DEF DivCeil

\* As long as the counter is below the edge, and starts above lo, it has not
\* been moved more often than count_traversals says.
LEMMA BelowCounts ==
    ASSUME NEW n \in Nat, NEW a \in Int, NEW lo \in Int, NEW edge \in Int, NEW s \in Nat \ {0},
           lo <= a, n > 0 => a + (n - 1) * s < edge
    PROVE  n <= (IF lo >= edge THEN 0 ELSE DivCeil(edge - lo, s))
  <1>1. n > 0 => (n - 1) * s >= 0
    <2>1. n > 0 => n - 1 \in Nat /\ (n - 1) * s \in Nat
      OBVIOUS
    <2>. QED  BY <2>1
  <1>2. PICK p \in Int : p = (n - 1) * s
    OBVIOUS
  <1>3. CASE lo >= edge
    BY <1>1, <1>2, <1>3
  <1>4. CASE lo < edge
    <2>1. edge - lo \in Nat /\ (n > 0 => (n - 1) * s < edge - lo)
      BY <1>2, <1>4
    <2>. QED  BY <1>4, <2>1, DivCeilLeast
  <1>. QED  BY <1>3, <1>4

\* The test before the stride sees the counter of the round, the test after
\* it that of the next.
Seen(after) == IF after THEN 1 ELSE 0

LEMMA TripsBelow ==
    ASSUME NEW n \in Nat, NEW f, NEW s, Immediate(s), Strides(f, n, s), NEW after \in BOOLEAN,
           NEW edge \in Int, -(UMax32 + 1) <= 2 * edge, 2 * (edge - 1) <= UMax32,
           NEW lo \in Int, lo <= f[0],
           \A i \in 0 .. (n - 1) : f[i + Seen(after)] < edge,
           after => s > 0 /\ Fits(f[0] + s),
           Below(edge, s, lo) # NoTrips
    PROVE  n <= Below(edge, s, lo)
  <1>1. s \in Int /\ 2 * s <= UMax32 + 1 /\ (\A i \in 0..n : f[i] \in Int /\ Fits(f[i]))
    BY WordRange DEF Immediate, Strides
  <1>2. CASE s <= 0
    <2>1. lo >= edge /\ Below(edge, s, lo) = 0
      BY <1>2 DEF Below
    <2>2. ~ after /\ Seen(after) = 0
      BY <1>1, <1>2 DEF Seen
    <2>3. n > 0 => f[0] < edge
      BY <2>2
    <2>4. 0 \in 0..n
      OBVIOUS
    <2>. QED  BY <1>1, <2>1, <2>3, <2>4
  <1>3. CASE s > 0
    <2>1. \A i \in 0 .. (n - 1) : f[i] < edge => Fits(f[i] + s)
      <3>1. SUFFICES ASSUME NEW i \in 0 .. (n - 1), f[i] < edge PROVE Fits(f[i] + s)
        OBVIOUS
      <3>2. f[i] \in Int /\ Fits(f[i])
        BY <1>1
      <3>3. f[i] + s <= UMax32 /\ f[i] + s >= f[i]
        BY <1>1, <1>3, <3>1, <3>2, WordRange
      <3>. QED  BY <1>1, <3>2, <3>3, WordRange DEF Fits
    <2>2. \A i \in 0 .. (n - 1) : Fits(f[i] + s)
      <3>1. CASE ~ after
        BY <2>1, <3>1 DEF Seen
      <3>2. CASE after
        <4>1. SUFFICES ASSUME NEW i \in 0 .. (n - 1), i > 0 PROVE f[i] < edge
          BY <2>1, <3>2
        <4>2. i - 1 \in 0 .. (n - 1) /\ i - 1 + 1 = i
          BY <4>1
        <4>. QED  BY <3>2, <4>2 DEF Seen
      <3>. QED  BY <3>1, <3>2
    <2>3. \A i \in 0..n : f[i] = f[0] + i * s
      BY <1>1, <2>2, Rounds
    <2>4. n > 0 => f[0] + (n - 1) * s < edge
      <3>1. SUFFICES ASSUME n > 0 PROVE f[0] + (n - 1) * s < edge
        OBVIOUS
      <3>2. n - 1 \in 0 .. (n - 1) /\ n - 1 \in 0..n /\ n \in 0..n /\ n - 1 + 1 = n
        BY <3>1
      <3>3. f[n - 1] = f[0] + (n - 1) * s /\ f[n] = f[0] + n * s
        BY <2>3, <3>2
      <3>4. PICK p \in Int : p = (n - 1) * s
        BY <1>1
      <3>5. n * s = p + s
        BY <1>1, <3>4
      <3>6. IF after THEN f[n] < edge ELSE f[n - 1] < edge
        <4>1. CASE after
          BY <3>2, <4>1 DEF Seen
        <4>2. CASE ~ after
          BY <3>2, <4>2 DEF Seen
        <4>. QED  BY <4>1, <4>2
      <3>. QED  BY <1>1, <1>3, <3>2, <3>3, <3>4, <3>5, <3>6
    <2>5. s \in Nat \ {0} /\ f[0] \in Int
      BY <1>1, <1>3
    <2>6. Below(edge, s, lo) = IF lo >= edge THEN 0 ELSE DivCeil(edge - lo, s)
      BY <1>1, <1>3 DEF Below
    <2>7. n <= (IF lo >= edge THEN 0 ELSE DivCeil(edge - lo, s))
      BY <2>4, <2>5, BelowCounts
    <2>. QED  BY <2>6, <2>7
  <1>. QED  BY <1>1, <1>2, <1>3

LEMMA TripsAbove ==
    ASSUME NEW n \in Nat, NEW f, NEW s, Immediate(s), Strides(f, n, s), NEW after \in BOOLEAN,
           NEW edge \in Int, -(UMax32 + 1) <= 2 * (edge + 1), 2 * edge <= UMax32,
           NEW hi \in Int, f[0] <= hi,
           \A i \in 0 .. (n - 1) : f[i + Seen(after)] > edge,
           after => s < 0 /\ Fits(f[0] + s),
           Above(edge, s, hi) # NoTrips
    PROVE  n <= Above(edge, s, hi)
  <1>1. s \in Int /\ -(UMax32 + 1) <= 2 * s /\ (\A i \in 0..n : f[i] \in Int /\ Fits(f[i]))
    BY WordRange DEF Immediate, Strides
  <1>2. CASE s >= 0
    <2>1. hi <= edge /\ Above(edge, s, hi) = 0
      BY <1>2 DEF Above
    <2>2. ~ after /\ Seen(after) = 0
      BY <1>1, <1>2 DEF Seen
    <2>3. n > 0 => f[0] > edge
      BY <2>2
    <2>4. 0 \in 0..n
      OBVIOUS
    <2>. QED  BY <1>1, <2>1, <2>3, <2>4
  <1>3. CASE s < 0
    <2>1. \A i \in 0 .. (n - 1) : f[i] > edge => Fits(f[i] + s)
      <3>1. SUFFICES ASSUME NEW i \in 0 .. (n - 1), f[i] > edge PROVE Fits(f[i] + s)
        OBVIOUS
      <3>2. f[i] \in Int /\ Fits(f[i])
        BY <1>1
      <3>3. f[i] + s >= -(UMax32 + 1) /\ f[i] + s <= f[i]
        BY <1>1, <1>3, <3>1, <3>2, WordRange
      <3>. QED  BY <1>1, <3>2, <3>3, WordRange DEF Fits
    <2>2. \A i \in 0 .. (n - 1) : Fits(f[i] + s)
      <3>1. CASE ~ after
        BY <2>1, <3>1 DEF Seen
      <3>2. CASE after
        <4>1. SUFFICES ASSUME NEW i \in 0 .. (n - 1), i > 0 PROVE f[i] > edge
          BY <2>1, <3>2
        <4>2. i - 1 \in 0 .. (n - 1) /\ i - 1 + 1 = i
          BY <4>1
        <4>. QED  BY <3>2, <4>2 DEF Seen
      <3>. QED  BY <3>1, <3>2
    <2>3. \A i \in 0..n : f[i] = f[0] + i * s
      BY <1>1, <2>2, Rounds
    <2>4. n > 0 => -f[0] + (n - 1) * (-s) < -edge
      <3>1. SUFFICES ASSUME n > 0 PROVE -f[0] + (n - 1) * (-s) < -edge
        OBVIOUS
      <3>2. n - 1 \in 0 .. (n - 1) /\ n - 1 \in 0..n /\ n \in 0..n /\ n - 1 + 1 = n /\ 0 \in 0..n
        BY <3>1
      <3>3. f[n - 1] = f[0] + (n - 1) * s /\ f[n] = f[0] + n * s
        BY <2>3, <3>2
      <3>4. PICK p \in Int : p = (n - 1) * s
        BY <1>1
      <3>5. n * s = p + s /\ (n - 1) * (-s) = -p
        BY <1>1, <3>4
      <3>6. IF after THEN f[n] > edge ELSE f[n - 1] > edge
        <4>1. CASE after
          BY <3>2, <4>1 DEF Seen
        <4>2. CASE ~ after
          BY <3>2, <4>2 DEF Seen
        <4>. QED  BY <4>1, <4>2
      <3>. QED  BY <1>1, <1>3, <3>2, <3>3, <3>4, <3>5, <3>6
    <2>5. -s \in Nat \ {0} /\ f[0] \in Int /\ -hi <= -f[0]
      BY <1>1, <1>3
    <2>6. n <= (IF -hi >= -edge THEN 0 ELSE DivCeil(-edge - (-hi), -s))
      BY <2>4, <2>5, BelowCounts
    <2>7. Above(edge, s, hi) = IF -hi >= -edge THEN 0 ELSE DivCeil(-edge - (-hi), -s)
      <3>1. -edge - (-hi) = hi - edge /\ (hi <= edge <=> -hi >= -edge)
        OBVIOUS
      <3>. QED  BY <1>1, <1>3, <3>1 DEF Above
    <2>. QED  BY <2>6, <2>7
  <1>. QED  BY <1>1, <1>2, <1>3

\* What a comparison that holds says of the counter, as a signed word.
LEMMA HeldBelow ==
    ASSUME NEW op \in {"Lt", "Le", "Slt", "Sle"}, NEW v \in Word, NEW k \in Word,
           op \in {"Lt", "Le"} => k >= 0, JumpTaken(op, v, k)
    PROVE  v < (IF op \in {"Lt", "Slt"} THEN k ELSE k + 1)
  <1>1. v \in Int /\ k \in Int /\ Fits(v) /\ Fits(k)
    BY WordRange
  <1>2. /\ op = "Lt" => Unsigned(v) < Unsigned(k)
        /\ op = "Le" => Unsigned(v) <= Unsigned(k)
        /\ op = "Slt" => v < k
        /\ op = "Sle" => v <= k
    BY DEF JumpTaken
  <1>3. op \in {"Lt", "Le"} => Unsigned(k) = k /\ (v >= 0 => Unsigned(v) = v) /\ (v < 0 => v < k)
    BY <1>1 DEF Unsigned
  <1>. QED  BY <1>1, <1>2, <1>3

LEMMA HeldAbove ==
    ASSUME NEW op \in {"Gt", "Ge", "Sgt", "Sge"}, NEW v \in Word, NEW k \in Word,
           op \in {"Gt", "Ge"} => k >= 0 /\ v >= 0, JumpTaken(op, v, k)
    PROVE  v > (IF op \in {"Gt", "Sgt"} THEN k ELSE k - 1)
  <1>1. v \in Int /\ k \in Int
    BY WordRange
  <1>2. /\ op = "Gt" => Unsigned(v) > Unsigned(k)
        /\ op = "Ge" => Unsigned(v) >= Unsigned(k)
        /\ op = "Sgt" => v > k
        /\ op = "Sge" => v >= k
    BY DEF JumpTaken
  <1>3. op \in {"Gt", "Ge"} => Unsigned(k) = k /\ Unsigned(v) = v
    BY <1>1 DEF Unsigned
  <1>. QED  BY <1>1, <1>2, <1>3

\* A counter that goes down to a bound above its stride does not pass zero.
LEMMA StaysPositive ==
    ASSUME NEW n \in Nat, NEW f, NEW s, Immediate(s), Strides(f, n, s), NEW after \in BOOLEAN,
           NEW op \in {"Gt", "Ge"}, NEW k \in Word, k >= 0, s < 0, -s <= k, f[0] >= 0,
           \A i \in 0 .. (n - 1) : JumpTaken(op, f[i + Seen(after)], k),
           after => f[0] + s >= 0
    PROVE  \A i \in 0..n : f[i] >= 0
  <1> DEFINE Good == {i \in Nat : i <= n => f[i] >= 0}
  <1>0. s \in Int /\ k \in Int /\ (\A i \in 0..n : f[i] \in Word /\ f[i] \in Int /\ Fits(f[i]))
    BY WordRange DEF Immediate, Strides
  <1>1. 0 \in Good
    BY <1>0
  <1>2. ASSUME NEW i \in Nat, i \in Good, i + 1 <= n PROVE f[i + 1] >= 0
    <2>1. i \in 0 .. (n - 1) /\ i \in 0..n /\ f[i] >= 0 /\ f[i] \in Word /\ f[i] \in Int /\ Fits(f[i])
      BY <1>0, <1>2
    <2>2. JumpTaken(op, f[i], k) => f[i] + s >= 0
      <3>1. SUFFICES ASSUME JumpTaken(op, f[i], k) PROVE f[i] + s >= 0
        OBVIOUS
      <3>2. f[i] > (IF op \in {"Gt", "Sgt"} THEN k ELSE k - 1)
        BY <2>1, <3>1, HeldAbove
      <3>3. f[i] > k - 1
        BY <1>0, <2>1, <3>2
      <3>. QED  BY <1>0, <2>1, <3>3
    <2>3. f[i] + s >= 0
      <3>1. CASE ~ after
        BY <2>1, <2>2, <3>1 DEF Seen
      <3>2. CASE after /\ i = 0
        BY <3>2
      <3>3. CASE after /\ i > 0
        <4>1. i - 1 \in 0 .. (n - 1) /\ i - 1 + 1 = i
          BY <2>1, <3>3
        <4>2. JumpTaken(op, f[i], k)
          BY <3>3, <4>1 DEF Seen
        <4>. QED  BY <2>2, <4>2
      <3>. QED  BY <1>2, <3>1, <3>2, <3>3
    <2>4. Fits(f[i] + s)
      BY <1>0, <2>1, <2>3, WordRange DEF Fits
    <2>5. f[i + 1] = WrappingAdd(f[i], s)
      BY <2>1 DEF Strides
    <2>. QED  BY <1>0, <2>1, <2>3, <2>4, <2>5, FitsDoesNotWrap
  <1>3. \A i \in Nat : i \in Good => i + 1 \in Good
    BY <1>2
  <1>4. Inductive(Good)
    BY <1>1, <1>3 DEF Inductive
  <1>5. Nat \subseteq Good
    <2> HIDE DEF Good
    <2>. QED  BY <1>4, NumberInduction
  <1>. QED  BY <1>5

\* A counter that is moved once has another value.
LEMMA StrideMoves ==
    ASSUME NEW v \in Word, NEW s, Immediate(s), s # 0
    PROVE  WrappingAdd(v, s) # v
  <1>1. /\ v \in Int /\ s \in Int /\ IMax \in Nat \ {0} /\ IMin = -IMax - 1
        /\ -(UMax32 + 1) <= 2 * s /\ 2 * s <= UMax32 + 1 /\ UMax32 <= IMax /\ UMax32 \in Nat
    BY WordRange DEF Immediate
  <1>2. s < 2 * (IMax + 1) /\ -s < 2 * (IMax + 1)
    BY <1>1
  <1>. QED  BY <1>1, <1>2 DEF WrappingAdd, Wrap

\* A loop that goes on while its counter has one value goes round once.
LEMMA TripsEqual ==
    ASSUME NEW n \in Nat, NEW f, NEW s, Immediate(s), s # 0, Strides(f, n, s), NEW after \in BOOLEAN,
           NEW k \in Word, \A i \in 0 .. (n - 1) : f[i + Seen(after)] = k,
           after => f[0] = k
    PROVE  n <= (IF f[0] = k THEN 1 ELSE 0)
  <1>1. \A i \in 0 .. (n - 1) : f[i] \in Word /\ f[i + 1] # f[i]
    <2>1. \A i \in 0 .. (n - 1) : i \in 0..n /\ f[i + 1] = WrappingAdd(f[i], s)
      BY DEF Strides
    <2>2. \A i \in 0 .. (n - 1) : f[i] \in Word
      BY <2>1 DEF Strides
    <2>. QED  BY <2>1, <2>2, StrideMoves
  <1>2. n > 0 => 0 \in 0 .. (n - 1)
    OBVIOUS
  <1>3. n > 1 => 0 \in 0 .. (n - 1) /\ 1 \in 0 .. (n - 1)
    OBVIOUS
  <1>4. CASE after
    BY <1>1, <1>2, <1>4 DEF Seen
  <1>5. CASE ~ after
    <2>1. n > 0 => f[0] = k
      BY <1>2, <1>5 DEF Seen
    <2>2. ~ (n > 1)
      BY <1>1, <1>3, <1>5 DEF Seen
    <2>. QED  BY <2>1, <2>2
  <1>. QED  BY <1>4, <1>5

\* A loop that goes on while its counter differs from k, one step at a time
\* and in the direction of k, gets there.
LEMMA TripsUnequal ==
    ASSUME NEW n \in Nat, NEW f, NEW s \in {1, -1}, Strides(f, n, s), NEW after \in BOOLEAN,
           NEW k \in Word, (k - f[0]) * s >= 0, f[0] # k,
           \A i \in 0 .. (n - 1) : f[i + Seen(after)] # k
    PROVE  n <= Greater(k - f[0], f[0] - k)
  <1>1. 0 \in 0..n /\ f[0] \in Word /\ f[0] \in Int /\ Fits(f[0]) /\ k \in Int /\ Fits(k)
    BY WordRange DEF Strides
  <1>2. PICK m \in Nat \ {0} : m = Greater(k - f[0], f[0] - k) /\ f[0] + m * s = k
    <2>1. CASE s = 1
      BY <1>1, <2>1 DEF Greater
    <2>2. CASE s = -1
      BY <1>1, <2>2 DEF Greater
    <2>. QED  BY <2>1, <2>2
  <1>3. ASSUME n > m PROVE FALSE
    <2>1. \A i \in 0 .. (m - 1) : Fits(f[0] + i * s + s)
      <3>1. CASE s = 1
        BY <1>1, <1>2, <3>1, WordRange DEF Fits
      <3>2. CASE s = -1
        BY <1>1, <1>2, <3>2, WordRange DEF Fits
      <3>. QED  BY <3>1, <3>2
    <2>2. m \in 0..n /\ m \in 0..m /\ s \in Int
      BY <1>3
    <2>3. \A i \in 0..m : f[i] = f[0] + i * s
      BY <2>1, <2>2, Rounds
    <2>4. f[m] = k
      BY <1>2, <2>2, <2>3
    <2>5. CASE after
      <3>1. m - 1 \in 0 .. (n - 1) /\ m - 1 + 1 = m
        BY <1>3
      <3>. QED  BY <2>4, <2>5, <3>1 DEF Seen
    <2>6. CASE ~ after
      <3>1. m \in 0 .. (n - 1) /\ m + 0 = m
        BY <1>3
      <3>. QED  BY <2>4, <2>6, <3>1 DEF Seen
    <2>. QED  BY <2>5, <2>6
  <1>. QED  BY <1>2, <1>3

\* bound.rs:1, count_traversals: however often a loop goes round while its
\* test holds, from any value of the range that its counter had at the header,
\* it is not more often than the bound says.  The conditions are those of
\* PreciseCount: the test is about the value that was counted from, and no
\* stride leads past the end of the word that the test compares with.
THEOREM TripsCovered ==
    ASSUME NEW op \in Comparisons, NEW k, Immediate(k), 2 * k <= UMax32,
           NEW stride, Immediate(stride), stride # 0,
           NEW init \in Ranges, NEW after \in BOOLEAN,
           TripsFrom(init, op, k, stride) # NoTrips,
           PreciseCount(op, k, stride, init, after),
           NEW n \in Nat, NEW f, Strides(f, n, stride), Contains(init, f[0]),
           \A i \in 0 .. (n - 1) : JumpTaken(op, f[i + Seen(after)], k)
    PROVE  n <= TripsFrom(init, op, k, stride)
  <1> DEFINE trips == TripsFrom(init, op, k, stride)
  <1>1. /\ IsInterval(init)
        /\ op \notin {"Slt", "Sle", "Sgt", "Sge"} => init.lo >= 0 /\ k >= 0
        /\ trips = CountTraversals(op, k, stride, init.lo, init.hi)
    <2>1. IsInterval(init)
      BY DEF TripsFrom
    <2>2. init.lo \in Int /\ k \in Int
      BY <2>1, RangeCases, KindsDiffer, WordRange DEF Immediate, Intervals, IsInterval, Bottom, Top
    <2>. QED  BY <2>1, <2>2 DEF TripsFrom
  <1>2. /\ init.lo \in Word /\ init.hi \in Word /\ init.lo \in Int /\ init.hi \in Int
        /\ init.lo <= f[0] /\ f[0] <= init.hi
    <2>1. init \in Intervals
      BY <1>1, RangeCases DEF IsInterval, Bottom, Top
    <2>2. init.lo \in Word /\ init.hi \in Word
      BY <2>1 DEF Intervals
    <2>3. init.kind # "Top"
      BY <1>1 DEF IsInterval
    <2>. QED  BY <2>2, <2>3, WordRange DEF Contains
  <1>3. /\ k \in Int /\ k \in Word /\ stride \in Int
        /\ -(UMax32 + 1) <= 2 * k /\ 2 * k <= UMax32
    <2>1. k \in Int /\ stride \in Int /\ -(UMax32 + 1) <= 2 * k
      BY DEF Immediate
    <2>2. Fits(k)
      BY <2>1, WordRange DEF Fits
    <2>. QED  BY <2>1, <2>2, WordRange
  <1>4. /\ 0 \in 0..n /\ f[0] \in Word /\ f[0] \in Int /\ Fits(f[0])
        /\ \A i \in 0 .. (n - 1) : f[i + Seen(after)] \in Word
    <2>1. \A i \in 0..n : f[i] \in Word
      BY DEF Strides
    <2>2. \A i \in 0 .. (n - 1) : i + Seen(after) \in 0..n
      BY DEF Seen
    <2>. QED  BY <2>1, <2>2, WordRange
  <1>5. after => Fits(f[0] + stride)
    <2>1. after => Fits(init.lo + stride) /\ Fits(init.hi + stride)
      BY DEF PreciseCount
    <2>. QED  BY <1>2, <1>3, <1>4, <2>1, WordRange DEF Fits
  <1>6. CASE op \in {"Lt", "Le", "Slt", "Sle"}
    <2>1. after => stride > 0
      BY <1>6 DEF PreciseCount
    <2>2. PICK edge \in Int : edge = IF op \in {"Lt", "Slt"} THEN k ELSE k + 1
      BY <1>3
    <2>3. \A i \in 0 .. (n - 1) : f[i + Seen(after)] < edge
      BY <1>1, <1>3, <1>4, <1>6, <2>2, HeldBelow
    <2>4. trips = Below(edge, stride, init.lo)
      BY <1>1, <1>6, <2>2 DEF CountTraversals
    <2>5. -(UMax32 + 1) <= 2 * edge /\ 2 * (edge - 1) <= UMax32
      BY <1>3, <2>2, WordRange
    <2>. QED  BY <1>2, <1>5, <2>1, <2>3, <2>4, <2>5, TripsBelow
  <1>7. CASE op \in {"Gt", "Ge", "Sgt", "Sge"}
    <2>1. /\ after => stride < 0
          /\ op \in {"Gt", "Ge"} => /\ stride < 0 /\ -stride <= k
                                    /\ after => init.lo + stride >= 0
      BY <1>7 DEF PreciseCount
    <2>2. op \in {"Gt", "Ge"} => \A i \in 0 .. (n - 1) : f[i + Seen(after)] >= 0
      <3>1. SUFFICES ASSUME op \in {"Gt", "Ge"} PROVE \A i \in 0 .. (n - 1) : f[i + Seen(after)] >= 0
        OBVIOUS
      <3>2. k >= 0 /\ f[0] >= 0 /\ stride < 0 /\ -stride <= k /\ (after => f[0] + stride >= 0)
        BY <1>1, <1>2, <1>3, <1>4, <2>1, <3>1
      <3>3. \A i \in 0..n : f[i] >= 0
        BY <1>3, <3>1, <3>2, StaysPositive
      <3>4. \A i \in 0 .. (n - 1) : i + Seen(after) \in 0..n
        BY DEF Seen
      <3>. QED  BY <3>3, <3>4
    <2>3. PICK edge \in Int : edge = IF op \in {"Gt", "Sgt"} THEN k ELSE k - 1
      BY <1>3
    <2>4. \A i \in 0 .. (n - 1) : f[i + Seen(after)] > edge
      BY <1>1, <1>3, <1>4, <1>7, <2>2, <2>3, HeldAbove
    <2>5. trips = Above(edge, stride, init.hi)
      BY <1>1, <1>7, <2>3 DEF CountTraversals
    <2>6. -(UMax32 + 1) <= 2 * (edge + 1) /\ 2 * edge <= UMax32
      BY <1>3, <2>3, WordRange
    <2>. QED  BY <1>2, <1>5, <2>1, <2>4, <2>5, <2>6, TripsAbove
  <1>8. CASE op = "Eq"
    <2>1. init.lo = init.hi /\ trips = IF init.lo = k THEN 1 ELSE 0
      BY <1>1, <1>8 DEF CountTraversals
    <2>2. f[0] = init.lo
      BY <1>2, <1>4, <2>1
    <2>3. after => f[0] = k
      BY <1>8, <2>2 DEF PreciseCount
    <2>4. \A i \in 0 .. (n - 1) : f[i + Seen(after)] = k
      BY <1>8 DEF JumpTaken
    <2>. QED  BY <1>3, <2>1, <2>2, <2>3, <2>4, TripsEqual
  <1>9. CASE op = "Ne"
    <2>1. /\ init.lo = init.hi
          /\ trips = IF init.lo = k THEN 0 ELSE Greater(k - init.lo, init.lo - k)
          /\ init.lo # k => stride \in {1, -1}
      BY <1>1, <1>9 DEF CountTraversals
    <2>2. f[0] = init.lo
      BY <1>2, <1>4, <2>1
    <2>3. (f[0] = k => ~ after) /\ (k - f[0]) * stride >= 0
      BY <1>9, <2>2 DEF PreciseCount
    <2>4. \A i \in 0 .. (n - 1) : f[i + Seen(after)] # k
      BY <1>9 DEF JumpTaken
    <2>5. CASE f[0] = k
      <3>1. ~ (n > 0)
        BY <2>3, <2>4, <2>5 DEF Seen
      <3>. QED  BY <2>1, <2>2, <2>5, <3>1
    <2>6. CASE f[0] # k
      BY <1>3, <2>1, <2>2, <2>3, <2>4, <2>6, TripsUnequal
    <2>. QED  BY <2>5, <2>6
  <1>. QED  BY <1>6, <1>7, <1>8, <1>9 DEF Comparisons, UnsignedOps

-----------------------------------------------------------------------------
(***************************************************************************)
(* The invariant of the path                                               *)
(***************************************************************************)

\* What was staged at the start stays, and the bitmap keeps its length.
StagedInv ==
    /\ packet \in Packets /\ rodata \in Datas
    /\ xdpMd = IF packet = NoBytes THEN Mem!NoContext ELSE Mem!Context(packet)
    /\ DOMAIN initialized = 0 .. Mem!LastWord

\* A pointer to a map value is never moved out of r0, so that the next lookup,
\* which replaces the value, replaces the pointer too.
OnlyLookupPoints(s) ==
    \A r \in Regs : s.regs[r].type \in {"MapPtr", "MaybeMapPtr"} => r = 0

MachineInv == RegsInv /\ BytesInv /\ MasksInv /\ MapsInv /\ StagedInv

PathInv ==
    /\ MachineInv
    /\ abs \in AbsState /\ pool \in Catalogues
    /\ OnlyLookupPoints(abs)
    /\ Tracks
    /\ NoMemoryFault

LEMMA Tied ==
    /\ Regs = 0..10 /\ Register = 0..10 /\ FramePtr = 10 /\ Fp = 10
    /\ StackBytes = StackSize /\ Fds = DOMAIN MapTable
    /\ PacketStart = 2 * Gap /\ RodataStart = 5 * Gap /\ XdpMdBytes = 8
    /\ StackByte = 0 .. (StackSize - 1) /\ Mem!XdpMdLen = 8
  BY OracleAssumption DEF Register, Fp, Mem!PacketBase, Mem!RodataBase, Mem!XdpMdLen, StackByte

\* The distance of two regions is divided by every width, and the addresses
\* are small numbers.
LEMMA Layout ==
    /\ Gap \in Nat /\ StackSize \in Nat \ {0} /\ StackSize <= Gap /\ 64 <= Gap
    /\ 6 * Gap <= UMax32 /\ UMax32 <= IMax /\ UMax32 \in Nat /\ IMax \in Nat
    /\ \E g \in Nat, l \in Nat \ {0} : Gap = 8 * g /\ StackSize = 64 * l /\ Mem!LastWord = l - 1
  <1>1. /\ StackSize \in Nat \ {0} /\ StackSize % 64 = 0
        /\ Gap \in Nat /\ Gap % 8 = 0 /\ StackSize <= Gap /\ 6 * Gap <= UMax32
    BY MachineAssumption
  <1>2. PICK g \in Nat : Gap = 8 * g
    BY <1>1
  <1>3. PICK l \in Nat \ {0} : StackSize = 64 * l /\ StackSize \div 64 = l
    BY <1>1
  <1>4. UMax32 <= IMax /\ UMax32 \in Nat /\ IMax \in Nat
    BY WordAssumption
  <1>. QED  BY <1>1, <1>2, <1>3, <1>4 DEF Mem!LastWord

LEMMA Multiples ==
    ASSUME NEW w \in {1, 2, 4, 8}, NEW n \in Int
    PROVE  /\ (8 * n) % w = 0
           /\ \A m \in Int : m % w = 0 => (8 * n + m) % w = 0
  OBVIOUS

\* The address of a byte of a region whose offset is known, however the
\* pointer got there.
LEMMA AddressIs ==
    ASSUME NEW v \in Word, NEW base \in Nat, NEW k \in Word, base <= IMax
    PROVE  LET d == WrappingSub(v, base)
           IN  /\ d \in Word
               /\ base + d + k \in Word => WrappingAdd(v, k) = base + d + k
               /\ WrappingAdd(d, k) = WrappingSub(WrappingAdd(v, k), base)
               /\ WrappingSub(d, k) = WrappingSub(WrappingSub(v, k), base)
  <1>1. /\ v \in Int /\ IMin <= v /\ v <= IMax /\ k \in Int /\ IMin <= k /\ k <= IMax
        /\ IMax \in Nat \ {0} /\ IMin = -IMax - 1
    BY WordsAreIntegers DEF IMin
  <1>2. \A n \in Int : n \in Word <=> IMin <= n /\ n <= IMax
    BY WordsAreIntegers
  <1>. QED  BY <1>1, <1>2 DEF WrappingSub, WrappingAdd, Wrap

-----------------------------------------------------------------------------
(***************************************************************************)
(* Where an access lands                                                   *)
(***************************************************************************)

\* byte_range: an offset below r10 is an address of the stack.
LEMMA StackSpot ==
    ASSUME NEW start \in Int, NEW n \in Nat \ {0}, InStack(start, n)
    PROVE  LET a == Mem!StackBase + start
           IN  /\ a \in Word
               /\ Mem!Classify(a) = "Stack" /\ Mem!Inside("Stack", a, n)
               /\ a - Mem!Low = FirstByte(start)
               /\ FirstByte(start) \in 0 .. (StackSize - 1) /\ FirstByte(start) + n <= StackSize
               /\ LastByte(start, n) = FirstByte(start) + n - 1
  <1>1. /\ Mem!StackBase = Gap /\ Mem!Low = Gap - StackSize /\ StackBytes = StackSize
        /\ Gap \in Nat /\ StackSize \in Nat /\ StackSize <= Gap
    BY Constants, Tied
  <1>2. -StackSize <= start /\ start + n <= 0
    BY <1>1 DEF InStack
  <1>3. Gap + start \in Word
    BY <1>1, <1>2, Layout, Constants
  <1>. QED  BY <1>1, <1>2, <1>3 DEF Mem!Classify, Mem!Inside, FirstByte, LastByte

\* The other regions, by their contents.
LEMMA RegionSpot ==
    ASSUME NEW r \in {"Packet", "MapScratch", "XdpMd", "Rodata"}, NEW d \in Nat, NEW n \in Nat \ {0},
           Mem!Contents(r) # NoBytes, Mem!Contents(r) \in Seq(Mem!Byte), d + n <= Len(Mem!Contents(r)),
           r # "Rodata" => Len(Mem!Contents(r)) <= Gap
    PROVE  /\ Mem!Base(r) \in Nat /\ Mem!Base(r) <= IMax
           /\ Mem!Classify(Mem!Base(r) + d) = r /\ Mem!Inside(r, Mem!Base(r) + d, n)
           /\ r # "Rodata" => Mem!Base(r) + d \in Word
  <1>1. PICK len \in Nat : len = Len(Mem!Contents(r))
    OBVIOUS
  <1>2. /\ Mem!Low = Gap - StackSize /\ Mem!StackBase = Gap /\ Mem!PacketBase = 2 * Gap
        /\ Mem!MapScratchBase = 3 * Gap /\ Mem!XdpMdBase = 4 * Gap /\ Mem!RodataBase = 5 * Gap
        /\ Gap \in Nat /\ StackSize \in Nat /\ 64 <= Gap /\ StackSize <= Gap
    BY Constants, Layout
  <1>3. PICK base \in Nat : /\ base = Mem!Base(r)
                            /\ r = "Packet" => base = 2 * Gap
                            /\ r = "MapScratch" => base = 3 * Gap
                            /\ r = "XdpMd" => base = 4 * Gap
                            /\ r = "Rodata" => base = 5 * Gap
    BY <1>2 DEF Mem!Base
  <1>4. base <= IMax /\ (r # "Rodata" => base <= 4 * Gap)
    <2>1. 6 * Gap <= IMax
      BY Layout
    <2>2. base \in {2 * Gap, 3 * Gap, 4 * Gap, 5 * Gap} /\ (r # "Rodata" => base \in {2 * Gap, 3 * Gap, 4 * Gap})
      BY <1>3
    <2>3. IMax \in Nat
      BY Layout
    <2>. QED  BY <1>2, <2>1, <2>2, <2>3
  <1>5. r # "Rodata" => base + d \in Word
    BY <1>1, <1>2, <1>4, Layout, Constants
  <1>6. Mem!Classify(base + d) = r
    <2>1. r # "Rodata" => d < Gap
      BY <1>1, <1>2
    <2>2. CASE r = "Packet"
      BY <1>2, <1>3, <2>1, <2>2 DEF Mem!Classify
    <2>3. CASE r = "MapScratch"
      BY <1>2, <1>3, <2>1, <2>3 DEF Mem!Classify
    <2>4. CASE r = "XdpMd"
      BY <1>2, <1>3, <2>1, <2>4 DEF Mem!Classify
    <2>5. CASE r = "Rodata"
      BY <1>2, <1>3, <2>5 DEF Mem!Classify
    <2>. QED  BY <2>2, <2>3, <2>4, <2>5
  <1>7. Mem!Inside(r, base + d, n)
    BY <1>1, <1>3 DEF Mem!Inside
  <1>. QED  BY <1>3, <1>4, <1>5, <1>6, <1>7

\* An access that is inside its region at a multiple of its width meets no
\* bounds fault.
LEMMA ServedAccess ==
    ASSUME NEW a \in Int, NEW w \in {1, 2, 4, 8}, NEW r, r # "Unknown", Mem!Classify(a) = r,
           Mem!Inside(r, a, w), a % w = 0
    PROVE  Mem!BoundsFault(a, w) = "none"
  <1>1. r = "Packet" => packet # NoBytes
    BY DEF Mem!Inside, Mem!Contents
  <1>. QED  BY <1>1 DEF Mem!BoundsFault, Mem!Misaligned

\* Every base is a multiple of every width.
LEMMA AlignedBases ==
    ASSUME NEW r \in {"Stack", "Packet", "MapScratch", "XdpMd", "Rodata"}, NEW w \in {1, 2, 4, 8},
           NEW d \in Int, AlignedTo(d, w)
    PROVE  /\ (Mem!Base(r) + d) % w = 0
           /\ (Mem!StackBase + d) % w = 0
  <1>1. PICK g \in Nat, l \in Nat : Gap = 8 * g /\ StackSize = 64 * l
    BY Layout
  <1>2. d % w = 0
    BY DEF AlignedTo
  <1>3. Mem!StackBase = 8 * g
    BY <1>1, Constants
  <1>4. \E n \in Int : Mem!Base(r) = 8 * n
    <2>1. Mem!Base(r) \in {8 * g - 64 * l, 2 * (8 * g), 3 * (8 * g), 4 * (8 * g), 5 * (8 * g)}
      BY <1>1, Constants DEF Mem!Base
    <2>2. /\ 8 * g - 64 * l = 8 * (g - 8 * l) /\ 2 * (8 * g) = 8 * (2 * g) /\ 3 * (8 * g) = 8 * (3 * g)
          /\ 4 * (8 * g) = 8 * (4 * g) /\ 5 * (8 * g) = 8 * (5 * g)
          /\ g - 8 * l \in Int /\ 2 * g \in Int /\ 3 * g \in Int /\ 4 * g \in Int /\ 5 * g \in Int
      OBVIOUS
    <2>. QED  BY <2>1, <2>2
  <1>. QED  BY <1>2, <1>3, <1>4, Multiples

-----------------------------------------------------------------------------
(***************************************************************************)
(* The bitmap of written bytes                                             *)
(***************************************************************************)

BitsTracked(init) == \A b \in init : (b % 64) \in initialized[b \div 64]

LEMMA Bit ==
    /\ \A b \in Nat : b % 64 \in 0..63 /\ b \div 64 \in Nat /\ b = 64 * (b \div 64) + (b % 64)
    /\ \A q \in Int, c \in 0..63 : (64 * q + c) % 64 = c /\ (64 * q + c) \div 64 = q
  OBVIOUS

\* StackMemory::is_init: the bytes the verifier has seen written are written.
LEMMA SeenWritten ==
    ASSUME NEW init, BitsTracked(init), NEW i \in Nat, NEW w \in 1..8, i .. (i + w - 1) \subseteq init
    PROVE  Mem!IsInit(i, w)
  <1>1. PICK bit \in 0..63, at \in Nat : bit = i % 64 /\ at = i \div 64 /\ i = 64 * at + bit
    BY Bit
  <1>2. ASSUME NEW c \in 0..63, NEW q \in Int, 64 * q + c \in i .. (i + w - 1)
        PROVE  c \in initialized[q]
    <2>1. PICK b : b = 64 * q + c /\ b \in init
      BY <1>2
    <2>2. b % 64 = c /\ b \div 64 = q
      BY <2>1, Bit
    <2>. QED  BY <2>1, <2>2 DEF BitsTracked
  <1>3. CASE bit + w <= 64
    <2>1. ASSUME NEW c \in bit .. (bit + w - 1) PROVE c \in initialized[at]
      <3>1. c \in 0..63 /\ 64 * at + c \in i .. (i + w - 1)
        BY <1>1, <1>3
      <3>. QED  BY <1>2, <3>1
    <2>. QED  BY <1>1, <1>3, <2>1 DEF Mem!IsInit
  <1>4. CASE ~ (bit + w <= 64)
    <2>1. ASSUME NEW c \in bit .. 63 PROVE c \in initialized[at]
      <3>1. c \in 0..63 /\ 64 * at + c \in i .. (i + w - 1)
        BY <1>1, <1>4
      <3>. QED  BY <1>2, <3>1
    <2>2. ASSUME NEW c \in 0 .. (w - (64 - bit) - 1) PROVE c \in initialized[at + 1]
      <3>1. c \in 0..63 /\ 64 * (at + 1) + c \in i .. (i + w - 1)
        BY <1>1, <1>4
      <3>. QED  BY <1>2, <3>1
    <2>. QED  BY <1>1, <1>4, <2>1, <2>2 DEF Mem!IsInit
  <1>. QED  BY <1>3, <1>4

\* StackMemory::mark_init: the bytes of a store join the others.
LEMMA NowWritten ==
    ASSUME StagedInv, NEW i \in Nat, NEW w \in 1..8, i + w <= StackSize, NEW b \in 0 .. (StackSize - 1),
           (b % 64) \in initialized[b \div 64] \/ b \in i .. (i + w - 1)
    PROVE  (b % 64) \in Mem!Marked(i, w)[b \div 64]
  <1>1. PICK bit \in 0..63, at \in Nat : bit = i % 64 /\ at = i \div 64 /\ i = 64 * at + bit
    BY Bit
  <1>2. PICK c \in 0..63, q \in Nat : c = b % 64 /\ q = b \div 64 /\ b = 64 * q + c
    <2>1. b \in Nat
      BY Layout
    <2>. QED  BY <2>1, Bit
  <1>3. PICK l \in Nat \ {0} : StackSize = 64 * l /\ DOMAIN initialized = 0 .. (l - 1)
    BY Layout DEF StagedInv
  <1>4. q \in 0 .. (l - 1) /\ at \in 0 .. (l - 1)
    BY <1>1, <1>2, <1>3
  <1>5. CASE bit + w <= 64
    <2>1. PICK more : more = bit .. (bit + w - 1)
      OBVIOUS
    <2>2. Mem!Marked(i, w) = [initialized EXCEPT ![at] = @ \cup more]
      BY <1>1, <1>5, <2>1 DEF Mem!Marked
    <2>3. b \in i .. (i + w - 1) => q = at /\ c \in more
      BY <1>1, <1>2, <1>5, <2>1
    <2>. QED  BY <1>2, <1>3, <1>4, <2>2, <2>3
  <1>6. CASE ~ (bit + w <= 64)
    <2>1. PICK upper, lower : upper = bit .. 63 /\ lower = 0 .. (w - (64 - bit) - 1)
      OBVIOUS
    <2>2. Mem!Marked(i, w) = [initialized EXCEPT ![at] = @ \cup upper, ![at + 1] = @ \cup lower]
      BY <1>1, <1>6, <2>1 DEF Mem!Marked
    <2>3. at + 1 \in 0 .. (l - 1)
      BY <1>1, <1>3, <1>6
    <2>4. b \in i .. (i + w - 1) => (q = at /\ c \in upper) \/ (q = at + 1 /\ c \in lower)
      BY <1>1, <1>2, <1>6, <2>1
    <2>5. /\ Mem!Marked(i, w)[at] = initialized[at] \cup upper
          /\ Mem!Marked(i, w)[at + 1] = initialized[at + 1] \cup lower
          /\ \A n \in 0 .. (l - 1) : n # at /\ n # at + 1 => Mem!Marked(i, w)[n] = initialized[n]
      BY <1>3, <1>4, <2>2, <2>3
    <2>. QED  BY <1>2, <1>4, <2>4, <2>5
  <1>. QED  BY <1>5, <1>6

-----------------------------------------------------------------------------
(***************************************************************************)
(* What registers stand for, before and after a step                       *)
(***************************************************************************)

\* Describes, with the length of the scratch value as a parameter.
Stands(t, v, scratch) ==
    CASE t.type = "NotInit"     -> TRUE
      [] t.type = "Scalar"      -> Contains(t.range, v)
      [] t.type = "StackPtr"    -> v = Gap + t.offset
      [] t.type = "XdpMdPtr"    -> v = 4 * Gap
      [] t.type = "PacketPtr"   -> Contains(t.range, WrappingSub(v, 2 * Gap))
      [] t.type = "DataPtr"     -> Contains(t.range, WrappingSub(v, 5 * Gap))
      [] t.type = "MapPtr"      -> v = 3 * Gap /\ scratch = MapTable[t.fd].value
      [] t.type = "MaybeMapPtr" -> v = 0 \/ (v = 3 * Gap /\ scratch = MapTable[t.fd].value)

Stood(types, words, scratch) == \A r \in 0..10 : Stands(types[r], words[r], scratch)

Kept ==
    /\ abs' \in AbsState /\ OnlyLookupPoints(abs')
    /\ ret'.result \notin MemErrors
    /\ ret' = Continue =>
          /\ Stood(abs'.regs, regs', Len(mapScratch'))
          /\ \A b \in abs'.init : (b % 64) \in initialized'[b \div 64]

LEMMA TypesAreTold ==
    ASSUME NEW t \in RegType
    PROVE  t.type \in {"NotInit", "XdpMdPtr", "Scalar", "PacketPtr", "DataPtr", "StackPtr", "MapPtr", "MaybeMapPtr"}
  BY RegShape, RegKinds DEF Ranged

LEMMA TracksIs ==
    /\ \A t \in RegType : \A v : /\ Describes(t, v) <=> Stands(t, v, Len(mapScratch))
                                 /\ Describes(t, v)' <=> Stands(t, v, Len(mapScratch'))
    /\ abs \in AbsState =>
          (Tracks <=> (Running => Stood(abs.regs, regs, Len(mapScratch)) /\ BitsTracked(abs.init)))
    /\ abs' \in AbsState =>
          (Tracks' <=>
             (ret' = Continue => /\ Stood(abs'.regs, regs', Len(mapScratch'))
                                 /\ \A b \in abs'.init : (b % 64) \in initialized'[b \div 64]))
  <1>1. ASSUME NEW t \in RegType, NEW v PROVE Describes(t, v) <=> Stands(t, v, Len(mapScratch))
    BY TypesAreTold DEF Describes, InMap, Stands, Mem!StackBase, Mem!XdpMdBase, Mem!PacketBase,
                        Mem!RodataBase, Mem!MapScratchBase
  <1>2. ASSUME NEW t \in RegType, NEW v PROVE Describes(t, v)' <=> Stands(t, v, Len(mapScratch'))
    BY TypesAreTold DEF Describes, InMap, Stands, Mem!StackBase, Mem!XdpMdBase, Mem!PacketBase,
                        Mem!RodataBase, Mem!MapScratchBase
  <1>3. Regs = 0..10
    BY Tied
  <1>4. abs \in AbsState => \A r \in 0..10 : abs.regs[r] \in RegType
    BY <1>3, StateShape
  <1>5. abs' \in AbsState => \A r \in 0..10 : abs'.regs[r] \in RegType
    BY <1>3, StateShape
  <1>6. abs \in AbsState =>
          (Tracks <=> (Running => Stood(abs.regs, regs, Len(mapScratch)) /\ BitsTracked(abs.init)))
    BY <1>1, <1>4 DEF Tracks, Stood, BitsTracked
  <1>7. Running' <=> ret' = Continue
    BY DEF Running, Continue, Mem!Done
  <1>8. ASSUME abs' \in AbsState, NEW r \in 0..10
        PROVE  Describes(abs.regs[r], regs[r])' <=> Stands(abs'.regs[r], regs'[r], Len(mapScratch'))
    <2>1. PICK t, v : t \in RegType /\ t = abs'.regs[r] /\ v = regs'[r]
      BY <1>5, <1>8
    <2>2. Describes(abs.regs[r], regs[r])' <=> Describes(t, v)'
      BY <2>1 DEF Describes, InMap
    <2>. QED  BY <1>2, <2>1, <2>2
  <1>9. Tracks' <=>
          (ret' = Continue => /\ \A r \in 0..10 : Describes(abs.regs[r], regs[r])'
                              /\ \A b \in abs'.init : (b % 64) \in initialized'[b \div 64])
    BY <1>7 DEF Tracks
  <1>10. abs' \in AbsState =>
          (Tracks' <=>
             (ret' = Continue => /\ Stood(abs'.regs, regs', Len(mapScratch'))
                                 /\ \A b \in abs'.init : (b % 64) \in initialized'[b \div 64]))
    BY <1>8, <1>9 DEF Stood
  <1>. QED  BY <1>1, <1>2, <1>6, <1>10

\* What the invariant says of a path that goes on.
LEMMA PathFacts ==
    ASSUME PathInv, Running
    PROVE  /\ Stood(abs.regs, regs, Len(mapScratch)) /\ BitsTracked(abs.init)
           /\ abs \in AbsState /\ abs.init \subseteq 0 .. (StackSize - 1)
           /\ \A r \in 0..10 : abs.regs[r] \in RegType /\ regs[r] \in Word /\ regs[r] \in Int
  <1>1. Regs = 0..10 /\ StackByte = 0 .. (StackSize - 1) /\ Register = 0..10
    BY Tied
  <1>2. abs \in AbsState /\ Tracks /\ RegsInv
    BY DEF PathInv, MachineInv
  <1>3. \A v \in Word : v \in Int
    BY WordsAreIntegers
  <1>. QED  BY <1>1, <1>2, <1>3, TracksIs, StateShape DEF RegsInv

\* Registers with one of them written.
LEMMA Setting ==
    ASSUME NEW s \in AbsState, NEW dst \in 0..10, NEW t \in RegType,
           NEW new, new = [s EXCEPT !.regs[dst] = t]
    PROVE  /\ new \in AbsState /\ new.init = s.init
           /\ \A r \in 0..10 : new.regs[r] = IF r = dst THEN t ELSE s.regs[r]
  BY Tied DEF AbsState

LEMMA Marking ==
    ASSUME NEW s \in AbsState, NEW init \in SUBSET (0 .. (StackSize - 1)),
           NEW new, new = [s EXCEPT !.init = init]
    PROVE  new \in AbsState /\ new.init = init /\ new.regs = s.regs
  BY Tied DEF AbsState

LEMMA StandsWithout ==
    ASSUME NEW t, t.type \notin {"MapPtr", "MaybeMapPtr"}, NEW v, NEW m, NEW n
    PROVE  Stands(t, v, m) <=> Stands(t, v, n)
  BY DEF Stands

\* A step that writes one register, in both worlds, and leaves memory alone.
LEMMA OneRegister ==
    ASSUME PathInv, Running, NEW dst \in 0..10, NEW t \in RegType, NEW v \in Word,
           Stands(t, v, Len(mapScratch)), t.type \in {"MapPtr", "MaybeMapPtr"} => dst = 0,
           abs' = SetReg(abs, dst, t), regs' = Written(dst, v), UNCHANGED memory, ret' = Continue
    PROVE  Kept
  <1>1. /\ Stood(abs.regs, regs, Len(mapScratch)) /\ BitsTracked(abs.init)
        /\ abs \in AbsState /\ regs \in [0..10 -> Word] /\ OnlyLookupPoints(abs)
    BY PathFacts, Tied DEF PathInv, MachineInv, RegsInv
  <1>2. initialized' = initialized /\ mapScratch' = mapScratch
    BY DEF memory
  <1>3. ret'.result \notin MemErrors
    BY Answers
  <1>4. CASE dst = 10
    <2>1. abs' = abs /\ regs' = regs
      BY <1>4, Tied DEF SetReg, Written
    <2>. QED  BY <1>1, <1>2, <1>3, <2>1 DEF Kept, BitsTracked
  <1>5. CASE dst # 10
    <2>1. abs' = [abs EXCEPT !.regs[dst] = t] /\ regs' = [regs EXCEPT ![dst] = v]
      BY <1>5, Tied DEF SetReg, Written
    <2>2. /\ abs' \in AbsState /\ abs'.init = abs.init
          /\ \A r \in 0..10 : abs'.regs[r] = IF r = dst THEN t ELSE abs.regs[r]
      <3>1. PICK s, new : s = abs /\ new = abs' /\ new = [s EXCEPT !.regs[dst] = t]
        BY <2>1
      <3>2. s \in AbsState
        BY <1>1, <3>1
      <3>3. new \in AbsState
        BY <3>1, <3>2, Setting
      <3>4. new.init = s.init
        BY <3>1, <3>2, Setting
      <3>5. \A r \in 0..10 : new.regs[r] = IF r = dst THEN t ELSE s.regs[r]
        BY <3>1, <3>2, Tied DEF AbsState
      <3>. QED  BY <3>1, <3>3, <3>4, <3>5
    <2>3. \A r \in 0..10 : regs'[r] = IF r = dst THEN v ELSE regs[r]
      BY <1>1, <2>1
    <2>4. Stood(abs'.regs, regs', Len(mapScratch'))
      BY <1>1, <1>2, <2>2, <2>3 DEF Stood
    <2>5. OnlyLookupPoints(abs')
      BY <1>1, <2>2, Tied DEF OnlyLookupPoints
    <2>. QED  BY <1>1, <1>2, <1>3, <2>2, <2>4, <2>5 DEF Kept, BitsTracked
  <1>. QED  BY <1>4, <1>5

\* A helper returns in r0; a lookup also replaces the value it points to.
LEMMA Returned ==
    ASSUME PathInv, Running, NEW t \in RegType, NEW v \in Word, Stands(t, v, Len(mapScratch')),
           abs' = [abs EXCEPT !.regs[0] = t], regs' = [regs EXCEPT ![0] = v],
           UNCHANGED initialized, ret' = Continue
    PROVE  Kept
  <1>1. /\ Stood(abs.regs, regs, Len(mapScratch)) /\ BitsTracked(abs.init)
        /\ abs \in AbsState /\ regs \in [0..10 -> Word] /\ OnlyLookupPoints(abs)
    BY PathFacts, Tied DEF PathInv, MachineInv, RegsInv
  <1>2. ret'.result \notin MemErrors
    BY Answers
  <1>3. 0 \in 0..10
    OBVIOUS
  <1>4. /\ abs' \in AbsState /\ abs'.init = abs.init
        /\ \A r \in 0..10 : abs'.regs[r] = IF r = 0 THEN t ELSE abs.regs[r]
    <2>1. PICK s, new : s = abs /\ new = abs' /\ new = [s EXCEPT !.regs[0] = t]
      OBVIOUS
    <2>2. s \in AbsState
      BY <1>1, <2>1
    <2>3. new \in AbsState
      BY <1>3, <2>1, <2>2, Setting
    <2>4. new.init = s.init
      BY <1>3, <2>1, <2>2, Setting
    <2>5. \A r \in 0..10 : new.regs[r] = IF r = 0 THEN t ELSE s.regs[r]
      BY <1>3, <2>1, <2>2, Tied DEF AbsState
    <2>. QED  BY <2>1, <2>3, <2>4, <2>5
  <1>5. \A r \in 0..10 : regs'[r] = IF r = 0 THEN v ELSE regs[r]
    BY <1>1, <1>3
  <1>6. ASSUME NEW r \in 0..10, r # 0 PROVE Stands(abs.regs[r], regs[r], Len(mapScratch'))
    <2>1. Stands(abs.regs[r], regs[r], Len(mapScratch))
      BY <1>1 DEF Stood
    <2>2. abs.regs[r].type \notin {"MapPtr", "MaybeMapPtr"}
      BY <1>1, <1>6, Tied DEF OnlyLookupPoints
    <2>. QED  BY <2>1, <2>2, StandsWithout
  <1>7. Stood(abs'.regs, regs', Len(mapScratch'))
    BY <1>4, <1>5, <1>6 DEF Stood
  <1>8. OnlyLookupPoints(abs')
    BY <1>1, <1>4, Tied DEF OnlyLookupPoints
  <1>. QED  BY <1>1, <1>2, <1>4, <1>7, <1>8 DEF Kept, BitsTracked

-----------------------------------------------------------------------------
(***************************************************************************)
(* Loads and stores                                                        *)
(***************************************************************************)

\* A register value and an offset whose sum is a word do not wrap.
LEMMA Sums ==
    ASSUME NEW v \in Word, NEW k \in Word, v + k \in Word
    PROVE  WrappingAdd(v, k) = v + k
  <1>1. v \in Int /\ k \in Int /\ IMax \in Nat /\ IMin <= v + k /\ v + k <= IMax /\ IMin \in Int
    BY WordsAreIntegers
  <1>. QED  BY <1>1 DEF WrappingAdd, Wrap

\* The staged regions are there, and none of them reaches the next one.
LEMMA Staged ==
    ASSUME PathInv, PayloadsFit
    PROVE  /\ packet # NoBytes => packet \in Seq(Mem!Byte) /\ Len(packet) <= Gap
           /\ rodata # NoBytes => /\ rodata \in Seq(Mem!Byte)
                                  /\ \A k \in Nat : k < Len(rodata) => 5 * Gap + k \in Word
           /\ mapScratch # NoBytes /\ mapScratch \in Seq(Mem!Byte)
           /\ xdpMd # NoBytes /\ xdpMd \in Seq(Mem!Byte)
           /\ packet # NoBytes => Len(xdpMd) = 8 /\ xdpMd = Mem!Context(packet)
  <1>1. packet \in Packets /\ rodata \in Datas /\ BytesInv
        /\ xdpMd = IF packet = NoBytes THEN Mem!NoContext ELSE Mem!Context(packet)
    BY DEF PathInv, MachineInv, StagedInv
  <1>2. /\ packet # NoBytes => packet \in Seq(Mem!Byte)
        /\ xdpMd \in Seq(Mem!Byte) /\ mapScratch \in Seq(Mem!Byte)
        /\ rodata # NoBytes => rodata \in Seq(Mem!Byte)
    BY <1>1 DEF BytesInv
  <1>3. NoBytes \notin Seq(Mem!Byte)
    BY MachineAssumption DEF Mem!Byte
  <1>4. packet # NoBytes => Len(packet) <= Gap
    BY <1>1 DEF PayloadsFit
  <1>5. ASSUME rodata # NoBytes, NEW k \in Nat, k < Len(rodata) PROVE 5 * Gap + k \in Word
    <2>1. Mem!RodataBase + Len(rodata) <= IMax + 1 /\ Mem!RodataBase = 5 * Gap
      BY <1>1, <1>5, Constants DEF PayloadsFit
    <2>2. PICK len \in Nat : len = Len(rodata)
      BY <1>2, <1>5
    <2>3. Gap \in Nat /\ IMax \in Nat
      BY Layout
    <2>. QED  BY <1>5, <2>1, <2>2, <2>3, WordsAreIntegers DEF Word, IMin
  <1>6. packet # NoBytes => Len(xdpMd) = 8 /\ xdpMd = Mem!Context(packet)
    BY <1>1 DEF Mem!Context, Mem!Le4
  <1>. QED  BY <1>1, <1>2, <1>3, <1>4, <1>5, <1>6

\* An aligned access inside a region that is not the stack.
LEMMA RegionServed ==
    ASSUME PathInv, PayloadsFit, NEW r \in {"Packet", "MapScratch", "XdpMd", "Rodata"}, NEW d \in Nat,
           NEW w \in {1, 2, 4, 8}, Mem!Contents(r) # NoBytes, Mem!Contents(r) \in Seq(Mem!Byte),
           d + w <= Len(Mem!Contents(r)), r # "Rodata" => Len(Mem!Contents(r)) <= Gap, AlignedTo(d, w)
    PROVE  LET a == Mem!Base(r) + d
           IN  /\ Mem!Classify(a) = r /\ Mem!BoundsFault(a, w) = "none"
               /\ Mem!LoadFault(a, w) = "none" /\ a \in Word
  <1>1. w \in Nat \ {0}
    OBVIOUS
  <1>2. PICK a \in Int : a = Mem!Base(r) + d
    BY <1>1, RegionSpot
  <1>3. Mem!Classify(a) = r /\ Mem!Inside(r, a, w)
    BY <1>1, <1>2, RegionSpot
  <1>4. a % w = 0
    BY <1>2, AlignedBases
  <1>5. Mem!BoundsFault(a, w) = "none"
    BY <1>3, <1>4, ServedAccess
  <1>6. a \in Word
    <2>1. CASE r # "Rodata"
      BY <1>1, <1>2, <2>1, RegionSpot
    <2>2. CASE r = "Rodata"
      <3>1. rodata # NoBytes /\ d + w <= Len(rodata) /\ rodata \in Seq(Mem!Byte)
        BY <2>2 DEF Mem!Contents
      <3>2. d < Len(rodata)
        <4>1. PICK len \in Nat : len = Len(rodata)
          BY <3>1
        <4>. QED  BY <3>1, <4>1
      <3>3. Mem!Base(r) = 5 * Gap
        BY <2>2, Constants DEF Mem!Base
      <3>. QED  BY <1>2, <3>1, <3>2, <3>3, Staged
    <2>. QED  BY <2>1, <2>2
  <1>7. Mem!LoadFault(a, w) = "none"
    BY <1>3, <1>5 DEF Mem!LoadFault
  <1>. QED  BY <1>2, <1>3, <1>5, <1>6, <1>7

\* An aligned access below r10; a load of bytes known to be written.
LEMMA StackServed ==
    ASSUME PathInv, NEW start \in Int, NEW w \in {1, 2, 4, 8}, StackServes(start, w)
    PROVE  LET a == Mem!StackBase + start
           IN  /\ a \in Word /\ Mem!Classify(a) = "Stack" /\ Mem!BoundsFault(a, w) = "none"
               /\ a - Mem!Low = FirstByte(start)
               /\ FirstByte(start) \in Nat /\ FirstByte(start) + w <= StackSize
               /\ LastByte(start, w) = FirstByte(start) + w - 1
               /\ BitsTracked(abs.init) /\ StackRangeInit(abs, FirstByte(start), LastByte(start, w)) =>
                     Mem!LoadFault(a, w) = "none"
  <1>1. w \in Nat \ {0} /\ w \in 1..8 /\ InStack(start, w) /\ AlignedTo(start, w)
    BY DEF StackServes
  <1>2. PICK a \in Int : a = Mem!StackBase + start
    BY Constants
  <1>3. /\ a \in Word /\ Mem!Classify(a) = "Stack" /\ Mem!Inside("Stack", a, w)
        /\ a - Mem!Low = FirstByte(start)
        /\ FirstByte(start) \in 0 .. (StackSize - 1) /\ FirstByte(start) + w <= StackSize
        /\ LastByte(start, w) = FirstByte(start) + w - 1
    BY <1>1, <1>2, StackSpot
  <1>4. Mem!BoundsFault(a, w) = "none"
    BY <1>1, <1>2, <1>3, AlignedBases, ServedAccess
  <1>5. ASSUME BitsTracked(abs.init), StackRangeInit(abs, FirstByte(start), LastByte(start, w))
        PROVE  Mem!LoadFault(a, w) = "none"
    <2>1. PICK first \in Nat : first = FirstByte(start)
      BY <1>3
    <2>2. first .. (first + w - 1) \subseteq abs.init
      BY <1>3, <1>5, <2>1 DEF StackRangeInit
    <2>3. Mem!IsInit(first, w)
      BY <1>1, <1>5, <2>2, SeenWritten
    <2>. QED  BY <1>3, <1>4, <2>1, <2>3 DEF Mem!LoadFault
  <1>6. FirstByte(start) \in Nat
    BY <1>3
  <1>. QED  BY <1>2, <1>3, <1>4, <1>5, <1>6

\* check_packet_bounds and check_data_bounds, for the offset the pointer has.
LEMMA RegionOffset ==
    ASSUME NEW span \in Ranges, NEW d \in Word, Contains(span, d), NEW k \in Word,
           NEW w \in {1, 2, 4, 8}, NEW len \in Nat, RegionServes(len, span, k, w)
    PROVE  d + k \in Nat /\ d + k + w <= len /\ AlignedTo(d + k, w)
  <1>1. d \in Int /\ k \in Int /\ k <= IMax /\ IMax \in Nat /\ IMin = -IMax - 1
    BY WordsAreIntegers DEF IMin
  <1>2. span # Bottom
    BY KindsDiffer
  <1>3. span # Top
    <2>1. ASSUME span = Top PROVE FALSE
      <3>1. 0 <= IMin + k
        BY <1>2, <2>1 DEF RegionServes
      <3>. QED  BY <1>1, <3>1
    <2>. QED  BY <2>1
  <1>4. PICK lo \in Int, hi \in Int : lo = span.lo /\ hi = span.hi /\ lo <= d /\ d <= hi
    <2>1. IsInterval(span)
      BY <1>2, <1>3, RangeShape
    <2>. QED  BY <2>1, IntervalBounds, WordsAreIntegers
  <1>5. /\ 0 <= lo + k /\ hi + k + w <= len
        /\ w > 1 => lo = hi /\ AlignedTo(lo + k, w)
    BY <1>2, <1>3, <1>4 DEF RegionServes
  <1>6. w > 1 => d = lo
    BY <1>1, <1>4, <1>5
  <1>7. AlignedTo(d + k, w)
    <2>1. CASE w > 1
      BY <1>5, <1>6, <2>1
    <2>2. CASE ~ (w > 1)
      BY <2>2 DEF AlignedTo
    <2>. QED  BY <2>1, <2>2
  <1>. QED  BY <1>1, <1>4, <1>5, <1>7

LEMMA ConfigIs ==
    /\ Config.maps = MapTable
    /\ packet = NoBytes => Config.packet = NoLen
    /\ packet # NoBytes => Config.packet = Len(packet)
    /\ rodata = NoBytes => Config.data = NoLen
    /\ rodata # NoBytes => Config.data = Len(rodata)
  BY DEF Config, Len0

\* A pointer into the packet or the data, whatever its way there.
LEMMA PointerServed ==
    ASSUME PathInv, PayloadsFit, NEW r \in {"Packet", "Rodata"}, NEW v \in Word, NEW span \in Ranges,
           Contains(span, WrappingSub(v, Mem!Base(r))), NEW k \in Word, NEW w \in {1, 2, 4, 8},
           Mem!Contents(r) # NoBytes, RegionServes(Len(Mem!Contents(r)), span, k, w)
    PROVE  Mem!LoadFault(WrappingAdd(v, k), w) = "none"
  <1>1. Mem!Contents(r) \in Seq(Mem!Byte) /\ (r # "Rodata" => Len(Mem!Contents(r)) <= Gap)
    <2>1. CASE r = "Packet"
      BY <2>1, Staged DEF Mem!Contents
    <2>2. CASE r = "Rodata"
      BY <2>2, Staged DEF Mem!Contents
    <2>. QED  BY <2>1, <2>2
  <1>2. PICK len \in Nat : len = Len(Mem!Contents(r))
    BY <1>1
  <1>3. PICK base \in Nat : base = Mem!Base(r) /\ base <= IMax
    <2>1. PICK base : base = Mem!Base(r)
      OBVIOUS
    <2>2. base \in {2 * Gap, 5 * Gap}
      BY <2>1, Constants DEF Mem!Base
    <2>3. Gap \in Nat /\ IMax \in Nat /\ 6 * Gap <= IMax
      BY Layout
    <2>. QED  BY <2>1, <2>2, <2>3
  <1>4. PICK d \in Word : d = WrappingSub(v, base)
    BY <1>3, AddressIs
  <1>5. d + k \in Nat /\ d + k + w <= len /\ AlignedTo(d + k, w)
    BY <1>2, <1>3, <1>4, RegionOffset
  <1>6. PICK e \in Nat : e = d + k
    BY <1>5
  <1>7. Mem!LoadFault(base + e, w) = "none" /\ base + e \in Word
    BY <1>1, <1>2, <1>3, <1>5, <1>6, RegionServed
  <1>8. base + e = base + d + k
    BY <1>6, <1>3, WordsAreIntegers
  <1>9. WrappingAdd(v, k) = base + d + k
    BY <1>3, <1>4, <1>7, <1>8, AddressIs
  <1>. QED  BY <1>7, <1>8, <1>9

\* A pointer to a map value, with the value in place.
LEMMA ValueServed ==
    ASSUME PathInv, PayloadsFit, NEW fd \in DOMAIN MapTable, Len(mapScratch) = MapTable[fd].value,
           NEW k \in Word, NEW w \in {1, 2, 4, 8}, MapValueServes(Config, fd, k, w)
    PROVE  LET a == WrappingAdd(3 * Gap, k)
           IN  /\ Mem!Classify(a) = "MapScratch" /\ Mem!BoundsFault(a, w) = "none"
               /\ Mem!LoadFault(a, w) = "none"
  <1>1. /\ mapScratch # NoBytes /\ mapScratch \in Seq(Mem!Byte) /\ Mem!Contents("MapScratch") = mapScratch
        /\ Mem!Base("MapScratch") = 3 * Gap /\ 3 * Gap \in Word
    BY Staged, Constants DEF Mem!Contents, Mem!Base
  <1>2. /\ k \in Nat /\ k + w <= Len(mapScratch) /\ AlignedTo(k, w)
        /\ Len(mapScratch) <= Gap
    <2>1. 0 <= k /\ k + w <= MapTable[fd].value /\ AlignedTo(k, w)
      BY ConfigIs DEF MapValueServes
    <2>2. k \in Int
      BY WordsAreIntegers
    <2>3. MapTable[fd].value <= Gap
      BY DEF PayloadsFit
    <2>. QED  BY <2>1, <2>2, <2>3
  <1>3. PICK a : a = 3 * Gap + k
    OBVIOUS
  <1>4. Mem!Classify(a) = "MapScratch" /\ Mem!BoundsFault(a, w) = "none"
        /\ Mem!LoadFault(a, w) = "none" /\ a \in Word
    BY <1>1, <1>2, <1>3, RegionServed
  <1>5. WrappingAdd(3 * Gap, k) = a
    BY <1>1, <1>3, <1>4, Sums
  <1>. QED  BY <1>4, <1>5

\* The two pointers of the context, read back as words.
LEMMA ContextWord ==
    ASSUME PathInv, PayloadsFit, packet # NoBytes, NEW k \in {0, 4}, NEW value \in [0..7 -> Mem!Byte],
           value = [j \in 0..7 |-> IF j < 4 THEN xdpMd[k + j + 1] ELSE 0]
    PROVE  FromBytes(value) = IF k = 0 THEN 2 * Gap ELSE 2 * Gap + Len(packet)
  <1>1. xdpMd = Mem!Context(packet) /\ packet \in Seq(Mem!Byte) /\ Len(packet) <= Gap
    BY Staged
  <1>2. PICK a, b : a = 2 * Gap /\ b = 2 * Gap + Len(packet)
    OBVIOUS
  <1>3. a \in 0 .. UMax32 /\ b \in 0 .. UMax32
    <2>1. PICK len \in Nat : len = Len(packet) /\ len <= Gap
      BY <1>1
    <2>. QED  BY <1>2, <2>1, Layout
  <1>4. PICK la, lb : la = Mem!Le4(a) /\ lb = Mem!Le4(b) /\ xdpMd = la \o lb
    BY <1>1, <1>2, Constants DEF Mem!Context
  <1>5. PICK x1, x2, x3, x4, y1, y2, y3, y4 : la = <<x1, x2, x3, x4>> /\ lb = <<y1, y2, y3, y4>>
    BY <1>4 DEF Mem!Le4
  <1>6. /\ xdpMd[1] = x1 /\ xdpMd[2] = x2 /\ xdpMd[3] = x3 /\ xdpMd[4] = x4
        /\ xdpMd[5] = y1 /\ xdpMd[6] = y2 /\ xdpMd[7] = y3 /\ xdpMd[8] = y4
    BY <1>4, <1>5
  <1>7. /\ value[0] = xdpMd[k + 1] /\ value[1] = xdpMd[k + 2] /\ value[2] = xdpMd[k + 3]
        /\ value[3] = xdpMd[k + 4]
        /\ value[4] = 0 /\ value[5] = 0 /\ value[6] = 0 /\ value[7] = 0
    OBVIOUS
  <1>8. CASE k = 0
    <2>1. value[0] = la[1] /\ value[1] = la[2] /\ value[2] = la[3] /\ value[3] = la[4]
      BY <1>5, <1>6, <1>7, <1>8
    <2>2. IsFour(value, Mem!Le4(a))
      BY <1>4, <1>7, <2>1 DEF IsFour
    <2>3. FromBytes(value) = a
      BY <1>3, <2>2, FromFour
    <2>. QED  BY <1>2, <1>8, <2>3
  <1>9. CASE k = 4
    <2>1. value[0] = lb[1] /\ value[1] = lb[2] /\ value[2] = lb[3] /\ value[3] = lb[4]
      BY <1>5, <1>6, <1>7, <1>9
    <2>2. IsFour(value, Mem!Le4(b))
      BY <1>4, <1>7, <2>1 DEF IsFour
    <2>3. FromBytes(value) = b
      BY <1>3, <2>2, FromFour
    <2>. QED  BY <1>2, <1>9, <2>3
  <1>. QED  BY <1>8, <1>9

\* Types a step may write, for words of any kind.
LEMMA Simple ==
    /\ \A r \in Ranges : /\ Scalar(r) \in RegType /\ Scalar(r).type = "Scalar" /\ Scalar(r).range = r
                         /\ PacketPtr(r) \in RegType /\ PacketPtr(r).type = "PacketPtr" /\ PacketPtr(r).range = r
                         /\ DataPtr(r) \in RegType /\ DataPtr(r).type = "DataPtr" /\ DataPtr(r).range = r
    /\ \A k \in Word : Exact(k) \in Ranges /\ Contains(Exact(k), k)
    /\ Top \in Ranges
    /\ \A v, n : Stands(Scalar(Top), v, n)
    /\ \A v \in Word : \A n : Stands(Scalar(Exact(v)), v, n)
  <1>1. \A r \in Ranges : /\ Scalar(r) \in RegType /\ Scalar(r).type = "Scalar" /\ Scalar(r).range = r
                          /\ PacketPtr(r) \in RegType /\ PacketPtr(r).type = "PacketPtr" /\ PacketPtr(r).range = r
                          /\ DataPtr(r) \in RegType /\ DataPtr(r).type = "DataPtr" /\ DataPtr(r).range = r
    BY DEF Scalar, PacketPtr, DataPtr, RegType, Ranged
  <1>2. \A k \in Word : Exact(k) \in Ranges /\ Contains(Exact(k), k)
    <2>1. ASSUME NEW k \in Word PROVE Exact(k) \in Ranges /\ Contains(Exact(k), k)
      <3>1. k <= k
        BY WordsAreIntegers
      <3>. QED  BY <3>1, IntervalInRanges, IntervalContains DEF Exact
    <2>. QED  BY <2>1
  <1>3. Top \in Ranges
    BY DEF Ranges
  <1>4. \A v : Contains(Top, v)
    BY KindsDiffer
  <1>5. \A v, n : Stands(Scalar(Top), v, n)
    <2>1. Scalar(Top).type = "Scalar" /\ Scalar(Top).range = Top
      BY <1>1, <1>3
    <2>. QED  BY <1>4, <2>1 DEF Stands
  <1>6. \A v \in Word : \A n : Stands(Scalar(Exact(v)), v, n)
    <2>1. \A v \in Word : Scalar(Exact(v)).type = "Scalar" /\ Scalar(Exact(v)).range = Exact(v)
      BY <1>1, <1>2
    <2>. QED  BY <1>2, <2>1 DEF Stands
  <1>. QED  BY <1>1, <1>2, <1>3, <1>5, <1>6

\* Every load the verifier lets pass is served.
LEMMA LoadServed ==
    ASSUME PathInv, Running, PayloadsFit, NEW i \in Instruction, i.insn = "Load", LoadAccepts(Config, abs, i)
    PROVE  /\ Mem!LoadFault(Address(i), i.size) = "none"
           /\ abs.regs[i.base].type = "XdpMdPtr" =>
                /\ Address(i) = 4 * Gap + i.offset /\ Mem!Classify(Address(i)) = "XdpMd"
                /\ i.offset \in Nat /\ i.offset + i.size <= 8 /\ packet # NoBytes
  <1>1. /\ i.base \in 0..10 /\ i.offset \in Word /\ i.size \in {1, 2, 4, 8}
    BY Fields, Tied
  <1>2. PICK t, v, k, w : /\ t = abs.regs[i.base] /\ v = regs[i.base] /\ k = i.offset /\ w = i.size
                          /\ Address(i) = WrappingAdd(v, k)
    BY DEF Address
  <1>3. /\ t \in RegType /\ v \in Word /\ v \in Int /\ Stands(t, v, Len(mapScratch))
        /\ k \in Word /\ w \in {1, 2, 4, 8} /\ BitsTracked(abs.init) /\ k \in Int
    BY <1>1, <1>2, PathFacts, WordsAreIntegers DEF Stood
  <1>4. CASE t.type = "MapPtr"
    <2>1. MapValueServes(Config, t.fd, k, w)
      BY <1>2, <1>4 DEF LoadAccepts
    <2>2. t.fd \in DOMAIN MapTable
      BY <2>1, ConfigIs DEF MapValueServes
    <2>3. v = 3 * Gap /\ Len(mapScratch) = MapTable[t.fd].value
      BY <1>3, <1>4 DEF Stands
    <2>4. Mem!LoadFault(WrappingAdd(3 * Gap, k), w) = "none"
      BY <1>3, <2>1, <2>2, <2>3, ValueServed
    <2>. QED  BY <1>2, <1>4, <2>3, <2>4
  <1>5. CASE t.type = "XdpMdPtr"
    <2>1. ContextServes(Config, k, w)
      BY <1>2, <1>5 DEF LoadAccepts
    <2>2. packet # NoBytes /\ k \in Nat /\ k + w <= 8 /\ AlignedTo(k, w)
      BY <1>3, <2>1, ConfigIs, Tied DEF ContextServes
    <2>3. /\ xdpMd # NoBytes /\ xdpMd \in Seq(Mem!Byte) /\ Mem!Contents("XdpMd") = xdpMd
          /\ Len(xdpMd) = 8 /\ Mem!Base("XdpMd") = 4 * Gap /\ Len(xdpMd) <= Gap /\ 4 * Gap \in Word
      <3>1. xdpMd # NoBytes /\ xdpMd \in Seq(Mem!Byte) /\ Len(xdpMd) = 8
        BY <2>2, Staged
      <3>2. Mem!Contents("XdpMd") = xdpMd /\ Mem!Base("XdpMd") = 4 * Gap
        BY Constants DEF Mem!Contents, Mem!Base
      <3>3. 8 <= Gap
        BY Layout
      <3>4. 4 * Gap \in Word
        BY Constants
      <3>. QED  BY <3>1, <3>2, <3>3, <3>4
    <2>4. PICK a : a = Mem!Base("XdpMd") + k /\ a = 4 * Gap + k
      BY <2>3
    <2>5. Mem!Classify(a) = "XdpMd" /\ Mem!LoadFault(a, w) = "none" /\ a \in Word
      <3>1. k + w <= Len(xdpMd) /\ k \in Nat /\ AlignedTo(k, w) /\ w \in {1, 2, 4, 8}
        BY <1>3, <2>2, <2>3
      <3>2. /\ Mem!Contents("XdpMd") # NoBytes /\ Mem!Contents("XdpMd") \in Seq(Mem!Byte)
            /\ k + w <= Len(Mem!Contents("XdpMd")) /\ Len(Mem!Contents("XdpMd")) <= Gap
        BY <2>3, <3>1
      <3>. QED  BY <2>4, <3>1, <3>2, RegionServed
    <2>6. v = 4 * Gap
      BY <1>3, <1>5 DEF Stands
    <2>7. WrappingAdd(v, k) = a
      BY <1>3, <2>3, <2>4, <2>5, <2>6, Sums
    <2>. QED  BY <1>2, <2>2, <2>4, <2>5, <2>7
  <1>6. CASE t.type = "PacketPtr"
    <2>1. RegionServes(Config.packet, t.range, k, w) /\ Config.packet # NoLen
      BY <1>2, <1>6 DEF LoadAccepts, RegionServes
    <2>2. packet # NoBytes /\ Config.packet = Len(packet) /\ Mem!Contents("Packet") = packet
      BY <2>1, ConfigIs DEF Mem!Contents
    <2>3. t.range \in Ranges /\ Mem!Base("Packet") = 2 * Gap /\ Contains(t.range, WrappingSub(v, 2 * Gap))
      BY <1>3, <1>6, RegShape, RegKinds, Constants DEF Mem!Base, Stands
    <2>4. Mem!LoadFault(WrappingAdd(v, k), w) = "none"
      BY <1>3, <2>1, <2>2, <2>3, PointerServed
    <2>. QED  BY <1>2, <1>6, <2>4
  <1>7. CASE t.type = "DataPtr"
    <2>1. RegionServes(Config.data, t.range, k, w) /\ Config.data # NoLen
      BY <1>2, <1>7 DEF LoadAccepts, RegionServes
    <2>2. rodata # NoBytes /\ Config.data = Len(rodata) /\ Mem!Contents("Rodata") = rodata
      BY <2>1, ConfigIs DEF Mem!Contents
    <2>3. t.range \in Ranges /\ Mem!Base("Rodata") = 5 * Gap /\ Contains(t.range, WrappingSub(v, 5 * Gap))
      BY <1>3, <1>7, RegShape, RegKinds, Constants DEF Mem!Base, Stands
    <2>4. Mem!LoadFault(WrappingAdd(v, k), w) = "none"
      BY <1>3, <2>1, <2>2, <2>3, PointerServed
    <2>. QED  BY <1>2, <1>7, <2>4
  <1>8. CASE t.type = "StackPtr"
    <2>1. t.offset \in Int /\ v = Gap + t.offset
      BY <1>3, <1>8, RegShape, RegKinds DEF Ranged, Stands
    <2>2. PICK start \in Int : start = t.offset + k
      BY <1>3, <2>1
    <2>3. StackServes(start, w) /\ StackRangeInit(abs, FirstByte(start), LastByte(start, w))
      BY <1>2, <1>8, <2>2 DEF LoadAccepts
    <2>4. PICK a \in Int : a = Mem!StackBase + start
      BY Constants
    <2>5. a \in Word /\ Mem!LoadFault(a, w) = "none"
      BY <1>3, <2>3, <2>4, StackServed
    <2>6. v + k = a
      <3>1. PICK g \in Nat, o \in Int : g = Gap /\ o = t.offset /\ Mem!StackBase = g
        BY <2>1, Constants
      <3>. QED  BY <1>3, <2>1, <2>2, <2>4, <3>1
    <2>7. WrappingAdd(v, k) = a
      BY <1>3, <2>5, <2>6, Sums
    <2>. QED  BY <1>2, <1>8, <2>5, <2>7
  <1>9. t.type \in {"MapPtr", "XdpMdPtr", "PacketPtr", "DataPtr", "StackPtr"}
    BY <1>2 DEF LoadAccepts
  <1>. QED  BY <1>4, <1>5, <1>6, <1>7, <1>8, <1>9

\* What a load leaves in its register is what the verifier says of it.
LEMMA LoadValue ==
    ASSUME PathInv, Running, PayloadsFit, NEW i \in Instruction, i.insn = "Load", LoadAccepts(Config, abs, i),
           NEW t, t = LoadResult(Config, abs, i), NEW n
    PROVE  /\ t \in RegType /\ t.type \notin {"MapPtr", "MaybeMapPtr"}
           /\ Mem!Loading(Address(i), i.size).result = "loaded"
           /\ FromBytes(Mem!Loading(Address(i), i.size).value) \in Word
           /\ Stands(t, FromBytes(Mem!Loading(Address(i), i.size).value), n)
  <1>1. PICK a, w : a = Address(i) /\ w = i.size
    OBVIOUS
  <1>2. Mem!LoadFault(a, w) = "none" /\ a \in Int /\ w \in {1, 2, 4, 8} /\ BytesInv
    BY <1>1, LoadServed, Fields, AddressType DEF PathInv, MachineInv
  <1>3. PICK loaded : /\ loaded = Mem!Loading(a, w)
                      /\ loaded = Mem!Loaded([j \in 0..7 |-> IF j < w THEN Mem!ReadAt(Mem!Classify(a), a + j) ELSE 0])
    BY <1>2 DEF Mem!Loading
  <1>4. /\ loaded.result = "loaded"
        /\ loaded.value = [j \in 0..7 |-> IF j < w THEN Mem!ReadAt(Mem!Classify(a), a + j) ELSE 0]
    BY <1>3 DEF Mem!Loaded
  <1>5. loaded.value \in [0..7 -> Mem!Byte]
    BY <1>2, <1>3, <1>4, LoadedBytes
  <1>6. FromBytes(loaded.value) \in Word
    BY <1>5, FromBytesIsWord
  <1>7. CASE t = Scalar(Top)
    BY <1>1, <1>3, <1>4, <1>6, <1>7, Simple
  <1>8. CASE t # Scalar(Top)
    <2>1. abs.regs[i.base].type = "XdpMdPtr" /\ t = ContextValue(Config, i.offset, w)
      BY <1>1, <1>8 DEF LoadResult
    <2>2. w = 4 /\ i.offset \in {0, 4}
      BY <1>8, <2>1 DEF ContextValue
    <2>3. PICK k : k = i.offset
      OBVIOUS
    <2>4. a = 4 * Gap + k /\ Mem!Classify(a) = "XdpMd" /\ packet # NoBytes /\ k \in {0, 4}
      BY <1>1, <2>1, <2>2, <2>3, LoadServed
    <2>5. ASSUME NEW j \in 0..7, j < 4 PROVE Mem!ReadAt(Mem!Classify(a), a + j) = xdpMd[k + j + 1]
      <3>1. Mem!ReadAt("XdpMd", a + j) = xdpMd[((a + j) - 4 * Gap) + 1]
        <4>1. PICK z : z = a + j
          OBVIOUS
        <4>2. Mem!ReadAt("XdpMd", z) = xdpMd[z - Mem!XdpMdBase + 1]
          BY DEF Mem!ReadAt, Mem!Contents, Mem!Base
        <4>3. Mem!XdpMdBase = 4 * Gap
          BY Constants
        <4>. QED  BY <4>1, <4>2, <4>3
      <3>2. ((a + j) - 4 * Gap) + 1 = k + j + 1
        BY <2>4, Constants
      <3>. QED  BY <2>4, <3>1, <3>2
    <2>6. loaded.value = [j \in 0..7 |-> IF j < 4 THEN xdpMd[k + j + 1] ELSE 0]
      BY <1>4, <2>2, <2>5
    <2>7. FromBytes(loaded.value) = IF k = 0 THEN 2 * Gap ELSE 2 * Gap + Len(packet)
      BY <1>5, <2>4, <2>6, ContextWord
    <2>8. CASE k = 0
      <3>1. t = PacketPtr(Exact(0))
        BY <2>1, <2>2, <2>3, <2>8 DEF ContextValue
      <3>2. 0 \in Word /\ Exact(0) \in Ranges /\ Contains(Exact(0), 0)
        BY Simple, WordsAreIntegers DEF Word, IMin
      <3>3. t \in RegType /\ t.type = "PacketPtr" /\ t.range = Exact(0)
        BY <3>1, <3>2, Simple
      <3>4. WrappingSub(2 * Gap, 2 * Gap) = 0
        BY Constants, WordsAreIntegers DEF WrappingSub, Wrap, IMin
      <3>5. Stands(t, 2 * Gap, n)
        BY <3>2, <3>3, <3>4 DEF Stands
      <3>. QED  BY <1>1, <1>3, <1>4, <1>6, <2>7, <2>8, <3>3, <3>5
    <2>9. CASE k = 4
      <3>1. t = Scalar(Exact(2 * Gap + Len(packet)))
        BY <2>1, <2>2, <2>3, <2>4, <2>9, Tied, ConfigIs DEF ContextValue
      <3>2. FromBytes(loaded.value) = 2 * Gap + Len(packet)
        BY <2>7, <2>9
      <3>3. PICK u \in Word : u = FromBytes(loaded.value)
        BY <1>6
      <3>4. Exact(u) \in Ranges /\ t = Scalar(Exact(u))
        BY <3>1, <3>2, <3>3, Simple
      <3>5. t \in RegType /\ t.type = "Scalar" /\ Stands(t, u, n)
        BY <3>3, <3>4, Simple
      <3>. QED  BY <1>1, <1>3, <1>4, <3>3, <3>5
    <2>. QED  BY <2>4, <2>8, <2>9
  <1>. QED  BY <1>7, <1>8

LEMMA LoadKept ==
    ASSUME PathInv, Running, PayloadsFit, NEW i \in Instruction, i.insn = "Load", LoadAccepts(Config, abs, i),
           ExecLoad(i), abs' = SetReg(abs, i.dst, LoadResult(Config, abs, i))
    PROVE  Kept
  <1>1. PICK t : t = LoadResult(Config, abs, i)
    OBVIOUS
  <1>2. PICK loaded : loaded = Mem!Loading(Address(i), i.size)
    OBVIOUS
  <1>3. PICK v : v = FromBytes(loaded.value)
    OBVIOUS
  <1>4. /\ t \in RegType /\ t.type \notin {"MapPtr", "MaybeMapPtr"} /\ loaded.result = "loaded"
        /\ v \in Word /\ Stands(t, v, Len(mapScratch))
    BY <1>1, <1>2, <1>3, LoadValue
  <1>5. i.dst \in 0..10
    BY Fields, Tied
  <1>6. regs' = Written(i.dst, v) /\ ret' = Continue /\ UNCHANGED memory
    BY <1>2, <1>3, <1>4 DEF ExecLoad
  <1>. QED  BY <1>1, <1>4, <1>5, <1>6, OneRegister

LEMMA ConstantKept ==
    ASSUME PathInv, Running, NEW i \in Instruction, i.insn = "LoadImm64", ExecLoadImm64(i),
           abs' = SetReg(abs, i.dst, Constant(Config, i.imm))
    PROVE  Kept
  <1>1. i.dst \in 0..10 /\ i.imm \in Word
    BY Fields, Tied
  <1>2. PICK t, v : t = Constant(Config, i.imm) /\ v = i.imm /\ v \in Word /\ v \in Int
    BY <1>1, WordsAreIntegers
  <1>3. regs' = Written(i.dst, v) /\ ret' = Continue /\ UNCHANGED memory
    BY <1>2 DEF ExecLoadImm64
  <1>4. t \in RegType /\ t.type \notin {"MapPtr", "MaybeMapPtr"} /\ Stands(t, v, Len(mapScratch))
    <2>1. PICK off : off = v - 5 * Gap
      OBVIOUS
    <2>2. CASE Fits(off) /\ t = DataPtr(Exact(off))
      <3>1. off \in Word /\ WrappingSub(v, 5 * Gap) = off
        <4>1. off \in Int
          BY <1>2, <2>1, Constants
        <4>. QED  BY <2>1, <2>2, <4>1, WordsAreIntegers DEF Fits, WrappingSub, Wrap
      <3>2. Exact(off) \in Ranges /\ Contains(Exact(off), off)
        BY <3>1, Simple
      <3>3. t \in RegType /\ t.type = "DataPtr" /\ t.range = Exact(off)
        BY <2>2, <3>2, Simple
      <3>. QED  BY <3>1, <3>2, <3>3 DEF Stands
    <2>3. CASE t = Scalar(Exact(v))
      <3>1. Exact(v) \in Ranges
        BY <1>2, Simple
      <3>. QED  BY <1>2, <2>3, <3>1, Simple
    <2>. QED  BY <1>2, <2>1, <2>2, <2>3, Tied DEF Constant
  <1>. QED  BY <1>1, <1>2, <1>3, <1>4, OneRegister

-----------------------------------------------------------------------------
\* A store: the value of a map keeps its length, the bytes of the stack join
\* those that are written.
LEMMA StoreKept ==
    ASSUME PathInv, Running, PayloadsFit, NEW i \in Instruction, i.insn = "Store", StoreAccepts(Config, abs, i),
           ExecStore(i), abs' = AfterStore(abs, i)
    PROVE  Kept
  <1>1. i.base \in 0..10 /\ i.offset \in Word /\ i.size \in {1, 2, 4, 8}
    BY Fields, Tied
  <1>2. PICK t, v, k, w : /\ t = abs.regs[i.base] /\ v = regs[i.base] /\ k = i.offset /\ w = i.size
                          /\ Address(i) = WrappingAdd(v, k)
    BY DEF Address
  <1>3. /\ t \in RegType /\ v \in Word /\ v \in Int /\ Stands(t, v, Len(mapScratch))
        /\ k \in Word /\ k \in Int /\ w \in {1, 2, 4, 8}
        /\ Stood(abs.regs, regs, Len(mapScratch)) /\ BitsTracked(abs.init)
        /\ abs \in AbsState /\ abs.init \subseteq 0 .. (StackSize - 1) /\ OnlyLookupPoints(abs)
    BY <1>1, <1>2, PathFacts, WordsAreIntegers DEF Stood, PathInv
  <1>4. PICK a : a = Address(i)
    OBVIOUS
  <1>5. PICK b : Mem!Store(a, w, b)
    BY <1>2, <1>4 DEF ExecStore
  <1>6. regs' = regs
    BY DEF ExecStore
  <1>7. CASE t.type = "MapPtr"
    <2>1. MapValueServes(Config, t.fd, k, w)
      BY <1>2, <1>7, RegKinds DEF StoreAccepts
    <2>2. t.fd \in DOMAIN MapTable
      BY <2>1, ConfigIs DEF MapValueServes
    <2>3. v = 3 * Gap /\ Len(mapScratch) = MapTable[t.fd].value
      BY <1>3, <1>7 DEF Stands
    <2>4. Mem!Classify(a) = "MapScratch" /\ Mem!BoundsFault(a, w) = "none"
      BY <1>2, <1>3, <1>4, <2>1, <2>2, <2>3, ValueServed
    <2>5. /\ ret' = Continue /\ initialized' = initialized
          /\ DOMAIN mapScratch' = DOMAIN mapScratch
          /\ mapScratch' = [n \in DOMAIN mapScratch |-> mapScratch'[n]]
      BY <1>5, <2>4, Answers DEF Mem!Store, Mem!StoreFault, Mem!stack
    <2>6. Len(mapScratch') = Len(mapScratch)
      <3>1. PICK s : s \in Seq(Mem!Byte) /\ s = mapScratch
        BY Staged
      <3>2. DOMAIN s = 1 .. Len(s) /\ Len(s) \in Nat
        BY <3>1
      <3>3. mapScratch' = [n \in 1 .. Len(s) |-> mapScratch'[n]]
        BY <2>5, <3>1, <3>2
      <3>4. Len(mapScratch') = Len(s)
        BY <3>2, <3>3, LenIs
      <3>. QED  BY <3>1, <3>4
    <2>7. abs' = abs
      BY <1>2, <1>7 DEF AfterStore
    <2>8. ret'.result \notin MemErrors
      BY <2>5, Answers
    <2>. QED  BY <1>3, <1>6, <2>5, <2>6, <2>7, <2>8 DEF Kept, BitsTracked
  <1>8. CASE t.type = "StackPtr"
    <2>1. t.offset \in Int /\ v = Gap + t.offset
      BY <1>3, <1>8, RegShape, RegKinds DEF Ranged, Stands
    <2>2. PICK start \in Int : start = t.offset + k
      BY <1>3, <2>1
    <2>3. StackServes(start, w)
      BY <1>2, <1>8, <2>2 DEF StoreAccepts
    <2>4. PICK first \in Nat, at \in Int : first = FirstByte(start) /\ at = Mem!StackBase + start
      BY <1>3, <2>3, StackServed, Constants
    <2>5. /\ at \in Word /\ Mem!Classify(at) = "Stack" /\ Mem!BoundsFault(at, w) = "none"
          /\ at - Mem!Low = first /\ first + w <= StackSize /\ LastByte(start, w) = first + w - 1
      BY <1>3, <2>3, <2>4, StackServed
    <2>6. v + k = at
      <3>1. PICK g \in Nat, o \in Int : g = Gap /\ o = t.offset /\ Mem!StackBase = g
        BY <2>1, Constants
      <3>. QED  BY <1>3, <2>1, <2>2, <2>4, <3>1
    <2>7. a = at
      BY <1>2, <1>3, <1>4, <2>5, <2>6, Sums
    <2>8. /\ ret' = Continue /\ initialized' = Mem!Marked(first, w) /\ mapScratch' = mapScratch
      BY <1>5, <2>5, <2>7, Answers DEF Mem!Store, Mem!StoreFault, Mem!staged
    <2>9. PICK more : more = abs.init \cup (first .. (first + w - 1))
      OBVIOUS
    <2>10. PICK s, new : s = abs /\ new = abs' /\ new = [s EXCEPT !.init = more]
      BY <1>2, <1>8, <2>2, <2>4, <2>5, <2>9 DEF AfterStore, MarkStackRange
    <2>11. more \in SUBSET (0 .. (StackSize - 1))
      <3>1. PICK size \in Nat : size = StackSize
        BY Layout
      <3>2. first .. (first + w - 1) \subseteq 0 .. (size - 1)
        BY <1>3, <2>5, <3>1
      <3>. QED  BY <1>3, <2>9, <3>1, <3>2
    <2>12. new \in AbsState /\ new.init = more /\ new.regs = s.regs
      <3>1. s \in AbsState
        BY <1>3, <2>10
      <3>2. new \in AbsState
        BY <2>10, <2>11, <3>1, Marking
      <3>3. new.init = more /\ new.regs = s.regs
        BY <2>10, <3>1, Tied DEF AbsState
      <3>. QED  BY <3>2, <3>3
    <2>13. ASSUME NEW c \in more PROVE (c % 64) \in initialized'[c \div 64]
      <3>1. c \in 0 .. (StackSize - 1) /\ w \in 1..8 /\ first + w <= StackSize /\ StagedInv
        BY <1>3, <2>5, <2>11 DEF PathInv, MachineInv
      <3>2. (c % 64) \in initialized[c \div 64] \/ c \in first .. (first + w - 1)
        BY <1>3, <2>9, <2>13 DEF BitsTracked
      <3>. QED  BY <2>8, <3>1, <3>2, NowWritten
    <2>14. ret'.result \notin MemErrors
      BY <2>8, Answers
    <2>15. OnlyLookupPoints(abs')
      BY <1>3, <2>10, <2>12 DEF OnlyLookupPoints
    <2>. QED  BY <1>3, <1>6, <2>8, <2>10, <2>12, <2>13, <2>14, <2>15 DEF Kept
  <1>. QED  BY <1>2, <1>7, <1>8 DEF StoreAccepts

-----------------------------------------------------------------------------
(***************************************************************************)
(* Arithmetic                                                              *)
(***************************************************************************)

LEMMA OperandValue ==
    ASSUME PathInv, Running, NEW o \in Operand
    PROVE  /\ Value(o) \in Word /\ IsReg(o) \in BOOLEAN
           /\ IsReg(o) => o.reg \in 0..10 /\ Value(o) = regs[o.reg]
           /\ ~ IsReg(o) => o.imm \in Word /\ Value(o) = o.imm
  <1>1. RegsInv
    BY DEF PathInv, MachineInv
  <1>2. Value(o) \in Word
    BY <1>1, ValueType
  <1>3. CASE o \in [reg : Register]
    BY <1>2, <1>3, Tied DEF Value, IsReg
  <1>4. CASE o \in [imm : Word]
    <2>1. DOMAIN o = {"imm"} /\ o.imm \in Word
      BY <1>4
    <2>2. {"imm"} # {"reg"}
      OBVIOUS
    <2>. QED  BY <1>2, <2>1, <2>2 DEF Value, IsReg
  <1>. QED  BY <1>3, <1>4 DEF Operand

\* RegType::scalar_range is true of every register that has been written.
LEMMA ScalarHolds ==
    ASSUME NEW t \in RegType, NEW v \in Word, NEW n, Stands(t, v, n)
    PROVE  ScalarRange(t) \in Ranges /\ (t.type # "NotInit" => Contains(ScalarRange(t), v))
  <1>1. CASE t.type = "Scalar"
    BY <1>1, RegShape, RegKinds DEF Ranged, Stands, ScalarRange
  <1>2. CASE t.type = "NotInit"
    BY <1>2 DEF ScalarRange, Ranges
  <1>3. CASE t.type \notin {"Scalar", "NotInit"}
    BY <1>3, Simple, KindsDiffer DEF ScalarRange
  <1>. QED  BY <1>1, <1>2, <1>3

LEMMA OperandHolds ==
    ASSUME PathInv, Running, NEW o \in Operand, OperandInit(abs, o)
    PROVE  /\ OperandRange(abs, o) \in Ranges /\ Contains(OperandRange(abs, o), Value(o))
           /\ Known(abs, o) => KnownValue(abs, o) = Value(o)
  <1>1. CASE IsReg(o)
    <2>1. PICK t, v : t = abs.regs[o.reg] /\ v = regs[o.reg]
      OBVIOUS
    <2>2. t \in RegType /\ v \in Word /\ Value(o) = v /\ Stands(t, v, Len(mapScratch))
      BY <1>1, <2>1, OperandValue, PathFacts DEF Stood
    <2>3. t # NotInit
      BY <1>1, <2>1 DEF OperandInit, Initialized
    <2>4. t.type # "NotInit"
      BY <2>2, <2>3, RegShape, RegKinds DEF Ranged
    <2>5. OperandRange(abs, o) = ScalarRange(t)
      BY <1>1, <2>1 DEF OperandRange
    <2>6. OperandRange(abs, o) \in Ranges /\ Contains(OperandRange(abs, o), Value(o))
      BY <2>2, <2>4, <2>5, ScalarHolds
    <2>7. ASSUME Known(abs, o) PROVE KnownValue(abs, o) = Value(o)
      <3>1. t.type = "Scalar" /\ IsExact(t.range)
        BY <1>1, <2>1, <2>7 DEF Known
      <3>2. PICK span \in Ranges : span = t.range /\ ScalarRange(t) = span
        BY <2>2, <2>5, <2>6, <3>1 DEF ScalarRange
      <3>3. span.lo = v
        BY <2>2, <2>5, <2>6, <3>1, <3>2, ExactWord
      <3>. QED  BY <1>1, <2>1, <2>2, <3>2, <3>3 DEF KnownValue
    <2>. QED  BY <2>6, <2>7
  <1>2. CASE ~ IsReg(o)
    <2>1. o.imm \in Word /\ Value(o) = o.imm
      BY <1>2, OperandValue
    <2>. QED  BY <1>2, <2>1, Simple DEF OperandRange, KnownValue
  <1>. QED  BY <1>1, <1>2

\* ptr_alu_transfer: a pointer shifted by a known distance.
LEMMA ShiftHolds ==
    ASSUME NEW t \in RegType, NEW x \in Word, NEW k \in Word, NEW op \in {"Add", "Sub"}, NEW n, Stands(t, x, n),
           t.type \in {"PacketPtr", "DataPtr", "StackPtr"}, NEW new, new = Shifted(t, op, k)
    PROVE  /\ new \in RegType /\ new.type \notin {"MapPtr", "MaybeMapPtr"}
           /\ Stands(new, AluApply(op, x, k, 64), n)
  <1>1. PICK y : y = AluApply(op, x, k, 64) /\ y = IF op = "Add" THEN WrappingAdd(x, k) ELSE WrappingSub(x, k)
    BY AddResult, SubResult
  <1>2. x \in Int /\ k \in Int
    BY WordsAreIntegers
  <1>3. CASE t.type = "StackPtr"
    <2>1. PICK off \in Int : off = t.offset /\ x = Gap + off
      BY <1>3, RegShape, RegKinds DEF Ranged, Stands
    <2>2. PICK d \in Int : d = IF op = "Sub" THEN -k ELSE k
      BY <1>2
    <2>3. new = IF FitsI32(d) /\ FitsI32(off + d) THEN StackPtr(off + d) ELSE Scalar(Top)
      BY <1>3, <2>1, <2>2 DEF Shifted
    <2>4. CASE FitsI32(off + d) /\ new = StackPtr(off + d)
      <3>1. new \in RegType /\ new.type = "StackPtr" /\ new.offset = off + d
        BY <2>4 DEF StackPtr, RegType
      <3>2. PICK g \in Nat, u \in Nat, m \in Nat : g = Gap /\ u = UMax32 /\ m = IMax /\ 6 * g <= u /\ u <= m
        BY Layout
      <3>3. -(u + 1) <= 2 * (off + d) /\ 2 * (off + d) < u + 1
        BY <2>4, <3>2 DEF FitsI32
      <3>4. PICK z \in Int : z = g + off + d /\ -m - 1 <= z /\ z <= m
        BY <3>2, <3>3
      <3>5. z \in Word
        BY <3>2, <3>4, WordsAreIntegers DEF IMin
      <3>6. y = z
        <4>1. CASE op = "Add"
          <5>1. x + k = z
            BY <1>2, <2>1, <2>2, <3>2, <3>4, <4>1
          <5>. QED  BY <1>1, <3>5, <4>1, <5>1, Sums
        <4>2. CASE op = "Sub"
          <5>1. x - k = z
            BY <1>2, <2>1, <2>2, <3>2, <3>4, <4>2
          <5>2. IMin <= x - k /\ x - k <= IMax
            BY <3>5, <5>1, WordsAreIntegers
          <5>3. WrappingSub(x, k) = z
            BY <3>2, <3>4, <5>1, <5>2 DEF WrappingSub, Wrap, IMin
          <5>. QED  BY <1>1, <4>2, <5>3
        <4>. QED  BY <4>1, <4>2
      <3>7. y = Gap + new.offset
        BY <2>1, <3>1, <3>2, <3>4, <3>6
      <3>. QED  BY <1>1, <3>1, <3>7 DEF Stands
    <2>. QED  BY <2>3, <2>4, Simple
  <1>4. ASSUME NEW base \in Nat, base <= IMax, t.type \in {"PacketPtr", "DataPtr"},
               t.type = "PacketPtr" => base = 2 * Gap, t.type = "DataPtr" => base = 5 * Gap
        PROVE  /\ new \in RegType /\ new.type \notin {"MapPtr", "MaybeMapPtr"} /\ Stands(new, y, n)
    <2>1. PICK span \in Ranges : span = t.range /\ t = [type |-> t.type, range |-> span]
      BY <1>4, RegShape, RegKinds DEF Ranged
    <2>2. PICK d \in Word : d = WrappingSub(x, base) /\ Contains(span, d)
      <3>1. WrappingSub(x, base) \in Word
        BY <1>4, AddressIs
      <3>. QED  BY <1>4, <2>1, <3>1 DEF Stands
    <2>3. PICK e \in Ranges : e = Exact(k) /\ Contains(e, k)
      BY Simple
    <2>4. PICK moved : moved = IF op = "Add" THEN RangeAdd(span, e) ELSE RangeSub(span, e)
      OBVIOUS
    <2>5. moved \in Ranges
      BY <2>1, <2>3, <2>4, RangeAddTyped, RangeSubTyped
    <2>6. new = [type |-> t.type, range |-> moved]
      BY <1>4, <2>1, <2>3, <2>4 DEF Shifted
    <2>7. new \in RegType /\ new.type = t.type /\ new.range = moved
      BY <1>4, <2>5, <2>6 DEF RegType, Ranged
    <2>8. Contains(moved, WrappingSub(y, base))
      <3>1. WrappingAdd(d, k) = WrappingSub(WrappingAdd(x, k), base)
            /\ WrappingSub(d, k) = WrappingSub(WrappingSub(x, k), base)
        BY <1>4, <2>2, AddressIs
      <3>2. Contains(RangeAdd(span, e), WrappingAdd(d, k)) /\ Contains(RangeSub(span, e), WrappingSub(d, k))
        BY <2>1, <2>2, <2>3, ArithmeticSound
      <3>. QED  BY <1>1, <2>4, <3>1, <3>2
    <2>. QED  BY <1>4, <2>7, <2>8 DEF Stands
  <1>5. 2 * Gap \in Nat /\ 2 * Gap <= IMax /\ 5 * Gap \in Nat /\ 5 * Gap <= IMax
    <2>1. PICK g \in Nat, u \in Nat, m \in Nat : g = Gap /\ u = UMax32 /\ m = IMax /\ 6 * g <= u /\ u <= m
      BY Layout
    <2>. QED  BY <2>1
  <1>6. CASE t.type = "PacketPtr"
    BY <1>1, <1>4, <1>5, <1>6
  <1>7. CASE t.type = "DataPtr"
    BY <1>1, <1>4, <1>5, <1>7
  <1>. QED  BY <1>3, <1>1, <1>6, <1>7

\* alu_transfer: what an ALU instruction leaves in its register.
LEMMA AluHolds ==
    ASSUME PathInv, Running, NEW i \in Instruction, i.insn = "Alu", AluAccepts(abs, i), TracksAlu(i),
           NEW x \in Word, x = regs[i.dst], NEW y \in Word, y = Value(i.src), i.op \in EndOps => y \in EndWidths,
           NEW t, t = AluResult(abs, i), NEW n
    PROVE  /\ t \in RegType /\ t.type \notin {"MapPtr", "MaybeMapPtr"}
           /\ Stands(t, AluApply(i.op, x, y, i.width), n)
  <1>1. /\ i.width \in {32, 64} /\ i.op \in AluNames /\ i.dst \in 0..10 /\ i.src \in Operand
    BY Fields, Tied
  <1>2. PICK d : d = abs.regs[i.dst]
    OBVIOUS
  <1>3. d \in RegType /\ Stands(d, x, Len(mapScratch))
    BY <1>1, <1>2, PathFacts DEF Stood
  <1>4. OperandInit(abs, i.src)
    BY DEF AluAccepts
  <1>5. PICK b \in Ranges : b = OperandRange(abs, i.src) /\ Contains(b, y)
    BY <1>1, <1>4, OperandHolds
  <1>6. Known(abs, i.src) => KnownValue(abs, i.src) = y
    BY <1>1, <1>4, OperandHolds
  <1>7. CASE i.width = 64 /\ MovesPointer(abs, i)
    <2>1. i.op = "Mov" /\ IsReg(i.src)
      BY <1>7 DEF MovesPointer
    <2>2. PICK src \in 0..10 : src = i.src.reg /\ y = regs[src]
      BY <1>1, <2>1, OperandValue
    <2>3. t = abs.regs[src]
      BY <1>7, <2>2 DEF AluResult
    <2>4. t \in RegType /\ Stands(t, y, Len(mapScratch))
      BY <2>2, <2>3, PathFacts DEF Stood
    <2>5. t.type \in {"StackPtr", "PacketPtr", "DataPtr", "XdpMdPtr"}
      BY <1>7, <2>2, <2>3 DEF MovesPointer
    <2>6. Stands(t, y, n)
      BY <2>4, <2>5, StandsWithout
    <2>7. AluApply(i.op, x, y, i.width) = y
      BY <1>7, <2>1, MovResult
    <2>. QED  BY <2>4, <2>5, <2>6, <2>7
  <1>8. CASE i.width = 64 /\ ShiftsPointer(abs, i) /\ ~ MovesPointer(abs, i)
    <2>1. i.op \in {"Add", "Sub"} /\ Known(abs, i.src) /\ d.type \in {"PacketPtr", "DataPtr", "StackPtr"}
      BY <1>2, <1>8 DEF ShiftsPointer
    <2>2. t = Shifted(d, i.op, y)
      BY <1>2, <1>6, <1>8, <2>1 DEF AluResult
    <2>3. Stands(d, x, n)
      BY <1>3, <2>1, StandsWithout
    <2>. QED  BY <1>3, <1>8, <2>1, <2>2, <2>3, ShiftHolds
  <1>9. CASE ~ (i.width = 64 /\ MovesPointer(abs, i)) /\ ~ (i.width = 64 /\ ShiftsPointer(abs, i))
    <2>1. PICK a \in Ranges : a = ScalarRange(d) /\ (d.type # "NotInit" => Contains(a, x))
      BY <1>3, ScalarHolds
    <2>2. t = Scalar(RangeAlu(i.op, a, b, i.width))
      BY <1>2, <1>5, <1>9, <2>1 DEF AluResult
    <2>3. RangeAlu(i.op, a, b, i.width) \in Ranges
      BY <1>1, AluTyped
    <2>4. t \in RegType /\ t.type = "Scalar" /\ t.range = RangeAlu(i.op, a, b, i.width)
      BY <2>2, <2>3, Simple
    <2>5. PreciseAlu(i.op, a, b, i.width) /\ (i.op = "Mov" \/ d.type # "NotInit")
      BY <1>2, <1>5, <2>1 DEF TracksAlu, Holds
    <2>6. Contains(RangeAlu(i.op, a, b, i.width), AluApply(i.op, x, y, i.width))
      <3>1. CASE d.type # "NotInit"
        BY <1>1, <1>5, <2>1, <2>5, <3>1, AluSound
      <3>2. CASE i.op = "Mov"
        <4>1. \A c : RangeResult("Mov", c, b) = b /\ PreciseOp("Mov", c, b)
          BY DEF RangeResult, PreciseOp, EndOps
        <4>2. PreciseAlu("Mov", Top, b, i.width)
          BY <2>5, <3>2, <4>1 DEF PreciseAlu
        <4>3. RangeAlu("Mov", a, b, i.width) = RangeAlu("Mov", Top, b, i.width)
          BY <4>1 DEF RangeAlu
        <4>4. Top \in Ranges /\ Contains(Top, x)
          BY Simple, KindsDiffer
        <4>5. Contains(RangeAlu("Mov", Top, b, i.width), AluApply("Mov", x, y, i.width))
          <5>1. "Mov" \in AluNames \ EndOps
            BY DEF AluNames, EndOps
          <5>. QED  BY <1>1, <1>5, <4>2, <4>4, <5>1, AluSound
        <4>. QED  BY <3>2, <4>3, <4>5
      <3>. QED  BY <2>5, <3>1, <3>2
    <2>. QED  BY <2>4, <2>6 DEF Stands
  <1>. QED  BY <1>7, <1>8, <1>9

LEMMA AluKept ==
    ASSUME PathInv, Running, NEW i \in Instruction, i.insn = "Alu", AluAccepts(abs, i), TracksAlu(i),
           ExecAlu(i), abs' = SetReg(abs, i.dst, AluResult(abs, i))
    PROVE  Kept
  <1>1. i.dst \in 0..10 /\ i.src \in Operand
    BY Fields, Tied
  <1>2. PICK x \in Word, y \in Word : x = regs[i.dst] /\ y = Value(i.src)
    BY <1>1, PathFacts, OperandValue
  <1>3. RegsInv /\ SwapsKnownWidth(i)
    BY DEF PathInv, MachineInv, AluAccepts, SwapsKnownWidth
  <1>4. PICK v \in Word : v = AluApply(i.op, x, y, i.width) /\ (i.op \in EndOps => y \in EndWidths)
    BY <1>2, <1>3, AluTypes
  <1>5. PICK t : t = AluResult(abs, i)
    OBVIOUS
  <1>6. t \in RegType /\ t.type \notin {"MapPtr", "MaybeMapPtr"} /\ Stands(t, v, Len(mapScratch))
    BY <1>2, <1>4, <1>5, AluHolds
  <1>7. regs' = Written(i.dst, v) /\ ret' = Continue /\ UNCHANGED memory
    BY <1>2, <1>4 DEF ExecAlu
  <1>. QED  BY <1>1, <1>5, <1>6, <1>7, OneRegister

-----------------------------------------------------------------------------
(***************************************************************************)
(* Helper calls                                                            *)
(***************************************************************************)

\* check_map_ptr: a buffer on the stack whose bytes are written can be read.
LEMMA BufferCopied ==
    ASSUME PathInv, Running, NEW r \in 0..10, NEW n \in Nat, ReadableBuffer(abs, r, n)
    PROVE  Mem!Copying(regs[r], n).result = "copied"
  <1>1. CASE n = 0
    BY <1>1 DEF Mem!Copying, Mem!Copied
  <1>2. CASE n # 0
    <2>1. PICK t \in RegType, v \in Int : /\ t = abs.regs[r] /\ v = regs[r]
                                             /\ Stands(t, v, Len(mapScratch)) /\ BitsTracked(abs.init)
      BY PathFacts DEF Stood
    <2>2. /\ t.type = "StackPtr" /\ InStack(t.offset, n)
          /\ StackRangeInit(abs, FirstByte(t.offset), LastByte(t.offset, n))
      BY <2>1 DEF ReadableBuffer
    <2>3. PICK start \in Int : start = t.offset /\ v = Gap + start
      BY <2>1, <2>2, RegShape, RegKinds DEF Ranged, Stands
    <2>4. PICK a \in Int : a = Mem!StackBase + start /\ a = v
      BY <2>1, <2>3, Constants
    <2>5. PICK first \in Nat : first = FirstByte(start)
      BY <1>2, <2>2, <2>3, StackSpot
    <2>6. /\ Mem!Classify(a) = "Stack" /\ Mem!Inside("Stack", a, n) /\ a - Mem!Low = first
          /\ LastByte(start, n) = first + n - 1
      BY <1>2, <2>2, <2>3, <2>4, <2>5, StackSpot
    <2>7. first .. (first + n - 1) \subseteq abs.init
      BY <2>2, <2>3, <2>5, <2>6 DEF StackRangeInit
    <2>8. ASSUME NEW j \in 0 .. (n - 1) PROVE Mem!IsInit(first + j, 1)
      <3>1. PICK k \in Nat : k = first + j
        OBVIOUS
      <3>2. k .. (k + 1 - 1) \subseteq abs.init
        BY <2>7, <3>1
      <3>3. 1 \in 1..8
        OBVIOUS
      <3>. QED  BY <2>1, <3>1, <3>2, <3>3, SeenWritten
    <2>9. Mem!BulkServes(a, n)
      BY <2>6, <2>8 DEF Mem!BulkServes
    <2>. QED  BY <1>2, <2>1, <2>4, <2>9 DEF Mem!Copying, Mem!Copied
  <1>. QED  BY <1>1, <1>2

\* map_fd: the map that the verifier reads off r1 is the one the machine asks.
LEMMA MapAsked ==
    ASSUME PathInv, Running, NEW func \in MapHelpers, CallAccepts(Config, abs, func), FdKnown(abs)
    PROVE  /\ regs[1] = Fd(abs) /\ regs[1] \in DOMAIN MapTable
           /\ KeyAt(regs[1]).result = "copied"
           /\ func = 2 => ValueAt(regs[1]).result = "copied"
  <1>1. Reg(1) \in Operand /\ IsReg(Reg(1)) /\ Reg(1).reg = 1
    BY Tied DEF Reg, Operand, IsReg
  <1>2. abs.regs[1].type = "Scalar" /\ Fd(abs) \in DOMAIN MapTable
        /\ ReadableBuffer(abs, 2, MapTable[Fd(abs)].key)
        /\ (func = 2 => ReadableBuffer(abs, 3, MapTable[Fd(abs)].value))
    BY ConfigIs DEF CallAccepts
  <1>3. abs.regs[1] # NotInit
    BY <1>2, RegKinds
  <1>4. OperandInit(abs, Reg(1))
    BY <1>1, <1>3 DEF OperandInit, Initialized
  <1>5. Fd(abs) = Value(Reg(1)) /\ Value(Reg(1)) = regs[1]
    BY <1>1, <1>4, OperandHolds, OperandValue DEF Fd, FdKnown
  <1>6. PICK fd \in DOMAIN MapTable : fd = regs[1] /\ fd = Fd(abs)
    BY <1>2, <1>5
  <1>7. MapTable[fd].key \in Nat /\ MapTable[fd].value \in Nat
    BY Descriptors
  <1>8. KeyAt(fd).result = "copied"
    BY <1>2, <1>6, <1>7, BufferCopied DEF KeyAt
  <1>9. func = 2 => ValueAt(fd).result = "copied"
    BY <1>2, <1>6, <1>7, BufferCopied DEF ValueAt
  <1>. QED  BY <1>6, <1>8, <1>9

\* HelperSignature::effect
LEMMA CallResultTyped ==
    ASSUME PathInv, NEW func \in Helpers, NEW t, t = CallResult(abs, func),
           func \in MapHelpers => FdKnown(abs) /\ Fd(abs) \in DOMAIN MapTable
    PROVE  /\ t \in RegType
           /\ func = 1 => t = MaybeMapPtr(Fd(abs))
           /\ func \in {2, 3} => t = Scalar(Exact(0))
  <1>1. 0 \in Word /\ IMax \in Word /\ UMax32 \div 2 \in Word
    <2>1. PICK u \in Nat, m \in Nat : u = UMax32 /\ m = IMax /\ u <= m
      BY Layout
    <2>. QED  BY <2>1, WordsAreIntegers DEF IMin
  <1>2. Interval(0, IMax) \in Ranges /\ Interval(0, UMax32 \div 2) \in Ranges /\ Exact(0) \in Ranges
        /\ Top \in Ranges
    BY <1>1, IntervalInRanges, Simple
  <1>3. \A fd \in DOMAIN MapTable : MaybeMapPtr(fd) \in RegType
    BY Tied DEF MaybeMapPtr, RegType
  <1>. QED  BY <1>2, <1>3, Simple DEF CallResult, Helpers, MapHelpers

\* A call that the registry refuses ends the path.
LEMMA RefusedKept ==
    ASSUME PathInv, NEW t \in RegType,
           abs' = [abs EXCEPT !.regs[0] = t], ret' = Error("UnknownHelper")
    PROVE  Kept
  <1>1. abs \in AbsState /\ OnlyLookupPoints(abs)
    BY DEF PathInv
  <1>2. PICK s, new : s = abs /\ new = abs' /\ new = [s EXCEPT !.regs[0] = t]
    OBVIOUS
  <1>3. s \in AbsState /\ 0 \in 0..10
    BY <1>1, <1>2
  <1>4. new \in AbsState
    BY <1>2, <1>3, Setting
  <1>5. \A r \in 0..10 : new.regs[r] = IF r = 0 THEN t ELSE s.regs[r]
    BY <1>2, <1>3, Tied DEF AbsState
  <1>6. OnlyLookupPoints(abs')
    BY <1>1, <1>2, <1>5, Tied DEF OnlyLookupPoints
  <1>7. ret'.result = "UnknownHelper"
    BY Answers
  <1>8. ret' # Continue /\ ret'.result \notin MemErrors
    BY <1>7, Answers DEF MemErrors
  <1>. QED  BY <1>2, <1>4, <1>6, <1>8 DEF Kept

LEMMA ZeroIsWord == 0 \in Word
  BY WordsAreIntegers DEF IMin

LEMMA LookupKept ==
    ASSUME PathInv, Running, NEW fd \in DOMAIN MapTable, fd = regs[1], KeyAt(fd).result = "copied", MapLookup,
           abs' = [abs EXCEPT !.regs[0] = MaybeMapPtr(fd)]
    PROVE  Kept
  <1>1. PICK t \in RegType : t = MaybeMapPtr(fd) /\ t.type = "MaybeMapPtr" /\ t.fd = fd
    <2>1. PICK t : t = [type |-> "MaybeMapPtr", fd |-> fd]
      OBVIOUS
    <2>2. t \in RegType
      BY <2>1, Tied DEF RegType
    <2>. QED  BY <2>1, <2>2 DEF MaybeMapPtr
  <1>2. PICK key : key = KeyAt(fd).value /\ Hit(fd, key)
    BY DEF MapLookup
  <1>3. CASE key \in DOMAIN stores[fd]
    <2>1. /\ mapScratch' = stores[fd][key] /\ regs' = [regs EXCEPT ![0] = Mem!MapScratchBase]
          /\ ret' = Continue /\ UNCHANGED initialized
      BY <1>2, <1>3, Answers DEF Hit, Mem!SetMapScratch, Mem!stack
    <2>2. Len(stores[fd][key]) = MapTable[fd].value
      BY <1>3 DEF PathInv, MachineInv, MapsInv, Allowed
    <2>3. PICK v \in Word : v = Mem!MapScratchBase /\ v = 3 * Gap
      BY Constants
    <2>4. Stands(t, v, Len(mapScratch'))
      BY <1>1, <2>1, <2>2, <2>3 DEF Stands
    <2>. QED  BY <1>1, <2>1, <2>3, <2>4, Returned
  <1>4. CASE key \notin DOMAIN stores[fd]
    <2>1. regs' = [regs EXCEPT ![0] = 0] /\ ret' = Continue /\ UNCHANGED initialized
      BY <1>2, <1>4 DEF Hit, Returns, memory
    <2>2. 0 \in Word /\ Stands(t, 0, Len(mapScratch'))
      BY <1>1, ZeroIsWord DEF Stands
    <2>. QED  BY <1>1, <2>1, <2>2, Returned
  <1>. QED  BY <1>3, <1>4

LEMMA CallKept ==
    ASSUME PathInv, Running, NEW i \in Instruction, i.insn = "Call", CallAccepts(Config, abs, i.func),
           TracksCall(i), ExecCall(i), abs' = [abs EXCEPT !.regs[0] = CallResult(abs, i.func)]
    PROVE  Kept
  <1>1. PICK func, t : func = i.func /\ func \in Helpers /\ t = CallResult(abs, func)
    BY DEF CallAccepts
  <1>2. func \in MapHelpers =>
          /\ FdKnown(abs) /\ regs[1] = Fd(abs) /\ Fd(abs) \in DOMAIN MapTable
          /\ KeyAt(regs[1]).result = "copied"
          /\ func = 2 => ValueAt(regs[1]).result = "copied"
    <2>1. func \in MapHelpers => FdKnown(abs)
      BY <1>1 DEF TracksCall
    <2>. QED  BY <1>1, <2>1, MapAsked
  <1>3. /\ t \in RegType
        /\ func = 1 => t = MaybeMapPtr(Fd(abs))
        /\ func \in {2, 3} => t = Scalar(Exact(0))
    BY <1>1, <1>2, CallResultTyped
  <1>4. CASE func \notin Registered /\ Fails(Error("UnknownHelper"))
    BY <1>1, <1>3, <1>4, RefusedKept DEF Fails
  <1>5. CASE func = 1 /\ MapLookup
    <2>1. PICK fd \in DOMAIN MapTable : fd = regs[1] /\ fd = Fd(abs)
      BY <1>2, <1>5 DEF MapHelpers
    <2>. QED  BY <1>1, <1>2, <1>3, <1>5, <2>1, LookupKept DEF MapHelpers
  <1>6. ASSUME func \in {2, 3}, UNCHANGED memory, ret' = Continue, NEW v, regs' = [regs EXCEPT ![0] = v]
        PROVE  Kept
    <2>1. regs \in [0..10 -> Word]
      BY Tied DEF PathInv, MachineInv, RegsInv
    <2>2. regs'[0] = 0
      BY <1>1, <1>6 DEF TracksCall, MapHelpers
    <2>3. v = 0 /\ 0 \in Word
      BY <1>6, <2>1, <2>2, ZeroIsWord
    <2>4. Stands(t, 0, Len(mapScratch'))
      BY <1>3, <1>6, <2>3, Simple
    <2>5. UNCHANGED initialized
      BY <1>6 DEF memory
    <2>. QED  BY <1>1, <1>3, <1>6, <2>3, <2>4, <2>5, Returned
  <1>7. CASE func = 2 /\ MapUpdate
    <2>1. UNCHANGED memory /\ (Returns(0) \/ Returns(-1))
      BY <1>2, <1>7 DEF MapUpdate, MapHelpers
    <2>. QED  BY <1>6, <1>7, <2>1 DEF Returns
  <1>8. CASE func = 3 /\ MapDelete
    <2>1. UNCHANGED memory /\ (Returns(0) \/ Returns(-1))
      BY <1>2, <1>8 DEF MapDelete, MapHelpers
    <2>. QED  BY <1>6, <1>8, <2>1 DEF Returns
  <1>. QED  BY <1>1, <1>4, <1>5, <1>7, <1>8 DEF ExecCall

-----------------------------------------------------------------------------
(***************************************************************************)
(* Conditional jumps                                                       *)
(***************************************************************************)

\* An edge narrows one register, and the machine stays where it is.
LEMMA Narrowed ==
    ASSUME PathInv, Running, NEW p \in 0..10, NEW t \in RegType, Stands(t, regs[p], Len(mapScratch)),
           t.type \in {"MapPtr", "MaybeMapPtr"} => abs.regs[p].type \in {"MapPtr", "MaybeMapPtr"},
           abs' = [abs EXCEPT !.regs[p] = t], UNCHANGED <<regs, memory>>, ret' = Continue
    PROVE  Kept
  <1>1. /\ Stood(abs.regs, regs, Len(mapScratch)) /\ BitsTracked(abs.init)
        /\ abs \in AbsState /\ OnlyLookupPoints(abs)
    BY PathFacts DEF PathInv
  <1>2. UNCHANGED <<regs, initialized, mapScratch>> /\ ret'.result \notin MemErrors
    BY Answers DEF memory
  <1>3. PICK s, new : s = abs /\ new = abs' /\ new = [s EXCEPT !.regs[p] = t]
    OBVIOUS
  <1>4. s \in AbsState
    BY <1>1, <1>3
  <1>5. new \in AbsState
    BY <1>3, <1>4, Setting
  <1>6. new.init = s.init
    BY <1>3, <1>4, Setting
  <1>7. \A r \in 0..10 : new.regs[r] = IF r = p THEN t ELSE s.regs[r]
    BY <1>3, <1>4, Tied DEF AbsState
  <1>8. Stood(abs'.regs, regs', Len(mapScratch'))
    BY <1>1, <1>2, <1>3, <1>7 DEF Stood
  <1>9. OnlyLookupPoints(abs')
    BY <1>1, <1>3, <1>7, Tied DEF OnlyLookupPoints
  <1>. QED  BY <1>1, <1>2, <1>3, <1>5, <1>6, <1>8, <1>9 DEF Kept, BitsTracked

LEMMA NullCheck ==
    ASSUME NEW t, t.type = "MaybeMapPtr", NEW taken \in BOOLEAN
    PROVE  /\ RefineReg(t, "Eq", 0, taken) = IF taken THEN Scalar(Exact(0)) ELSE MapPtr(t.fd)
           /\ RefineReg(t, "Ne", 0, taken) = IF taken THEN MapPtr(t.fd) ELSE Scalar(Exact(0))
  <1>1. t.type # "MapPtr" /\ "Ne" # "Eq"
    OBVIOUS
  <1>. QED  BY <1>1 DEF RefineReg

\* refine_reg
LEMMA RefineRegHolds ==
    ASSUME NEW t \in RegType, t.type # "NotInit", NEW v \in Word, NEW n, Stands(t, v, n),
           NEW op \in JumpNames \ {"Always"}, NEW k \in Word, NEW width \in {32, 64},
           PreciseJump(op, ScalarRange(t), k, width),
           NEW new, new = RefineReg(t, op, k, JumpTakenW(op, v, k, width))
    PROVE  /\ new \in RegType /\ Stands(new, v, n)
           /\ new.type \in {"MapPtr", "MaybeMapPtr"} => t.type \in {"MapPtr", "MaybeMapPtr"}
  <1>1. PICK taken : taken = JumpTakenW(op, v, k, width)
    OBVIOUS
  <1>2. CASE t.type = "MaybeMapPtr" /\ op \in {"Eq", "Ne"} /\ k = 0
    <2>1. Top \in Ranges /\ Contains(Top, v) /\ ScalarRange(t) = Top /\ op \in Comparisons
      BY <1>2, Simple, KindsDiffer DEF ScalarRange, Comparisons
    <2>2. taken = JumpTaken(op, v, 0) /\ taken \in BOOLEAN
      BY <1>1, <1>2, <2>1, JumpAgrees
    <2>3. new = IF v = 0 THEN Scalar(Exact(0)) ELSE MapPtr(t.fd)
      <3>1. new = IF op = "Eq"
                  THEN (IF taken THEN Scalar(Exact(0)) ELSE MapPtr(t.fd))
                  ELSE (IF taken THEN MapPtr(t.fd) ELSE Scalar(Exact(0)))
        BY <1>1, <1>2, <2>2, NullCheck
      <3>. QED  BY <1>2, <2>2, <3>1 DEF JumpTaken
    <2>4. CASE v = 0
      <3>1. new = Scalar(Exact(v))
        BY <2>3, <2>4
      <3>2. Exact(v) \in Ranges
        BY Simple
      <3>. QED  BY <3>1, <3>2, Simple
    <2>5. CASE v # 0
      <3>1. new = [type |-> "MapPtr", fd |-> t.fd]
        BY <2>3, <2>5 DEF MapPtr
      <3>2. t.fd \in Fds
        BY <1>2, RegShape, RegKinds DEF Ranged
      <3>3. new \in RegType
        BY <3>1, <3>2 DEF RegType
      <3>4. v = 3 * Gap /\ n = MapTable[t.fd].value
        BY <1>2, <2>5 DEF Stands
      <3>5. new.type = "MapPtr" /\ new.fd = t.fd
        BY <3>1
      <3>. QED  BY <1>2, <3>3, <3>4, <3>5 DEF Stands
    <2>. QED  BY <2>4, <2>5
  <1>3. CASE new = t
    BY <1>3
  <1>4. CASE t.type \notin {"MapPtr", "MaybeMapPtr"}
    <2>1. PICK r \in Ranges : r = ScalarRange(t) /\ Contains(r, v)
      BY ScalarHolds
    <2>2. new = Scalar(Refine(r, op, k, taken))
      BY <1>1, <1>4, <2>1 DEF RefineReg
    <2>3. Refine(r, op, k, taken) \in Ranges
      BY <1>1, RefineTyped
    <2>4. Contains(Refine(r, op, k, taken), v)
      BY <1>1, <2>1, BranchSound
    <2>5. new \in RegType /\ new.type = "Scalar" /\ new.range = Refine(r, op, k, taken)
      BY <2>2, <2>3, Simple
    <2>. QED  BY <2>4, <2>5 DEF Stands
  <1>. QED  BY <1>2, <1>3, <1>4 DEF RefineReg

\* A comparison of addresses that are not negative is one of their distances
\* from the packet.
SignedOf(op) ==
    CASE op = "Lt" -> "Slt" [] op = "Le" -> "Sle" [] op = "Gt" -> "Sgt" [] op = "Ge" -> "Sge"
      [] OTHER -> op

LEMMA SignedRefine ==
    ASSUME NEW r, NEW op \in Comparisons, NEW k, NEW b
    PROVE  /\ Refine(r, op, k, b) = Refine(r, SignedOf(op), k, b)
           /\ SignedOf(op) \in Comparisons \ UnsignedOps
  <1>1. SignedOf(op) \in Comparisons \ UnsignedOps
    BY DEF SignedOf, Comparisons, UnsignedOps
  <1>2. PICK c, e : c = Canonical(op, b) /\ e = Canonical(SignedOf(op), b)
    OBVIOUS
  <1>3. CASE op = "Lt"
    <2>1. c.op = "Lt" /\ e.op = "Slt" /\ c.taken = e.taken
      BY <1>2, <1>3 DEF SignedOf, Canonical, Complement
    <2>. QED  BY <1>1, <1>2, <2>1 DEF Refine
  <1>4. CASE op = "Le"
    <2>1. c.op = "Le" /\ e.op = "Sle" /\ c.taken = e.taken
      BY <1>2, <1>4 DEF SignedOf, Canonical, Complement
    <2>. QED  BY <1>1, <1>2, <2>1 DEF Refine
  <1>5. CASE op = "Gt"
    <2>1. c.op = "Le" /\ e.op = "Sle" /\ c.taken = e.taken
      BY <1>2, <1>5 DEF SignedOf, Canonical, Complement
    <2>. QED  BY <1>1, <1>2, <2>1 DEF Refine
  <1>6. CASE op = "Ge"
    <2>1. c.op = "Lt" /\ e.op = "Slt" /\ c.taken = e.taken
      BY <1>2, <1>6 DEF SignedOf, Canonical, Complement
    <2>. QED  BY <1>1, <1>2, <2>1 DEF Refine
  <1>7. CASE op \notin UnsignedOps
    <2>1. SignedOf(op) = op
      BY <1>7 DEF SignedOf, UnsignedOps
    <2>. QED  BY <1>1, <2>1
  <1>. QED  BY <1>3, <1>4, <1>5, <1>6, <1>7 DEF UnsignedOps

LEMMA SignedTaken ==
    ASSUME NEW op \in Comparisons, NEW v \in Word, NEW u \in Word, op \in UnsignedOps => v >= 0 /\ u >= 0
    PROVE  /\ JumpTakenW(op, v, u, 64) = JumpTaken(SignedOf(op), v, u)
           /\ JumpTaken(SignedOf(op), v, u) \in BOOLEAN
  <1>1. Exact(v) \in Ranges /\ Contains(Exact(v), v)
    BY Simple
  <1>2. PreciseJump(op, Exact(v), u, 64)
    BY DEF PreciseJump, NonNegative, Exact, Interval, IsInterval
  <1>3. JumpTakenW(op, v, u, 64) = JumpTaken(op, v, u) /\ JumpTaken(op, v, u) \in BOOLEAN
    BY <1>1, <1>2, JumpAgrees
  <1>4. v \in Int /\ u \in Int
    BY WordsAreIntegers
  <1>5. op \in UnsignedOps => Unsigned(v) = v /\ Unsigned(u) = u
    BY <1>4 DEF Unsigned
  <1>6. JumpTaken(op, v, u) = JumpTaken(SignedOf(op), v, u) /\ JumpTaken(SignedOf(op), v, u) \in BOOLEAN
    <2>1. CASE op = "Lt"
      BY <1>4, <1>5, <2>1 DEF JumpTaken, SignedOf, UnsignedOps
    <2>2. CASE op = "Le"
      BY <1>4, <1>5, <2>2 DEF JumpTaken, SignedOf, UnsignedOps
    <2>3. CASE op = "Gt"
      BY <1>4, <1>5, <2>3 DEF JumpTaken, SignedOf, UnsignedOps
    <2>4. CASE op = "Ge"
      BY <1>4, <1>5, <2>4 DEF JumpTaken, SignedOf, UnsignedOps
    <2>5. CASE op \in {"Eq", "Ne", "Slt", "Sle", "Sgt", "Sge"}
      <3>1. SignedOf(op) = op
        BY <2>5 DEF SignedOf
      <3>. QED  BY <1>3, <3>1
    <2>. QED  BY <2>1, <2>2, <2>3, <2>4, <2>5 DEF Comparisons, UnsignedOps
  <1>. QED  BY <1>3, <1>6

\* refine_packet_edge, for a pointer that is where its offset says.
LEMMA EdgeSound ==
    ASSUME NEW r \in Ranges, NEW op \in JumpNames \ {"Always"}, NEW v \in Word, NEW u \in Word,
           NEW base \in Int, v - base \in Word, u - base \in Word,
           op \in UnsignedOps => v >= 0 /\ u >= 0, Contains(r, v - base)
    PROVE  Contains(Refine(r, op, u - base, JumpTakenW(op, v, u, 64)), v - base)
  <1>1. CASE op \in Comparisons
    <2>1. PICK taken \in BOOLEAN : taken = JumpTakenW(op, v, u, 64) /\ taken = JumpTaken(SignedOf(op), v, u)
      BY <1>1, SignedTaken
    <2>2. PICK d \in Word, k \in Word : d = v - base /\ k = u - base
      OBVIOUS
    <2>3. PICK sop : sop = SignedOf(op) /\ sop \in Comparisons \ UnsignedOps
      BY <1>1, SignedRefine
    <2>4. JumpTaken(sop, d, k) = taken
      <3>1. v \in Int /\ u \in Int
        BY WordsAreIntegers
      <3>2. (d = k <=> v = u) /\ (d < k <=> v < u) /\ (d <= k <=> v <= u)
            /\ (d > k <=> v > u) /\ (d >= k <=> v >= u)
        BY <2>2, <3>1
      <3>3. sop \in {"Eq", "Ne", "Slt", "Sle", "Sgt", "Sge"}
        BY <2>3 DEF Comparisons
      <3>. QED  BY <2>1, <2>3, <3>2, <3>3 DEF JumpTaken
    <2>5. Contains(Refine(r, sop, k, taken), d)
      BY <2>2, <2>3, <2>4, RefinementSound
    <2>. QED  BY <1>1, <2>1, <2>2, <2>3, <2>5, SignedRefine
  <1>2. CASE op \notin Comparisons
    <2>1. op \in {"Set", "Call", "Exit"}
      BY <1>2 DEF JumpNames, NeverTaken
    <2>2. \A k, b : Refine(r, op, k, b) = r
      BY <2>1 DEF Refine, Canonical, Complement
    <2>. QED  BY <2>2
  <1>. QED  BY <1>1, <1>2

\* swap_op
LEMMA MirrorTaken ==
    ASSUME NEW op \in DOMAIN Mirror, NEW v \in Word, NEW u \in Word, op \in UnsignedOps => v >= 0 /\ u >= 0
    PROVE  /\ Mirror[op] \in Comparisons /\ (Mirror[op] \in UnsignedOps <=> op \in UnsignedOps)
           /\ JumpTakenW(op, u, v, 64) = JumpTakenW(Mirror[op], v, u, 64)
  <1>1. PICK rev : rev = Mirror[op]
    OBVIOUS
  <1>2. <<op, rev>> \in {<<"Eq", "Eq">>, <<"Ne", "Ne">>, <<"Gt", "Lt">>, <<"Ge", "Le">>, <<"Lt", "Gt">>,
                          <<"Le", "Ge">>, <<"Sgt", "Slt">>, <<"Sge", "Sle">>, <<"Slt", "Sgt">>, <<"Sle", "Sge">>}
    BY <1>1 DEF Mirror
  <1>3. op \in Comparisons /\ rev \in Comparisons /\ (rev \in UnsignedOps <=> op \in UnsignedOps)
    BY <1>2 DEF Comparisons, UnsignedOps
  <1>4. JumpTakenW(op, u, v, 64) = JumpTaken(SignedOf(op), u, v)
        /\ JumpTakenW(rev, v, u, 64) = JumpTaken(SignedOf(rev), v, u)
    BY <1>3, SignedTaken
  <1>5. v \in Int /\ u \in Int
    BY WordsAreIntegers
  <1>6. JumpTaken(SignedOf(op), u, v) = JumpTaken(SignedOf(rev), v, u)
    BY <1>2, <1>5 DEF SignedOf, JumpTaken
  <1>. QED  BY <1>1, <1>3, <1>4, <1>6

\* refine_packet_edge, the pointer p compared with the register k.
LEMMA EdgeKept ==
    ASSUME PathInv, Running, NEW p \in 0..10, NEW k \in 0..10, NEW op \in JumpNames \ {"Always"},
           BoundsPacket(abs, p, k),
           \A r \in {p, k} : Fits(regs[r] - PacketStart) /\ (op \in UnsignedOps => regs[r] >= 0),
           abs' = RefinedPacket(abs, p, op, k, JumpTakenW(op, regs[p], regs[k], 64)),
           UNCHANGED <<regs, memory>>, ret' = Continue
    PROVE  Kept
  <1>1. PICK v \in Word, u \in Word, t \in RegType :
           /\ v = regs[p] /\ u = regs[k] /\ t = abs.regs[p] /\ Stands(t, v, Len(mapScratch))
    BY PathFacts DEF Stood
  <1>2. t.type = "PacketPtr" /\ abs.regs[k].type = "Scalar" /\ IsExact(abs.regs[k].range)
    BY <1>1 DEF BoundsPacket
  <1>3. PICK span \in Ranges : /\ span = t.range /\ t = [type |-> "PacketPtr", range |-> span]
                               /\ Contains(span, WrappingSub(v, 2 * Gap))
    BY <1>1, <1>2, RegShape, RegKinds DEF Ranged, Stands
  <1>4. abs.regs[k].range.lo = u
    <2>1. PICK s \in RegType : s = abs.regs[k] /\ Stands(s, u, Len(mapScratch))
      BY <1>1, PathFacts DEF Stood
    <2>2. s.range \in Ranges /\ Contains(s.range, u) /\ IsExact(s.range)
      BY <1>2, <2>1, RegShape, RegKinds DEF Ranged, Stands
    <2>. QED  BY <2>1, <2>2, ExactWord
  <1>5. PICK base \in Int : base = 2 * Gap /\ base = PacketStart
    BY Tied, Constants
  <1>6. /\ v - base \in Word /\ u - base \in Word /\ WrappingSub(v, base) = v - base
        /\ op \in UnsignedOps => v >= 0 /\ u >= 0
    <2>1. Fits(v - base) /\ Fits(u - base) /\ (op \in UnsignedOps => v >= 0 /\ u >= 0)
      BY <1>1, <1>5
    <2>2. v - base \in Int /\ u - base \in Int /\ IMin \in Int /\ IMax \in Int
      BY WordsAreIntegers
    <2>. QED  BY <2>1, <2>2, WordsAreIntegers DEF Fits, WrappingSub, Wrap
  <1>7. PICK new : new = Refine(span, op, u - base, JumpTakenW(op, v, u, 64))
    OBVIOUS
  <1>8. new \in Ranges /\ Contains(new, v - base)
    BY <1>3, <1>5, <1>6, <1>7, EdgeSound, RefineTyped
  <1>9. PacketPtr(new) \in RegType /\ PacketPtr(new).type = "PacketPtr" /\ PacketPtr(new).range = new
    BY <1>8, Simple
  <1>10. Stands(PacketPtr(new), v, Len(mapScratch))
    BY <1>5, <1>6, <1>8, <1>9 DEF Stands
  <1>11. abs' = [abs EXCEPT !.regs[p] = PacketPtr(new)]
    <2>1. abs' = [abs EXCEPT !.regs[p].range = new]
      <3>1. abs' = [abs EXCEPT !.regs[p].range = Refine(@, op, u - base, JumpTakenW(op, v, u, 64))]
        BY <1>1, <1>4, <1>5 DEF RefinedPacket
      <3>. QED  BY <1>1, <1>3, <1>7, <3>1
    <2>2. [abs.regs[p] EXCEPT !.range = new] = PacketPtr(new)
      BY <1>1, <1>3 DEF PacketPtr
    <2>. QED  BY <2>1, <2>2
  <1>. QED  BY <1>1, <1>9, <1>10, <1>11, Narrowed

LEMMA JumpFields ==
    ASSUME NEW i \in Instruction, i.insn = "Jump"
    PROVE  i.op \in JumpNames /\ i.dst \in Register /\ i.src \in Operand /\ i.width \in {32, 64}
  BY DEF Instruction

LEMMA ComparisonsTold ==
    ASSUME NEW cmp \in Comparisons, NEW v \in Int, NEW k \in Int
    PROVE  JumpTaken(cmp, v, k) \in BOOLEAN
  <1>1. \A a \in Int, b \in Int : (a < b) \in BOOLEAN /\ (a <= b) \in BOOLEAN
                                 /\ (a > b) \in BOOLEAN /\ (a >= b) \in BOOLEAN
    OBVIOUS
  <1>2. CASE cmp \in {"Eq", "Ne"}
    BY <1>2 DEF JumpTaken
  <1>3. CASE cmp \in {"Slt", "Sle", "Sgt", "Sge"}
    BY <1>1, <1>3 DEF JumpTaken
  <1>4. CASE cmp \in UnsignedOps
    <2>1. IMax \in Int
      BY Layout
    <2>2. PICK a \in Int, b \in Int : a = Unsigned(v) /\ b = Unsigned(k)
      BY <2>1 DEF Unsigned
    <2>. QED  BY <1>1, <1>4, <2>2 DEF JumpTaken, UnsignedOps
  <1>. QED  BY <1>2, <1>3, <1>4 DEF Comparisons

LEMMA JumpsTold ==
    ASSUME NEW op \in JumpNames \ {"Always"}, NEW x \in Word, NEW y \in Word, NEW width \in {32, 64}
    PROVE  JumpTakenW(op, x, y, width) \in BOOLEAN
  <1>1. PICK w : w = (IF width = 64 THEN WordBits ELSE HalfBits)
    OBVIOUS
  <1>2. 2 ^ w \in Nat \ {0}
    BY <1>1, WordPowers
  <1>3. PICK p \in Int, q \in Int : p = Unsigned(x) /\ q = Unsigned(y)
    BY UnsignedOfWord
  <1>4. PICK l \in Int, r \in Int : l = p % 2 ^ w /\ r = q % 2 ^ w
    <2>1. PICK m \in Nat \ {0} : m = 2 ^ w
      BY <1>2
    <2>2. p % m \in Int /\ q % m \in Int
      OBVIOUS
    <2>. QED  BY <2>1, <2>2
  <1>5. PICK sl \in Int, sr \in Int : sl = Signed(l, w) /\ sr = Signed(r, w)
    BY <1>2 DEF Signed
  <1>11. PICK common \in BOOLEAN, no \in BOOLEAN : common = (Bits(l) \cap Bits(r) # {}) /\ no = FALSE
    OBVIOUS
  <1>6. JumpTakenW(op, x, y, width) =
          CASE op = "Set"       -> common
            [] op \in NeverTaken -> no
            [] op \in {"Lt", "Le", "Gt", "Ge"} -> JumpTaken(op, l, r)
            [] op \in Comparisons \ UnsignedOps -> JumpTaken(op, sl, sr)
    BY <1>1, <1>3, <1>4, <1>5, <1>11 DEF JumpTakenW
  <1>7. CASE op = "Set"
    BY <1>6, <1>7 DEF NeverTaken, Comparisons, UnsignedOps
  <1>8. CASE op \in NeverTaken
    BY <1>6, <1>8 DEF NeverTaken, Comparisons, UnsignedOps
  <1>9. CASE op \in UnsignedOps
    <2>1. JumpTaken(op, l, r) \in BOOLEAN
      BY <1>9, ComparisonsTold DEF Comparisons
    <2>. QED  BY <1>6, <1>9, <2>1 DEF NeverTaken, UnsignedOps
  <1>10. CASE op \in Comparisons \ UnsignedOps
    <2>1. JumpTaken(op, sl, sr) \in BOOLEAN
      BY <1>10, ComparisonsTold
    <2>. QED  BY <1>6, <1>10, <2>1 DEF NeverTaken, Comparisons, UnsignedOps
  <1>. QED  BY <1>7, <1>8, <1>9, <1>10 DEF JumpNames

LEMMA JumpKept ==
    ASSUME PathInv, Running, NEW i \in Instruction, IsConditional(i), Accepts(Config, abs, i), TracksJump(i),
           UNCHANGED <<regs, memory>>, ret' = Continue, abs' = RefineBranch(abs, i, Taken(i))
    PROVE  Kept
  <1>1. PICK p, op, o, width : p = i.dst /\ op = i.op /\ o = i.src /\ width = i.width
    OBVIOUS
  <1>2. /\ i.insn = "Jump" /\ op \in JumpNames \ {"Always"} /\ p \in 0..10 /\ o \in Operand
        /\ width \in {32, 64}
    <2>1. i.insn = "Jump" /\ op # "Always"
      BY <1>1 DEF IsConditional, IsJump
    <2>2. i.op \in JumpNames /\ i.dst \in Register /\ i.src \in Operand /\ i.width \in {32, 64}
      BY <2>1, JumpFields
    <2>. QED  BY <1>1, <2>1, <2>2, Tied
  <1>3. Initialized(abs, p) /\ OperandInit(abs, o)
    BY <1>1, <1>2 DEF Accepts
  <1>4. Taken(i) = JumpTakenW(op, regs[p], Value(o), width)
    <2>1. op # "Always"
      BY <1>2
    <2>0. regs[p] \in Word /\ Value(o) \in Word
      BY <1>2, PathFacts, ValueType DEF PathInv, MachineInv
    <2>2. PICK taken \in BOOLEAN : taken = JumpTakenW(op, regs[p], Value(o), width)
      BY <1>2, <2>0, JumpsTold
    <2>3. Taken(i) <=> taken
      BY <1>1, <2>1, <2>2 DEF Taken
    <2>4. Taken(i) \in BOOLEAN
      BY DEF Taken
    <2>. QED  BY <2>2, <2>3, <2>4
  <1>5. CASE ~ IsReg(o)
    <2>1. PICK k \in Word : k = o.imm /\ k = Value(o)
      BY <1>2, <1>5, OperandValue
    <2>2. PICK t \in RegType, v \in Word : t = abs.regs[p] /\ v = regs[p] /\ Stands(t, v, Len(mapScratch))
      <3>1. p \in 0..10
        BY <1>2
      <3>. QED  BY <3>1, PathFacts DEF Stood
    <2>3. t.type # "NotInit"
      BY <1>3, <2>2, RegShape, RegKinds DEF Ranged, Initialized
    <2>4. PreciseJump(op, ScalarRange(t), k, width)
      BY <1>1, <1>5, <2>1, <2>2 DEF TracksJump
    <2>5. PICK new : new = RefineReg(t, op, k, JumpTakenW(op, v, k, width))
      OBVIOUS
    <2>6. abs' = [abs EXCEPT !.regs[p] = new]
      BY <1>1, <1>4, <1>5, <2>1, <2>2, <2>5 DEF RefineBranch
    <2>7. /\ new \in RegType /\ Stands(new, v, Len(mapScratch))
          /\ new.type \in {"MapPtr", "MaybeMapPtr"} => t.type \in {"MapPtr", "MaybeMapPtr"}
      BY <1>2, <2>2, <2>3, <2>4, <2>5, RefineRegHolds
    <2>. QED  BY <1>2, <2>2, <2>6, <2>7, Narrowed
  <1>6. CASE IsReg(o)
    <2>1. PICK k \in 0..10 : k = o.reg /\ Value(o) = regs[k]
      BY <1>2, <1>6, OperandValue
    <2>2. PICK taken : taken = JumpTakenW(op, regs[p], regs[k], width) /\ taken = Taken(i)
      BY <1>4, <2>1
    <2>3. abs' = IF BoundsPacket(abs, p, k) THEN RefinedPacket(abs, p, op, k, taken)
                 ELSE IF BoundsPacket(abs, k, p) /\ op \in DOMAIN Mirror
                 THEN RefinedPacket(abs, k, Mirror[op], p, taken)
                 ELSE abs
      BY <1>1, <1>6, <2>1, <2>2 DEF RefineBranch, RefinePacketEdge
    <2>4. BoundsPacket(abs, p, k) \/ BoundsPacket(abs, k, p) =>
            /\ width = 64
            /\ \A r \in {p, k} : Fits(regs[r] - PacketStart) /\ (op \in UnsignedOps => regs[r] >= 0)
      BY <1>1, <1>6, <2>1 DEF TracksJump, TracksPacketJump
    <2>5. CASE BoundsPacket(abs, p, k)
      <3>1. abs' = RefinedPacket(abs, p, op, k, JumpTakenW(op, regs[p], regs[k], 64))
        BY <2>2, <2>3, <2>4, <2>5
      <3>. QED  BY <1>2, <2>1, <2>4, <2>5, <3>1, EdgeKept
    <2>6. CASE ~ BoundsPacket(abs, p, k) /\ BoundsPacket(abs, k, p) /\ op \in DOMAIN Mirror
      <3>1. PICK v \in Word, u \in Word : v = regs[k] /\ u = regs[p]
        BY <1>2, <2>1, PathFacts
      <3>2. op \in UnsignedOps => v >= 0 /\ u >= 0
        BY <2>4, <2>6, <3>1
      <3>3. PICK rev : rev = Mirror[op]
        OBVIOUS
      <3>4. /\ rev \in Comparisons /\ (rev \in UnsignedOps <=> op \in UnsignedOps)
            /\ JumpTakenW(op, u, v, 64) = JumpTakenW(rev, v, u, 64)
        BY <2>6, <3>2, <3>3, MirrorTaken
      <3>5. rev \in JumpNames \ {"Always"}
        BY <3>4 DEF JumpNames, Comparisons, UnsignedOps
      <3>6. abs' = RefinedPacket(abs, k, rev, p, JumpTakenW(rev, regs[k], regs[p], 64))
        BY <2>2, <2>3, <2>4, <2>6, <3>1, <3>3, <3>4
      <3>7. \A r \in {k, p} : Fits(regs[r] - PacketStart) /\ (rev \in UnsignedOps => regs[r] >= 0)
        BY <2>4, <2>6, <3>4
      <3>. QED  BY <1>2, <2>1, <2>6, <3>5, <3>6, <3>7, EdgeKept
    <2>7. CASE abs' = abs
      <3>1. /\ Stood(abs.regs, regs, Len(mapScratch)) /\ BitsTracked(abs.init)
            /\ abs \in AbsState /\ OnlyLookupPoints(abs)
        BY PathFacts DEF PathInv
      <3>2. UNCHANGED <<regs, initialized, mapScratch>> /\ ret'.result \notin MemErrors
        BY Answers DEF memory
      <3>. QED  BY <2>7, <3>1, <3>2 DEF Kept, BitsTracked
    <2>. QED  BY <2>3, <2>5, <2>6, <2>7
  <1>. QED  BY <1>5, <1>6

\* Neither the registers nor the memory nor the verifier's state changes.
LEMMA RestKept ==
    ASSUME PathInv, Running, UNCHANGED <<abs, regs, memory>>, ret'.result \notin MemErrors
    PROVE  Kept
  <1>1. /\ Stood(abs.regs, regs, Len(mapScratch)) /\ BitsTracked(abs.init)
        /\ abs \in AbsState /\ OnlyLookupPoints(abs)
    BY PathFacts DEF PathInv
  <1>2. UNCHANGED <<abs, regs, initialized, mapScratch>>
    BY DEF memory
  <1>. QED  BY <1>1, <1>2 DEF Kept, BitsTracked

-----------------------------------------------------------------------------
(***************************************************************************)
(* Where paths meet                                                        *)
(***************************************************************************)

LEMMA ContainsAbove ==
    ASSUME NEW a \in Ranges, NEW b \in Ranges, NEW v \in Word, RangeLeq(a, b), Contains(a, v)
    PROVE  Contains(b, v)
  <1>1. CASE a = Bottom \/ b = Top
    BY <1>1, KindsDiffer
  <1>2. CASE a # Bottom /\ b # Top
    <2>1. IsInterval(a) /\ IsInterval(b) /\ b.lo <= a.lo /\ a.hi <= b.hi
      BY <1>2 DEF RangeLeq
    <2>2. a.lo <= v /\ v <= a.hi /\ a.lo \in Word /\ a.hi \in Word /\ b.lo \in Word /\ b.hi \in Word
      BY <2>1, IntervalBounds
    <2>3. b.lo <= v /\ v <= b.hi
      BY <2>1, <2>2, WordsAreIntegers
    <2>. QED  BY <2>1, <2>3, IntervalBounds
  <1>. QED  BY <1>1, <1>2

\* A type stands for every word a type below it stands for.
LEMMA StandsAbove ==
    ASSUME NEW a \in RegType, NEW b \in RegType, NEW v \in Word, NEW n, RegBelow(a, b), Stands(a, v, n)
    PROVE  Stands(b, v, n)
  <1>1. CASE b = NotInit \/ a = b
    BY <1>1, RegKinds DEF Stands
  <1>2. CASE b = Scalar(Top)
    BY <1>2, Simple
  <1>3. CASE a.type \in Ranged /\ b.type = a.type /\ RangeLeq(a.range, b.range)
    <2>1. PICK p \in Ranges, q \in Ranges : p = a.range /\ q = b.range
      BY <1>3, RegShape, RegKinds DEF Ranged, StackPtr
    <2>2. \A w \in Word : Contains(p, w) => Contains(q, w)
      BY <1>3, <2>1, ContainsAbove
    <2>3. WrappingSub(v, 2 * Gap) \in Word /\ WrappingSub(v, 5 * Gap) \in Word
      BY Constants, Layout, AddressIs, WordsAreIntegers
    <2>. QED  BY <1>3, <2>1, <2>2, <2>3 DEF Stands, Ranged
  <1>4. CASE a.type = "MapPtr" /\ b.type = "MaybeMapPtr" /\ a.fd = b.fd
    BY <1>4 DEF Stands
  <1>. QED  BY <1>1, <1>2, <1>3, <1>4 DEF RegBelow

\* A map pointer is the merge of nothing but map pointers.
LEMMA PointsBelow ==
    ASSUME NEW a \in RegType, NEW b \in RegType, NEW c \in {RegJoin(a, b), RegWiden(a, b)},
           c.type \in {"MapPtr", "MaybeMapPtr"}
    PROVE  b.type \in {"MapPtr", "MaybeMapPtr"}
  <1>1. RegJoin(a, b).type \in {"MapPtr", "MaybeMapPtr"} => b.type \in {"MapPtr", "MaybeMapPtr"}
    BY RegJoinCases, RegKinds DEF Ranged, MaybeMapPtr
  <1>2. CASE c = RegJoin(a, b)
    BY <1>1, <1>2
  <1>3. CASE c = RegWiden(a, b)
    BY <1>1, <1>3 DEF RegWiden, Ranged
  <1>. QED  BY <1>2, <1>3

\* join_assign and widen_assign, whatever the path is merged with: a type of
\* the merged state stands for at least as many words, and no byte counts as
\* written that the path has not written.
LEMMA MergedStands ==
    ASSUME NEW s \in AbsState, NEW t \in AbsState, NEW m, m \in {StateJoin(s, t), StateWiden(s, t)}
    PROVE  /\ m \in AbsState /\ m.init \subseteq t.init
           /\ OnlyLookupPoints(t) => OnlyLookupPoints(m)
           /\ \A words \in [0..10 -> Word] : \A n : Stood(t.regs, words, n) => Stood(m.regs, words, n)
  <1>1. m \in AbsState /\ m.init = s.init \cap t.init
    BY StateJoinUpper, StateWidenUpper DEF StateJoin, StateWiden
  <1>2. ASSUME NEW r \in 0..10
        PROVE  /\ s.regs[r] \in RegType /\ t.regs[r] \in RegType /\ m.regs[r] \in RegType
               /\ m.regs[r] \in {RegJoin(s.regs[r], t.regs[r]), RegWiden(s.regs[r], t.regs[r])}
               /\ RegBelow(t.regs[r], m.regs[r])
    <2>1. s.regs[r] \in RegType /\ t.regs[r] \in RegType
      BY StateShape, Tied
    <2>2. m.regs[r] \in {RegJoin(s.regs[r], t.regs[r]), RegWiden(s.regs[r], t.regs[r])}
      <3>1. CASE m = StateJoin(s, t)
        BY <3>1, Tied DEF StateJoin
      <3>2. CASE m = StateWiden(s, t)
        BY <3>2, Tied DEF StateWiden
      <3>. QED  BY <3>1, <3>2
    <2>. QED  BY <2>1, <2>2, RegJoinUpper, RegWidenUpper
  <1>3. ASSUME OnlyLookupPoints(t), NEW r \in 0..10, m.regs[r].type \in {"MapPtr", "MaybeMapPtr"}
        PROVE  r = 0
    <2>1. PICK a \in RegType, b \in RegType, c \in RegType : /\ a = s.regs[r] /\ b = t.regs[r] /\ c = m.regs[r]
                                                /\ c \in {RegJoin(a, b), RegWiden(a, b)}
      BY <1>2
    <2>2. b.type \in {"MapPtr", "MaybeMapPtr"}
      BY <1>3, <2>1, PointsBelow
    <2>. QED  BY <1>3, <2>1, <2>2, Tied DEF OnlyLookupPoints
  <1>4. ASSUME NEW words \in [0..10 -> Word], NEW n, Stood(t.regs, words, n)
        PROVE  Stood(m.regs, words, n)
    <2> SUFFICES ASSUME NEW r \in 0..10 PROVE Stands(m.regs[r], words[r], n)
      BY DEF Stood
    <2>1. Stands(t.regs[r], words[r], n) /\ words[r] \in Word
      BY <1>4 DEF Stood
    <2>. QED  BY <1>2, <2>1, StandsAbove
  <1>5. OnlyLookupPoints(t) => OnlyLookupPoints(m)
    BY <1>3, Tied DEF OnlyLookupPoints
  <1>. QED  BY <1>1, <1>4, <1>5

-----------------------------------------------------------------------------
(***************************************************************************)
(* The induction                                                           *)
(***************************************************************************)

\* check_and_transfer and Vm::step on the same instruction.
LEMMA StepKept ==
    ASSUME PathInv, PayloadsFit, OnlyPrecise, NEW i \in Instruction, Step(i)
    PROVE  Kept
  <1>1. /\ Running /\ Accepts(Config, abs, i) /\ Execute(i) /\ TracksInsn(i)
        /\ abs' = IF IsConditional(i) THEN RefineBranch(abs, i, Taken(i)) ELSE After(Config, abs, i)
    BY DEF Step
  <1>2. i.insn \in {"Alu", "LoadImm64", "Load", "Store", "Jump", "Call", "Exit", "Unknown"}
    BY InstructionKinds DEF Kinds
  <1>3. i.insn # "Jump" => abs' = After(Config, abs, i)
    BY <1>1 DEF IsConditional, IsJump
  <1>4. CASE i.insn = "Alu"
    <2>1. AluAccepts(abs, i) /\ ExecAlu(i) /\ abs' = SetReg(abs, i.dst, AluResult(abs, i))
      BY <1>1, <1>3, <1>4 DEF Accepts, Execute, After
    <2>2. TracksAlu(i)
      BY <1>1, <1>4 DEF TracksInsn, IsConditional, IsJump
    <2>. QED  BY <1>1, <1>4, <2>1, <2>2, AluKept
  <1>5. CASE i.insn = "LoadImm64"
    <2>1. ExecLoadImm64(i) /\ abs' = SetReg(abs, i.dst, Constant(Config, i.imm))
      BY <1>1, <1>3, <1>5 DEF Execute, After
    <2>. QED  BY <1>1, <1>5, <2>1, ConstantKept
  <1>6. CASE i.insn = "Load"
    <2>1. LoadAccepts(Config, abs, i) /\ ExecLoad(i) /\ abs' = SetReg(abs, i.dst, LoadResult(Config, abs, i))
      BY <1>1, <1>3, <1>6 DEF Accepts, Execute, After
    <2>. QED  BY <1>1, <1>6, <2>1, LoadKept
  <1>7. CASE i.insn = "Store"
    <2>1. StoreAccepts(Config, abs, i) /\ ExecStore(i) /\ abs' = AfterStore(abs, i)
      BY <1>1, <1>3, <1>7 DEF Accepts, Execute, After
    <2>. QED  BY <1>1, <1>7, <2>1, StoreKept
  <1>8. CASE i.insn = "Call"
    <2>1. /\ CallAccepts(Config, abs, i.func) /\ ExecCall(i)
          /\ abs' = [abs EXCEPT !.regs[0] = CallResult(abs, i.func)]
      BY <1>1, <1>3, <1>8 DEF Accepts, Execute, After
    <2>2. TracksCall(i)
      BY <1>1, <1>8 DEF TracksInsn, IsConditional, IsJump
    <2>. QED  BY <1>1, <1>8, <2>1, <2>2, CallKept
  <1>9. CASE i.insn = "Jump"
    <2>1. ret' = Continue /\ UNCHANGED <<regs, memory>>
      BY <1>1, <1>9 DEF Execute
    <2>2. CASE IsConditional(i)
      <3>1. TracksJump(i)
        BY <1>1, <1>9, <2>2 DEF TracksInsn
      <3>. QED  BY <1>1, <2>1, <2>2, <3>1, JumpKept
    <2>3. CASE ~ IsConditional(i)
      <3>1. abs' = abs
        BY <1>1, <1>9, <2>3 DEF After
      <3>. QED  BY <1>1, <2>1, <3>1, RestKept, Answers
    <2>. QED  BY <2>2, <2>3
  <1>10. CASE i.insn = "Exit"
    <2>1. ret' = ExitWith(regs[0]) /\ UNCHANGED <<regs, memory>> /\ abs' = abs
      BY <1>1, <1>3, <1>10 DEF Execute, Fails, After
    <2>. QED  BY <1>1, <2>1, RestKept, Answers
  <1>11. CASE i.insn = "Unknown"
    BY <1>1, <1>11 DEF Accepts
  <1>. QED  BY <1>2, <1>4, <1>5, <1>6, <1>7, <1>8, <1>9, <1>10, <1>11

\* Nothing a program does replaces what was staged for it.
LEMMA StagedStays ==
    ASSUME NEW i, Execute(i)
    PROVE  UNCHANGED <<packet, xdpMd, rodata>> /\ DOMAIN initialized' = DOMAIN initialized
  <1>1. CASE UNCHANGED memory
    BY <1>1 DEF memory
  <1>2. \A result : Fails(result) => UNCHANGED memory
    BY DEF Fails
  <1>3. CASE ExecLoad(i)
    BY <1>1, <1>2, <1>3 DEF ExecLoad
  <1>4. CASE ExecStore(i)
    <2>1. \A a, w : DOMAIN Mem!Marked(a, w) = DOMAIN initialized
      BY DEF Mem!Marked
    <2>. QED  BY <1>4, <2>1 DEF ExecStore, Mem!Store, Mem!stack, Mem!staged
  <1>5. CASE ExecCall(i)
    <2>1. ASSUME NEW key, Hit(regs[1], key)
          PROVE  UNCHANGED <<packet, xdpMd, rodata>> /\ DOMAIN initialized' = DOMAIN initialized
      BY <1>1, <2>1 DEF Hit, Mem!SetMapScratch, Mem!stack
    <2>2. CASE MapLookup
      BY <1>1, <1>2, <2>1, <2>2 DEF MapLookup
    <2>3. CASE MapUpdate
      BY <1>1, <1>2, <2>3 DEF MapUpdate
    <2>4. CASE MapDelete
      BY <1>1, <1>2, <2>4 DEF MapDelete
    <2>. QED  BY <1>1, <1>2, <1>5, <2>2, <2>3, <2>4 DEF ExecCall
  <1>. QED  BY <1>1, <1>2, <1>3, <1>4, <1>5 DEF Execute, ExecAlu, ExecLoadImm64

LEMMA InstructionsOf ==
    ASSUME pool \in Catalogues, NEW i \in pool
    PROVE  i \in Instruction
  BY OracleAssumption

\* Every step keeps the invariant.
LEMMA StepHolds ==
    ASSUME PathInv, PayloadsFit, OnlyPrecise, NEW i \in pool, Step(i)
    PROVE  PathInv'
  <1>1. i \in Instruction
    BY InstructionsOf DEF PathInv
  <1>2. /\ Execute(i) /\ Accepts(Config, abs, i) /\ pool' = pool
    BY DEF Step
  <1>3. Kept
    BY <1>1, StepKept
  <1>4. SwapsKnownWidth(i)
    BY <1>2 DEF SwapsKnownWidth, Accepts, AluAccepts
  <1>5. RegsInv' /\ BytesInv' /\ MasksInv' /\ MapsInv'
    <2>1. RegsInv /\ BytesInv /\ MasksInv /\ MapsInv
      BY DEF PathInv, MachineInv
    <2>. QED  BY <1>1, <1>2, <1>4, <2>1, ExecuteTypes, MapsExecute
  <1>6. StagedInv'
    <2>1. StagedInv
      BY DEF PathInv, MachineInv
    <2>. QED  BY <1>2, <2>1, StagedStays DEF StagedInv, Mem!NoContext, Mem!Context, Mem!LastWord
  <1>7. abs' \in AbsState /\ OnlyLookupPoints(abs') /\ ret'.result \notin MemErrors
    BY <1>3 DEF Kept
  <1>8. Tracks'
    BY <1>3, <1>7, TracksIs DEF Kept
  <1>9. OnlyLookupPoints(abs)'
    BY <1>7 DEF OnlyLookupPoints
  <1>10. NoMemoryFault'
    BY <1>7 DEF NoMemoryFault, MemErrors
  <1>. QED  BY <1>2, <1>5, <1>6, <1>7, <1>8, <1>9, <1>10 DEF PathInv, MachineInv

\* Going on from a merged state keeps it too.
LEMMA MergeHolds ==
    ASSUME PathInv, NEW recorded \in Recorded[packet # NoBytes], Merge(recorded)
    PROVE  PathInv'
  <1>1. recorded \in AbsState
    <2>1. (packet # NoBytes) \in BOOLEAN
      OBVIOUS
    <2>2. Recorded[packet # NoBytes] \in SUBSET AbsState
      BY <2>1, OracleAssumption, Zenon
    <2>. QED  BY <2>2
  <1>2. /\ Running /\ UNCHANGED <<pool, regs, memory, stores, ret>>
        /\ abs' \in {StateJoin(recorded, abs), StateWiden(recorded, abs)}
    BY DEF Merge, machine
  <1>3. /\ Stood(abs.regs, regs, Len(mapScratch)) /\ BitsTracked(abs.init)
        /\ abs \in AbsState /\ OnlyLookupPoints(abs) /\ regs \in [0..10 -> Word]
    BY <1>2, PathFacts, Tied DEF PathInv, MachineInv, RegsInv
  <1>4. PICK t, m : /\ t \in AbsState /\ t = abs /\ m = abs'
                     /\ m \in {StateJoin(recorded, t), StateWiden(recorded, t)}
    BY <1>2, <1>3
  <1>5. /\ m \in AbsState /\ m.init \subseteq t.init /\ OnlyLookupPoints(m)
        /\ Stood(m.regs, regs, Len(mapScratch))
    BY <1>1, <1>3, <1>4, MergedStands
  <1>6. UNCHANGED <<bytes, initialized, packet, xdpMd, mapScratch, rodata, alignChecks>>
    BY <1>2 DEF memory
  <1>7. RegsInv' /\ BytesInv' /\ MasksInv' /\ MapsInv'
    BY <1>2, TypesStay DEF PathInv, MachineInv, MapsInv, Allowed
  <1>8. StagedInv'
    BY <1>6 DEF PathInv, MachineInv, StagedInv, Mem!NoContext, Mem!Context, Mem!LastWord
  <1>9. Tracks'
    <2>1. abs' \in AbsState /\ Stood(abs'.regs, regs', Len(mapScratch'))
      BY <1>2, <1>4, <1>5, <1>6
    <2>2. \A b \in abs'.init : (b % 64) \in initialized'[b \div 64]
      BY <1>3, <1>4, <1>5, <1>6 DEF BitsTracked
    <2>. QED  BY <2>1, <2>2, TracksIs
  <1>10. OnlyLookupPoints(abs)' /\ NoMemoryFault'
    BY <1>2, <1>4, <1>5 DEF OnlyLookupPoints, NoMemoryFault, MemErrors, PathInv
  <1>. QED  BY <1>2, <1>4, <1>5, <1>7, <1>8, <1>9, <1>10 DEF PathInv, MachineInv

\* What the verifier starts from is what the machine starts from.
LEMMA StartHolds == Init => PathInv
  <1> SUFFICES ASSUME Init PROVE PathInv
    OBVIOUS
  <1>1. PICK p \in Packets, d \in Datas : Boot(p, d)
    BY DEF Init
  <1>2. /\ abs = InitialState(packet # NoBytes) /\ pool \in Catalogues
        /\ packet = p /\ rodata = d /\ ret = Continue
        /\ xdpMd = (IF p = NoBytes THEN Mem!NoContext ELSE Mem!Context(p))
        /\ initialized = [w \in 0 .. Mem!LastWord |-> {}]
    BY <1>1 DEF Init, Boot, Mem!LastWord
  <1>3. MachineInv
    <2>1. (p # NoBytes => p \in Seq(Mem!Byte)) /\ (d # NoBytes => d \in Seq(Mem!Byte))
      BY OracleAssumption DEF Mem!Byte
    <2>2. RegsInv /\ BytesInv /\ MasksInv /\ MapsInv
      BY <1>1, <2>1, BootTypes
    <2>. QED  BY <1>2, <2>2 DEF MachineInv, StagedInv
  <1>4. StackPtr(0) \in RegType /\ XdpMdPtr \in RegType /\ NotInit \in RegType
    BY Layout, Tied DEF RegType, StackPtr, XdpMdPtr, NotInit
  <1>5. /\ abs \in AbsState /\ abs.init = {}
        /\ \A r \in 0..10 : abs.regs[r] = IF r = 10 THEN StackPtr(0)
                                          ELSE IF r = 1 /\ packet # NoBytes THEN XdpMdPtr
                                          ELSE NotInit
    BY <1>2, <1>4, Tied DEF InitialState, AbsState
  <1>6. OnlyLookupPoints(abs)
    BY <1>5, Tied DEF OnlyLookupPoints, StackPtr, XdpMdPtr, NotInit
  <1>7. ASSUME NEW r \in 0..10 PROVE Stands(abs.regs[r], regs[r], Len(mapScratch))
    <2>1. regs[r] = IF r = 10 THEN Gap ELSE IF r = 1 /\ packet # NoBytes THEN 4 * Gap ELSE 0
      BY <1>1, <1>2, Constants, Tied DEF Boot
    <2>2. PICK t, v, n : t = abs.regs[r] /\ v = regs[r] /\ n = Len(mapScratch)
      OBVIOUS
    <2>3. CASE r = 10
      <3>1. t.type = "StackPtr" /\ t.offset = 0 /\ v = Gap /\ Gap \in Nat
        BY <1>5, <2>1, <2>2, <2>3, Layout DEF StackPtr
      <3>. QED  BY <2>2, <3>1 DEF Stands
    <2>4. CASE r = 1 /\ packet # NoBytes
      <3>1. t.type = "XdpMdPtr" /\ v = 4 * Gap
        BY <1>5, <2>1, <2>2, <2>4 DEF XdpMdPtr
      <3>. QED  BY <2>2, <3>1 DEF Stands
    <2>5. CASE r # 10 /\ ~ (r = 1 /\ packet # NoBytes)
      <3>1. t.type = "NotInit"
        BY <1>5, <2>2, <2>5 DEF NotInit
      <3>. QED  BY <2>2, <3>1 DEF Stands
    <2>. QED  BY <2>3, <2>4, <2>5
  <1>8. Tracks
    BY <1>5, <1>7, TracksIs DEF Stood, BitsTracked
  <1>9. NoMemoryFault
    BY <1>2, Answers DEF NoMemoryFault
  <1>. QED  BY <1>2, <1>3, <1>5, <1>6, <1>8, <1>9 DEF PathInv

\* A step of nobody.
LEMMA RestHolds ==
    ASSUME PathInv, UNCHANGED vars
    PROVE  PathInv'
  <1>1. UNCHANGED <<abs, pool, regs, memory, stores, ret>>
    BY DEF vars, machine
  <1>2. RegsInv' /\ BytesInv' /\ MasksInv' /\ MapsInv'
    BY <1>1, TypesStay DEF PathInv, MachineInv, MapsInv, Allowed
  <1>3. UNCHANGED <<bytes, initialized, packet, xdpMd, mapScratch, rodata, alignChecks>>
    BY <1>1 DEF memory
  <1>4. StagedInv'
    BY <1>3 DEF PathInv, MachineInv, StagedInv, Mem!NoContext, Mem!Context, Mem!LastWord
  <1>5. abs \in AbsState /\ Tracks /\ OnlyLookupPoints(abs) /\ NoMemoryFault
    BY DEF PathInv
  <1>6. Tracks'
    BY <1>1, <1>3, <1>5, TracksIs DEF BitsTracked, Running, Continue, Mem!Done
  <1>7. OnlyLookupPoints(abs)' /\ NoMemoryFault'
    BY <1>1, <1>5 DEF OnlyLookupPoints, NoMemoryFault, MemErrors
  <1>. QED  BY <1>1, <1>2, <1>4, <1>5, <1>6, <1>7 DEF PathInv, MachineInv

LEMMA PathInductive ==
    ASSUME OnlyPrecise, PayloadsFit
    PROVE  Spec => []PathInv
  <1>1. ASSUME PathInv, [Next]_vars PROVE PathInv'
    BY <1>1, StepHolds, MergeHolds, RestHolds DEF Next
  <1>. QED  BY <1>1, StartHolds, PTL DEF Spec

\* verify.rs and state.rs, VerifierState: along every path of every accepted
\* program, of any length and over any instructions, each register holds a
\* word its type stands for and what the stack map calls written is written in
\* the machine's bitmap, as long as no operation is one the abstract domain is
\* imprecise about (TracksInsn) and every payload fits its region.
THEOREM VerifierTracks ==
    ASSUME OnlyPrecise, PayloadsFit
    PROVE  Spec => []Tracks
  BY PathInductive, PTL DEF PathInv

\* differential.rs:1, "verifier-accepts => VM never faults with `MemError`":
\* under the same two conditions it is so for every program, and not only for
\* the generated ones of the test.
THEOREM VerifierSound ==
    ASSUME OnlyPrecise, PayloadsFit
    PROVE  Spec => []NoMemoryFault
  BY PathInductive, PTL DEF PathInv

=============================================================================
