---------------------------- MODULE MemoryProofs ----------------------------
(***************************************************************************)
(* Proofs about the interpreter's memory, for every stack size, layout and *)
(* sequence of accesses: its types, the context that follows the packet,   *)
(* and that regions, bitmap words and the order of the checks together     *)
(* behave like one flat memory.                                            *)
(***************************************************************************)
EXTENDS Memory, SequenceTheorems, WellFoundedInduction, TLAPS

-----------------------------------------------------------------------------
(***************************************************************************)
(* The layout                                                              *)
(***************************************************************************)

LEMMA Layout ==
    /\ StackSize \in Nat \ {0} /\ StackSize % 64 = 0 /\ StackSize >= 64
    /\ Gap \in Nat /\ StackSize <= Gap
    /\ Radix \in Nat \ {0, 1} /\ 0 \in Byte
    /\ StackBase = Gap /\ Low = Gap - StackSize /\ Low \in Nat
    /\ PacketBase = 2 * Gap /\ MapScratchBase = 3 * Gap
    /\ XdpMdBase = 4 * Gap /\ RodataBase = 5 * Gap
  BY MemoryAssumption
     DEF StackBase, Low, PacketBase, MapScratchBase, XdpMdBase, RodataBase, Byte

LEMMA ByteOf == ASSUME NEW n \in Int PROVE n % Radix \in Byte /\ n \div Radix \in Int
  <1>1. Radix \in Int /\ Radix > 0
    BY MemoryAssumption
  <1>. QED  BY <1>1 DEF Byte

LEMMA ContextIsBytes ==
    ASSUME NEW p \in Seq(Byte)
    PROVE  Context(p) \in Seq(Byte) /\ Len(Context(p)) = XdpMdLen
  <1>1. ASSUME NEW n \in Int PROVE Le4(n) \in Seq(Byte) /\ Len(Le4(n)) = 4
    <2>1. PICK m1 \in Int, m2 \in Int, m3 \in Int :
            m1 = n \div Radix /\ m2 = m1 \div Radix /\ m3 = m2 \div Radix
      BY ByteOf
    <2>2. Le4(n) = <<n % Radix, m1 % Radix, m2 % Radix, m3 % Radix>>
      BY <2>1 DEF Le4
    <2>3. n % Radix \in Byte /\ m1 % Radix \in Byte /\ m2 % Radix \in Byte /\ m3 % Radix \in Byte
      BY ByteOf
    <2>. QED  BY <2>2, <2>3
  <1>2. PacketBase \in Int /\ PacketBase + Len(p) \in Int
    BY Layout
  <1>3. /\ Le4(PacketBase) \in Seq(Byte) /\ Len(Le4(PacketBase)) = 4
        /\ Le4(PacketBase + Len(p)) \in Seq(Byte) /\ Len(Le4(PacketBase + Len(p))) = 4
    BY <1>1, <1>2
  <1>4. PICK low, high : low = Le4(PacketBase) /\ high = Le4(PacketBase + Len(p))
    OBVIOUS
  <1>5. low \in Seq(Byte) /\ Len(low) = 4 /\ high \in Seq(Byte) /\ Len(high) = 4
    BY <1>3, <1>4
  <1>6. low \o high \in Seq(Byte) /\ Len(low \o high) = 8
    <2>1. low \o high \in Seq(Byte)
      BY <1>5
    <2>2. Len(low \o high) = Len(low) + Len(high)
      BY <1>5, ConcatProperties
    <2>. QED  BY <1>5, <2>1, <2>2
  <1>. QED  BY <1>4, <1>6 DEF Context, XdpMdLen

LEMMA NoContextIsBytes == NoContext \in Seq(Byte) /\ Len(NoContext) = XdpMdLen
  BY Layout DEF NoContext, XdpMdLen

-----------------------------------------------------------------------------
(***************************************************************************)
(* The initialization bits                                                 *)
(***************************************************************************)

\* Whether the bit of the byte at offset j is set.
Bit(bits, j) == (j % 64) \in bits[j \div 64]
Masks == [0..LastWord -> SUBSET (0..63)]

LEMMA WordOf ==
    ASSUME NEW j \in Offsets
    PROVE  /\ j \div 64 \in 0..LastWord /\ j % 64 \in 0..63
           /\ j = 64 * (j \div 64) + (j % 64)
  <1>1. PICK n \in Nat : n = StackSize /\ n % 64 = 0
    BY Layout
  <1>2. j \in 0 .. (n - 1) /\ LastWord = (n \div 64) - 1
    BY <1>1 DEF Offsets, LastWord
  <1>3. j \div 64 \in 0 .. ((n \div 64) - 1)
    BY <1>1, <1>2
  <1>. QED  BY <1>2, <1>3

LEMMA OffsetOf ==
    ASSUME NEW w \in 0..LastWord, NEW b \in 0..63
    PROVE  /\ 64 * w + b \in Offsets
           /\ (64 * w + b) \div 64 = w /\ (64 * w + b) % 64 = b
  <1>1. PICK n \in Nat : n = StackSize /\ n % 64 = 0
    BY Layout
  <1>2. w \in 0 .. ((n \div 64) - 1) /\ Offsets = 0 .. (n - 1)
    BY <1>1 DEF Offsets, LastWord
  <1>3. 64 * w + b \in 0 .. (n - 1)
    BY <1>1, <1>2
  <1>. QED  BY <1>2, <1>3

\* One mask or two: is_init looks at the bit of every byte it is asked for.
LEMMA IsInitLooksAtAll ==
    ASSUME initialized \in Masks, NEW i \in Offsets, NEW n \in 1..64, i + n <= StackSize
    PROVE  IsInit(i, n) <=> \A j \in i .. (i + n - 1) : Bit(initialized, j)
  <1>0. PICK word, bit : word = i \div 64 /\ bit = i % 64
    OBVIOUS
  <1>1. /\ word \in 0..LastWord /\ bit \in 0..63 /\ i = 64 * word + bit
        /\ StackSize \in Nat /\ LastWord \in Nat
    BY <1>0, WordOf, Layout DEF LastWord
  <1>2. CASE bit + n <= 64
    <2>1. IsInit(i, n) <=> bit .. (bit + n - 1) \subseteq initialized[word]
      BY <1>0, <1>2 DEF IsInit
    <2>2. \A j \in i .. (i + n - 1) : j \div 64 = word /\ j % 64 = j - i + bit
      BY <1>1, <1>2
    <2>3. \A j \in i .. (i + n - 1) : j - i + bit \in bit .. (bit + n - 1)
      BY <1>1
    <2>4. \A b \in bit .. (bit + n - 1) : b - bit + i \in i .. (i + n - 1) /\ (b - bit + i) - i + bit = b
      BY <1>1
    <2>. QED  BY <2>1, <2>2, <2>3, <2>4 DEF Bit
  <1>3. CASE ~ (bit + n <= 64)
    <2>1. IsInit(i, n) <=> /\ bit .. 63 \subseteq initialized[word]
                           /\ 0 .. (n - (64 - bit) - 1) \subseteq initialized[word + 1]
      BY <1>0, <1>3 DEF IsInit
    <2>2. /\ \A j \in i .. (i + 63 - bit) : j \div 64 = word /\ j % 64 = j - i + bit
          /\ \A j \in (i + 64 - bit) .. (i + n - 1) :
                j \div 64 = word + 1 /\ j % 64 = j - i + bit - 64
      BY <1>1, <1>3
    <2>3. /\ \A j \in i .. (i + 63 - bit) : j - i + bit \in bit .. 63
          /\ \A j \in (i + 64 - bit) .. (i + n - 1) : j - i + bit - 64 \in 0 .. (n - (64 - bit) - 1)
          /\ \A j \in i .. (i + n - 1) :
                j \in i .. (i + 63 - bit) \/ j \in (i + 64 - bit) .. (i + n - 1)
      BY <1>1, <1>3
    <2>4. /\ \A b \in bit .. 63 : /\ b - bit + i \in i .. (i + n - 1) /\ b - bit + i \in i .. (i + 63 - bit)
                                  /\ (b - bit + i) - i + bit = b
          /\ \A b \in 0 .. (n - (64 - bit) - 1) :
                /\ b + 64 - bit + i \in (i + 64 - bit) .. (i + n - 1)
                /\ b + 64 - bit + i \in i .. (i + n - 1)
                /\ (b + 64 - bit + i) - i + bit - 64 = b
      BY <1>1, <1>3
    <2>. QED  BY <2>1, <2>2, <2>3, <2>4 DEF Bit
  <1>. QED  BY <1>2, <1>3

\* mark_init sets the bits of the bytes stored and no other.
LEMMA MarkedMarksAll ==
    ASSUME initialized \in Masks, NEW i \in Offsets, NEW n \in 1..64, i + n <= StackSize
    PROVE  /\ Marked(i, n) \in Masks
           /\ \A j \in Offsets :
                 Bit(Marked(i, n), j) <=> Bit(initialized, j) \/ j \in i .. (i + n - 1)
  <1>0. PICK word, bit : word = i \div 64 /\ bit = i % 64
    OBVIOUS
  <1>1. /\ word \in 0..LastWord /\ bit \in 0..63 /\ i = 64 * word + bit
        /\ StackSize \in Nat /\ LastWord \in Nat
    BY <1>0, WordOf, Layout DEF LastWord
  <1>2. CASE bit + n <= 64
    <2>1. Marked(i, n) = [initialized EXCEPT ![word] = initialized[word] \cup (bit .. (bit + n - 1))]
      BY <1>0, <1>1, <1>2 DEF Marked, Masks
    <2>2. bit .. (bit + n - 1) \subseteq 0..63
      BY <1>1, <1>2
    <2>3. Marked(i, n) \in Masks
      BY <1>1, <2>1, <2>2 DEF Masks
    <2>4. ASSUME NEW j \in Offsets
          PROVE  Bit(Marked(i, n), j) <=> Bit(initialized, j) \/ j \in i .. (i + n - 1)
      <3>1. PICK q \in 0..LastWord, r \in 0..63 :
               q = j \div 64 /\ r = j % 64 /\ j = 64 * q + r
        BY WordOf
      <3>2. j \in i .. (i + n - 1) <=> q = word /\ r \in bit .. (bit + n - 1)
        BY <1>1, <1>2, <3>1
      <3>3. r \in Marked(i, n)[q] <=>
               r \in initialized[q] \/ (q = word /\ r \in bit .. (bit + n - 1))
        BY <1>1, <2>1 DEF Masks
      <3>. QED  BY <3>1, <3>2, <3>3 DEF Bit
    <2>. QED  BY <2>3, <2>4
  <1>3. CASE ~ (bit + n <= 64)
    <2>0. word + 1 \in 0..LastWord /\ word \in 0..LastWord /\ word + 1 # word
      <3>1. i + n - 1 \in Offsets
        BY <1>1 DEF Offsets
      <3>2. PICK q \in 0..LastWord, r \in 0..63 : i + n - 1 = 64 * q + r
        BY <3>1, WordOf
      <3>. QED  BY <1>1, <1>3, <3>2
    <2>1. Marked(i, n) = [initialized EXCEPT ![word] = initialized[word] \cup (bit .. 63),
                                             ![word + 1] = initialized[word + 1] \cup (0 .. (n - (64 - bit) - 1))]
      BY <1>0, <1>3, <2>0 DEF Marked, Masks
    <2>2. 0 .. (n - (64 - bit) - 1) \subseteq 0..63 /\ bit .. 63 \subseteq 0..63
      BY <1>1, <1>3
    <2>3. Marked(i, n) \in Masks
      BY <2>0, <2>1, <2>2 DEF Masks
    <2>4. ASSUME NEW j \in Offsets
          PROVE  Bit(Marked(i, n), j) <=> Bit(initialized, j) \/ j \in i .. (i + n - 1)
      <3>1. PICK q \in 0..LastWord, r \in 0..63 :
               q = j \div 64 /\ r = j % 64 /\ j = 64 * q + r
        BY WordOf
      <3> DEFINE Marks == \/ q = word /\ r \in bit .. 63
                          \/ q = word + 1 /\ r \in 0 .. (n - (64 - bit) - 1)
      <3>2. j \in i .. (i + n - 1) <=> Marks
        BY <1>1, <1>3, <3>1
      <3>3. r \in Marked(i, n)[q] <=> r \in initialized[q] \/ Marks
        BY <2>0, <2>1 DEF Masks
      <3>. QED  BY <3>1, <3>2, <3>3 DEF Bit
    <2>. QED  BY <2>3, <2>4
  <1>. QED  BY <1>2, <1>3

-----------------------------------------------------------------------------
(***************************************************************************)
(* Types                                                                   *)
(***************************************************************************)

Others == {"Packet", "MapScratch", "XdpMd", "Rodata"}

\* The window of addresses that belongs to a region.
LEMMA Regions ==
    ASSUME NEW a \in Int
    PROVE  /\ Classify(a) \in Others \cup {"Stack", "Unknown"}
           /\ Classify(a) = "Stack" <=> Low <= a /\ a <= StackBase
           /\ Classify(a) = "Packet" <=> PacketBase <= a /\ a < PacketBase + Gap
           /\ Classify(a) = "MapScratch" <=> MapScratchBase <= a /\ a < MapScratchBase + Gap
           /\ Classify(a) = "XdpMd" <=> XdpMdBase <= a /\ a < XdpMdBase + Gap
           /\ Classify(a) = "Rodata" <=> RodataBase <= a
  <1>1. PICK n \in Nat, size \in Nat :
           n = Gap /\ size = StackSize /\ size <= n /\ size >= 64
    BY Layout
  <1>2. /\ StackBase = n /\ Low = n - size /\ PacketBase = 2 * n /\ MapScratchBase = 3 * n
        /\ XdpMdBase = 4 * n /\ RodataBase = 5 * n
    BY <1>1, Layout
  <1>. QED  BY <1>1, <1>2 DEF Classify, Others

\* Where a store is served.
LEMMA StoreServed ==
    ASSUME TypeOK, NEW a \in Addrs, NEW w \in Widths, StoreFault(a, w) = "none"
    PROVE  /\ a \in Int /\ w \in 1..8
           /\ ~ Misaligned(a, w)
           /\ \/ Classify(a) = "Stack" /\ a - Low \in Offsets /\ a - Low + w <= StackSize
              \/ /\ Classify(a) = "MapScratch" /\ a - MapScratchBase \in Nat
                 /\ a - MapScratchBase + w <= Len(mapScratch)
  <1>1. a \in Int /\ w \in 1..8
    BY MemoryAssumption
  <1>2. Classify(a) \in {"Stack", "MapScratch"} /\ BoundsFault(a, w) = "none"
    BY DEF StoreFault
  <1>3. Inside(Classify(a), a, w) /\ ~ Misaligned(a, w)
    BY <1>2 DEF BoundsFault
  <1>4. CASE Classify(a) = "Stack"
    BY <1>1, <1>3, <1>4, Regions, Layout DEF Inside, Offsets
  <1>5. CASE Classify(a) = "MapScratch"
    <2>1. Contents("MapScratch") = mapScratch /\ Base("MapScratch") = MapScratchBase
      BY DEF Contents, Base
    <2>. QED  BY <1>1, <1>3, <1>5, <2>1, Regions, Layout DEF Inside
  <1>. QED  BY <1>1, <1>2, <1>3, <1>4, <1>5

MemInv == TypeOK /\ ContextMatchesPacket

LEMMA InitOK == Init => MemInv
  <1> SUFFICES ASSUME Init PROVE MemInv
    OBVIOUS
  <1>1. 0 \in Byte /\ <<>> \in Seq(Byte)
    BY Layout
  <1>. QED  BY <1>1, NoContextIsBytes DEF Init, MemInv, TypeOK, ContextMatchesPacket

LEMMA PayloadIsBytes == \A p \in Payloads : p \in Seq(Byte) /\ p # NoBytes
  BY MemoryAssumption

LEMMA StoreOK ==
    ASSUME MemInv, NEW a \in Addrs, NEW w \in Widths, NEW v \in Words, Store(a, w, v)
    PROVE  MemInv'
  <1>1. CASE UNCHANGED <<stack, staged, alignChecks>>
    BY <1>1 DEF MemInv, TypeOK, ContextMatchesPacket, stack, staged
  <1>2. CASE /\ StoreFault(a, w) = "none" /\ Classify(a) = "Stack"
             /\ bytes' = [i \in Offsets |->
                            IF i \in (a - Low) .. (a - Low + w - 1) THEN v[i - (a - Low)] ELSE bytes[i]]
             /\ initialized' = Marked(a - Low, w)
             /\ UNCHANGED <<staged, alignChecks>>
    <2>1. /\ a \in Int /\ w \in 1..8
          /\ a - Low \in Offsets /\ a - Low + w <= StackSize
      BY <1>2, StoreServed DEF MemInv
    <2>2. initialized' \in Masks
      <3>1. initialized \in Masks
        BY DEF MemInv, TypeOK, Masks
      <3>0. w \in 1..64
        <4>1. w \in 1..8
          BY <2>1
        <4>. QED  BY <4>1
      <3>2. PICK i \in Offsets : i = a - Low
        BY <2>1
      <3>3. Marked(i, w) \in Masks
        BY <2>1, <3>0, <3>1, <3>2, MarkedMarksAll
      <3>. QED  BY <1>2, <3>2, <3>3
    <2>3. bytes' \in [Offsets -> Byte]
      <3>1. v \in [0..7 -> Byte] /\ bytes \in [Offsets -> Byte] /\ Low \in Int
        BY MemoryAssumption, Layout DEF MemInv, TypeOK
      <3>2. \A i \in Offsets : i \in (a - Low) .. (a - Low + w - 1) => i - (a - Low) \in 0..7
        BY <2>1, <3>1 DEF Offsets
      <3>. QED  BY <1>2, <3>1, <3>2
    <2>. QED  BY <1>2, <2>2, <2>3 DEF MemInv, TypeOK, ContextMatchesPacket, staged, Masks
  <1>3. CASE /\ StoreFault(a, w) = "none" /\ Classify(a) = "MapScratch"
             /\ LET off == a - MapScratchBase
                IN  mapScratch' = [i \in DOMAIN mapScratch |->
                                     IF i - 1 \in off .. (off + w - 1) THEN v[i - 1 - off]
                                     ELSE mapScratch[i]]
             /\ UNCHANGED <<stack, packet, xdpMd, rodata, alignChecks>>
    <2>1. PICK off \in Nat : off = a - MapScratchBase /\ w \in 1..8
      BY <1>3, StoreServed DEF MemInv
    <2>2. mapScratch' = [i \in DOMAIN mapScratch |->
                            IF i - 1 \in off .. (off + w - 1) THEN v[i - 1 - off] ELSE mapScratch[i]]
      BY <1>3, <2>1
    <2>3. v \in [0..7 -> Byte] /\ mapScratch \in Seq(Byte)
      BY MemoryAssumption DEF MemInv, TypeOK
    <2>4. /\ DOMAIN mapScratch = 1 .. Len(mapScratch) /\ Len(mapScratch) \in Nat
          /\ \A i \in DOMAIN mapScratch : mapScratch[i] \in Byte
      BY <2>3
    <2>5. \A i \in DOMAIN mapScratch : i - 1 \in off .. (off + w - 1) => i - 1 - off \in 0..7
      <3>1. \A i \in DOMAIN mapScratch : i \in Int
        BY <2>4
      <3>2. w \in 1..8 /\ off \in Nat
        BY <2>1
      <3>. QED  BY <3>1, <3>2
    <2>6. mapScratch' \in [1 .. Len(mapScratch) -> Byte]
      <3>1. \A i \in DOMAIN mapScratch :
               (IF i - 1 \in off .. (off + w - 1) THEN v[i - 1 - off] ELSE mapScratch[i]) \in Byte
        BY <2>3, <2>4, <2>5
      <3>. QED  BY <2>2, <2>4, <3>1
    <2>7. mapScratch' \in Seq(Byte)
      BY <2>4, <2>6
    <2>. QED  BY <1>3, <2>7 DEF MemInv, TypeOK, ContextMatchesPacket, stack
  <1>. QED  BY <1>1, <1>2, <1>3 DEF Store

LEMMA NextOK == MemInv /\ [Next]_vars => MemInv'
  <1> SUFFICES ASSUME MemInv, [Next]_vars PROVE MemInv'
    OBVIOUS
  <1>1. CASE UNCHANGED <<stack, staged, alignChecks>>
    BY <1>1 DEF MemInv, TypeOK, ContextMatchesPacket, stack, staged
  <1>2. CASE UNCHANGED vars
    BY <1>2 DEF vars, MemInv, TypeOK, ContextMatchesPacket
  <1>3. ASSUME NEW a \in Addrs, NEW w \in Widths, Load(a, w) PROVE MemInv'
    BY <1>1, <1>3 DEF Load
  <1>4. ASSUME NEW a \in Addrs, NEW w \in Widths, NEW v \in Words, Store(a, w, v)
        PROVE  MemInv'
    BY <1>4, StoreOK
  <1>5. ASSUME NEW a \in Addrs, NEW n \in Lens, LoadBytes(a, n) PROVE MemInv'
    BY <1>1, <1>5 DEF LoadBytes
  <1>6. ASSUME NEW p \in Payloads, SetPacket(p) PROVE MemInv'
    BY <1>6, PayloadIsBytes, ContextIsBytes
       DEF SetPacket, MemInv, TypeOK, ContextMatchesPacket, stack
  <1>7. ASSUME NEW p \in Payloads, SetMapScratch(p) PROVE MemInv'
    BY <1>7, PayloadIsBytes DEF SetMapScratch, MemInv, TypeOK, ContextMatchesPacket, stack
  <1>8. ASSUME NEW p \in Payloads, SetRodata(p) PROVE MemInv'
    BY <1>8, PayloadIsBytes DEF SetRodata, MemInv, TypeOK, ContextMatchesPacket, stack
  <1>9. CASE ClearPacket
    BY <1>9, NoContextIsBytes DEF ClearPacket, MemInv, TypeOK, ContextMatchesPacket, stack
  <1>10. ASSUME NEW on \in BOOLEAN, SetAlignChecks(on) PROVE MemInv'
    BY <1>10 DEF SetAlignChecks, MemInv, TypeOK, ContextMatchesPacket, stack, staged
  <1>. QED  BY <1>2, <1>3, <1>4, <1>5, <1>6, <1>7, <1>8, <1>9, <1>10 DEF Next

\* memory.rs: the types and the context are one inductive invariant.
THEOREM MemorySound == Spec => []MemInv
  BY InitOK, NextOK, PTL DEF Spec

\* ebpf-vm/src/memory.rs, MemoryView: the fields keep their types, in
\* particular no bitmap word gets a bit outside its 64.
THEOREM MemoryTypeCorrect == Spec => []TypeOK
  <1>1. MemInv => TypeOK
    BY DEF MemInv
  <1>. QED  BY <1>1, MemorySound, PTL

\* set_packet and clear_packet: data and data_end frame the loaded packet.
THEOREM ContextCorrect == Spec => []ContextMatchesPacket
  <1>1. MemInv => ContextMatchesPacket
    BY DEF MemInv
  <1>. QED  BY <1>1, MemorySound, PTL

-----------------------------------------------------------------------------
(***************************************************************************)
(* Which bytes are readable                                                *)
(***************************************************************************)

\* What is staged is shorter than the window of its region.
PayloadsFit == \A p \in Payloads : Len(p) < Gap
Fit == PayloadsFit /\ MemInv /\ Len(mapScratch) < Gap

LEMMA Window ==
    ASSUME NEW r \in Others, NEW x \in Int
    PROVE  /\ Base(r) \in Int
           /\ Base(r) <= x /\ x < Base(r) + Gap => Classify(x) = r
           /\ Classify(x) = r => Base(r) <= x
  <1>1. /\ Base("Packet") = PacketBase /\ Base("MapScratch") = MapScratchBase
        /\ Base("XdpMd") = XdpMdBase /\ Base("Rodata") = RodataBase
    BY DEF Base
  <1>2. PacketBase \in Int /\ MapScratchBase \in Int /\ XdpMdBase \in Int /\ RodataBase \in Int
    BY Layout
  <1>. QED  BY <1>1, <1>2, Regions DEF Others

LEMMA ContentsFit ==
    ASSUME Fit, NEW r \in Others, Contents(r) # NoBytes
    PROVE  Contents(r) \in Seq(Byte) /\ Len(Contents(r)) \in Nat /\ Len(Contents(r)) < Gap
  <1>1. XdpMdLen < Gap
    BY Layout DEF XdpMdLen
  <1>2. \A p \in Payloads : p \in Seq(Byte) /\ Len(p) < Gap
    BY PayloadIsBytes DEF Fit, PayloadsFit
  <1>3. /\ Contents("Packet") = packet /\ Contents("MapScratch") = mapScratch
        /\ Contents("XdpMd") = xdpMd /\ Contents("Rodata") = rodata
    BY DEF Contents
  <1>4. /\ packet \in Payloads \cup {NoBytes} /\ rodata \in Payloads \cup {NoBytes}
        /\ mapScratch \in Seq(Byte) /\ Len(mapScratch) < Gap
        /\ xdpMd \in Seq(Byte) /\ Len(xdpMd) < Gap
    BY <1>1 DEF Fit, MemInv, TypeOK
  <1>5. Contents(r) \in Seq(Byte) /\ Len(Contents(r)) < Gap
    BY <1>2, <1>3, <1>4 DEF Others
  <1>. QED  BY <1>5

\* A byte that a one-byte load at x would find.
Served(x) ==
    LET r == Classify(x)
    IN  \/ r = "Stack" /\ x < StackBase /\ Bit(initialized, x - Low)
        \/ r \in Others /\ Contents(r) # NoBytes /\ x < Base(r) + Len(Contents(r))

LEMMA StackLiveBits ==
    ASSUME initialized \in Masks
    PROVE  \A x : x \in StackLive <=> x \in Low .. (StackBase - 1) /\ Bit(initialized, x - Low)
  <1>1. Low \in Int /\ StackSize \in Nat /\ StackBase = Low + StackSize
    BY Layout
  <1>2. ASSUME NEW x, x \in StackLive
        PROVE  x \in Low .. (StackBase - 1) /\ Bit(initialized, x - Low)
    <2>1. PICK w \in 0..LastWord : x \in {Low + 64 * w + b : b \in initialized[w]}
      BY <1>2 DEF StackLive
    <2>2. PICK b \in 0..63 : b \in initialized[w] /\ x = Low + 64 * w + b
      BY <2>1 DEF Masks
    <2>3. PICK j \in Offsets : j = 64 * w + b /\ j \div 64 = w /\ j % 64 = b
      BY OffsetOf
    <2>4. x = Low + j /\ x - Low = j /\ j \in Nat /\ j < StackSize
      <3>1. w \in Int /\ b \in Int
        OBVIOUS
      <3>. QED  BY <1>1, <2>2, <2>3, <3>1 DEF Offsets
    <2>. QED  BY <1>1, <2>2, <2>3, <2>4 DEF Bit
  <1>3. ASSUME NEW x \in Low .. (StackBase - 1), Bit(initialized, x - Low)
        PROVE  x \in StackLive
    <2>1. PICK j \in Offsets : j = x - Low
      BY <1>1 DEF Offsets
    <2>2. PICK w \in 0..LastWord, b \in 0..63 : w = j \div 64 /\ b = j % 64 /\ j = 64 * w + b
      BY WordOf
    <2>3. b \in initialized[w]
      BY <1>3, <2>1, <2>2 DEF Bit
    <2>4. x = Low + 64 * w + b
      <3>1. w \in Int /\ b \in Int /\ x \in Int
        BY <1>1
      <3>. QED  BY <1>1, <2>1, <2>2, <3>1
    <2>. QED  BY <2>3, <2>4 DEF StackLive
  <1>. QED  BY <1>2, <1>3

\* The bytes of the flat memory are those a load would serve.
LEMMA ReadableIsServed ==
    ASSUME Fit
    PROVE  Readable \subseteq Int /\ \A x \in Int : x \in Readable <=> Served(x)
  <1>1. initialized \in Masks
    BY DEF Fit, MemInv, TypeOK, Masks
  <1>2. Low \in Int /\ StackBase \in Int /\ Low <= StackBase
    BY Layout
  <1>3. \A x : x \in Readable <=> x \in StackLive \/ \E r \in Others : x \in Filled(r)
    BY DEF Readable, Others
  <1>4. \A x : x \in StackLive <=> x \in Low .. (StackBase - 1) /\ Bit(initialized, x - Low)
    BY <1>1, StackLiveBits
  <1>5. ASSUME NEW r \in Others, NEW x
        PROVE  x \in Filled(r) <=> /\ x \in Int /\ Contents(r) # NoBytes /\ Base(r) <= x
                                   /\ x < Base(r) + Len(Contents(r))
    <2>1. Base(r) \in Int
      BY Window
    <2>2. CASE Contents(r) = NoBytes
      BY <2>2 DEF Filled
    <2>3. CASE Contents(r) # NoBytes
      <3>1. PICK n \in Nat : n = Len(Contents(r))
        BY <2>3, ContentsFit
      <3>2. Filled(r) = Base(r) .. (Base(r) + n - 1)
        BY <2>3, <3>1 DEF Filled
      <3>. QED  BY <2>1, <2>3, <3>1, <3>2
    <2>. QED  BY <2>2, <2>3
  <1>6. ASSUME NEW x \in Int, x \in Readable PROVE Served(x)
    <2>1. CASE x \in StackLive
      BY <1>2, <1>4, <2>1, Regions DEF Served
    <2>2. ASSUME NEW r \in Others, x \in Filled(r) PROVE Served(x)
      <3>1. /\ Contents(r) # NoBytes /\ Base(r) <= x
            /\ x < Base(r) + Len(Contents(r))
        BY <1>5, <2>2
      <3>2. Base(r) \in Int /\ Len(Contents(r)) \in Nat /\ Len(Contents(r)) < Gap /\ Gap \in Int
        BY <3>1, Window, ContentsFit, Layout
      <3>3. Classify(x) = r
        BY <3>1, <3>2, Window
      <3>. QED  BY <3>1, <3>3 DEF Served
    <2>. QED  BY <1>3, <1>6, <2>1, <2>2
  <1>7. ASSUME NEW x \in Int, Served(x) PROVE x \in Readable
    <2>1. CASE /\ Classify(x) = "Stack" /\ x < StackBase /\ Bit(initialized, x - Low)
      <3>1. x \in Low .. (StackBase - 1)
        BY <1>2, <2>1, Regions
      <3>. QED  BY <1>3, <1>4, <2>1, <3>1
    <2>2. ASSUME NEW r, r = Classify(x), r \in Others, Contents(r) # NoBytes,
                 x < Base(r) + Len(Contents(r))
          PROVE  x \in Readable
      <3>1. Base(r) <= x
        BY <2>2, Window
      <3>2. x \in Filled(r)
        BY <1>5, <2>2, <3>1
      <3>. QED  BY <1>3, <2>2, <3>2
    <2>. QED  BY <1>7, <2>1, <2>2 DEF Served
  <1>8. \A x \in Readable : x \in Int
    BY <1>2, <1>3, <1>4, <1>5
  <1>. QED  BY <1>6, <1>7, <1>8

\* What the checks of an access establish about the bytes from a on.
Whole(a, n) ==
    LET r == Classify(a)
    IN  /\ r # "Unknown" /\ Inside(r, a, n)
        /\ r = "Stack" => \A j \in (a - Low) .. (a - Low + n - 1) : Bit(initialized, j)

\* The bytes behind a served access all lie in the region of the first one.
LEMMA WholeIsServed ==
    ASSUME Fit, NEW a \in Int, NEW n \in Nat \ {0}, Whole(a, n)
    PROVE  \A x \in a .. (a + n - 1) : Served(x) /\ Classify(x) = Classify(a)
  <1>1. PICK r : r = Classify(a)
    OBVIOUS
  <1>2. /\ Low \in Int /\ StackBase = Low + StackSize /\ StackSize \in Nat /\ Gap \in Nat
    BY Layout
  <1>3. CASE r = "Stack"
    <2>1. a - Low <= StackSize - n /\ Low <= a
      BY <1>1, <1>3, Regions DEF Whole, Inside
    <2>2. ASSUME NEW x \in a .. (a + n - 1) PROVE Served(x) /\ Classify(x) = "Stack"
      <3>1. x \in Int /\ Low <= x /\ x < StackBase /\ x <= StackBase
        BY <1>2, <2>1
      <3>2. x - Low \in (a - Low) .. (a - Low + n - 1)
        BY <1>2
      <3>3. Classify(x) = "Stack"
        BY <3>1, Regions
      <3>. QED  BY <1>1, <1>3, <3>1, <3>2, <3>3 DEF Whole, Served
    <2>. QED  BY <1>1, <1>3, <2>2
  <1>4. CASE r # "Stack"
    <2>1. r \in Others
      BY <1>1, <1>4, Regions DEF Whole
    <2>2. Contents(r) # NoBytes /\ a - Base(r) + n <= Len(Contents(r))
      BY <1>1, <1>4 DEF Whole, Inside
    <2>3. Base(r) \in Int /\ Base(r) <= a /\ Len(Contents(r)) \in Nat /\ Len(Contents(r)) < Gap
      BY <1>1, <2>1, <2>2, Window, ContentsFit
    <2>4. ASSUME NEW x \in a .. (a + n - 1) PROVE Served(x) /\ Classify(x) = r
      <3>1. /\ x \in Int /\ Base(r) <= x /\ x < Base(r) + Gap
            /\ x < Base(r) + Len(Contents(r))
        BY <1>2, <2>2, <2>3
      <3>2. Classify(x) = r
        BY <2>1, <3>1, Window
      <3>. QED  BY <2>1, <2>2, <3>1, <3>2 DEF Served
    <2>. QED  BY <1>1, <2>4
  <1>. QED  BY <1>3, <1>4

\* Bytes that could each be loaded lie in one region, since no region fills
\* its window.
LEMMA ServedIsWhole ==
    ASSUME Fit, NEW a \in Int, NEW n \in Nat \ {0}, \A x \in a .. (a + n - 1) : Served(x)
    PROVE  Whole(a, n)
  <1>1. PICK r : r = Classify(a)
    OBVIOUS
  <1>2. /\ Low \in Int /\ StackBase = Low + StackSize /\ StackSize \in Nat /\ Gap \in Nat
    BY Layout
  <1>3. a \in a .. (a + n - 1)
    OBVIOUS
  <1>4. Served(a)
    BY <1>3
  <1>5. CASE r = "Stack"
    <2>1. Low <= a /\ a < StackBase
      BY <1>1, <1>4, <1>5, Regions DEF Served, Others
    <2>2. ASSUME a + n > StackBase PROVE FALSE
      <3>1. StackBase \in a .. (a + n - 1) /\ StackBase \in Int
        BY <1>2, <2>1, <2>2
      <3>2. Classify(StackBase) = "Stack"
        BY <1>2, <3>1, Regions
      <3>. QED  BY <1>2, <3>1, <3>2 DEF Served, Others
    <2>3. a - Low <= StackSize - n
      BY <1>2, <2>1, <2>2
    <2>4. ASSUME NEW j \in (a - Low) .. (a - Low + n - 1) PROVE Bit(initialized, j)
      <3>1. PICK x \in a .. (a + n - 1) : x = j + Low /\ x - Low = j
        BY <1>2
      <3>2. x \in Int /\ Low <= x /\ x <= StackBase
        BY <1>2, <2>1, <2>3, <3>1
      <3>3. Classify(x) = "Stack"
        BY <3>2, Regions
      <3>4. Bit(initialized, x - Low)
        BY <3>3 DEF Served, Others
      <3>. QED  BY <3>1, <3>4
    <2>. QED  BY <1>1, <1>5, <2>3, <2>4 DEF Whole, Inside
  <1>6. CASE r # "Stack"
    <2>1. r \in Others /\ Contents(r) # NoBytes /\ a < Base(r) + Len(Contents(r))
      BY <1>1, <1>4, <1>6 DEF Served
    <2>2. /\ Base(r) \in Int /\ Base(r) <= a /\ Len(Contents(r)) \in Nat
          /\ Len(Contents(r)) < Gap
      BY <1>1, <2>1, Window, ContentsFit
    <2>3. ASSUME a + n > Base(r) + Len(Contents(r)) PROVE FALSE
      <3>1. PICK x \in a .. (a + n - 1) : x = Base(r) + Len(Contents(r))
        BY <2>1, <2>2, <2>3
      <3>2. x \in Int /\ Base(r) <= x /\ x < Base(r) + Gap
        BY <1>2, <2>2, <3>1
      <3>3. Classify(x) = r
        BY <2>1, <3>2, Window
      <3>4. Served(x)
        OBVIOUS
      <3>5. x < Base(r) + Len(Contents(r))
        BY <1>6, <3>3, <3>4 DEF Served
      <3>. QED  BY <2>2, <3>1, <3>5
    <2>4. a - Base(r) + n <= Len(Contents(r))
      BY <2>2, <2>3
    <2>. QED  BY <1>1, <1>6, <2>1, <2>4 DEF Whole, Inside, Others
  <1>. QED  BY <1>5, <1>6

\* is_init byte by byte and at once.
LEMMA InitBits ==
    ASSUME Fit, NEW a \in Int, NEW n \in Nat \ {0}, Classify(a) = "Stack", Inside("Stack", a, n)
    PROVE  /\ n <= 64 => (IsInit(a - Low, n) <=>
                             \A j \in (a - Low) .. (a - Low + n - 1) : Bit(initialized, j))
           /\ (\A i \in 0 .. (n - 1) : IsInit(a - Low + i, 1)) <=>
                  \A j \in (a - Low) .. (a - Low + n - 1) : Bit(initialized, j)
  <1>1. initialized \in Masks
    BY DEF Fit, MemInv, TypeOK, Masks
  <1>2. PICK o \in Int : o = a - Low /\ o \in Offsets /\ o + n <= StackSize /\ StackSize \in Nat
    <2>1. Low <= a /\ Low \in Int /\ StackSize \in Nat /\ a - Low <= StackSize - n
      BY Regions, Layout DEF Inside
    <2>2. a - Low \in Int /\ a - Low + n <= StackSize
      BY <2>1
    <2>3. a - Low \in Offsets
      BY <2>1 DEF Offsets
    <2>. QED  BY <2>1, <2>2, <2>3
  <1>3. ASSUME n <= 64
        PROVE  IsInit(o, n) <=> \A j \in o .. (o + n - 1) : Bit(initialized, j)
    <2>1. n \in 1..64
      BY <1>3
    <2>. QED  BY <1>1, <1>2, <2>1, IsInitLooksAtAll
  <1>4. ASSUME NEW k \in o .. (o + n - 1)
        PROVE  IsInit(k, 1) <=> Bit(initialized, k)
    <2>1. k \in Offsets /\ 1 \in 1..64 /\ k + 1 <= StackSize
      BY <1>2 DEF Offsets
    <2>2. IsInit(k, 1) <=> \A j \in k .. (k + 1 - 1) : Bit(initialized, j)
      BY <1>1, <2>1, IsInitLooksAtAll
    <2>3. \A j : j \in k .. (k + 1 - 1) <=> j = k
      BY <1>2
    <2>. QED  BY <2>2, <2>3
  <1>5. /\ \A i \in 0 .. (n - 1) : o + i \in o .. (o + n - 1)
        /\ \A j \in o .. (o + n - 1) : j - o \in 0 .. (n - 1) /\ o + (j - o) = j
    BY <1>2
  <1>. QED  BY <1>2, <1>3, <1>4, <1>5

Aligned(a, w) == alignChecks => a % w = 0

\* The checks of a load: every byte is readable and the address is aligned.
LEMMA LoadChecks ==
    ASSUME Fit, NEW a \in Int, NEW w \in 1..64
    PROVE  LoadFault(a, w) = "none" <=> Whole(a, w) /\ Aligned(a, w)
  <1>1. PICK r : r = Classify(a)
    OBVIOUS
  <1>2. w \in Nat \ {0} /\ w <= 64
    OBVIOUS
  <1>3. Contents("Packet") = packet /\ (Misaligned(a, w) <=> ~ Aligned(a, w))
    BY DEF Contents, Misaligned, Aligned
  <1>4. BoundsFault(a, w) = "none" <=> r # "Unknown" /\ Inside(r, a, w) /\ Aligned(a, w)
    <2>1. r = "Packet" /\ packet = NoBytes => ~ Inside(r, a, w)
      BY <1>3 DEF Inside
    <2>. QED  BY <1>1, <1>3, <2>1 DEF BoundsFault
  <1>5. LoadFault(a, w) = "none" <=>
           BoundsFault(a, w) = "none" /\ (r = "Stack" => IsInit(a - Low, w))
    BY <1>1 DEF LoadFault
  <1>6. r = "Stack" /\ Inside(r, a, w) =>
           (IsInit(a - Low, w) <=> \A j \in (a - Low) .. (a - Low + w - 1) : Bit(initialized, j))
    BY <1>1, <1>2, InitBits
  <1>. QED  BY <1>1, <1>4, <1>5, <1>6 DEF Whole

\* The same in the terms of the flat memory.
LEMMA LoadServed ==
    ASSUME Fit, NEW a \in Int, NEW w \in 1..64
    PROVE  LoadFault(a, w) = "none" <=> a .. (a + w - 1) \subseteq Readable /\ Aligned(a, w)
  <1>1. w \in Nat \ {0}
    OBVIOUS
  <1>2. Whole(a, w) <=> \A x \in a .. (a + w - 1) : Served(x)
    BY <1>1, WholeIsServed, ServedIsWhole
  <1>3. \A x \in a .. (a + w - 1) : x \in Int
    OBVIOUS
  <1>. QED  BY <1>2, <1>3, LoadChecks, ReadableIsServed

-----------------------------------------------------------------------------
(***************************************************************************)
(* The flat memory: what is read                                           *)
(***************************************************************************)

LEMMA MemIs ==
    /\ DOMAIN mem = Readable
    /\ \A x \in Readable : mem[x] = ReadAt(Classify(x), x)
  BY DEF mem

\* An operation that touches no byte leaves the flat memory alone.
LEMMA Steady ==
    ASSUME UNCHANGED <<stack, staged>>
    PROVE  mem' = mem /\ writable' = writable
  <1>1. \A r \in Others : Contents(r)' = Contents(r)
    BY DEF Contents, Others, staged
  <1>2. \A r \in Others : Filled(r)' = Filled(r)
    BY <1>1 DEF Filled
  <1>3. StackLive' = StackLive
    BY DEF StackLive, stack
  <1>4. Readable' = Readable
    BY <1>2, <1>3 DEF Readable, Others
  <1>5. \A x \in Readable : ReadAt(Classify(x), x)' = ReadAt(Classify(x), x)
    BY DEF ReadAt, Contents, stack, staged
  <1>6. writable' = writable
    BY <1>2 DEF writable, Others
  <1>. QED  BY <1>4, <1>5, <1>6 DEF mem

LEMMA FaultsAreFaults ==
    ASSUME NEW a, NEW w
    PROVE  /\ BoundsFault(a, w) # "none" => BoundsFault(a, w) \in Flat!Faults
           /\ LoadFault(a, w) # "none" => LoadFault(a, w) \in Flat!Faults
           /\ StoreFault(a, w) # "none" => StoreFault(a, w) \in Flat!Faults
  <1>1. BoundsFault(a, w) # "none" => BoundsFault(a, w) \in Flat!Faults
    BY DEF BoundsFault, Flat!Faults
  <1>2. StoreFault(a, w) # "none" => StoreFault(a, w) \in Flat!Faults
    BY <1>1 DEF StoreFault, Flat!Faults
  <1>3. LoadFault(a, w) # "none" => LoadFault(a, w) \in Flat!Faults
    BY <1>1 DEF LoadFault, Flat!Faults
  <1>. QED  BY <1>1, <1>2, <1>3

LEMMA FlatInit == PayloadsFit /\ Init => Flat!Init
  <1> SUFFICES ASSUME PayloadsFit, Init PROVE Flat!Init
    OBVIOUS
  <1>1. Fit
    BY InitOK, Layout DEF Init, Fit
  <1>2. /\ \A x \in Offsets : ~ Bit(initialized, x)
        /\ Contents("Packet") = NoBytes /\ Contents("Rodata") = NoBytes
        /\ Contents("MapScratch") = <<>> /\ Contents("XdpMd") = NoContext
    <2>1. \A x \in Offsets : initialized[x \div 64] = {}
      BY WordOf DEF Init
    <2>. QED  BY <2>1 DEF Init, Contents, Bit
  <1>3. Len(NoContext) = 8 /\ \A i \in 1..8 : NoContext[i] = 0
    <2>1. \A i \in 1..8 : i = 1 \/ i = 2 \/ i = 3 \/ i = 4 \/ i = 5 \/ i = 6 \/ i = 7 \/ i = 8
      OBVIOUS
    <2>. QED  BY <2>1 DEF NoContext
  <1>4. /\ Low \in Int /\ StackBase = Low + StackSize /\ StackSize \in Nat
        /\ Base("XdpMd") = XdpMdBase /\ XdpMdBase \in Int /\ Gap > 8 /\ Gap \in Int
    BY Layout DEF Base
  <1>5. ASSUME NEW x \in Int PROVE Served(x) <=> x \in XdpMdBase .. (XdpMdBase + 8 - 1)
    <2>1. Classify(x) = "Stack" /\ x < StackBase => x - Low \in Offsets
      BY <1>4, Regions DEF Offsets
    <2>2. Served(x) => Classify(x) \in {"MapScratch", "XdpMd"}
      BY <1>2, <2>1 DEF Served, Others
    <2>3. Classify(x) = "MapScratch" => ~ Served(x)
      <3>1. Classify(x) = "MapScratch" => Base("MapScratch") <= x
        BY Window DEF Others
      <3>2. Base("MapScratch") \in Int
        BY Window DEF Others
      <3>3. Len(Contents("MapScratch")) = 0
        BY <1>2
      <3>. QED  BY <3>1, <3>2, <3>3 DEF Served
    <2>4. Classify(x) = "XdpMd" => (Served(x) <=> x < XdpMdBase + 8)
      <3>1. Contents("XdpMd") # NoBytes /\ Len(Contents("XdpMd")) = 8
        BY <1>2, <1>3, NoContextIsBytes, MemoryAssumption
      <3>. QED  BY <1>4, <3>1 DEF Served, Others
    <2>5. Classify(x) = "XdpMd" <=> XdpMdBase <= x /\ x < XdpMdBase + Gap
      BY Regions
    <2>. QED  BY <1>4, <2>2, <2>3, <2>4, <2>5
  <1>6. Readable = XdpMdBase .. (XdpMdBase + 8 - 1)
    <2>1. Readable \subseteq Int /\ \A x \in Int : x \in Readable <=> Served(x)
      BY <1>1, ReadableIsServed
    <2>2. \A x \in XdpMdBase .. (XdpMdBase + 8 - 1) : x \in Int
      BY <1>4
    <2>. QED  BY <1>5, <2>1, <2>2
  <1>7. ASSUME NEW x \in Readable PROVE mem[x] = 0
    <2>1. x \in Int /\ x - XdpMdBase + 1 \in 1..8 /\ XdpMdBase <= x /\ x < XdpMdBase + Gap
      <3>1. x \in Int /\ XdpMdBase <= x /\ x <= XdpMdBase + 7
        BY <1>4, <1>6
      <3>. QED  BY <1>4, <3>1
    <2>2. Classify(x) = "XdpMd"
      BY <2>1, Regions
    <2>3. mem[x] = NoContext[x - XdpMdBase + 1]
      BY <1>2, <1>4, <2>2, MemIs DEF ReadAt
    <2>. QED  BY <1>3, <2>1, <2>3
  <1>8. mem = [x \in Flat!Span(XdpMdBase, Len(NoContext)) |-> 0]
    <2>1. Flat!Span(XdpMdBase, Len(NoContext)) = Readable
      BY <1>3, <1>6 DEF Flat!Span
    <2>2. mem = [x \in Readable |-> mem[x]]
      BY DEF mem
    <2>. QED  BY <1>7, <2>1, <2>2
  <1>9. writable = Low .. (StackBase - 1)
    <2>1. Filled("MapScratch") = {}
      <3>1. Base("MapScratch") \in Int
        BY Window DEF Others
      <3>. QED  BY <1>2, <3>1 DEF Filled
    <2>. QED  BY <2>1 DEF writable
  <1>. QED  BY <1>8, <1>9 DEF Init, Flat!Init, Done, Flat!Done

LEMMA FlatLoad ==
    ASSUME Fit, NEW a \in Addrs, NEW w \in Widths, Load(a, w)
    PROVE  Flat!Load(a, w)
  <1>1. a \in Int /\ w \in 1..8 /\ w \in 1..64
    <2>1. a \in Int /\ w \in {1, 2, 4, 8}
      BY MemoryAssumption
    <2>. QED  BY <2>1
  <1>2. mem' = mem /\ writable' = writable /\ alignChecks' = alignChecks
    BY Steady DEF Load
  <1>3. /\ DOMAIN mem = Readable
        /\ LoadFault(a, w) = "none" <=> a .. (a + w - 1) \subseteq Readable /\ Aligned(a, w)
    BY <1>1, MemIs, LoadServed
  <1>4. CASE LoadFault(a, w) # "none"
    <2>1. ret' = Fault(LoadFault(a, w), a)
      BY <1>4 DEF Load, Loading
    <2>2. ret'.result \in Flat!Faults /\ ret'.addr = a
      BY <1>4, <2>1, FaultsAreFaults DEF Fault
    <2>. QED  BY <1>2, <1>3, <1>4, <2>2 DEF Flat!Load, Flat!Span, Flat!Aligned, Aligned
  <1>5. CASE LoadFault(a, w) = "none"
    <2>1. ret' = Loaded([i \in 0..7 |-> IF i < w THEN ReadAt(Classify(a), a + i) ELSE 0])
      BY <1>5 DEF Load, Loading
    <2>2. Whole(a, w)
      BY <1>1, <1>5, LoadChecks
    <2>3. \A x \in a .. (a + w - 1) : Classify(x) = Classify(a)
      BY <1>1, <2>2, WholeIsServed
    <2>4. \A i \in 0..7 : i < w => mem[a + i] = ReadAt(Classify(a), a + i)
      <3>1. \A i \in 0..7 : i < w => a + i \in a .. (a + w - 1)
        BY <1>1
      <3>. QED  BY <1>3, <1>5, <2>3, <3>1, MemIs
    <2>5. [i \in 0..7 |-> IF i < w THEN ReadAt(Classify(a), a + i) ELSE 0] =
          [i \in 0..7 |-> IF i < w THEN mem[a + i] ELSE 0]
      BY <2>4
    <2>. QED  BY <1>2, <1>3, <1>5, <2>1, <2>5
              DEF Flat!Load, Flat!Span, Flat!Aligned, Aligned, Loaded, Flat!Loaded
  <1>. QED  BY <1>4, <1>5

LEMMA LeastOffset ==
    ASSUME NEW S \in SUBSET Nat, S # {}
    PROVE  \E m \in S : \A k \in S : m <= k
  <1>1. PICK m \in S : \A k \in S : ~ (<<k, m>> \in OpToRel(<, Nat))
    BY NatLessThanWellFounded, WFMin, Zenon
  <1>2. \A k \in S : ~ (k < m)
    BY <1>1 DEF OpToRel
  <1>. QED  BY <1>2

\* A copy byte by byte fails exactly where a byte is not readable.
LEMMA SlowFaultsAre ==
    ASSUME Fit, NEW a \in Int, NEW n \in Nat
    PROVE  \A i \in 0 .. (n - 1) : i \in SlowFaults(a, n) <=> a + i \notin Readable
  <1> TAKE i \in 0 .. (n - 1)
  <1>1. PICK x \in Int : x = a + i
    OBVIOUS
  <1>2. Aligned(x, 1) /\ 1 \in 1..64
    BY DEF Aligned
  <1>3. LoadFault(x, 1) = "none" <=> x .. (x + 1 - 1) \subseteq Readable
    BY <1>2, LoadServed
  <1>4. \A y : y \in x .. (x + 1 - 1) <=> y = x
    BY <1>1
  <1>. QED  BY <1>1, <1>3, <1>4 DEF SlowFaults

LEMMA BulkIsWhole ==
    ASSUME Fit, NEW a \in Int, NEW n \in Nat \ {0}
    PROVE  BulkServes(a, n) <=> Whole(a, n)
  <1>1. Classify(a) = "Stack" /\ Inside("Stack", a, n) =>
          ((\A i \in 0 .. (n - 1) : IsInit(a - Low + i, 1)) <=>
               \A j \in (a - Low) .. (a - Low + n - 1) : Bit(initialized, j))
    BY InitBits
  <1>. QED  BY <1>1 DEF BulkServes, Whole

LEMMA FlatLoadBytes ==
    ASSUME Fit, NEW a \in Addrs, NEW n \in Lens, LoadBytes(a, n)
    PROVE  Flat!LoadBytes(a, n)
  <1>1. a \in Int /\ n \in Nat
    BY MemoryAssumption
  <1>2. mem' = mem /\ writable' = writable /\ alignChecks' = alignChecks
    BY Steady DEF LoadBytes
  <1>3. DOMAIN mem = Readable /\ \A x \in Readable : mem[x] = ReadAt(Classify(x), x)
    BY MemIs
  <1>4. ret' = Copying(a, n)
    BY DEF LoadBytes
  <1>5. \A i \in 0 .. (n - 1) : i \in SlowFaults(a, n) <=> a + i \notin Readable
    BY <1>1, SlowFaultsAre
  <1>6. SlowFaults(a, n) \subseteq 0 .. (n - 1)
    BY DEF SlowFaults
  <1>7. CASE SlowFaults(a, n) = {}
    <2>1. a .. (a + n - 1) \subseteq Readable
      <3>1. \A x \in a .. (a + n - 1) : x - a \in 0 .. (n - 1) /\ a + (x - a) = x
        BY <1>1
      <3>. QED  BY <1>5, <1>7, <3>1
    <2>2. ret' = Copied([i \in 1..n |-> mem[a + i - 1]])
      <3>1. CASE n = 0
        <4>1. <<>> = [i \in 1..n |-> mem[a + i - 1]]
          BY <3>1
        <4>. QED  BY <1>4, <3>1, <4>1 DEF Copying
      <3>2. CASE n # 0
        <4>1. n \in Nat \ {0}
          BY <1>1, <3>2
        <4>2. \A x \in a .. (a + n - 1) : x \in Int /\ Served(x)
          BY <1>1, <2>1, ReadableIsServed
        <4>3. Whole(a, n)
          BY <1>1, <4>1, <4>2, ServedIsWhole
        <4>4. \A x \in a .. (a + n - 1) : Classify(x) = Classify(a)
          BY <1>1, <4>1, <4>3, WholeIsServed
        <4>5. BulkServes(a, n)
          BY <1>1, <4>1, <4>3, BulkIsWhole
        <4>6. ret' = Copied([i \in 1..n |-> ReadAt(Classify(a), a + i - 1)])
          BY <1>4, <3>2, <4>5 DEF Copying
        <4>7. \A i \in 1..n : ReadAt(Classify(a), a + i - 1) = mem[a + i - 1]
          <5>1. \A i \in 1..n : a + i - 1 \in a .. (a + n - 1)
            BY <1>1
          <5>. QED  BY <1>3, <2>1, <4>4, <5>1
        <4>8. [i \in 1..n |-> ReadAt(Classify(a), a + i - 1)] = [i \in 1..n |-> mem[a + i - 1]]
          BY <4>7
        <4>. QED  BY <4>6, <4>8
      <3>. QED  BY <3>1, <3>2
    <2>. QED  BY <1>2, <1>3, <2>1, <2>2 DEF Flat!LoadBytes, Flat!Span, Copied, Flat!Copied
  <1>8. CASE SlowFaults(a, n) # {}
    <2>1. PICK i \in SlowFaults(a, n) : \A j \in SlowFaults(a, n) : i <= j
      <3>1. SlowFaults(a, n) \in SUBSET Nat
        BY <1>6
      <3>. QED  BY <1>8, <3>1, LeastOffset, Zenon
    <2>2. n \in Nat \ {0}
      BY <1>1, <1>6, <1>8
    <2>3. a + i \notin Readable /\ i \in 0 .. (n - 1) /\ a + i \in Int
      BY <1>1, <1>5, <1>6
    <2>4. ~ BulkServes(a, n)
      <3>1. ASSUME Whole(a, n) PROVE FALSE
        <4>1. a + i \in a .. (a + n - 1)
          BY <1>1, <2>3
        <4>2. Served(a + i)
          BY <1>1, <2>2, <3>1, <4>1, WholeIsServed
        <4>. QED  BY <2>3, <4>2, ReadableIsServed
      <3>. QED  BY <1>1, <2>2, <3>1, BulkIsWhole
    <2>5. PICK first : first = CHOOSE k \in SlowFaults(a, n) : \A j \in SlowFaults(a, n) : k <= j
      OBVIOUS
    <2>6. first \in SlowFaults(a, n) /\ \A j \in SlowFaults(a, n) : first <= j
      BY <2>1, <2>5
    <2>7. ret' = Fault(LoadFault(a + first, 1), a + first)
      BY <1>4, <1>8, <2>2, <2>4, <2>5 DEF Copying
    <2>8. first \in 0 .. (n - 1) /\ LoadFault(a + first, 1) # "none"
      BY <2>6 DEF SlowFaults
    <2>9. /\ ret'.result \in Flat!Faults /\ ret'.addr = a + first
      BY <2>7, <2>8, FaultsAreFaults DEF Fault
    <2>10. a + first \in a .. (a + n - 1) /\ a + first \notin Readable
      BY <1>1, <1>5, <2>6, <2>8
    <2>11. a .. (a + first - 1) \subseteq Readable
      <3>1. ASSUME NEW x \in a .. (a + first - 1) PROVE x \in Readable
        <4>1. x - a \in 0 .. (n - 1) /\ x - a < first /\ a + (x - a) = x
          BY <1>1, <2>8
        <4>2. x - a \notin SlowFaults(a, n)
          BY <1>1, <2>6, <2>8, <4>1
        <4>. QED  BY <1>5, <4>1, <4>2
      <3>. QED  BY <3>1
    <2>12. /\ ret'.addr \in (a .. (a + n - 1)) \ Readable
           /\ a .. (ret'.addr - 1) \subseteq Readable
      <3>1. PICK x : x = a + first
        OBVIOUS
      <3>2. x \in (a .. (a + n - 1)) \ Readable /\ a .. (x - 1) \subseteq Readable
        BY <1>1, <2>8, <2>10, <2>11, <3>1
      <3>3. ret'.addr = x
        BY <2>9, <3>1
      <3>. QED  BY <3>2, <3>3, Zenon
    <2>. QED  BY <1>2, <1>3, <2>9, <2>12 DEF Flat!LoadBytes, Flat!Span
  <1>. QED  BY <1>7, <1>8

-----------------------------------------------------------------------------
(***************************************************************************)
(* The flat memory: what is stored                                         *)
(***************************************************************************)

LEMMA WritableIs ==
    ASSUME Fit
    PROVE  \A x : x \in writable <=>
              \/ x \in Int /\ Low <= x /\ x < StackBase
              \/ x \in Int /\ MapScratchBase <= x /\ x < MapScratchBase + Len(mapScratch)
  <1>1. Low \in Int /\ StackBase \in Int /\ MapScratchBase \in Int
    BY Layout
  <1>2. mapScratch # NoBytes /\ Len(mapScratch) \in Nat
    BY MemoryAssumption DEF Fit, MemInv, TypeOK
  <1>3. Filled("MapScratch") = MapScratchBase .. (MapScratchBase + Len(mapScratch) - 1)
    BY <1>2 DEF Filled, Contents, Base
  <1>4. PICK len \in Nat : len = Len(mapScratch)
    BY <1>2
  <1>5. \A x : x \in MapScratchBase .. (MapScratchBase + len - 1) <=>
                 x \in Int /\ MapScratchBase <= x /\ x < MapScratchBase + len
    BY <1>1
  <1>6. \A x : x \in Low .. (StackBase - 1) <=> x \in Int /\ Low <= x /\ x < StackBase
    BY <1>1
  <1>. QED  BY <1>3, <1>4, <1>5, <1>6 DEF writable

\* The checks of a store: every byte is writable and the address is aligned.
LEMMA StoreChecks ==
    ASSUME Fit, NEW a \in Addrs, NEW w \in Widths
    PROVE  StoreFault(a, w) = "none" <=> a .. (a + w - 1) \subseteq writable /\ Aligned(a, w)
  <1>1. a \in Int /\ w \in 1..8
    <2>1. a \in Int /\ w \in {1, 2, 4, 8}
      BY MemoryAssumption
    <2>. QED  BY <2>1
  <1>2. PICK n \in Nat, size \in Nat, len \in Nat :
           /\ n = Gap /\ size = StackSize /\ size <= n /\ size >= 64
           /\ len = Len(mapScratch) /\ len < n
    <2>1. mapScratch \in Seq(Byte) /\ Len(mapScratch) < Gap
      BY DEF Fit, MemInv, TypeOK
    <2>2. Len(mapScratch) \in Nat
      BY <2>1
    <2>. QED  BY <2>1, <2>2, Layout
  <1>3. StackBase = n /\ Low = n - size /\ MapScratchBase = 3 * n
    BY <1>2, Layout
  <1>4. \A x \in Int :
           x \in writable <=> (n - size <= x /\ x < n) \/ (3 * n <= x /\ x < 3 * n + len)
    BY <1>2, <1>3, WritableIs
  <1>5. /\ Classify(a) = "Stack" <=> n - size <= a /\ a <= n
        /\ Classify(a) = "MapScratch" <=> 3 * n <= a /\ a < 3 * n + n
    BY <1>1, <1>2, <1>3, Regions
  <1>6. Misaligned(a, w) <=> ~ Aligned(a, w)
    BY DEF Misaligned, Aligned
  <1>7. StoreFault(a, w) = "none" <=>
           /\ Classify(a) \in {"Stack", "MapScratch"} /\ Inside(Classify(a), a, w)
           /\ Aligned(a, w)
    BY <1>6 DEF StoreFault, BoundsFault
  <1>8. /\ Inside("Stack", a, w) <=> a - (n - size) <= size - w
        /\ Inside("MapScratch", a, w) <=> a - 3 * n + w <= len
    <2>1. mapScratch # NoBytes
      BY MemoryAssumption DEF Fit, MemInv, TypeOK
    <2>. QED  BY <1>2, <1>3, <2>1 DEF Inside, Contents, Base
  <1>9. ASSUME Classify(a) \in {"Stack", "MapScratch"}, Inside(Classify(a), a, w)
        PROVE  a .. (a + w - 1) \subseteq writable
    BY <1>1, <1>2, <1>4, <1>5, <1>8, <1>9
  <1>10. ASSUME a .. (a + w - 1) \subseteq writable
         PROVE  Classify(a) \in {"Stack", "MapScratch"} /\ Inside(Classify(a), a, w)
    <2>1. a \in a .. (a + w - 1) /\ a + w - 1 \in a .. (a + w - 1)
      BY <1>1
    <2>2. a \in writable /\ a + w - 1 \in writable
      BY <1>10, <2>1
    <2>. QED  BY <1>1, <1>2, <1>4, <1>5, <1>8, <2>2
  <1>. QED  BY <1>7, <1>9, <1>10

LEMMA ServedNext ==
    Fit' => (Readable \subseteq Int /\ \A x \in Int : x \in Readable <=> Served(x))'
  <1>1. Fit => (Readable \subseteq Int /\ \A x \in Int : x \in Readable <=> Served(x))
    BY ReadableIsServed
  <1>. QED  BY <1>1, PTL

LEMMA MemNext ==
    (DOMAIN mem = Readable /\ \A x \in Readable : mem[x] = ReadAt(Classify(x), x))'
  BY MemIs, PTL

LEMMA FlatStoreStack ==
    ASSUME Fit, Fit', NEW a \in Addrs, NEW w \in Widths, NEW v \in Words,
           StoreFault(a, w) = "none", Classify(a) = "Stack",
           bytes' = [i \in Offsets |->
                       IF i \in (a - Low) .. (a - Low + w - 1) THEN v[i - (a - Low)] ELSE bytes[i]],
           initialized' = Marked(a - Low, w), UNCHANGED staged
    PROVE  /\ mem' = [x \in DOMAIN mem \cup Flat!Span(a, w) |->
                         IF x \in Flat!Span(a, w) THEN v[x - a] ELSE mem[x]]
           /\ writable' = writable
  <1>1. PICK o \in Offsets : /\ o = a - Low /\ a \in Int /\ w \in 1..8 /\ w \in 1..64
                             /\ o + w <= StackSize
    <2>1. a \in Int /\ w \in 1..8 /\ a - Low \in Offsets /\ a - Low + w <= StackSize
      BY StoreServed DEF Fit, MemInv
    <2>2. w \in 1..64
      BY <2>1
    <2>. QED  BY <2>1, <2>2
  <1>2. /\ Low \in Int /\ StackBase = Low + StackSize /\ StackSize \in Nat
    BY Layout
  <1>3. \A j \in Offsets :
           Bit(initialized', j) <=> Bit(initialized, j) \/ j \in o .. (o + w - 1)
    <2>1. initialized \in Masks
      BY DEF Fit, MemInv, TypeOK, Masks
    <2>. QED  BY <1>1, <2>1, MarkedMarksAll
  <1>4. \A r \in Others : Contents(r)' = Contents(r)
    BY DEF Contents, Others, staged
  <1>5. ASSUME NEW x \in Int
        PROVE  /\ x \in Flat!Span(a, w) <=> /\ Classify(x) = "Stack" /\ x < StackBase
                                            /\ x - Low \in Offsets /\ x - Low \in o .. (o + w - 1)
               /\ Classify(x) = "Stack" /\ x < StackBase => x - Low \in Offsets
    <2>1. Classify(x) = "Stack" <=> Low <= x /\ x <= StackBase
      BY Regions
    <2>2. x \in Flat!Span(a, w) <=> x \in a .. (a + w - 1)
      BY DEF Flat!Span
    <2>3. o \in Nat /\ Offsets = 0 .. (StackSize - 1)
      BY <1>1 DEF Offsets
    <2>. QED  BY <1>1, <1>2, <2>1, <2>2, <2>3
  <1>6. ASSUME NEW x \in Int
        PROVE  Served(x)' <=> Served(x) \/ x \in Flat!Span(a, w)
    BY <1>3, <1>4, <1>5 DEF Served, Others
  <1>7. Readable' = Readable \cup Flat!Span(a, w)
    <2>1. /\ Readable \subseteq Int /\ \A x \in Int : x \in Readable <=> Served(x)
          /\ Readable' \subseteq Int /\ \A x \in Int : x \in Readable' <=> Served(x)'
      BY ReadableIsServed, ServedNext
    <2>2. Flat!Span(a, w) \subseteq Int
      BY <1>1 DEF Flat!Span
    <2>. QED  BY <1>6, <2>1, <2>2
  <1>8. ASSUME NEW x \in Readable'
        PROVE  mem'[x] = IF x \in Flat!Span(a, w) THEN v[x - a] ELSE mem[x]
    <2>1. x \in Int /\ mem'[x] = ReadAt(Classify(x), x)'
      BY ServedNext, MemNext
    <2>2. CASE x \in Flat!Span(a, w)
      <3>1. /\ Classify(x) = "Stack" /\ x - Low \in Offsets
            /\ x - Low \in o .. (o + w - 1)
        BY <1>5, <2>1, <2>2
      <3>2. mem'[x] = bytes'[x - Low]
        BY <2>1, <3>1 DEF ReadAt
      <3>3. bytes'[x - Low] = v[x - Low - o]
        BY <1>1, <3>1
      <3>4. x - Low - o = x - a
        BY <1>1, <1>2, <2>1
      <3>. QED  BY <2>2, <3>2, <3>3, <3>4
    <2>3. CASE x \notin Flat!Span(a, w)
      <3>1. x \in Readable /\ mem[x] = ReadAt(Classify(x), x)
        BY <1>7, <2>3, MemIs
      <3>2. CASE Classify(x) = "Stack"
        <4>1. x < StackBase
          BY <2>1, <3>1, <3>2, ReadableIsServed DEF Served, Others
        <4>2. x - Low \in Offsets /\ x - Low \notin o .. (o + w - 1)
          BY <1>5, <2>1, <2>3, <3>2, <4>1
        <4>3. bytes'[x - Low] = bytes[x - Low]
          BY <1>1, <4>2
        <4>. QED  BY <2>1, <2>3, <3>1, <3>2, <4>3 DEF ReadAt
      <3>3. CASE Classify(x) # "Stack"
        <4>1. Classify(x) \in Others
          BY <2>1, <3>1, <3>3, ReadableIsServed DEF Served
        <4>. QED  BY <1>4, <2>1, <2>3, <3>1, <3>3, <4>1 DEF ReadAt
      <3>. QED  BY <3>2, <3>3
    <2>. QED  BY <2>2, <2>3
  <1>9. writable' = writable
    BY <1>4 DEF writable, Filled, Others
  <1>10. DOMAIN mem = Readable /\ DOMAIN mem' = Readable' /\ mem' = [x \in Readable' |-> mem'[x]]
    BY MemIs, MemNext DEF mem
  <1>. QED  BY <1>7, <1>8, <1>9, <1>10

-----------------------------------------------------------------------------
(***************************************************************************)
(* The flat memory: what is staged.  `c` gives, for the regions of T, the  *)
(* bytes they hold from now on; None is an empty region.                   *)
(***************************************************************************)

LEMMA Staged ==
    ASSUME Fit, Fit', UNCHANGED stack, NEW T \in SUBSET Others, NEW c,
           \A r \in T : /\ c[r] \in Seq(Byte)
                        /\ Contents(r)' = c[r] \/ (Contents(r)' = NoBytes /\ c[r] = <<>>),
           \A r \in Others \ T : Contents(r)' = Contents(r)
    PROVE  /\ \A x \in Int : x \in Readable' <=>
                 IF Classify(x) \in T THEN x < Base(Classify(x)) + Len(c[Classify(x)])
                 ELSE x \in Readable
           /\ \A x \in Readable' : mem'[x] =
                 IF Classify(x) \in T THEN c[Classify(x)][x - Base(Classify(x)) + 1]
                 ELSE mem[x]
  <1>1. bytes' = bytes /\ initialized' = initialized
    BY DEF stack
  <1>2. ASSUME NEW x \in Int, NEW r, r = Classify(x), r \in T
        PROVE  /\ Served(x)' <=> x < Base(r) + Len(c[r])
               /\ Served(x)' => ReadAt(r, x)' = c[r][x - Base(r) + 1]
    <2>1. r \in Others /\ r # "Stack"
      BY <1>2 DEF Others
    <2>2. Served(x)' <=> Contents(r)' # NoBytes /\ x < Base(r) + Len(Contents(r)')
      BY <1>2, <2>1 DEF Served
    <2>3. ReadAt(r, x)' = Contents(r)'[x - Base(r) + 1]
      BY <2>1 DEF ReadAt
    <2>4. CASE Contents(r)' = c[r]
      <3>1. c[r] # NoBytes
        BY <1>2, MemoryAssumption
      <3>. QED  BY <2>2, <2>3, <2>4, <3>1
    <2>5. CASE Contents(r)' = NoBytes /\ c[r] = <<>>
      <3>1. Base(r) \in Int /\ Base(r) <= x /\ Len(c[r]) = 0
        BY <1>2, <2>1, <2>5, Window
      <3>. QED  BY <2>2, <2>5, <3>1
    <2>. QED  BY <1>2, <2>4, <2>5
  <1>3. ASSUME NEW x \in Int, Classify(x) \notin T
        PROVE  /\ Served(x)' <=> Served(x)
               /\ Served(x) => ReadAt(Classify(x), x)' = ReadAt(Classify(x), x)
    BY <1>1, <1>3 DEF Served, ReadAt
  <1>4. /\ \A x \in Int : x \in Readable <=> Served(x)
        /\ Readable' \subseteq Int /\ \A x \in Int : x \in Readable' <=> Served(x)'
    BY ReadableIsServed, ServedNext
  <1>5. /\ \A x \in Readable : mem[x] = ReadAt(Classify(x), x)
        /\ \A x \in Readable' : mem'[x] = ReadAt(Classify(x), x)'
    BY MemIs, MemNext
  <1>. QED  BY <1>2, <1>3, <1>4, <1>5

\* Addresses below RodataBase + Gap, which every readable address is.
Mapped == {x \in Int : Classify(x) = "Rodata" => x < RodataBase + Gap}

LEMMA ReadableIsMapped ==
    ASSUME Fit
    PROVE  Readable \subseteq Mapped
  <1>1. ASSUME NEW x \in Readable, Classify(x) = "Rodata" PROVE x < RodataBase + Gap
    <2>1. "Rodata" \in Others /\ x \in Int /\ Base("Rodata") = RodataBase
      BY ReadableIsServed DEF Others, Base
    <2>2. Contents("Rodata") # NoBytes /\ x < RodataBase + Len(Contents("Rodata"))
      BY <1>1, <2>1, ReadableIsServed DEF Served
    <2>3. Len(Contents("Rodata")) \in Nat /\ Len(Contents("Rodata")) < Gap
      BY <2>1, <2>2, ContentsFit
    <2>. QED  BY <2>1, <2>2, <2>3, Layout
  <1>. QED  BY <1>1, ReadableIsServed DEF Mapped

LEMMA MappedNext == Fit' => (Readable \subseteq Mapped)'
  <1>1. Fit => Readable \subseteq Mapped
    BY ReadableIsMapped
  <1>. QED  BY <1>1, PTL

\* What Flat!Replace does to the window of a region.
LEMMA Replaced ==
    ASSUME NEW r \in Others, NEW m, DOMAIN m \subseteq Mapped,
           NEW s \in Seq(Byte), Len(s) < Gap
    PROVE  /\ \A x : x \in DOMAIN Flat!Replace(m, Base(r), s) <=>
                 x \in Mapped /\ IF Classify(x) = r THEN x < Base(r) + Len(s) ELSE x \in DOMAIN m
           /\ \A x \in DOMAIN Flat!Replace(m, Base(r), s) : Flat!Replace(m, Base(r), s)[x] =
                 IF Classify(x) = r THEN s[x - Base(r) + 1] ELSE m[x]
           /\ Flat!Replace(m, Base(r), s) =
                 [x \in DOMAIN Flat!Replace(m, Base(r), s) |-> Flat!Replace(m, Base(r), s)[x]]
  <1>1. PICK b \in Int, g \in Int, n \in Nat : b = Base(r) /\ g = Gap /\ n = Len(s) /\ n < g
    BY Window, Layout
  <1>2. \A x : x \in Mapped => (x \in Int /\ (Classify(x) = r <=> b <= x /\ x < b + g))
    <2>1. ASSUME NEW x \in Mapped PROVE x \in Int /\ (Classify(x) = r <=> b <= x /\ x < b + g)
      <3>1. x \in Int
        BY DEF Mapped
      <3>2. b <= x /\ x < b + g => Classify(x) = r
        BY <1>1, <3>1, Window
      <3>3. Classify(x) = r => b <= x
        BY <1>1, <3>1, Window
      <3>4. Classify(x) = r => x < b + g
        <4>1. CASE r = "Rodata"
          <5>1. b = RodataBase
            BY <1>1, <4>1 DEF Base
          <5>. QED  BY <1>1, <4>1, <5>1 DEF Mapped
        <4>2. CASE r = "Packet"
          BY <1>1, <3>1, <4>2, Regions, Layout DEF Base
        <4>3. CASE r = "MapScratch"
          BY <1>1, <3>1, <4>3, Regions, Layout DEF Base
        <4>4. CASE r = "XdpMd"
          BY <1>1, <3>1, <4>4, Regions, Layout DEF Base
        <4>. QED  BY <4>1, <4>2, <4>3, <4>4 DEF Others
      <3>. QED  BY <3>1, <3>2, <3>3, <3>4
    <2>. QED  BY <2>1
  <1>3. \A x : x \in b .. (b + n - 1) <=> x \in Mapped /\ Classify(x) = r /\ x < b + n
    <2>1. ASSUME NEW x \in b .. (b + n - 1) PROVE x \in Mapped /\ Classify(x) = r /\ x < b + n
      <3>1. x \in Int /\ b <= x /\ x < b + g /\ x < b + n
        BY <1>1
      <3>2. Classify(x) = r
        BY <1>1, <3>1, Window
      <3>3. r = "Rodata" => b = RodataBase
        BY <1>1 DEF Base
      <3>. QED  BY <1>1, <3>1, <3>2, <3>3 DEF Mapped
    <2>. QED  BY <1>1, <1>2, <2>1
  <1>4. \A x \in Mapped : x \in b .. (b + g - 1) <=> Classify(x) = r
    BY <1>1, <1>2
  <1>5. Flat!Replace(m, b, s) =
          [x \in {y \in DOMAIN m : y \notin b .. (b + g - 1)} \cup b .. (b + n - 1) |->
              IF x \in b .. (b + n - 1) THEN s[x - b + 1] ELSE m[x]]
    BY <1>1 DEF Flat!Replace, Flat!Span
  <1>6. PICK q : q = Flat!Replace(m, b, s)
    OBVIOUS
  <1>7. DOMAIN q = {y \in DOMAIN m : y \notin b .. (b + g - 1)} \cup b .. (b + n - 1)
    BY <1>5, <1>6
  <1>8. \A x : x \in DOMAIN q <=>
           x \in Mapped /\ IF Classify(x) = r THEN x < b + n ELSE x \in DOMAIN m
    BY <1>3, <1>4, <1>7
  <1>9. \A x \in DOMAIN q : q[x] = IF Classify(x) = r THEN s[x - b + 1] ELSE m[x]
    BY <1>3, <1>5, <1>6, <1>7, <1>8
  <1>10. q = [x \in DOMAIN q |-> q[x]]
    BY <1>5, <1>6
  <1>. QED  BY <1>1, <1>6, <1>8, <1>9, <1>10

\* One region now holds the bytes s.
LEMMA StagedOne ==
    ASSUME Fit, Fit', UNCHANGED stack, NEW r \in Others, NEW s \in Seq(Byte),
           Contents(r)' = s, \A t \in Others \ {r} : Contents(t)' = Contents(t)
    PROVE  /\ \A x \in Int : x \in Readable' <=>
                 IF Classify(x) = r THEN x < Base(r) + Len(s) ELSE x \in Readable
           /\ \A x \in Readable' : mem'[x] =
                 IF Classify(x) = r THEN s[x - Base(r) + 1] ELSE mem[x]
  <1>1. PICK c : c = [t \in {r} |-> s]
    OBVIOUS
  <1>2. {r} \in SUBSET Others /\ c[r] = s
    BY <1>1
  <1>3. \A t \in {r} : /\ c[t] \in Seq(Byte)
                       /\ Contents(t)' = c[t] \/ (Contents(t)' = NoBytes /\ c[t] = <<>>)
    BY <1>2
  <1>4. PICK T : T = {r} /\ T \in SUBSET Others
    BY <1>2
  <1>5. /\ \A x \in Int : x \in Readable' <=>
              IF Classify(x) \in T THEN x < Base(Classify(x)) + Len(c[Classify(x)])
              ELSE x \in Readable
        /\ \A x \in Readable' : mem'[x] =
              IF Classify(x) \in T THEN c[Classify(x)][x - Base(Classify(x)) + 1]
              ELSE mem[x]
    BY <1>3, <1>4, Staged
  <1>. QED  BY <1>2, <1>4, <1>5

\* The new memory is the old one with the window of that region replaced.
LEMMA StagedReplaces ==
    ASSUME Fit, Fit', UNCHANGED stack, NEW r \in Others, NEW s \in Seq(Byte), Len(s) < Gap,
           Contents(r)' = s, \A t \in Others \ {r} : Contents(t)' = Contents(t)
    PROVE  mem' = Flat!Replace(mem, Base(r), s)
  <1>1. /\ \A x \in Int : x \in Readable' <=>
              IF Classify(x) = r THEN x < Base(r) + Len(s) ELSE x \in Readable
        /\ \A x \in Readable' : mem'[x] =
              IF Classify(x) = r THEN s[x - Base(r) + 1] ELSE mem[x]
    BY StagedOne
  <1>2. DOMAIN mem = Readable /\ Readable \subseteq Mapped
    BY MemIs, ReadableIsMapped
  <1>3. PICK q : q = Flat!Replace(mem, Base(r), s)
    OBVIOUS
  <1>4. /\ \A x : x \in DOMAIN q <=>
              x \in Mapped /\ IF Classify(x) = r THEN x < Base(r) + Len(s) ELSE x \in Readable
        /\ \A x \in DOMAIN q : q[x] = IF Classify(x) = r THEN s[x - Base(r) + 1] ELSE mem[x]
        /\ q = [x \in DOMAIN q |-> q[x]]
    BY <1>2, <1>3, Replaced
  <1>5. Readable' \subseteq Mapped /\ \A x \in Mapped : x \in Int
    BY MappedNext DEF Mapped
  <1>6. DOMAIN q = Readable'
    BY <1>1, <1>4, <1>5
  <1>7. \A x \in Readable' : q[x] = mem'[x]
    BY <1>1, <1>4, <1>6
  <1>8. DOMAIN mem' = Readable' /\ mem' = [x \in Readable' |-> mem'[x]]
    BY MemNext DEF mem
  <1>. QED  BY <1>3, <1>4, <1>6, <1>7, <1>8

\* The address x as an index of the region at b, the store beginning at a.
LEMMA IndexOf ==
    ASSUME NEW a \in Int, NEW b \in Int, NEW x \in Int, NEW w \in Int, NEW i \in Int, i = x - b + 1
    PROVE  /\ i - 1 - (a - b) = x - a
           /\ x \in a .. (a + w - 1) <=> i - 1 \in (a - b) .. (a - b + w - 1)
  OBVIOUS

LEMMA FlatStoreScratch ==
    ASSUME Fit, Fit', NEW a \in Addrs, NEW w \in Widths, NEW v \in Words,
           StoreFault(a, w) = "none", Classify(a) = "MapScratch",
           mapScratch' = [i \in DOMAIN mapScratch |->
                            IF i - 1 \in (a - MapScratchBase) .. (a - MapScratchBase + w - 1)
                            THEN v[i - 1 - (a - MapScratchBase)] ELSE mapScratch[i]],
           UNCHANGED <<stack, packet, xdpMd, rodata>>
    PROVE  /\ mem' = [x \in DOMAIN mem \cup Flat!Span(a, w) |->
                         IF x \in Flat!Span(a, w) THEN v[x - a] ELSE mem[x]]
           /\ writable' = writable
  <1>1. /\ a \in Int /\ w \in 1..8 /\ a - MapScratchBase \in Nat
        /\ a - MapScratchBase + w <= Len(mapScratch)
    BY StoreServed DEF Fit, MemInv
  <1>2. PICK b \in Int, g \in Nat, n \in Nat : /\ b = MapScratchBase /\ b = Base("MapScratch")
                                               /\ g = Gap /\ n = Len(mapScratch) /\ n < g
    <2>1. mapScratch \in Seq(Byte) /\ Len(mapScratch) < Gap
      BY DEF Fit, MemInv, TypeOK
    <2>2. Len(mapScratch) \in Nat
      BY <2>1
    <2>3. Base("MapScratch") = MapScratchBase /\ MapScratchBase \in Int /\ Gap \in Nat
      BY Layout DEF Base
    <2>. QED  BY <2>1, <2>2, <2>3
  <1>3. mapScratch \in Seq(Byte) /\ mapScratch' \in Seq(Byte) /\ DOMAIN mapScratch = 1..n
    <2>1. mapScratch \in Seq(Byte) /\ mapScratch' \in Seq(Byte)
      BY DEF Fit, MemInv, TypeOK
    <2>. QED  BY <1>2, <2>1
  <1>4. Len(mapScratch') = n
    <2>1. DOMAIN mapScratch' = 1..n
      BY <1>3
    <2>. QED  BY <1>2, <1>3, <2>1
  <1>5. /\ "MapScratch" \in Others
        /\ Contents("MapScratch")' = mapScratch' /\ Contents("MapScratch") = mapScratch
        /\ \A t \in Others \ {"MapScratch"} : Contents(t)' = Contents(t)
    BY DEF Contents, Others
  <1>6. /\ \A x \in Int : x \in Readable' <=>
              IF Classify(x) = "MapScratch" THEN x < b + n ELSE x \in Readable
        /\ \A x \in Readable' : mem'[x] =
              IF Classify(x) = "MapScratch" THEN mapScratch'[x - b + 1] ELSE mem[x]
    BY <1>2, <1>3, <1>4, <1>5, StagedOne
  <1>7. \A x \in Int : Classify(x) = "MapScratch" =>
             (x \in Readable <=> x < b + n) /\ (x \in Readable => mem[x] = mapScratch[x - b + 1])
    <2>1. ASSUME NEW x \in Int, Classify(x) = "MapScratch"
          PROVE  (x \in Readable <=> x < b + n) /\ (x \in Readable => mem[x] = mapScratch[x - b + 1])
      <3>1. mapScratch # NoBytes
        BY <1>3, MemoryAssumption
      <3>2. x \in Readable <=> x < b + n
        BY <1>2, <1>5, <2>1, <3>1, ReadableIsServed DEF Served
      <3>3. x \in Readable => mem[x] = mapScratch[x - b + 1]
        BY <1>2, <1>5, <2>1, MemIs DEF ReadAt
      <3>. QED  BY <3>2, <3>3
    <2>. QED  BY <2>1
  <1>8. Readable' = Readable
    <2>1. Readable \subseteq Int /\ Readable' \subseteq Int
      BY ReadableIsServed, ServedNext
    <2>. QED  BY <1>6, <1>7, <2>1
  <1>9. \A x \in Flat!Span(a, w) : x \in Int /\ Classify(x) = "MapScratch" /\ x \in Readable
    <2>1. ASSUME NEW x \in Flat!Span(a, w)
          PROVE  x \in Int /\ Classify(x) = "MapScratch" /\ x \in Readable
      <3>1. x \in Int /\ a <= x /\ x <= a + w - 1
        BY <1>1, <2>1 DEF Flat!Span
      <3>2. b <= x /\ x < b + n /\ x < b + g
        BY <1>1, <1>2, <3>1
      <3>3. Classify(x) = "MapScratch"
        BY <1>2, <1>5, <3>1, <3>2, Window
      <3>. QED  BY <1>7, <3>1, <3>2, <3>3
    <2>. QED  BY <2>1
  <1>10. ASSUME NEW x \in Readable
         PROVE  mem'[x] = IF x \in Flat!Span(a, w) THEN v[x - a] ELSE mem[x]
    <2>1. x \in Int /\ x \in Readable'
      BY <1>8, ReadableIsServed
    <2>2. CASE Classify(x) # "MapScratch"
      BY <1>6, <1>9, <2>1, <2>2
    <2>3. CASE Classify(x) = "MapScratch"
      <3>1. b <= x /\ x < b + n
        BY <1>2, <1>5, <1>7, <2>1, <2>3, Window
      <3>2. PICK i \in 1..n : i = x - b + 1 /\ i \in Int
        BY <1>2, <2>1, <3>1
      <3>3. a \in Int /\ b \in Int /\ x \in Int /\ w \in Int /\ i \in Int /\ i = x - b + 1
        BY <1>1, <1>2, <2>1, <3>2
      <3>4. /\ i - 1 - (a - b) = x - a
            /\ x \in a .. (a + w - 1) <=> i - 1 \in (a - b) .. (a - b + w - 1)
        BY <3>3, IndexOf
      <3>5. mapScratch'[i] = IF x \in Flat!Span(a, w) THEN v[x - a] ELSE mapScratch[i]
        BY <1>2, <1>3, <3>2, <3>4 DEF Flat!Span
      <3>6. mem'[x] = mapScratch'[i] /\ mem[x] = mapScratch[i]
        BY <1>6, <1>7, <2>1, <2>3, <3>2
      <3>. QED  BY <3>5, <3>6
    <2>. QED  BY <2>2, <2>3
  <1>11. writable' = writable
    <2>1. mapScratch # NoBytes /\ mapScratch' # NoBytes
      BY <1>3, MemoryAssumption
    <2>2. Filled("MapScratch")' = Filled("MapScratch")
      BY <1>2, <1>4, <1>5, <2>1 DEF Filled
    <2>. QED  BY <2>2 DEF writable
  <1>12. /\ DOMAIN mem = Readable /\ mem' = [x \in Readable |-> mem'[x]]
         /\ Readable \cup Flat!Span(a, w) = Readable
    BY <1>8, <1>9, MemIs, MemNext DEF mem
  <1>. QED  BY <1>10, <1>11, <1>12

\* The packet and its context change together.
LEMMA StagedPair ==
    ASSUME Fit, Fit', UNCHANGED stack, UNCHANGED <<mapScratch, rodata>>,
           NEW p \in Seq(Byte), Len(p) < Gap, NEW k \in Seq(Byte), Len(k) < Gap,
           packet' = p \/ (packet' = NoBytes /\ p = <<>>), xdpMd' = k
    PROVE  mem' = Flat!Replace(Flat!Replace(mem, PacketBase, p), XdpMdBase, k)
  <1>1. PICK c : c = [t \in {"Packet", "XdpMd"} |-> IF t = "Packet" THEN p ELSE k]
    OBVIOUS
  <1>2. PICK T : T = {"Packet", "XdpMd"} /\ T \in SUBSET Others
    BY DEF Others
  <1>3. c["Packet"] = p /\ c["XdpMd"] = k
    BY <1>1
  <1>4. /\ Contents("Packet")' = packet' /\ Contents("XdpMd")' = xdpMd'
        /\ \A r \in Others \ T : Contents(r)' = Contents(r)
    BY <1>2 DEF Contents, Others
  <1>5. \A r \in T : /\ c[r] \in Seq(Byte)
                     /\ Contents(r)' = c[r] \/ (Contents(r)' = NoBytes /\ c[r] = <<>>)
    BY <1>2, <1>3, <1>4
  <1>6. /\ \A x \in Int : x \in Readable' <=>
              IF Classify(x) \in T THEN x < Base(Classify(x)) + Len(c[Classify(x)])
              ELSE x \in Readable
        /\ \A x \in Readable' : mem'[x] =
              IF Classify(x) \in T THEN c[Classify(x)][x - Base(Classify(x)) + 1]
              ELSE mem[x]
    BY <1>2, <1>4, <1>5, Staged
  <1>7. /\ "Packet" \in Others /\ "XdpMd" \in Others
        /\ Base("Packet") = PacketBase /\ Base("XdpMd") = XdpMdBase
    BY DEF Base, Others
  <1>8. PICK m : m = Flat!Replace(mem, PacketBase, p)
    OBVIOUS
  <1>9. DOMAIN mem = Readable /\ Readable \subseteq Mapped
    BY MemIs, ReadableIsMapped
  <1>10. /\ \A x : x \in DOMAIN m <=>
               x \in Mapped /\ IF Classify(x) = "Packet" THEN x < PacketBase + Len(p) ELSE x \in Readable
         /\ \A x \in DOMAIN m : m[x] = IF Classify(x) = "Packet" THEN p[x - PacketBase + 1] ELSE mem[x]
    BY <1>7, <1>8, <1>9, Replaced
  <1>11. DOMAIN m \subseteq Mapped
    BY <1>10
  <1>12. PICK q : q = Flat!Replace(m, XdpMdBase, k)
    OBVIOUS
  <1>13. /\ \A x : x \in DOMAIN q <=>
               x \in Mapped /\ IF Classify(x) = "XdpMd" THEN x < XdpMdBase + Len(k) ELSE x \in DOMAIN m
         /\ \A x \in DOMAIN q : q[x] = IF Classify(x) = "XdpMd" THEN k[x - XdpMdBase + 1] ELSE m[x]
         /\ q = [x \in DOMAIN q |-> q[x]]
    BY <1>7, <1>11, <1>12, Replaced
  <1>14. Readable' \subseteq Mapped /\ \A x \in Mapped : x \in Int
    BY MappedNext DEF Mapped
  <1>15. DOMAIN q = Readable'
    <2>1. ASSUME NEW x \in Mapped PROVE x \in DOMAIN q <=> x \in Readable'
      <3>1. CASE Classify(x) = "XdpMd"
        BY <1>2, <1>3, <1>6, <1>7, <1>13, <1>14, <3>1
      <3>2. CASE Classify(x) = "Packet"
        BY <1>2, <1>3, <1>6, <1>7, <1>10, <1>13, <1>14, <3>2
      <3>3. CASE Classify(x) \notin T
        BY <1>2, <1>6, <1>10, <1>13, <1>14, <3>3
      <3>. QED  BY <1>2, <3>1, <3>2, <3>3
    <2>2. DOMAIN q \subseteq Mapped
      BY <1>13
    <2>. QED  BY <1>14, <2>1, <2>2
  <1>16. \A x \in Readable' : q[x] = mem'[x]
    BY <1>2, <1>3, <1>6, <1>7, <1>10, <1>13, <1>14, <1>15
  <1>17. DOMAIN mem' = Readable' /\ mem' = [x \in Readable' |-> mem'[x]]
    BY MemNext DEF mem
  <1>. QED  BY <1>8, <1>12, <1>13, <1>15, <1>16, <1>17

LEMMA FlatSetPacket ==
    ASSUME Fit, Fit', NEW p \in Payloads, SetPacket(p)
    PROVE  Flat!SetPacket(p)
  <1>1. /\ p \in Seq(Byte) /\ Len(p) < Gap
        /\ Context(p) \in Seq(Byte) /\ Len(Context(p)) < Gap
    <2>1. p \in Seq(Byte) /\ Len(p) < Gap
      BY PayloadIsBytes DEF Fit, PayloadsFit
    <2>2. Context(p) \in Seq(Byte) /\ Len(Context(p)) = XdpMdLen
      BY <2>1, ContextIsBytes
    <2>3. XdpMdLen < Gap
      BY Layout DEF XdpMdLen
    <2>. QED  BY <2>1, <2>2, <2>3
  <1>2. mem' = Flat!Replace(Flat!Replace(mem, PacketBase, p), XdpMdBase, Context(p))
    BY <1>1, StagedPair DEF SetPacket
  <1>3. writable' = writable
    BY DEF writable, Filled, Contents, Base, SetPacket
  <1>. QED  BY <1>2, <1>3 DEF SetPacket, Flat!SetPacket, Flat!Stage, Done, Flat!Done

LEMMA FlatClearPacket ==
    ASSUME Fit, Fit', ClearPacket
    PROVE  Flat!ClearPacket
  <1>1. /\ <<>> \in Seq(Byte) /\ Len(<<>>) < Gap
        /\ NoContext \in Seq(Byte) /\ Len(NoContext) < Gap
    BY NoContextIsBytes, Layout DEF XdpMdLen
  <1>2. mem' = Flat!Replace(Flat!Replace(mem, PacketBase, <<>>), XdpMdBase, NoContext)
    BY <1>1, StagedPair DEF ClearPacket
  <1>3. writable' = writable
    BY DEF writable, Filled, Contents, Base, ClearPacket
  <1>. QED  BY <1>2, <1>3 DEF ClearPacket, Flat!ClearPacket, Flat!Stage, Done, Flat!Done

LEMMA FlatSetRodata ==
    ASSUME Fit, Fit', NEW p \in Payloads, SetRodata(p)
    PROVE  Flat!SetRodata(p)
  <1>1. p \in Seq(Byte) /\ Len(p) < Gap
    BY PayloadIsBytes DEF Fit, PayloadsFit
  <1>2. /\ "Rodata" \in Others /\ Base("Rodata") = RodataBase /\ Contents("Rodata")' = p
        /\ \A t \in Others \ {"Rodata"} : Contents(t)' = Contents(t)
    BY DEF Others, Base, Contents, SetRodata
  <1>3. UNCHANGED stack
    BY DEF SetRodata
  <1>4. mem' = Flat!Replace(mem, Base("Rodata"), p)
    BY <1>1, <1>2, <1>3, StagedReplaces
  <1>5. writable' = writable
    BY DEF writable, Filled, Contents, Base, SetRodata
  <1>. QED  BY <1>2, <1>4, <1>5 DEF SetRodata, Flat!SetRodata, Flat!Stage, Done, Flat!Done

LEMMA WritableNext ==
    Fit' => (\A x : x \in writable <=>
               \/ x \in Int /\ Low <= x /\ x < StackBase
               \/ x \in Int /\ MapScratchBase <= x /\ x < MapScratchBase + Len(mapScratch))'
  <1>1. Fit => (\A x : x \in writable <=>
               \/ x \in Int /\ Low <= x /\ x < StackBase
               \/ x \in Int /\ MapScratchBase <= x /\ x < MapScratchBase + Len(mapScratch))
    BY WritableIs
  <1>. QED  BY <1>1, PTL

LEMMA FlatSetMapScratch ==
    ASSUME Fit, Fit', NEW p \in Payloads, SetMapScratch(p)
    PROVE  Flat!SetMapScratch(p)
  <1>1. p \in Seq(Byte) /\ Len(p) < Gap
    BY PayloadIsBytes DEF Fit, PayloadsFit
  <1>2. /\ "MapScratch" \in Others /\ Base("MapScratch") = MapScratchBase
        /\ Contents("MapScratch")' = p
        /\ \A t \in Others \ {"MapScratch"} : Contents(t)' = Contents(t)
    BY DEF Others, Base, Contents, SetMapScratch
  <1>3. UNCHANGED stack /\ mapScratch' = p
    BY DEF SetMapScratch
  <1>4. mem' = Flat!Replace(mem, Base("MapScratch"), p)
    BY <1>1, <1>2, <1>3, StagedReplaces
  <1>5. PICK g \in Nat, n \in Nat, size \in Nat, len \in Nat :
           /\ g = Gap /\ n = Len(p) /\ size = StackSize /\ len = Len(mapScratch)
           /\ n < g /\ size <= g /\ len < g
    <2>1. mapScratch \in Seq(Byte) /\ Len(mapScratch) < Gap
      BY DEF Fit, MemInv, TypeOK
    <2>2. Len(mapScratch) \in Nat /\ Len(p) \in Nat
      BY <1>1, <2>1
    <2>. QED  BY <1>1, <2>1, <2>2, Layout
  <1>6. Low = g - size /\ StackBase = g /\ MapScratchBase = 3 * g
    BY <1>5, Layout
  <1>7. /\ \A x : x \in writable <=>
              \/ x \in Int /\ g - size <= x /\ x < g
              \/ x \in Int /\ 3 * g <= x /\ x < 3 * g + len
        /\ \A x : x \in writable' <=>
              \/ x \in Int /\ g - size <= x /\ x < g
              \/ x \in Int /\ 3 * g <= x /\ x < 3 * g + n
    BY <1>3, <1>5, <1>6, WritableIs, WritableNext
  <1>8. PICK old : old = writable
    OBVIOUS
  <1>9. PICK new : new = writable'
    OBVIOUS
  <1>10. \A x : x \in new <=> \/ x \in old /\ x \notin (3 * g) .. (3 * g + g - 1)
                              \/ x \in (3 * g) .. (3 * g + n - 1)
    BY <1>5, <1>7, <1>8, <1>9
  <1>11. writable' = (writable \ Flat!Span(MapScratchBase, Gap)) \cup Flat!Span(MapScratchBase, Len(p))
    BY <1>5, <1>6, <1>8, <1>9, <1>10 DEF Flat!Span
  <1>. QED  BY <1>2, <1>4, <1>11
            DEF SetMapScratch, Flat!SetMapScratch, Flat!Stage, Done, Flat!Done

LEMMA FlatStore ==
    ASSUME Fit, Fit', NEW a \in Addrs, NEW w \in Widths, NEW v \in Words, Store(a, w, v)
    PROVE  Flat!Store(a, w, v)
  <1>1. StoreFault(a, w) = "none" <=> Flat!Span(a, w) \subseteq writable /\ Flat!Aligned(a, w)
    BY StoreChecks DEF Flat!Span, Flat!Aligned, Aligned
  <1>2. CASE StoreFault(a, w) # "none"
    <2>1. ret' = Fault(StoreFault(a, w), a) /\ UNCHANGED <<stack, staged, alignChecks>>
      BY <1>2 DEF Store
    <2>2. ret'.result \in Flat!Faults /\ ret'.addr = a
      BY <1>2, <2>1, FaultsAreFaults DEF Fault
    <2>3. mem' = mem /\ writable' = writable
      BY <2>1, Steady
    <2>. QED  BY <1>1, <1>2, <2>1, <2>2, <2>3 DEF Flat!Store
  <1>3. CASE StoreFault(a, w) = "none" /\ Classify(a) = "Stack"
    <2>1. /\ bytes' = [i \in Offsets |->
                         IF i \in (a - Low) .. (a - Low + w - 1) THEN v[i - (a - Low)] ELSE bytes[i]]
          /\ initialized' = Marked(a - Low, w)
          /\ ret' = Done
          /\ UNCHANGED <<staged, alignChecks>>
      BY <1>3 DEF Store
    <2>2. /\ mem' = [x \in DOMAIN mem \cup Flat!Span(a, w) |->
                       IF x \in Flat!Span(a, w) THEN v[x - a] ELSE mem[x]]
          /\ writable' = writable
      BY <1>3, <2>1, FlatStoreStack
    <2>. QED  BY <1>1, <1>3, <2>1, <2>2 DEF Flat!Store, Done, Flat!Done
  <1>4. CASE StoreFault(a, w) = "none" /\ Classify(a) = "MapScratch"
    <2>1. /\ mapScratch' = [i \in DOMAIN mapScratch |->
                              IF i - 1 \in (a - MapScratchBase) .. (a - MapScratchBase + w - 1)
                              THEN v[i - 1 - (a - MapScratchBase)] ELSE mapScratch[i]]
          /\ ret' = Done
          /\ UNCHANGED <<stack, packet, xdpMd, rodata, alignChecks>>
      BY <1>4 DEF Store
    <2>2. /\ mem' = [x \in DOMAIN mem \cup Flat!Span(a, w) |->
                       IF x \in Flat!Span(a, w) THEN v[x - a] ELSE mem[x]]
          /\ writable' = writable
      BY <1>4, <2>1, FlatStoreScratch
    <2>. QED  BY <1>1, <1>4, <2>1, <2>2 DEF Flat!Store, Done, Flat!Done
  <1>. QED  BY <1>2, <1>3, <1>4 DEF Store

-----------------------------------------------------------------------------
(***************************************************************************)
(* The refinement                                                          *)
(***************************************************************************)

\* No operation stages more bytes than a window holds.
LEMMA FitNext == Fit /\ [Next]_vars => Fit'
  <1> SUFFICES ASSUME Fit, [Next]_vars PROVE Fit'
    OBVIOUS
  <1>1. MemInv'
    BY NextOK DEF Fit
  <1>2. PayloadsFit
    BY DEF Fit
  <1>3. mapScratch \in Seq(Byte) /\ Len(mapScratch) < Gap
    BY DEF Fit, MemInv, TypeOK
  <1>4. Len(mapScratch') < Gap
    <2>1. CASE mapScratch' = mapScratch
      BY <1>3, <2>1
    <2>2. ASSUME NEW p \in Payloads, SetMapScratch(p) PROVE Len(mapScratch') < Gap
      BY <1>2, <2>2 DEF SetMapScratch, PayloadsFit
    <2>3. ASSUME NEW a \in Addrs, NEW w \in Widths, NEW v \in Words, Store(a, w, v)
          PROVE  Len(mapScratch') < Gap
      <3>1. CASE mapScratch' = mapScratch
        BY <1>3, <3>1
      <3>2. CASE mapScratch' # mapScratch
        <4>1. DOMAIN mapScratch' = DOMAIN mapScratch
          BY <2>3, <3>2 DEF Store, staged
        <4>2. mapScratch' \in Seq(Byte)
          BY <1>1 DEF MemInv, TypeOK
        <4>3. Len(mapScratch') = Len(mapScratch)
          BY <1>3, <4>1, <4>2
        <4>. QED  BY <1>3, <4>3
      <3>. QED  BY <3>1, <3>2
    <2>4. CASE UNCHANGED vars
      BY <2>1, <2>4 DEF vars
    <2>5. CASE Next
      BY <2>1, <2>2, <2>3, <2>5
         DEF Next, Load, LoadBytes, SetPacket, SetRodata, ClearPacket, SetAlignChecks, staged
    <2>. QED  BY <2>4, <2>5
  <1>. QED  BY <1>1, <1>2, <1>4 DEF Fit

LEMMA FlatNext == Fit /\ Fit' /\ [Next]_vars => [Flat!Next]_(Flat!vars)
  <1> SUFFICES ASSUME Fit, Fit', [Next]_vars PROVE [Flat!Next]_(Flat!vars)
    OBVIOUS
  <1>1. ASSUME NEW a \in Addrs, NEW w \in Widths, Load(a, w) PROVE Flat!Next
    BY <1>1, FlatLoad DEF Flat!Next
  <1>2. ASSUME NEW a \in Addrs, NEW w \in Widths, NEW v \in Words, Store(a, w, v)
        PROVE  Flat!Next
    BY <1>2, FlatStore DEF Flat!Next
  <1>3. ASSUME NEW a \in Addrs, NEW n \in Lens, LoadBytes(a, n) PROVE Flat!Next
    BY <1>3, FlatLoadBytes DEF Flat!Next
  <1>4. ASSUME NEW p \in Payloads, SetPacket(p) PROVE Flat!Next
    BY <1>4, FlatSetPacket DEF Flat!Next
  <1>5. ASSUME NEW p \in Payloads, SetMapScratch(p) PROVE Flat!Next
    BY <1>5, FlatSetMapScratch DEF Flat!Next
  <1>6. ASSUME NEW p \in Payloads, SetRodata(p) PROVE Flat!Next
    BY <1>6, FlatSetRodata DEF Flat!Next
  <1>7. CASE ClearPacket
    BY <1>7, FlatClearPacket DEF Flat!Next
  <1>8. ASSUME NEW on \in BOOLEAN, SetAlignChecks(on) PROVE Flat!Next
    <2>1. mem' = mem /\ writable' = writable
      BY <1>8, Steady DEF SetAlignChecks
    <2>2. Flat!SetAlignChecks(on)
      BY <1>8, <2>1 DEF SetAlignChecks, Flat!SetAlignChecks, Done, Flat!Done
    <2>. QED  BY <2>2 DEF Flat!Next
  <1>9. CASE UNCHANGED vars
    <2>1. UNCHANGED <<stack, staged>> /\ alignChecks' = alignChecks /\ ret' = ret
      BY <1>9 DEF vars, stack, staged
    <2>. QED  BY <2>1, Steady DEF Flat!vars
  <1>. QED  BY <1>1, <1>2, <1>3, <1>4, <1>5, <1>6, <1>7, <1>8, <1>9 DEF Next

\* memory.rs load, store, load_bytes and the set_ operations: as long as every
\* payload is shorter than the distance between two region bases, the regions,
\* the bitmap of the stack and the order of the checks cannot be told from one
\* flat byte-addressed memory.
THEOREM FlatMemoryImplemented ==
    ASSUME PayloadsFit
    PROVE  Spec => ImplementsFlatMemory
  <1>1. Init => Fit
    <2>1. Init => Len(mapScratch) < Gap
      BY Layout DEF Init
    <2>. QED  BY <2>1, InitOK DEF Fit
  <1>2. Init => Flat!Init
    BY FlatInit
  <1>. QED  BY <1>1, <1>2, FitNext, FlatNext, PTL DEF Spec, ImplementsFlatMemory, Flat!Spec

=============================================================================
