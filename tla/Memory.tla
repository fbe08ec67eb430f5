------------------------------- MODULE Memory -------------------------------
(***************************************************************************)
(* The interpreter's memory (ebpf-vm/src/memory.rs, `MemoryView`): a stack *)
(* with one initialization bit per byte, kept in 64-bit words, and four    *)
(* other regions told apart by the address alone.                          *)
(*                                                                         *)
(* A register value is the function from 0..7 to its bytes, least          *)
(* significant first, which is what to_le_bytes and from_le_bytes see.     *)
(***************************************************************************)
EXTENDS Integers, Sequences

CONSTANTS
    StackSize,  \* STACK_SIZE
    Radix,      \* 256, the number of values of a byte
    Gap,        \* 0x1_0000, the distance between the region bases
    Addrs,      \* addresses that programs use
    Widths,     \* MemSize, in bytes
    Words,      \* register values
    Lens,       \* lengths of the keys and values that helpers read
    Payloads,   \* packets, map values and read-only data
    NoBytes     \* None

Byte == 0 .. (Radix - 1)

ASSUME MemoryAssumption ==
    /\ StackSize \in Nat \ {0} /\ StackSize % 64 = 0
    /\ Radix \in Nat \ {0, 1}
    /\ Gap \in Nat /\ StackSize <= Gap
    /\ Addrs \subseteq Int
    /\ Widths \subseteq {1, 2, 4, 8}
    /\ Words \subseteq [0..7 -> Byte]
    /\ Lens \subseteq Nat
    /\ Payloads \subseteq Seq(Byte)
    /\ NoBytes \notin Seq(Byte)

StackBase == Gap
Low == StackBase - StackSize
PacketBase == 2 * Gap
MapScratchBase == 3 * Gap
XdpMdBase == 4 * Gap
RodataBase == 5 * Gap
XdpMdLen == 8

VARIABLES
    bytes,       \* StackMemory.bytes
    initialized, \* StackMemory.initialized: per word, the set of its 1 bits
    packet,      \* Option<PacketBuffer>
    xdpMd,       \* the staged xdp_md
    mapScratch,  \* the value of the latest lookup
    rodata,      \* Option<Vec<u8>>
    alignChecks, \* align_checks
    ret          \* what the last operation returned

stack == <<bytes, initialized>>
staged == <<packet, xdpMd, mapScratch, rodata>>
vars == <<bytes, initialized, packet, xdpMd, mapScratch, rodata, alignChecks, ret>>

Loaded(v) == [result |-> "loaded", value |-> v]
Copied(s) == [result |-> "copied", value |-> s]
Done == [result |-> "done"]
\* A MemError with the address it names (NoPacket names none in the code)
Fault(e, a) == [result |-> e, addr |-> a]

Offsets == 0 .. (StackSize - 1)
LastWord == (StackSize \div 64) - 1

\* u32::to_le_bytes
Le4(n) ==
    LET upper(m) == m \div Radix
    IN  <<n % Radix, upper(n) % Radix, upper(upper(n)) % Radix, upper(upper(upper(n))) % Radix>>

NoContext == <<0, 0, 0, 0, 0, 0, 0, 0>>
Context(p) == Le4(PacketBase) \o Le4(PacketBase + Len(p))

Init ==
    /\ bytes = [i \in Offsets |-> 0]
    /\ initialized = [w \in 0..LastWord |-> {}]
    /\ packet = NoBytes
    /\ xdpMd = NoContext
    /\ mapScratch = <<>>
    /\ rodata = NoBytes
    /\ alignChecks = TRUE
    /\ ret = Done

-----------------------------------------------------------------------------
\* MemoryView::classify
Classify(a) ==
    IF Low <= a /\ a <= StackBase THEN "Stack"
    ELSE IF a >= RodataBase THEN "Rodata"
    ELSE IF a >= XdpMdBase THEN "XdpMd"
    ELSE IF a >= MapScratchBase THEN "MapScratch"
    ELSE IF a >= PacketBase THEN "Packet"
    ELSE "Unknown"

Base(r) ==
    CASE r = "Stack"      -> Low
      [] r = "Packet"     -> PacketBase
      [] r = "MapScratch" -> MapScratchBase
      [] r = "XdpMd"      -> XdpMdBase
      [] r = "Rodata"     -> RodataBase

Contents(r) ==
    CASE r = "Packet"     -> packet
      [] r = "MapScratch" -> mapScratch
      [] r = "XdpMd"      -> xdpMd
      [] r = "Rodata"     -> rodata

\* The bytes from a to a + n - 1 lie inside the region r that a starts in.
Inside(r, a, n) ==
    IF r = "Stack" THEN a - Low <= StackSize - n
    ELSE Contents(r) # NoBytes /\ a - Base(r) + n <= Len(Contents(r))

ReadAt(r, a) == IF r = "Stack" THEN bytes[a - Low] ELSE Contents(r)[a - Base(r) + 1]

\* check_alignment, when it is enabled
Misaligned(a, w) == alignChecks /\ a % w # 0

\* Variants: a mask that forgets the second word.
IsInitOneWord(i, w) ==
    LET bit == i % 64
    IN  {b \in bit .. (bit + w - 1) : b < 64} \subseteq initialized[i \div 64]
MarkedUnsplit(i, w) ==
    [initialized EXCEPT ![i \div 64] = @ \cup ((i % 64) .. ((i % 64) + w - 1))]

\* StackMemory::is_init and ::mark_init, with one mask or two
IsInit(i, w) ==
    LET word == i \div 64
        bit == i % 64
    IN  IF bit + w <= 64
        THEN bit .. (bit + w - 1) \subseteq initialized[word]
        ELSE /\ bit .. 63 \subseteq initialized[word]
             /\ 0 .. (w - (64 - bit) - 1) \subseteq initialized[word + 1]

Marked(i, w) ==
    LET word == i \div 64
        bit == i % 64
    IN  IF bit + w <= 64
        THEN [initialized EXCEPT ![word] = @ \cup (bit .. (bit + w - 1))]
        ELSE [initialized EXCEPT ![word] = @ \cup (bit .. 63),
                                 ![word + 1] = @ \cup (0 .. (w - (64 - bit) - 1))]

-----------------------------------------------------------------------------
(***************************************************************************)
(* Load and store.  The checks come in the order of the code: region,      *)
(* bounds, alignment, initialization.                                      *)
(***************************************************************************)

BoundsFault(a, w) ==
    LET r == Classify(a)
    IN  IF r = "Unknown" THEN "OutOfBounds"
        ELSE IF r = "Packet" /\ packet = NoBytes THEN "NoPacket"
        ELSE IF ~ Inside(r, a, w)
             THEN IF r = "Stack" THEN "StackOverflow" ELSE "OutOfBounds"
        ELSE IF Misaligned(a, w) THEN "Misaligned"
        ELSE "none"

LoadFault(a, w) ==
    IF BoundsFault(a, w) # "none" THEN BoundsFault(a, w)
    ELSE IF Classify(a) = "Stack" /\ ~ IsInit(a - Low, w) THEN "UninitializedRead"
    ELSE "none"

StoreFault(a, w) ==
    IF Classify(a) \in {"Stack", "MapScratch"} THEN BoundsFault(a, w) ELSE "OutOfBounds"

\* MemoryView::load
Loading(a, w) ==
    IF LoadFault(a, w) # "none" THEN Fault(LoadFault(a, w), a)
    ELSE Loaded([i \in 0..7 |-> IF i < w THEN ReadAt(Classify(a), a + i) ELSE 0])

Load(a, w) ==
    /\ ret' = Loading(a, w)
    /\ UNCHANGED <<stack, staged, alignChecks>>

\* MemoryView::store
Store(a, w, v) ==
    \/ /\ StoreFault(a, w) # "none"
       /\ ret' = Fault(StoreFault(a, w), a)
       /\ UNCHANGED <<stack, staged, alignChecks>>
    \/ /\ StoreFault(a, w) = "none" /\ Classify(a) = "Stack"
       /\ bytes' = [i \in Offsets |->
                      IF i \in (a - Low) .. (a - Low + w - 1) THEN v[i - (a - Low)] ELSE bytes[i]]
       /\ initialized' = Marked(a - Low, w)
       /\ ret' = Done
       /\ UNCHANGED <<staged, alignChecks>>
    \/ /\ StoreFault(a, w) = "none" /\ Classify(a) = "MapScratch"
       /\ LET off == a - MapScratchBase
          IN  mapScratch' = [i \in DOMAIN mapScratch |->
                               IF i - 1 \in off .. (off + w - 1) THEN v[i - 1 - off]
                               ELSE mapScratch[i]]
       /\ ret' = Done
       /\ UNCHANGED <<stack, packet, xdpMd, rodata, alignChecks>>

\* load_bytes_bulk: every byte is there, alignment aside.
BulkServes(a, n) ==
    LET r == Classify(a)
    IN  /\ r # "Unknown"
        /\ Inside(r, a, n)
        /\ r = "Stack" => \A i \in 0 .. (n - 1) : IsInit(a - Low + i, 1)

\* load_bytes_slow: one byte after the other, up to the first fault.
SlowFaults(a, n) == {i \in 0 .. (n - 1) : LoadFault(a + i, 1) # "none"}

\* MemoryView::load_bytes
Copying(a, n) ==
    IF n = 0 THEN Copied(<<>>)
    ELSE IF BulkServes(a, n)
    THEN Copied([i \in 1..n |-> ReadAt(Classify(a), a + i - 1)])
    ELSE IF SlowFaults(a, n) = {}
    THEN Copied([i \in 1..n |-> ReadAt(Classify(a + i - 1), a + i - 1)])
    ELSE LET first == CHOOSE i \in SlowFaults(a, n) : \A j \in SlowFaults(a, n) : i <= j
         IN  Fault(LoadFault(a + first, 1), a + first)

LoadBytes(a, n) ==
    /\ ret' = Copying(a, n)
    /\ UNCHANGED <<stack, staged, alignChecks>>

-----------------------------------------------------------------------------
\* MemoryView::set_packet, ::clear_packet, ::set_map_scratch, ::set_rodata
\* and ::set_align_checks
SetPacket(p) ==
    /\ packet' = p
    /\ xdpMd' = Context(p)
    /\ ret' = Done
    /\ UNCHANGED <<stack, mapScratch, rodata, alignChecks>>

\* Variant: the context outlives its packet.
ClearPacketKeepsContext ==
    /\ packet' = NoBytes
    /\ ret' = Done
    /\ UNCHANGED <<stack, xdpMd, mapScratch, rodata, alignChecks>>

ClearPacket ==
    /\ packet' = NoBytes
    /\ xdpMd' = NoContext
    /\ ret' = Done
    /\ UNCHANGED <<stack, mapScratch, rodata, alignChecks>>

SetMapScratch(p) ==
    /\ mapScratch' = p
    /\ ret' = Done
    /\ UNCHANGED <<stack, packet, xdpMd, rodata, alignChecks>>

SetRodata(p) ==
    /\ rodata' = p
    /\ ret' = Done
    /\ UNCHANGED <<stack, packet, xdpMd, mapScratch, alignChecks>>

SetAlignChecks(on) ==
    /\ alignChecks' = on
    /\ ret' = Done
    /\ UNCHANGED <<stack, staged>>

Next ==
    \/ \E a \in Addrs, w \in Widths : Load(a, w)
    \/ \E a \in Addrs, w \in Widths, v \in Words : Store(a, w, v)
    \/ \E a \in Addrs, n \in Lens : LoadBytes(a, n)
    \/ \E p \in Payloads : SetPacket(p) \/ SetMapScratch(p) \/ SetRodata(p)
    \/ ClearPacket
    \/ \E on \in BOOLEAN : SetAlignChecks(on)

Spec == Init /\ [][Next]_vars

-----------------------------------------------------------------------------
(***************************************************************************)
(* Properties                                                              *)
(***************************************************************************)

\* The fields of MemoryView hold what their declarations say; no mask sets a
\* bit outside its word.
TypeOK ==
    /\ bytes \in [Offsets -> Byte]
    /\ initialized \in [0..LastWord -> SUBSET (0..63)]
    /\ packet \in Payloads \cup {NoBytes}
    /\ Len(xdpMd) = XdpMdLen /\ xdpMd \in Seq(Byte)
    /\ mapScratch \in Seq(Byte)
    /\ rodata \in Payloads \cup {NoBytes}
    /\ alignChecks \in BOOLEAN

\* data and data_end of the context always frame the packet that is loaded,
\* through any order of staging and clearing.
ContextMatchesPacket ==
    xdpMd = IF packet = NoBytes THEN NoContext ELSE Context(packet)

\* The promise of FlatMemory.
StackLive == UNION {{Low + 64 * w + b : b \in initialized[w]} : w \in 0..LastWord}
Filled(r) == IF Contents(r) = NoBytes THEN {}
             ELSE Base(r) .. (Base(r) + Len(Contents(r)) - 1)
Readable ==
    StackLive \cup UNION {Filled(r) : r \in {"Packet", "MapScratch", "XdpMd", "Rodata"}}

mem == [x \in Readable |-> ReadAt(Classify(x), x)]
writable == (Low .. (StackBase - 1)) \cup Filled("MapScratch")

Flat == INSTANCE FlatMemory WITH
    StackLow <- Low, StackTop <- StackBase, ScratchBase <- MapScratchBase,
    ContextBase <- XdpMdBase, DataBase <- RodataBase, strict <- alignChecks

\* MemoryView::load, ::store and ::load_bytes implement a flat memory, as long
\* as every payload is shorter than Gap: what was stored last is what is read,
\* through every overlap of widths and on both sides of a bitmap word; a byte
\* never written is never read; a copy that fails names the first bad byte.
ImplementsFlatMemory == Flat!Spec
=============================================================================
