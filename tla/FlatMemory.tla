----------------------------- MODULE FlatMemory -----------------------------
(***************************************************************************)
(* What the interpreter's memory promises: one flat, byte-addressed memory *)
(* in which some bytes are readable and some writable.  An access is       *)
(* served when every byte it covers may be, and otherwise changes nothing. *)
(* Regions, bitmaps and the order of the checks are not part of it.        *)
(***************************************************************************)
EXTENDS Integers, Sequences

CONSTANTS
    StackLow, StackTop,                  \* the stack is StackLow .. StackTop - 1
    PacketBase, ScratchBase, ContextBase, DataBase,
    Gap,        \* the distance between two bases
    Addrs,      \* addresses that programs use
    Widths,     \* access widths in bytes
    Words,      \* register values, as functions from 0..7 to bytes
    Lens,       \* lengths of the byte strings that helpers read
    Payloads,   \* packets, map values and data, as sequences of bytes
    Context(_), \* the xdp_md of a packet
    NoContext   \* the zeroed xdp_md

VARIABLES
    mem,      \* the readable bytes: a function from addresses to bytes
    writable, \* the addresses that may be stored to
    strict,   \* natural alignment is enforced
    ret       \* what the last operation returned

vars == <<mem, writable, strict, ret>>

Loaded(v) == [result |-> "loaded", value |-> v]
Copied(s) == [result |-> "copied", value |-> s]
Done == [result |-> "done"]
Faults == {"OutOfBounds", "StackOverflow", "UninitializedRead", "NoPacket", "Misaligned"}

Span(a, n) == a .. (a + n - 1)
Aligned(a, w) == strict => a % w = 0

\* The window that starts at base now holds exactly the bytes of s.
Replace(m, base, s) ==
    [x \in {y \in DOMAIN m : y \notin Span(base, Gap)} \cup Span(base, Len(s)) |->
        IF x \in Span(base, Len(s)) THEN s[x - base + 1] ELSE m[x]]

Init ==
    /\ mem = [x \in Span(ContextBase, Len(NoContext)) |-> 0]
    /\ writable = StackLow .. (StackTop - 1)
    /\ strict = TRUE
    /\ ret = Done

Load(a, w) ==
    /\ IF Span(a, w) \subseteq DOMAIN mem /\ Aligned(a, w)
       THEN ret' = Loaded([i \in 0..7 |-> IF i < w THEN mem[a + i] ELSE 0])
       ELSE ret'.result \in Faults /\ ret'.addr = a
    /\ UNCHANGED <<mem, writable, strict>>

Store(a, w, v) ==
    /\ IF Span(a, w) \subseteq writable /\ Aligned(a, w)
       THEN /\ ret' = Done
            /\ mem' = [x \in DOMAIN mem \cup Span(a, w) |->
                          IF x \in Span(a, w) THEN v[x - a] ELSE mem[x]]
       ELSE ret'.result \in Faults /\ ret'.addr = a /\ mem' = mem
    /\ UNCHANGED <<writable, strict>>

\* A copy is served whole or names the first byte that is not readable.
LoadBytes(a, n) ==
    /\ IF Span(a, n) \subseteq DOMAIN mem
       THEN ret' = Copied([i \in 1..n |-> mem[a + i - 1]])
       ELSE /\ ret'.result \in Faults
            /\ ret'.addr \in Span(a, n) \ DOMAIN mem
            /\ a .. (ret'.addr - 1) \subseteq DOMAIN mem
    /\ UNCHANGED <<mem, writable, strict>>

Stage(m, w) == ret' = Done /\ mem' = m /\ writable' = w /\ strict' = strict

SetPacket(p) ==
    Stage(Replace(Replace(mem, PacketBase, p), ContextBase, Context(p)), writable)
ClearPacket ==
    Stage(Replace(Replace(mem, PacketBase, <<>>), ContextBase, NoContext), writable)
SetMapScratch(p) ==
    Stage(Replace(mem, ScratchBase, p),
          (writable \ Span(ScratchBase, Gap)) \cup Span(ScratchBase, Len(p)))
SetRodata(p) == Stage(Replace(mem, DataBase, p), writable)

SetAlignChecks(on) ==
    /\ ret' = Done /\ strict' = on
    /\ UNCHANGED <<mem, writable>>

Next ==
    \/ \E a \in Addrs, w \in Widths : Load(a, w)
    \/ \E a \in Addrs, w \in Widths, v \in Words : Store(a, w, v)
    \/ \E a \in Addrs, n \in Lens : LoadBytes(a, n)
    \/ \E p \in Payloads : SetPacket(p) \/ SetMapScratch(p) \/ SetRodata(p)
    \/ ClearPacket
    \/ \E on \in BOOLEAN : SetAlignChecks(on)

Spec == Init /\ [][Next]_vars
=============================================================================
