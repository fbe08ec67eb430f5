------------------------------ MODULE Transfer ------------------------------
(***************************************************************************)
(* What the verifier demands of an instruction and what it knows after it  *)
(* (ebpf-verifier/src/verify.rs: check_and_transfer, the helper            *)
(* signatures, the bound checks and refine_edge).                          *)
(*                                                                         *)
(* Accepts(c, s, i) is the Ok of check_and_transfer, After(c, s, i) the    *)
(* state it leaves.  The configuration c is what VerifierState carries     *)
(* along unchanged: the map table (fd -> key and value size), the packet   *)
(* length and the length of the read-only data.                            *)
(***************************************************************************)
EXTENDS AbsState, RangeBits, Insn

CONSTANTS
    PacketStart, RodataStart, \* addresses of the VM's regions
    XdpMdBytes,               \* 8, the size of the context
    NoLen                     \* None: no packet, no data

SetReg(s, r, t) == IF r = FramePtr THEN s ELSE [s EXCEPT !.regs[r] = t]

\* ensure_init, of a register and of an operand
Initialized(s, r) == s.regs[r] # NotInit
OperandInit(s, o) == IsReg(o) => Initialized(s, o.reg)

\* RegType::scalar_range
ScalarRange(t) ==
    CASE t.type = "Scalar"  -> t.range
      [] t.type = "NotInit" -> Bottom
      [] OTHER              -> Top

OperandRange(s, o) == IF IsReg(o) THEN ScalarRange(s.regs[o.reg]) ELSE Exact(o.imm)

\* An operand whose single value is known.
Known(s, o) == IsReg(o) => s.regs[o.reg].type = "Scalar" /\ IsExact(s.regs[o.reg].range)
KnownValue(s, o) == IF IsReg(o) THEN s.regs[o.reg].range.lo ELSE o.imm

\* i32::try_from, checked_neg, checked_add
FitsI32(n) == -(UMax32 + 1) <= 2 * n /\ 2 * n < UMax32 + 1

-----------------------------------------------------------------------------
(***************************************************************************)
(* ALU instructions.                                                       *)
(***************************************************************************)

\* Variant: a pointer into a map value that outlives its lookup.
MovesMapPointer(s, i) ==
    /\ i.op = "Mov" /\ IsReg(i.src) /\ i.dst # FramePtr
    /\ s.regs[i.src.reg].type \in {"StackPtr", "PacketPtr", "DataPtr", "XdpMdPtr", "MapPtr"}

\* ptr_alu_transfer: a move of a pointer ...
MovesPointer(s, i) ==
    /\ i.op = "Mov" /\ IsReg(i.src) /\ i.dst # FramePtr
    /\ s.regs[i.src.reg].type \in {"StackPtr", "PacketPtr", "DataPtr", "XdpMdPtr"}

\* ... and one shifted by a known distance.
ShiftsPointer(s, i) ==
    /\ i.op \in {"Add", "Sub"} /\ Known(s, i.src)
    /\ \/ s.regs[i.dst].type \in {"PacketPtr", "DataPtr"}
       \/ s.regs[i.dst].type = "StackPtr" /\ FitsI32(KnownValue(s, i.src))

Shifted(t, op, k) ==
    IF t.type = "StackPtr"
    THEN LET d == IF op = "Sub" THEN -k ELSE k
         IN  IF FitsI32(d) /\ FitsI32(t.offset + d) THEN StackPtr(t.offset + d) ELSE Scalar(Top)
    ELSE [t EXCEPT !.range = IF op = "Add" THEN RangeAdd(@, Exact(k)) ELSE RangeSub(@, Exact(k))]

\* alu_transfer
AluAccepts(s, i) ==
    /\ i.op \in EndOps => ~ IsReg(i.src) /\ i.src.imm \in EndWidths
    /\ OperandInit(s, i.src)

AluResult(s, i) ==
    IF i.width = 64 /\ MovesPointer(s, i) THEN s.regs[i.src.reg]
    ELSE IF i.width = 64 /\ ShiftsPointer(s, i)
    THEN Shifted(s.regs[i.dst], i.op, KnownValue(s, i.src))
    ELSE Scalar(RangeAlu(i.op, ScalarRange(s.regs[i.dst]), OperandRange(s, i.src), i.width))

\* A linked data address becomes a data pointer, every other constant a scalar.
Constant(c, imm) ==
    LET off == imm - RodataStart
    IN  IF c.data # NoLen /\ Fits(off) /\ 0 <= off /\ off < c.data
        THEN DataPtr(Exact(off))
        ELSE Scalar(Exact(imm))

-----------------------------------------------------------------------------
(***************************************************************************)
(* Memory accesses.                                                        *)
(***************************************************************************)

AlignedTo(n, width) == width > 1 => n % width = 0

\* byte_range: inside [-STACK_BYTES, 0), and the bytes it covers
InStack(start, width) == -StackBytes <= start /\ start + width <= 0
FirstByte(start) == start + StackBytes
LastByte(start, width) == start + width - 1 + StackBytes

\* check_mem_access
StackServes(start, width) == InStack(start, width) /\ AlignedTo(start, width)

\* check_map_value_bounds and check_map_align
MapValueServes(c, fd, offset, width) ==
    /\ fd \in DOMAIN c.maps
    /\ 0 <= offset /\ offset + width <= c.maps[fd].value
    /\ AlignedTo(offset, width)

\* check_ctx_load
ContextServes(c, offset, width) ==
    /\ c.packet # NoLen
    /\ 0 <= offset /\ offset + width <= XdpMdBytes
    /\ AlignedTo(offset, width)

ContextValue(c, offset, width) ==
    CASE width = 4 /\ offset = 0 -> PacketPtr(Exact(0))
      [] width = 4 /\ offset = 4 -> Scalar(Exact(PacketStart + c.packet))
      [] OTHER                   -> Scalar(Top)

\* check_packet_bounds and check_data_bounds; an offset in a dead branch passes.
RegionServes(len, range, offset, width) ==
    LET lo == IF range = Top THEN IMin ELSE range.lo
        hi == IF range = Top THEN IMax ELSE range.hi
    IN  /\ len # NoLen
        /\ range # Bottom =>
              /\ Fits(lo + offset) /\ Fits(hi + offset + width)
              /\ 0 <= lo + offset /\ hi + offset + width <= len
              /\ width > 1 => lo = hi /\ AlignedTo(lo + offset, width)

\* The Load arm of check_and_transfer; map_value_fd refuses a pointer that
\* may be null, ensure_stack_ptr everything that is no pointer.
LoadAccepts(c, s, i) ==
    LET t == s.regs[i.base]
    IN  CASE t.type = "MapPtr"    -> MapValueServes(c, t.fd, i.offset, i.size)
          [] t.type = "XdpMdPtr"  -> ContextServes(c, i.offset, i.size)
          [] t.type = "PacketPtr" -> RegionServes(c.packet, t.range, i.offset, i.size)
          [] t.type = "DataPtr"   -> RegionServes(c.data, t.range, i.offset, i.size)
          [] t.type = "StackPtr"  ->
                LET start == t.offset + i.offset
                IN  /\ StackServes(start, i.size)
                    /\ StackRangeInit(s, FirstByte(start), LastByte(start, i.size))
          [] OTHER -> FALSE

LoadResult(c, s, i) ==
    IF s.regs[i.base].type = "XdpMdPtr" THEN ContextValue(c, i.offset, i.size) ELSE Scalar(Top)

\* The Store arm; packet, context and data are read-only.
StoreAccepts(c, s, i) ==
    LET t == s.regs[i.base]
    IN  /\ OperandInit(s, i.src)
        /\ \/ t.type = "MapPtr" /\ MapValueServes(c, t.fd, i.offset, i.size)
           \/ t.type = "StackPtr" /\ StackServes(t.offset + i.offset, i.size)

AfterStore(s, i) ==
    LET t == s.regs[i.base]
        start == t.offset + i.offset
    IN  IF t.type = "StackPtr"
        THEN MarkStackRange(s, FirstByte(start), LastByte(start, i.size))
        ELSE s

-----------------------------------------------------------------------------
(***************************************************************************)
(* Helper calls.                                                           *)
(***************************************************************************)

MapHelpers == {1, 2, 3}
Helpers == MapHelpers \cup {5, 6, 43}

\* map_fd: an exact scalar names a map, any other scalar none.
FdKnown(s) == Known(s, Reg(1))
Fd(s) == KnownValue(s, Reg(1))

\* Variant: a buffer inside the stack, written or not.
ReadableBufferUnwritten(s, r, size) ==
    s.regs[r].type = "StackPtr" /\ InStack(s.regs[r].offset, size)

\* check_map_ptr
ReadableBuffer(s, r, size) ==
    LET t == s.regs[r]
    IN  /\ t.type = "StackPtr" /\ InStack(t.offset, size)
        /\ StackRangeInit(s, FirstByte(t.offset), LastByte(t.offset, size))

CallAccepts(c, s, func) ==
    /\ func \in Helpers
    /\ func \in MapHelpers =>
          /\ s.regs[1].type = "Scalar"
          /\ FdKnown(s) =>
                /\ Fd(s) \in DOMAIN c.maps
                /\ ReadableBuffer(s, 2, c.maps[Fd(s)].key)
                /\ func = 2 => ReadableBuffer(s, 3, c.maps[Fd(s)].value)

\* HelperSignature::effect
CallResult(s, func) ==
    CASE func = 5  -> Scalar(Interval(0, IMax))
      [] func = 43 -> Scalar(Interval(0, UMax32 \div 2))
      [] func = 1 /\ FdKnown(s) -> MaybeMapPtr(Fd(s))
      [] func \in {2, 3} /\ FdKnown(s) -> Scalar(Exact(0))
      [] OTHER -> Scalar(Top)

-----------------------------------------------------------------------------
(***************************************************************************)
(* check_and_transfer                                                      *)
(***************************************************************************)

Accepts(c, s, i) ==
    CASE i.insn = "Alu"       -> AluAccepts(s, i)
      [] i.insn = "LoadImm64" -> TRUE
      [] i.insn = "Load"      -> LoadAccepts(c, s, i)
      [] i.insn = "Store"     -> StoreAccepts(c, s, i)
      [] i.insn = "Jump"      -> IsConditional(i) => Initialized(s, i.dst) /\ OperandInit(s, i.src)
      [] i.insn = "Call"      -> CallAccepts(c, s, i.func)
      [] i.insn = "Exit"      -> Initialized(s, 0)
      [] i.insn = "Unknown"   -> FALSE

After(c, s, i) ==
    CASE i.insn = "Alu"       -> SetReg(s, i.dst, AluResult(s, i))
      [] i.insn = "LoadImm64" -> SetReg(s, i.dst, Constant(c, i.imm))
      [] i.insn = "Load"      -> SetReg(s, i.dst, LoadResult(c, s, i))
      [] i.insn = "Store"     -> AfterStore(s, i)
      [] i.insn = "Call"      -> [s EXCEPT !.regs[0] = CallResult(s, i.func)]
      [] OTHER                -> s

-----------------------------------------------------------------------------
(***************************************************************************)
(* refine_edge: what the two ways out of a conditional jump add.           *)
(***************************************************************************)

\* refine_reg
RefineReg(t, op, k, taken) ==
    LET nullCheck == op \in {"Eq", "Ne"} /\ k = 0
    IN  CASE t.type = "MapPtr" -> t
          [] t.type = "MaybeMapPtr" /\ ~ nullCheck -> t
          [] t.type = "MaybeMapPtr" /\ nullCheck ->
                IF taken <=> op = "Eq" THEN Scalar(Exact(0)) ELSE MapPtr(t.fd)
          [] OTHER -> Scalar(Refine(ScalarRange(t), op, k, taken))

\* swap_op; a bit test has no mirror image
Mirror == [Eq |-> "Eq", Ne |-> "Ne", Gt |-> "Lt", Ge |-> "Le", Lt |-> "Gt", Le |-> "Ge",
           Sgt |-> "Slt", Sge |-> "Sle", Slt |-> "Sgt", Sle |-> "Sge"]

\* refine_packet_edge, the pointer on either side of the comparison
BoundsPacket(s, p, k) ==
    /\ s.regs[p].type = "PacketPtr"
    /\ s.regs[k].type = "Scalar" /\ IsExact(s.regs[k].range)
    /\ Fits(s.regs[k].range.lo - PacketStart)

RefinedPacket(s, p, op, k, taken) ==
    [s EXCEPT !.regs[p].range = Refine(@, op, s.regs[k].range.lo - PacketStart, taken)]

RefinePacketEdge(s, i, taken) ==
    IF BoundsPacket(s, i.dst, i.src.reg)
    THEN RefinedPacket(s, i.dst, i.op, i.src.reg, taken)
    ELSE IF BoundsPacket(s, i.src.reg, i.dst) /\ i.op \in DOMAIN Mirror
    THEN RefinedPacket(s, i.src.reg, Mirror[i.op], i.dst, taken)
    ELSE s

RefineBranch(s, i, taken) ==
    IF IsReg(i.src)
    THEN RefinePacketEdge(s, i, taken)
    ELSE [s EXCEPT !.regs[i.dst] = RefineReg(@, i.op, i.src.imm, taken)]
=============================================================================
