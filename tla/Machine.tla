------------------------------ MODULE Machine ------------------------------
(***************************************************************************)
(* The interpreter without its program counter (ebpf-vm/src/lib.rs, `Vm`): *)
(* registers, memory and maps, and what one instruction does to them.      *)
(*                                                                         *)
(* `Word` values are those of Alu; memory sees the bytes of a word.        *)
(***************************************************************************)
EXTENDS Alu, Insn, Sequences, FiniteSets, FiniteSetsExt

CONSTANTS
    StackSize, Gap, \* the layout of Memory
    NoBytes,        \* None
    MapTable        \* fd -> [kind, key, value, entries]: the descriptors

VARIABLES
    regs,       \* Vm.regs
    bytes, initialized, packet, xdpMd, mapScratch, rodata, alignChecks, \* Vm.memory
    stores,     \* Vm.maps: fd -> the live entries, a function from keys to values
    ret         \* StepResult of the latest instruction

Radix == 2 ^ ByteBits
Mem == INSTANCE Memory WITH
    Addrs <- Word, Widths <- {1, 2, 4, 8}, Words <- [0..7 -> 0 .. (Radix - 1)],
    Lens <- Nat, Payloads <- Seq(0 .. (Radix - 1))

memory == <<bytes, initialized, packet, xdpMd, mapScratch, rodata, alignChecks>>
machine == <<regs, memory, stores, ret>>

ASSUME MachineAssumption ==
    /\ StackSize \in Nat \ {0} /\ StackSize % 64 = 0
    /\ Gap \in Nat /\ Gap % 8 = 0 /\ StackSize <= Gap /\ 6 * Gap <= UMax32
    /\ NoBytes \notin Seq(0 .. (Radix - 1))
    /\ \A fd \in DOMAIN MapTable :
          /\ fd \in Nat
          /\ MapTable[fd] \in [kind : {"Hash", "Array"}, key : Nat, value : Nat, entries : Nat]

\* What a decoded instruction can be; offsets are i16, immediates i32 or i64.
Register == 0..10
Operand == [reg : Register] \cup [imm : Word]
Instruction ==
    [insn : {"Alu"}, width : {32, 64}, op : AluNames, dst : Register, src : Operand]
        \cup [insn : {"LoadImm64"}, dst : Register, imm : Word]
        \cup [insn : {"Load"}, size : {1, 2, 4, 8}, dst : Register, base : Register, offset : Word]
        \cup [insn : {"Store"}, size : {1, 2, 4, 8}, base : Register, offset : Word, src : Operand]
        \cup [insn : {"Jump"}, width : {32, 64}, op : JumpNames, dst : Register, src : Operand,
              offset : Word]
        \cup [insn : {"Call"}, func : Nat]
        \cup [insn : {"Exit", "Unknown"}]

\* to_le_bytes and from_le_bytes
ToBytes(v) == [i \in 0..7 |-> (Unsigned(v) \div 2 ^ (i * ByteBits)) % Radix]
FromBytes(b) == Signed(MapThenSumSet(LAMBDA i : b[i] * 2 ^ (i * ByteBits), 0..7), WordBits)

Fp == 10
Continue == Mem!Done
ExitWith(v) == [result |-> "exit", value |-> v]
Error(kind) == [result |-> kind]
Running == ret = Continue
MemErrors == {"OutOfBounds", "NoPacket", "StackOverflow", "Misaligned", "UninitializedRead"}

-----------------------------------------------------------------------------
(***************************************************************************)
(* Vm::new, then install_xdp_packet and install_rodata.                    *)
(***************************************************************************)

\* MapStore::new without initial entries: an array is all zeros.
ZeroValue(fd) == [i \in 1 .. MapTable[fd].value |-> 0]
Fresh(fd) ==
    [k \in (IF MapTable[fd].kind = "Array"
            THEN {[j \in 1 .. MapTable[fd].key |-> (n \div 2 ^ ((j - 1) * ByteBits)) % Radix] :
                    n \in 0 .. (MapTable[fd].entries - 1)}
            ELSE {}) |-> ZeroValue(fd)]

Boot(p, d) ==
    /\ regs = [r \in 0..10 |-> IF r = Fp THEN Mem!StackBase
                               ELSE IF r = 1 /\ p # NoBytes THEN Mem!XdpMdBase ELSE 0]
    /\ bytes = [i \in 0 .. (StackSize - 1) |-> 0]
    /\ initialized = [w \in 0 .. ((StackSize \div 64) - 1) |-> {}]
    /\ packet = p
    /\ xdpMd = IF p = NoBytes THEN Mem!NoContext ELSE Mem!Context(p)
    /\ mapScratch = <<>>
    /\ rodata = d
    /\ alignChecks = TRUE
    /\ stores = [fd \in DOMAIN MapTable |-> Fresh(fd)]
    /\ ret = Continue

-----------------------------------------------------------------------------
\* Variant: r10 like any other register.
WrittenAny(r, v) == [regs EXCEPT ![r] = v]

\* A write to r10 is ignored.
Written(r, v) == IF r = Fp THEN regs ELSE [regs EXCEPT ![r] = v]
Value(o) == IF IsReg(o) THEN regs[o.reg] ELSE o.imm
Address(i) == WrappingAdd(regs[i.base], i.offset)

Returns(v) ==
    /\ regs' = [regs EXCEPT ![0] = v]
    /\ ret' = Continue

Fails(result) ==
    /\ ret' = result
    /\ UNCHANGED <<regs, memory, stores>>

ExecAlu(i) ==
    /\ regs' = Written(i.dst, AluApply(i.op, regs[i.dst], Value(i.src), i.width))
    /\ ret' = Continue
    /\ UNCHANGED <<memory, stores>>

ExecLoadImm64(i) ==
    /\ regs' = Written(i.dst, i.imm)
    /\ ret' = Continue
    /\ UNCHANGED <<memory, stores>>

ExecLoad(i) ==
    LET loaded == Mem!Loading(Address(i), i.size)
    IN  \/ /\ loaded.result = "loaded"
           /\ regs' = Written(i.dst, FromBytes(loaded.value))
           /\ ret' = Continue
           /\ UNCHANGED <<memory, stores>>
        \/ loaded.result # "loaded" /\ Fails(loaded)

ExecStore(i) ==
    /\ Mem!Store(Address(i), i.size, ToBytes(Value(i.src)))
    /\ UNCHANGED <<regs, stores>>

-----------------------------------------------------------------------------
(***************************************************************************)
(* The map helpers.  MapStore has the LRU kind and every error; here a     *)
(* store is what a hash or array map promises (BpfMap).                    *)
(***************************************************************************)

\* read_guest_bytes of the key
KeyAt(fd) == Mem!Copying(regs[2], MapTable[fd].key)
ValueAt(fd) == Mem!Copying(regs[3], MapTable[fd].value)

\* helper_map_lookup
Hit(fd, key) ==
    IF key \in DOMAIN stores[fd]
    THEN /\ Mem!SetMapScratch(stores[fd][key])
         /\ regs' = [regs EXCEPT ![0] = Mem!MapScratchBase]
    ELSE Returns(0) /\ UNCHANGED memory

\* Variant: r0 cleared before the key is read.
MapLookupClears ==
    LET fd == regs[1]
    IN  /\ stores' = stores
        /\ IF fd \in DOMAIN MapTable /\ KeyAt(fd).result = "copied"
           THEN Hit(fd, KeyAt(fd).value)
           ELSE /\ regs' = [regs EXCEPT ![0] = 0]
                /\ ret' = IF fd \in DOMAIN MapTable THEN KeyAt(fd) ELSE Continue
                /\ UNCHANGED memory

MapLookup ==
    LET fd == regs[1]
    IN  /\ stores' = stores
        /\ IF fd \notin DOMAIN MapTable
           THEN Returns(0) /\ UNCHANGED memory
           ELSE IF KeyAt(fd).result = "copied"
           THEN Hit(fd, KeyAt(fd).value)
           ELSE Fails(KeyAt(fd))

\* Variant: a hash map that never gets full.
WritableOverfull(fd, key, flags) ==
    /\ flags \in 0..2
    /\ flags = 1 => key \notin DOMAIN stores[fd]
    /\ flags = 2 => key \in DOMAIN stores[fd]
    /\ key \notin DOMAIN stores[fd] => MapTable[fd].kind = "Hash"

\* MapStore::update accepts; flags 0, 1 and 2 are BPF_ANY, BPF_NOEXIST and
\* BPF_EXIST, everything else is refused.
Writable(fd, key, flags) ==
    LET live == DOMAIN stores[fd]
    IN  /\ flags \in 0..2
        /\ flags = 1 => key \notin live
        /\ flags = 2 => key \in live
        /\ key \notin live => /\ MapTable[fd].kind = "Hash"
                              /\ Cardinality(live) < MapTable[fd].entries

\* helper_map_update
MapUpdate ==
    LET fd == regs[1]
        store == stores[fd]
        key == KeyAt(fd).value
    IN  \/ fd \notin DOMAIN MapTable /\ Returns(-1) /\ UNCHANGED <<memory, stores>>
        \/ fd \in DOMAIN MapTable /\ KeyAt(fd).result # "copied" /\ Fails(KeyAt(fd))
        \/ /\ fd \in DOMAIN MapTable /\ KeyAt(fd).result = "copied"
           /\ \/ ValueAt(fd).result # "copied" /\ Fails(ValueAt(fd))
              \/ /\ ValueAt(fd).result = "copied"
                 /\ IF Writable(fd, key, regs[4])
                    THEN /\ Returns(0)
                         /\ stores' = [stores EXCEPT ![fd] =
                              [k \in DOMAIN store \cup {key} |->
                                 IF k = key THEN ValueAt(fd).value ELSE store[k]]]
                    ELSE Returns(-1) /\ UNCHANGED stores
                 /\ UNCHANGED memory

\* helper_map_delete; deleting from an array zeroes the slot.
MapDelete ==
    LET fd == regs[1]
        store == stores[fd]
        key == KeyAt(fd).value
    IN  \/ fd \notin DOMAIN MapTable /\ Returns(-1) /\ UNCHANGED <<memory, stores>>
        \/ fd \in DOMAIN MapTable /\ KeyAt(fd).result # "copied" /\ Fails(KeyAt(fd))
        \/ /\ fd \in DOMAIN MapTable /\ KeyAt(fd).result = "copied"
           /\ IF key \in DOMAIN store
              THEN /\ Returns(0)
                   /\ stores' = [stores EXCEPT ![fd] =
                        IF MapTable[fd].kind = "Array"
                        THEN [store EXCEPT ![key] = ZeroValue(fd)]
                        ELSE [k \in DOMAIN store \ {key} |-> store[k]]]
              ELSE Returns(-1) /\ UNCHANGED stores
           /\ UNCHANGED memory

\* HelperRegistry: a machine without maps has an empty one.
Registered == IF DOMAIN MapTable = {} THEN {} ELSE 1..3

\* dispatch_helper
ExecCall(i) ==
    \/ i.func \notin Registered /\ Fails(Error("UnknownHelper"))
    \/ i.func = 1 /\ 1 \in Registered /\ MapLookup
    \/ i.func = 2 /\ 2 \in Registered /\ MapUpdate
    \/ i.func = 3 /\ 3 \in Registered /\ MapDelete

-----------------------------------------------------------------------------
\* jump_taken
Taken(i) == i.op = "Always" \/ JumpTakenW(i.op, regs[i.dst], Value(i.src), i.width)

\* Vm::step on a lowered instruction, the program counter apart.
Execute(i) ==
    \/ i.insn = "Alu" /\ ExecAlu(i)
    \/ i.insn = "LoadImm64" /\ ExecLoadImm64(i)
    \/ i.insn = "Load" /\ ExecLoad(i)
    \/ i.insn = "Store" /\ ExecStore(i)
    \/ i.insn = "Jump" /\ ret' = Continue /\ UNCHANGED <<regs, memory, stores>>
    \/ i.insn = "Call" /\ ExecCall(i)
    \/ i.insn = "Exit" /\ Fails(ExitWith(regs[0]))
    \/ i.insn = "Trap" /\ Fails(Error(i.kind))
=============================================================================
