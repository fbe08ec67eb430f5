------------------------------- MODULE Oracle -------------------------------
(***************************************************************************)
(* The verifier and the interpreter side by side on one path of a program: *)
(* check_and_transfer and Vm::step take the same instruction, refine_edge  *)
(* follows the branch the machine takes, and where the path meets another  *)
(* one merge_successor weakens what is known.  This is the differential    *)
(* oracle of crates/ebpf-verifier/tests/differential.rs (accepted programs *)
(* never fault in memory) for every path of every accepted program over    *)
(* the given instructions.                                                 *)
(***************************************************************************)
EXTENDS Machine, Transfer, Precision

CONSTANTS
    Catalogues,  \* sets of instructions that programs are made of
    Packets,     \* the packets to run on, or NoBytes
    Datas,       \* read-only data, or NoBytes
    Recorded,    \* states other paths left at a block, without and with a packet
    MaxSteps     \* bound on the length of a path

\* The verifier's constants are those of the machine it speaks of.
ASSUME OracleAssumption ==
    /\ Regs = Register /\ FramePtr = Fp /\ StackBytes = StackSize /\ Fds = DOMAIN MapTable
    /\ PacketStart = Mem!PacketBase /\ RodataStart = Mem!RodataBase /\ XdpMdBytes = Mem!XdpMdLen
    /\ \A catalogue \in Catalogues : catalogue \subseteq Instruction
    /\ \A p \in (Packets \cup Datas) \ {NoBytes} : p \in Seq(0 .. (Radix - 1))
    /\ Recorded \in [BOOLEAN -> SUBSET AbsState]
    /\ MaxSteps \in Nat

Len0(b) == IF b = NoBytes THEN NoLen ELSE Len(b)

VARIABLES
    abs,    \* the verifier's state
    pool,   \* the catalogue in use
    steps   \* instructions executed

vars == <<abs, pool, steps, machine>>

Config == [maps |-> MapTable, packet |-> Len0(packet), data |-> Len0(rodata)]

Init ==
    /\ \E p \in Packets, d \in Datas : Boot(p, d)
    /\ abs = InitialState(packet # NoBytes)
    /\ pool \in Catalogues
    /\ steps = 0

-----------------------------------------------------------------------------
(***************************************************************************)
(* Where the verifier loses track of the machine, and everything else.     *)
(***************************************************************************)

Holds(r, type) == abs.regs[r].type = type

\* alu_transfer does not ask whether the destination is initialized.
TracksAlu(i) ==
    /\ i.op = "Mov" \/ ~ Holds(i.dst, "NotInit")
    /\ PreciseAlu(i.op, ScalarRange(abs.regs[i.dst]), OperandRange(abs, i.src), i.width)

\* refine_packet_edge compares offsets where the machine compares addresses;
\* the two agree unless the pointer went around an end of the address space.
TracksPacketJump(i) ==
    (BoundsPacket(abs, i.dst, i.src.reg) \/ BoundsPacket(abs, i.src.reg, i.dst)) =>
        /\ i.width = 64
        /\ \A r \in {i.dst, i.src.reg} :
              Fits(regs[r] - PacketStart) /\ (i.op \in UnsignedOps => regs[r] >= 0)

TracksJump(i) ==
    IF IsReg(i.src) THEN TracksPacketJump(i)
    ELSE PreciseJump(i.op, ScalarRange(abs.regs[i.dst]), i.src.imm, i.width)

\* A fd that is not exactly known leaves the buffers unchecked; a refused
\* update or delete returns -1.
TracksCall(i) ==
    i.func \in MapHelpers =>
        /\ FdKnown(abs)
        /\ i.func \in {2, 3} => regs'[0] = 0

TracksInsn(i) ==
    CASE i.insn = "Alu"     -> TracksAlu(i)
      [] IsConditional(i)   -> TracksJump(i)
      [] i.insn = "Call"    -> TracksCall(i)
      [] OTHER -> TRUE

\* No payload reaches from its region into the next one, and read-only data
\* does not run out of addresses.
PayloadsFit ==
    /\ \A p \in Packets \ {NoBytes} : Len(p) <= Gap
    /\ \A d \in Datas \ {NoBytes} : Mem!RodataBase + Len(d) <= IMax + 1
    /\ \A fd \in DOMAIN MapTable : MapTable[fd].value <= Gap

-----------------------------------------------------------------------------
Step(i) ==
    /\ Running /\ steps < MaxSteps
    /\ Accepts(Config, abs, i)
    /\ Execute(i)
    /\ OnlyPrecise => TracksInsn(i)
    /\ abs' = IF IsConditional(i)
              THEN RefineBranch(abs, i, Taken(i))
              ELSE After(Config, abs, i)
    /\ steps' = steps + 1
    /\ pool' = pool

\* merge_successor: the verifier goes on from what other paths left there.
Merge(recorded) ==
    /\ Running
    /\ abs' \in {StateJoin(recorded, abs), StateWiden(recorded, abs)}
    /\ UNCHANGED <<pool, steps, machine>>

Next ==
    \/ \E i \in pool : Step(i)
    \/ \E recorded \in Recorded[packet # NoBytes] : Merge(recorded)

Spec == Init /\ [][Next]_vars

-----------------------------------------------------------------------------
(***************************************************************************)
(* Properties                                                              *)
(***************************************************************************)

\* differential.rs:1: "verifier-accepts => VM never faults with `MemError`".
NoMemoryFault == ret.result \notin MemErrors

\* The machine words a register type stands for.
InMap(fd, v) == v = Mem!MapScratchBase /\ Len(mapScratch) = MapTable[fd].value
Describes(t, v) ==
    CASE t.type = "NotInit"     -> TRUE
      [] t.type = "Scalar"      -> Contains(t.range, v)
      [] t.type = "StackPtr"    -> v = Mem!StackBase + t.offset
      [] t.type = "XdpMdPtr"    -> v = Mem!XdpMdBase
      [] t.type = "PacketPtr"   -> Contains(t.range, WrappingSub(v, Mem!PacketBase))
      [] t.type = "DataPtr"     -> Contains(t.range, WrappingSub(v, Mem!RodataBase))
      [] t.type = "MapPtr"      -> InMap(t.fd, v)
      [] t.type = "MaybeMapPtr" -> v = 0 \/ InMap(t.fd, v)

\* RegType and the stack map of VerifierState: along every path each register
\* holds a word its type stands for, and a byte the verifier takes for
\* written has its bit set in the machine's bitmap.
Tracks ==
    Running =>
        /\ \A r \in 0..10 : Describes(abs.regs[r], regs[r])
        /\ \A b \in abs.init : (b % 64) \in initialized[b \div 64]
=============================================================================
