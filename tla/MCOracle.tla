------------------------------ MODULE MCOracle ------------------------------
(***************************************************************************)
(* TLC instances of Oracle.  24-bit words; maps whose values differ in     *)
(* size; a packet of four bytes and two bytes of data.                     *)
(***************************************************************************)
EXTENDS Oracle, TLC

MCTable == 1 :> [kind |-> "Array", key |-> 1, value |-> 2, entries |-> 2]
        @@ 2 :> [kind |-> "Array", key |-> 1, value |-> 1, entries |-> 2]
        @@ 3 :> [kind |-> "Hash", key |-> 1, value |-> 2, entries |-> 1]
MCPackets == {NoBytes, <<1, 2, 3, 4>>}
MCRegs == 0..10
MCFds == {1, 2, 3}
MCDatas == {<<5, 6>>}

Mov(d, o) == Alu(64, "Mov", d, o)
Add(d, o) == Alu(64, "Add", d, o)

\* Stack pointers moved about, bytes written and read at every edge.
StackWork ==
    {Mov(2, Reg(Fp)), Add(2, Imm(-4)), Alu(64, "Sub", 2, Imm(-2)), Add(2, Reg(3)), Alu(32, "Mov", 2, Reg(2)),
     Mov(3, Imm(-1)), St(2, 2, 2, Reg(3)), St(1, 2, 3, Imm(0)), St(4, 2, -64, Imm(1)),
     Ldx(4, 3, 2, 0), Ldx(2, 4, Fp, -2), Ldx(1, 2, 2, 0), Jump(64, "Sgt", 3, Imm(0), 0)}

\* A packet program: context, bounds checks on either side, accesses.
PacketWork ==
    {Ldx(4, 2, 1, 0), Ldx(4, 3, 1, 4), Ldx(1, 4, 1, 4), Mov(4, Reg(2)), Add(4, Imm(2)), Add(4, Reg(5)),
     Ldx(1, 5, 2, 0), Ldx(2, 5, 4, 0), Ldx(1, 5, 4, 1), Jump(64, "Gt", 4, Reg(3), 0),
     Jump(64, "Sge", 3, Reg(4), 0), Jump(64, "Slt", 5, Imm(3), 0), Mov(5, Imm(-1)), St(1, 4, 0, Imm(1))}

\* Lookups, null checks and accesses to the value, with a key on the stack.
MapWork ==
    {LdImm64(1, 1), LdImm64(1, 2), LdImm64(1, 3), Mov(2, Reg(Fp)), Add(2, Imm(-2)), Mov(3, Reg(2)),
     St(2, Fp, -2, Imm(1)), Mov(4, Imm(0)), Call(1), Call(2), Call(3),
     Jump(64, "Eq", 0, Imm(0), 0), Jump(64, "Ne", 0, Imm(1), 0), Ldx(2, 6, 0, 0), St(1, 0, 1, Imm(3)), Mov(7, Reg(0)),
     Ldx(2, 6, 7, 0)}

\* Linked data.
DataWork ==
    {LdImm64(2, Mem!RodataBase), LdImm64(2, Mem!RodataBase + 2), Add(2, Imm(1)), Ldx(1, 3, 2, 0), Ldx(2, 3, 2, 0),
     Alu(64, "Sub", 2, Reg(3)), Jump(64, "Slt", 3, Imm(6), 0), St(1, 2, 0, Imm(0)), Mov(4, Reg(2)), Ldx(1, 3, 4, -1)}

\* A map number read back from the stack.
UnknownFd == {St(1, Fp, -1, Imm(1)), Ldx(1, 1, Fp, -1), Call(1), Mov(2, Imm(0))}

\* A delete of a key that is not there, its result added to a packet pointer.
RefusedDelete ==
    {Ldx(4, 6, 1, 0), St(1, Fp, -1, Imm(1)), Mov(2, Reg(Fp)), Add(2, Imm(-1)), LdImm64(1, 3),
     Call(3), Add(6, Reg(0)), Ldx(1, 5, 6, 0)}

\* A packet pointer moved below address zero before the bounds check.
WrappedPacket ==
    {Ldx(4, 2, 1, 0), Ldx(4, 3, 1, 4), Add(2, Imm(-(Mem!PacketBase + 1))),
     Jump(64, "Gt", 2, Reg(3), 0), Ldx(1, 4, 2, 0)}

\* A packet pointer moved around the end of the address space.
FarPacket ==
    {Ldx(4, 2, 1, 0), Ldx(4, 3, 1, 4), LdImm64(5, IMax - Mem!PacketBase), LdImm64(5, IMax), Alu(64, "And", 5, Imm(-2)),
     Add(2, Reg(5)), Jump(64, "Slt", 2, Reg(3), 0), Jump(64, "Sge", 3, Reg(2), 0), Ldx(1, 4, 2, 0)}

\* A packet longer than the distance of two regions, read behind it.
LongPacket == {Ldx(4, 2, 1, 0), Add(2, Imm(Gap)), Ldx(1, 4, 2, 0)}

\* Left by a lookup on another path, and by a bounds check.
Left(xdp, regs0, init) == [InitialState(xdp) EXCEPT !.regs = regs0 @@ @, !.init = init]
MCRecorded ==
    [xdp \in BOOLEAN |->
       {IF xdp
        THEN Left(xdp, 2 :> PacketPtr(Exact(0)) @@ 3 :> Scalar(Exact(Mem!PacketBase + 4))
                         @@ 4 :> PacketPtr(Exact(2)) @@ 5 :> Scalar(Interval(IMin, 2)), {})
        ELSE Left(xdp, 0 :> MaybeMapPtr(1) @@ 1 :> Scalar(Exact(1)) @@ 2 :> StackPtr(-2)
                         @@ 4 :> Scalar(Exact(0)), {62, 63})}]
NoneRecorded == [xdp \in BOOLEAN |-> {}]

MCCatalogues == {StackWork, PacketWork, MapWork, DataWork, FarPacket}
GapCatalogues == {UnknownFd, RefusedDelete, WrappedPacket, FarPacket, LongPacket}
GapPackets == MCPackets \cup {[n \in 1..(Gap + 2) |-> 1]}

\* The instance without gaps is one the proofs speak of.
ASSUME MCFits == OnlyPrecise => PayloadsFit
=============================================================================
