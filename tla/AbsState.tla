------------------------------ MODULE AbsState ------------------------------
(***************************************************************************)
(* The abstract machine state the verifier propagates                      *)
(* (ebpf-verifier/src/state.rs, `RegType` and `VerifierState`): one        *)
(* register type per register and the set of stack bytes known to be       *)
(* written.  The map table, the packet length and the data length of a     *)
(* VerifierState are configuration: verify_core installs them once in the  *)
(* entry state and nothing assigns them, so they are not part of the       *)
(* state here (their merge in join_assign never sees two values).          *)
(***************************************************************************)
EXTENDS RangeDomain, FiniteSets, Functions

CONSTANTS
    Regs,       \* the registers in use; a subset of 0..10 with r0 and r10
    FramePtr,   \* r10
    StackBytes, \* STACK_BYTES
    Fds         \* the map file descriptors that can occur

ASSUME AbsAssumption ==
    /\ FramePtr \in Regs
    /\ IsFiniteSet(Regs)
    /\ StackBytes \in Nat \ {0}

StackByte == 0 .. (StackBytes - 1)

-----------------------------------------------------------------------------
(***************************************************************************)
(* RegType                                                                 *)
(***************************************************************************)

NotInit == [type |-> "NotInit"]
XdpMdPtr == [type |-> "XdpMdPtr"]
Scalar(r) == [type |-> "Scalar", range |-> r]
StackPtr(o) == [type |-> "StackPtr", offset |-> o]
MapPtr(fd) == [type |-> "MapPtr", fd |-> fd]
MaybeMapPtr(fd) == [type |-> "MaybeMapPtr", fd |-> fd]
PacketPtr(r) == [type |-> "PacketPtr", range |-> r]
DataPtr(r) == [type |-> "DataPtr", range |-> r]

\* The three types that carry a range; widening treats them alike.
Ranged == {"Scalar", "PacketPtr", "DataPtr"}

RegType ==
    {NotInit, XdpMdPtr}
        \cup [type : Ranged, range : Ranges]
        \cup [type : {"StackPtr"}, offset : Int]
        \cup [type : {"MapPtr", "MaybeMapPtr"}, fd : Fds]

\* RegType::join.  NotInit wins over everything; types that do not agree
\* fall to an unknown scalar; a map pointer and a nullable one of the same
\* map meet in the nullable one.
RegJoin(a, b) ==
    CASE NotInit \in {a, b} -> NotInit
      [] a.type \in Ranged /\ b.type = a.type ->
            [type |-> a.type, range |-> RangeJoin(a.range, b.range)]
      [] a.type = "StackPtr" /\ b.type = "StackPtr" /\ a.offset = b.offset -> a
      [] a.type = "MapPtr" /\ b.type = "MapPtr" /\ a.fd = b.fd -> a
      [] /\ {a.type, b.type} \subseteq {"MapPtr", "MaybeMapPtr"}
         /\ "MaybeMapPtr" \in {a.type, b.type}
         /\ a.fd = b.fd -> MaybeMapPtr(a.fd)
      [] a = XdpMdPtr /\ b = XdpMdPtr -> XdpMdPtr
      [] OTHER -> Scalar(Top)

\* The register rule of VerifierState::widen_assign.
RegWiden(a, b) ==
    IF a.type \in Ranged /\ b.type = a.type
    THEN [type |-> a.type, range |-> RangeWiden(a.range, b.range)]
    ELSE RegJoin(a, b)

\* a is at most b when merging a into b leaves b alone, which is the
\* "unchanged" answer of RegType::join_assign.
RegLeq(a, b) == RegJoin(b, a) = b

-----------------------------------------------------------------------------
(***************************************************************************)
(* VerifierState                                                           *)
(***************************************************************************)

AbsState == [regs : [Regs -> RegType], init : SUBSET StackByte]

\* VerifierState::initial_with_maps and ::initial_xdp; r1 holds the context
\* pointer exactly when a packet is configured.
InitialState(xdp) ==
    [regs |-> [r \in Regs |->
                 IF r = FramePtr THEN StackPtr(0)
                 ELSE IF r = 1 /\ xdp THEN XdpMdPtr
                 ELSE NotInit],
     init |-> {}]

\* VerifierState::mark_stack_range and ::stack_range_init
MarkStackRange(s, lo, hi) == [s EXCEPT !.init = @ \cup (lo..hi)]
StackRangeInit(s, lo, hi) == lo..hi \subseteq s.init

\* VerifierState::join_assign and ::widen_assign; the code's "changed" flag
\* is exactly result # s.
StateJoin(s, t) ==
    [regs |-> [r \in Regs |-> RegJoin(s.regs[r], t.regs[r])],
     init |-> s.init \cap t.init]

StateWiden(s, t) ==
    [regs |-> [r \in Regs |-> RegWiden(s.regs[r], t.regs[r])],
     init |-> s.init \cap t.init]

StateLeq(s, t) ==
    /\ \A r \in Regs : RegLeq(s.regs[r], t.regs[r])
    /\ t.init \subseteq s.init

-----------------------------------------------------------------------------
(***************************************************************************)
(* How often widening can change a state.                                  *)
(***************************************************************************)

\* Bottom becomes whatever arrives; a bound of an interval jumps once; an
\* interval between the extremes becomes Top, which stays.
RangeRank(r) ==
    CASE r = Bottom -> 3
      [] r = Top -> 0
      [] OTHER -> IF r.lo # IMin /\ r.hi # IMax THEN 2 ELSE 1

\* Types that disagree become an unknown scalar, and from there NotInit; a map
\* pointer may become nullable first.
RegRank(a) ==
    CASE a = NotInit -> 0
      [] a.type = "Scalar" -> RangeRank(a.range) + 1
      [] a.type \in {"PacketPtr", "DataPtr"} -> RangeRank(a.range) + 2
      [] a.type = "MapPtr" -> 3
      [] OTHER -> 2

\* Each register on its own, and each stack byte that counts as written.
StateRank(s) ==
    SumFunctionOnSet([r \in Regs |-> RegRank(s.regs[r])], Regs) + Cardinality(s.init)

StateHeight == SumFunctionOnSet([r \in Regs |-> 5], Regs) + StackBytes
=============================================================================
