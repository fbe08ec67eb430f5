-------------------------------- MODULE Cfg --------------------------------
(***************************************************************************)
(* Construction of the control-flow graph (ebpf-cfg/src/lib.rs).  Jumps    *)
(* are resolved in slots, leaders cut the program into blocks, the last    *)
(* instruction of a block gives its edges.  A block is named by the index  *)
(* of its first instruction, counted from 1.                               *)
(***************************************************************************)
EXTENDS Insn, Sequences, FiniteSetsExt

\* slot_maps, forward: the slot where instruction i starts.
SlotOf(code, i) == MapThenSumSet(LAMBDA j : Slots(code[j]), 1 .. (i - 1))

\* slot_maps, backward: the instruction that starts at a slot, 0 in the
\* middle of a wide one.
DecodedOfSlot(code) ==
    [s \in 0 .. (SlotOf(code, Len(code) + 1) - 1) |->
        Max({0} \cup {i \in DOMAIN code : SlotOf(code, i) = s})]

\* resolve_target: the two errors and the target.
OutOfBounds == -1
IntoWide == 0

\* Variant: a target in the middle of a wide load rounded up.
DecodedAtRounded(decoded, target) ==
    IF target \notin DOMAIN decoded THEN OutOfBounds
    ELSE IF decoded[target] = IntoWide /\ target + 1 \in DOMAIN decoded THEN decoded[target + 1]
    ELSE decoded[target]

DecodedAt(decoded, target) ==
    IF target \in DOMAIN decoded THEN decoded[target] ELSE OutOfBounds

ResolveTarget(code, i) ==
    DecodedAt(DecodedOfSlot(code), SlotOf(code, i) + 1 + code[i].offset)

\* jump_targets
Jumps(code) == {i \in DOMAIN code : IsJump(code[i])}
Resolved(code) == \A i \in Jumps(code) : ResolveTarget(code, i) \in DOMAIN code

\* find_leaders and build_cfg succeed.
Builds(code) == code # <<>> /\ Resolved(code)

\* Variant: no leader after a jump.
LeadersAtTargets(code) ==
    {1} \cup {ResolveTarget(code, i) : i \in Jumps(code)}

\* collect_leaders
Leaders(code) ==
    {1} \cup {ResolveTarget(code, i) : i \in Jumps(code)}
        \cup {i + 1 : i \in {j \in DOMAIN code : j < Len(code) /\ code[j].insn \in {"Jump", "Exit"}}}

\* Blocks end before the next leader; block_of_pc.
BlockEnd(code, b) == Min({l \in Leaders(code) : l > b} \cup {Len(code) + 1})
BlockLast(code, b) == BlockEnd(code, b) - 1
LeaderOf(leaders, i) == Max({l \in leaders : l <= i})
BlockOfPc(code, i) == LeaderOf(Leaders(code), i)
BlockLen(code, b) == BlockEnd(code, b) - b

Edge(kind, to) == [to |-> to, kind |-> kind]

\* The edges behind the instruction at `last`, a jump to `target`, in the
\* order petgraph iterates them, which is the one that was added last first.
EdgesBehind(code, leaders, last, target) ==
    LET next(kind) == IF last < Len(code)
                      THEN <<Edge(kind, LeaderOf(leaders, last + 1))>> ELSE <<>>
    IN  CASE IsConditional(code[last]) ->
                next("BranchFalse") \o <<Edge("BranchTrue", LeaderOf(leaders, target))>>
          [] IsJump(code[last]) /\ ~ IsConditional(code[last]) ->
                <<Edge("Unconditional", LeaderOf(leaders, target))>>
          [] code[last].insn = "Exit" -> <<>>
          [] OTHER -> next("Fallthrough")

EdgesOf(code, b) ==
    EdgesBehind(code, Leaders(code), BlockLast(code, b), ResolveTarget(code, BlockLast(code, b)))

Targets(edges) == {edges[n].to : n \in DOMAIN edges}
Successors(code, b) == Targets(EdgesOf(code, b))
=============================================================================
