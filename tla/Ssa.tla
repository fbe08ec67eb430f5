-------------------------------- MODULE Ssa --------------------------------
(***************************************************************************)
(* Programs in static single assignment form (ebpf-ssa/src/lib.rs).  An    *)
(* instruction has a kind, the version it defines, its operands in order   *)
(* and what else its kind needs.  A program keeps the blocks of the        *)
(* control-flow graph, emptied but never removed; positions count its      *)
(* instructions over all blocks from 0.                                    *)
(***************************************************************************)
EXTENDS Alu, Cfg, FiniteSets
SE == INSTANCE SequencesExt

None == -1

\* A set in the order of a strict total order on it.
Sorted(S, before(_, _)) ==
    [k \in 1 .. Cardinality(S) |-> CHOOSE x \in S : Cardinality({y \in S : before(y, x)}) = k - 1]
StartPred == 0   \* start_pred: where the first round of an entry loop comes from

\* SsaOperand
V(v) == [val |-> v]
K(k) == [imm |-> k]
IsVal(o) == DOMAIN o = {"val"}

\* SsaInsn
Op(kind, dst, args, info) == [kind |-> kind, dst |-> dst, args |-> args, info |-> info]
Const(dst, value) == Op("Const", dst, <<>>, [value |-> value])
LoadImm(dst, value) == Op("LoadImm64", dst, <<>>, [value |-> value])
FramePtr(dst) == Op("FramePtr", dst, <<>>, [value |-> 0])
EntryCtx(dst) == Op("EntryCtx", dst, <<>>, [value |-> 0])
Copy(dst, src) == Op("Copy", dst, <<V(src)>>, [value |-> 0])
BinOp(dst, width, op, lhs, rhs) == Op("BinOp", dst, <<lhs, rhs>>, [width |-> width, op |-> op])
LoadOp(dst, size, base, offset) == Op("Load", dst, <<V(base)>>, [size |-> size, offset |-> offset])
StoreOp(size, base, offset, src) ==
    Op("Store", None, <<V(base), src>>, [size |-> size, offset |-> offset])
CallOp(dst, func, args) == Op("Call", dst, [n \in 1..5 |-> V(args[n])], [func |-> func])
Phi(dst, preds, values) == Op("Phi", dst, [n \in DOMAIN values |-> V(values[n])], [preds |-> preds])
Br(width, op, lhs, rhs, yes, no) ==
    Op("Br", None, <<lhs, rhs>>, [width |-> width, op |-> op, yes |-> yes, no |-> no])
Ja(target) == Op("Ja", None, <<>>, [target |-> target])
ExitOp(r0) == Op("Exit", None, <<V(r0)>>, [value |-> 0])

\* for_each_use
Uses(i) == {i.args[n].val : n \in {m \in DOMAIN i.args : IsVal(i.args[m])}}
IsControl(i) == i.kind \in {"Br", "Ja", "Exit"}

-----------------------------------------------------------------------------
(***************************************************************************)
(* SsaProgram: p.blocks[b] are the instructions of block b, p.live the     *)
(* blocks that may run, p.graph the edges of the control-flow graph.       *)
(***************************************************************************)

Order(p) == Sorted(DOMAIN p.blocks, <)
Base(p, b) == MapThenSumSet(LAMBDA c : Len(p.blocks[c]), {c \in DOMAIN p.blocks : c < b})
Size(p) == MapThenSumSet(LAMBDA c : Len(p.blocks[c]), DOMAIN p.blocks)
End(p, b) == Base(p, b) + Len(p.blocks[b])

\* The instructions of the live blocks, in the order of their positions.
Live(p) ==
    SE!FlattenSeq([k \in DOMAIN Order(p) |->
        LET b == Order(p)[k]
        IN  IF b \in p.live
            THEN [n \in DOMAIN p.blocks[b] |->
                    [insn |-> p.blocks[b][n], block |-> b, at |-> Base(p, b) + n - 1]]
            ELSE <<>>])
LiveSites(p) == SE!ToSet(Live(p))

\* def_of, over the live blocks (rebuild_def_sites)
Defs(p, v) == {s \in LiveSites(p) : s.insn.dst = v}
DefOf(p, v) == (CHOOSE s \in Defs(p, v) : TRUE).insn
DefinedBy(p, v, kinds) == \E s \in Defs(p, v) : s.insn.kind \in kinds

\* const_value
HasConst(p, o) == ~ IsVal(o) \/ DefinedBy(p, o.val, {"Const", "LoadImm64"})
ConstOf(p, o) == IF IsVal(o) THEN DefOf(p, o.val).info.value ELSE o.imm

\* An `End` whose width is not proven valid traps.
IsBadEnd(p, i) ==
    /\ i.kind = "BinOp" /\ i.info.op \in EndOps
    /\ ~ (HasConst(p, i.args[2]) /\ ConstOf(p, i.args[2]) \in EndWidths)

\* live_successors: a branch on a call or exit operation is never taken.
Terminators(p, b) == SelectSeq(p.blocks[b], IsControl)
Never(t) == t # <<>> /\ t[1].kind = "Br" /\ t[1].info.op \in NeverTaken
LiveEdges(p, b) ==
    SelectSeq(p.graph[b], LAMBDA e : ~ (e.kind = "BranchTrue" /\ Never(Terminators(p, b))))
Succs(p, b) == Targets(LiveEdges(p, b))

\* The blocks reachable from S over a successor function.
Reached(S, succ(_), bound) ==
    LET grow[n \in Nat] ==
            IF n = 0 THEN S
            ELSE LET prev == grow[n - 1] IN prev \cup UNION {succ(b) : b \in prev}
    IN  grow[bound]
Reachable(p) == Reached({1}, LAMBDA b : Succs(p, b), Cardinality(DOMAIN p.blocks))

\* cyclic_blocks, over every edge of the graph
OnCycle(p, b) ==
    LET next(c) == Targets(p.graph[c])
    IN  b \in Reached(next(b), next, Cardinality(DOMAIN p.blocks))
=============================================================================
