------------------------------ MODULE SsaBuild ------------------------------
(***************************************************************************)
(* Construction of SSA form (ebpf-ssa/src/construct.rs).  A record s is    *)
(* the Builder; every operator takes it and gives it back.  Reading a      *)
(* register follows the predecessors until a version is found and mints    *)
(* phis where control flow meets; blocks whose predecessors are not all    *)
(* sealed get phis without operands that sealing completes.                *)
(***************************************************************************)
EXTENDS Ssa

Registers == 0..10

\* The versions of the prelude: zero, frame pointer and context.
EntryEnv == [r \in Registers |-> IF r = 10 THEN 1 ELSE IF r = 1 THEN 2 ELSE 0]

\* The sources of the edges into a block, the one added last first.
Preds(graph) ==
    LET blocks == Sorted(DOMAIN graph, >)
        into(a, b) == SelectSeq(graph[a], LAMBDA e : e.to = b)
    IN  [b \in DOMAIN graph |->
           SE!FlattenSeq([k \in DOMAIN blocks |->
               [n \in DOMAIN into(blocks[k], b) |-> blocks[k]]])]

\* Builder::new and prelude.  In an entry with an edge into it only the frame
\* pointer is known.
NewBuilder(graph) ==
    LET preds == Preds(graph)
        nothing == [b \in DOMAIN graph |-> <<>>]
    IN  [preds |-> preds,
         cur |-> [b \in DOMAIN graph |->
                    [r \in Registers |->
                        IF b = 1 /\ (preds[1] = <<>> \/ r = 10) THEN EntryEnv[r] ELSE None]],
         sealed |-> {}, filled |-> {}, live |-> {}, sealing |-> {}, resolving |-> {},
         heads |-> [nothing EXCEPT ![1] = <<Const(0, 0), FramePtr(1), EntryCtx(2)>>],
         bodies |-> nothing, incomplete |-> nothing, stale |-> <<>>, next |-> 3]

Got(s, v) == [s |-> s, v |-> v]
Remember(s, b, r, v) == [s EXCEPT !.cur[b][r] = v]

\* mint_phi: the position of the phi is the last of the head.
MintPhi(s, b, r) ==
    LET starts == b = 1 /\ s.preds[1] # <<>>
    IN  [s EXCEPT !.next = @ + 1, !.cur[b][r] = s.next,
                  !.heads[b] = Append(@, Phi(s.next, IF starts THEN <<StartPred>> ELSE <<>>,
                                                     IF starts THEN <<EntryEnv[r]>> ELSE <<>>))]

\* One more input of a phi, the version that was read from a predecessor.
AddInput(got, b, pos, pred) ==
    [got.s EXCEPT !.heads[b][pos].args = Append(@, V(got.v)),
                  !.heads[b][pos].info.preds = Append(@, pred)]
NoteStale(s, final, b, pos, pred, r) ==
    IF final THEN s
    ELSE [s EXCEPT !.stale = Append(@, [block |-> b, pos |-> pos, pred |-> pred, reg |-> r,
                                        input |-> Len(s.heads[b][pos].args)])]

RECURSIVE Read(_, _, _), CompletePhi(_, _, _, _, _)

\* Variant: the version a predecessor had while it was not filled is final.
CompletePhiOnce(s, b, pos, r, n) ==
    IF n > Len(s.preds[b]) THEN s
    ELSE CompletePhi(AddInput(Read(s, s.preds[b][n], r), b, pos, s.preds[b][n]),
                     b, pos, r, n + 1)

\* complete_phi from the n-th predecessor on.  The version of a predecessor
\* that is not filled yet is recorded as stale.
CompletePhi(s, b, pos, r, n) ==
    IF n > Len(s.preds[b]) THEN s
    ELSE CompletePhi(NoteStale(AddInput(Read(s, s.preds[b][n], r), b, pos, s.preds[b][n]),
                               s.preds[b][n] \in s.filled, b, pos, s.preds[b][n], r),
                     b, pos, r, n + 1)

CompleteLast(s, b, r) == CompletePhi(s, b, Len(s.heads[b]), r, 1)
Merge(s, b, r) == Got(CompleteLast(MintPhi(s, b, r), b, r), s.next)

\* The phi minted last waits for its operands.
Postpone(s, b, r) ==
    [s EXCEPT !.incomplete[b] = Append(@, [pos |-> Len(s.heads[b]), reg |-> r])]
Cached(got, b, r) == Got(Remember(got.s, b, r, got.v), got.v)

\* resolve_uncached
Resolve(s, b, r) ==
    LET preds == s.preds[b]
    IN  CASE b \notin s.sealed -> Got(Postpone(MintPhi(s, b, r), b, r), s.next)
          [] b \in s.sealed /\ preds = <<b>> -> Cached(Got(s, EntryEnv[r]), b, r)
          [] b \in s.sealed /\ Len(preds) = 1 /\ preds # <<b>>
                /\ preds[1] \in s.filled \ s.sealing -> Cached(Read(s, preds[1], r), b, r)
          [] OTHER -> Merge(s, b, r)

EndResolve(got, b, r) == Got([got.s EXCEPT !.resolving = @ \ {<<b, r>>}], got.v)

\* read and read_recursive; a resolution that runs into itself is a merge.
Read(s, b, r) ==
    IF s.cur[b][r] # None THEN Got(s, s.cur[b][r])
    ELSE IF <<b, r>> \in s.resolving THEN Merge(s, b, r)
    ELSE EndResolve(Resolve([s EXCEPT !.resolving = @ \cup {<<b, r>>}], b, r), b, r)

-----------------------------------------------------------------------------
(***************************************************************************)
(* fill: one instruction after the other.                                  *)
(***************************************************************************)

Emit(s, b, i) == [s EXCEPT !.bodies[b] = Append(@, i)]
Define(s, b, r, i) ==
    [s EXCEPT !.bodies[b] = Append(@, i), !.cur[b][r] = s.next, !.next = @ + 1]

\* operand
AsVal(got) == Got(got.s, V(got.v))
ReadOperand(s, b, o) == IF IsReg(o) THEN AsVal(Read(s, b, o.reg)) ELSE Got(s, K(o.imm))

\* A register and then an operand.
Pair(lhs, rhs) == [s |-> rhs.s, lhs |-> lhs.v, rhs |-> rhs.v]
ThenOperand(lhs, b, o) == Pair(lhs, ReadOperand(lhs.s, b, o))
ReadPair(s, b, r, o) == ThenOperand(Read(s, b, r), b, o)

\* The versions of several registers, read in order.
AddTo(vs, got) == Got(got.s, Append(vs, got.v))
ReadAll(s, b, rs) ==
    SE!FoldLeft(LAMBDA acc, r : AddTo(acc.v, Read(acc.s, b, r)), Got(s, <<>>), rs)

BranchTo(graph, b, kind) ==
    LET edges == SelectSeq(graph[b], LAMBDA e : e.kind = kind)
    IN  IF edges = <<>> THEN None ELSE edges[1].to

FillCopy(got, b, ins) == Define(got.s, b, ins.dst, Copy(got.s.next, got.v))
FillBinOp(got, b, ins) ==
    LET op == BinOp(got.s.next, ins.width, ins.op, V(got.lhs), got.rhs)
    IN  IF ins.dst = 10 THEN [Emit(got.s, b, op) EXCEPT !.next = @ + 1]
        ELSE Define(got.s, b, ins.dst, op)
FillLoad(base, b, ins) ==
    IF ins.dst = 10 THEN Emit(base.s, b, LoadOp(None, ins.size, base.v, ins.offset))
    ELSE Define(base.s, b, ins.dst, LoadOp(base.s.next, ins.size, base.v, ins.offset))
FillStore(got, b, ins) == Emit(got.s, b, StoreOp(ins.size, got.lhs, ins.offset, got.rhs))
FillBr(got, graph, b, ins) ==
    Emit(got.s, b, Br(ins.width, ins.op, V(got.lhs), got.rhs,
                      BranchTo(graph, b, "BranchTrue"), BranchTo(graph, b, "BranchFalse")))
FillCall(args, b, ins) == Define(args.s, b, 0, CallOp(args.s.next, ins.func, args.v))
FillExit(r0, b) == Emit(r0.s, b, ExitOp(r0.v))

\* What a write to r10 leaves of an instruction: nothing, unless it traps.
FillAlu(s, b, ins) ==
    IF ins.op = "Mov" /\ ins.width = 64 /\ IsReg(ins.src)
    THEN FillCopy(Read(s, b, ins.src.reg), b, ins)
    ELSE FillBinOp(ReadPair(s, b, ins.dst, ins.src), b, ins)

BadWidth(ins) == ins.op \in EndOps /\ (IsReg(ins.src) \/ ins.src.imm \notin EndWidths)

FillInsn(s, graph, b, ins) ==
    CASE ins.insn = "Alu" ->
            IF ins.dst = 10 /\ ~ BadWidth(ins) THEN s ELSE FillAlu(s, b, ins)
      [] ins.insn = "LoadImm64" ->
            IF ins.dst = 10 THEN s ELSE Define(s, b, ins.dst, LoadImm(s.next, ins.imm))
      [] ins.insn = "Load" -> FillLoad(Read(s, b, ins.base), b, ins)
      [] ins.insn = "Store" -> FillStore(ReadPair(s, b, ins.base, ins.src), b, ins)
      [] IsJump(ins) /\ ~ IsConditional(ins) -> Emit(s, b, Ja(BranchTo(graph, b, "Unconditional")))
      [] IsConditional(ins) -> FillBr(ReadPair(s, b, ins.dst, ins.src), graph, b, ins)
      [] ins.insn = "Call" -> FillCall(ReadAll(s, b, <<1, 2, 3, 4, 5>>), b, ins)
      [] ins.insn = "Exit" -> FillExit(Read(s, b, 0), b)

\* seal: the phis that were left without operands
Seal(s, b) ==
    LET opened == [s EXCEPT !.sealing = @ \cup {b}, !.incomplete[b] = <<>>]
        completed == SE!FoldLeft(LAMBDA t, phi : CompletePhi(t, b, phi.pos, phi.reg, 1),
                                 opened, s.incomplete[b])
    IN  [completed EXCEPT !.sealing = @ \ {b}, !.sealed = @ \cup {b}]

Filled(s, b) == [s EXCEPT !.filled = @ \cup {b}]

\* One round of build_ssa's loop over the reverse postorder: a block whose
\* predecessors are all sealed is sealed before it is filled.
FillBlock(s, graph, code, b) ==
    LET opened == [s EXCEPT !.live = @ \cup {b},
                            !.sealed = IF SE!ToSet(s.preds[b]) \subseteq @ THEN @ \cup {b} ELSE @]
    IN  Seal(Filled(SE!FoldLeft(LAMBDA t, ins : FillInsn(t, graph, b, ins),
                                opened, SubSeq(code, b, BlockLast(code, b))), b), b)

\* repair: stale inputs get the final versions of their predecessors.
Repair(s) ==
    LET heal(t, e) ==
            IF e.pred \in s.filled /\ s.cur[e.pred][e.reg] # None
            THEN [t EXCEPT !.heads[e.block][e.pos].args[e.input] = V(s.cur[e.pred][e.reg])]
            ELSE t
    IN  SE!FoldLeft(heal, s, s.stale)

\* finish
Finish(s, graph) ==
    [graph |-> graph, live |-> s.live, next |-> s.next,
     blocks |-> [b \in DOMAIN graph |-> s.heads[b] \o s.bodies[b]]]
=============================================================================
