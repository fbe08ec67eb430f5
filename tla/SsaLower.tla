------------------------------ MODULE SsaLower ------------------------------
(***************************************************************************)
(* Lowering to instructions (ebpf-ssa/src/lower.rs).  A record l holds     *)
(* what Lower::new collects.  A jump is emitted with a target instead of   *)
(* an offset, which is filled in when all code is in place.  Where the     *)
(* code returns an error the output has a Refused mark: a program with one *)
(* is not lowered.                                                         *)
(***************************************************************************)
EXTENDS SsaAlloc

CONSTANT MaxOffset   \* i16::MAX, the longest jump

ASSUME LowerAssumption == MaxOffset \in Nat

Refused(error) == [insn |-> "Refused", error |-> error]

\* Target
ToBlock(b) == [block |-> b]
ToTramp(edge) == [tramp |-> edge]
FallOff == [off |-> 0]

HasHome(l, v) == v \in DOMAIN l.homes
FitsImm(k) == -((UMax32 + 1) \div 2) <= k /\ k <= UMax32 \div 2

-----------------------------------------------------------------------------
(***************************************************************************)
(* layout: chains of preferred successors, each from the first block that  *)
(* is not placed yet.                                                      *)
(***************************************************************************)

Preferred(p, live, b) ==
    LET to(kinds) == SelectSeq(p.graph[b], LAMBDA e : e.to \in live /\ e.kind \in kinds)
        wish == to({"Fallthrough"}) \o to({"BranchFalse"}) \o to({"BranchTrue", "Unconditional"})
    IN  IF wish = <<>> THEN {} ELSE {wish[1].to}

Layout(p, live) ==
    LET next(order) ==
            LET placed == SE!ToSet(order)
                chained == IF order = <<>> THEN {}
                           ELSE Preferred(p, live, order[Len(order)]) \ placed
            IN  IF chained # {} THEN CHOOSE b \in chained : TRUE
                ELSE CHOOSE b \in live \ placed : \A c \in live \ placed : b <= c
        grow[n \in Nat] ==
            IF n = 0 THEN <<>> ELSE LET prev == grow[n - 1] IN Append(prev, next(prev))
    IN  grow[Cardinality(live)]

-----------------------------------------------------------------------------
(***************************************************************************)
(* Moves                                                                   *)
(***************************************************************************)

Move(dst, src) == [dst |-> dst, src |-> src]
Elided(m) == m.src = Reg(m.dst)

\* emit_const and emit_move
EmitConst(home, k) == <<IF FitsImm(k) THEN Alu(64, "Mov", home, Imm(k)) ELSE LdImm64(home, k)>>
EmitMove(m) ==
    CASE Elided(m) -> <<>>
      [] ~ Elided(m) /\ IsReg(m.src) -> <<Alu(64, "Mov", m.dst, m.src)>>
      [] ~ IsReg(m.src) -> EmitConst(m.dst, m.src.imm)

\* Variant: the moves in the order they come.
EmitMovesUnordered(moves, error) ==
    SE!FlattenSeq([n \in DOMAIN moves |-> EmitMove(moves[n])])

\* order_moves and the emission of what it gives: a move goes first when no
\* other that is pending reads its destination.
EmitMoves(moves, error) ==
    LET pending == SelectSeq(moves, LAMBDA m : ~ Elided(m))
        ready(rest) == {i \in DOMAIN rest : \A j \in DOMAIN rest : rest[j].src # Reg(rest[i].dst)}
        step[n \in Nat] ==
            IF n = 0 THEN [rest |-> pending, code |-> <<>>]
            ELSE LET prev == step[n - 1]
                     i == CHOOSE j \in ready(prev.rest) : \A k \in ready(prev.rest) : j <= k
                 IN  IF ready(prev.rest) = {} THEN [prev EXCEPT !.code = Append(@, Refused(error))]
                     ELSE [rest |-> SE!RemoveAt(prev.rest, i),
                           code |-> prev.code \o EmitMove(prev.rest[i])]
    IN  step[Len(pending)].code

\* move_src.  Only a constant may have no home: the error for any other version
\* is out of reach, because every version that is read has one.
MoveSrc(l, v) == IF HasHome(l, v) THEN Reg(l.homes[v]) ELSE Imm(DefOf(l.p, v).info.value)

\* is_critical, over the edges of the blocks that may run
IsCritical(l, pred, b) ==
    /\ Len(LiveEdges(l.p, pred)) > 1
    /\ Cardinality({<<a, n>> \in l.live \X (1..2) :
                       n \in DOMAIN LiveEdges(l.p, a) /\ LiveEdges(l.p, a)[n].to = b}) > 1

OnTrampoline(l, pred, b, m) == (pred = b /\ ~ Elided(m)) \/ IsCritical(l, pred, b)

\* collect_phi_moves: one move for each input of a phi that needs a home.
PhiMoves(l) ==
    LET phis == SelectSeq(l.sites, LAMBDA s : s.block \in l.live /\ s.insn.kind = "Phi"
                                                /\ HasHome(l, s.insn.dst))
        alive(s) == SelectSeq([n \in DOMAIN s.insn.args |-> n],
                              LAMBDA n : s.insn.info.preds[n] \in l.live \cup {StartPred})
        moves(s) == [k \in DOMAIN alive(s) |->
                        [pred |-> s.insn.info.preds[alive(s)[k]], block |-> s.block,
                         move |-> Move(l.homes[s.insn.dst], MoveSrc(l, s.insn.args[alive(s)[k]].val))]]
    IN  SE!FlattenSeq([k \in DOMAIN phis |-> moves(phis[k])])

\* What an entry loop starts with has to be in the home of its phi already.
StartsInPlace(l) ==
    \A n \in DOMAIN l.moves : l.moves[n].pred = StartPred => Elided(l.moves[n].move)

IsTramp(l, x) == x.pred # StartPred /\ OnTrampoline(l, x.pred, x.block, x.move)
MovesOf(xs) == [n \in DOMAIN xs |-> xs[n].move]
EdgeMoves(l, edge) ==
    MovesOf(SelectSeq(l.moves, LAMBDA x : IsTramp(l, x) /\ <<x.pred, x.block>> = edge))
EndMoves(l, b) == MovesOf(SelectSeq(l.moves, LAMBDA x : x.pred = b /\ ~ IsTramp(l, x)))

\* The edges with a trampoline, in the order they are found.
Trampolines(l) ==
    SE!FoldLeft(LAMBDA edges, x :
                    IF IsTramp(l, x) /\ <<x.pred, x.block>> \notin SE!ToSet(edges)
                    THEN Append(edges, <<x.pred, x.block>>) ELSE edges,
                <<>>, l.moves)

-----------------------------------------------------------------------------
(***************************************************************************)
(* Emission of one instruction                                             *)
(***************************************************************************)

\* require_home and operand_of
Home(l, v) == l.homes[v]
Operand(l, o) == IF IsVal(o) THEN Reg(Home(l, o.val)) ELSE Imm(o.imm)

\* A phi no other version reaches is the zero the register starts with.
EmitPhi(l, i) ==
    IF HasHome(l, i.dst) /\ ~ \E n \in DOMAIN i.args :
            \/ i.info.preds[n] = StartPred
            \/ i.info.preds[n] \in l.live /\ i.args[n] # V(i.dst)
    THEN EmitConst(Home(l, i.dst), 0) ELSE <<>>

\* A move within its home is left out, whatever its width; any other operation
\* has its left operand moved to the destination first.
EmitBinOp(l, i) ==
    LET home == Home(l, i.dst)
        op(src) == <<Alu(i.info.width, i.info.op, home, src)>>
    IN  IF i.info.op = "Mov"
        THEN LET src == Operand(l, i.args[2]) IN IF src = Reg(home) THEN <<>> ELSE op(src)
        ELSE IF IsVal(i.args[1])
        THEN EmitMove(Move(home, MoveSrc(l, i.args[1].val))) \o op(Operand(l, i.args[2]))
        ELSE <<Refused("OutOfRegisters")>>

\* live_homes_at
LiveHomes(l, at) ==
    {l.homes[v] : v \in {w \in DOMAIN l.homes : l.ranges[w].from <= at /\ at < l.ranges[w].to}}

\* The destinations of a shuffle that hold a live version, each with a
\* register to keep it in over the call.
Saves(l, shuffle, at) ==
    LET live == LiveHomes(l, at)
        read == {shuffle[n].src.reg : n \in DOMAIN shuffle}
        temps(taken) == SelectSeq(Pool \o <<1>>,
                                  LAMBDA r : r \notin {0} \cup live \cup read \cup taken)
        save(acc, m) ==
            LET free == temps({acc.pairs[n].temp : n \in DOMAIN acc.pairs})
            IN  IF m.dst \notin live THEN acc
                ELSE IF free = <<>> THEN [acc EXCEPT !.ok = FALSE]
                ELSE [acc EXCEPT !.pairs = Append(@, [home |-> m.dst, temp |-> free[1]])]
    IN  SE!FoldLeft(save, [ok |-> TRUE, pairs |-> <<>>], shuffle)

\* emit_call: saves, arguments, the call, its result, and the saves restored.
EmitEach(moves) == SE!FlattenSeq([n \in DOMAIN moves |-> EmitMove(moves[n])])
EmitShuffled(l, i, shuffle, saves) ==
    IF ~ saves.ok THEN <<Refused("CallArgCycle")>>
    ELSE EmitEach([n \in DOMAIN saves.pairs |-> Move(saves.pairs[n].temp, Reg(saves.pairs[n].home))])
            \o EmitMoves(shuffle, "CallArgCycle") \o <<Call(i.info.func)>>
            \o (IF HasHome(l, i.dst) THEN EmitMove(Move(Home(l, i.dst), Reg(0))) ELSE <<>>)
            \o EmitEach([n \in DOMAIN saves.pairs |->
                            Move(saves.pairs[n].home, Reg(saves.pairs[n].temp))])
EmitCall(l, i, at) ==
    LET wrong == SelectSeq(<<1, 2, 3, 4, 5>>, LAMBDA r : Home(l, i.args[r].val) # r)
        shuffle == [n \in DOMAIN wrong |-> Move(wrong[n], Reg(Home(l, i.args[wrong[n]].val)))]
    IN  EmitShuffled(l, i, shuffle, Saves(l, shuffle, at))

EmitInsn(l, i, at) ==
    CASE i.kind = "Phi" -> EmitPhi(l, i)
      [] i.kind = "Load" ->
            IF i.dst = None THEN <<Refused("R10FaultingLoad")>>
            ELSE <<Ldx(i.info.size, Home(l, i.dst), Home(l, i.args[1].val), i.info.offset)>>
      [] i.kind = "Store" ->
            <<St(i.info.size, Home(l, i.args[1].val), i.info.offset, Operand(l, i.args[2]))>>
      [] i.kind = "Call" -> EmitCall(l, i, at)
      [] i.kind \in {"Const", "LoadImm64", "Copy", "BinOp"} /\ HasHome(l, i.dst) ->
            (CASE i.kind = "Const" -> EmitConst(Home(l, i.dst), i.info.value)
               [] i.kind = "LoadImm64" -> <<LdImm64(Home(l, i.dst), i.info.value)>>
               [] i.kind = "Copy" -> EmitMove(Move(Home(l, i.dst), MoveSrc(l, i.args[1].val)))
               [] i.kind = "BinOp" -> EmitBinOp(l, i))
      [] OTHER -> <<>>

-----------------------------------------------------------------------------
(***************************************************************************)
(* Control                                                                 *)
(***************************************************************************)

Invert == [Eq |-> "Ne", Ne |-> "Eq", Gt |-> "Le", Le |-> "Gt", Ge |-> "Lt", Lt |-> "Ge",
            Sgt |-> "Sle", Sle |-> "Sgt", Sge |-> "Slt", Slt |-> "Sge"]

\* resolve_edge
EdgeTarget(l, pred, succ) ==
    CASE succ = None -> FallOff
      [] succ # None /\ EdgeMoves(l, <<pred, succ>>) # <<>> -> ToTramp(<<pred, succ>>)
      [] OTHER -> ToBlock(succ)

\* The block behind this one in the layout, when control may go on to it.
\* Every block counts as emitting code (block_emits).
Fallthrough(l, b) ==
    LET at == CHOOSE n \in DOMAIN l.layout : l.layout[n] = b
    IN  IF at < Len(l.layout) /\ l.layout[at + 1] \in Succs(l.p, b)
        THEN ToBlock(l.layout[at + 1]) ELSE [none |-> 0]

EmitJump(l, b, target) == IF target = Fallthrough(l, b) THEN <<>> ELSE <<JumpAlways(target)>>
EmitCond(l, i, op, target) ==
    <<Jump(i.info.width, op, Home(l, i.args[1].val), Operand(l, i.args[2]), target)>>

EmitBr(l, b, i, yes, no) ==
    CASE i.info.op \in NeverTaken \/ yes = no -> EmitJump(l, b, no)
      [] i.info.op \notin NeverTaken /\ yes # no
            /\ yes = Fallthrough(l, b) /\ no # FallOff /\ i.info.op \in DOMAIN Invert ->
            EmitCond(l, i, Invert[i.info.op], no)
      [] OTHER -> EmitCond(l, i, i.info.op, yes) \o EmitJump(l, b, no)

\* emit_control; a block without a control operation goes on over its first edge.
FirstTarget(edges) == IF edges = <<>> THEN None ELSE edges[1].to
EmitControl(l, b) ==
    LET t == Terminators(l.p, b)
    IN  IF t = <<>> THEN EmitJump(l, b, EdgeTarget(l, b, FirstTarget(LiveEdges(l.p, b))))
        ELSE CASE t[1].kind = "Ja" -> EmitJump(l, b, EdgeTarget(l, b, t[1].info.target))
               [] t[1].kind = "Br" -> EmitBr(l, b, t[1], EdgeTarget(l, b, t[1].info.yes),
                                                         EdgeTarget(l, b, t[1].info.no))
               [] t[1].kind = "Exit" ->
                     EmitMove(Move(0, Reg(Home(l, t[1].args[1].val)))) \o <<Exit>>

-----------------------------------------------------------------------------
(***************************************************************************)
(* lower                                                                   *)
(***************************************************************************)

\* emit_block: what follows the first control operation is dead.
EmitBlock(l, b) ==
    LET insns == l.p.blocks[b]
        code == [n \in DOMAIN insns |->
                    IF \E k \in 1 .. (n - 1) : IsControl(insns[k]) THEN <<>>
                    ELSE EmitInsn(l, insns[n], Base(l.p, b) + n - 1)]
    IN  SE!FlattenSeq(code) \o EmitMoves(EndMoves(l, b), "PhiCycle") \o EmitControl(l, b)

EmitTramp(l, edge) ==
    EmitMoves(EdgeMoves(l, edge), "PhiCycle") \o <<JumpAlways(ToBlock(edge[2]))>>

\* resolve_fixups: the blocks, then the trampolines, with the offsets filled
\* in.  order says of each piece what jumps to it are aimed at.
Fixup(ins, offset) ==
    IF -(MaxOffset + 1) <= offset /\ offset <= MaxOffset THEN [ins EXCEPT !.offset = offset]
    ELSE Refused("JumpTooFar")
Begin(order, pieces, target) ==
    1 + Len(SE!FlattenSeq([k \in 1 .. ((CHOOSE n \in DOMAIN order : order[n] = target) - 1) |->
                              pieces[k]]))
PatchJumps(order, pieces, out) ==
    LET at(target) == IF target = FallOff THEN Len(out) + 1 ELSE Begin(order, pieces, target)
    IN  [n \in DOMAIN out |->
            IF ~ IsJump(out[n]) THEN out[n]
            ELSE Fixup(out[n], SlotOf(out, at(out[n].offset)) - SlotOf(out, n) - 1)]
ResolveFixups(order, pieces) == PatchJumps(order, pieces, SE!FlattenSeq(pieces))

Collect(p, homes, live) ==
    [p |-> p, homes |-> homes, ranges |-> LiveRanges(p), live |-> live,
     sites |-> Live(p), layout |-> Layout(p, live), moves |-> <<>>]
CollectMoves(l) == [l EXCEPT !.moves = PhiMoves(l)]

EmitProgram(l, tramps) ==
    IF \E v \in DOMAIN l.homes : l.homes[v] = None THEN <<Refused("OutOfRegisters")>>
    ELSE IF ~ StartsInPlace(l) THEN <<Refused("PhiCycle")>>
    ELSE ResolveFixups([n \in DOMAIN l.layout |-> ToBlock(l.layout[n])]
                           \o [n \in DOMAIN tramps |-> ToTramp(tramps[n])],
                       [n \in DOMAIN l.layout |-> EmitBlock(l, l.layout[n])]
                           \o [n \in DOMAIN tramps |-> EmitTramp(l, tramps[n])])

LowerWith(l) == EmitProgram(l, Trampolines(l))
LowerProgram(p) == LowerWith(CollectMoves(Collect(p, Allocate(p), Reachable(p))))

IsRefused(code) == \E n \in DOMAIN code : code[n].insn = "Refused"
=============================================================================
