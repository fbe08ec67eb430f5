------------------------------- MODULE SsaOpt -------------------------------
(***************************************************************************)
(* The optimization passes (ebpf-ssa/src/opt.rs).  Each gives the program  *)
(* it leaves and whether it changed anything.                              *)
(***************************************************************************)
EXTENDS Ssa

Pass(p, changed) == [prog |-> p, changed |-> changed]

-----------------------------------------------------------------------------
(***************************************************************************)
(* constant_fold.  consts is the ConstTable: versions with a known value.  *)
(***************************************************************************)

ConstTable(p) ==
    LET known == {i \in UNION {SE!ToSet(p.blocks[b]) : b \in DOMAIN p.blocks} :
                    i.kind \in {"Const", "LoadImm64"}}
    IN  [v \in {i.dst : i \in known} |-> (CHOOSE i \in known : i.dst = v).info.value]

Known(consts, o) == IsVal(o) => o.val \in DOMAIN consts
ValueIn(consts, o) == IF IsVal(o) THEN consts[o.val] ELSE o.imm

\* The value of an instruction whose operands are known, as a set: a move
\* needs only the right one, a negation the left one, and an `End` of invalid
\* width is left to trap.
Folded(consts, i) ==
    IF i.kind # "BinOp" THEN {}
    ELSE LET op == i.info.op
             needed == CASE op = "Mov" -> {2} [] op = "Neg" -> {1} [] OTHER -> {1, 2}
             value(n) == IF n \in needed THEN ValueIn(consts, i.args[n]) ELSE 0
         IN  IF \A n \in needed : Known(consts, i.args[n])
             THEN IF op \in EndOps /\ value(2) \notin EndWidths THEN {}
                  ELSE {AluApply(op, value(1), value(2), i.info.width)}
             ELSE {}

\* The pass over the live blocks; what it folds is known to what follows.
ConstantFold(p, consts) ==
    LET step(acc, s) ==
            IF Folded(acc.consts, s.insn) = {} THEN acc
            ELSE LET value == CHOOSE k \in Folded(acc.consts, s.insn) : TRUE
                 IN  [prog |-> [acc.prog EXCEPT !.blocks[s.block][s.at - Base(p, s.block) + 1] =
                                    Const(s.insn.dst, value)],
                      consts |-> [v \in DOMAIN acc.consts \cup {s.insn.dst} |->
                                    IF v = s.insn.dst THEN value ELSE acc.consts[v]],
                      changed |-> TRUE]
    IN  SE!FoldLeft(step, [prog |-> p, consts |-> consts, changed |-> FALSE], Live(p))

-----------------------------------------------------------------------------
(***************************************************************************)
(* copy_propagate                                                          *)
(***************************************************************************)

\* The version an instruction is a copy of, as a set of at most one: of a phi
\* the only other version that reaches it from a block that may run.
Copied(p, i) ==
    CASE i.kind = "Copy" -> {i.args[1].val}
      [] i.kind = "BinOp" /\ i.info.op = "Mov" /\ i.info.width = 64 /\ IsVal(i.args[2]) ->
            {i.args[2].val}
      [] i.kind = "Phi" ->
            LET inflows == {i.args[n].val : n \in {m \in DOMAIN i.args :
                                i.info.preds[m] = StartPred \/ i.info.preds[m] \in p.live}}
                            \ {i.dst}
            IN  IF Cardinality(inflows) = 1 THEN inflows ELSE {}
      [] OTHER -> {}

Rewrites(p) ==
    LET copies == SelectSeq(Live(p), LAMBDA s : Copied(p, s.insn) # {})
    IN  [n \in DOMAIN copies |->
           [from |-> copies[n].insn.dst, to |-> CHOOSE v \in Copied(p, copies[n].insn) : TRUE]]

\* rewrite_uses
RewriteUses(i, rewrite) ==
    [i EXCEPT !.args = [n \in DOMAIN i.args |->
        IF i.args[n] = V(rewrite.from) THEN V(rewrite.to) ELSE i.args[n]]]

\* The rewrites are applied to an instruction one after the other.
CopyPropagate(p) ==
    LET rewrites == Rewrites(p)
        apply(acc, rw) == [insn |-> RewriteUses(acc.insn, rw),
                           changed |-> acc.changed \/ rw.from \in Uses(acc.insn)]
        rewritten == [b \in p.live |-> [n \in DOMAIN p.blocks[b] |->
                        SE!FoldLeft(apply, [insn |-> p.blocks[b][n], changed |-> FALSE], rewrites)]]
    IN  Pass([p EXCEPT !.blocks = [b \in DOMAIN @ |->
                 IF b \in p.live THEN [n \in DOMAIN @[b] |-> rewritten[b][n].insn] ELSE @[b]]],
             \E b \in p.live : \E n \in DOMAIN p.blocks[b] : rewritten[b][n].changed)

-----------------------------------------------------------------------------
(***************************************************************************)
(* dead_code_eliminate                                                     *)
(***************************************************************************)

\* What may fault or has an effect.
Rooted(p, i) == i.kind \in {"Load", "Store", "Call", "Br", "Ja", "Exit"} \/ IsBadEnd(p, i)

\* The versions the roots use, directly or not.
Needed(p) ==
    LET sites == LiveSites(p)
        roots == {s \in sites : Rooted(p, s.insn)}
        grow[n \in Nat] ==
            IF n = 0 THEN UNION {Uses(s.insn) : s \in roots}
            ELSE LET prev == grow[n - 1]
                 IN  prev \cup UNION {Uses(s.insn) : s \in {t \in sites : t.insn.dst \in prev}}
    IN  grow[Cardinality(sites)]

DeadCodeEliminate(p) ==
    LET needed == Needed(p)
        kept(b) == IF b \in p.live
                   THEN SelectSeq(p.blocks[b], LAMBDA i : Rooted(p, i) \/ i.dst \in needed)
                   ELSE <<>>
        swept == [p EXCEPT !.blocks = [b \in DOMAIN @ |-> kept(b)]]
    IN  Pass(swept, Size(swept) # Size(p))

-----------------------------------------------------------------------------
(***************************************************************************)
(* unreachable_block_eliminate                                             *)
(***************************************************************************)

PrunePhi(i, live) ==
    IF i.kind # "Phi" THEN i
    ELSE LET stays == SelectSeq([n \in DOMAIN i.args |-> n],
                                LAMBDA n : i.info.preds[n] \in live \cup {StartPred})
         IN  [i EXCEPT !.args = [k \in DOMAIN stays |-> i.args[stays[k]]],
                       !.info.preds = [k \in DOMAIN stays |-> i.info.preds[stays[k]]]]

UnreachableBlockEliminate(p) ==
    LET live == p.live \cap Reachable(p)
        pruned == [p EXCEPT !.live = live,
                            !.blocks = [b \in DOMAIN @ |->
                                IF b \in live THEN [n \in DOMAIN @[b] |-> PrunePhi(@[b][n], live)]
                                ELSE @[b]]]
    IN  Pass(pruned, pruned # p)
=============================================================================
