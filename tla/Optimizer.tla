----------------------------- MODULE Optimizer -----------------------------
(***************************************************************************)
(* The optimizer as `ebpf-lab optimize` runs it: build_cfg, build_ssa,     *)
(* optimize and lower, one step for each block that is filled and each     *)
(* pass.  The graph comes from CfgBuild.  Results are bound before they    *)
(* are assigned, so that TLC computes them once.                           *)
(***************************************************************************)
EXTENDS Traces, SsaOpt, SsaLower

CONSTANT Codes  \* the programs

VARIABLES
    code, result, graph, stack, discovered, finished, rpo,  \* of CfgBuild
    phase,    \* what comes next
    builder,  \* the Builder of build_ssa
    prog,     \* the SsaProgram
    consts,   \* the ConstTable
    changed,  \* whether this round of optimize changed anything
    rounds,   \* rounds of optimize that changed something (history)
    out       \* the lowered program

cfgVars == <<code, result, graph, stack, discovered, finished, rpo>>
ssaVars == <<builder, prog, consts, changed, rounds, out>>
vars == <<cfgVars, phase, ssaVars>>

Cfgs == INSTANCE CfgBuild

Nothing == <<>>

Init ==
    /\ Cfgs!Init
    /\ phase = "cfg"
    /\ builder = Nothing /\ prog = Nothing /\ consts = Nothing /\ changed = FALSE /\ rounds = 0 /\ out = Nothing

BuildCfg ==
    /\ phase = "cfg" /\ Cfgs!Next
    /\ UNCHANGED <<phase, ssaVars>>

Prelude ==
    /\ phase = "cfg" /\ result = "ok"
    /\ \E b \in {NewBuilder(graph)} : builder' = b
    /\ phase' = "fill"
    /\ UNCHANGED <<cfgVars, prog, consts, changed, rounds, out>>

\* The loop of build_ssa: the blocks in reverse postorder.  An opcode nobody
\* knows is an error.
Unfilled == SelectSeq(rpo, LAMBDA b : b \notin builder.filled)
HasUnknown(b) == \E i \in b .. BlockLast(code, b) : code[i].insn = "Unknown"

Fill ==
    /\ phase = "fill" /\ Unfilled # <<>>
    /\ IF HasUnknown(Unfilled[1]) THEN phase' = "refused" /\ UNCHANGED builder
       ELSE /\ \E b \in {FillBlock(builder, graph, code, Unfilled[1])} : builder' = b
            /\ UNCHANGED phase
    /\ UNCHANGED <<cfgVars, prog, consts, changed, rounds, out>>

\* repair, finish, and the start of optimize
FinishSsa ==
    /\ phase = "fill" /\ Unfilled = <<>>
    /\ \E p \in {Finish(Repair(builder), graph)} : prog' = p /\ consts' = ConstTable(p)
    /\ phase' = "fold"
    /\ UNCHANGED <<cfgVars, builder, changed, rounds, out>>

Fold ==
    /\ phase = "fold"
    /\ \E pass \in {ConstantFold(prog, consts)} :
          prog' = pass.prog /\ consts' = pass.consts /\ changed' = pass.changed
    /\ phase' = "copy"
    /\ UNCHANGED <<cfgVars, builder, rounds, out>>

RunPass(from, to, Transform(_)) ==
    /\ phase = from /\ phase' = to
    /\ \E pass \in {Transform(prog)} :
          prog' = pass.prog /\ changed' = (changed \/ pass.changed)
    /\ UNCHANGED <<cfgVars, builder, consts, rounds, out>>

CopyProp == RunPass("copy", "dce", CopyPropagate)
Dce == RunPass("dce", "unreachable", DeadCodeEliminate)
Unreachable == RunPass("unreachable", "round", UnreachableBlockEliminate)

\* Variant: another round in any case.
RoundAlways ==
    /\ phase = "round"
    /\ phase' = "fold" /\ rounds' = rounds + 1
    /\ UNCHANGED <<cfgVars, builder, prog, consts, changed, out>>

\* The end of a round of optimize: another one if this one changed anything.
Round ==
    /\ phase = "round"
    /\ IF changed THEN phase' = "fold" /\ rounds' = rounds + 1
       ELSE phase' = "lower" /\ UNCHANGED rounds
    /\ UNCHANGED <<cfgVars, builder, prog, consts, changed, out>>

LowerSsa ==
    /\ phase = "lower"
    /\ \E lowered \in {LowerProgram(prog)} : out' = lowered
    /\ phase' = IF IsRefused(out') THEN "refused" ELSE "done"
    /\ UNCHANGED <<cfgVars, builder, prog, consts, changed, rounds>>

Next ==
    \/ BuildCfg \/ Prelude \/ Fill \/ FinishSsa
    \/ Fold \/ CopyProp \/ Dce \/ Unreachable \/ Round \/ LowerSsa

Spec == Init /\ [][Next]_vars

-----------------------------------------------------------------------------
(***************************************************************************)
(* Properties                                                              *)
(***************************************************************************)

\* construct.rs and opt.rs: the SSA form does what the program does, as built
\* and after every pass in every round: whatever register a block reads, the
\* phis deliver the version that is current on the path taken.
PassesPreserve ==
    phase \in {"fold", "copy", "dce", "unreachable"} =>
        \A run \in Runs : Agree(SsaTrace(run, prog), VmTrace(run, code))

\* ssa lib.rs:24: a program that is not declined does what the source does,
\* through layout, register allocation, parallel moves, call shuffles and slot
\* offsets.
LoweringPreserves ==
    phase = "done" => \A run \in Runs : Agree(VmTrace(run, out), VmTrace(run, code))

\* opt.rs:6: "Termination is structural, not budgeted": a round that changes
\* something makes progress, so there are at most as many as the SSA form has
\* instructions and blocks.
OptimizeEnds == phase = "round" => rounds <= builder.next + Cardinality(DOMAIN graph)
=============================================================================
