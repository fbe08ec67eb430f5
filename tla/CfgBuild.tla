------------------------------ MODULE CfgBuild ------------------------------
(***************************************************************************)
(* build_cfg as a whole: the graph of Cfg and the reverse postorder that   *)
(* the verifier's worklist is seeded with, computed by the iterative       *)
(* depth-first search of petgraph (DfsPostOrder).                          *)
(***************************************************************************)
EXTENDS Cfg, Exec, FiniteSets, SequencesExt

CONSTANT Codes  \* the programs

\* `&[Insn]`: a program is a sequence, a jump has the fields of one.
ASSUME CodesAssumption ==
    \A c \in Codes :
        /\ c \in Seq({c[i] : i \in DOMAIN c})
        /\ \A i \in Jumps(c) :
              c[i] = Jump(c[i].width, c[i].op, c[i].dst, c[i].src, c[i].offset)

VARIABLES
    code,       \* the program
    result,     \* "building", "ok" or the CfgError
    graph,      \* block -> its edges
    stack,      \* DfsPostOrder.stack, its top last
    discovered, finished, \* DfsPostOrder's two bitmaps
    rpo         \* rpo_nodes, already reversed

vars == <<code, result, graph, stack, discovered, finished, rpo>>

Errors(c) ==
    IF c = <<>> THEN {"EmptyProgram"}
    ELSE {"JumpOutOfBounds" : i \in {j \in Jumps(c) : ResolveTarget(c, j) = OutOfBounds}}
            \cup {"JumpIntoWide" : i \in {j \in Jumps(c) : ResolveTarget(c, j) = IntoWide}}

\* The blocks and edges of an accepted program; the search starts at the entry.
Init ==
    /\ code \in Codes
    /\ result \in IF Builds(code) THEN {"building"} ELSE Errors(code)
    /\ graph = IF Builds(code) THEN [b \in Leaders(code) |-> EdgesOf(code, b)] ELSE <<>>
    /\ stack = IF Builds(code) THEN <<1>> ELSE <<>>
    /\ discovered = {} /\ finished = {} /\ rpo = <<>>

Top == stack[Len(stack)]

\* The loop over graph.neighbors: the targets nobody has discovered, in order.
Undiscovered(edges, seen) ==
    LET upTo[n \in 0 .. Len(edges)] ==
            IF n = 0 THEN <<>>
            ELSE IF edges[n].to \in seen THEN upTo[n - 1]
            ELSE Append(upTo[n - 1], edges[n].to)
    IN  upTo[Len(edges)]

\* A node on top for the first time: its successors go on the stack.
Discover ==
    /\ result = "building" /\ stack # <<>> /\ Top \notin discovered
    /\ discovered' = discovered \cup {Top}
    /\ stack' = stack \o Undiscovered(graph[Top], discovered')
    /\ UNCHANGED <<code, result, graph, finished, rpo>>

\* Variant: emitted each time it is popped.
FinishTwice ==
    /\ result = "building" /\ stack # <<>> /\ Top \in discovered
    /\ stack' = Front(stack)
    /\ finished' = finished \cup {Top}
    /\ rpo' = <<Top>> \o rpo
    /\ UNCHANGED <<code, result, graph, discovered>>

\* A node on top again: it is emitted unless it was before.
Finish ==
    /\ result = "building" /\ stack # <<>> /\ Top \in discovered
    /\ stack' = Front(stack)
    /\ finished' = finished \cup {Top}
    /\ rpo' = IF Top \in finished THEN rpo ELSE <<Top>> \o rpo
    /\ UNCHANGED <<code, result, graph, discovered>>

\* Variant: waiting for blocks that nothing reaches.
ReturnWhenAllSeen ==
    /\ result = "building" /\ stack = <<>> /\ finished = DOMAIN graph
    /\ result' = "ok"
    /\ UNCHANGED <<code, graph, stack, discovered, finished, rpo>>

Return ==
    /\ result = "building" /\ stack = <<>>
    /\ result' = "ok"
    /\ UNCHANGED <<code, graph, stack, discovered, finished, rpo>>

Next == Discover \/ Finish \/ Return

Spec == Init /\ [][Next]_vars /\ WF_vars(Next)

-----------------------------------------------------------------------------
(***************************************************************************)
(* Properties                                                              *)
(***************************************************************************)

Accepted == result = "ok"
Succ(b) == Targets(graph[b])

\* lib.rs:12: every instruction belongs to exactly one block, and control
\* enters a block only at its start and leaves it only at its end.
BlocksPartition ==
    Accepted =>
        /\ UNION {b .. BlockLast(code, b) : b \in DOMAIN graph} = DOMAIN code
        /\ \A b \in DOMAIN graph :
              /\ BlockLen(code, b) > 0
              /\ \A i \in b .. BlockLast(code, b) :
                    /\ BlockOfPc(code, i) = b
                    /\ i < BlockLast(code, b) => code[i].insn \notin {"Jump", "Exit"}

\* Where the interpreter goes from instruction i, by exec::load.
VmNext(i) ==
    LET ins == Lowered(code)[i]
    IN  CASE ins.insn \in {"Exit", "Trap"} -> {}
          [] IsJump(ins) -> {ins.offset} \cup (IF IsConditional(ins) THEN {i + 1} ELSE {})
          [] OTHER -> {i + 1}

\* lib.rs:15: the edges are exactly the transfers of control the interpreter
\* can make between blocks, a step behind the last instruction left out; a
\* jump never traps (anything else that does is given the edge of a plain
\* instruction), and the kind says which way of a branch it is.
EdgesMirrorVm ==
    Accepted =>
        \A b \in DOMAIN graph :
            LET last == BlockLast(code, b)
            IN  IsJump(code[last]) \/ Lowered(code)[last].insn # "Trap" =>
                /\ Succ(b) = {BlockOfPc(code, n) : n \in VmNext(last) \cap DOMAIN code}
                /\ \A n \in DOMAIN graph[b] : graph[b][n].to \in VmNext(last)
                /\ \A n \in DOMAIN graph[b] :
                      graph[b][n].kind = "BranchTrue" =>
                          graph[b][n].to = Lowered(code)[last].offset

\* The blocks on some path from b.
ReachFrom(b) ==
    {c \in DOMAIN graph :
        \A S \in SUBSET DOMAIN graph :
            (b \in S /\ \A x \in S : Succ(x) \subseteq S) => c \in S}

\* What the worklist assumes of the order it is seeded with (IsProgram of
\* Fixpoint): each reachable block once, the entry first.  Being a reverse
\* postorder it also has every block before its successors, loops apart: an
\* edge that leads backwards closes a cycle.
RpoOrdersBlocks ==
    Accepted =>
        /\ ToSet(rpo) = ReachFrom(1) /\ IsInjective(rpo) /\ rpo[1] = 1
        /\ \A i, j \in DOMAIN rpo :
              (rpo[j] \in Succ(rpo[i]) /\ j < i) => rpo[i] \in ReachFrom(rpo[j])

\* build_cfg returns: the search visits no block for ever.
BuildsEventually == <>(result # "building")
=============================================================================
