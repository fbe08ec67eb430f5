----------------------------- MODULE LoopBound -----------------------------
(***************************************************************************)
(* Natural loops and their bounds (ebpf-verifier/src/bound.rs).  Everything *)
(* here is a function of a program, its graph (Cfg) and the ranges the     *)
(* registers had when a loop's header was first reached; Bounds says which *)
(* programs are accepted and with which counts.                            *)
(***************************************************************************)
EXTENDS TripCount, Cfg, FiniteSets

-----------------------------------------------------------------------------
(***************************************************************************)
(* natural_loops                                                           *)
(***************************************************************************)

\* The graph of a program: block -> its successors.
Graph(code) == [b \in Leaders(code) |-> Successors(code, b)]

\* Reachable from S without entering the blocks in `barred`.
Closure(graph, S, barred) ==
    LET grow[n \in Nat] ==
            IF n = 0 THEN S \ barred
            ELSE LET prev == grow[n - 1]
                 IN  prev \cup (UNION {graph[b] : b \in prev} \ barred)
    IN  grow[Cardinality(DOMAIN graph)]

\* petgraph's dominators: every path from the entry to b passes through a.
Dominates(graph, a, b) ==
    /\ b \in Closure(graph, {1}, {})
    /\ b \notin Closure(graph, {1}, {a})

\* The blocks from which `latch` is reached without passing the header.
Body(graph, header, latch) ==
    {header} \cup {b \in DOMAIN graph : latch \in Closure(graph, {b}, {header})}

Loops(graph) ==
    {[header |-> e[2], latch |-> e[1], body |-> Body(graph, e[2], e[1])] :
        e \in {p \in (DOMAIN graph) \X (DOMAIN graph) :
                 /\ p[2] \in graph[p[1]]
                 /\ p[1] = p[2] \/ Dominates(graph, p[2], p[1])}}

\* Variant: only cycles through the entry are seen.
HasCycleAtEntry(graph) == 1 \in Closure(graph, graph[1], {})

\* has_back_edge
HasCycle(graph) == \E b \in DOMAIN graph : b \in Closure(graph, graph[b], {})

BodyPcs(code, loop) == UNION {b .. BlockLast(code, b) : b \in loop.body}

-----------------------------------------------------------------------------
(***************************************************************************)
(* The counter and its stride.                                             *)
(***************************************************************************)

\* writes_counter
Writes(ins, r) ==
    \/ ins.insn \in {"Alu", "LoadImm64", "Load"} /\ ins.dst = r
    \/ ins.insn = "Call" /\ r <= 5

IsStride(ins, r) ==
    ins.insn = "Alu" /\ ins.op \in {"Add", "Sub"} /\ ins.dst = r /\ ~ IsReg(ins.src)

\* find_stride: the one write to the counter in the body.
StrideSites(code, loop, r) == {i \in BodyPcs(code, loop) : Writes(code[i], r)}
HasStride(code, loop, r) ==
    \E i \in DOMAIN code :
        /\ StrideSites(code, loop, r) = {i}
        /\ IsStride(code[i], r) /\ code[i].src.imm # 0
StrideSite(code, loop, r) == CHOOSE i \in StrideSites(code, loop, r) : TRUE
Stride(code, loop, r) ==
    LET ins == code[StrideSite(code, loop, r)]
    IN  IF ins.op = "Add" THEN ins.src.imm ELSE -ins.src.imm

\* check_counter_provenance: the stride is on every path to the latch, and
\* nothing else writes the counter inside any loop.
Provenance(code, loops, loop, r) ==
    LET site == StrideSite(code, loop, r)
    IN  /\ \E b \in loop.body :
              site \in b .. BlockLast(code, b) /\ Dominates(Graph(code), b, loop.latch)
        /\ \A i \in DOMAIN code :
              (i # site /\ Writes(code[i], r)) =>
                  \A l \in loops : i \notin BodyPcs(code, l)

-----------------------------------------------------------------------------
(***************************************************************************)
(* The continue-condition and the count.                                   *)
(***************************************************************************)

\* The edge whose kind decides how the condition is read: of the latch, the
\* first one to the header; of the header, the first one into the body.
FirstEdge(edges, into) == edges[Min({n \in DOMAIN edges : edges[n].to \in into})]

\* infer_traversals: the block that carries the condition
CondAt(code, loop, latch, header) ==
    IF IsConditional(latch) /\ ~ IsReg(latch.src) THEN loop.latch
    ELSE IF /\ IsJump(latch) /\ ~ IsConditional(latch)
            /\ IsJump(header) /\ ~ IsReg(header.src)
            /\ Successors(code, loop.header) \cap loop.body # {}
         THEN loop.header
    ELSE 0
CondBlock(code, loop) ==
    CondAt(code, loop, code[BlockLast(code, loop.latch)], code[BlockLast(code, loop.header)])

Cond(code, loop) == code[BlockLast(code, CondBlock(code, loop))]
BackTaken(code, loop, b) ==
    FirstEdge(EdgesOf(code, b), IF b = loop.latch THEN {loop.header} ELSE loop.body).kind
        = "BranchTrue"

\* The complements, so that the loop continues iff the condition holds.
Continue == [Eq |-> "Ne", Ne |-> "Eq", Lt |-> "Ge", Ge |-> "Lt", Gt |-> "Le", Le |-> "Gt",
             Slt |-> "Sge", Sge |-> "Slt", Sgt |-> "Sle", Sle |-> "Sgt"]
KeptOp(op, backTaken) == IF backTaken THEN op ELSE Continue[op]
Kept(code, loop) == KeptOp(Cond(code, loop).op, BackTaken(code, loop, CondBlock(code, loop)))

\* trips_from_cond.  snapshot is None (NoState) where the header was never reached.
TripsFromCond(code, loops, loop, cond, snapshot, NoState) ==
    IF \/ cond.op \notin DOMAIN Continue
       \/ cond.dst = 10
       \/ ~ HasStride(code, loop, cond.dst)
       \/ ~ Provenance(code, loops, loop, cond.dst)
    THEN NoTrips
    ELSE IF snapshot = NoState THEN 0
    ELSE TripsFrom(snapshot[cond.dst], Kept(code, loop), cond.src.imm,
                   Stride(code, loop, cond.dst))

\* infer_traversals
Traversals(code, loops, loop, snapshots, NoState) ==
    IF CondBlock(code, loop) = 0 THEN NoTrips
    ELSE TripsFromCond(code, loops, loop, Cond(code, loop), snapshots[loop.header], NoState)

-----------------------------------------------------------------------------
(***************************************************************************)
(* loop_total and enforce_loop_bounds                                      *)
(***************************************************************************)

\* The loop whose total stands for the block b inside `loop`: the first by
\* header and latch of those strictly inside.
InnerAt(loops, loop, b) ==
    {l \in loops :
        /\ l.header = b /\ l # loop
        /\ Cardinality(l.body) < Cardinality(loop.body) /\ l.body \subseteq loop.body}
Inner(loops, loop, b) ==
    CHOOSE l \in InnerAt(loops, loop, b) : \A m \in InnerAt(loops, loop, b) : l.latch <= m.latch

\* The step totals of all loops, the smaller bodies first.
Totals(code, loops, snapshots, NoState) ==
    LET upTo[n \in Nat] ==
            IF n = 0 THEN [l \in {} |-> 0]
            ELSE LET prev == upTo[n - 1]
                 IN  [l \in {m \in loops : Cardinality(m.body) <= n} |->
                        IF l \in DOMAIN prev THEN prev[l]
                        ELSE (Traversals(code, loops, l, snapshots, NoState) + 1)
                                * MapThenSumSet(LAMBDA b :
                                    IF InnerAt(loops, l, b) = {} THEN BlockLen(code, b)
                                    ELSE prev[Inner(loops, l, b)], l.body)]
    IN  upTo[Cardinality(Leaders(code))]

Enforced(code, snapshots, NoState, maxSteps) ==
    HasCycle(Graph(code)) =>
        LET loops == Loops(Graph(code))
        IN  /\ \A l \in loops : Traversals(code, loops, l, snapshots, NoState) # NoTrips
            /\ LET totals == Totals(code, loops, snapshots, NoState)
               IN  \A l \in loops : totals[l] <= maxSteps

\* The LoopBounds reported for an accepted program, none without a cycle.
LoopBounds(code, snapshots, NoState) ==
    LET loops == IF HasCycle(Graph(code)) THEN Loops(Graph(code)) ELSE {}
        totals == Totals(code, loops, snapshots, NoState)
    IN  [l \in loops |->
           [trips |-> Traversals(code, loops, l, snapshots, NoState) + 1, steps |-> totals[l]]]
=============================================================================
