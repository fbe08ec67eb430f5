----------------------------- MODULE MCFixpoint -----------------------------
(***************************************************************************)
(* TLC instance of Fixpoint: the verifier's own domain (AbsState) cut down *)
(* to one scalar register, the frame pointer and one stack byte, over every *)
(* control-flow graph of a small catalogue and every choice of block       *)
(* bodies.                                                                 *)
(***************************************************************************)
EXTENDS Fixpoint, AbsState

CONSTANT Bodies    \* the block bodies to choose from

\* Control-flow graphs in the shape the CFG builder produces: the edges of a
\* conditional jump in the order the graph iterates them (fall-through
\* first), with the reverse postorder of a depth-first search and
\* the blocks where a loop is entered.
T(b) == [to |-> b, kind |-> "BranchTrue"]
F(b) == [to |-> b, kind |-> "BranchFalse"]
U(b) == [to |-> b, kind |-> "Unconditional"]

Graphs ==
    { \* a loop whose header is its own latch
      [rpo |-> <<0, 1, 2>>, heads |-> {1},
       succ |-> <<<<U(1)>>, <<F(2), T(1)>>, <<>>>>],
      \* a loop that is left from its header
      [rpo |-> <<0, 1, 3, 2>>, heads |-> {1},
       succ |-> <<<<U(1)>>, <<F(2), T(3)>>, <<U(1)>>, <<>>>>],
      \* a diamond
      [rpo |-> <<0, 2, 1, 3>>, heads |-> {},
       succ |-> <<<<F(1), T(2)>>, <<U(3)>>, <<U(3)>>, <<>>>>],
      \* a jump over a block nothing reaches
      [rpo |-> <<0, 2>>, heads |-> {},
       succ |-> <<<<U(2)>>, <<U(2)>>, <<>>>>],
      \* a loop back to the entry block
      [rpo |-> <<0, 2, 1>>, heads |-> {0},
       succ |-> <<<<F(1), T(2)>>, <<U(0)>>, <<>>>>],
      \* a loop entered at two blocks (no header dominates it)
      [rpo |-> <<0, 2, 1, 3>>, heads |-> {1, 2},
       succ |-> <<<<F(1), T(2)>>, <<F(2), T(3)>>, <<U(1)>>, <<>>>>],
      \* two nested loops
      [rpo |-> <<0, 1, 2, 3>>, heads |-> {1, 2},
       succ |-> <<<<U(1)>>, <<U(2)>>, <<F(3), T(2)>>, <<T(1)>>>>] }

Program(g, body) ==
    [blocks |-> 0 .. (Len(g.succ) - 1), entry |-> 0, rpo |-> g.rpo,
     heads |-> g.heads, looping |-> g.heads # {},
     succ |-> [b \in 0 .. (Len(g.succ) - 1) |-> g.succ[b + 1]],
     body |-> body]

\* Every choice of bodies, where an exit block passes from any state or asks
\* for the stack byte: what it leaves in r0 nobody reads.
Choices ==
    UNION {{<<g, body>> : body \in {f \in [0 .. (Len(g.succ) - 1) -> Bodies] :
              \A b \in DOMAIN f : g.succ[b + 1] = <<>> => f[b] \in {"mov", "load"}}} :
           g \in Graphs}

MCPrograms == {Program(c[1], c[2]) : c \in Choices}

MCState ==
    {[regs |-> [r \in Regs |-> IF r = FramePtr THEN StackPtr(0) ELSE t], init |-> i] :
        t \in {NotInit} \cup {Scalar(r) : r \in {x \in Ranges : WellFormed(x)}}, i \in SUBSET StackByte}

MCEntryState(p) == InitialState(FALSE)

R0(s) == IF s.regs[0] = NotInit THEN Bottom ELSE s.regs[0].range

\* What a block does to r0 and to the stack byte: mov puts the least word into
\* r0, from where a loop of add1 can climb through the whole word; load reads
\* the byte into r0, store writes r0 to it.  An addition to a register never written is
\* not rejected; its result is Bottom.
MCBlockExit(p, b, s) ==
    CASE p.body[b] = "mov" -> [s EXCEPT !.regs[0] = Scalar(Exact(IMin))]
      [] p.body[b] = "add1" -> [s EXCEPT !.regs[0] = Scalar(RangeAdd(R0(s), Exact(1)))]
      [] p.body[b] = "store" -> MarkStackRange(s, 0, 0)
      [] p.body[b] = "load" -> [s EXCEPT !.regs[0] = Scalar(Top)]

Plain(p, b) == \E i \in 1..Len(p.succ[b]) : p.succ[b][i].kind = "Unconditional"

\* store and the conditional jump or exit that ends the block read r0; load
\* reads the stack byte.
MCChecks(p, b, s) ==
    /\ p.body[b] = "store" => s.regs[0] # NotInit
    /\ p.body[b] = "load" => StackRangeInit(s, 0, 0)
    /\ Plain(p, b) \/ MCBlockExit(p, b, s).regs[0] # NotInit

\* The conditional jump compares r0 with a word near the largest: the loops
\* on its true edge climb for long, those on its false edge soon overflow.
MCRefineEdge(p, b, i, s) ==
    IF p.succ[b][i].kind = "Unconditional" THEN s
    ELSE [s EXCEPT !.regs[0] =
             Scalar(Refine(R0(s), "Slt", IMax - 1, p.succ[b][i].kind = "BranchTrue"))]

\* Stands for the loop-bound pass, which looks at the first arrivals at the
\* loop headers: it refuses a loop that is entered with no value in r0.
MCBounded(p, snap) == \A h \in p.heads : snap[h].regs[0] # Scalar(Bottom)

\* StateRank without the frame pointer, which no merge of this instance
\* changes, and the largest value it takes.
MCRank(s) == RegRank(s.regs[0]) + Cardinality(s.init)
MCHeight == RegRank(Scalar(Bottom)) + StackBytes
=============================================================================
