------------------------------ MODULE Fixpoint ------------------------------
(***************************************************************************)
(* The worklist that computes the verifier's fixed point                   *)
(* (ebpf-verifier/src/verify.rs: BlockWorklist, verify_core,               *)
(* merge_successor).  The abstract domain and the program are parameters:  *)
(* the module is about the bookkeeping (queue, queued flags, generations,  *)
(* iteration counts, first-arrival snapshots) that must make the loop      *)
(* drain exactly at a post-fixed point.                                    *)
(*                                                                         *)
(* A program is what the CFG builder hands over: blocks numbered from 0,   *)
(* the entry, its reverse postorder and, per block, the sequence of        *)
(* outgoing edges in the order the graph iterates them.                    *)
(***************************************************************************)
EXTENDS Integers, Sequences, FiniteSets, Functions

CONSTANTS
    Programs,            \* the programs under verification
    State,               \* abstract states (VerifierState)
    NoState,             \* None in `states` and `snapshots`
    Threshold,           \* config.widening_threshold
    EntryState(_),       \* the entry state of a program
    Checks(_, _, _),     \* every instruction of block b passes from state s
    BlockExit(_, _, _),  \* the state after the last instruction of b
    RefineEdge(_, _, _, _), \* that state refined for one outgoing edge
    Join(_, _),          \* VerifierState::join_assign
    Widen(_, _),         \* VerifierState::widen_assign
    Leq(_, _),           \* the order of the abstract domain
    Rank(_),             \* how often widening can still change a state
    Height,              \* the largest rank
    Bounded(_, _)        \* enforce_loop_bounds on the snapshots

Blocks(p) == p.blocks
Succ(p, b) == p.succ[b]
RpoSet(p) == {p.rpo[i] : i \in 1..Len(p.rpo)}

\* The state that edge i of block b passes on when b is entered with s.
Out(p, b, i, s) == RefineEdge(p, b, i, BlockExit(p, b, s))

\* What a program gives the worklist: the reverse postorder lists each
\* block reachable from the entry once, and nothing else.
IsProgram(p) ==
    /\ IsFiniteSet(Blocks(p))
    /\ p.entry \in Blocks(p)
    /\ p.looping \in BOOLEAN
    /\ p.rpo \in Seq(Blocks(p))
    /\ \A i, j \in 1..Len(p.rpo) : p.rpo[i] = p.rpo[j] => i = j
    /\ p.succ \in [Blocks(p) -> Seq([to : Blocks(p), kind : STRING])]
    /\ p.entry \in RpoSet(p)
    /\ \A b \in RpoSet(p) : \A i \in 1..Len(Succ(p, b)) : Succ(p, b)[i].to \in RpoSet(p)
    /\ \A S \in SUBSET Blocks(p) :
          (/\ p.entry \in S
           /\ \A b \in S : \A i \in 1..Len(Succ(p, b)) : Succ(p, b)[i].to \in S)
          => RpoSet(p) \subseteq S

ASSUME ProgramAssumption ==
    /\ \A p \in Programs : IsProgram(p)
    /\ NoState \notin State
    /\ Threshold \in Nat

\* The transfer functions stay inside the domain.
ASSUME TransferAssumption ==
    \A p \in Programs :
        /\ EntryState(p) \in State
        /\ \A b \in Blocks(p), s \in State :
              /\ Checks(p, b, s) \in BOOLEAN
              /\ Checks(p, b, s) =>
                    \A i \in 1..Len(Succ(p, b)) : Out(p, b, i, s) \in State

\* Join and widen return upper bounds of an order.
ASSUME DomainAssumption ==
    /\ \A s, t \in State :
          /\ Join(s, t) \in State /\ Leq(s, Join(s, t)) /\ Leq(t, Join(s, t))
          /\ Widen(s, t) \in State /\ Leq(s, Widen(s, t)) /\ Leq(t, Widen(s, t))
    /\ \A s \in State : Leq(s, s)
    /\ \A s, t \in State : Leq(s, t) =>
          \A u \in State : Leq(t, u) => Leq(s, u)

\* A widening that changes a state uses up some of its rank.  Nothing of the
\* kind is asked of Join.
ASSUME WideningAssumption ==
    /\ Height \in Nat
    /\ \A s \in State : Rank(s) \in 0..Height
    /\ \A s, t \in State : Widen(s, t) # s => Rank(Widen(s, t)) < Rank(s)

-----------------------------------------------------------------------------
VARIABLES
    prog,         \* the program and its CFG; never changes
    states,       \* states[b]: the entry state of block b, or NoState
    statesGen,    \* states_gen: bumped on every change of states[b]
    processedGen, \* processed_gen: the generation b was last processed at
    iterations,   \* block_iterations: merges into a block that had a state
    snapshots,    \* the state (its registers) of a block's first arrival, or NoState
    queue,        \* BlockWorklist.queue
    queued,       \* the blocks whose BlockWorklist.queued flag is set
    cur,          \* the block being propagated: its input and its next edge
    visited,      \* blocks whose instructions were counted in total_pc
    verdict

vars == <<prog, states, statesGen, processedGen, iterations, snapshots,
          queue, queued, cur, visited, verdict>>

\* processed_gen starts at u32::MAX, which no generation equals.
Unprocessed == -1

\* No block is between its transfer and its last merge.
Idle == [edge |-> 0]

Init ==
    /\ prog \in Programs
    /\ states = [b \in Blocks(prog) |->
                   IF b = prog.entry THEN EntryState(prog) ELSE NoState]
    /\ snapshots = [b \in Blocks(prog) |->
                   IF b = prog.entry /\ prog.looping THEN EntryState(prog) ELSE NoState]
    /\ statesGen = [b \in Blocks(prog) |-> IF b = prog.entry THEN 1 ELSE 0]
    /\ processedGen = [b \in Blocks(prog) |-> Unprocessed]
    /\ iterations = [b \in Blocks(prog) |-> 0]
    /\ queue = prog.rpo
    /\ queued = RpoSet(prog)
    /\ cur = Idle
    /\ visited = {}
    /\ verdict = "running"

\* Variants that the run must tell from the code: a push that trusts nothing,
\* a pop that leaves the flag set.
PushAlways(b) ==
    /\ queue' = Append(queue, b)
    /\ queued' = queued \cup {b}

PopKeepsFlag ==
    /\ queue # <<>>
    /\ queue' = Tail(queue)
    /\ queued' = queued

\* BlockWorklist::push and ::pop
Push(b) ==
    /\ queue' = IF b \in queued THEN queue ELSE Append(queue, b)
    /\ queued' = queued \cup {b}

Pop ==
    /\ queue # <<>>
    /\ queue' = Tail(queue)
    /\ queued' = queued \ {Head(queue)}

\* The loop of verify_core takes block b off the queue.
Take(b) ==
    /\ verdict = "running"
    /\ cur = Idle
    /\ Pop
    /\ b = Head(queue)
    /\ processedGen' = [processedGen EXCEPT ![b] = statesGen[b]]

\* The two `continue`s: b was processed with this very input, or a seeded b
\* has no entry state yet.
Skipped(b) == processedGen[b] = statesGen[b] \/ states[b] = NoState

\* Some instruction of the block fails its check: verify_core returns.
RejectBlock ==
    \E b \in queued :
        /\ Take(b)
        /\ ~ Skipped(b)
        /\ ~ Checks(prog, b, states[b])
        /\ verdict' = "rejected"
        /\ UNCHANGED <<prog, states, statesGen, iterations, snapshots, cur, visited>>

\* Variant: an exit block leaves before its instructions are counted.
ProcessUncounted ==
    \E b \in queued :
        /\ Take(b)
        /\ IF Skipped(b)
           THEN UNCHANGED <<cur, visited>>
           ELSE /\ Checks(prog, b, states[b])
                /\ visited' = IF Succ(prog, b) = <<>> THEN visited ELSE visited \cup {b}
                /\ cur' = IF Succ(prog, b) = <<>> THEN Idle
                          ELSE [edge |-> 1, block |-> b, from |-> states[b]]
        /\ UNCHANGED <<prog, states, statesGen, iterations, snapshots, verdict>>

\* Every instruction passes: propagation starts at the first edge, if any.
ProcessBlock ==
    \E b \in queued :
        /\ Take(b)
        /\ IF Skipped(b)
           THEN UNCHANGED <<cur, visited>>
           ELSE /\ Checks(prog, b, states[b])
                /\ visited' = visited \cup {b}
                /\ cur' = IF Succ(prog, b) = <<>> THEN Idle
                          ELSE [edge |-> 1, block |-> b, from |-> states[b]]
        /\ UNCHANGED <<prog, states, statesGen, iterations, snapshots, verdict>>

\* Variants: the block that follows in layout order for the edge's target, and
\* one edge too many.
TargetFallsThrough == IF cur.block + 1 \in Blocks(prog) THEN cur.block + 1 ELSE cur.block
NextEdgeTooFar ==
    cur' = IF cur.edge <= Len(Succ(prog, cur.block))
           THEN [cur EXCEPT !.edge = @ + 1]
           ELSE Idle

\* The edge being merged, and the move on to the block's next one.
Target == Succ(prog, cur.block)[cur.edge].to
Incoming == Out(prog, cur.block, cur.edge, cur.from)
NextEdge ==
    cur' = IF cur.edge < Len(Succ(prog, cur.block))
           THEN [cur EXCEPT !.edge = @ + 1]
           ELSE Idle

\* merge_successor, None: first arrival.
MergeFirst ==
    /\ cur # Idle
    /\ states[Target] = NoState
    /\ snapshots' = [snapshots EXCEPT ![Target] = Incoming]
    /\ states' = [states EXCEPT ![Target] = Incoming]
    /\ statesGen' = [statesGen EXCEPT ![Target] = @ + 1]
    /\ Push(Target)
    /\ NextEdge
    /\ UNCHANGED <<prog, processedGen, iterations, visited, verdict>>

\* Variants: the later arrival replaces the stored state; the switch to
\* widening is missing.
MergedReplaces(b, s) == s
MergedJoins(b, s) == Join(states[b], s)

\* merge_successor, Some: join, or widen once past the threshold.
Merged(b, s) ==
    IF iterations[b] + 1 > Threshold THEN Widen(states[b], s) ELSE Join(states[b], s)

\* Variant: a merge requeues its target whether or not it changed.
MergeRequeues ==
    /\ cur # Idle
    /\ states[Target] # NoState
    /\ Merged(Target, Incoming) = states[Target]
    /\ iterations' = [iterations EXCEPT ![Target] = @ + 1]
    /\ Push(Target)
    /\ NextEdge
    /\ UNCHANGED <<prog, states, statesGen, processedGen, snapshots, visited, verdict>>

MergeUnchanged ==
    /\ cur # Idle
    /\ states[Target] # NoState
    /\ Merged(Target, Incoming) = states[Target]
    /\ iterations' = [iterations EXCEPT ![Target] = @ + 1]
    /\ NextEdge
    /\ UNCHANGED <<prog, states, statesGen, processedGen, snapshots, queue,
                   queued, visited, verdict>>

\* Variant: the changed target is not queued.
MergeForgets ==
    /\ cur # Idle
    /\ states[Target] # NoState
    /\ Merged(Target, Incoming) # states[Target]
    /\ iterations' = [iterations EXCEPT ![Target] = @ + 1]
    /\ states' = [states EXCEPT ![Target] = Merged(Target, Incoming)]
    /\ statesGen' = [statesGen EXCEPT ![Target] = @ + 1]
    /\ NextEdge
    /\ UNCHANGED <<prog, processedGen, snapshots, queue, queued, visited, verdict>>

MergeChanged ==
    /\ cur # Idle
    /\ states[Target] # NoState
    /\ Merged(Target, Incoming) # states[Target]
    /\ iterations' = [iterations EXCEPT ![Target] = @ + 1]
    /\ states' = [states EXCEPT ![Target] = Merged(Target, Incoming)]
    /\ statesGen' = [statesGen EXCEPT ![Target] = @ + 1]
    /\ Push(Target)
    /\ NextEdge
    /\ UNCHANGED <<prog, processedGen, snapshots, visited, verdict>>

\* The queue is drained: the loop bounds decide.
Decide ==
    /\ verdict = "running"
    /\ cur = Idle
    /\ queue = <<>>
    /\ verdict' = IF Bounded(prog, snapshots) THEN "accepted" ELSE "unbounded"
    /\ UNCHANGED <<prog, states, statesGen, processedGen, iterations,
                   snapshots, queue, queued, cur, visited>>

Next ==
    \/ RejectBlock
    \/ ProcessBlock
    \/ MergeFirst
    \/ MergeUnchanged
    \/ MergeChanged
    \/ Decide

Spec == Init /\ [][Next]_vars

-----------------------------------------------------------------------------
(***************************************************************************)
(* Properties                                                              *)
(***************************************************************************)

Reached == {b \in Blocks(prog) : states[b] # NoState}

\* The arrays of verify_core hold what their declarations say, whatever
\* order the merges come in.
TypeOK ==
    /\ prog \in Programs
    /\ states \in [Blocks(prog) -> State \cup {NoState}]
    /\ snapshots \in [Blocks(prog) -> State \cup {NoState}]
    /\ statesGen \in [Blocks(prog) -> Nat]
    /\ processedGen \in [Blocks(prog) -> Nat \cup {Unprocessed}]
    /\ iterations \in [Blocks(prog) -> Nat]
    /\ queue \in Seq(Blocks(prog))
    /\ queued \subseteq Blocks(prog)
    /\ \/ cur = Idle
       \/ /\ cur \in [edge : Nat \ {0}, block : Blocks(prog), from : State]
          /\ cur.edge <= Len(Succ(prog, cur.block))
          /\ Checks(prog, cur.block, cur.from)
    /\ visited \subseteq Blocks(prog)
    /\ verdict \in {"running", "accepted", "rejected", "unbounded"}

\* BlockWorklist: the flag of a block is set exactly while the block waits in
\* the queue, and it never waits twice, so push can trust the flag.
FlagsMatchQueue ==
    /\ queued = {queue[i] : i \in 1..Len(queue)}
    /\ \A i, j \in 1..Len(queue) : queue[i] = queue[j] => i = j

\* No change is lost: a block whose entry state changed after it was last
\* processed is in the queue, also while its predecessor is still merging.
ChangedIsQueued ==
    \A b \in Reached : processedGen[b] # statesGen[b] => b \in queued

\* Nothing is queued in vain: the generation test at the head of the loop
\* never finds a block it already processed with the same input.
QueuedIsChanged ==
    \A b \in queued : processedGen[b] # statesGen[b]

\* What the loop exists for.  Once the verifier accepts, the stored states
\* cover the entry state and are closed under every edge: each reachable
\* block passes its checks from its stored state, and what it passes along
\* each edge is below the stored state of the target.
PostFixpoint ==
    verdict = "accepted" =>
        /\ Leq(EntryState(prog), states[prog.entry])
        /\ \A b \in RpoSet(prog) :
              /\ states[b] # NoState
              /\ Checks(prog, b, states[b])
              /\ \A i \in 1..Len(Succ(prog, b)) :
                    Leq(Out(prog, b, i, states[b]), states[Succ(prog, b)[i].to])

\* An accepted program had every reachable block transferred at least once,
\* and no other: total_pc counts exactly the reachable instructions.
AcceptedCountsReachable ==
    verdict = "accepted" => visited = RpoSet(prog)

\* A block that b cannot be reached without: every way from the entry to b
\* leads through h.
ReachedAvoiding(h, b) ==
    \A S \in SUBSET Blocks(prog) :
        (/\ prog.entry \in S
         /\ \A x \in S : \A i \in 1..Len(Succ(prog, x)) :
               Succ(prog, x)[i].to # h => Succ(prog, x)[i].to \in S)
        => b \in S
Dominates(h, b) == h = prog.entry \/ h = b \/ ~ ReachedAvoiding(h, b)

\* The comment on the snapshots: a header's first arrival never comes from
\* one of its own latches, because a block is reached only after every block
\* that dominates it.
DominatorsFirst ==
    \A b \in Reached : \A h \in Blocks(prog) : Dominates(h, b) => h \in Reached

\* A stored state only ever grows: no merge drops what an earlier one
\* brought, and the first-arrival snapshot the loop bounds are computed from
\* is never overwritten by a later one.
GrowsStep ==
    \A b \in Reached :
        /\ states'[b] # NoState
        /\ Leq(states[b], states'[b])
        /\ snapshots'[b] = snapshots[b]
Ascending == [][GrowsStep]_vars

\* The comment on states_gen: widening after the threshold forces finite
\* ascent.  The entry state of a block changes at its first arrival, at most
\* once for every join, and then only as often as widening has rank to use up,
\* however large the word is; joins alone climb one word at a time.
MostChanges == 1 + Threshold + Height
AscentBounded == \A b \in Blocks(prog) : statesGen[b] <= MostChanges

\* What verify_core has left to do.  Every change a block may still see lets it
\* be taken off the queue once more, and so does a place in the queue; each
\* time its edges are walked.  One step is left for the verdict.
Degree(b) == Len(Succ(prog, b))
Turns(b) == MostChanges - statesGen[b] + (IF b \in queued THEN 1 ELSE 0)
Load(b) == (Degree(b) + 1) * Turns(b)
Loads == SumFunctionOnSet([b \in Blocks(prog) |-> Load(b)], Blocks(prog))
EdgesLeft == IF cur = Idle THEN 0 ELSE Degree(cur.block) - cur.edge + 1
VerdictLeft == IF verdict = "running" THEN 1 ELSE 0
Remaining == Loads + EdgesLeft + VerdictLeft

\* The same comment, "Terminates": every step of the loop, the merge that
\* requeues a block included, uses up some of a number that starts finite and
\* never falls below zero.  A run of verify_core ends within that many steps.
DrainsStep == Remaining' < Remaining /\ 0 <= Remaining'
Drains == [][DrainsStep]_vars

-----------------------------------------------------------------------------
(***************************************************************************)
(* The inductive invariant behind PostFixpoint.  PostFixpoint speaks only   *)
(* of the end; what carries it there is that each block whose generations  *)
(* agree already satisfies it for the edges merged so far.                 *)
(***************************************************************************)

\* Generations never run backwards, so they differ as long as a change is
\* unprocessed; a block has a state exactly when its generation moved.
Generations ==
    \A b \in Blocks(prog) :
        /\ processedGen[b] <= statesGen[b]
        /\ states[b] = NoState <=> statesGen[b] = 0

\* The block being propagated works on a copy of its state; the copy is
\* still current unless a merge into the block itself changed it.
Cursor ==
    cur # Idle =>
        /\ verdict = "running"
        /\ states[cur.block] # NoState
        /\ processedGen[cur.block] = statesGen[cur.block] =>
              cur.from = states[cur.block]

\* Edge i of block b still waits for its merge in the current propagation.
Waiting(b, i) == cur # Idle /\ cur.block = b /\ cur.edge <= i

\* A block processed at its current generation passes its checks and every
\* edge already merged is covered by its target.
SettledClosed ==
    verdict # "rejected" =>
        \A b \in Reached : processedGen[b] = statesGen[b] =>
            /\ Checks(prog, b, states[b])
            /\ b \in visited
            /\ \A i \in 1..Len(Succ(prog, b)) : ~Waiting(b, i) =>
                  /\ states[Succ(prog, b)[i].to] # NoState
                  /\ Leq(Out(prog, b, i, states[b]), states[Succ(prog, b)[i].to])

EntryCovered ==
    /\ states[prog.entry] # NoState
    /\ Leq(EntryState(prog), states[prog.entry])

VisitedReached == visited \subseteq Reached /\ Reached \subseteq RpoSet(prog)

\* Acceptance happens with nothing left to do.
Drained == verdict \in {"accepted", "unbounded"} => queue = <<>> /\ cur = Idle

IInv ==
    /\ TypeOK
    /\ FlagsMatchQueue
    /\ Generations
    /\ Cursor
    /\ ChangedIsQueued
    /\ SettledClosed
    /\ EntryCovered
    /\ VisitedReached
    /\ Drained

\* What bounds the changes of a block: up to the threshold each change is one
\* of its merges, from there on each one costs rank.
Ascent ==
    \A b \in Blocks(prog) :
        /\ states[b] = NoState => iterations[b] = 0
        /\ iterations[b] <= Threshold => statesGen[b] <= 1 + iterations[b]
        /\ iterations[b] > Threshold =>
              statesGen[b] + Rank(states[b]) <= MostChanges
=============================================================================
