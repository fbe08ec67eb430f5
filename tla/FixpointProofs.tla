--------------------------- MODULE FixpointProofs ---------------------------
(***************************************************************************)
(* Proofs about the worklist, for every program, every abstract domain     *)
(* whose join and widen are upper bounds, and every widening threshold.    *)
(***************************************************************************)
EXTENDS Fixpoint, ExecProofs

\* What IsProgram says of the edges of one block.
LEMMA EdgesTyped ==
    ASSUME NEW p \in Programs, NEW b \in Blocks(p)
    PROVE  /\ Succ(p, b) \in Seq([to : Blocks(p), kind : STRING])
           /\ Len(Succ(p, b)) \in Nat
           /\ \A i \in 1..Len(Succ(p, b)) : Succ(p, b)[i].to \in Blocks(p)
  <1> DEFINE Edge == [to : Blocks(p), kind : STRING]
  <1>1. p.succ \in [Blocks(p) -> Seq(Edge)]
    BY ProgramAssumption DEF IsProgram
  <1>2. Succ(p, b) \in Seq(Edge)
    BY <1>1 DEF Succ
  <1>3. \A e \in Edge : e.to \in Blocks(p)
    OBVIOUS
  <1> HIDE DEF Edge
  <1>4. \A i \in 1..Len(Succ(p, b)) : Succ(p, b)[i] \in Edge
    BY <1>2
  <1>5. Len(Succ(p, b)) \in Nat
    BY <1>2
  <1>. QED  BY <1>2, <1>3, <1>4, <1>5 DEF Edge

\* The merge target and the state merged into it are well typed.
LEMMA MergeTyped ==
    ASSUME TypeOK, cur # Idle
    PROVE  /\ cur.block \in Blocks(prog)
           /\ cur.edge \in 1..Len(Succ(prog, cur.block))
           /\ cur.from \in State
           /\ Checks(prog, cur.block, cur.from)
           /\ Target \in Blocks(prog)
           /\ Incoming \in State
  <1>1. /\ cur.block \in Blocks(prog) /\ cur.from \in State
        /\ Checks(prog, cur.block, cur.from)
        /\ cur.edge \in Nat \ {0} /\ cur.edge <= Len(Succ(prog, cur.block))
        /\ prog \in Programs
    BY DEF TypeOK
  <1>2. Len(Succ(prog, cur.block)) \in Nat
    BY <1>1, EdgesTyped
  <1>3. cur.edge \in 1..Len(Succ(prog, cur.block))
    BY <1>1, <1>2
  <1>4. Target \in Blocks(prog)
    BY <1>1, <1>3, EdgesTyped DEF Target
  <1>5. Incoming \in State
    BY <1>1, <1>3, TransferAssumption DEF Incoming
  <1>. QED  BY <1>1, <1>3, <1>4, <1>5

\* What merging returns stays in the domain and is above both arguments.
LEMMA MergedUpper ==
    ASSUME TypeOK, NEW b \in Blocks(prog), states[b] # NoState, NEW s \in State
    PROVE  /\ states[b] \in State
           /\ Merged(b, s) \in State
           /\ Leq(states[b], Merged(b, s))
           /\ Leq(s, Merged(b, s))
  <1>1. states[b] \in State
    BY DEF TypeOK
  <1>. QED  BY <1>1, DomainAssumption DEF Merged

\* NextEdge keeps the cursor well typed.
LEMMA NextEdgeTyped ==
    ASSUME TypeOK, cur # Idle, NextEdge, prog' = prog
    PROVE  \/ cur' = Idle
           \/ /\ cur' \in [edge : Nat \ {0}, block : Blocks(prog'), from : State]
              /\ cur'.edge <= Len(Succ(prog', cur'.block))
              /\ Checks(prog', cur'.block, cur'.from)
  <1>2. Len(Succ(prog, cur.block)) \in Nat
    BY MergeTyped, EdgesTyped DEF TypeOK
  <1>3. cur \in [edge : Nat \ {0}, block : Blocks(prog), from : State]
    BY DEF TypeOK
  <1>4. CASE cur.edge < Len(Succ(prog, cur.block))
    <2>1. cur' = [cur EXCEPT !.edge = cur.edge + 1]
      BY <1>4 DEF NextEdge
    <2>2. /\ cur'.edge = cur.edge + 1 /\ cur'.block = cur.block /\ cur'.from = cur.from
          /\ cur' \in [edge : Nat \ {0}, block : Blocks(prog), from : State]
      BY <1>3, <2>1
    <2>. QED  BY <1>2, <1>3, <1>4, <2>2, MergeTyped
  <1>5. CASE ~(cur.edge < Len(Succ(prog, cur.block)))
    BY <1>5 DEF NextEdge
  <1>. QED  BY <1>4, <1>5

\* Every step of verify_core keeps the types.
LEMMA TypeStep ==
    ASSUME TypeOK, [Next]_vars PROVE TypeOK'
  <1>1. CASE RejectBlock
    <2>1. PICK b \in queued : /\ Take(b) /\ verdict' = "rejected"
                              /\ UNCHANGED <<prog, states, statesGen, iterations,
                                             snapshots, cur, visited>>
      BY <1>1 DEF RejectBlock
    <2>2. queue' \in Seq(Blocks(prog)) /\ queued' \subseteq Blocks(prog)
      BY <2>1 DEF Take, Pop, TypeOK
    <2>. QED  BY <2>1, <2>2 DEF Take, TypeOK
  <1>2. CASE ProcessBlock
    <2>1. PICK b \in queued :
             /\ Take(b)
             /\ IF Skipped(b) THEN UNCHANGED <<cur, visited>>
                ELSE /\ Checks(prog, b, states[b])
                     /\ visited' = visited \cup {b}
                     /\ cur' = IF Succ(prog, b) = <<>> THEN Idle
                               ELSE [edge |-> 1, block |-> b, from |-> states[b]]
             /\ UNCHANGED <<prog, states, statesGen, iterations, snapshots, verdict>>
      BY <1>2 DEF ProcessBlock
    <2>2. queue' \in Seq(Blocks(prog)) /\ queued' \subseteq Blocks(prog)
      BY <2>1 DEF Take, Pop, TypeOK
    <2>3. CASE Skipped(b)
      BY <2>1, <2>2, <2>3 DEF Take, TypeOK
    <2>4. CASE ~Skipped(b)
      <3>1. states[b] \in State /\ b \in Blocks(prog)
        BY <2>4 DEF Skipped, TypeOK
      <3>2. Succ(prog, b) \in Seq([to : Blocks(prog), kind : STRING])
        BY <3>1, EdgesTyped DEF TypeOK
      <3>3. Succ(prog, b) # <<>> => 1 <= Len(Succ(prog, b))
        BY <3>2
      <3>4. \/ cur' = Idle
            \/ /\ cur' \in [edge : Nat \ {0}, block : Blocks(prog'), from : State]
               /\ cur'.edge <= Len(Succ(prog', cur'.block))
               /\ Checks(prog', cur'.block, cur'.from)
        BY <2>1, <2>4, <3>1, <3>3
      <3>. QED  BY <2>1, <2>2, <2>4, <3>1, <3>4 DEF Take, TypeOK
    <2>. QED  BY <2>3, <2>4
  <1>3. CASE MergeFirst
    <2>1. Target \in Blocks(prog) /\ Incoming \in State /\ prog' = prog
      BY <1>3, MergeTyped DEF MergeFirst
    <2>2. queue' \in Seq(Blocks(prog)) /\ queued' \subseteq Blocks(prog)
      BY <1>3, <2>1 DEF MergeFirst, Push, TypeOK
    <2>5. \/ cur' = Idle
          \/ /\ cur' \in [edge : Nat \ {0}, block : Blocks(prog'), from : State]
             /\ cur'.edge <= Len(Succ(prog', cur'.block))
             /\ Checks(prog', cur'.block, cur'.from)
      BY <1>3, <2>1, NextEdgeTyped DEF MergeFirst
    <2>6. /\ states' \in [Blocks(prog) -> State \cup {NoState}]
          /\ snapshots' \in [Blocks(prog) -> State \cup {NoState}]
          /\ statesGen' \in [Blocks(prog) -> Nat]
          /\ iterations' \in [Blocks(prog) -> Nat]
      BY <1>3, <2>1 DEF MergeFirst, TypeOK
    <2>. QED  BY <1>3, <2>1, <2>2, <2>5, <2>6 DEF MergeFirst, TypeOK
  <1>4. CASE MergeUnchanged
    <2>1. Target \in Blocks(prog) /\ Incoming \in State /\ prog' = prog
      BY <1>4, MergeTyped DEF MergeUnchanged
    <2>5. \/ cur' = Idle
          \/ /\ cur' \in [edge : Nat \ {0}, block : Blocks(prog'), from : State]
             /\ cur'.edge <= Len(Succ(prog', cur'.block))
             /\ Checks(prog', cur'.block, cur'.from)
      BY <1>4, <2>1, NextEdgeTyped DEF MergeUnchanged
    <2>6. /\ states' \in [Blocks(prog) -> State \cup {NoState}]
          /\ snapshots' \in [Blocks(prog) -> State \cup {NoState}]
          /\ statesGen' \in [Blocks(prog) -> Nat]
          /\ iterations' \in [Blocks(prog) -> Nat]
      BY <1>4, <2>1 DEF MergeUnchanged, TypeOK
    <2>. QED  BY <1>4, <2>1, <2>5, <2>6 DEF MergeUnchanged, TypeOK
  <1>5. CASE MergeChanged
    <2>1. Target \in Blocks(prog) /\ Incoming \in State /\ prog' = prog
      BY <1>5, MergeTyped DEF MergeChanged
    <2>2. queue' \in Seq(Blocks(prog)) /\ queued' \subseteq Blocks(prog)
      BY <1>5, <2>1 DEF MergeChanged, Push, TypeOK
    <2>3. Merged(Target, Incoming) \in State
      BY <1>5, <2>1, MergedUpper DEF MergeChanged
    <2>5. \/ cur' = Idle
          \/ /\ cur' \in [edge : Nat \ {0}, block : Blocks(prog'), from : State]
             /\ cur'.edge <= Len(Succ(prog', cur'.block))
             /\ Checks(prog', cur'.block, cur'.from)
      BY <1>5, <2>1, NextEdgeTyped DEF MergeChanged
    <2>6. /\ states' \in [Blocks(prog) -> State \cup {NoState}]
          /\ snapshots' \in [Blocks(prog) -> State \cup {NoState}]
          /\ statesGen' \in [Blocks(prog) -> Nat]
          /\ iterations' \in [Blocks(prog) -> Nat]
      BY <1>5, <2>1, <2>3 DEF MergeChanged, TypeOK
    <2>. QED  BY <1>5, <2>1, <2>2, <2>5, <2>6 DEF MergeChanged, TypeOK
  <1>6. CASE Decide
    BY <1>6 DEF Decide, TypeOK
  <1>7. CASE UNCHANGED vars
    BY <1>7 DEF vars, TypeOK
  <1>. QED  BY <1>1, <1>2, <1>3, <1>4, <1>5, <1>6, <1>7 DEF Next

\* verify_core never leaves the types of its arrays.
THEOREM TypeCorrect == Spec => []TypeOK
  <1>1. Init => TypeOK
    <2> SUFFICES ASSUME Init PROVE TypeOK
      OBVIOUS
    <2>1. prog \in Programs /\ IsProgram(prog) /\ EntryState(prog) \in State
      BY ProgramAssumption, TransferAssumption DEF Init
    <2>2. queue \in Seq(Blocks(prog)) /\ queued \subseteq Blocks(prog)
      BY <2>1 DEF Init, IsProgram, RpoSet
    <2>. QED  BY <2>1, <2>2 DEF Init, TypeOK, Unprocessed
  <1>2. TypeOK /\ [Next]_vars => TypeOK'
    BY TypeStep
  <1>. QED  BY <1>1, <1>2, PTL DEF Spec

-----------------------------------------------------------------------------
(***************************************************************************)
(* The queue as a set of distinct blocks.                                  *)
(***************************************************************************)

Elements(q) == {q[i] : i \in 1..Len(q)}
Distinct(q) == \A i, j \in 1..Len(q) : q[i] = q[j] => i = j

\* Popping removes exactly the head.
LEMMA TailOfDistinct ==
    ASSUME NEW S, NEW q \in Seq(S), q # <<>>, Distinct(q)
    PROVE  /\ Distinct(Tail(q))
           /\ Elements(Tail(q)) = Elements(q) \ {Head(q)}
           /\ Head(q) \in Elements(q)
  <1>1. Len(q) \in Nat \ {0} /\ Tail(q) \in Seq(S) /\ Len(Tail(q)) = Len(q) - 1
        /\ Head(q) = q[1] /\ \A i \in 1..Len(Tail(q)) : Tail(q)[i] = q[i + 1]
    OBVIOUS
  <1>2. Distinct(Tail(q))
    <2> SUFFICES ASSUME NEW i \in 1..Len(Tail(q)), NEW j \in 1..Len(Tail(q)),
                        Tail(q)[i] = Tail(q)[j]
                 PROVE  i = j
      BY DEF Distinct
    <2>1. i + 1 \in 1..Len(q) /\ j + 1 \in 1..Len(q) /\ q[i + 1] = q[j + 1]
      BY <1>1
    <2>. QED  BY <2>1 DEF Distinct
  <1>3. ASSUME NEW x \in Elements(Tail(q)) PROVE x \in Elements(q) \ {Head(q)}
    <2>1. PICK i \in 1..Len(Tail(q)) : x = Tail(q)[i]
      BY <1>3 DEF Elements
    <2>2. i + 1 \in 1..Len(q) /\ x = q[i + 1] /\ 1 \in 1..Len(q) /\ i + 1 # 1
      BY <1>1, <2>1
    <2>3. x # q[1]
      BY <2>2 DEF Distinct
    <2>. QED  BY <1>1, <2>2, <2>3 DEF Elements
  <1>4. ASSUME NEW x \in Elements(q), x # Head(q) PROVE x \in Elements(Tail(q))
    <2>1. PICK i \in 1..Len(q) : x = q[i]
      BY <1>4 DEF Elements
    <2>2. i # 1 /\ i - 1 \in 1..Len(Tail(q)) /\ Tail(q)[i - 1] = q[i]
      BY <1>1, <1>4, <2>1
    <2>. QED  BY <2>1, <2>2 DEF Elements
  <1>5. Head(q) \in Elements(q)
    BY <1>1 DEF Elements
  <1>. QED  BY <1>2, <1>3, <1>4, <1>5

\* Pushing a block that is not in the queue adds exactly that block.
LEMMA AppendToDistinct ==
    ASSUME NEW S, NEW q \in Seq(S), NEW x \in S, Distinct(q), x \notin Elements(q)
    PROVE  /\ Distinct(Append(q, x))
           /\ Elements(Append(q, x)) = Elements(q) \cup {x}
  <1>1. /\ Len(q) \in Nat /\ Len(Append(q, x)) = Len(q) + 1
        /\ \A i \in 1..Len(q) : Append(q, x)[i] = q[i]
        /\ Append(q, x)[Len(q) + 1] = x
    OBVIOUS
  <1>2. \A i \in 1..(Len(q) + 1) : i \in 1..Len(q) \/ i = Len(q) + 1
    BY <1>1
  <1>3. \A i \in 1..Len(q) : q[i] # x
    BY DEF Elements
  <1>4. Distinct(Append(q, x))
    BY <1>1, <1>2, <1>3 DEF Distinct
  <1>5. Elements(Append(q, x)) = Elements(q) \cup {x}
    <2>1. ASSUME NEW y \in Elements(Append(q, x)) PROVE y \in Elements(q) \cup {x}
      BY <1>1, <1>2, <2>1 DEF Elements
    <2>2. ASSUME NEW y \in Elements(q) \cup {x} PROVE y \in Elements(Append(q, x))
      <3>1. CASE y = x
        BY <1>1, <3>1 DEF Elements
      <3>2. CASE y \in Elements(q)
        <4>1. PICK i \in 1..Len(q) : y = q[i]
          BY <3>2 DEF Elements
        <4>2. i \in 1..(Len(q) + 1)
          BY <1>1
        <4>. QED  BY <1>1, <4>1, <4>2 DEF Elements
      <3>. QED  BY <2>2, <3>1, <3>2
    <2>. QED  BY <2>1, <2>2
  <1>. QED  BY <1>4, <1>5

\* Both operations of BlockWorklist keep the flags and the queue in step.
LEMMA PopKeepsFlags ==
    ASSUME TypeOK, FlagsMatchQueue, Pop
    PROVE  FlagsMatchQueue' /\ Head(queue) \in queued
  <1>1. queue \in Seq(Blocks(prog)) /\ Distinct(queue) /\ queued = Elements(queue)
    BY DEF TypeOK, FlagsMatchQueue, Distinct, Elements
  <1>2. /\ Distinct(Tail(queue)) /\ Elements(Tail(queue)) = Elements(queue) \ {Head(queue)}
        /\ Head(queue) \in Elements(queue)
    BY <1>1, TailOfDistinct DEF Pop
  <1>3. Distinct(queue') /\ queued' = Elements(queue')
    BY <1>1, <1>2 DEF Pop
  <1>. QED  BY <1>1, <1>2, <1>3 DEF FlagsMatchQueue, Distinct, Elements

LEMMA PushKeepsFlags ==
    ASSUME TypeOK, FlagsMatchQueue, NEW b \in Blocks(prog), Push(b)
    PROVE  FlagsMatchQueue'
  <1>1. queue \in Seq(Blocks(prog)) /\ Distinct(queue) /\ queued = Elements(queue)
    BY DEF TypeOK, FlagsMatchQueue, Distinct, Elements
  <1>2. CASE b \in queued
    <2>1. queue' = queue /\ queued' = queued
      BY <1>2 DEF Push
    <2>. QED  BY <2>1 DEF FlagsMatchQueue
  <1>3. CASE b \notin queued
    <2>1. queue' = Append(queue, b) /\ queued' = queued \cup {b}
      BY <1>3 DEF Push
    <2>2. Distinct(queue') /\ queued' = Elements(queue')
      BY <1>1, <1>3, <2>1, AppendToDistinct
    <2>. QED  BY <2>2 DEF FlagsMatchQueue, Distinct, Elements
  <1>. QED  BY <1>2, <1>3

-----------------------------------------------------------------------------
(***************************************************************************)
(* The inductive invariant.                                                *)
(***************************************************************************)

\* Moving to the next edge settles exactly the edge that was merged.
LEMMA WaitingStep ==
    ASSUME TypeOK, cur # Idle, NextEdge,
           NEW b, NEW i \in Nat, i <= Len(Succ(prog, b)), ~Waiting(b, i)'
    PROVE  ~Waiting(b, i) \/ (b = cur.block /\ i = cur.edge)
  <1> SUFFICES ASSUME cur.block = b, cur.edge <= i PROVE i = cur.edge
    BY DEF Waiting
  <1>1. cur \in [edge : Nat \ {0}, block : Blocks(prog), from : State]
    BY DEF TypeOK
  <1>2. Len(Succ(prog, b)) \in Nat /\ cur.edge <= Len(Succ(prog, b))
    BY MergeTyped, EdgesTyped DEF TypeOK
  <1>3. CASE cur.edge < Len(Succ(prog, cur.block))
    <2>1. cur' = [cur EXCEPT !.edge = cur.edge + 1]
      BY <1>3 DEF NextEdge
    <2>2. cur'.edge = cur.edge + 1 /\ cur'.block = cur.block /\ cur' # Idle
      BY <1>1, <2>1 DEF Idle
    <2>. QED  BY <1>1, <2>2 DEF Waiting
  <1>4. CASE ~(cur.edge < Len(Succ(prog, cur.block)))
    BY <1>1, <1>2, <1>4
  <1>. QED  BY <1>3, <1>4

\* The cursor never leaves its block while it has an edge.
LEMMA NextEdgeKeeps ==
    ASSUME TypeOK, cur # Idle, NextEdge, cur' # Idle
    PROVE  cur'.block = cur.block /\ cur'.from = cur.from
  <1>1. cur \in [edge : Nat \ {0}, block : Blocks(prog), from : State]
    BY DEF TypeOK
  <1>2. cur' = [cur EXCEPT !.edge = cur.edge + 1]
    BY DEF NextEdge
  <1>. QED  BY <1>1, <1>2

\* verify_core starts with the invariant.
LEMMA IInvInit == ASSUME Init PROVE IInv
  <1>1. prog \in Programs /\ IsProgram(prog) /\ EntryState(prog) \in State
        /\ NoState \notin State
    BY ProgramAssumption, TransferAssumption DEF Init
  <1>2. TypeOK
    <2>2. queue \in Seq(Blocks(prog)) /\ queued \subseteq Blocks(prog)
      BY <1>1 DEF Init, IsProgram, RpoSet
    <2>. QED  BY <1>1, <2>2 DEF Init, TypeOK, Unprocessed
  <1>3. FlagsMatchQueue
    BY <1>1 DEF Init, IsProgram, RpoSet, FlagsMatchQueue
  <1>4. states[prog.entry] = EntryState(prog) /\ Reached = {prog.entry}
        /\ prog.entry \in RpoSet(prog)
    BY <1>1 DEF Init, IsProgram, Reached
  <1>5. Generations /\ Cursor /\ Drained
    BY <1>1 DEF Init, Generations, Cursor, Drained, Unprocessed
  <1>6. ChangedIsQueued
    BY <1>4 DEF Init, ChangedIsQueued
  <1>7. SettledClosed
    BY <1>1, <1>4 DEF Init, SettledClosed, Unprocessed, IsProgram
  <1>8. EntryCovered
    BY <1>1, <1>4, DomainAssumption DEF EntryCovered
  <1>9. VisitedReached
    BY <1>4 DEF Init, VisitedReached
  <1>. QED  BY <1>2, <1>3, <1>5, <1>6, <1>7, <1>8, <1>9 DEF IInv

\* A block fails its checks: the loop stops with nothing else changed.
LEMMA IInvReject == ASSUME IInv, TypeOK', RejectBlock PROVE IInv'
  <1> USE DEF IInv
  <1>1. PICK b \in queued : /\ Take(b) /\ verdict' = "rejected"
                            /\ UNCHANGED <<prog, states, statesGen, iterations,
                                           snapshots, cur, visited>>
    BY DEF RejectBlock
  <1>2. /\ b = Head(queue) /\ queued' = queued \ {b} /\ cur = Idle
        /\ processedGen' = [processedGen EXCEPT ![b] = statesGen[b]]
    BY <1>1 DEF Take, Pop
  <1>3. FlagsMatchQueue'
    BY <1>1, PopKeepsFlags DEF Take
  <1>4. Generations'
    BY <1>1, <1>2 DEF Generations, TypeOK
  <1>5. Cursor'
    BY <1>1, <1>2 DEF Cursor
  <1>6. ChangedIsQueued'
    BY <1>1, <1>2 DEF ChangedIsQueued, Reached, TypeOK
  <1>7. SettledClosed' /\ Drained'
    BY <1>1 DEF SettledClosed, Drained
  <1>8. EntryCovered'
    BY <1>1 DEF EntryCovered
  <1>9. VisitedReached'
    BY <1>1 DEF VisitedReached, Reached
  <1>. QED  BY <1>3, <1>4, <1>5, <1>6, <1>7, <1>8, <1>9

\* A block passes its checks: its generations agree from here on, and every
\* edge of it waits for its merge.
LEMMA IInvProcess == ASSUME IInv, TypeOK', ProcessBlock PROVE IInv'
  <1> USE DEF IInv
  <1>1. PICK b \in queued :
           /\ Take(b)
           /\ IF Skipped(b) THEN UNCHANGED <<cur, visited>>
              ELSE /\ Checks(prog, b, states[b])
                   /\ visited' = visited \cup {b}
                   /\ cur' = IF Succ(prog, b) = <<>> THEN Idle
                             ELSE [edge |-> 1, block |-> b, from |-> states[b]]
           /\ UNCHANGED <<prog, states, statesGen, iterations, snapshots, verdict>>
    BY DEF ProcessBlock
  <1>2. /\ b = Head(queue) /\ queued' = queued \ {b} /\ cur = Idle
        /\ processedGen' = [processedGen EXCEPT ![b] = statesGen[b]]
        /\ verdict = "running" /\ b \in Blocks(prog)
    BY <1>1 DEF Take, Pop, TypeOK
  <1>3. FlagsMatchQueue'
    BY <1>1, PopKeepsFlags DEF Take
  <1>4. Generations'
    BY <1>1, <1>2 DEF Generations, TypeOK
  <1>5. Cursor'
    <2>1. CASE Skipped(b)
      BY <1>1, <1>2, <2>1 DEF Cursor
    <2>2. CASE ~Skipped(b)
      <3>1. cur' = Idle \/ (cur'.block = b /\ cur'.from = states[b])
        BY <1>1, <2>2
      <3>. QED  BY <1>1, <1>2, <2>2, <3>1 DEF Cursor, Skipped
    <2>. QED  BY <2>1, <2>2
  <1>6. ChangedIsQueued'
    BY <1>1, <1>2 DEF ChangedIsQueued, Reached, TypeOK
  <1>7. SettledClosed'
    <2> SUFFICES ASSUME NEW x \in Reached, processedGen'[x] = statesGen[x]
                 PROVE  /\ Checks(prog, x, states[x])
                        /\ x \in visited'
                        /\ \A i \in 1..Len(Succ(prog, x)) : ~Waiting(x, i)' =>
                              /\ states[Succ(prog, x)[i].to] # NoState
                              /\ Leq(Out(prog, x, i, states[x]),
                                     states[Succ(prog, x)[i].to])
      BY <1>1 DEF SettledClosed, Reached
    <2>1. CASE x # b \/ Skipped(b)
      <3>1. processedGen[x] = statesGen[x]
        BY <1>2, <2>1 DEF Skipped, Reached, TypeOK
      <3>2. \A i : ~Waiting(x, i)
        BY <1>2 DEF Waiting
      <3>3. visited \subseteq visited'
        BY <1>1
      <3>. QED  BY <1>2, <3>1, <3>2, <3>3 DEF SettledClosed
    <2>2. CASE x = b /\ ~Skipped(b)
      <3>1. ASSUME NEW i \in 1..Len(Succ(prog, b)) PROVE Waiting(b, i)'
        <4>1. Succ(prog, b) # <<>>
          BY <1>2, EdgesTyped DEF TypeOK
        <4>2. cur' = [edge |-> 1, block |-> b, from |-> states[b]]
          BY <1>1, <2>2, <4>1
        <4>3. cur' # Idle /\ cur'.block = b /\ cur'.edge = 1 /\ 1 <= i
          BY <4>2, <1>2, EdgesTyped DEF Idle, TypeOK
        <4>. QED  BY <4>3 DEF Waiting
      <3>. QED  BY <1>1, <2>2, <3>1
    <2>. QED  BY <2>1, <2>2
  <1>8. EntryCovered'
    BY <1>1 DEF EntryCovered
  <1>9. VisitedReached'
    BY <1>1, <1>2 DEF VisitedReached, Reached, Skipped
  <1>10. Drained'
    BY <1>1, <1>2 DEF Drained
  <1>. QED  BY <1>3, <1>4, <1>5, <1>6, <1>7, <1>8, <1>9, <1>10

\* A successor of a reached block is one of the blocks the order lists.
LEMMA TargetInRpo ==
    ASSUME IInv, cur # Idle PROVE Target \in RpoSet(prog)
  <1>1. cur.block \in RpoSet(prog) /\ prog \in Programs
    BY MergeTyped DEF IInv, Cursor, VisitedReached, Reached, TypeOK
  <1>2. cur.edge \in 1..Len(Succ(prog, cur.block))
    BY MergeTyped DEF IInv
  <1>. QED  BY <1>1, <1>2, ProgramAssumption DEF IsProgram, Target

\* The edge being merged carries what its settled block passes on.
LEMMA IncomingCurrent ==
    ASSUME IInv, cur # Idle, processedGen[cur.block] = statesGen[cur.block]
    PROVE  Incoming = Out(prog, cur.block, cur.edge, states[cur.block])
  BY DEF IInv, Cursor, Incoming

\* First arrival at a block: no settled edge led to it, since its target had
\* no state; the merged edge is covered by reflexivity.
LEMMA IInvMergeFirst == ASSUME IInv, TypeOK', MergeFirst PROVE IInv'
  <1> USE DEF IInv
  <1> DEFINE t == Target
  <1>1. /\ cur # Idle /\ states[t] = NoState /\ NextEdge /\ Push(t)
        /\ states' = [states EXCEPT ![t] = Incoming]
        /\ statesGen' = [statesGen EXCEPT ![t] = statesGen[t] + 1]
        /\ UNCHANGED <<prog, processedGen, iterations, visited, verdict>>
    BY DEF MergeFirst
  <1>2. t \in Blocks(prog) /\ Incoming \in State /\ t \in RpoSet(prog)
        /\ Incoming # NoState
    BY <1>1, MergeTyped, TargetInRpo, ProgramAssumption
  <1> HIDE DEF t
  <1>3. /\ statesGen[t] = 0 /\ processedGen[t] <= 0 /\ statesGen'[t] = 1
        /\ states'[t] = Incoming
        /\ \A x \in Blocks(prog) \ {t} : /\ states'[x] = states[x]
                                         /\ statesGen'[x] = statesGen[x]
    BY <1>1, <1>2 DEF Generations, TypeOK
  <1>4. Reached' = Reached \cup {t} /\ queued' = queued \cup {t}
    BY <1>1, <1>2, <1>3 DEF Reached, Push
  <1>5. processedGen'[t] # statesGen'[t]
    BY <1>1, <1>2, <1>3 DEF TypeOK, Unprocessed
  <1>6. FlagsMatchQueue'
    BY <1>1, <1>2, PushKeepsFlags
  <1>7. Generations'
    <2> SUFFICES ASSUME NEW x \in Blocks(prog)
                 PROVE  /\ processedGen[x] <= statesGen'[x]
                        /\ states'[x] = NoState <=> statesGen'[x] = 0
      BY <1>1 DEF Generations
    <2>0. processedGen[t] \in Int
      BY <1>2 DEF TypeOK, Unprocessed
    <2>1. CASE x = t
      <3>1. processedGen[t] <= statesGen'[t] /\ statesGen'[t] # 0
        BY <1>3, <2>0
      <3>2. states'[t] # NoState
        BY <1>2, <1>3
      <3>. QED  BY <2>1, <3>1, <3>2
    <2>2. CASE x # t
      BY <1>3, <2>2 DEF Generations
    <2>. QED  BY <2>1, <2>2
  <1>8. Cursor'
    <2> SUFFICES ASSUME cur' # Idle
                 PROVE  /\ verdict' = "running"
                        /\ states'[cur'.block] # NoState
                        /\ processedGen'[cur'.block] = statesGen'[cur'.block] =>
                              cur'.from = states'[cur'.block]
      BY DEF Cursor
    <2>1. cur'.block = cur.block /\ cur'.from = cur.from
      BY <1>1, NextEdgeKeeps
    <2>2. cur.block \in Blocks(prog) \ {t}
      BY <1>1, MergeTyped DEF Cursor
    <2>. QED  BY <1>1, <1>3, <2>1, <2>2 DEF Cursor
  <1>9. ChangedIsQueued'
    BY <1>1, <1>3, <1>4 DEF ChangedIsQueued, Reached
  <1>10. SettledClosed'
    <2> SUFFICES ASSUME verdict # "rejected",
                        NEW x \in Reached', processedGen'[x] = statesGen'[x]
                 PROVE  /\ Checks(prog, x, states'[x])
                        /\ x \in visited
                        /\ \A i \in 1..Len(Succ(prog, x)) : ~Waiting(x, i)' =>
                              /\ states'[Succ(prog, x)[i].to] # NoState
                              /\ Leq(Out(prog, x, i, states'[x]),
                                     states'[Succ(prog, x)[i].to])
      BY <1>1 DEF SettledClosed
    <2>1. x \in Reached /\ x # t /\ x \in Blocks(prog) /\ processedGen[x] = statesGen[x]
          /\ states'[x] = states[x]
      BY <1>1, <1>3, <1>4, <1>5 DEF Reached
    <2>2. ASSUME NEW i \in 1..Len(Succ(prog, x)), ~Waiting(x, i)'
          PROVE  /\ states'[Succ(prog, x)[i].to] # NoState
                 /\ Leq(Out(prog, x, i, states[x]), states'[Succ(prog, x)[i].to])
      <3>0. Len(Succ(prog, x)) \in Nat /\ Succ(prog, x)[i].to \in Blocks(prog)
        BY <2>1, EdgesTyped DEF TypeOK
      <3>1. ~Waiting(x, i) \/ (x = cur.block /\ i = cur.edge)
        BY <1>1, <2>2, <3>0, WaitingStep
      <3>2. CASE ~Waiting(x, i)
        <4>1. /\ states[Succ(prog, x)[i].to] # NoState
              /\ Leq(Out(prog, x, i, states[x]), states[Succ(prog, x)[i].to])
          BY <2>1, <3>2 DEF SettledClosed
        <4>2. Succ(prog, x)[i].to # t
          BY <1>1, <4>1
        <4>. QED  BY <1>3, <3>0, <4>1, <4>2
      <3>3. CASE x = cur.block /\ i = cur.edge
        <4>1. Succ(prog, x)[i].to = t
          BY <3>3 DEF t, Target
        <4>2. Incoming = Out(prog, x, i, states[x])
          BY <1>1, <2>1, <3>3, IncomingCurrent
        <4>. QED  BY <1>2, <1>3, <4>1, <4>2, DomainAssumption
      <3>. QED  BY <3>1, <3>2, <3>3
    <2>. QED  BY <2>1, <2>2 DEF SettledClosed
  <1>11. EntryCovered'
    <2>1. prog.entry \in Blocks(prog)
      BY ProgramAssumption DEF IsProgram, TypeOK
    <2>. QED  BY <1>1, <1>3, <2>1 DEF EntryCovered
  <1>12. VisitedReached'
    BY <1>1, <1>2, <1>4 DEF VisitedReached
  <1>13. Drained'
    BY <1>1 DEF Drained, Cursor
  <1>. QED  BY <1>6, <1>7, <1>8, <1>9, <1>10, <1>11, <1>12, <1>13

\* A merge that changes nothing: what came in is already covered.
LEMMA IInvMergeUnchanged == ASSUME IInv, TypeOK', MergeUnchanged PROVE IInv'
  <1> USE DEF IInv
  <1>1. /\ cur # Idle /\ states[Target] # NoState /\ NextEdge
        /\ Merged(Target, Incoming) = states[Target]
        /\ UNCHANGED <<prog, states, statesGen, processedGen, snapshots, queue,
                       queued, visited, verdict>>
    BY DEF MergeUnchanged
  <1>2. Target \in Blocks(prog) /\ Incoming \in State
    BY <1>1, MergeTyped
  <1>3. Leq(Incoming, states[Target])
    BY <1>1, <1>2, MergedUpper
  <1>4. Reached' = Reached
    BY <1>1 DEF Reached
  <1>5. Cursor'
    <2>1. cur' # Idle => cur'.block = cur.block /\ cur'.from = cur.from
      BY <1>1, NextEdgeKeeps
    <2>. QED  BY <1>1, <2>1 DEF Cursor
  <1>6. SettledClosed'
    <2> SUFFICES ASSUME verdict # "rejected",
                        NEW x \in Reached, processedGen[x] = statesGen[x]
                 PROVE  /\ Checks(prog, x, states[x])
                        /\ x \in visited
                        /\ \A i \in 1..Len(Succ(prog, x)) : ~Waiting(x, i)' =>
                              /\ states[Succ(prog, x)[i].to] # NoState
                              /\ Leq(Out(prog, x, i, states[x]),
                                     states[Succ(prog, x)[i].to])
      BY <1>1, <1>4 DEF SettledClosed
    <2>2. ASSUME NEW i \in 1..Len(Succ(prog, x)), ~Waiting(x, i)'
          PROVE  /\ states[Succ(prog, x)[i].to] # NoState
                 /\ Leq(Out(prog, x, i, states[x]), states[Succ(prog, x)[i].to])
      <3>0. Len(Succ(prog, x)) \in Nat
        BY EdgesTyped DEF TypeOK, Reached
      <3>1. ~Waiting(x, i) \/ (x = cur.block /\ i = cur.edge)
        BY <1>1, <2>2, <3>0, WaitingStep
      <3>2. CASE ~Waiting(x, i)
        BY <3>2 DEF SettledClosed
      <3>3. CASE x = cur.block /\ i = cur.edge
        <4>1. Succ(prog, x)[i].to = Target
          BY <3>3 DEF Target
        <4>2. Incoming = Out(prog, x, i, states[x])
          BY <1>1, <3>3, IncomingCurrent
        <4>. QED  BY <1>1, <1>3, <4>1, <4>2
      <3>. QED  BY <3>1, <3>2, <3>3
    <2>. QED  BY <2>2 DEF SettledClosed
  <1>7. /\ FlagsMatchQueue' /\ Generations' /\ ChangedIsQueued' /\ EntryCovered'
        /\ VisitedReached'
    BY <1>1, <1>4 DEF FlagsMatchQueue, Generations, ChangedIsQueued, EntryCovered,
                      VisitedReached
  <1>8. Drained'
    BY <1>1 DEF Drained, Cursor
  <1>. QED  BY <1>5, <1>6, <1>7, <1>8

\* A merge that changes the target's state: the target is unsettled until it
\* is processed again, and every edge into it stays covered by transitivity.
LEMMA IInvMergeChanged == ASSUME IInv, TypeOK', MergeChanged PROVE IInv'
  <1> USE DEF IInv
  <1> DEFINE t == Target
             m == Merged(Target, Incoming)
  <1>1. /\ cur # Idle /\ states[t] # NoState /\ NextEdge /\ Push(t)
        /\ states' = [states EXCEPT ![t] = m]
        /\ statesGen' = [statesGen EXCEPT ![t] = statesGen[t] + 1]
        /\ UNCHANGED <<prog, processedGen, snapshots, visited, verdict>>
    BY DEF MergeChanged
  <1>2. t \in Blocks(prog) /\ Incoming \in State /\ states[t] \in State
        /\ m \in State /\ m # NoState /\ Leq(states[t], m) /\ Leq(Incoming, m)
    BY <1>1, MergeTyped, MergedUpper, ProgramAssumption
  <1>a. \A s \in State : Leq(s, states[t]) => Leq(s, m)
    BY <1>2, DomainAssumption
  <1>b. t = Target
    OBVIOUS
  <1> HIDE DEF t, m
  <1>3. /\ statesGen'[t] = statesGen[t] + 1 /\ states'[t] = m
        /\ \A x \in Blocks(prog) \ {t} : /\ states'[x] = states[x]
                                         /\ statesGen'[x] = statesGen[x]
    BY <1>1, <1>2 DEF TypeOK
  <1>4. Reached' = Reached /\ queued' = queued \cup {t}
    BY <1>1, <1>2, <1>3 DEF Reached, Push
  <1>5. /\ processedGen[t] <= statesGen'[t] /\ processedGen[t] # statesGen'[t]
        /\ statesGen'[t] # 0
    <2>1. processedGen[t] \in Int /\ statesGen[t] \in Nat /\ processedGen[t] <= statesGen[t]
      BY <1>2 DEF TypeOK, Unprocessed, Generations
    <2>. QED  BY <1>3, <2>1
  <1>6. FlagsMatchQueue'
    BY <1>1, <1>2, PushKeepsFlags
  <1>7. Generations'
    <2> SUFFICES ASSUME NEW x \in Blocks(prog)
                 PROVE  /\ processedGen[x] <= statesGen'[x]
                        /\ states'[x] = NoState <=> statesGen'[x] = 0
      BY <1>1 DEF Generations
    <2>1. CASE x = t
      BY <1>2, <1>3, <1>5, <2>1
    <2>2. CASE x # t
      BY <1>3, <2>2 DEF Generations
    <2>. QED  BY <2>1, <2>2
  <1>8. Cursor'
    <2> SUFFICES ASSUME cur' # Idle
                 PROVE  /\ verdict' = "running"
                        /\ states'[cur'.block] # NoState
                        /\ processedGen'[cur'.block] = statesGen'[cur'.block] =>
                              cur'.from = states'[cur'.block]
      BY DEF Cursor
    <2>1. cur'.block = cur.block /\ cur'.from = cur.from
      BY <1>1, NextEdgeKeeps
    <2>2. cur.block \in Blocks(prog)
      BY <1>1, MergeTyped
    <2>3. CASE cur.block = t
      BY <1>1, <1>2, <1>3, <1>5, <2>1, <2>3 DEF Cursor
    <2>4. CASE cur.block # t
      BY <1>1, <1>3, <2>1, <2>2, <2>4 DEF Cursor
    <2>. QED  BY <2>3, <2>4
  <1>9. ChangedIsQueued'
    BY <1>1, <1>3, <1>4 DEF ChangedIsQueued, Reached
  <1>10. SettledClosed'
    <2> SUFFICES ASSUME verdict # "rejected",
                        NEW x \in Reached, processedGen[x] = statesGen'[x]
                 PROVE  /\ Checks(prog, x, states'[x])
                        /\ x \in visited
                        /\ \A i \in 1..Len(Succ(prog, x)) : ~Waiting(x, i)' =>
                              /\ states'[Succ(prog, x)[i].to] # NoState
                              /\ Leq(Out(prog, x, i, states'[x]),
                                     states'[Succ(prog, x)[i].to])
      BY <1>1, <1>4 DEF SettledClosed
    <2>1. x # t /\ x \in Blocks(prog) /\ processedGen[x] = statesGen[x]
          /\ states'[x] = states[x] /\ states[x] \in State
      BY <1>3, <1>5 DEF Reached, TypeOK
    <2>c. Checks(prog, x, states[x]) /\ x \in visited
      BY <2>1 DEF SettledClosed
    <2>2. ASSUME NEW i \in 1..Len(Succ(prog, x)), ~Waiting(x, i)'
          PROVE  /\ states'[Succ(prog, x)[i].to] # NoState
                 /\ Leq(Out(prog, x, i, states[x]), states'[Succ(prog, x)[i].to])
      <3>0. Len(Succ(prog, x)) \in Nat /\ Succ(prog, x)[i].to \in Blocks(prog)
        BY <2>1, EdgesTyped DEF TypeOK
      <3>1. ~Waiting(x, i) \/ (x = cur.block /\ i = cur.edge)
        BY <1>1, <2>2, <3>0, WaitingStep
      <3>2. CASE ~Waiting(x, i)
        <4>1. /\ states[Succ(prog, x)[i].to] # NoState
              /\ Leq(Out(prog, x, i, states[x]), states[Succ(prog, x)[i].to])
          BY <2>1, <3>2 DEF SettledClosed
        <4>2. Out(prog, x, i, states[x]) \in State
          BY <2>1, <2>c, TransferAssumption DEF TypeOK
        <4>3. CASE Succ(prog, x)[i].to = t
          BY <1>2, <1>3, <1>a, <4>1, <4>2, <4>3
        <4>4. CASE Succ(prog, x)[i].to # t
          BY <1>3, <3>0, <4>1, <4>4
        <4>. QED  BY <4>3, <4>4
      <3>3. CASE x = cur.block /\ i = cur.edge
        <4>1. Succ(prog, x)[i].to = t
          BY <1>b, <3>3 DEF Target
        <4>2. Incoming = Out(prog, x, i, states[x])
          BY <1>1, <2>1, <3>3, IncomingCurrent
        <4>. QED  BY <1>2, <1>3, <4>1, <4>2
      <3>. QED  BY <3>1, <3>2, <3>3
    <2>. QED  BY <2>1, <2>c, <2>2
  <1>11. EntryCovered'
    <2>1. prog.entry \in Blocks(prog) /\ EntryState(prog) \in State
      BY ProgramAssumption, TransferAssumption DEF IsProgram, TypeOK
    <2>2. CASE prog.entry = t
      BY <1>1, <1>2, <1>3, <1>a, <2>1, <2>2 DEF EntryCovered
    <2>3. CASE prog.entry # t
      BY <1>1, <1>3, <2>1, <2>3 DEF EntryCovered
    <2>. QED  BY <2>2, <2>3
  <1>12. VisitedReached'
    BY <1>1, <1>4 DEF VisitedReached
  <1>13. Drained'
    BY <1>1 DEF Drained, Cursor
  <1>. QED  BY <1>6, <1>7, <1>8, <1>9, <1>10, <1>11, <1>12, <1>13

LEMMA IInvDecide == ASSUME IInv, TypeOK', Decide PROVE IInv'
  <1>1. /\ cur = Idle /\ queue = <<>> /\ verdict' # "rejected"
        /\ verdict = "running"
        /\ UNCHANGED <<prog, states, statesGen, processedGen, iterations,
                       snapshots, queue, queued, cur, visited>>
    BY DEF Decide
  <1>2. FlagsMatchQueue' /\ Generations' /\ EntryCovered'
    BY <1>1 DEF IInv, FlagsMatchQueue, Generations, EntryCovered
  <1>3. VisitedReached' /\ ChangedIsQueued' /\ Cursor' /\ Drained'
    BY <1>1 DEF IInv, VisitedReached, Reached, ChangedIsQueued, Cursor, Drained
  <1>4. SettledClosed'
    BY <1>1 DEF IInv, SettledClosed, Reached, Waiting
  <1>. QED  BY <1>2, <1>3, <1>4 DEF IInv

LEMMA IInvStutter == ASSUME IInv, UNCHANGED vars PROVE IInv'
  BY DEF vars, IInv, TypeOK, FlagsMatchQueue, Generations, Cursor, ChangedIsQueued,
         SettledClosed, EntryCovered, VisitedReached, Drained, Reached, Waiting

\* The invariant that the worklist's bookkeeping keeps.
THEOREM InvariantHolds == Spec => []IInv
  <1>1. Init => IInv
    BY IInvInit
  <1>2. IInv /\ [Next]_vars => IInv'
    <2> SUFFICES ASSUME IInv, [Next]_vars PROVE IInv'
      OBVIOUS
    <2>1. TypeOK'
      BY TypeStep DEF IInv
    <2>. QED  BY <2>1, IInvReject, IInvProcess, IInvMergeFirst, IInvMergeUnchanged,
                 IInvMergeChanged, IInvDecide, IInvStutter DEF Next
  <1>. QED  BY <1>1, <1>2, PTL DEF Spec

\* BlockWorklist's flags and its queue agree in every reachable state.
THEOREM FlagsCorrect == Spec => []FlagsMatchQueue
  <1>1. IInv => FlagsMatchQueue
    BY DEF IInv
  <1>. QED  BY <1>1, InvariantHolds, PTL

\* verify_core never loses a change of a block's entry state.
THEOREM NoLostChange == Spec => []ChangedIsQueued
  <1>1. IInv => ChangedIsQueued
    BY DEF IInv
  <1>. QED  BY <1>1, InvariantHolds, PTL

\* With the queue drained, every block of the order has a state: the reached
\* blocks contain the entry and are closed under edges.
LEMMA AllReached ==
    ASSUME IInv, verdict = "accepted"
    PROVE  /\ RpoSet(prog) \subseteq Reached
           /\ \A b \in Reached : processedGen[b] = statesGen[b]
           /\ \A b \in Reached : \A i \in 1..Len(Succ(prog, b)) : ~Waiting(b, i)
  <1>1. queue = <<>> /\ cur = Idle /\ queued = {}
    BY DEF IInv, Drained, FlagsMatchQueue
  <1>2. \A b \in Reached : processedGen[b] = statesGen[b]
    BY <1>1 DEF IInv, ChangedIsQueued
  <1>3. \A b, i : ~Waiting(b, i)
    BY <1>1 DEF Waiting
  <1>4. IsProgram(prog) /\ prog \in Programs
    BY ProgramAssumption DEF IInv, TypeOK
  <1>5. Reached \in SUBSET Blocks(prog) /\ prog.entry \in Reached
    BY <1>4 DEF IInv, EntryCovered, Reached, IsProgram
  <1>6. ASSUME NEW b \in Reached, NEW i \in 1..Len(Succ(prog, b))
        PROVE  Succ(prog, b)[i].to \in Reached
    <2>1. Succ(prog, b)[i].to \in Blocks(prog)
      BY <1>4, <1>5, EdgesTyped
    <2>2. states[Succ(prog, b)[i].to] # NoState
      BY <1>2, <1>3 DEF IInv, SettledClosed
    <2>. QED  BY <2>1, <2>2 DEF Reached
  <1>7. RpoSet(prog) \subseteq Reached
    BY <1>4, <1>5, <1>6 DEF IsProgram
  <1>. QED  BY <1>2, <1>3, <1>7

\* verify_core accepts only at a post-fixed point of its transfer functions.
THEOREM AcceptsAtPostFixpoint == Spec => []PostFixpoint
  <1>1. IInv => PostFixpoint
    <2> SUFFICES ASSUME IInv, verdict = "accepted"
                 PROVE  /\ Leq(EntryState(prog), states[prog.entry])
                        /\ \A b \in RpoSet(prog) :
                              /\ states[b] # NoState
                              /\ Checks(prog, b, states[b])
                              /\ \A i \in 1..Len(Succ(prog, b)) :
                                    Leq(Out(prog, b, i, states[b]),
                                        states[Succ(prog, b)[i].to])
      BY DEF PostFixpoint
    <2>1. Leq(EntryState(prog), states[prog.entry])
      BY DEF IInv, EntryCovered
    <2>2. ASSUME NEW b \in RpoSet(prog) PROVE b \in Reached
      BY AllReached
    <2>3. \A b \in Reached : states[b] # NoState
      BY DEF Reached
    <2>. QED  BY <2>1, <2>2, <2>3, AllReached DEF IInv, SettledClosed
  <1>. QED  BY <1>1, InvariantHolds, PTL

\* total_pc of an accepted program counts the reachable blocks, each of them.
THEOREM CountsReachable == Spec => []AcceptedCountsReachable
  <1>1. IInv => AcceptedCountsReachable
    <2> SUFFICES ASSUME IInv, verdict = "accepted" PROVE visited = RpoSet(prog)
      BY DEF AcceptedCountsReachable
    <2>1. visited \subseteq RpoSet(prog)
      BY DEF IInv, VisitedReached
    <2>2. Reached \subseteq visited
      BY AllReached DEF IInv, SettledClosed
    <2>. QED  BY <2>1, <2>2, AllReached
  <1>. QED  BY <1>1, InvariantHolds, PTL

\* BlockWorklist holds no block in vain: a block enters the queue only with a
\* new generation, and leaves it before that generation is processed.
THEOREM NothingQueuedInVain == Spec => []QueuedIsChanged
  <1>1. Init => QueuedIsChanged
    <2> SUFFICES ASSUME Init PROVE QueuedIsChanged
      OBVIOUS
    <2>1. TypeOK
      BY IInvInit DEF IInv
    <2>. QED  BY <2>1 DEF Init, QueuedIsChanged, Unprocessed, TypeOK
  <1>2. IInv /\ QueuedIsChanged /\ [Next]_vars => QueuedIsChanged'
    <2> SUFFICES ASSUME IInv, QueuedIsChanged, [Next]_vars PROVE QueuedIsChanged'
      OBVIOUS
    <2>1. ASSUME NEW b \in queued, Take(b), statesGen' = statesGen
          PROVE  QueuedIsChanged'
      <3>1. queued' = queued \ {b} /\ processedGen' = [processedGen EXCEPT ![b] = statesGen[b]]
        BY <2>1 DEF Take, Pop
      <3>. QED  BY <2>1, <3>1 DEF QueuedIsChanged, IInv, TypeOK
    <2>2. ASSUME cur # Idle, Push(Target), processedGen' = processedGen,
                 statesGen' = [statesGen EXCEPT ![Target] = @ + 1]
          PROVE  QueuedIsChanged'
      <3>1. Target \in Blocks(prog)
        BY <2>2, MergeTyped DEF IInv
      <3>2. processedGen[Target] \in Int /\ statesGen[Target] \in Nat
            /\ processedGen[Target] <= statesGen[Target]
        BY <3>1 DEF IInv, TypeOK, Generations, Unprocessed
      <3>3. statesGen'[Target] = statesGen[Target] + 1
        BY <2>2, <3>1 DEF IInv, TypeOK
      <3>4. processedGen'[Target] # statesGen'[Target]
        BY <2>2, <3>2, <3>3
      <3>5. \A x \in Blocks(prog) \ {Target} : statesGen'[x] = statesGen[x]
        BY <2>2 DEF IInv, TypeOK
      <3>6. queued' = queued \cup {Target} /\ queued \subseteq Blocks(prog)
        BY <2>2 DEF Push, IInv, TypeOK
      <3>. QED  BY <2>2, <3>4, <3>5, <3>6 DEF QueuedIsChanged
    <2>3. CASE RejectBlock
      BY <2>1, <2>3 DEF RejectBlock
    <2>4. CASE ProcessBlock
      BY <2>1, <2>4 DEF ProcessBlock
    <2>5. CASE MergeFirst
      BY <2>2, <2>5 DEF MergeFirst
    <2>6. CASE MergeChanged
      BY <2>2, <2>6 DEF MergeChanged
    <2>7. CASE MergeUnchanged \/ Decide \/ UNCHANGED vars
      BY <2>7 DEF MergeUnchanged, Decide, vars, QueuedIsChanged
    <2>. QED  BY <2>3, <2>4, <2>5, <2>6, <2>7 DEF Next
  <1>. QED  BY <1>1, <1>2, InvariantHolds, PTL DEF Spec

\* A block is reached only after every block that dominates it: the block it
\* is first reached from is dominated by them too.
THEOREM DominatorsReachedFirst == Spec => []DominatorsFirst
  <1>1. Init => DominatorsFirst
    <2> SUFFICES ASSUME Init, NEW b \in Reached, NEW h \in Blocks(prog), Dominates(h, b)
                 PROVE  h \in Reached
      BY DEF DominatorsFirst
    <2>1. prog.entry \in Reached
      BY IInvInit, ProgramAssumption DEF IInv, TypeOK, EntryCovered, Reached, IsProgram
    <2>2. b = prog.entry
      BY DEF Init, Reached
    <2>3. ReachedAvoiding(h, prog.entry)
      BY DEF ReachedAvoiding
    <2>. QED  BY <2>1, <2>2, <2>3 DEF Dominates
  <1>2. IInv /\ DominatorsFirst /\ [Next]_vars => DominatorsFirst'
    <2> SUFFICES ASSUME IInv, DominatorsFirst, [Next]_vars PROVE DominatorsFirst'
      OBVIOUS
    <2>1. prog' = prog
      BY DEF Next, RejectBlock, ProcessBlock, MergeFirst, MergeUnchanged,
             MergeChanged, Decide, vars
    <2>2. \A h, b : Dominates(h, b)' <=> Dominates(h, b)
      BY <2>1 DEF Dominates, ReachedAvoiding
    <2>3. ASSUME Reached' \subseteq Reached, Reached \subseteq Reached'
          PROVE  DominatorsFirst'
      BY <2>1, <2>2, <2>3 DEF DominatorsFirst
    <2>4. CASE RejectBlock \/ ProcessBlock \/ MergeUnchanged \/ Decide \/ UNCHANGED vars
      <3>1. states' = states
        BY <2>4 DEF RejectBlock, ProcessBlock, MergeUnchanged, Decide, vars
      <3>. QED  BY <2>1, <2>3, <3>1 DEF Reached
    <2>5. CASE MergeChanged
      <3>1. Target \in Blocks(prog) /\ Merged(Target, Incoming) # NoState
        BY <2>5, MergeTyped, MergedUpper, ProgramAssumption DEF MergeChanged, IInv
      <3>. QED  BY <2>1, <2>3, <2>5, <3>1 DEF MergeChanged, Reached, IInv, TypeOK
    <2>6. CASE MergeFirst
      <3>1. cur # Idle /\ states' = [states EXCEPT ![Target] = Incoming]
        BY <2>6 DEF MergeFirst
      <3>2. /\ Target \in Blocks(prog) /\ Incoming # NoState
            /\ cur.edge \in 1..Len(Succ(prog, cur.block)) /\ cur.block \in Reached
        BY <3>1, MergeTyped, ProgramAssumption DEF IInv, Cursor, Reached
      <3>3. Reached' = Reached \cup {Target}
        BY <2>1, <3>1, <3>2 DEF Reached, IInv, TypeOK
      <3>4. prog.entry \in Reached
        BY ProgramAssumption DEF IInv, TypeOK, EntryCovered, Reached, IsProgram
      <3>5. ASSUME NEW h \in Blocks(prog), Dominates(h, Target), h # Target,
                   h # prog.entry
            PROVE  h \in Reached
        <4>1. PICK S \in SUBSET Blocks(prog) :
                 /\ prog.entry \in S /\ Target \notin S
                 /\ \A x \in S : \A i \in 1..Len(Succ(prog, x)) :
                       Succ(prog, x)[i].to # h => Succ(prog, x)[i].to \in S
          BY <3>5 DEF Dominates, ReachedAvoiding
        <4>2. cur.block \notin S
          BY <3>2, <3>5, <4>1 DEF Target
        <4>3. ~ ReachedAvoiding(h, cur.block)
          BY <4>1, <4>2 DEF ReachedAvoiding
        <4>. QED  BY <3>2, <4>3 DEF Dominates, DominatorsFirst
      <3>. QED  BY <2>1, <2>2, <3>3, <3>4, <3>5 DEF DominatorsFirst
    <2>. QED  BY <2>4, <2>5, <2>6 DEF Next
  <1>. QED  BY <1>1, <1>2, InvariantHolds, PTL DEF Spec

\* Stored states only grow and snapshots are written once.
THEOREM StatesAscend == Spec => Ascending
  <1>1. IInv /\ [Next]_vars => [GrowsStep]_vars
    <2> SUFFICES ASSUME IInv, [Next]_vars, NEW b \in Reached
                 PROVE  /\ states'[b] # NoState
                        /\ Leq(states[b], states'[b])
                        /\ snapshots'[b] = snapshots[b]
      BY DEF GrowsStep
    <2>1. b \in Blocks(prog) /\ states[b] # NoState /\ states[b] \in State
          /\ Leq(states[b], states[b])
      BY DomainAssumption DEF Reached, IInv, TypeOK
    <2>2. CASE RejectBlock \/ ProcessBlock \/ MergeUnchanged \/ Decide \/ UNCHANGED vars
      <3>1. states' = states /\ snapshots' = snapshots
        BY <2>2 DEF RejectBlock, ProcessBlock, MergeUnchanged, Decide, vars
      <3>. QED  BY <2>1, <3>1
    <2>3. CASE MergeFirst
      <3>1. b # Target
        BY <2>1, <2>3 DEF MergeFirst
      <3>. QED  BY <2>1, <2>3, <3>1 DEF MergeFirst, IInv, TypeOK
    <2>4. CASE MergeChanged
      <3>1. /\ Target \in Blocks(prog) /\ Merged(Target, Incoming) # NoState
            /\ Leq(states[Target], Merged(Target, Incoming))
        BY <2>4, MergeTyped, MergedUpper, ProgramAssumption DEF MergeChanged, IInv
      <3>2. /\ states' = [states EXCEPT ![Target] = Merged(Target, Incoming)]
            /\ snapshots' = snapshots
        BY <2>4 DEF MergeChanged
      <3>3. CASE b = Target
        BY <2>1, <3>1, <3>2, <3>3 DEF IInv, TypeOK
      <3>4. CASE b # Target
        BY <2>1, <3>2, <3>4 DEF IInv, TypeOK
      <3>. QED  BY <3>2, <3>3, <3>4
    <2>. QED  BY <2>2, <2>3, <2>4 DEF Next
  <1>. QED  BY <1>1, InvariantHolds, PTL DEF Spec, Ascending

-----------------------------------------------------------------------------
(***************************************************************************)
(* The loop ends.                                                          *)
(***************************************************************************)

\* One more merge into a block that has a state: from the threshold on, a
\* change costs rank.
LEMMA AscentMerge ==
    ASSUME IInv, Ascent, cur # Idle, states[Target] # NoState, prog' = prog,
           iterations' = [iterations EXCEPT ![Target] = @ + 1],
           \/ /\ states' = states /\ statesGen' = statesGen
           \/ /\ Merged(Target, Incoming) # states[Target]
              /\ states' = [states EXCEPT ![Target] = Merged(Target, Incoming)]
              /\ statesGen' = [statesGen EXCEPT ![Target] = @ + 1]
    PROVE  Ascent'
  <1>1. Target \in Blocks(prog) /\ Incoming \in State /\ states[Target] \in State
    BY MergeTyped, MergedUpper DEF IInv
  <1>2. Merged(Target, Incoming) \in State /\ Merged(Target, Incoming) # NoState
    BY <1>1, MergedUpper, ProgramAssumption DEF IInv
  <1>3. PICK t \in Blocks(prog) : t = Target
    BY <1>1
  <1>4. /\ iterations[t] \in Nat /\ statesGen[t] \in Nat /\ Threshold \in Nat /\ Height \in Nat
        /\ iterations'[t] = iterations[t] + 1
        /\ \A b \in Blocks(prog) \ {t} : iterations'[b] = iterations[b]
    BY <1>3, ProgramAssumption, WideningAssumption DEF IInv, TypeOK
  <1>5. Rank(states[t]) \in 0 .. Height /\ Rank(Merged(t, Incoming)) \in 0 .. Height
    BY <1>1, <1>2, <1>3, WideningAssumption
  <1>6. /\ iterations[t] <= Threshold => statesGen[t] <= 1 + iterations[t]
        /\ iterations[t] > Threshold => statesGen[t] + Rank(states[t]) <= 1 + Threshold + Height
    BY <1>3 DEF Ascent, MostChanges
  <1>7. CASE states' = states /\ statesGen' = statesGen
    <2>1. /\ iterations'[t] <= Threshold => statesGen'[t] <= 1 + iterations'[t]
          /\ iterations'[t] > Threshold => statesGen'[t] + Rank(states'[t]) <= 1 + Threshold + Height
      BY <1>4, <1>5, <1>6, <1>7
    <2>. QED  BY <1>3, <1>4, <1>7, <2>1 DEF Ascent, MostChanges
  <1>8. CASE /\ Merged(t, Incoming) # states[t]
             /\ states' = [states EXCEPT ![t] = Merged(t, Incoming)]
             /\ statesGen' = [statesGen EXCEPT ![t] = @ + 1]
    <2>1. states'[t] = Merged(t, Incoming) /\ statesGen'[t] = statesGen[t] + 1
      BY <1>8 DEF IInv, TypeOK
    <2>2. \A b \in Blocks(prog) \ {t} : states'[b] = states[b] /\ statesGen'[b] = statesGen[b]
      BY <1>8 DEF IInv, TypeOK
    <2>3. iterations[t] + 1 > Threshold => Rank(Merged(t, Incoming)) < Rank(states[t])
      BY <1>1, <1>3, <1>8, WideningAssumption DEF Merged
    <2>4. iterations'[t] <= Threshold => statesGen'[t] <= 1 + iterations'[t]
      BY <1>4, <1>6, <2>1
    <2>5. iterations'[t] > Threshold => statesGen'[t] + Rank(states'[t]) <= 1 + Threshold + Height
      BY <1>4, <1>5, <1>6, <2>1, <2>3
    <2>6. states'[t] # NoState
      BY <1>2, <1>3, <2>1
    <2>. QED  BY <1>4, <2>2, <2>4, <2>5, <2>6 DEF Ascent, MostChanges
  <1>. QED  BY <1>3, <1>7, <1>8

LEMMA AscentStep == ASSUME IInv, Ascent, [Next]_vars PROVE Ascent'
  <1>1. CASE RejectBlock \/ ProcessBlock \/ Decide \/ UNCHANGED vars
    <2>1. UNCHANGED <<prog, states, statesGen, iterations>>
      BY <1>1 DEF RejectBlock, ProcessBlock, Decide, vars
    <2>. QED  BY <2>1 DEF Ascent
  <1>2. CASE MergeFirst
    <2>1. /\ Target \in Blocks(prog) /\ Incoming # NoState
          /\ states[Target] = NoState /\ prog' = prog /\ iterations' = iterations
          /\ states' = [states EXCEPT ![Target] = Incoming]
          /\ statesGen' = [statesGen EXCEPT ![Target] = @ + 1]
      BY <1>2, MergeTyped, ProgramAssumption DEF MergeFirst, IInv
    <2>2. PICK t \in Blocks(prog) : t = Target
      BY <2>1
    <2>3. iterations[t] = 0 /\ statesGen[t] = 0 /\ Threshold \in Nat
      BY <2>1, <2>2, ProgramAssumption DEF Ascent, IInv, Generations
    <2>4. /\ states'[t] = Incoming /\ statesGen'[t] = 1
          /\ \A b \in Blocks(prog) \ {t} : states'[b] = states[b] /\ statesGen'[b] = statesGen[b]
      BY <2>1, <2>2, <2>3 DEF IInv, TypeOK
    <2>. QED  BY <2>1, <2>2, <2>3, <2>4 DEF Ascent
  <1>3. CASE MergeUnchanged
    BY <1>3, AscentMerge DEF MergeUnchanged
  <1>4. CASE MergeChanged
    BY <1>4, AscentMerge DEF MergeChanged
  <1>. QED  BY <1>1, <1>2, <1>3, <1>4 DEF Next

LEMMA AscentEnough == ASSUME TypeOK, Ascent PROVE AscentBounded
  <1> SUFFICES ASSUME NEW b \in Blocks(prog) PROVE statesGen[b] <= MostChanges
    BY DEF AscentBounded
  <1>1. /\ iterations[b] \in Nat /\ statesGen[b] \in Nat /\ Threshold \in Nat /\ Height \in Nat
        /\ states[b] \in State \cup {NoState}
    BY ProgramAssumption, WideningAssumption DEF TypeOK
  <1>2. CASE iterations[b] <= Threshold
    BY <1>1, <1>2 DEF Ascent, MostChanges
  <1>3. CASE iterations[b] > Threshold
    <2>1. states[b] \in State
      BY <1>1, <1>3 DEF Ascent
    <2>2. Rank(states[b]) \in 0 .. Height
      BY <2>1, WideningAssumption
    <2>. QED  BY <1>1, <1>3, <2>2 DEF Ascent, MostChanges
  <1>. QED  BY <1>1, <1>2, <1>3

LEMMA AscentInit == ASSUME Init PROVE Ascent
  <1>1. /\ Threshold \in Nat
        /\ \A b \in Blocks(prog) : iterations[b] = 0 /\ statesGen[b] \in {0, 1}
    BY ProgramAssumption DEF Init
  <1>. QED  BY <1>1 DEF Ascent

\* What carries the bound on the changes of a block.
LEMMA AscentHolds == Spec => [](IInv /\ Ascent)
  <1>1. Init => Ascent
    BY AscentInit
  <1>2. IInv /\ Ascent /\ [Next]_vars => Ascent'
    BY AscentStep
  <1>. QED  BY <1>1, <1>2, InvariantHolds, PTL DEF Spec

\* The entry state of a block changes a bounded number of times, whatever the
\* size of the word: widening forces finite ascent.
THEOREM AscentIsBounded == Spec => []AscentBounded
  <1>1. IInv /\ Ascent => AscentBounded
    BY AscentEnough DEF IInv
  <1>. QED  BY <1>1, AscentHolds, PTL

\* A product grows with its factors.
LEMMA Product ==
    ASSUME NEW m \in Nat, NEW k \in Nat, NEW l \in Nat, l <= k
    PROVE  /\ m * k \in Nat /\ m * l \in Nat
           /\ m * l <= m * k
           /\ l + 1 <= k => m * l + m <= m * k
  <1>1. PICK j \in Nat : k = l + j
    <2>1. k - l \in Nat /\ k = l + (k - l)
      OBVIOUS
    <2>. QED  BY <2>1
  <1>2. PICK a \in Nat, c \in Nat : a = m * l /\ c = m * j
    OBVIOUS
  <1>3. m * k = a + c
    BY <1>1, <1>2
  <1>4. 1 <= j => m <= m * j
    OBVIOUS
  <1>. QED  BY <1>1, <1>2, <1>3, <1>4

\* A block can still be taken a natural number of times.
LEMMA TurnsTyped ==
    ASSUME TypeOK, AscentBounded, NEW b \in Blocks(prog)
    PROVE  Turns(b) \in Nat /\ Degree(b) \in Nat
  <1>1. /\ statesGen[b] \in Nat /\ statesGen[b] <= 1 + Threshold + Height
        /\ Threshold \in Nat /\ Height \in Nat
    BY ProgramAssumption, WideningAssumption DEF TypeOK, AscentBounded, MostChanges
  <1>2. Degree(b) \in Nat
    BY EdgesTyped DEF TypeOK, Degree
  <1>. QED  BY <1>1, <1>2 DEF Turns, MostChanges

\* A step that touches one block alone changes the load of that block alone.
LEMMA LoadsDrop ==
    ASSUME TypeOK, AscentBounded, TypeOK', AscentBounded', prog' = prog,
           NEW t \in Blocks(prog), Turns(t)' <= Turns(t),
           \A b \in Blocks(prog) \ {t} :
              statesGen'[b] = statesGen[b] /\ (b \in queued' <=> b \in queued)
    PROVE  /\ Loads \in Nat /\ Loads' \in Nat /\ Loads' <= Loads
           /\ Turns(t)' + 1 <= Turns(t) => Loads' + (Degree(t) + 1) <= Loads
  <1> DEFINE S == Blocks(prog)
             w == [b \in S |-> (Degree(b) + 1) * Turns(b)]
             v == [b \in S |-> (Degree(b) + 1) * Turns(b)']
  <1>1. IsFiniteSet(S)
    BY ProgramAssumption DEF TypeOK, IsProgram
  <1>2. Loads = SumFunctionOnSet(w, S) /\ Loads' = SumFunctionOnSet(v, S)
    BY DEF Loads, Load, Degree
  <1>3. ASSUME NEW b \in S PROVE Turns(b) \in Nat /\ Degree(b) \in Nat
    BY TurnsTyped
  <1>4. ASSUME NEW b \in S PROVE Turns(b)' \in Nat
    <2>1. /\ statesGen'[b] \in Nat /\ statesGen'[b] <= 1 + Threshold + Height
          /\ Threshold \in Nat /\ Height \in Nat
      BY ProgramAssumption, WideningAssumption DEF TypeOK, AscentBounded, MostChanges
    <2>. QED  BY <2>1 DEF Turns, MostChanges
  <1>5. ASSUME NEW b \in S PROVE Turns(b)' <= Turns(b)
    <2>1. CASE b = t
      BY <2>1
    <2>2. CASE b # t
      <3>1. Turns(b)' = Turns(b)
        BY <2>2 DEF Turns, MostChanges
      <3>. QED  BY <1>3, <3>1
    <2>. QED  BY <2>1, <2>2
  <1> HIDE DEF S
  <1>6. ASSUME NEW b \in S
        PROVE  w[b] \in Nat /\ v[b] \in Nat /\ v[b] <= w[b]
    <2>1. PICK m \in Nat, k \in Nat, l \in Nat :
             m = Degree(b) + 1 /\ k = Turns(b) /\ l = Turns(b)'
      BY <1>3, <1>4
    <2>2. l <= k
      BY <1>5, <2>1
    <2>3. w[b] = m * k /\ v[b] = m * l
      BY <2>1
    <2>. QED  BY <2>2, <2>3, Product
  <1>7. ASSUME Turns(t)' + 1 <= Turns(t) PROVE v[t] + (Degree(t) + 1) <= w[t]
    <2>1. PICK m \in Nat, k \in Nat, l \in Nat :
             m = Degree(t) + 1 /\ k = Turns(t) /\ l = Turns(t)'
      BY <1>3, <1>4 DEF S
    <2>2. l <= k /\ l + 1 <= k
      BY <1>7, <2>1
    <2>3. w[t] = m * k /\ v[t] = m * l
      BY <2>1 DEF S
    <2>4. m * l + m <= m * k
      BY <2>2, Product
    <2>. QED  BY <2>1, <2>3, <2>4
  <1>8. t \in S /\ Degree(t) + 1 \in Nat
    BY <1>3 DEF S
  <1> HIDE DEF w, v
  <1>9. Weighs(S, v) /\ Weighs(S, w)
    BY <1>6 DEF Weighs
  <1>10. Loads \in Nat /\ Loads' \in Nat
    BY <1>1, <1>2, <1>6, FunctionSumTyped
  <1>11. /\ Loads' <= Loads
         /\ \A d \in Nat : v[t] + d <= w[t] => Loads' + d <= Loads
    BY <1>1, <1>2, <1>6, <1>8, <1>9, FunctionSumBelow
  <1>. QED  BY <1>7, <1>8, <1>10, <1>11

\* Walking on from an edge leaves one edge less.
LEMMA EdgesDrop ==
    ASSUME TypeOK, cur # Idle, NextEdge, prog' = prog
    PROVE  EdgesLeft \in Nat /\ EdgesLeft' \in Nat /\ EdgesLeft' + 1 = EdgesLeft
  <1>1. /\ cur.block \in Blocks(prog) /\ cur.edge \in 1 .. Degree(cur.block)
        /\ cur \in [edge : Nat \ {0}, block : Blocks(prog), from : State]
    BY MergeTyped DEF TypeOK, Degree
  <1>2. Degree(cur.block) \in Nat
    BY <1>1, EdgesTyped DEF TypeOK, Degree
  <1>3. EdgesLeft = Degree(cur.block) - cur.edge + 1
    BY DEF EdgesLeft
  <1>4. CASE cur.edge < Degree(cur.block)
    <2>1. cur' = [cur EXCEPT !.edge = cur.edge + 1]
      BY <1>4 DEF NextEdge, Degree
    <2>2. cur'.edge = cur.edge + 1 /\ cur'.block = cur.block
      BY <1>1, <2>1
    <2>3. cur' # Idle
      BY <1>1, <2>2 DEF Idle
    <2>4. EdgesLeft' = Degree(cur.block) - (cur.edge + 1) + 1
      BY <2>2, <2>3 DEF EdgesLeft, Degree
    <2>. QED  BY <1>1, <1>2, <1>3, <1>4, <2>4
  <1>5. CASE ~ (cur.edge < Degree(cur.block))
    <2>1. cur' = Idle
      BY <1>5 DEF NextEdge, Degree
    <2>2. EdgesLeft' = 0
      BY <2>1 DEF EdgesLeft
    <2>. QED  BY <1>1, <1>2, <1>3, <1>5, <2>2
  <1>. QED  BY <1>4, <1>5

LEMMA LoadsTyped == ASSUME TypeOK, AscentBounded PROVE Loads \in Nat
  <1> DEFINE w == [b \in Blocks(prog) |-> Load(b)]
  <1>1. IsFiniteSet(Blocks(prog))
    BY ProgramAssumption DEF TypeOK, IsProgram
  <1>2. ASSUME NEW b \in Blocks(prog) PROVE w[b] \in Nat
    <2>1. PICK m \in Nat, k \in Nat : m = Degree(b) + 1 /\ k = Turns(b)
      BY TurnsTyped
    <2>2. w[b] = m * k
      BY <2>1 DEF Load
    <2>. QED  BY <2>2, Product
  <1>3. Loads = SumFunctionOnSet(w, Blocks(prog))
    BY DEF Loads
  <1> HIDE DEF w
  <1>. QED  BY <1>1, <1>2, <1>3, FunctionSumTyped

LEMMA EdgesLeftTyped == ASSUME TypeOK PROVE EdgesLeft \in Nat
  <1>1. CASE cur = Idle
    BY <1>1 DEF EdgesLeft
  <1>2. CASE cur # Idle
    <2>1. cur.edge \in 1 .. Degree(cur.block) /\ Degree(cur.block) \in Nat
      BY <1>2, MergeTyped, EdgesTyped DEF TypeOK, Degree
    <2>. QED  BY <1>2, <2>1 DEF EdgesLeft
  <1>. QED  BY <1>1, <1>2

LEMMA DrainsTake ==
    ASSUME IInv, AscentBounded, TypeOK', AscentBounded', NEW b \in queued, Take(b),
           prog' = prog, statesGen' = statesGen,
           \/ cur' = cur
           \/ cur' = Idle
           \/ cur' = [edge |-> 1, block |-> b, from |-> states[b]]
    PROVE  Loads' + EdgesLeft' < Loads + EdgesLeft /\ EdgesLeft' \in Nat /\ Loads' \in Nat
  <1>1. b \in Blocks(prog) /\ queued' = queued \ {b} /\ cur = Idle
    BY DEF Take, Pop, IInv, TypeOK
  <1>2. Turns(b) \in Nat /\ Degree(b) \in Nat
    BY <1>1, TurnsTyped DEF IInv
  <1>3. Turns(b)' + 1 <= Turns(b) /\ Turns(b)' <= Turns(b)
    <2>1. PICK k \in Int : k = MostChanges - statesGen[b]
      <3>1. statesGen[b] \in Nat /\ Threshold \in Nat /\ Height \in Nat
        BY <1>1, ProgramAssumption, WideningAssumption DEF IInv, TypeOK
      <3>. QED  BY <3>1 DEF MostChanges
    <2>2. Turns(b) = k + 1 /\ Turns(b)' = k + 0
      BY <1>1, <2>1 DEF Turns, MostChanges
    <2>. QED  BY <2>2
  <1>4. /\ Loads \in Nat /\ Loads' \in Nat
        /\ Loads' + (Degree(b) + 1) <= Loads
    BY <1>1, <1>3, LoadsDrop DEF IInv
  <1>5. EdgesLeft = 0
    BY <1>1 DEF EdgesLeft
  <1>6. EdgesLeft' \in Nat /\ EdgesLeft' <= Degree(b)
    <2>1. CASE cur' = Idle \/ cur' = cur
      <3>1. EdgesLeft' = 0
        BY <1>1, <2>1 DEF EdgesLeft
      <3>. QED  BY <1>2, <3>1
    <2>2. CASE cur' = [edge |-> 1, block |-> b, from |-> states[b]]
      <3>1. cur' # Idle /\ cur'.edge = 1 /\ cur'.block = b
        BY <2>2 DEF Idle
      <3>2. EdgesLeft' = Degree(b) - 1 + 1
        BY <3>1 DEF EdgesLeft, Degree
      <3>. QED  BY <1>2, <3>2
    <2>. QED  BY <2>1, <2>2
  <1>7. PICK l \in Nat, k \in Nat, e \in Nat, n \in Nat :
           l = Loads' /\ k = Loads /\ e = EdgesLeft' /\ n = Degree(b)
    BY <1>2, <1>4, <1>6
  <1>8. l + (n + 1) <= k /\ e <= n
    BY <1>4, <1>6, <1>7
  <1>9. l + e < k + 0
    BY <1>8
  <1>. QED  BY <1>5, <1>6, <1>7, <1>9

LEMMA DrainsMerge ==
    ASSUME IInv, AscentBounded, TypeOK', AscentBounded', cur # Idle, NextEdge, prog' = prog,
           \/ UNCHANGED <<statesGen, queued>>
           \/ Push(Target) /\ statesGen' = [statesGen EXCEPT ![Target] = @ + 1]
    PROVE  Loads' + EdgesLeft' < Loads + EdgesLeft /\ EdgesLeft' \in Nat /\ Loads' \in Nat
  <1>1. PICK t \in Blocks(prog) : t = Target
    BY MergeTyped DEF IInv
  <1>2. Turns(t)' <= Turns(t)
    <2>1. PICK k \in Int : k = MostChanges - statesGen[t]
      <3>1. statesGen[t] \in Nat /\ Threshold \in Nat /\ Height \in Nat
        BY <1>1, ProgramAssumption, WideningAssumption DEF IInv, TypeOK
      <3>. QED  BY <3>1 DEF MostChanges
    <2>2. Turns(t) = k + (IF t \in queued THEN 1 ELSE 0)
      BY <2>1 DEF Turns
    <2>3. CASE UNCHANGED <<statesGen, queued>>
      <3>1. Turns(t)' = Turns(t)
        BY <2>3 DEF Turns, MostChanges
      <3>. QED  BY <2>1, <2>2, <3>1
    <2>4. CASE Push(t) /\ statesGen' = [statesGen EXCEPT ![t] = @ + 1]
      <3>1. statesGen[t] \in Nat /\ MostChanges \in Nat
        BY <1>1, ProgramAssumption, WideningAssumption DEF IInv, TypeOK, MostChanges
      <3>2. statesGen'[t] = statesGen[t] + 1 /\ t \in queued'
        BY <2>4 DEF Push, IInv, TypeOK
      <3>3. Turns(t)' = MostChanges - (statesGen[t] + 1) + 1
        BY <3>2 DEF Turns, MostChanges
      <3>. QED  BY <2>1, <2>2, <3>1, <3>3
    <2>. QED  BY <1>1, <2>3, <2>4
  <1>3. \A b \in Blocks(prog) \ {t} :
           statesGen'[b] = statesGen[b] /\ (b \in queued' <=> b \in queued)
    BY <1>1 DEF Push, IInv, TypeOK
  <1>4. Loads \in Nat /\ Loads' \in Nat /\ Loads' <= Loads
    BY <1>2, <1>3, LoadsDrop DEF IInv
  <1>5. EdgesLeft \in Nat /\ EdgesLeft' \in Nat /\ EdgesLeft' + 1 = EdgesLeft
    BY EdgesDrop DEF IInv
  <1>6. PICK l \in Nat, k \in Nat, e \in Nat, f \in Nat :
           l = Loads' /\ k = Loads /\ e = EdgesLeft' /\ f = EdgesLeft
    BY <1>4, <1>5
  <1>7. l <= k /\ e + 1 = f
    BY <1>4, <1>5, <1>6
  <1>8. l + e < k + f
    BY <1>7
  <1>. QED  BY <1>6, <1>8

\* verify_core ends on every program within a number of steps known at its
\* start: each step, whichever it is, uses some of it up.
THEOREM LoopDrains == Spec => Drains
  <1>1. IInv /\ Ascent /\ TypeOK' /\ AscentBounded' /\ [Next]_vars => [DrainsStep]_vars
    <2> SUFFICES ASSUME IInv, Ascent, TypeOK', AscentBounded', Next
                 PROVE  DrainsStep
      OBVIOUS
    <2>1. AscentBounded
      BY AscentEnough DEF IInv
    <2>2. VerdictLeft \in {0, 1} /\ VerdictLeft' \in {0, 1}
      BY DEF VerdictLeft
    <2>3. ASSUME /\ Loads' + EdgesLeft' < Loads + EdgesLeft
                 /\ EdgesLeft' \in Nat /\ Loads' \in Nat,
                 verdict = "running"
          PROVE  DrainsStep
      <3>1. VerdictLeft = 1
        BY <2>3 DEF VerdictLeft
      <3>2. Loads \in Nat /\ EdgesLeft \in Nat
        BY <2>1, LoadsTyped, EdgesLeftTyped DEF IInv
      <3>3. PICK l \in Nat, k \in Nat, e \in Nat, f \in Nat, v \in {0, 1} :
               /\ l = Loads' /\ k = Loads /\ e = EdgesLeft' /\ f = EdgesLeft
               /\ v = VerdictLeft'
        BY <2>2, <2>3, <3>2
      <3>4. l + e < k + f
        BY <2>3, <3>3
      <3>5. Remaining = k + f + 1 /\ Remaining' = l + e + v
        BY <3>1, <3>3 DEF Remaining
      <3>. QED  BY <3>4, <3>5 DEF DrainsStep
    <2>4. CASE RejectBlock
      <3>1. PICK b \in queued : Take(b) /\ UNCHANGED <<prog, statesGen, cur>>
        BY <2>4 DEF RejectBlock
      <3>. QED  BY <2>1, <2>3, <3>1, DrainsTake DEF Take
    <2>5. CASE ProcessBlock
      <3>1. PICK b \in queued :
               /\ Take(b) /\ UNCHANGED <<prog, statesGen>>
               /\ \/ cur' = cur
                  \/ cur' = Idle
                  \/ cur' = [edge |-> 1, block |-> b, from |-> states[b]]
        BY <2>5 DEF ProcessBlock
      <3>. QED  BY <2>1, <2>3, <3>1, DrainsTake DEF Take
    <2>6. CASE MergeFirst \/ MergeUnchanged \/ MergeChanged
      <3>1. /\ cur # Idle /\ NextEdge /\ prog' = prog
            /\ \/ UNCHANGED <<statesGen, queued>>
               \/ Push(Target) /\ statesGen' = [statesGen EXCEPT ![Target] = @ + 1]
        BY <2>6 DEF MergeFirst, MergeUnchanged, MergeChanged
      <3>2. verdict = "running"
        BY <3>1 DEF IInv, Cursor
      <3>. QED  BY <2>1, <2>3, <3>1, <3>2, DrainsMerge
    <2>7. CASE Decide
      <3>1. /\ UNCHANGED <<prog, statesGen, queued, cur>>
            /\ verdict = "running" /\ verdict' # "running"
        BY <2>7 DEF Decide
      <3>2. Loads' = Loads /\ EdgesLeft' = EdgesLeft
        BY <3>1 DEF Loads, Load, Turns, Degree, EdgesLeft, MostChanges
      <3>3. VerdictLeft = 1 /\ VerdictLeft' = 0
        BY <3>1 DEF VerdictLeft
      <3>4. Loads \in Nat /\ EdgesLeft \in Nat
        BY <2>1, LoadsTyped, EdgesLeftTyped DEF IInv
      <3>. QED  BY <3>2, <3>3, <3>4 DEF DrainsStep, Remaining
    <2>. QED  BY <2>4, <2>5, <2>6, <2>7 DEF Next
  <1>2. IInv /\ Ascent => TypeOK /\ AscentBounded
    BY AscentEnough DEF IInv
  <1>. QED  BY <1>1, <1>2, AscentHolds, PTL DEF Spec, Drains
=============================================================================
