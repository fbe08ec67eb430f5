----------------------------- MODULE CfgProofs -----------------------------
(***************************************************************************)
(* Proofs about build_cfg, for every program: the blocks partition it, and *)
(* the depth-first search emits each reachable block once, the entry       *)
(* first, and a block before its successors unless they are on a cycle.    *)
(***************************************************************************)
EXTENDS CfgBuild, ExecProofs

-----------------------------------------------------------------------------
(***************************************************************************)
(* Smallest and largest elements                                           *)
(***************************************************************************)

LEMMA GreatestElement ==
    ASSUME NEW S \in SUBSET Nat, S # {}, NEW n \in Nat, \A k \in S : k <= n
    PROVE  \E m \in S : \A k \in S : k <= m
  <1> DEFINE D == {n - k : k \in S}
  <1>1. D \in SUBSET Nat /\ D # {}
    <2>1. \A k \in S : n - k \in Nat
      OBVIOUS
    <2>. QED  BY <2>1
  <1>2. PICK d \in D : \A e \in D : d <= e
    BY <1>1, LeastElement
  <1>3. PICK m \in S : d = n - m
    OBVIOUS
  <1>4. \A k \in S : n - m <= n - k
    BY <1>2, <1>3
  <1>. QED  BY <1>4

LEMMA MinIsLeast ==
    ASSUME NEW S \in SUBSET Nat, S # {}
    PROVE  Min(S) \in S /\ \A k \in S : Min(S) <= k
  BY LeastElement, Zenon DEF Min

LEMMA MaxIsGreatest ==
    ASSUME NEW S \in SUBSET Nat, S # {}, NEW n \in Nat, \A k \in S : k <= n
    PROVE  Max(S) \in S /\ \A k \in S : k <= Max(S)
  <1>1. \E m \in S : \A k \in S : m >= k
    BY GreatestElement
  <1>2. Max(S) \in S /\ \A k \in S : Max(S) >= k
    BY <1>1, Zenon DEF Max
  <1>. QED  BY <1>2

-----------------------------------------------------------------------------
(***************************************************************************)
(* Leaders and blocks                                                      *)
(***************************************************************************)

LEMMA ProgramIsSequence ==
    ASSUME NEW c \in Codes
    PROVE  Len(c) \in Nat /\ DOMAIN c = 1 .. Len(c) /\ (c # <<>> => Len(c) > 0)
  <1>1. c \in Seq({c[i] : i \in DOMAIN c})
    BY CodesAssumption
  <1>. QED  BY <1>1

\* The leaders are instructions, the first one among them.
LEMMA LeadersAreInstructions ==
    ASSUME NEW c \in Codes, Builds(c)
    PROVE  Leaders(c) \subseteq 1 .. Len(c) /\ 1 \in Leaders(c)
  <1>1. Len(c) \in Nat /\ DOMAIN c = 1 .. Len(c) /\ Len(c) > 0
    BY ProgramIsSequence DEF Builds
  <1>2. \A i \in Jumps(c) : ResolveTarget(c, i) \in 1 .. Len(c)
    BY <1>1 DEF Builds, Resolved
  <1>. QED  BY <1>1, <1>2 DEF Leaders

\* The leader of an instruction is the last one at or before it.
LEMMA LeaderIsLast ==
    ASSUME NEW c \in Codes, Builds(c), NEW i \in 1 .. Len(c)
    PROVE  LET l == LeaderOf(Leaders(c), i)
           IN  l \in Leaders(c) /\ l <= i /\ \A k \in Leaders(c) : k <= i => k <= l
  <1> DEFINE S == {l \in Leaders(c) : l <= i}
  <1>1. S \in SUBSET Nat /\ 1 \in S /\ i \in Nat /\ \A k \in S : k <= i
    BY LeadersAreInstructions, ProgramIsSequence
  <1>2. Max(S) \in S /\ \A k \in S : k <= Max(S)
    <2> HIDE DEF S
    <2>1. S \in SUBSET Nat /\ S # {} /\ i \in Nat /\ \A k \in S : k <= i
      BY <1>1
    <2>. QED  BY <2>1, MaxIsGreatest, Zenon
  <1>3. LeaderOf(Leaders(c), i) = Max(S)
    BY DEF LeaderOf
  <1>4. \A k : k \in S <=> k \in Leaders(c) /\ k <= i
    OBVIOUS
  <1> HIDE DEF S
  <1>. QED  BY <1>2, <1>3, <1>4

\* A block ends at the next leader or at the end of the program.
LEMMA BlockEndIsNext ==
    ASSUME NEW c \in Codes, Builds(c), NEW b \in Leaders(c)
    PROVE  /\ BlockEnd(c, b) \in (b + 1) .. (Len(c) + 1)
           /\ BlockEnd(c, b) \in Leaders(c) \cup {Len(c) + 1}
           /\ \A k \in Leaders(c) : b < k => BlockEnd(c, b) <= k
  <1> DEFINE S == {l \in Leaders(c) : l > b} \cup {Len(c) + 1}
  <1>1. /\ Len(c) \in Nat /\ b \in 1 .. Len(c)
        /\ S \in SUBSET Nat /\ S # {} /\ Len(c) + 1 \in S
        /\ \A k \in S : k > b
    BY LeadersAreInstructions, ProgramIsSequence
  <1>2. Min(S) \in S /\ \A k \in S : Min(S) <= k
    <2> HIDE DEF S
    <2>. QED  BY <1>1, MinIsLeast, Zenon
  <1>3. BlockEnd(c, b) = Min(S)
    BY DEF BlockEnd
  <1>4. \A k : k \in S <=> (k \in Leaders(c) /\ k > b) \/ k = Len(c) + 1
    OBVIOUS
  <1>5. Leaders(c) \subseteq 1 .. Len(c)
    BY LeadersAreInstructions
  <1> HIDE DEF S
  <1>. QED  BY <1>1, <1>2, <1>3, <1>4, <1>5

\* An instruction lies in the block of its leader and in no other.
LEMMA InBlock ==
    ASSUME NEW c \in Codes, Builds(c), NEW b \in Leaders(c), NEW i \in 1 .. Len(c)
    PROVE  i \in b .. BlockLast(c, b) <=> LeaderOf(Leaders(c), i) = b
  <1> DEFINE l == LeaderOf(Leaders(c), i)
  <1>1. /\ l \in Leaders(c) /\ l <= i
        /\ \A k \in Leaders(c) : k <= i => k <= l
    BY LeaderIsLast
  <1>2. /\ BlockEnd(c, b) \in (b + 1) .. (Len(c) + 1)
        /\ BlockEnd(c, b) \in Leaders(c) \cup {Len(c) + 1}
        /\ \A k \in Leaders(c) : b < k => BlockEnd(c, b) <= k
    BY BlockEndIsNext
  <1>3. Leaders(c) \subseteq 1 .. Len(c) /\ Len(c) \in Nat
    BY LeadersAreInstructions, ProgramIsSequence
  <1> HIDE DEF l
  <1>4. ASSUME i \in b .. BlockLast(c, b) PROVE l = b
    BY <1>1, <1>2, <1>3, <1>4 DEF BlockLast
  <1>5. ASSUME l = b PROVE i \in b .. BlockLast(c, b)
    BY <1>1, <1>2, <1>3, <1>5 DEF BlockLast
  <1>. QED  BY <1>4, <1>5 DEF l

\* A leader is its own leader.
LEMMA LeaderOfLeader ==
    ASSUME NEW c \in Codes, Builds(c), NEW b \in Leaders(c)
    PROVE  LeaderOf(Leaders(c), b) = b
  <1>1. b \in 1 .. Len(c) /\ Len(c) \in Nat
    BY LeadersAreInstructions, ProgramIsSequence
  <1>2. /\ LeaderOf(Leaders(c), b) <= b /\ b <= LeaderOf(Leaders(c), b)
        /\ LeaderOf(Leaders(c), b) \in 1 .. Len(c)
    BY <1>1, LeaderIsLast, LeadersAreInstructions
  <1>. QED  BY <1>1, <1>2

\* The edges of a block, case by case: what is behind its last instruction is
\* a leader, and so is the target of a jump.
LEMMA BlockEdges ==
    ASSUME NEW c \in Codes, Builds(c), NEW b \in Leaders(c)
    PROVE  LET last == BlockLast(c, b)
               target == ResolveTarget(c, last)
               next(kind) == IF last < Len(c) THEN <<Edge(kind, last + 1)>> ELSE <<>>
               E == EdgesOf(c, b)
           IN  /\ last \in 1 .. Len(c)
               /\ last < Len(c) => last + 1 \in Leaders(c)
               /\ IsJump(c[last]) => target \in Leaders(c)
               /\ IsConditional(c[last]) =>
                     E = next("BranchFalse") \o <<Edge("BranchTrue", target)>>
               /\ IsJump(c[last]) /\ ~ IsConditional(c[last]) =>
                     E = <<Edge("Unconditional", target)>>
               /\ ~ IsJump(c[last]) /\ c[last].insn = "Exit" => E = <<>>
               /\ ~ IsJump(c[last]) /\ c[last].insn # "Exit" => E = next("Fallthrough")
  <1> DEFINE last == BlockLast(c, b)
             target == ResolveTarget(c, last)
             next(kind) == IF last < Len(c) THEN <<Edge(kind, last + 1)>> ELSE <<>>
             E == EdgesBehind(c, Leaders(c), last, target)
  <1>1. last \in 1 .. Len(c) /\ Len(c) \in Nat /\ DOMAIN c = 1 .. Len(c)
    BY BlockEndIsNext, LeadersAreInstructions, ProgramIsSequence DEF BlockLast
  <1>2. last < Len(c) => last + 1 \in Leaders(c)
    BY <1>1, BlockEndIsNext DEF BlockLast
  <1>3. IsJump(c[last]) => target \in Leaders(c)
    BY <1>1 DEF Leaders, Jumps
  <1>4. /\ last < Len(c) => LeaderOf(Leaders(c), last + 1) = last + 1
        /\ IsJump(c[last]) => LeaderOf(Leaders(c), target) = target
    BY <1>2, <1>3, LeaderOfLeader
  <1>5. EdgesOf(c, b) = E
    BY DEF EdgesOf
  <1> HIDE DEF last, target
  <1>6. ASSUME IsConditional(c[last])
        PROVE  E = next("BranchFalse") \o <<Edge("BranchTrue", target)>>
    <2>1. c[last].insn # "Exit" /\ IsJump(c[last])
      BY <1>6 DEF IsJump, IsConditional
    <2>. QED  BY <1>4, <1>6, <2>1 DEF EdgesBehind
  <1>7. ASSUME IsJump(c[last]), ~ IsConditional(c[last])
        PROVE  E = <<Edge("Unconditional", target)>>
    <2>1. c[last].insn # "Exit"
      BY <1>7 DEF IsJump
    <2>. QED  BY <1>4, <1>7, <2>1 DEF EdgesBehind
  <1>8. ASSUME ~ IsJump(c[last])
        PROVE  ~ IsConditional(c[last])
    BY <1>8 DEF IsConditional
  <1>9. ASSUME ~ IsJump(c[last]), c[last].insn = "Exit"
        PROVE  E = <<>>
    BY <1>8, <1>9 DEF EdgesBehind
  <1>10. ASSUME ~ IsJump(c[last]), c[last].insn # "Exit"
         PROVE  E = next("Fallthrough")
    BY <1>4, <1>8, <1>10 DEF EdgesBehind
  <1> HIDE DEF E
  <1>. QED  BY <1>1, <1>2, <1>3, <1>5, <1>6, <1>7, <1>9, <1>10 DEF last, target

EdgeKinds == {"BranchFalse", "BranchTrue", "Unconditional", "Fallthrough"}
EdgesOver(leaders) == [to : leaders, kind : EdgeKinds]

\* The edges of a block, at most two of them, lead to blocks.
LEMMA EdgesLeadToBlocks ==
    ASSUME NEW c \in Codes, Builds(c), NEW b \in Leaders(c)
    PROVE  EdgesOf(c, b) \in Seq(EdgesOver(Leaders(c))) /\ Len(EdgesOf(c, b)) <= 2
  <1> DEFINE Over == EdgesOver(Leaders(c))
  <1>1. PICK last, target, E :
            last = BlockLast(c, b) /\ target = ResolveTarget(c, last) /\ E = EdgesOf(c, b)
    OBVIOUS
  <1> DEFINE next(kind) == IF last < Len(c) THEN <<Edge(kind, last + 1)>> ELSE <<>>
  <1>2. /\ last < Len(c) => last + 1 \in Leaders(c)
        /\ IsJump(c[last]) => target \in Leaders(c)
        /\ IsConditional(c[last]) => E = next("BranchFalse") \o <<Edge("BranchTrue", target)>>
        /\ IsJump(c[last]) /\ ~ IsConditional(c[last]) => E = <<Edge("Unconditional", target)>>
        /\ ~ IsJump(c[last]) /\ c[last].insn = "Exit" => E = <<>>
        /\ ~ IsJump(c[last]) /\ c[last].insn # "Exit" => E = next("Fallthrough")
    BY <1>1, BlockEdges
  <1>3. \A to \in Leaders(c), kind \in EdgeKinds : Edge(kind, to) \in Over
    BY DEF EdgesOver, Edge
  <1> HIDE DEF Over
  <1>4. \A kind \in EdgeKinds : next(kind) \in Seq(Over) /\ Len(next(kind)) <= 1
    BY <1>2, <1>3
  <1> HIDE DEF next
  <1>5. E \in Seq(Over) /\ Len(E) <= 2
    <2>1. CASE IsConditional(c[last])
      <3>1. E = next("BranchFalse") \o <<Edge("BranchTrue", target)>>
        BY <1>2, <2>1
      <3>2. Edge("BranchTrue", target) \in Over
        BY <1>2, <1>3, <2>1 DEF EdgeKinds, IsConditional
      <3>3. next("BranchFalse") \in Seq(Over) /\ Len(next("BranchFalse")) <= 1
        BY <1>4 DEF EdgeKinds
      <3>. QED  BY <3>1, <3>2, <3>3
    <2>2. CASE IsJump(c[last]) /\ ~ IsConditional(c[last])
      <3>1. E = <<Edge("Unconditional", target)>>
        BY <1>2, <2>2
      <3>2. Edge("Unconditional", target) \in Over
        BY <1>2, <1>3, <2>2 DEF EdgeKinds
      <3>. QED  BY <3>1, <3>2
    <2>3. CASE ~ IsJump(c[last]) /\ c[last].insn = "Exit"
      BY <1>2, <2>3
    <2>4. CASE ~ IsJump(c[last]) /\ c[last].insn # "Exit"
      <3>1. next("Fallthrough") \in Seq(Over) /\ Len(next("Fallthrough")) <= 1
        BY <1>4 DEF EdgeKinds
      <3>2. Len(E) \in Nat /\ E = next("Fallthrough")
        BY <1>2, <2>4, <3>1
      <3>. QED  BY <3>1, <3>2
    <2>. QED  BY <2>1, <2>2, <2>3, <2>4 DEF IsConditional
  <1>. QED  BY <1>1, <1>5 DEF Over

-----------------------------------------------------------------------------
(***************************************************************************)
(* The successors a search step pushes                                     *)
(***************************************************************************)

PushStep(edges, seen, f, n) ==
    IF n = 0 THEN <<>>
    ELSE IF edges[n].to \in seen THEN f[n - 1]
    ELSE Append(f[n - 1], edges[n].to)

\* The loop of Undiscovered is well defined.
LEMMA PushesDefined ==
    ASSUME NEW S, NEW edges \in Seq(S), NEW seen
    PROVE  \E f : /\ \A n \in 0 .. Len(edges) : f[n] = PushStep(edges, seen, f, n)
                  /\ Undiscovered(edges, seen) = f[Len(edges)]
  <1> DEFINE Fits(f, m) == f = [n \in 0 .. m |-> PushStep(edges, seen, f, n)]
             Bad == {m \in 0 .. Len(edges) : ~ \E f : Fits(f, m)}
  <1>1. Bad = {}
    <2>1. SUFFICES ASSUME Bad # {} PROVE FALSE
      OBVIOUS
    <2>2. Bad \in SUBSET Nat
      OBVIOUS
    <2>3. PICK m \in Bad : \A k \in Bad : m <= k
      <3> HIDE DEF Bad
      <3>. QED  BY <2>1, <2>2, LeastElement, Zenon
    <2>4. CASE m = 0
      <3>1. \A n \in 0 .. 0 : n = 0
        OBVIOUS
      <3>2. Fits([n \in 0 .. 0 |-> <<>>], 0)
        BY <3>1 DEF PushStep
      <3>. QED  BY <2>4, <3>2
    <2>5. CASE m # 0
      <3>1. m \in 1 .. Len(edges) /\ m - 1 \in 0 .. Len(edges) /\ m - 1 \notin Bad
        BY <2>3, <2>5
      <3>2. PICK f : Fits(f, m - 1)
        BY <3>1
      <3> DEFINE g == [n \in 0 .. m |-> IF n = m THEN PushStep(edges, seen, f, m) ELSE f[n]]
      <3>3. ASSUME NEW n \in 0 .. m PROVE g[n] = PushStep(edges, seen, g, n)
        <4>1. g[n] = IF n = m THEN PushStep(edges, seen, f, m) ELSE f[n]
          OBVIOUS
        <4>2. n # m => f[n] = PushStep(edges, seen, f, n)
          <5> DEFINE h == [k \in 0 .. m - 1 |-> PushStep(edges, seen, f, k)]
          <5>1. \A k \in 0 .. m - 1 : h[k] = PushStep(edges, seen, f, k)
            OBVIOUS
          <5>2. f = h
            BY <3>2
          <5>3. n # m => n \in 0 .. m - 1
            BY <3>1
          <5> HIDE DEF h
          <5>. QED  BY <5>1, <5>2, <5>3
        <4>3. g[n] = PushStep(edges, seen, f, n)
          <5> HIDE DEF g
          <5>. QED  BY <4>1, <4>2
        <4>4. n # 0 => g[n - 1] = f[n - 1]
          BY <3>1
        <4> HIDE DEF g
        <4>. QED  BY <4>3, <4>4 DEF PushStep
      <3>4. Fits(g, m)
        <4>1. g = [n \in 0 .. m |-> g[n]]
          OBVIOUS
        <4> HIDE DEF g
        <4>. QED  BY <3>3, <4>1
      <3>. QED  BY <3>4
    <2>. QED  BY <2>4, <2>5
  <1>2. \E f : Fits(f, Len(edges))
    BY <1>1
  <1>3. Fits(CHOOSE f : Fits(f, Len(edges)), Len(edges))
    <2> HIDE DEF Fits
    <2>. QED  BY <1>2
  <1>4. Undiscovered(edges, seen) = (CHOOSE f : Fits(f, Len(edges)))[Len(edges)]
    BY DEF Undiscovered, PushStep
  <1>5. ASSUME NEW f, Fits(f, Len(edges))
        PROVE  \A n \in 0 .. Len(edges) : f[n] = PushStep(edges, seen, f, n)
    <2> DEFINE h == [n \in 0 .. Len(edges) |-> PushStep(edges, seen, f, n)]
    <2>1. \A n \in 0 .. Len(edges) : h[n] = PushStep(edges, seen, f, n)
      OBVIOUS
    <2>2. f = h
      BY <1>5
    <2> HIDE DEF h
    <2>. QED  BY <2>1, <2>2
  <1> HIDE DEF Fits
  <1>. QED  BY <1>3, <1>4, <1>5

\* It pushes targets of edges, none that is discovered and every one that is not.
LEMMA PushesUndiscovered ==
    ASSUME NEW S, NEW edges \in Seq([to : S, kind : EdgeKinds]), NEW seen
    PROVE  LET pushed == Undiscovered(edges, seen)
           IN  /\ pushed \in Seq(S)
               /\ \A q \in DOMAIN pushed : pushed[q] \in Targets(edges) \ seen
               /\ \A w \in Targets(edges) \ seen : \E q \in DOMAIN pushed : pushed[q] = w
  <1> DEFINE New == Targets(edges) \ seen
             Upto(m) == {edges[n].to : n \in 1 .. m} \ seen
  <1>1. PICK f : /\ \A n \in 0 .. Len(edges) : f[n] = PushStep(edges, seen, f, n)
                 /\ Undiscovered(edges, seen) = f[Len(edges)]
    BY PushesDefined
  <1> DEFINE Good(m) == /\ f[m] \in Seq(New)
                        /\ \A w \in Upto(m) : \E q \in DOMAIN f[m] : f[m][q] = w
             Bad == {m \in 0 .. Len(edges) : ~ Good(m)}
  <1>2. Bad = {}
    <2>1. SUFFICES ASSUME Bad # {} PROVE FALSE
      OBVIOUS
    <2>2. Bad \in SUBSET Nat
      OBVIOUS
    <2>3. PICK m \in Bad : \A k \in Bad : m <= k
      <3> HIDE DEF Bad
      <3>. QED  BY <2>1, <2>2, LeastElement, Zenon
    <2>4. CASE m = 0
      <3>1. f[0] = <<>>
        <4>1. 0 \in 0 .. Len(edges)
          OBVIOUS
        <4>. QED  BY <1>1, <4>1, Zenon DEF PushStep
      <3>2. Upto(0) = {}
        OBVIOUS
      <3>3. Good(0)
        <4> HIDE DEF Upto, New
        <4>. QED  BY <3>1, <3>2
      <3>. QED  BY <2>3, <2>4, <3>3
    <2>5. CASE m # 0
      <3>1. m \in 1 .. Len(edges) /\ m - 1 \in 0 .. Len(edges) /\ m - 1 \notin Bad
        BY <2>3, <2>5
      <3>2. Good(m - 1)
        BY <3>1
      <3>3. f[m] = IF edges[m].to \in seen THEN f[m - 1] ELSE Append(f[m - 1], edges[m].to)
        <4>1. f[m] = PushStep(edges, seen, f, m)
          BY <1>1, <3>1
        <4>. QED  BY <4>1, <3>1 DEF PushStep
      <3>4. edges[m].to \in Targets(edges)
        BY <3>1 DEF Targets
      <3>5. \A w \in Upto(m) : w \in Upto(m - 1) \/ (w = edges[m].to /\ w \notin seen)
        BY <3>1
      <3>6. Good(m)
        <4> HIDE DEF Upto
        <4>1. CASE edges[m].to \in seen
          <5>1. f[m] = f[m - 1]
            BY <3>3, <4>1
          <5>. QED  BY <3>2, <3>5, <4>1, <5>1
        <4>2. CASE edges[m].to \notin seen
          <5>1. f[m] = Append(f[m - 1], edges[m].to) /\ edges[m].to \in New
            BY <3>3, <3>4, <4>2
          <5> HIDE DEF New
          <5>2. f[m] \in Seq(New) /\ Len(f[m]) = Len(f[m - 1]) + 1
            BY <3>2, <5>1
          <5>3. f[m][Len(f[m])] = edges[m].to
            BY <3>2, <5>1, <5>2
          <5>4. \A q \in DOMAIN f[m - 1] : q \in DOMAIN f[m] /\ f[m][q] = f[m - 1][q]
            BY <3>2, <5>1, <5>2
          <5>5. Len(f[m]) \in DOMAIN f[m]
            BY <3>2, <5>2
          <5>. QED  BY <3>2, <3>5, <5>2, <5>3, <5>4, <5>5
        <4>. QED  BY <4>1, <4>2
      <3>. QED  BY <3>6
    <2>. QED  BY <2>4, <2>5
  <1>3. Good(Len(edges))
    BY <1>2
  <1>4. Upto(Len(edges)) = New
    BY DEF Targets
  <1>5. New \subseteq S
    <2> DEFINE T == [to : S, kind : EdgeKinds]
    <2>1. edges \in Seq(T)
      OBVIOUS
    <2>2. \A n \in DOMAIN edges : edges[n] \in T
      <3> HIDE DEF T
      <3>. QED  BY <2>1
    <2>. QED  BY <2>2 DEF Targets
  <1> HIDE DEF New, Upto
  <1>6. /\ f[Len(edges)] \in Seq(S)
        /\ \A q \in DOMAIN f[Len(edges)] : f[Len(edges)][q] \in New
        /\ \A w \in New : \E q \in DOMAIN f[Len(edges)] : f[Len(edges)][q] = w
    BY <1>3, <1>4, <1>5
  <1>. QED  BY <1>1, <1>6 DEF New

-----------------------------------------------------------------------------
(***************************************************************************)
(* The inductive invariant of build_cfg                                    *)
(***************************************************************************)

Live == result \in {"building", "ok"}

\* The graph stays the one the blocks and edges were added to.
GraphInv ==
    /\ code \in Codes
    /\ Live => Builds(code) /\ graph = [b \in Leaders(code) |-> EdgesOf(code, b)]

\* What is emitted is exactly what is finished, once.
SearchType ==
    /\ stack \in Seq(DOMAIN graph)
    /\ discovered \subseteq DOMAIN graph /\ finished \subseteq discovered
    /\ rpo \in Seq(finished) /\ IsInjective(rpo)
    /\ \A u \in finished : \E i \in DOMAIN rpo : rpo[i] = u
    /\ result = "ok" => stack = <<>>

\* The entry is at the bottom of the stack, nowhere else, and is finished last.
EntryLast ==
    /\ stack # <<>> =>
          /\ stack[1] = 1 /\ 1 \notin finished
          /\ 1 \in discovered \/ Len(stack) = 1
          /\ \A q \in DOMAIN stack : stack[q] = 1 => q = 1
    /\ stack = <<>> => rpo # <<>> /\ rpo[1] = 1

\* Position q of the stack is above position p.
IsAbove(q, p) == q \in DOMAIN stack /\ q > p

\* Position p is the one the block v, on the current path, was discovered at:
\* what is above was reached from v and is not v, and the successors of v are
\* known or above.
Holds(p, v) ==
    /\ p \in DOMAIN stack /\ stack[p] = v
    /\ \A q : IsAbove(q, p) => stack[q] # v /\ stack[q] \in ReachFrom(v)
    /\ \A w \in Succ(v) : w \in discovered \/ \E q : IsAbove(q, p) /\ stack[q] = w

OnPath == \A v \in discovered \ finished : \E p : Holds(p, v)

AllReached ==
    /\ \A q \in DOMAIN stack : stack[q] \in ReachFrom(1)
    /\ discovered \subseteq ReachFrom(1)

\* A finished block has an unfinished successor only on a cycle.
Behind ==
    \A u \in finished : \A w \in Succ(u) :
        w \in discovered /\ (w \notin finished => u \in ReachFrom(w))

Ordered ==
    \A i, j \in DOMAIN rpo :
        (rpo[j] \in Succ(rpo[i]) /\ j < i) => rpo[i] \in ReachFrom(rpo[j])

SearchInv ==
    SearchType /\ EntryLast /\ OnPath /\ AllReached /\ Behind /\ Ordered

CfgInv == GraphInv /\ (Live => SearchInv)

\* What the invariant says about the graph, without the program.
IsGraph ==
    /\ 1 \in DOMAIN graph
    /\ \A b \in DOMAIN graph : graph[b] \in Seq(EdgesOver(DOMAIN graph))

LEMMA GraphInvIsGraph ==
    ASSUME GraphInv, Live
    PROVE  IsGraph /\ DOMAIN graph = Leaders(code)
  <1>1. /\ DOMAIN graph = Leaders(code)
        /\ \A b \in DOMAIN graph : graph[b] = EdgesOf(code, b)
        /\ code \in Codes /\ Builds(code)
    BY DEF GraphInv
  <1>. QED  BY <1>1, LeadersAreInstructions, EdgesLeadToBlocks DEF IsGraph

LEMMA SuccessorsAreBlocks ==
    ASSUME IsGraph, NEW b \in DOMAIN graph
    PROVE  Succ(b) \subseteq DOMAIN graph
  <1> DEFINE T == EdgesOver(DOMAIN graph)
  <1>1. graph[b] \in Seq(T)
    BY DEF IsGraph
  <1>2. \A n \in DOMAIN graph[b] : graph[b][n] \in T
    <2> HIDE DEF T
    <2>. QED  BY <1>1
  <1>. QED  BY <1>2 DEF Succ, Targets, EdgesOver

-----------------------------------------------------------------------------
(***************************************************************************)
(* Reachability                                                            *)
(***************************************************************************)

LEMMA ReachesItself ==
    ASSUME NEW b \in DOMAIN graph
    PROVE  b \in ReachFrom(b)
  BY DEF ReachFrom

LEMMA ReachesSuccessors ==
    ASSUME NEW b, NEW c \in ReachFrom(b), NEW d \in Succ(c), d \in DOMAIN graph
    PROVE  d \in ReachFrom(b)
  BY DEF ReachFrom

LEMMA ReachesWithin ==
    ASSUME NEW S \in SUBSET DOMAIN graph, NEW b \in S, \A x \in S : Succ(x) \subseteq S
    PROVE  ReachFrom(b) \subseteq S
  BY DEF ReachFrom

LEMMA SameGraph ==
    ASSUME graph' = graph
    PROVE  \A b : Succ(b)' = Succ(b) /\ ReachFrom(b)' = ReachFrom(b)
  BY DEF ReachFrom, Succ

-----------------------------------------------------------------------------
(***************************************************************************)
(* The steps of the search                                                 *)
(***************************************************************************)

\* The graph has one node per block, the stack holds the entry alone.
LEMMA InitEstablishes == Init => CfgInv
  <1> SUFFICES ASSUME Init PROVE CfgInv
    OBVIOUS
  <1>1. CASE Builds(code)
    <2>1. /\ GraphInv /\ Live /\ stack = <<1>> /\ discovered = {} /\ finished = {} /\ rpo = <<>>
          /\ result = "building"
      BY <1>1 DEF Init, GraphInv, Live
    <2>2. 1 \in DOMAIN graph
      BY <2>1, GraphInvIsGraph DEF IsGraph
    <2>3. SearchType /\ EntryLast
      BY <2>1, <2>2 DEF SearchType, EntryLast, IsInjective
    <2>4. OnPath /\ Behind /\ Ordered
      BY <2>1 DEF OnPath, Behind, Ordered
    <2>5. AllReached
      BY <2>1, <2>2, ReachesItself DEF AllReached
    <2>. QED  BY <2>1, <2>3, <2>4, <2>5 DEF CfgInv, SearchInv
  <1>2. CASE ~ Builds(code)
    <2>1. result \in {"EmptyProgram", "JumpOutOfBounds", "JumpIntoWide"} /\ code \in Codes
      BY <1>2 DEF Init, Errors
    <2>. QED  BY <2>1 DEF CfgInv, GraphInv, Live
  <1>. QED  BY <1>1, <1>2

\* Discover puts undiscovered successors of the top on the stack.
LEMMA DiscoverPushes ==
    ASSUME IsGraph, SearchType, Discover
    PROVE  /\ Len(stack) \in DOMAIN stack /\ Top \in DOMAIN graph /\ Top \notin discovered
           /\ discovered' = discovered \cup {Top}
           /\ stack' \in Seq(DOMAIN graph) /\ Len(stack) <= Len(stack')
           /\ \A q \in DOMAIN stack : q \in DOMAIN stack' /\ stack'[q] = stack[q]
           /\ \A q \in DOMAIN stack' \ DOMAIN stack :
                 q > Len(stack) /\ stack'[q] \in Succ(Top) \ discovered'
           /\ \A w \in Succ(Top) \ discovered' :
                 \E q \in DOMAIN stack' : q > Len(stack) /\ stack'[q] = w
  <1> DEFINE P == Undiscovered(graph[Top], discovered')
             G == DOMAIN graph
  <1>1. /\ stack \in Seq(G) /\ Len(stack) \in Nat /\ Len(stack) > 0
        /\ DOMAIN stack = 1 .. Len(stack) /\ Top \in G
    BY DEF SearchType, Discover, Top
  <1>2. /\ P \in Seq(G)
        /\ \A q \in DOMAIN P : P[q] \in Succ(Top) \ discovered'
        /\ \A w \in Succ(Top) \ discovered' : \E q \in DOMAIN P : P[q] = w
    <2>1. graph[Top] \in Seq([to : G, kind : EdgeKinds])
      BY <1>1 DEF IsGraph, EdgesOver
    <2> HIDE DEF G
    <2>. QED  BY <2>1, PushesUndiscovered DEF Succ
  <1>3. stack' = stack \o P /\ discovered' = discovered \cup {Top} /\ Top \notin discovered
    BY DEF Discover
  <1> HIDE DEF P, G
  <1>4. /\ stack' \in Seq(G) /\ Len(stack') = Len(stack) + Len(P) /\ Len(P) \in Nat
        /\ DOMAIN stack' = 1 .. Len(stack') /\ DOMAIN P = 1 .. Len(P)
        /\ \A q \in 1 .. Len(stack) : stack'[q] = stack[q]
        /\ \A q \in 1 .. Len(P) : stack'[Len(stack) + q] = P[q]
    BY <1>1, <1>2, <1>3
  <1>5. \A q \in DOMAIN stack' \ DOMAIN stack :
           q > Len(stack) /\ stack'[q] \in Succ(Top) \ discovered'
    <2> TAKE q \in DOMAIN stack' \ DOMAIN stack
    <2>1. q > Len(stack) /\ q - Len(stack) \in 1 .. Len(P)
      BY <1>1, <1>4
    <2>2. stack'[Len(stack) + (q - Len(stack))] = P[q - Len(stack)]
      BY <2>1, <1>4
    <2>3. Len(stack) + (q - Len(stack)) = q
      BY <1>1, <1>4
    <2>. QED  BY <1>2, <1>4, <2>1, <2>2, <2>3
  <1>6. \A w \in Succ(Top) \ discovered' :
           \E q \in DOMAIN stack' : q > Len(stack) /\ stack'[q] = w
    <2> TAKE w \in Succ(Top) \ discovered'
    <2>1. PICK q \in DOMAIN P : P[q] = w
      BY <1>2
    <2>2. /\ Len(stack) + q \in DOMAIN stack' /\ Len(stack) + q > Len(stack)
          /\ stack'[Len(stack) + q] = w
      BY <1>1, <1>4, <2>1
    <2>. QED  BY <2>2
  <1>. QED  BY <1>1, <1>3, <1>4, <1>5, <1>6 DEF G

LEMMA DiscoverPreserves ==
    ASSUME IsGraph, SearchInv, Discover
    PROVE  SearchInv'
  <1>0. PICK n, top : n = Len(stack) /\ top = Top
    OBVIOUS
  <1>1. /\ n \in DOMAIN stack /\ top \in DOMAIN graph /\ top \notin discovered
        /\ discovered' = discovered \cup {top}
        /\ stack' \in Seq(DOMAIN graph) /\ n <= Len(stack')
        /\ \A q \in DOMAIN stack : q \in DOMAIN stack' /\ stack'[q] = stack[q]
        /\ \A q \in DOMAIN stack' \ DOMAIN stack :
              q > n /\ stack'[q] \in Succ(top) \ discovered'
        /\ \A w \in Succ(top) \ discovered' :
              \E q \in DOMAIN stack' : q > n /\ stack'[q] = w
    BY <1>0, DiscoverPushes DEF SearchInv
  <1>2. /\ graph' = graph /\ result' = result /\ result = "building"
        /\ finished' = finished /\ rpo' = rpo /\ top = stack[n]
    BY <1>0 DEF Discover, Top
  <1>3. \A b : Succ(b)' = Succ(b) /\ ReachFrom(b)' = ReachFrom(b)
    BY <1>2, SameGraph
  <1>4. /\ n \in Nat /\ DOMAIN stack = 1 .. n
        /\ Len(stack') \in Nat /\ DOMAIN stack' = 1 .. Len(stack')
        /\ finished \subseteq discovered
    BY <1>0, <1>1 DEF SearchInv, SearchType
  <1>5. Succ(top) \subseteq DOMAIN graph
    BY <1>1, SuccessorsAreBlocks
  <1>6. SearchType'
    BY <1>1, <1>2 DEF SearchInv, SearchType
  <1>7. EntryLast'
    <2>1. stack # <<>> /\ stack' # <<>>
      BY <1>1, <1>4
    <2>2. /\ stack[1] = 1 /\ 1 \notin finished
          /\ 1 \in discovered \/ n = 1
          /\ \A q \in DOMAIN stack : stack[q] = 1 => q = 1
      BY <1>0, <2>1 DEF SearchInv, EntryLast
    <2>3. 1 \in discovered'
      BY <2>2, <1>1, <1>2
    <2>. QED  BY <2>1, <2>2, <2>3, <1>1, <1>2, <1>4 DEF EntryLast
  <1>8. OnPath'
    <2>1. ASSUME NEW v \in discovered \ finished
          PROVE  \E p : Holds(p, v)'
      <3>1. PICK p : Holds(p, v)
        BY <2>1 DEF SearchInv, OnPath
      <3>2. /\ p \in DOMAIN stack /\ stack[p] = v /\ v # top /\ p < n
            /\ \A q \in DOMAIN stack : q > p => stack[q] # v /\ stack[q] \in ReachFrom(v)
            /\ \A w \in Succ(v) : w \in discovered \/ \E q \in DOMAIN stack : q > p /\ stack[q] = w
        BY <2>1, <3>1, <1>1, <1>2, <1>4 DEF Holds, IsAbove
      <3>3. top \in ReachFrom(v)
        BY <1>1, <1>2, <3>2
      <3>4. \A q \in DOMAIN stack' : q > p => stack'[q] # v /\ stack'[q] \in ReachFrom(v)
        BY <1>1, <1>5, <2>1, <3>2, <3>3, ReachesSuccessors
      <3>5. \A w \in Succ(v) : w \in discovered' \/ \E q \in DOMAIN stack' : q > p /\ stack'[q] = w
        BY <1>1, <3>2
      <3>. QED  BY <1>1, <1>3, <3>2, <3>4, <3>5 DEF Holds, IsAbove
    <2>2. Holds(n, top)'
      <3>1. \A q \in DOMAIN stack' : q > n => stack'[q] # top /\ stack'[q] \in ReachFrom(top)
        BY <1>1, <1>4, <1>5, ReachesItself, ReachesSuccessors
      <3>2. \A w \in Succ(top) : w \in discovered' \/ \E q \in DOMAIN stack' : q > n /\ stack'[q] = w
        BY <1>1
      <3>3. n \in DOMAIN stack' /\ stack'[n] = top
        BY <1>1, <1>2
      <3>. QED  BY <1>3, <3>1, <3>2, <3>3 DEF Holds, IsAbove
    <2>. QED  BY <1>1, <1>2, <2>1, <2>2 DEF OnPath
  <1>9. AllReached'
    <2>1. \A q \in DOMAIN stack : stack[q] \in ReachFrom(1)
      BY DEF SearchInv, AllReached
    <2>2. top \in ReachFrom(1)
      BY <1>1, <1>2, <2>1
    <2>3. \A q \in DOMAIN stack' : stack'[q] \in ReachFrom(1)
      BY <1>1, <1>5, <2>1, <2>2, ReachesSuccessors
    <2>. QED  BY <1>1, <1>3, <2>2, <2>3 DEF SearchInv, AllReached
  <1>10. Behind' /\ Ordered'
    BY <1>1, <1>2, <1>3 DEF SearchInv, Behind, Ordered
  <1>. QED  BY <1>6, <1>7, <1>8, <1>9, <1>10 DEF SearchInv

\* Finish emits the top of the stack, the last thing the path is waiting for.
LEMMA FinishPreserves ==
    ASSUME IsGraph, SearchInv, Finish
    PROVE  SearchInv'
  <1>0. PICK n, top : n = Len(stack) /\ top = Top
    OBVIOUS
  <1>1. /\ n \in Nat /\ n > 0 /\ DOMAIN stack = 1 .. n /\ top = stack[n]
        /\ stack \in Seq(DOMAIN graph)
        /\ top \in DOMAIN graph /\ top \in discovered
        /\ finished \subseteq discovered /\ discovered \subseteq DOMAIN graph
    BY <1>0 DEF SearchInv, SearchType, Finish, Top
  <1>2. /\ stack' \in Seq(DOMAIN graph) /\ Len(stack') = n - 1
        /\ DOMAIN stack' = 1 .. (n - 1)
        /\ \A q \in 1 .. (n - 1) : stack'[q] = stack[q]
    BY <1>0, <1>1 DEF Finish, Front
  <1>3. /\ graph' = graph /\ result' = result /\ result = "building"
        /\ discovered' = discovered /\ finished' = finished \cup {top}
        /\ rpo' = IF top \in finished THEN rpo ELSE <<top>> \o rpo
    BY <1>0 DEF Finish
  <1>4. \A b : Succ(b)' = Succ(b) /\ ReachFrom(b)' = ReachFrom(b)
    BY <1>3, SameGraph
  <1>5. /\ stack[1] = 1 /\ 1 \notin finished
        /\ \A q \in DOMAIN stack : stack[q] = 1 => q = 1
    BY <1>1 DEF SearchInv, EntryLast
  <1>6. /\ rpo \in Seq(finished) /\ IsInjective(rpo)
        /\ Len(rpo) \in Nat /\ DOMAIN rpo = 1 .. Len(rpo)
        /\ \A i \in DOMAIN rpo : rpo[i] \in finished
        /\ \A u \in finished : \E i \in DOMAIN rpo : rpo[i] = u
    BY DEF SearchInv, SearchType
  <1>7. ASSUME top \notin finished
        PROVE  /\ rpo' \in Seq(finished') /\ Len(rpo') = Len(rpo) + 1
               /\ DOMAIN rpo' = 1 .. (Len(rpo) + 1) /\ rpo'[1] = top
               /\ \A i \in 1 .. Len(rpo) : rpo'[i + 1] = rpo[i]
               /\ \A i \in DOMAIN rpo' : i # 1 => i - 1 \in DOMAIN rpo /\ rpo'[i] = rpo[i - 1]
    <2>1. rpo' = <<top>> \o rpo /\ rpo \in Seq(finished') /\ <<top>> \in Seq(finished')
      BY <1>3, <1>6, <1>7
    <2>2. /\ rpo' \in Seq(finished') /\ Len(rpo') = Len(rpo) + 1
          /\ DOMAIN rpo' = 1 .. (Len(rpo) + 1) /\ rpo'[1] = top
          /\ \A i \in 1 .. Len(rpo) : rpo'[i + 1] = rpo[i]
      BY <1>6, <2>1
    <2>3. \A i \in DOMAIN rpo' : i # 1 => i - 1 \in 1 .. Len(rpo) /\ (i - 1) + 1 = i
      BY <1>6, <2>2
    <2>. QED  BY <1>6, <2>2, <2>3
  <1>8. ASSUME top \notin finished
        PROVE  Succ(top) \subseteq discovered
    <2>1. PICK p : Holds(p, top)
      BY <1>1, <1>8 DEF SearchInv, OnPath
    <2>2. p = n
      BY <1>1, <2>1 DEF Holds, IsAbove
    <2>. QED  BY <1>1, <2>1, <2>2 DEF Holds, IsAbove
  \* A block that is still unfinished has its place below the top.
  <1>9. ASSUME NEW v \in discovered \ finished, v # top
        PROVE  \E p \in 1 .. (n - 1) : Holds(p, v)
    <2>1. PICK p : Holds(p, v)
      BY <1>9 DEF SearchInv, OnPath
    <2>2. p \in 1 .. n /\ stack[p] = v
      BY <1>1, <2>1 DEF Holds
    <2>3. p # n
      BY <1>1, <1>9, <2>2
    <2>. QED  BY <1>1, <2>1, <2>2, <2>3
  <1>10. SearchType'
    <2>1. CASE top \in finished
      BY <1>1, <1>2, <1>3, <2>1 DEF SearchInv, SearchType
    <2>2. CASE top \notin finished
      <3>1. ASSUME NEW a \in DOMAIN rpo', NEW b \in DOMAIN rpo', rpo'[a] = rpo'[b]
            PROVE  a = b
        <4>1. \A i \in DOMAIN rpo' : i # 1 => rpo'[i] = rpo[i - 1] /\ i - 1 \in DOMAIN rpo
                                              /\ rpo'[i] # top
          BY <1>6, <1>7, <2>2
        <4>2. rpo'[1] = top /\ a \in Int /\ b \in Int
          BY <1>6, <1>7, <2>2
        <4>3. a # 1 /\ b # 1 => a - 1 = b - 1
          BY <1>6, <3>1, <4>1 DEF IsInjective
        <4>. QED  BY <3>1, <4>1, <4>2, <4>3
      <3>2. \A u \in finished' : \E i \in DOMAIN rpo' : rpo'[i] = u
        <4>1. \A i \in DOMAIN rpo : i + 1 \in DOMAIN rpo' /\ rpo'[i + 1] = rpo[i]
          BY <1>6, <1>7, <2>2
        <4>2. 1 \in DOMAIN rpo'
          BY <1>6, <1>7, <2>2
        <4>3. finished' = finished \cup {top} /\ rpo'[1] = top
          BY <1>3, <1>7, <2>2
        <4>. QED  BY <1>6, <4>1, <4>2, <4>3
      <3>. QED  BY <1>1, <1>2, <1>3, <1>7, <2>2, <3>1, <3>2 DEF SearchType, IsInjective
    <2>. QED  BY <2>1, <2>2
  <1>11. EntryLast'
    <2>1. CASE n = 1
      <3>1. top = 1 /\ top \notin finished /\ stack' = <<>>
        BY <1>1, <1>2, <1>5, <2>1
      <3>2. rpo' # <<>> /\ rpo'[1] = 1
        BY <1>6, <1>7, <3>1
      <3>. QED  BY <3>1, <3>2 DEF EntryLast
    <2>2. CASE n # 1
      <3>1. top # 1 /\ stack' # <<>> /\ stack # <<>>
        BY <1>1, <1>2, <1>5, <2>2
      <3>2. 1 \in discovered
        BY <1>0, <2>2, <3>1 DEF SearchInv, EntryLast
      <3>. QED  BY <1>1, <1>2, <1>3, <1>5, <2>2, <3>1, <3>2 DEF EntryLast
    <2>. QED  BY <2>1, <2>2
  <1>12. OnPath'
    <2>1. ASSUME NEW v \in discovered \ finished, v # top
          PROVE  \E p : Holds(p, v)'
      <3>1. PICK p \in 1 .. (n - 1) : Holds(p, v)
        BY <1>9, <2>1
      <3>2. /\ stack[p] = v
            /\ \A q \in DOMAIN stack : q > p => stack[q] # v /\ stack[q] \in ReachFrom(v)
            /\ \A w \in Succ(v) : w \in discovered \/ \E q \in DOMAIN stack : q > p /\ stack[q] = w
        BY <3>1 DEF Holds, IsAbove
      <3>3. \A w \in Succ(v) : w \in discovered \/ \E q \in DOMAIN stack' : q > p /\ stack'[q] = w
        <4> TAKE w \in Succ(v)
        <4>1. CASE w \in discovered
          BY <4>1
        <4>2. CASE w \notin discovered
          <5>1. PICK q \in DOMAIN stack : q > p /\ stack[q] = w
            BY <3>2, <4>2
          <5>2. q # n
            BY <1>1, <4>2, <5>1
          <5>. QED  BY <1>1, <1>2, <5>1, <5>2
        <4>. QED  BY <4>1, <4>2
      <3>. QED  BY <1>1, <1>2, <1>3, <1>4, <3>1, <3>2, <3>3 DEF Holds, IsAbove
    <2>. QED  BY <1>3, <2>1 DEF OnPath
  <1>13. AllReached'
    BY <1>1, <1>2, <1>3, <1>4 DEF SearchInv, AllReached
  <1>14. ASSUME top \notin finished, NEW w \in Succ(top), w \notin finished'
         PROVE  top \in ReachFrom(w)
    <2>1. w \in discovered \ finished /\ w # top
      BY <1>3, <1>8, <1>14
    <2>2. PICK p \in 1 .. (n - 1) : Holds(p, w)
      BY <1>9, <2>1
    <2>. QED  BY <1>1, <2>2 DEF Holds, IsAbove
  <1>15. Behind'
    BY <1>3, <1>4, <1>8, <1>14 DEF SearchInv, Behind
  <1>16. Ordered'
    <2>1. CASE top \in finished
      BY <1>3, <1>4, <2>1 DEF SearchInv, Ordered
    <2>2. CASE top \notin finished
      <3>1. SUFFICES ASSUME NEW i \in DOMAIN rpo', NEW j \in DOMAIN rpo',
                            rpo'[j] \in Succ(rpo'[i]), j < i
                     PROVE  rpo'[i] \in ReachFrom(rpo'[j])
        BY <1>4 DEF Ordered
      <3>2. i # 1 /\ i - 1 \in DOMAIN rpo /\ rpo'[i] = rpo[i - 1]
        BY <1>6, <1>7, <2>2, <3>1
      <3>3. CASE j = 1
        BY <1>6, <1>7, <2>2, <3>1, <3>2, <3>3 DEF SearchInv, Behind
      <3>4. CASE j # 1
        <4>1. j - 1 \in DOMAIN rpo /\ rpo'[j] = rpo[j - 1] /\ j - 1 < i - 1
          BY <1>6, <1>7, <2>2, <3>1, <3>2, <3>4
        <4>. QED  BY <3>1, <3>2, <4>1 DEF SearchInv, Ordered
      <3>. QED  BY <3>3, <3>4
    <2>. QED  BY <2>1, <2>2
  <1>. QED  BY <1>10, <1>11, <1>12, <1>13, <1>15, <1>16 DEF SearchInv

LEMMA CfgInvInductive == CfgInv /\ [Next]_vars => CfgInv'
  <1> SUFFICES ASSUME CfgInv, [Next]_vars PROVE CfgInv'
    OBVIOUS
  <1>1. CASE Discover
    <2>1. Live /\ GraphInv /\ SearchInv /\ IsGraph
      BY <1>1, GraphInvIsGraph DEF CfgInv, Live, Discover
    <2>2. SearchInv'
      BY <1>1, <2>1, DiscoverPreserves
    <2>. QED  BY <1>1, <2>1, <2>2 DEF CfgInv, GraphInv, Live, Discover
  <1>2. CASE Finish
    <2>1. Live /\ GraphInv /\ SearchInv /\ IsGraph
      BY <1>2, GraphInvIsGraph DEF CfgInv, Live, Finish
    <2>2. SearchInv'
      BY <1>2, <2>1, FinishPreserves
    <2>. QED  BY <1>2, <2>1, <2>2 DEF CfgInv, GraphInv, Live, Finish
  <1>3. CASE Return
    <2>1. Live /\ GraphInv /\ SearchInv
      BY <1>3 DEF CfgInv, Live, Return
    <2>2. \A b : Succ(b)' = Succ(b) /\ ReachFrom(b)' = ReachFrom(b)
      BY <1>3, SameGraph DEF Return
    <2>3. SearchType' /\ EntryLast' /\ AllReached' /\ Behind' /\ Ordered'
      BY <1>3, <2>1, <2>2
         DEF SearchInv, SearchType, EntryLast, AllReached, Behind, Ordered, Return
    <2>4. OnPath'
      BY <1>3, <2>1, <2>2 DEF SearchInv, OnPath, Holds, IsAbove, Return
    <2>. QED  BY <1>3, <2>1, <2>3, <2>4 DEF CfgInv, SearchInv, GraphInv, Live, Return
  <1>4. CASE UNCHANGED vars
    <2>1. \A b : Succ(b)' = Succ(b) /\ ReachFrom(b)' = ReachFrom(b)
      BY <1>4, SameGraph DEF vars
    <2>2. SearchInv => SearchInv'
      BY <1>4, <2>1 DEF SearchInv, SearchType, EntryLast, AllReached, Behind, Ordered,
                        OnPath, Holds, IsAbove, vars
    <2>. QED  BY <1>4, <2>2 DEF CfgInv, GraphInv, Live, vars
  <1>. QED  BY <1>1, <1>2, <1>3, <1>4 DEF Next

LEMMA CfgInvariant == Spec => []CfgInv
  BY InitEstablishes, CfgInvInductive, PTL DEF Spec

\* ebpf-cfg/src/lib.rs:12: for every program that build_cfg accepts, the blocks
\* cover it, no instruction is in two, and only the last of a block is a jump
\* or an exit.
THEOREM BlocksCorrect == Spec => []BlocksPartition
  <1>1. CfgInv => BlocksPartition
    <2> SUFFICES ASSUME CfgInv, Accepted PROVE BlocksPartition
      BY DEF BlocksPartition
    <2>1. /\ code \in Codes /\ Builds(code) /\ DOMAIN graph = Leaders(code)
          /\ Leaders(code) \subseteq 1 .. Len(code)
          /\ Len(code) \in Nat /\ DOMAIN code = 1 .. Len(code)
      BY GraphInvIsGraph, LeadersAreInstructions, ProgramIsSequence
         DEF CfgInv, GraphInv, Accepted, Live
    <2>2. ASSUME NEW b \in Leaders(code)
          PROVE  /\ BlockEnd(code, b) \in (b + 1) .. (Len(code) + 1)
                 /\ \A k \in Leaders(code) : b < k => BlockEnd(code, b) <= k
      BY <2>1, BlockEndIsNext
    <2>3. UNION {b .. BlockLast(code, b) : b \in Leaders(code)} = 1 .. Len(code)
      <3>1. \A b \in Leaders(code) : b .. BlockLast(code, b) \subseteq 1 .. Len(code)
        BY <2>1, <2>2 DEF BlockLast
      <3>2. ASSUME NEW i \in 1 .. Len(code)
            PROVE  \E b \in Leaders(code) : i \in b .. BlockLast(code, b)
        BY <2>1, InBlock, LeaderIsLast
      <3>. QED  BY <3>1, <3>2
    <2>4. ASSUME NEW b \in Leaders(code), NEW i \in b .. BlockLast(code, b)
          PROVE  /\ BlockOfPc(code, i) = b
                 /\ i < BlockLast(code, b) => code[i].insn \notin {"Jump", "Exit"}
      <3>1. i \in 1 .. Len(code) /\ b \in 1 .. Len(code) /\ BlockEnd(code, b) \in Nat
        BY <2>1, <2>2 DEF BlockLast
      <3>2. BlockOfPc(code, i) = b
        BY <2>1, <3>1, InBlock DEF BlockOfPc
      <3>3. ASSUME i < BlockLast(code, b), code[i].insn \in {"Jump", "Exit"} PROVE FALSE
        <4>1. i < Len(code) /\ i + 1 < BlockEnd(code, b) /\ b < i + 1
          BY <2>1, <2>2, <3>1, <3>3 DEF BlockLast
        <4>2. i + 1 \in Leaders(code)
          BY <2>1, <3>1, <3>3, <4>1 DEF Leaders
        <4>. QED  BY <2>2, <3>1, <4>1, <4>2
      <3>. QED  BY <3>2, <3>3
    <2>5. \A b \in Leaders(code) : BlockLen(code, b) > 0
      BY <2>1, <2>2 DEF BlockLen
    <2>. QED  BY <2>1, <2>3, <2>4, <2>5 DEF BlocksPartition
  <1>. QED  BY <1>1, CfgInvariant, PTL

\* ebpf-cfg/src/lib.rs:447: for every program, the order the verifier's
\* worklist is seeded with holds each reachable block once, the entry first,
\* and an edge leads backwards in it only on a cycle.
THEOREM OrderCorrect == Spec => []RpoOrdersBlocks
  <1>1. CfgInv => RpoOrdersBlocks
    <2> SUFFICES ASSUME CfgInv, Accepted PROVE RpoOrdersBlocks
      BY DEF RpoOrdersBlocks
    <2>1. /\ SearchInv /\ IsGraph /\ stack = <<>>
      BY GraphInvIsGraph DEF CfgInv, Live, Accepted, SearchInv, SearchType
    <2>2. discovered = finished
      <3>1. \A v \in discovered \ finished : \E p : p \in DOMAIN stack
        BY <2>1 DEF SearchInv, OnPath, Holds
      <3>2. DOMAIN stack = {} /\ finished \subseteq discovered
        BY <2>1 DEF SearchInv, SearchType
      <3>. QED  BY <3>1, <3>2
    <2>3. rpo # <<>> /\ rpo[1] = 1
      BY <2>1 DEF SearchInv, EntryLast
    <2>4. ToSet(rpo) = finished /\ 1 \in finished
      <3>1. /\ rpo \in Seq(finished)
            /\ \A u \in finished : \E i \in DOMAIN rpo : rpo[i] = u
        BY <2>1 DEF SearchInv, SearchType
      <3>2. \A i \in DOMAIN rpo : rpo[i] \in finished
        BY <3>1
      <3>3. 1 \in DOMAIN rpo
        BY <2>3, <3>1
      <3>. QED  BY <2>3, <3>1, <3>2, <3>3 DEF ToSet
    <2>5. finished \subseteq ReachFrom(1)
      BY <2>1, <2>2 DEF SearchInv, AllReached
    <2>6. ReachFrom(1) \subseteq finished
      <3>1. finished \in SUBSET DOMAIN graph /\ \A x \in finished : Succ(x) \subseteq finished
        BY <2>1, <2>2 DEF SearchInv, SearchType, Behind
      <3>. QED  BY <2>4, <3>1, ReachesWithin
    <2>. QED  BY <2>1, <2>3, <2>4, <2>5, <2>6
              DEF RpoOrdersBlocks, SearchInv, SearchType, Ordered
  <1>. QED  BY <1>1, CfgInvariant, PTL

-----------------------------------------------------------------------------
(***************************************************************************)
(* The loader                                                              *)
(***************************************************************************)

LEMMA SlotsAgree == \A c, i : SlotOf(c, i) = Slot(c, i)
  BY DEF SlotOf, Slot

\* A jump of an accepted program has one destination, and it is the one the
\* interpreter's loader finds.
LEMMA JumpsResolve ==
    ASSUME NEW c \in Codes, Builds(c), NEW i \in Jumps(c)
    PROVE  /\ ResolveTarget(c, i) \in DOMAIN c
           /\ Destination(c, i, c[i].offset) = {ResolveTarget(c, i)}
  <1> DEFINE slot == SlotOf(c, i) + 1 + c[i].offset
             D == {j \in DOMAIN c : SlotOf(c, j) = slot}
             decoded == DecodedOfSlot(c)
  <1>1. PICK t : t = ResolveTarget(c, i)
    OBVIOUS
  <1>2. t \in DOMAIN c /\ DOMAIN c = 1 .. Len(c) /\ Len(c) \in Nat /\ i \in 1 .. Len(c)
    BY <1>1, ProgramIsSequence DEF Builds, Resolved, Jumps
  <1>3. t = DecodedAt(decoded, slot)
    BY <1>1 DEF ResolveTarget
  <1>4. slot \in DOMAIN decoded /\ t = decoded[slot]
    <2> HIDE DEF decoded, slot
    <2>. QED  BY <1>2, <1>3 DEF DecodedAt, OutOfBounds
  <1>5. t = Max({0} \cup D)
    <2> HIDE DEF slot
    <2>. QED  BY <1>4 DEF DecodedOfSlot
  <1>6. t \in {0} \cup D
    <2>1. {0} \cup D \in SUBSET Nat /\ \A k \in {0} \cup D : k <= Len(c)
      BY <1>2
    <2> HIDE DEF D
    <2>2. {0} \cup D # {}
      OBVIOUS
    <2>. QED  BY <1>2, <1>5, <2>1, <2>2, MaxIsGreatest, Zenon
  <1>7. SlotOf(c, t) = slot
    BY <1>2, <1>6
  <1>8. ASSUME NEW j \in DOMAIN c PROVE SlotOf(c, j) = slot <=> j = t
    <2>1. j \in Nat \ {0} /\ t \in Nat \ {0}
      BY <1>2
    <2>2. SlotOf(c, j) \in Nat /\ SlotOf(c, t) \in Nat
      BY <2>1, SlotsAgree, SlotsAreCounted
    <2>3. j < t => SlotOf(c, j) < SlotOf(c, t)
      BY <2>1, SlotsAgree, SlotsDiffer
    <2>4. t < j => SlotOf(c, t) < SlotOf(c, j)
      BY <2>1, SlotsAgree, SlotsDiffer
    <2> HIDE DEF slot
    <2>. QED  BY <1>7, <2>1, <2>2, <2>3, <2>4
  <1>9. Destination(c, i, c[i].offset) = {j \in DOMAIN c : SlotOf(c, j) = slot}
    BY SlotsAgree DEF Destination, At
  <1> HIDE DEF slot, D
  <1>10. {j \in DOMAIN c : SlotOf(c, j) = slot} = {t}
    BY <1>2, <1>8
  <1>. QED  BY <1>1, <1>2, <1>9, <1>10

\* What the loader makes of an instruction: a jump gets its target in place of
\* the offset, the rest stays as it is or traps.
LEMMA LoadedInstruction ==
    ASSUME NEW c \in Codes, Builds(c), NEW i \in DOMAIN c
    PROVE  LET ins == Lowered(c)[i]
           IN  /\ IsJump(c[i]) => /\ ins.insn = "Jump" /\ ins.op = c[i].op
                                  /\ ins.offset = ResolveTarget(c, i)
               /\ ~ IsJump(c[i]) => ins = c[i] \/ ins.insn = "Trap"
  <1>1. Lowered(c)[i] = Lower(c, i)
    BY DEF Lowered
  <1>2. ASSUME IsJump(c[i])
        PROVE  /\ Lower(c, i).insn = "Jump" /\ Lower(c, i).op = c[i].op
               /\ Lower(c, i).offset = ResolveTarget(c, i)
    <2>1. i \in Jumps(c)
      BY <1>2 DEF Jumps
    <2>2. PICK t : t = ResolveTarget(c, i) /\ Destination(c, i, c[i].offset) = {t}
      BY <2>1, JumpsResolve
    <2>3. c[i].insn = "Jump" /\ c[i].insn # "Alu" /\ {t} # {} /\ (CHOOSE x \in {t} : TRUE) = t
      BY <1>2 DEF IsJump
    <2>4. Lower(c, i) = [c[i] EXCEPT !.offset = t]
      BY <2>2, <2>3 DEF Lower
    <2>5. c[i] = Jump(c[i].width, c[i].op, c[i].dst, c[i].src, c[i].offset)
      BY <2>1, CodesAssumption
    <2>6. "insn" \in DOMAIN c[i] /\ "op" \in DOMAIN c[i] /\ "offset" \in DOMAIN c[i]
      BY <2>5 DEF Jump
    <2>. QED  BY <2>2, <2>3, <2>4, <2>6
  <1>3. ASSUME ~ IsJump(c[i])
        PROVE  Lower(c, i) = c[i] \/ Lower(c, i).insn = "Trap"
    <2>1. \A kind : Trap(kind).insn = "Trap"
      BY DEF Trap
    <2>2. c[i].insn # "Jump"
      BY <1>3 DEF IsJump
    <2>3. CASE c[i].insn = "Alu" /\ c[i].op \in {"EndLe", "EndBe"}
      <3>1. c[i].insn # "Unknown"
        BY <2>3
      <3>. QED  BY <2>1, <2>2, <2>3, <3>1 DEF Lower
    <2>4. CASE c[i].insn = "Unknown"
      BY <2>1, <2>4 DEF Lower
    <2>5. CASE /\ c[i].insn # "Unknown"
               /\ ~ (c[i].insn = "Alu" /\ c[i].op \in {"EndLe", "EndBe"})
      BY <2>2, <2>5 DEF Lower
    <2>. QED  BY <2>3, <2>4, <2>5
  <1>. QED  BY <1>1, <1>2, <1>3

\* ebpf-cfg/src/lib.rs:15: for every program, the edges of a block are exactly
\* the ways the interpreter can go on from its last instruction, and the edge
\* of a taken branch is the one the loader resolved.
THEOREM EdgesCorrect == Spec => []EdgesMirrorVm
  <1>1. CfgInv => EdgesMirrorVm
    <2> SUFFICES ASSUME CfgInv, Accepted, NEW b \in DOMAIN graph,
                        \/ IsJump(code[BlockLast(code, b)])
                        \/ Lowered(code)[BlockLast(code, b)].insn # "Trap"
                 PROVE  LET last == BlockLast(code, b)
                        IN  /\ Succ(b) = {BlockOfPc(code, n) : n \in VmNext(last) \cap DOMAIN code}
                            /\ \A n \in DOMAIN graph[b] : graph[b][n].to \in VmNext(last)
                            /\ \A n \in DOMAIN graph[b] :
                                  graph[b][n].kind = "BranchTrue" =>
                                      graph[b][n].to = Lowered(code)[last].offset
      BY DEF EdgesMirrorVm
    <2>1. /\ code \in Codes /\ Builds(code) /\ b \in Leaders(code)
          /\ graph[b] = EdgesOf(code, b)
      BY DEF CfgInv, Live, Accepted, GraphInv
    <2>2. PICK c, last, target, ins, E :
             /\ c = code /\ last = BlockLast(code, b) /\ target = ResolveTarget(code, last)
             /\ ins = Lowered(code)[last] /\ E = EdgesOf(code, b)
      OBVIOUS
    <2> DEFINE next(kind) == IF last < Len(c) THEN <<Edge(kind, last + 1)>> ELSE <<>>
    <2>3. /\ last \in 1 .. Len(c)
          /\ last < Len(c) => last + 1 \in Leaders(c)
          /\ IsJump(c[last]) => target \in Leaders(c)
          /\ IsConditional(c[last]) => E = next("BranchFalse") \o <<Edge("BranchTrue", target)>>
          /\ IsJump(c[last]) /\ ~ IsConditional(c[last]) => E = <<Edge("Unconditional", target)>>
          /\ ~ IsJump(c[last]) /\ c[last].insn = "Exit" => E = <<>>
          /\ ~ IsJump(c[last]) /\ c[last].insn # "Exit" => E = next("Fallthrough")
      BY <2>1, <2>2, BlockEdges
    <2>4. DOMAIN c = 1 .. Len(c) /\ Len(c) \in Nat /\ Leaders(c) \subseteq 1 .. Len(c)
      BY <2>1, <2>2, ProgramIsSequence, LeadersAreInstructions
    <2>5. \A l \in Leaders(c) : BlockOfPc(c, l) = l
      BY <2>1, <2>2, LeaderOfLeader DEF BlockOfPc
    <2>6. /\ IsJump(c[last]) => /\ ins.insn = "Jump" /\ ins.op = c[last].op
                                /\ ins.offset = target
          /\ ~ IsJump(c[last]) => ins = c[last]
      BY <2>1, <2>2, <2>3, <2>4, LoadedInstruction
    <2>7. VmNext(last) = CASE ins.insn \in {"Exit", "Trap"} -> {}
                           [] IsJump(ins) -> {ins.offset} \cup (IF IsConditional(ins) THEN {last + 1} ELSE {})
                           [] OTHER -> {last + 1}
      BY <2>2 DEF VmNext
    <2> DEFINE V == VmNext(last)
               Mirrored == /\ Targets(E) = {BlockOfPc(c, n) : n \in V \cap DOMAIN c}
                           /\ \A n \in DOMAIN E : E[n].to \in V
                           /\ \A n \in DOMAIN E :
                                 E[n].kind = "BranchTrue" => E[n].to = ins.offset
    <2> SUFFICES Mirrored
      BY <2>1, <2>2 DEF Succ
    <2> HIDE DEF V
    <2>8. CASE IsConditional(c[last])
      <3>1. IsJump(c[last]) /\ ins.insn = "Jump" /\ IsConditional(ins) /\ ins.offset = target
        BY <2>6, <2>8 DEF IsJump, IsConditional
      <3>2. V = {target, last + 1}
        BY <2>7, <3>1 DEF V, IsJump
      <3>3. target \in DOMAIN c /\ BlockOfPc(c, target) = target
        BY <2>3, <2>4, <2>5, <3>1
      <3>4. CASE last < Len(c)
        <4>1. last + 1 \in DOMAIN c /\ BlockOfPc(c, last + 1) = last + 1
          BY <2>3, <2>4, <2>5, <3>4
        <4>2. E = <<Edge("BranchFalse", last + 1), Edge("BranchTrue", target)>>
          BY <2>3, <2>8, <3>4
        <4>3. DOMAIN E = {1, 2} /\ E[1] = Edge("BranchFalse", last + 1) /\ E[2] = Edge("BranchTrue", target)
          BY <4>2
        <4>. QED  BY <3>1, <3>2, <3>3, <4>1, <4>3 DEF Targets, Edge
      <3>5. CASE ~ last < Len(c)
        <4>1. last + 1 \notin DOMAIN c
          BY <2>3, <2>4, <3>5
        <4>2. E = <<Edge("BranchTrue", target)>>
          BY <2>3, <2>8, <3>5
        <4>3. DOMAIN E = {1} /\ E[1] = Edge("BranchTrue", target)
          BY <4>2
        <4>. QED  BY <3>1, <3>2, <3>3, <4>1, <4>3 DEF Targets, Edge
      <3>. QED  BY <3>4, <3>5
    <2>9. CASE IsJump(c[last]) /\ ~ IsConditional(c[last])
      <3>1. ins.insn = "Jump" /\ ~ IsConditional(ins) /\ ins.offset = target
        BY <2>6, <2>9 DEF IsJump, IsConditional
      <3>2. V = {target}
        BY <2>7, <3>1 DEF V, IsJump
      <3>3. target \in DOMAIN c /\ BlockOfPc(c, target) = target
        BY <2>3, <2>4, <2>5, <2>9
      <3>4. DOMAIN E = {1} /\ E[1] = Edge("Unconditional", target)
        BY <2>3, <2>9
      <3>. QED  BY <3>2, <3>3, <3>4 DEF Targets, Edge
    <2>10. CASE ~ IsJump(c[last]) /\ c[last].insn = "Exit"
      <3>1. V = {}
        BY <2>6, <2>7, <2>10 DEF V
      <3>2. DOMAIN E = {}
        BY <2>3, <2>10
      <3>. QED  BY <3>1, <3>2 DEF Targets
    <2>11. CASE ~ IsJump(c[last]) /\ c[last].insn # "Exit"
      <3>1. V = {last + 1}
        BY <2>2, <2>6, <2>7, <2>11 DEF V
      <3>2. CASE last < Len(c)
        <4>1. last + 1 \in DOMAIN c /\ BlockOfPc(c, last + 1) = last + 1
          BY <2>3, <2>4, <2>5, <3>2
        <4>2. E = <<Edge("Fallthrough", last + 1)>>
          BY <2>3, <2>11, <3>2 DEF IsJump
        <4>3. DOMAIN E = {1} /\ E[1] = Edge("Fallthrough", last + 1)
          BY <4>2
        <4>4. \A n \in DOMAIN E : E[n].to = last + 1 /\ E[n].kind # "BranchTrue"
          BY <4>3 DEF Edge
        <4>5. Targets(E) = {last + 1}
          BY <4>3, <4>4 DEF Targets
        <4>6. {BlockOfPc(c, n) : n \in V \cap DOMAIN c} = {last + 1}
          BY <3>1, <4>1
        <4>. QED  BY <3>1, <4>4, <4>5, <4>6
      <3>3. CASE ~ last < Len(c)
        <4>1. last + 1 \notin DOMAIN c
          BY <2>3, <2>4, <3>3
        <4>2. DOMAIN E = {}
          BY <2>3, <2>11, <3>3
        <4>. QED  BY <3>1, <4>1, <4>2 DEF Targets
      <3>. QED  BY <3>2, <3>3
    <2>. QED  BY <2>8, <2>9, <2>10, <2>11 DEF IsConditional
  <1>. QED  BY <1>1, CfgInvariant, PTL

=============================================================================
