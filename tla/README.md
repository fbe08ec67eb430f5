# Verification of ebpf-lab

TLA+ models of [ebpf-lab](../src/README.md), an eBPF laboratory in Rust: a
static verifier, an interpreter with maps and an XDP packet simulator, a
control-flow graph builder, an SSA optimizer and a command line around them.
The modules here model its decision-making code, TLC checks them on small
instances, and TLAPS proves the most important properties for every instance.

The code is sequential. What makes it hard is not concurrency but long chains of
small steps over several pieces of state that must stay in agreement: a worklist
with flags and generation counters, a cache with two recency indexes, an abstract
domain that must never promise more than the machine keeps.

## 1. Inventory

| Part | State | Operations | Talks to |
|------|-------|------------|----------|
| Instruction set (`ebpf-isa`) | none | decode, encode, `AluOp::apply` | everything |
| Control-flow graph (`ebpf-cfg`) | leaders, blocks, edges, reverse postorder | `build_cfg`, `has_back_edge` | verifier, SSA |
| Verifier worklist (`verify.rs`) | entry state, generation, iteration count and snapshot per block; queue and flags | pop, transfer, merge, widen, decide | domain, transfer, loop bounds |
| Abstract domain (`state.rs`, `refine.rs`) | `Range`, `RegType`, `VerifierState` | join, meet, widen, arithmetic, refine | worklist, transfer |
| Instruction checks (`verify.rs`) | the abstract state of one block | `check_and_transfer`, helper signatures, bound checks | domain, map table |
| Loop bounds (`bound.rs`) | natural loops, trip counts | `enforce_loop_bounds` | snapshots of the worklist, CFG |
| Map storage (`maps.rs`) | entries; recency index and reverse index of an LRU map | new, lookup, update, delete | map helpers |
| Interpreter (`ebpf-vm`) | registers, pc, step count, map stores | `step`, helpers | memory, map storage |
| Memory (`memory.rs`) | stack bytes and their init bits, packet, context, map scratch, read-only data | load, store | interpreter |
| XDP runner (`xdp.rs`) | packet, action | `run_xdp` | interpreter |
| SSA optimizer (`ebpf-ssa`) | SSA program, phi nodes, allocation | build, optimize, lower | CFG |
| ELF loader, disassembler, trace, command line | none of their own | parsing and formatting | everything |

How they interact: bytes are decoded once; the CFG is built from the
instructions; the verifier runs its worklist over the CFG and asks the loop-bound
pass at the end; the interpreter runs the same instructions over its memory and
map stores. The project's central promise is the differential oracle of
`crates/ebpf-verifier/tests/differential.rs`: a program the verifier accepts never
makes the interpreter fault on memory.

Hard behaviours and the properties that make each part correct:

* **Worklist.** A block may be re-merged while it waits, while it is being
  propagated (self loop) or after it was processed. Correct: nothing is lost, the
  loop ends, and it ends exactly at a post-fixed point.
* **Domain.** Saturation and wrapping at the ends of the word, unsigned against
  signed comparisons, 32-bit truncation. Correct: merges are upper bounds, and
  each operation contains every word the machine can compute.
* **Transfer.** Types of pointers, initialisation of stack bytes, null checks of
  map pointers. Correct: what it accepts the machine can do.
* **Loop bounds.** Trip counts at the edge of the word. Correct: a bounded loop
  really stops within its bound.
* **Map storage.** Three collections per LRU map. Correct: they agree, capacity
  holds, the victim is the least recently used entry, a failure changes nothing.
* **Interpreter and memory.** One scratch region shared by all maps; bounds before
  alignment; byte-wise initialisation.
* **Control flow.** Offsets count slots, the program counter counts instructions,
  and two places resolve one into the other. Correct: both agree with the bytecode.
* **Optimizer.** Phis completed before their predecessors, passes that feed each
  other, homes shared by versions, parallel moves emitted one by one, registers kept
  over calls. Correct: whatever comes out does what went in.

`PROJECT.json` lists the hazards at their lines, with the properties that would
catch them.

## 2. Modules

| Module | What it is |
|--------|------------|
| `Insn`, `Alu` | decoded instructions; machine words, ALU and comparisons of both widths |
| `RangeDomain`, `RangeBits` | `Range` and `refine`: the interval lattice, its arithmetic, branch refinement; the operators that need bits |
| `AbsState` | `RegType` and `VerifierState`: register types, stack initialisation, join and widen |
| `Precision` | where the operators of the domain lose no word |
| `Scalars` | one scalar register for the verifier and the machine at once |
| `Fixpoint` | the worklist of `verify_core` and `merge_successor`, over a program and a domain given as constants |
| `Transfer` | `check_and_transfer`, helper signatures, bounds checks, `refine_edge` |
| `TripCount`, `LoopBound`, `LoopRun` | the trip arithmetic of `bound.rs`; the rest of it; a program with bounded loops on a machine that counts |
| `BpfMap`, `MapStore` | abstract specification of a map; `MapStore` of `maps.rs`, with its three collections |
| `FlatMemory`, `Memory` | abstract specification of the interpreter's memory; `MemoryView` of `memory.rs` |
| `SlotFlow` | abstract specification of control flow: slots, as the bytecode states it |
| `Exec`, `Machine`, `Vm` | lowering to executable form; the effect of one instruction; `run` and its budget |
| `Oracle` | `Transfer` and `Machine` taking the same instructions, with merges between them |
| `Cfg`, `CfgBuild` | slots, leaders, blocks, edges; `build_cfg` with the depth-first search |
| `Ssa`, `SsaBuild`, `SsaOpt`, `SsaAlloc`, `SsaLower` | the SSA form; construction; passes; allocation; lowering |
| `Traces`, `Optimizer` | what the outside sees of a program; the pipeline of `ebpf-lab optimize` |
| `MC...` | TLC instances |
| `VerifierProofs` | theorems and proofs: ranges, refinement, register types and states; `Transfer` beside `Machine`; trip counts |
| `MachineProofs` | words and the ALU; the effect of one instruction |
| `FixpointProofs`, `CfgProofs` | the worklist; the graph and its search |
| `ExecProofs` | induction on numbers and finite sets, sums over sets, slots of instructions |
| `MapStoreProofs`, `MemoryProofs`, `VmProofs` | map storage, memory, the run of a program |

How they are composed: `Machine` uses `Memory` for loads and stores and `Alu` for
arithmetic; `Vm` adds `Exec` and the program counter; `Oracle` puts `Machine` and
`Transfer` on one path; `LoopRun` runs `Alu` under the counts of `LoopBound`, which
reads the graph of `Cfg`; `Optimizer` goes from `CfgBuild` through the five `Ssa`
modules and compares the ends in `Traces`, with `Exec` for the bytecode.

### Fixpoint

Blocks are numbers; a program carries its blocks, entry, reverse postorder and
outgoing edges in the order the graph iterates them. `states`, `statesGen`,
`processedGen`, `iterations`, `snapshots`, `queue` and `queued` are the variables of
`verify_core`. `cur` is the position inside one turn of the loop: the block being
propagated, the copy of its entry state and the next edge. The model takes one
step per edge, because a merge on one edge can change the very block whose other
edges are still to come, and that is where such loops go wrong. `visited` stands
for the per-instruction `visited` array: all instructions of a block are counted
together.

| Action | Code |
|--------|------|
| `ProcessBlock`, `RejectBlock` | one turn of the loop up to the propagation: pop, the two `continue`s, the clone, the checks of every instruction |
| `MergeFirst`, `MergeUnchanged`, `MergeChanged` | `refine_edge` and `merge_successor` for one edge |
| `Decide` | the drained queue and `enforce_loop_bounds` |

Abstracted: the checks and transfer of a block (`Checks`, `BlockExit`), the edge
refinement (`RefineEdge`) and the loop-bound verdict (`Bounded`) are constants, so
the theorems hold for whatever these compute. Generations are unbounded numbers;
in the code they are `u32`, and `AscentBounded` limits them to 1 + the threshold + the
height of the widened domain. For eleven registers and 512 stack bytes that height is
567 (`StateHeight`), so with any usual threshold they stay far below 2^32. A snapshot
holds a whole state here and only its registers in the code.

`Rank` says how often widening can still change a state; of `Join` nothing of the kind
is assumed. `Remaining` is what the loop has left to do: for each block, the changes it
may still see and its place in the queue, each worth a walk over its edges; the edges
of the block being propagated; and the verdict.

The reverse postorder that the CFG hands over lists exactly the reachable blocks;
`IsProgram` states it, with reachability as the least set closed under edges.

### RangeDomain and AbsState

The word is a parameter (`IMax`, and `UMax32` for its low half), so TLC works on
short words and the proofs cover every size. `Canonical` is the first
match of `refine` and `Refine` the second. The map table, packet length and data
length of a `VerifierState` are configuration that nothing assigns after the entry
state is built; they are left out of the state.

### MapStore and BpfMap

One store of each kind. A key is a number (for an array the slot that its bytes
encode, for the other kinds its place in the order of byte strings, in which
`MapStore::new` stamps the initial entries), or `WrongWidth`, a key of another
width. `Touch` is `lru_touch`, taking the indexes as arguments because an eviction
has already shortened them. `MaxSeq` is the end of the stamp counter: in the code
2^64, in the model a bound on the length of a run.

`BpfMap` does not know stamps. It keeps `older`, the relation "was used less
recently than", and `MapStore` defines it from its stamps: that is the refinement
mapping.

### Memory and FlatMemory

A register value is the sequence of its eight bytes, so the little-endian
conversions become shifts of an index. `Load`, `Store` and `LoadBytes` are the
methods with their region dispatch; the five per-region functions differ only in
where their bytes are (`Contents`, `Base`) and in what they report
(`BoundsFault`), and stand together. `IsInit` and `Marked` keep the two 64-bit
masks of the code apart. Each of the remaining actions is the setter of its name.
`ret` is the result of the last call. Stack size and distance of the bases are
constants; addresses are unbounded numbers (the code guards its subtractions with
`checked_sub`). The `u32` saturation of `set_packet` needs a packet of four
gigabytes and is left out.

`FlatMemory` has no regions and no bitmap: it keeps the readable bytes as a
function and the writable addresses as a set. Every access is served exactly when
all its bytes may be. `Memory` defines both from its own state, as its refinement
mapping. The promise holds while payloads are shorter than the distance between
two bases, since classification looks only at the first address.

### Insn and Alu

Instructions are records. A word has eight bytes of `ByteBits` bits; registers hold
signed words as in the code (`i64`), every result is reduced to the word, and 32-bit
operations work on half words. Shift counts are masked, division and modulo by zero
give 0, as in `alu64` and `alu32`. Byte swaps move groups of
`ByteBits` bits.

### Scalars

`range` is what the verifier keeps, `word` what the machine holds. `Operate` is
`alu_transfer` beside `AluOp::apply`, `Swap` the same for byte swaps, `Branch` is
`refine` on the edge that `jump_taken` chooses, `Meet` a join or widening with another
path. The word that the other operand holds is any of the ends of its range and their
neighbours.

`OnlyPrecise` leaves out the instructions for which the verifier's operator is not
sound (see the findings), with the condition under which it is: `PreciseAlu` and
`PreciseJump` of `Precision` say where that is, so the passing run and the violations
together draw the line between the two.

### Transfer and Oracle

`Accepts(c, s, i)` is the `Ok` of `check_and_transfer`, `After(c, s, i)` the state it
leaves, `RefineBranch` the state on an edge. The helper signatures, the pointer
arithmetic and the five bounds checks are operators of their own. Diagnostics are
reduced to acceptance. The rejection of map keys and values longer than 255 bytes
(`verify.rs:251`) is left out: the model accepts more there, and what it proves of the
accepted programs covers them.

In `Oracle` a step is an instruction of a catalogue that the verifier accepts in its
state; `Machine` executes it. `abs` follows the machine: the branch taken is the one
refined. So every path of every accepted program over the catalogue is a behaviour, with
its loops unrolled. `Merge` is what `merge_successor` does where the path meets others:
the verifier goes on from the join, or the widening, of what it knows with a state
that was recorded there (`Recorded`). A path through an accepted program is such a behaviour: at
the end the states recorded for the blocks are closed under every edge (`PostFixpoint`), so the
state at the head of a block is what its predecessor left, merged into what was recorded.

The verifier's constants for addresses and sizes are declared in `Transfer` and tied to those of
`Memory` by `OracleAssumption`. `Precise...` and `Tracks...` are the conditions of
`OnlyPrecise`, as in `Scalars`: `TracksPacketJump` asks that a compared pointer has not gone around
an end of the address space, `TracksCall` that a helper knows its map and is not refused.

### Exec, Machine, Vm and SlotFlow

`Lowered` is `exec::load`: offsets become instruction numbers or traps. `Machine` has
one operator for each arm of `Vm::step` and one for each helper; `ret` is its result.
A map store is a function from keys to values (`MapStore` shows that the stores behave
as one; least-recently-used maps are left to it). `Vm.Step` is `Vm::step`, `OutOfSteps`
the end of the loop in `run`, and `Init` the set-up of `run_xdp`, or of `Vm::new` where
there is no packet. `SlotFlow` knows slots only; `Vm` maps its program counter to them.

### Cfg and CfgBuild

A block is named by its first instruction. Edges are listed in the order petgraph
iterates them, latest first, because the loop-bound pass takes the first that fits.
`Discover`, `Finish` and `Return` are the iterative depth-first search (petgraph,
external) and the end of `build_cfg`.

### LoopBound and LoopRun

`Loops` are the natural loops by dominance, `StrideSites`, `Provenance`, `Cond` and
`Kept` the shape analysis, `CountTraversals` in `TripCount` the trip arithmetic, `Totals` the nested
accounting from small bodies to large, `Enforced` the verdict. `LoopRun` starts a
machine on every accepted program, with registers anywhere in the ranges of the
snapshot, and counts executions of the latch and instructions since the loop was
entered. `OnlyPrecise` leaves out the loops whose count is about a value other than
the one tested: `PreciseCount` says when the arithmetic is right, `Precise` what else it
takes (a way out, 64-bit instructions, a single entry).

### The optimizer

A `Builder` is a record; `Fill` is one turn of the loop in `build_ssa`, `FinishSsa` its
end with `repair`. `Fold`, `CopyProp`, `Dce`, `Unreachable` are the passes, `Round` the
loop of `optimize`, `LowerSsa` the whole of `lower` with allocation. Construction and
lowering report their errors as the code does, and a declined program has no output.
The rewriting of a read through the predecessors is recursive, so these modules are
for TLC only.

`Traces` gives the meaning that both ends must share: loads, stores, calls with all five
argument registers, result and faults, in order. Memory and helpers answer with values
that depend on the run and on what was asked before; equal traces for several runs mean
that the two programs cannot be told apart. SSA form is run by its definition, with all
phis of a block at once. A program that does not end within `Fuel` steps has its trace
compared as far as it goes.

## 3. Runs

Runs that pass:

| Run | Checks | Shows |
|-----|--------|-------|
| `fixpoint` | `TypeOK`, `FlagsMatchQueue`, `ChangedIsQueued`, `QueuedIsChanged`, `PostFixpoint`, `AcceptedCountsReachable`, `DominatorsFirst`, `AscentBounded`, `Ascending`, `Drains` | on 608 programs, 3977 states: the bookkeeping is exact, acceptance means a post-fixed point, snapshots come from outside the loop, no block changes more often than widening allows, and every step uses up some of a finite amount of work |
| `map_store` | `TypeOK`, `IndexesAgree`, `StampsBehindSeq`, `WithinCapacity`, `FailureChangesNothing`, `ImplementsBpfMap` | 44866 states: every operation of every kind of map, through eviction and reuse |
| `memory` | `TypeOK`, `ContextMatchesPacket`, `ImplementsFlatMemory` | 9104 states: the view is a flat memory in which only written bytes are readable, and context and packet never part |
| `scalars` | `Covered` | the word stays in the range through three instructions of any kind and width, where the operators are sound |
| `vm` | `TypeOK`, `StoresWellFormed`, `ImplementsSlotFlow`, `FaultsLeaveStateAlone`, `Terminates` | control moves by slots, faults change nothing, map stores keep their shape, every run ends |
| `oracle` | `NoMemoryFault`, `Tracks` | the differential oracle, 360212 states: the abstract state describes the machine, no accepted access faults |
| `cfg` | `BlocksPartition`, `EdgesMirrorVm`, `RpoOrdersBlocks`, `BuildsEventually` | the promises of `ebpf-cfg/src/lib.rs`, and what `IsProgram` of `Fixpoint` assumes |
| `loop` | `WithinBound`, `Terminates` | no loop exceeds the trips or steps it was accepted with, and accepted loops end |
| `optimizer` | `PassesPreserve`, `LoweringPreserves`, `OptimizeEnds` | the trace survives construction, each pass in each round, and lowering; the rounds end |

Runs in which TLC finds the property violated. Each takes programs outside the conditions
of a passing run (`OnlyPrecise`) and shows that the conditions are needed: a comment, a
document or a test promises something the code does not keep. TLC stops at the first
counterexample; every catalogue or program of these runs, taken alone, violates the
property as well. `findings` in `PROJECT.json` quotes the lines.

| Run | Property | Programs |
|-----|----------|----------|
| `oracle_gaps` | `NoMemoryFault` | a lookup with an unknown map number leaves its key pointer unchecked (`UnknownFd`); the result of a refused delete is taken for zero (`RefusedDelete`); a packet pointer below address zero passes its bounds check (`WrappedPacket`), and one beyond the last address a signed one (`FarPacket`); the tail of a packet longer than the distance of two regions is taken for map scratch (`LongPacket`) |
| `loop_gaps` | `EndsInBudget` | a loop without exit gets a trip count; a cycle with two entries is not seen; a test at the latch is counted from the value before the stride, which is decremented away from its bound or wraps at `i64::MAX` before the first test; a counter that moves away from the value that ends it is counted; a counter that steps over zero becomes a large unsigned word; an inner loop is charged its first count on every entry |
| `lowering_gaps` | `LoweringPreserves` | a version used at an earlier position than its definition loses its home; a 32-bit move within one register is dropped; a restore after a call overwrites its result; a value is saved in a register the arguments are moved into |

The remaining conditions, each of which TLC refutes when `OnlyPrecise` is `FALSE`:

* `Scalars`: and and or of intervals that are not constants, computed on the bounds,
  lose words (`state.rs:159`); a left shift that overflows; a logical right shift of a
  range with both signs, whose bounds turn round (`state.rs:226`), although `state.rs:28`
  says "`lo <= hi` by construction"; unsigned branches on negative words
  (`refine.rs:32`); 32-bit operations and branches on words that do not fit the half.
* `Oracle`: arithmetic on a destination that was never written is accepted, and its
  result tracked as no value at all (`verify.rs:907`).
* `LoopRun`: the width of the comparison and of the stride is ignored (`bound.rs:249`), so
  a 32-bit test is counted by the whole counter.

Differences between a comment and the code that change no verdict: `ebpf-vm/src/lib.rs:6`
calls the time and random helpers built in, and `with_map_helpers` registers neither;
`ebpf-cfg/src/lib.rs:14` promises two edges for every conditional, and one at the end of
the program has one; `opt.rs:26` says rewrites strictly descend, and a phi of a loop may
be rewritten to a version minted after it (the passes still preserve the program and end).

**Bounds of `fixpoint`.** The word is -5..4 and a body may start a counter at its least
value, so that a loop can climb through it: joins alone change the entry state of such a
loop eight times, and `AscentBounded` allows seven (threshold 1, height 5: four for the
scalar register, one for the stack byte). Without the switch to widening the property
fails, and on a longer word it would fail by more. The loops on the other edge of the
comparison overflow soon. The threshold is 1, so a loop joins
once and then widens; one scalar register, the frame pointer and one stack byte
let both halves of a state change. The graphs contain a block that is its own
successor, a loop left from its header, two paths meeting, a block nothing
reaches, a loop to the entry block, a loop with two entries and two nested loops;
these are the shapes in which a merge meets a waiting, a running or a finished
block. Larger programs are covered by the proofs. Deadlock is not checked: the
verifier stops at its verdict.

**Bounds of `map_store`.** Four keys against a capacity of three make eviction and
out-of-range array slots happen; two values tell an overwrite from a no-op; six
stamps let every key of a full map be touched again and an entry be evicted, deleted
and reinserted.

**Bounds of `memory`.** The stack is two bitmap words, accessed on both sides of
their border and at both ends; widths of one and four bytes, aligned or not, overlap
there in every order. Every other region has an address inside its payload from
which a wide access runs out. The one register value has eight different bytes, so a
shift or a truncation is visible.
A packet longer than the distance between two bases is in `oracle_gaps`.

**Bounds of `scalars`.** Words of eight bits with halves of four: the sign, the border of
the half word and both ends lie close enough for three instructions to cross two of
them. All operations and comparisons, both widths, and ranges on each side of, across
and beyond those borders.

**Bounds of `vm`.** Words of 24 bits, so that addresses of all regions fit; three
instructions from a pool of eleven cover every jump across, into and out of a wide load,
the traps and the write to the frame pointer; three from a pool of ten after a prologue
cover every order of the map helpers on a hash map of one entry and an array, with a
missing map, a bad key and a bad value pointer. The budget is the longest program plus
a turn of a loop.

**Bounds of `oracle`.** Five catalogues (stack, packet, maps, data, and a packet pointer
moved to the ends of the address space), each with pointers
that reach both ends of their region, and paths of up to ten instructions, which is
what a lookup with its key, its null check and two accesses needs; merges are not
counted. One recorded state for runs without a packet, left by a lookup, and one with a packet,
left by a bounds check, each of which joins and widens in every register class. The two maps differ
in value size, so a scratch region reused for the other one is visible.

**Bounds of `cfg`.** All 7381 programs of at most four instructions from a pool of nine:
a wide load between jumps in both directions, dead blocks, self loops, irreducible loops,
bad targets, a byte swap of a width the loader turns into a trap.

**Bounds of `loop`.** Eight-bit words and a budget of 40 steps: a count that is wrong by
one, and a counter that wraps, both show. Loops tested at the latch, at the header and
into the body, nested ones, one behind other code, one with two latches, one whose stride
may be skipped and one without exit, for nine comparisons and several strides; initial
values below, at and above the bound and a range of them. The loops of `loop_gaps` start at
0, at their bound and at `IMax`. What the pass rejects, or
`OnlyPrecise` leaves out, has no behaviour.

**Bounds of `optimizer`.** Twenty programs written for the cases the code distinguishes,
and 256 from pairs of eight bodies in a loop, a loop at the entry, a diamond and a loop
with a way around; three runs tell apart the answers of memory and helpers; the fuel of
60 steps is longer than every terminating run. Nine homes, as in the code.

**Fairness.** `loop`, `vm` and `cfg` use weak fairness of the step that continues,
because `Vm::run` and the search of the graph are sequential loops that always take their
next step. `Drains` and `OptimizeEnds` need none: the first says that every step lowers a
natural number, the second bounds the number of rounds.

**Deadlock** is checked only where the system cannot stop (`map_store`, `memory`); the
other specifications end with a verdict, a result or a fault.

Each property has a mutant: a plausible slip in the modelled code (a flag not
cleared, a change not queued, an eviction before the flag check, a wide load counted as
one slot, a phi completed once, moves emitted in the order they come) under which TLC
finds the property violated. The mutated forms stand next to the definitions they vary
and are used nowhere else.

## 4. Proofs

What is proved holds for every value of the constants: every program, every word size,
every key set, stack size and budget. Each theorem names the assumptions of its module
and nothing else; TLC evaluates those on every run.

**Worklist** (`FixpointProofs`), from the four assumptions of `Fixpoint`: programs
have the shape above, the transfer functions stay in the domain, join and widen
are upper bounds of an order, and a widening that changes a state lowers its rank. `PostFixpoint` speaks only of the end, so it is not
inductive. The invariant `IInv` carries it there: every block whose two generations
agree already passes its checks and has each edge that is not still waiting in the
current propagation covered by its target (`SettledClosed`); the copy being
propagated is current unless the block was changed since (`Cursor`); a block whose
generations differ is in the queue (`ChangedIsQueued`), which rests on the flags
matching the queue. When the queue is empty and nothing is being propagated, all
reached blocks are settled, and reachability closes the rest.
`DominatorsReachedFirst` and `StatesAscend` follow from the same invariant.

That the loop ends is proved as a safety property, without fairness. `AscentIsBounded`
needs to count: until the threshold every change of a block is one of its merges, and from
there on each change costs rank (`Ascent`). With it every block can be taken off the queue
a natural number of times, and `LoopDrains` shows that each action lowers `Remaining`: a
merge that changes its target pays for the place in the queue with the change, and taking a
block pays for the walk over its edges. That needs a sum over the blocks to fall by what
one term loses (`FunctionSumBelow` in `ExecProofs`).

**Words** (`MachineProofs`): `AluClosed` says that `AluOp::apply` returns a word for every
operation, width and pair of words. Addition and negation end in a remainder, but and, or,
multiplication and byte swaps are sums of powers of two, so this needs that a number with
digits below place n is below the n-th power, which is an induction on n
(`SumBelow`). The provers do not know the operator `^`. `PowersAssumption` of `Alu` gives
them its first value and its step up to the width of a word, both facts of arithmetic, and
everything else about powers is derived. Then the module evaluates the
operations that the verifier tracks: a sum wraps, a left shift that loses no bit
multiplies, a right shift divides, and the 32-bit result of these and of and and or is the
lower half of the 64-bit one.

**Domain** (`VerifierProofs`): join, widen, add and sub contain the machine's results
(`MergesKeepWords`, `ArithmeticSound`). `RefinementSound` holds for the signed
comparisons, and for the unsigned ones where neither side is negative: `refine` treats the
two alike, and the theorem states where that is right. `AluSound` extends this to every
operation and both widths under `PreciseAlu`; its 32-bit half rests on `TruncSound`: an
interval no longer than a lower half either folds into an interval or is given up.
`RangesCoverWords` puts them together: with `OnlyPrecise`, `Covered` holds through any
sequence of instructions, branches and merges. So the conditions `PreciseAlu` and
`PreciseJump`, which the findings show to be needed, are enough for every word size, and
not only on the eight-bit words of the run. The invariant adds to `Covered` only that
the range is a range and the word a word.

`MergesAreUpperBounds` is exactly the domain assumption of `Fixpoint`, for the verifier's
own states, and `WideningUsesRank` its assumption on widening, with `StateRank` and
`StateHeight` for `Rank` and `Height`: so the worklist theorems apply to it. The proof goes from ranges to register
types to states; the order on register types ("merging changes nothing") is first given
an explicit form.

**Verifier and machine** (`VerifierProofs`): `VerifierTracks` and `VerifierSound` are the differential
oracle for every program, packet, map table, layout and word size: on a path of accepted
instructions, merged with whatever other paths recorded, `Tracks` and
`NoMemoryFault` hold. There are two hypotheses. `OnlyPrecise` leaves out the
instructions of the findings; with them the promise does not hold (`oracle_gaps`). `PayloadsFit` says that packets and map values are no longer
than the distance of two regions and that read-only data ends before the last address; it
extends the condition of `MemoryProofs` to the maps, and `MCOracle` has TLC check it on the
instance (`MCFits`).

Neither property is inductive alone: that an access is served needs what the registers hold, and
what the registers hold after a load needs that it was served. The invariant
`PathInv` is both, with the types (`MachineInv`, `AbsState`), what was staged at the start
(`StagedInv`) and `OnlyLookupPoints`: only r0 is ever typed as a pointer to a map value. All maps
share one scratch region, so a lookup changes what every earlier pointer reads; the verifier
keeps no such pointer anywhere else, and the next call replaces r0. `StepHolds` has a lemma for each kind of
instruction (`AluSound` and pointer shifts; loads by region;
stores with the bits they set; helpers; branches by `BranchSound` and its counterpart for
packet pointers), and `MergeHolds` rests on
`StandsAbove`: a register type that is higher in the order describes every word that the lower one
does, so the upper bounds of `MergesAreUpperBounds` keep `Tracks`. A boundary that the
model had missed came out of a proof step that failed: a signed comparison of a packet pointer is
misled when the pointer has gone around the upper end (`FarPacket`, now in both runs).

**Trip counts** (`VerifierProofs`): `TripsCovered` says of `CountTraversals`, for every word size,
range, immediate and stride, that a counter which moves by its stride and passes its test
n times in a row, from a value of its range, has n at most the count of
`bound.rs`. It holds under `PreciseCount`, the arithmetic part of the condition of
the run `loop`. `Rounds` shows that a counter which does not wrap is
where its strides have brought it; that it does not wrap follows from the test, since an
immediate and a stride lie far from the ends of the word, except before the first test of a loop that
is tested after its stride. That exception was missing from `PreciseCount` until the proof asked for it,
and is now a program of `loop_gaps`.

**Maps** (`MapStoreProofs`): `Sound` (types, agreeing indexes, stamps behind `seq`,
capacity) is inductive. From it follow the four invariants, each a theorem of its own
(`StampsBehindSeq` is `StoreStampsFresh`), that failures change nothing,
and that `MapStore` implements `BpfMap` for any finite key set, any values and any
capacity. The core of the refinement is that touching a key makes it the newest in
`older`, and that the key of the least stamp has nothing older.

**Memory** (`MemoryProofs`): `MemInv`, the types and that the context describes the
packet, is inductive. `FlatMemoryImplemented` shows every load, store, bulk read and
setter to be a step of `FlatMemory`, given that payloads are shorter than the distance of
two bases (`PayloadsFit`). The hypothesis is needed: without it the regions overlap and
`oracle_gaps` shows the fault. The code keeps it for every packet shorter than 64 KiB, as Ethernet frames are. Most of the
proof is that the regions are disjoint, and that one mask and two masks of the bitmap mark
exactly the bytes of an access that lies in one or crosses into the next word.

**Graph** (`CfgProofs`), from `CodesAssumption` (programs are sequences): `CfgInv` says
that the graph holds the blocks of the program and their edges (`GraphInv`), and of the search
(`SearchInv`) that the entry stays at the bottom of the stack and is finished last
(`EntryLast`); that what lies above an unfinished block on the stack was reached from it and
holds those of its successors that are not yet discovered (`OnPath`); that only reachable blocks are
met (`AllReached`); and that a finished block has an unfinished successor, and an edge of
`rpo` leads backwards, only on a cycle (`Behind`, `Ordered`).
`BlocksCorrect`, `OrderCorrect` and `EdgesCorrect` follow at the end.
The last compares the edges with the loader of the interpreter. An instruction the loader
turns into a trap has a successor in the graph and none in the machine; jumps are the
exception, whose edges agree trap or not.

**Slots and sums** (`ExecProofs`): a slot is a sum over the instructions before it.
The community modules define such sums by a recursion over sets in an arbitrary order;
`SumAccumulates` shows that the order does not matter, by induction on finite sets in the
form "a set of sets that contains a set with all its smaller ones contains everything".
The library's induction theorems take an operator and cannot be used; stated for a set
instead (`NumberInduction`, `SubsetInduction`) they can.

**Interpreter** (`VmProofs`), from the assumptions on programs (instructions as the decoder
returns them), packets (bytes), the map table and the layout of the regions:
`ErrorsChangeNothing` (a step that faults has changed nothing);
`MapsKeepTheirLimits` (invariant `MapsInv`: each entry has the widths of its map and no map
outgrows its limit); `LoadedCodeKeepsItsFlow` (invariant `FlowInv`: the executable is the
lowered program and the counter inside it; then `Vm` implements `SlotFlow`, fault for
fault); and `RegistersAreWords`, the type of the state. The last needs more than registers: a
load assembles its word from bytes, so every place that can be read must hold bytes (`BytesInv`,
`MasksInv`, `RegsInv`), and a byte swap has a result only for widths that the loader has
let through.

**Only model-checked.** Liveness (`Terminates` of `Vm` and `LoopRun`, `BuildsEventually`) is
outside TLAPS. `WithinBound` of `LoopRun` is proved in its arithmetic (`TripsCovered`) and
checked in the rest: that a round of an arbitrary graph passes its stride once, and the totals of nested
loops, rest on recursion over the graph and over sets of loops. It has no proof for
every graph as it stands: a cycle that is no natural loop, inside one, would break it, and the code does
not look for such cycles (the finding at `bound.rs:120`). The optimizer (`PassesPreserve`,
`LoweringPreserves`, `OptimizeEnds`) is built with recursive operators, which the
provers cannot use: a read is rewritten through the predecessors.

## 5. Not modelled, and what could follow

Left out:

* decoding and encoding of instructions (`decode.rs`, `encode.rs`, `opcode.rs`): tables
  of bit fields without state, of which a model would be a copy;
* ELF parsing and relocation (`ebpf-elf`): reading of a binary format;
* disassembly, rendering of the graph, of SSA form and of verifier traces, names of XDP
  actions and the annotation of packet headers: display;
* hex and JSON input and the command line: input handling, except the order of calls in
  `cmd_optimize`;
* helpers registered by the caller (`with_helpers`) and least-recently-used maps inside
  `Machine`: the first are code outside the repository, the second are in `MapStore`.

Next, in this order:

1. the shape half of `WithinBound`, for reducible graphs: that `Provenance` makes the stride happen
   once in every round, with `Closure` stated as a least set instead of a recursion;
2. the composition of `Fixpoint` with `Oracle` as one module, which would turn the argument about
   `Merge` above into a refinement;
3. construction of SSA form without recursive operators, so that `PassesPreserve` can be proved
   pass by pass.
