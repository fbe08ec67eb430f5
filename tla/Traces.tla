------------------------------- MODULE Traces -------------------------------
(***************************************************************************)
(* What a program does that the outside can see: its loads, stores, calls  *)
(* with their arguments, its result and its faults, in order, as a trace.  *)
(* Memory and helpers answer with a value that depends on the run and on   *)
(* how many answers there were, so two programs with the same trace do the *)
(* same to every memory and every helper.  Bytecode is run the way         *)
(* Vm::step runs it, SSA form by its meaning: versions are assigned, phis  *)
(* of a block all at once when it is entered.                              *)
(***************************************************************************)
EXTENDS SsaBuild

CONSTANTS
    Fuel,     \* bound on the steps of a run
    Runs      \* runs differ in the context and the answers

Lower == INSTANCE Exec

Frame == 64
Context(run) == 5 + run
Answer(run, trace) == Signed((37 * run + 53 * Len(trace) + 11) % 2 ^ WordBits, WordBits)

Load(size, addr) == <<"load", size, addr>>
Store(size, addr, value) == <<"store", size, addr, value>>
CallTo(func, args) == <<"call", func, args>>
Result(value) == <<"exit", value>>
Fault(kind) == <<"fault", kind>>

\* A machine that goes on forever has an unfinished trace.
Finished(trace) == trace # <<>> /\ trace[Len(trace)][1] \in {"exit", "fault"}
Agree(s, t) ==
    IF Finished(s) /\ Finished(t) THEN s = t ELSE SE!IsPrefix(s, t) \/ SE!IsPrefix(t, s)

\* Fuel steps from m, none after the end of the trace.
Trace(m0, step(_)) ==
    LET m[n \in Nat] ==
            IF n = 0 THEN m0
            ELSE LET prev == m[n - 1] IN IF Finished(prev.trace) THEN prev ELSE step(prev)
    IN  m[Fuel].trace

-----------------------------------------------------------------------------
(***************************************************************************)
(* Bytecode: m.at is the program counter.                                  *)
(***************************************************************************)

Set(m, r, value) == [m EXCEPT !.regs = IF r = 10 THEN @ ELSE [@ EXCEPT ![r] = value], !.at = @ + 1]
See(m, event) == [m EXCEPT !.trace = Append(@, event)]

VmStep(run, code, m) ==
    IF m.at \notin DOMAIN code THEN See(m, Fault("off"))
    ELSE
    LET i == code[m.at]
        value(o) == IF IsReg(o) THEN m.regs[o.reg] ELSE o.imm
        answer == Answer(run, m.trace)
    IN  CASE i.insn = "Alu" -> Set(m, i.dst, AluApply(i.op, m.regs[i.dst], value(i.src), i.width))
          [] i.insn = "LoadImm64" -> Set(m, i.dst, i.imm)
          [] i.insn = "Load" ->
                See(Set(m, i.dst, answer), Load(i.size, Wrap(m.regs[i.base] + i.offset)))
          [] i.insn = "Store" ->
                See([m EXCEPT !.at = @ + 1],
                    Store(i.size, Wrap(m.regs[i.base] + i.offset), value(i.src)))
          [] i.insn = "Call" ->
                See(Set(m, 0, answer), CallTo(i.func, [n \in 1..5 |-> m.regs[n]]))
          [] i.insn = "Exit" -> See(m, Result(m.regs[0]))
          [] i.insn = "Trap" -> See(m, Fault(IF i.kind = "JumpOutOfBounds" THEN "off" ELSE "trap"))
          [] IsJump(i) ->
                [m EXCEPT !.at = IF \/ ~ IsConditional(i)
                                    \/ JumpTakenW(i.op, m.regs[i.dst], value(i.src), i.width)
                                 THEN i.offset ELSE @ + 1]

VmTrace(run, code) ==
    LET lowered == Lower!Lowered(code)
    IN  Trace([at |-> 1, trace |-> <<>>,
               regs |-> [r \in Registers |-> IF r = 10 THEN Frame ELSE IF r = 1 THEN Context(run) ELSE 0]],
              LAMBDA m : VmStep(run, lowered, m))

-----------------------------------------------------------------------------
(***************************************************************************)
(* SSA form: m.block and m.at say where, m.env maps versions to values.    *)
(***************************************************************************)

\* A version that was never assigned has some value.
Junk == 99

Enter(p, m, from, to) ==
    LET phis == SelectSeq(p.blocks[to], LAMBDA i : i.kind = "Phi")
        inputs(i) == {i.args[n].val : n \in {k \in DOMAIN i.args : i.info.preds[k] = from}}
        value(i) == IF inputs(i) = {} THEN Junk ELSE m.env[CHOOSE v \in inputs(i) : TRUE]
        new(v) == {n \in DOMAIN phis : phis[n].dst = v}
    IN  [m EXCEPT !.block = to, !.at = 1,
                  !.env = [v \in DOMAIN @ |->
                             IF new(v) = {} THEN @[v] ELSE value(phis[CHOOSE n \in new(v) : TRUE])]]

Leave(p, m, to) == IF to = None THEN See(m, Fault("off")) ELSE Enter(p, m, m.block, to)

SsaStep(run, p, m) ==
    IF m.at > Len(p.blocks[m.block])
    THEN Leave(p, m, IF LiveEdges(p, m.block) = <<>> THEN None ELSE LiveEdges(p, m.block)[1].to)
    ELSE
    LET i == p.blocks[m.block][m.at]
        value(n) == IF IsVal(i.args[n]) THEN m.env[i.args[n].val] ELSE i.args[n].imm
        set(x) == [m EXCEPT !.at = @ + 1,
                            !.env = IF i.dst = None THEN @ ELSE [@ EXCEPT ![i.dst] = x]]
        answer == Answer(run, m.trace)
    IN  CASE i.kind \in {"Const", "LoadImm64"} -> set(i.info.value)
          [] i.kind = "FramePtr" -> set(Frame)
          [] i.kind = "EntryCtx" -> set(Context(run))
          [] i.kind = "Copy" -> set(value(1))
          [] i.kind = "Phi" -> [m EXCEPT !.at = @ + 1]
          [] i.kind = "BinOp" ->
                IF IsBadEnd(p, i) THEN See(m, Fault("trap"))
                ELSE set(AluApply(i.info.op, value(1), value(2), i.info.width))
          [] i.kind = "Load" -> See(set(answer), Load(i.info.size, Wrap(value(1) + i.info.offset)))
          [] i.kind = "Store" ->
                See([m EXCEPT !.at = @ + 1], Store(i.info.size, Wrap(value(1) + i.info.offset), value(2)))
          [] i.kind = "Call" -> See(set(answer), CallTo(i.info.func, [n \in 1..5 |-> value(n)]))
          [] i.kind = "Exit" -> See(m, Result(value(1)))
          [] i.kind = "Ja" -> Leave(p, m, i.info.target)
          [] i.kind = "Br" ->
                Leave(p, m, IF JumpTakenW(i.info.op, value(1), value(2), i.info.width)
                            THEN i.info.yes ELSE i.info.no)

SsaTrace(run, p) ==
    LET start == [v \in 0 .. (p.next - 1) |->
                    IF v = 0 THEN 0 ELSE IF v = 1 THEN Frame ELSE IF v = 2 THEN Context(run) ELSE Junk]
        m0 == [block |-> 1, at |-> 1, env |-> start, trace |-> <<>>]
    IN  Trace(Enter(p, m0, StartPred, 1), LAMBDA m : SsaStep(run, p, m))
=============================================================================
