------------------------------ MODULE SsaAlloc ------------------------------
(***************************************************************************)
(* Register allocation (ebpf-ssa/src/alloc.rs): live ranges over flat      *)
(* positions, then one home per version in the order of the definitions.   *)
(***************************************************************************)
EXTENDS Ssa

CONSTANT Pool   \* POOL: <<0, 2, 3, 4, 5, 6, 7, 8, 9>>

-----------------------------------------------------------------------------
(***************************************************************************)
(* Liveness                                                                *)
(***************************************************************************)

\* reg_uses: a phi reads an input at the end of the block it comes from.
RegUses(p) ==
    UNION {IF s.insn.kind = "Phi"
           THEN {[at |-> End(p, s.insn.info.preds[n]), v |-> s.insn.args[n].val] :
                    n \in {m \in DOMAIN s.insn.args : s.insn.info.preds[m] \in p.live}}
           ELSE {[at |-> s.at, v |-> v] : v \in Uses(s.insn)} : s \in LiveSites(p)}

\* start_uses
StartUses(p) ==
    UNION {{[at |-> s.at, v |-> s.insn.args[n].val] :
               n \in {m \in DOMAIN s.insn.args : s.insn.info.preds[m] = StartPred}} :
           s \in {t \in LiveSites(p) : t.insn.kind = "Phi"}}

CallsAt(p) == {s.at : s \in {t \in LiveSites(p) : t.insn.kind = "Call"}}

\* Whether a position is in a block on a cycle.  The position behind the last
\* instruction of a block belongs to whatever block follows.
InCycle(p, at) == \E s \in LiveSites(p) : s.at = at /\ OnCycle(p, s.block)

Highest(S) == CHOOSE x \in S : \A y \in S : y <= x

\* live_ranges_from: up to one past the last use, or to the end of the program
\* for a use in a cycle or before the definition.  The value an entry loop
\* starts with may share the home of the phi that reads it.
LiveRanges(p) ==
    [v \in {s.insn.dst : s \in LiveSites(p)} \ {None} |->
        LET from == (CHOOSE s \in Defs(p, v) : TRUE).at
            pseudo == DefinedBy(p, v, {"FramePtr", "EntryCtx"})
            use(u) == IF InCycle(p, u.at) \/ u.at < from THEN Size(p) ELSE u.at + 1
            start(u) == IF (InCycle(p, u.at) /\ ~ pseudo) \/ u.at < from THEN Size(p) ELSE u.at
        IN  [from |-> from,
             to |-> Highest({from} \cup {use(u) : u \in {w \in RegUses(p) : w.v = v}}
                                   \cup {start(u) : u \in {w \in StartUses(p) : w.v = v}})]]

-----------------------------------------------------------------------------
(***************************************************************************)
(* allocate.  a.homes maps versions to registers, a.active are the homes   *)
(* taken at the current definition.                                        *)
(***************************************************************************)

\* Versions that need a home: those read, loaded, or the result of a trap.
Used(p) ==
    ({u.v : u \in RegUses(p) \cup StartUses(p)}
        \cup {s.insn.dst : s \in {t \in LiveSites(p) : t.insn.kind = "Load" \/ IsBadEnd(p, t.insn)}})
            \ {None}

\* The registers the calling convention wants a version in.
ArgPrefs(p, v) ==
    LET calls == SelectSeq(Live(p), LAMBDA s : s.insn.kind = "Call")
    IN  SE!FlattenSeq([k \in DOMAIN calls |->
            SelectSeq(<<1, 2, 3, 4, 5>>, LAMBDA r : calls[k].insn.args[r] = V(v))])

\* r0_available
R0Available(p, range) == \A c \in CallsAt(p) : ~ (range.from < c /\ c < range.to)

FirstOf(seq, default) == IF seq = <<>> THEN default ELSE seq[1]

\* One round of the loop: the home of version v.
Assign(p, ranges, a, v) ==
    LET range == ranges[v]
        active == {x \in a.active : x.to > range.from}
        free(r) == \A x \in active : x.home # r
        r0ok(r) == r = 0 => R0Available(p, range)
        def == DefOf(p, v)
        homed(o) == IsVal(o) /\ o.val \in DOMAIN a.homes
        \* coalesce_phi_home
        inputs == IF def.kind # "Phi" THEN <<>>
                  ELSE SelectSeq(def.args, LAMBDA o : homed(o) /\ a.homes[o.val] # 10
                                                        /\ free(a.homes[o.val]))
        phi == IF inputs = <<>> THEN None ELSE a.homes[inputs[1].val]
        \* coalesce_binop_lhs: nothing but the operand itself is in its home
        lhs == IF def.kind = "BinOp" /\ homed(def.args[1]) THEN a.homes[def.args[1].val] ELSE None
        reusable == /\ lhs \notin {None, 10} /\ r0ok(lhs)
                    /\ \A x \in active : x.home = lhs =>
                          /\ x.v = def.args[1].val /\ x.to = range.from + 1
                          /\ ranges[x.v].from <= range.from
        prefs == SelectSeq(ArgPrefs(p, v), LAMBDA r : (r = 1 \/ r \in SE!ToSet(Pool))
                                                        /\ free(r) /\ r0ok(r))
        pool == SelectSeq(Pool, LAMBDA r : free(r) /\ r0ok(r))
        home == CASE phi # None /\ r0ok(phi) -> phi
                  [] ~ (phi # None /\ r0ok(phi)) /\ reusable -> lhs
                  [] OTHER -> FirstOf(prefs \o pool, None)
    IN  [homes |-> [w \in DOMAIN a.homes \cup {v} |-> IF w = v THEN home ELSE a.homes[w]],
         active |-> active \cup {[home |-> home, to |-> range.to, v |-> v]}]

\* The homes of all versions that need one; None for one that got no register,
\* which is an OutOfRegisters error.
Pinned(p, used) == {v \in used : DefinedBy(p, v, {"FramePtr", "EntryCtx"})}
PinnedHome(p, v) == IF DefinedBy(p, v, {"FramePtr"}) THEN 10 ELSE 1
AssignAll(p, ranges, pinned, todo) ==
    LET before(v, w) == \/ ranges[v].from < ranges[w].from
                        \/ ranges[v].from = ranges[w].from /\ v < w
    IN  SE!FoldLeft(LAMBDA a, v : Assign(p, ranges, a, v),
                    [homes |-> [v \in pinned |-> PinnedHome(p, v)],
                     active |-> {[home |-> PinnedHome(p, v), to |-> ranges[v].to, v |-> v] :
                                    v \in pinned}],
                    Sorted(todo, before)).homes
AssignUsed(p, used, pinned) == AssignAll(p, LiveRanges(p), pinned, used \ pinned)
Allocate(p) == AssignUsed(p, Used(p), Pinned(p, Used(p)))
=============================================================================
