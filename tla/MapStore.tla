------------------------------ MODULE MapStore ------------------------------
(***************************************************************************)
(* The runtime storage of one map (ebpf-vm/src/maps.rs, `MapStore`).  An    *)
(* LRU map keeps, next to its entries, a recency index `stamps` (stamp to   *)
(* key, oldest first) and its reverse `stamp_of`; three collections that   *)
(* every operation must move together.                                     *)
(***************************************************************************)
EXTENDS Integers, FiniteSets

CONSTANTS
    Keys,       \* keys of the descriptor's width, numbered: an array's key by the
                \* slot it encodes, any other by its place in the order of bytes
    Values,     \* values of the descriptor's width
    Zero,       \* the value of all-zero bytes
    WrongWidth, \* a key or value of any other width
    MaxEntries, \* desc.max_entries
    MaxSeq      \* u64::MAX, where the recency stamps end

ASSUME MapAssumption ==
    /\ Keys \subseteq Nat /\ IsFiniteSet(Keys)
    /\ Zero \in Values
    /\ WrongWidth \notin Keys \cup Values
    /\ MaxEntries \in Nat \ {0}
    /\ 0 .. (MaxEntries - 1) \subseteq Keys
    /\ MaxSeq \in Nat

VARIABLES
    kind,     \* the variant of MapStore
    data,     \* live entries: a function from keys to values
    stamps,   \* recency index: a function from stamps to keys
    stampOf,  \* stamp_of: a function from keys to stamps
    seq,      \* next recency stamp
    ret       \* what the last operation returned

vars == <<kind, data, stamps, stampOf, seq, ret>>

Kinds == {"Hash", "Array", "LruArray"}
Flags == 0..3   \* the words of r4: BPF_ANY, BPF_NOEXIST, BPF_EXIST, unknown

Hit(v) == [result |-> "hit", value |-> v]
Miss == [result |-> "miss"]
Done == [result |-> "done"]
Err(e) == [result |-> e]

\* HashMap / BTreeMap insert and remove
With(f, k, v) == [x \in DOMAIN f \cup {k} |-> IF x = k THEN v ELSE f[x]]
Without(f, k) == [x \in DOMAIN f \ {k} |-> f[x]]
Empty == [x \in {} |-> 0]

Slots == 0 .. (MaxEntries - 1)

-----------------------------------------------------------------------------
\* The position of k among the keys of S: MapStore::new stamps the initial
\* entries in the order of the BTreeMap they come in.
Rank(k, S) == Cardinality({x \in S : x < k})

\* MapStore::new, for a descriptor it accepts.
Init ==
    /\ kind \in Kinds
    /\ \E S \in SUBSET Keys :
          /\ Cardinality(S) <= MaxEntries
          /\ \E initial \in [S -> Values] :
                \/ /\ kind = "Hash"
                   /\ data = initial
                   /\ stamps = Empty /\ stampOf = Empty /\ seq = 0
                \/ /\ kind = "Array"
                   /\ S \subseteq Slots
                   /\ data = [i \in Slots |-> IF i \in S THEN initial[i] ELSE Zero]
                   /\ stamps = Empty /\ stampOf = Empty /\ seq = 0
                \/ /\ kind = "LruArray"
                   /\ data = initial
                   /\ stampOf = [k \in S |-> Rank(k, S)]
                   /\ stamps = [n \in {Rank(k, S) : k \in S} |->
                                  CHOOSE k \in S : Rank(k, S) = n]
                   /\ seq = Cardinality(S)
    /\ ret = Done

-----------------------------------------------------------------------------
\* An early return with an error.
Fail(e) ==
    /\ ret' = Err(e)
    /\ UNCHANGED <<kind, data, stamps, stampOf, seq>>

\* Variant that the run must tell from the code: a stamp that is reused.
TouchReuses(sts, of, k) ==
    /\ seq < MaxSeq
    /\ stampOf' = With(of, k, seq)
    /\ stamps' = With(IF k \in DOMAIN of THEN Without(sts, of[k]) ELSE sts, seq, k)
    /\ seq' = seq

\* lru_touch on the indexes sts and of, which an eviction may have shortened.
Touch(sts, of, k) ==
    /\ seq < MaxSeq
    /\ stampOf' = With(of, k, seq)
    /\ stamps' = With(IF k \in DOMAIN of THEN Without(sts, of[k]) ELSE sts, seq, k)
    /\ seq' = seq + 1

\* Variant: a hit that leaves the recency alone.
LruLookupFifo(k) ==
    /\ ret' = Hit(data[k])
    /\ UNCHANGED <<kind, data, stamps, stampOf, seq>>

\* MapStore::lookup
LruLookup(k) ==
    /\ ret' = Hit(data[k])
    /\ Touch(stamps, stampOf, k)
    /\ UNCHANGED <<kind, data>>

Lookup(k) ==
    \/ k = WrongWidth /\ Fail("KeySizeMismatch")
    \/ /\ k # WrongWidth /\ kind # "LruArray" /\ k \in DOMAIN data
       /\ ret' = Hit(data[k])
       /\ UNCHANGED <<kind, data, stamps, stampOf, seq>>
    \/ k # WrongWidth /\ kind = "LruArray" /\ k \in DOMAIN data /\ LruLookup(k)
    \/ /\ k # WrongWidth /\ kind # "Array" /\ k \notin DOMAIN data
       /\ ret' = Miss
       /\ UNCHANGED <<kind, data, stamps, stampOf, seq>>
    \* array_index
    \/ k # WrongWidth /\ kind = "Array" /\ k >= MaxEntries /\ Fail("Full")

\* check_update_flags
FlagError(f, present) ==
    CASE f = 1 /\ present -> "KeyExists"
      [] f = 2 /\ ~present -> "KeyNotFound"
      [] OTHER -> "none"

\* The oldest stamp, which BTreeMap::pop_first takes.
Oldest == CHOOSE n \in DOMAIN stamps : \A m \in DOMAIN stamps : n <= m

\* Variant: the capacity test admits one key too many.
HashUpdateOverfills(k, v, f) ==
    LET present == k \in DOMAIN data
        refused == FlagError(f, present)
    IN  \/ refused # "none" /\ Fail(refused)
        \/ /\ refused = "none" /\ (present \/ Cardinality(DOMAIN data) <= MaxEntries)
           /\ data' = With(data, k, v)
           /\ ret' = Done
           /\ UNCHANGED <<kind, stamps, stampOf, seq>>

\* MapStore::update on the three kinds of map
HashUpdate(k, v, f) ==
    LET present == k \in DOMAIN data
        refused == FlagError(f, present)
    IN  \/ refused # "none" /\ Fail(refused)
        \/ /\ refused = "none" /\ ~present /\ Cardinality(DOMAIN data) >= MaxEntries
           /\ Fail("Full")
        \/ /\ refused = "none" /\ (present \/ Cardinality(DOMAIN data) < MaxEntries)
           /\ data' = With(data, k, v)
           /\ ret' = Done
           /\ UNCHANGED <<kind, stamps, stampOf, seq>>

ArrayUpdate(k, v, f) ==
    \/ k >= MaxEntries /\ Fail("Full")
    \/ k < MaxEntries /\ f = 1 /\ Fail("KeyExists")
    \/ /\ k < MaxEntries /\ f # 1
       /\ data' = [data EXCEPT ![k] = v]
       /\ ret' = Done
       /\ UNCHANGED <<kind, stamps, stampOf, seq>>

\* Variant: room is made before the flags are looked at.
LruUpdateEvictsFirst(k, v, f) ==
    LET full == k \notin DOMAIN data /\ Cardinality(DOMAIN data) >= MaxEntries
        old == stamps[Oldest]
        refused == FlagError(f, k \in DOMAIN data)
    IN  IF full
        THEN /\ Touch(Without(stamps, Oldest), Without(stampOf, old), k)
             /\ data' = IF refused = "none" THEN With(Without(data, old), k, v)
                        ELSE Without(data, old)
             /\ ret' = IF refused = "none" THEN Done ELSE Err(refused)
             /\ kind' = kind
        ELSE IF refused # "none" THEN Fail(refused)
        ELSE /\ Touch(stamps, stampOf, k)
             /\ data' = With(data, k, v)
             /\ ret' = Done
             /\ kind' = kind

LruUpdate(k, v, f) ==
    LET present == k \in DOMAIN data
        refused == FlagError(f, present)
        evicts == /\ ~present /\ Cardinality(DOMAIN data) >= MaxEntries
                  /\ DOMAIN stamps # {}
        old == stamps[Oldest]
    IN  \/ refused # "none" /\ Fail(refused)
        \/ /\ refused = "none" /\ ~evicts
           /\ Touch(stamps, stampOf, k)
           /\ data' = With(data, k, v)
           /\ ret' = Done
           /\ kind' = kind
        \/ /\ refused = "none" /\ evicts
           /\ Touch(Without(stamps, Oldest), Without(stampOf, old), k)
           /\ data' = With(Without(data, old), k, v)
           /\ ret' = Done
           /\ kind' = kind

Update(k, v, f) ==
    \/ f = 3 /\ Fail("InvalidDesc")
    \/ f # 3 /\ k = WrongWidth /\ Fail("KeySizeMismatch")
    \/ f # 3 /\ k # WrongWidth /\ v = WrongWidth /\ Fail("ValueSizeMismatch")
    \/ /\ f # 3 /\ k # WrongWidth /\ v # WrongWidth
       /\ \/ kind = "Hash" /\ HashUpdate(k, v, f)
          \/ kind = "Array" /\ ArrayUpdate(k, v, f)
          \/ kind = "LruArray" /\ LruUpdate(k, v, f)

\* Variants: a deleted array slot disappears, a deleted key keeps its stamp.
ArrayDeleteShrinks(k) ==
    /\ data' = Without(data, k)
    /\ ret' = Done
    /\ UNCHANGED <<kind, stamps, stampOf, seq>>

LruDeleteKeepsStamp(k) ==
    /\ data' = Without(data, k)
    /\ stampOf' = Without(stampOf, k)
    /\ ret' = Done
    /\ UNCHANGED <<kind, stamps, seq>>

\* MapStore::delete on the three kinds of map
HashDelete(k) ==
    /\ data' = Without(data, k)
    /\ ret' = Done
    /\ UNCHANGED <<kind, stamps, stampOf, seq>>

ArrayDelete(k) ==
    /\ data' = [data EXCEPT ![k] = Zero]
    /\ ret' = Done
    /\ UNCHANGED <<kind, stamps, stampOf, seq>>

LruDelete(k) ==
    /\ data' = Without(data, k)
    /\ stamps' = IF k \in DOMAIN stampOf THEN Without(stamps, stampOf[k]) ELSE stamps
    /\ stampOf' = Without(stampOf, k)
    /\ ret' = Done
    /\ UNCHANGED <<kind, seq>>

Delete(k) ==
    \/ k = WrongWidth /\ Fail("KeySizeMismatch")
    \/ k # WrongWidth /\ kind # "Array" /\ k \notin DOMAIN data /\ Fail("KeyNotFound")
    \/ k # WrongWidth /\ kind = "Array" /\ k >= MaxEntries /\ Fail("Full")
    \/ kind = "Hash" /\ k \in DOMAIN data /\ HashDelete(k)
    \/ kind = "Array" /\ k \in DOMAIN data /\ ArrayDelete(k)
    \/ kind = "LruArray" /\ k \in DOMAIN data /\ LruDelete(k)

Next ==
    \E k \in Keys \cup {WrongWidth} :
        \/ Lookup(k)
        \/ \E v \in Values \cup {WrongWidth}, f \in Flags : Update(k, v, f)
        \/ Delete(k)

Spec == Init /\ [][Next]_vars

-----------------------------------------------------------------------------
(***************************************************************************)
(* Properties                                                              *)
(***************************************************************************)

Results == [result : {"hit"}, value : Values]
              \cup [result : {"miss", "done", "InvalidDesc", "KeySizeMismatch",
                              "ValueSizeMismatch", "KeyExists", "KeyNotFound", "Full"}]

\* The fields of MapStore hold keys, values and stamps; an array has exactly
\* its slots, and only an LRU map has recency indexes.
TypeOK ==
    /\ kind \in Kinds
    /\ DOMAIN data \subseteq Keys /\ data \in [DOMAIN data -> Values]
    /\ DOMAIN stamps \subseteq Nat /\ stamps \in [DOMAIN stamps -> Keys]
    /\ DOMAIN stampOf \subseteq Keys /\ stampOf \in [DOMAIN stampOf -> Nat]
    /\ seq \in Nat
    /\ ret \in Results
    /\ kind = "Array" => DOMAIN data = Slots
    /\ kind # "LruArray" => DOMAIN stamps = {} /\ DOMAIN stampOf = {}

\* The three collections of an LRU map describe the same entries: `stamps`
\* and `stamp_of` are inverse to each other and cover exactly the live keys,
\* so an eviction always finds a victim and never a key that is gone.
IndexesAgree ==
    kind = "LruArray" =>
        /\ DOMAIN stampOf = DOMAIN data
        /\ \A k \in DOMAIN stampOf :
              stampOf[k] \in DOMAIN stamps /\ stamps[stampOf[k]] = k
        /\ \A n \in DOMAIN stamps :
              stamps[n] \in DOMAIN stampOf /\ stampOf[stamps[n]] = n

\* A stamp is never handed out twice: every stamp in use is behind `seq`.
StampsBehindSeq == \A n \in DOMAIN stamps : n < seq

\* No sequence of updates takes a map past max_entries.
WithinCapacity == Cardinality(DOMAIN data) <= MaxEntries

\* An operation that reports an error has changed nothing, not even the
\* recency of a key: in particular an update refused by its flags evicts
\* nothing from a full LRU map.
FailedStep ==
    ret'.result \notin {"hit", "miss", "done"} =>
        UNCHANGED <<data, stamps, stampOf, seq>>
FailureChangesNothing == [][FailedStep]_vars

\* The promise of BpfMap, with recency read off the stamps.
older == {p \in (DOMAIN stampOf) \X (DOMAIN stampOf) : stampOf[p[1]] < stampOf[p[2]]}

Abstract == INSTANCE BpfMap

\* The store implements the abstract map: in particular, the entry it evicts
\* is the one used longest ago, after any mix of hits, writes and deletes.
ImplementsBpfMap == Abstract!Spec
=============================================================================
