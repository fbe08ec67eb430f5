------------------------------- MODULE BpfMap -------------------------------
(***************************************************************************)
(* What a map promises its program, without saying how recency is kept:    *)
(* a bounded dictionary whose updates obey BPF_ANY, BPF_NOEXIST and        *)
(* BPF_EXIST.  An LRU map makes room by dropping the entry that was looked *)
(* up or written longest ago.                                              *)
(***************************************************************************)
EXTENDS Integers, FiniteSets

CONSTANTS
    Keys,       \* keys of the descriptor's width, numbered: an array's key by the
                \* slot it encodes, any other by its place in the order of bytes
    Values,     \* values of the descriptor's width
    Zero,       \* the value of all-zero bytes
    WrongWidth, \* a key or value of any other width
    MaxEntries  \* desc.max_entries

VARIABLES
    kind,   \* desc.map_type
    data,   \* the live entries: a function from keys to values
    older,  \* <<a, b>>: a was used less recently than b (LRU maps only)
    ret     \* what the last operation returned

vars == <<kind, data, older, ret>>

Kinds == {"Hash", "Array", "LruArray"}
Flags == 0..3   \* BPF_ANY, BPF_NOEXIST, BPF_EXIST and an unknown word

Hit(v) == [result |-> "hit", value |-> v]
Miss == [result |-> "miss"]
Done == [result |-> "done"]
Err(e) == [result |-> e]

Live == DOMAIN data

\* Array slots always exist; other maps start with at most MaxEntries keys.
Init ==
    /\ kind \in Kinds
    /\ \E S \in SUBSET Keys :
          /\ data \in [S -> Values]
          /\ kind = "Array" => S = 0 .. (MaxEntries - 1)
          /\ Cardinality(S) <= MaxEntries
    \* the entries of an LRU map start in key order
    /\ older = IF kind = "LruArray"
               THEN {p \in Live \X Live : p[1] < p[2]} ELSE {}
    /\ ret = Done

\* k becomes the most recently used of the keys in S.
Newest(k, S) ==
    IF kind = "LruArray"
    THEN {p \in older : p[1] \in S \ {k} /\ p[2] \in S \ {k}}
            \cup ((S \ {k}) \X {k})
    ELSE {}

Lookup(k) ==
    /\ data' = data
    /\ IF k \in Live
       THEN ret' = Hit(data[k]) /\ older' = Newest(k, Live)
       ELSE /\ older' = older
            /\ ret' \in {Miss, Err("KeySizeMismatch"), Err("Full")}
            /\ ret' = Err("KeySizeMismatch") <=> k = WrongWidth
            /\ ret' = Err("Full") => kind = "Array"

\* The keys that are left when k is to be written.
Kept(k) ==
    IF k \notin Live /\ kind = "LruArray" /\ Cardinality(Live) >= MaxEntries
    THEN {Live \ {old} : old \in {o \in Live : \A x \in Live : <<x, o>> \notin older}}
    ELSE {Live}

Refused(k, v, f) ==
    \/ f = 3
    \/ WrongWidth \in {k, v}
    \/ f = 1 /\ k \in Live
    \/ f = 2 /\ k \notin Live
    \/ kind # "LruArray" /\ k \notin Live /\ Cardinality(Live) >= MaxEntries

Update(k, v, f) ==
    \/ /\ Refused(k, v, f)
       /\ ret'.result \in {"InvalidDesc", "KeySizeMismatch", "ValueSizeMismatch",
                           "KeyExists", "KeyNotFound", "Full"}
       /\ UNCHANGED <<data, older>>
    \/ /\ ~ Refused(k, v, f)
       /\ ret' = Done
       /\ \E S \in Kept(k) :
             /\ data' = [x \in S \cup {k} |-> IF x = k THEN v ELSE data[x]]
             /\ older' = Newest(k, S)

Delete(k) ==
    \/ /\ k \notin Live
       /\ ret'.result \in {"KeySizeMismatch", "KeyNotFound", "Full"}
       /\ UNCHANGED <<data, older>>
    \/ /\ k \in Live
       /\ ret' = Done
       /\ IF kind = "Array"
          THEN data' = [data EXCEPT ![k] = Zero] /\ older' = older
          ELSE /\ data' = [x \in Live \ {k} |-> data[x]]
               /\ older' = {p \in older : p[1] # k /\ p[2] # k}

Next ==
    /\ kind' = kind
    /\ \E k \in Keys \cup {WrongWidth} :
          \/ Lookup(k)
          \/ \E v \in Values \cup {WrongWidth}, f \in Flags : Update(k, v, f)
          \/ Delete(k)

Spec == Init /\ [][Next]_vars
=============================================================================
