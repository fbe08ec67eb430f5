--------------------------- MODULE MapStoreProofs ---------------------------
(***************************************************************************)
(* Proofs about the map store, for every set of keys and values, every     *)
(* capacity and every number of operations.                                *)
(***************************************************************************)
EXTENDS MapStore, FiniteSetTheorems, WellFoundedInduction, TLAPS

-----------------------------------------------------------------------------
(***************************************************************************)
(* The collections.                                                        *)
(***************************************************************************)

\* BTreeMap::pop_first has a first element to take.
LEMMA LeastNat ==
    ASSUME NEW T \in SUBSET Nat, T # {}
    PROVE  \E x \in T : \A y \in T : x <= y
  <1> DEFINE R == {ss \in Nat \X Nat : ss[1] < ss[2]}
  <1>1. IsWellFoundedOn(R, Nat)
    BY NatLessThanWellFounded DEF OpToRel
  <1>2. \E x \in T : \A y \in T : <<y, x>> \notin R
    <2> HIDE DEF R
    <2>. QED  BY <1>1, WFMin
  <1>3. PICK x \in T : \A y \in T : <<y, x>> \notin R
    BY <1>2
  <1>4. ASSUME NEW y \in T PROVE x <= y
    <2>1. <<y, x>> \in Nat \X Nat => ~(y < x)
      BY <1>3
    <2>. QED  BY <2>1
  <1>. QED  BY <1>4

\* A function with its values in T is a member of [DOMAIN f -> T].
Maps(f, S, T) == DOMAIN f \subseteq S /\ f \in [DOMAIN f -> T]

LEMMA WithMaps ==
    ASSUME NEW f, NEW S, NEW T, Maps(f, S, T), NEW k \in S, NEW v \in T
    PROVE  Maps(With(f, k, v), S, T)
  BY DEF Maps, With

LEMMA WithoutMaps ==
    ASSUME NEW f, NEW S, NEW T, Maps(f, S, T), NEW k
    PROVE  Maps(Without(f, k), S, T)
  BY DEF Maps, Without

-----------------------------------------------------------------------------
(***************************************************************************)
(* Two indexes that are inverse to each other stay so when a key is        *)
(* dropped from both or stamped anew.                                      *)
(***************************************************************************)

Mutual(sts, of) ==
    /\ \A k \in DOMAIN of : of[k] \in DOMAIN sts /\ sts[of[k]] = k
    /\ \A n \in DOMAIN sts : sts[n] \in DOMAIN of /\ of[sts[n]] = n

LEMMA DropInverse ==
    ASSUME NEW sts, NEW of, Mutual(sts, of), NEW k \in DOMAIN of
    PROVE  Mutual(Without(sts, of[k]), Without(of, k))
  BY DEF Mutual, Without

LEMMA StampInverse ==
    ASSUME NEW sts, NEW of, Mutual(sts, of), NEW k, NEW n,
           k \notin DOMAIN of, n \notin DOMAIN sts
    PROVE  Mutual(With(sts, n, k), With(of, k, n))
  BY DEF Mutual, With

\* The index that lru_touch inserts into, with k dropped if it was there.
Dropped(sts, of, k) == IF k \in DOMAIN of THEN Without(sts, of[k]) ELSE sts

LEMMA TouchInverse ==
    ASSUME NEW sts, NEW of, Mutual(sts, of), NEW k, NEW n, n \notin DOMAIN sts
    PROVE  Mutual(With(Dropped(sts, of, k), n, k), With(of, k, n))
  <1>1. CASE k \notin DOMAIN of
    BY <1>1, StampInverse DEF Dropped
  <1>2. CASE k \in DOMAIN of
    <2>1. Mutual(Without(sts, of[k]), Without(of, k))
      BY <1>2, DropInverse
    <2>2. k \notin DOMAIN Without(of, k) /\ n \notin DOMAIN Without(sts, of[k])
      BY DEF Without
    <2>3. Mutual(With(Without(sts, of[k]), n, k), With(Without(of, k), k, n))
      BY <2>1, <2>2, StampInverse
    <2>4. With(Without(of, k), k, n) = With(of, k, n)
      BY DEF With, Without
    <2>. QED  BY <1>2, <2>3, <2>4 DEF Dropped
  <1>. QED  BY <1>1, <1>2

-----------------------------------------------------------------------------
(***************************************************************************)
(* The invariant: types, agreeing indexes, fresh stamps, capacity.         *)
(***************************************************************************)

Sound ==
    /\ TypeOK
    /\ IndexesAgree
    /\ StampsBehindSeq
    /\ WithinCapacity

\* The live keys are finite, so their number is a number.
LEMMA LiveFinite ==
    ASSUME TypeOK
    PROVE  IsFiniteSet(DOMAIN data) /\ Cardinality(DOMAIN data) \in Nat
  <1>1. IsFiniteSet(Keys) /\ DOMAIN data \in SUBSET Keys
    BY MapAssumption DEF TypeOK
  <1>. QED  BY <1>1, FS_Subset, FS_CardinalityType

\* What lru_touch leaves behind.
LEMMA TouchFacts ==
    ASSUME NEW sts, NEW of, Maps(sts, Nat, Keys), Maps(of, Keys, Nat), Mutual(sts, of),
           \A n \in DOMAIN sts : n < seq, seq \in Nat, NEW k \in Keys,
           Touch(sts, of, k)
    PROVE  /\ Maps(stamps', Nat, Keys) /\ Maps(stampOf', Keys, Nat)
           /\ Mutual(stamps', stampOf')
           /\ seq' \in Nat /\ \A n \in DOMAIN stamps' : n < seq'
           /\ DOMAIN stampOf' = DOMAIN of \cup {k}
           /\ stampOf'[k] = seq
           /\ \A x \in DOMAIN of \ {k} : stampOf'[x] = of[x]
           /\ \A x \in DOMAIN of \ {k} : stampOf'[x] < seq
  <1>1. /\ stampOf' = With(of, k, seq) /\ seq' = seq + 1
        /\ stamps' = With(Dropped(sts, of, k), seq, k)
    BY DEF Touch, Dropped
  <1>2. Maps(Dropped(sts, of, k), Nat, Keys)
        /\ DOMAIN Dropped(sts, of, k) \subseteq DOMAIN sts
    BY WithoutMaps DEF Dropped, Without
  <1>3. Maps(stamps', Nat, Keys) /\ Maps(stampOf', Keys, Nat)
    BY <1>1, <1>2, WithMaps
  <1>4. seq \notin DOMAIN sts
    BY DEF Maps
  <1>5. Mutual(stamps', stampOf')
    BY <1>1, <1>4, TouchInverse
  <1>6. DOMAIN stamps' \subseteq DOMAIN sts \cup {seq}
    BY <1>1, <1>2 DEF With
  <1>7. \A n \in DOMAIN stamps' : n < seq'
    <2>1. \A n \in DOMAIN sts : n \in Nat /\ n < seq
      BY DEF Maps
    <2>. QED  BY <1>1, <1>6, <2>1
  <1>8. /\ DOMAIN stampOf' = DOMAIN of \cup {k} /\ stampOf'[k] = seq
        /\ \A x \in DOMAIN of \ {k} : stampOf'[x] = of[x]
    BY <1>1 DEF With
  <1>9. \A x \in DOMAIN of : of[x] < seq
    BY DEF Mutual
  <1>10. seq' \in Nat
    BY <1>1
  <1>. QED  BY <1>3, <1>5, <1>7, <1>8, <1>9, <1>10

\* The LRU part of the invariant in terms of the two lemmas above.
LEMMA LruFacts ==
    ASSUME Sound, kind = "LruArray"
    PROVE  /\ Maps(stamps, Nat, Keys) /\ Maps(stampOf, Keys, Nat)
           /\ Mutual(stamps, stampOf) /\ DOMAIN stampOf = DOMAIN data
           /\ \A n \in DOMAIN stamps : n < seq
           /\ seq \in Nat /\ Maps(data, Keys, Values)
  BY DEF Sound, TypeOK, IndexesAgree, StampsBehindSeq, Maps, Mutual

LEMMA LruSound ==
    ASSUME kind' = "LruArray", ret' \in Results,
           Maps(stamps', Nat, Keys), Maps(stampOf', Keys, Nat),
           Mutual(stamps', stampOf'), DOMAIN stampOf' = DOMAIN data',
           \A n \in DOMAIN stamps' : n < seq', seq' \in Nat,
           Maps(data', Keys, Values), WithinCapacity'
    PROVE  Sound'
  BY DEF Sound, TypeOK, IndexesAgree, StampsBehindSeq, Maps, Mutual, Kinds

\* The oldest stamp belongs to a live key, and no live key has an older one.
LEMMA OldestFacts ==
    ASSUME Sound, kind = "LruArray", DOMAIN stamps # {}
    PROVE  /\ Oldest \in DOMAIN stamps
           /\ stamps[Oldest] \in DOMAIN stampOf
           /\ stampOf[stamps[Oldest]] = Oldest
           /\ \A x \in DOMAIN stampOf : Oldest <= stampOf[x]
  <1>1. DOMAIN stamps \in SUBSET Nat
    BY LruFacts DEF Maps
  <1>2. Oldest \in DOMAIN stamps /\ \A m \in DOMAIN stamps : Oldest <= m
    BY <1>1, LeastNat DEF Oldest
  <1>. QED  BY <1>2, LruFacts DEF Mutual

-----------------------------------------------------------------------------
(***************************************************************************)
(* One lemma per way an operation changes the store.                       *)
(***************************************************************************)

\* Errors, misses and the hits of maps without recency: only `ret` moves.
LEMMA SoundUnchanged ==
    ASSUME Sound, UNCHANGED <<kind, data, stamps, stampOf, seq>>, ret' \in Results
    PROVE  Sound'
  BY DEF Sound, TypeOK, IndexesAgree, StampsBehindSeq, WithinCapacity

\* Hash and array maps: the indexes stay empty.
LEMMA SoundPlain ==
    ASSUME Sound, kind # "LruArray", UNCHANGED <<kind, stamps, stampOf, seq>>,
           ret' = Done, Maps(data', Keys, Values),
           kind = "Array" => DOMAIN data' = Slots, WithinCapacity'
    PROVE  Sound'
  BY DEF Sound, TypeOK, IndexesAgree, StampsBehindSeq, Maps, Done, Results

LEMMA SoundHashUpdate ==
    ASSUME Sound, kind = "Hash", NEW k \in Keys, NEW v \in Values, NEW f \in Flags,
           HashUpdate(k, v, f)
    PROVE  Sound'
  <1>1. CASE \E e \in {"KeyExists", "KeyNotFound", "Full"} : Fail(e)
    BY <1>1, SoundUnchanged DEF Fail, Err, Results
  <1>2. CASE /\ k \in DOMAIN data \/ Cardinality(DOMAIN data) < MaxEntries
             /\ data' = With(data, k, v) /\ ret' = Done
             /\ UNCHANGED <<kind, stamps, stampOf, seq>>
    <2>1. Maps(data', Keys, Values) /\ DOMAIN data' = DOMAIN data \cup {k}
      <3>1. Maps(data, Keys, Values)
        BY DEF Sound, TypeOK, Maps
      <3>. QED  BY <1>2, <3>1, WithMaps DEF With
    <2>2. Cardinality(DOMAIN data') <= MaxEntries
      <3>1. IsFiniteSet(DOMAIN data) /\ Cardinality(DOMAIN data) \in Nat
            /\ Cardinality(DOMAIN data) <= MaxEntries /\ MaxEntries \in Nat
        BY LiveFinite, MapAssumption DEF Sound, WithinCapacity
      <3>2. Cardinality(DOMAIN data \cup {k}) =
               IF k \in DOMAIN data THEN Cardinality(DOMAIN data)
               ELSE Cardinality(DOMAIN data) + 1
        BY <3>1, FS_AddElement
      <3>. QED  BY <1>2, <2>1, <3>1, <3>2
    <2>. QED  BY <1>2, <2>1, <2>2, SoundPlain DEF WithinCapacity
  <1>3. FlagError(f, k \in DOMAIN data) \in {"KeyExists", "KeyNotFound", "none"}
    BY DEF FlagError
  <1>. QED  BY <1>1, <1>2, <1>3 DEF HashUpdate

LEMMA SoundArrayUpdate ==
    ASSUME Sound, kind = "Array", NEW k \in Keys, NEW v \in Values, NEW f \in Flags,
           ArrayUpdate(k, v, f)
    PROVE  Sound'
  <1>1. CASE \E e \in {"KeyExists", "Full"} : Fail(e)
    BY <1>1, SoundUnchanged DEF Fail, Err, Results
  <1>2. CASE /\ data' = [data EXCEPT ![k] = v] /\ ret' = Done
             /\ UNCHANGED <<kind, stamps, stampOf, seq>>
    BY <1>2, SoundPlain DEF Sound, TypeOK, WithinCapacity, Maps
  <1>. QED  BY <1>1, <1>2 DEF ArrayUpdate

\* A hit of an LRU map moves the key to the end of the recency order.
LEMMA SoundLruLookup ==
    ASSUME Sound, kind = "LruArray", NEW k \in DOMAIN data, LruLookup(k)
    PROVE  Sound'
  <1>1. /\ Touch(stamps, stampOf, k) /\ UNCHANGED <<kind, data>>
        /\ ret' = Hit(data[k])
    BY DEF LruLookup
  <1>2. ret' \in Results /\ k \in Keys
    BY <1>1 DEF Sound, TypeOK, Hit, Results
  <1>3. DOMAIN stampOf' = DOMAIN data'
    BY <1>1, <1>2, LruFacts, TouchFacts
  <1>4. WithinCapacity' /\ Maps(data', Keys, Values)
    BY <1>1, LruFacts DEF Sound, WithinCapacity
  <1>. QED  BY <1>1, <1>2, <1>3, <1>4, LruFacts, TouchFacts, LruSound

LEMMA SoundLruDelete ==
    ASSUME Sound, kind = "LruArray", NEW k \in DOMAIN data, LruDelete(k)
    PROVE  Sound'
  <1>1. /\ data' = Without(data, k) /\ stampOf' = Without(stampOf, k)
        /\ stamps' = Without(stamps, stampOf[k]) /\ ret' = Done
        /\ UNCHANGED <<kind, seq>>
    BY LruFacts DEF LruDelete
  <1>2. Mutual(stamps', stampOf')
    BY <1>1, LruFacts, DropInverse
  <1>3. /\ Maps(stamps', Nat, Keys) /\ Maps(stampOf', Keys, Nat)
        /\ Maps(data', Keys, Values)
    BY <1>1, LruFacts, WithoutMaps
  <1>4. /\ DOMAIN stampOf' = DOMAIN data' /\ DOMAIN stamps' \subseteq DOMAIN stamps
        /\ DOMAIN data' = DOMAIN data \ {k}
    BY <1>1, LruFacts DEF Without
  <1>5. WithinCapacity'
    <2>1. IsFiniteSet(DOMAIN data) /\ Cardinality(DOMAIN data) \in Nat
          /\ Cardinality(DOMAIN data) <= MaxEntries /\ MaxEntries \in Nat
      BY LiveFinite, MapAssumption DEF Sound, WithinCapacity
    <2>2. Cardinality(DOMAIN data \ {k}) = Cardinality(DOMAIN data) - 1
      BY <2>1, FS_RemoveElement
    <2>. QED  BY <1>4, <2>1, <2>2 DEF WithinCapacity
  <1>6. ret' \in Results
    BY <1>1 DEF Done, Results
  <1>. QED  BY <1>1, <1>2, <1>3, <1>4, <1>5, <1>6, LruFacts, LruSound

\* A full LRU map has a stamp to evict.
LEMMA FullHasStamp ==
    ASSUME Sound, kind = "LruArray", Cardinality(DOMAIN data) >= MaxEntries
    PROVE  DOMAIN stamps # {}
  <1>1. DOMAIN data # {}
    BY MapAssumption, FS_EmptySet
  <1>. QED  BY <1>1, LruFacts DEF Mutual

\* The three outcomes of an update of an LRU map.
LEMMA LruUpdateCases ==
    ASSUME Sound, kind = "LruArray", NEW k \in Keys, NEW v \in Values, NEW f \in Flags,
           LruUpdate(k, v, f)
    PROVE  \/ \E e \in {"KeyExists", "KeyNotFound"} :
                 Fail(e) /\ FlagError(f, k \in DOMAIN data) = e
           \/ /\ FlagError(f, k \in DOMAIN data) = "none"
              /\ k \in DOMAIN data \/ Cardinality(DOMAIN data) < MaxEntries
              /\ Touch(stamps, stampOf, k)
              /\ data' = With(data, k, v) /\ ret' = Done /\ kind' = kind
           \/ /\ FlagError(f, k \in DOMAIN data) = "none"
              /\ k \notin DOMAIN data /\ Cardinality(DOMAIN data) >= MaxEntries
              /\ DOMAIN stamps # {}
              /\ Touch(Without(stamps, Oldest), Without(stampOf, stamps[Oldest]), k)
              /\ data' = With(Without(data, stamps[Oldest]), k, v)
              /\ ret' = Done /\ kind' = kind
  <1>1. FlagError(f, k \in DOMAIN data) \in {"KeyExists", "KeyNotFound", "none"}
    BY DEF FlagError
  <1>2. Cardinality(DOMAIN data) \in Nat /\ MaxEntries \in Nat
    BY LiveFinite, MapAssumption DEF Sound
  <1>3. Cardinality(DOMAIN data) >= MaxEntries => DOMAIN stamps # {}
    BY FullHasStamp
  <1>. QED  BY <1>1, <1>2, <1>3 DEF LruUpdate

\* What is left of an LRU map after its oldest entry is gone.
LEMMA EvictFacts ==
    ASSUME Sound, kind = "LruArray", DOMAIN stamps # {}
    PROVE  LET old == stamps[Oldest] IN
           /\ Maps(Without(stamps, Oldest), Nat, Keys)
           /\ Maps(Without(stampOf, old), Keys, Nat)
           /\ Mutual(Without(stamps, Oldest), Without(stampOf, old))
           /\ \A n \in DOMAIN Without(stamps, Oldest) : n < seq
           /\ Maps(Without(data, old), Keys, Values)
           /\ DOMAIN Without(stampOf, old) = DOMAIN data \ {old}
           /\ DOMAIN Without(data, old) = DOMAIN data \ {old}
           /\ old \in DOMAIN data
  <1> DEFINE old == stamps[Oldest]
  <1>1. old \in DOMAIN stampOf /\ stampOf[old] = Oldest
    BY OldestFacts
  <1>2. Mutual(Without(stamps, Oldest), Without(stampOf, old))
    <2> HIDE DEF old
    <2>1. Mutual(Without(stamps, stampOf[old]), Without(stampOf, old))
      BY <1>1, LruFacts, DropInverse
    <2>. QED  BY <1>1, <2>1
  <1>3. /\ Maps(Without(stamps, Oldest), Nat, Keys)
        /\ Maps(Without(stampOf, old), Keys, Nat)
        /\ Maps(Without(data, old), Keys, Values)
    BY LruFacts, WithoutMaps
  <1>4. /\ DOMAIN Without(stamps, Oldest) \subseteq DOMAIN stamps
        /\ DOMAIN Without(stampOf, old) = DOMAIN stampOf \ {old}
        /\ DOMAIN Without(data, old) = DOMAIN data \ {old}
    BY DEF Without
  <1>. QED  BY <1>1, <1>2, <1>3, <1>4, LruFacts

LEMMA SoundLruUpdate ==
    ASSUME Sound, kind = "LruArray", NEW k \in Keys, NEW v \in Values, NEW f \in Flags,
           LruUpdate(k, v, f)
    PROVE  Sound'
  <1>0. /\ IsFiniteSet(DOMAIN data) /\ Cardinality(DOMAIN data) \in Nat
        /\ Cardinality(DOMAIN data) <= MaxEntries /\ MaxEntries \in Nat
    BY LiveFinite, MapAssumption DEF Sound, WithinCapacity
  <1>1. CASE \E e \in {"KeyExists", "KeyNotFound"} : Fail(e)
    BY <1>1, SoundUnchanged DEF Fail, Err, Results
  <1>2. CASE /\ k \in DOMAIN data \/ Cardinality(DOMAIN data) < MaxEntries
             /\ Touch(stamps, stampOf, k)
             /\ data' = With(data, k, v) /\ ret' = Done /\ kind' = kind
    <2>1. Maps(data', Keys, Values) /\ DOMAIN data' = DOMAIN data \cup {k}
      BY <1>2, LruFacts, WithMaps DEF With
    <2>2. Cardinality(DOMAIN data \cup {k}) =
             IF k \in DOMAIN data THEN Cardinality(DOMAIN data)
             ELSE Cardinality(DOMAIN data) + 1
      BY <1>0, FS_AddElement
    <2>3. WithinCapacity'
      BY <1>0, <1>2, <2>1, <2>2 DEF WithinCapacity
    <2>4. ret' \in Results
      BY <1>2 DEF Done, Results
    <2>5. DOMAIN stampOf' = DOMAIN data'
      BY <1>2, <2>1, LruFacts, TouchFacts
    <2>. QED  BY <1>2, <2>1, <2>3, <2>4, <2>5, LruFacts, TouchFacts, LruSound
  <1>3. CASE /\ k \notin DOMAIN data /\ Cardinality(DOMAIN data) >= MaxEntries
             /\ DOMAIN stamps # {}
             /\ Touch(Without(stamps, Oldest), Without(stampOf, stamps[Oldest]), k)
             /\ data' = With(Without(data, stamps[Oldest]), k, v)
             /\ ret' = Done /\ kind' = kind
    <2> DEFINE old == stamps[Oldest]
               sts == Without(stamps, Oldest)
               of == Without(stampOf, old)
               rest == Without(data, old)
    <2>1. /\ Maps(sts, Nat, Keys) /\ Maps(of, Keys, Nat) /\ Mutual(sts, of)
          /\ \A n \in DOMAIN sts : n < seq
          /\ Maps(rest, Keys, Values)
          /\ DOMAIN of = DOMAIN data \ {old} /\ DOMAIN rest = DOMAIN data \ {old}
          /\ old \in DOMAIN data /\ seq \in Nat
          /\ Touch(sts, of, k) /\ data' = With(rest, k, v)
      BY <1>3, EvictFacts, LruFacts
    <2> HIDE DEF old, sts, of, rest
    <2>2. Maps(data', Keys, Values) /\ DOMAIN data' = (DOMAIN data \ {old}) \cup {k}
      BY <2>1, WithMaps DEF With
    <2>3. /\ IsFiniteSet(DOMAIN data \ {old})
          /\ Cardinality(DOMAIN data \ {old}) = Cardinality(DOMAIN data) - 1
      BY <1>0, <2>1, FS_RemoveElement
    <2>4. Cardinality((DOMAIN data \ {old}) \cup {k}) = Cardinality(DOMAIN data)
      <3>1. k \notin DOMAIN data \ {old}
        BY <1>3
      <3> DEFINE left == DOMAIN data \ {old}
      <3>2. IsFiniteSet(left) /\ k \notin left
        BY <2>3, <3>1
      <3> HIDE DEF left
      <3>3. Cardinality(left \cup {k}) = Cardinality(left) + 1
        BY <3>2, FS_AddElement
      <3>. QED  BY <1>0, <2>3, <3>3 DEF left
    <2>5. WithinCapacity'
      BY <1>0, <2>2, <2>4 DEF WithinCapacity
    <2>6. ret' \in Results
      BY <1>3 DEF Done, Results
    <2>7. DOMAIN stampOf' = DOMAIN data'
      BY <2>1, <2>2, TouchFacts
    <2>8. /\ Maps(stamps', Nat, Keys) /\ Maps(stampOf', Keys, Nat)
          /\ Mutual(stamps', stampOf')
          /\ seq' \in Nat /\ \A n \in DOMAIN stamps' : n < seq'
      BY <2>1, TouchFacts
    <2>. QED  BY <1>3, <2>2, <2>5, <2>6, <2>7, <2>8, LruSound
  <1>. QED  BY <1>1, <1>2, <1>3, LruUpdateCases

-----------------------------------------------------------------------------
(***************************************************************************)
(* The initial store.                                                      *)
(***************************************************************************)

\* Stamping the initial keys in order gives each its own stamp, below their
\* number.
LEMMA RankFacts ==
    ASSUME NEW S \in SUBSET Keys
    PROVE  /\ IsFiniteSet(S) /\ Cardinality(S) \in Nat
           /\ \A k \in S : Rank(k, S) \in Nat /\ Rank(k, S) < Cardinality(S)
           /\ \A k, l \in S : k < l <=> Rank(k, S) < Rank(l, S)
           /\ \A k, l \in S : Rank(k, S) = Rank(l, S) => k = l
  <1> DEFINE Below(k) == {x \in S : x < k}
  <1>1. IsFiniteSet(S) /\ Cardinality(S) \in Nat /\ S \subseteq Nat
    BY MapAssumption, FS_Subset, FS_CardinalityType
  <1>2. ASSUME NEW k \in S
        PROVE  /\ IsFiniteSet(Below(k)) /\ Cardinality(Below(k)) \in Nat
               /\ Cardinality(Below(k)) < Cardinality(S)
    <2>1. Below(k) \in SUBSET S /\ k \notin Below(k)
      BY <1>1
    <2> HIDE DEF Below
    <2>2. IsFiniteSet(Below(k)) /\ Cardinality(Below(k)) \in Nat
          /\ Cardinality(Below(k)) <= Cardinality(S)
      BY <1>1, <2>1, FS_Subset, FS_CardinalityType
    <2>3. Cardinality(Below(k)) = Cardinality(S) => Below(k) = S
      BY <1>1, <2>1, FS_Subset
    <2>. QED  BY <1>1, <2>1, <2>2, <2>3
  <1>3. ASSUME NEW k \in S, NEW l \in S, k < l
        PROVE  Cardinality(Below(k)) < Cardinality(Below(l))
    <2>0. k \in Nat /\ l \in Nat /\ \A x \in S : x < k => x < l
      BY <1>1, <1>3
    <2>1. Below(k) \in SUBSET Below(l) /\ k \in Below(l) /\ k \notin Below(k)
      <3>1. \A x \in Below(k) : x \in Below(l)
        BY <2>0
      <3>2. k \in Below(l)
        BY <1>3
      <3>3. k \notin Below(k)
        BY <2>0
      <3>4. Below(k) \subseteq Below(l)
        <4> HIDE DEF Below
        <4>. QED  BY <3>1
      <3> HIDE DEF Below
      <3>. QED  BY <3>2, <3>3, <3>4
    <2>2. IsFiniteSet(Below(l)) /\ Cardinality(Below(l)) \in Nat
          /\ Cardinality(Below(k)) \in Nat
      BY <1>2
    <2> HIDE DEF Below
    <2>3. /\ Cardinality(Below(k)) <= Cardinality(Below(l))
          /\ Cardinality(Below(k)) = Cardinality(Below(l)) => Below(k) = Below(l)
      BY <2>1, <2>2, FS_Subset
    <2>. QED  BY <2>1, <2>2, <2>3
  <1>4. \A k \in S : Rank(k, S) = Cardinality(Below(k)) /\ k \in Nat
    BY <1>1 DEF Rank
  <1> HIDE DEF Below
  <1>5. ASSUME NEW k \in S, NEW l \in S
        PROVE  /\ k < l <=> Rank(k, S) < Rank(l, S)
               /\ Rank(k, S) = Rank(l, S) => k = l
    <2>1. k \in Nat /\ l \in Nat /\ Rank(k, S) \in Nat /\ Rank(l, S) \in Nat
      BY <1>2, <1>4
    <2>2. k < l => Rank(k, S) < Rank(l, S)
      BY <1>3, <1>4
    <2>3. l < k => Rank(l, S) < Rank(k, S)
      BY <1>3, <1>4
    <2>. QED  BY <2>1, <2>2, <2>3
  <1>. QED  BY <1>1, <1>2, <1>4, <1>5

LEMMA SoundInit == ASSUME Init PROVE Sound
  <1>1. PICK S \in SUBSET Keys :
           /\ Cardinality(S) <= MaxEntries
           /\ \E initial \in [S -> Values] :
                 \/ /\ kind = "Hash" /\ data = initial
                    /\ stamps = Empty /\ stampOf = Empty /\ seq = 0
                 \/ /\ kind = "Array" /\ S \subseteq Slots
                    /\ data = [i \in Slots |-> IF i \in S THEN initial[i] ELSE Zero]
                    /\ stamps = Empty /\ stampOf = Empty /\ seq = 0
                 \/ /\ kind = "LruArray" /\ data = initial
                    /\ stampOf = [k \in S |-> Rank(k, S)]
                    /\ stamps = [n \in {Rank(k, S) : k \in S} |->
                                   CHOOSE k \in S : Rank(k, S) = n]
                    /\ seq = Cardinality(S)
    BY DEF Init
  <1>2. ret \in Results
    BY DEF Init, Done, Results
  <1>3. PICK initial \in [S -> Values] :
                 \/ /\ kind = "Hash" /\ data = initial
                    /\ stamps = Empty /\ stampOf = Empty /\ seq = 0
                 \/ /\ kind = "Array" /\ S \subseteq Slots
                    /\ data = [i \in Slots |-> IF i \in S THEN initial[i] ELSE Zero]
                    /\ stamps = Empty /\ stampOf = Empty /\ seq = 0
                 \/ /\ kind = "LruArray" /\ data = initial
                    /\ stampOf = [k \in S |-> Rank(k, S)]
                    /\ stamps = [n \in {Rank(k, S) : k \in S} |->
                                   CHOOSE k \in S : Rank(k, S) = n]
                    /\ seq = Cardinality(S)
    BY <1>1
  <1>4. CASE kind = "Hash"
    BY <1>1, <1>2, <1>3, <1>4
       DEF Sound, TypeOK, Kinds, Empty, IndexesAgree, StampsBehindSeq, WithinCapacity
  <1>5. CASE kind = "Array"
    <2>1. DOMAIN data = Slots /\ data \in [Slots -> Values] /\ Slots \subseteq Keys
      BY <1>3, <1>5, MapAssumption DEF Slots
    <2>2. Cardinality(Slots) = MaxEntries
      BY MapAssumption, FS_Interval DEF Slots
    <2>. QED  BY <1>2, <1>3, <1>5, <2>1, <2>2, MapAssumption
         DEF Sound, TypeOK, Kinds, Empty, IndexesAgree, StampsBehindSeq, WithinCapacity
  <1>6. CASE kind = "LruArray"
    <2>1. /\ data \in [S -> Values] /\ DOMAIN data = S /\ seq = Cardinality(S)
          /\ stampOf = [k \in S |-> Rank(k, S)]
          /\ stamps = [n \in {Rank(k, S) : k \in S} |-> CHOOSE k \in S : Rank(k, S) = n]
      BY <1>3, <1>6
    <2>2. \A k \in S : stamps[Rank(k, S)] = k
      BY <2>1, RankFacts
    <2>3. Mutual(stamps, stampOf)
      BY <2>1, <2>2 DEF Mutual
    <2>4. DOMAIN stampOf = S /\ stampOf \in [S -> Nat]
      BY <2>1, RankFacts
    <2>5. DOMAIN stamps \subseteq Nat /\ \A n \in DOMAIN stamps : n < seq
      BY <2>1, RankFacts
    <2>6. stamps \in [DOMAIN stamps -> Keys]
      BY <2>1, <2>2
    <2>7. seq \in Nat
      BY <2>1, RankFacts
    <2>. QED  BY <1>1, <1>2, <1>6, <2>1, <2>3, <2>4, <2>5, <2>6, <2>7
         DEF Sound, TypeOK, Kinds, IndexesAgree, StampsBehindSeq, WithinCapacity, Mutual
  <1>. QED  BY <1>4, <1>5, <1>6 DEF Init, Kinds

-----------------------------------------------------------------------------
(***************************************************************************)
(* The theorems.                                                           *)
(***************************************************************************)

LEMMA SoundNext == ASSUME Sound, [Next]_vars PROVE Sound'
  <1>1. CASE UNCHANGED vars
    BY <1>1, SoundUnchanged DEF vars, Sound, TypeOK
  <1>2. CASE Next
    <2>1. PICK k \in Keys \cup {WrongWidth} :
             \/ Lookup(k)
             \/ \E v \in Values \cup {WrongWidth}, f \in Flags : Update(k, v, f)
             \/ Delete(k)
      BY <1>2 DEF Next
    <2>2. ASSUME NEW e \in {"InvalidDesc", "KeySizeMismatch", "ValueSizeMismatch",
                            "KeyNotFound", "Full"}, Fail(e)
          PROVE  Sound'
      BY <2>2, SoundUnchanged DEF Fail, Err, Results
    <2>3. \A x \in DOMAIN data : data[x] \in Values /\ x \in Keys
      BY DEF Sound, TypeOK
    <2>4. CASE Lookup(k)
      <3>1. CASE /\ k \in DOMAIN data /\ ret' = Hit(data[k])
                 /\ UNCHANGED <<kind, data, stamps, stampOf, seq>>
        BY <2>3, <3>1, SoundUnchanged DEF Hit, Results
      <3>2. CASE ret' = Miss /\ UNCHANGED <<kind, data, stamps, stampOf, seq>>
        BY <3>2, SoundUnchanged DEF Miss, Results
      <3>. QED  BY <2>2, <2>4, <3>1, <3>2, SoundLruLookup DEF Lookup
    <2>5. CASE \E v \in Values \cup {WrongWidth}, f \in Flags : Update(k, v, f)
      <3>1. PICK v \in Values \cup {WrongWidth}, f \in Flags : Update(k, v, f)
        BY <2>5
      <3>2. CASE k # WrongWidth /\ v # WrongWidth
        <4>1. k \in Keys /\ v \in Values
          BY <3>2
        <4>. QED  BY <2>2, <3>1, <3>2, <4>1, SoundHashUpdate, SoundArrayUpdate,
                     SoundLruUpdate DEF Update
      <3>3. CASE ~(k # WrongWidth /\ v # WrongWidth)
        BY <2>2, <3>1, <3>3 DEF Update
      <3>. QED  BY <3>2, <3>3
    <2>6. CASE Delete(k)
      <3>1. ASSUME kind = "Hash", k \in DOMAIN data, HashDelete(k) PROVE Sound'
        <4>1. data' = Without(data, k) /\ DOMAIN data' = DOMAIN data \ {k} /\ ret' = Done
              /\ UNCHANGED <<kind, stamps, stampOf, seq>>
          BY <3>1 DEF HashDelete, Without
        <4>2. Maps(data', Keys, Values)
          BY <4>1, WithoutMaps DEF Sound, TypeOK, Maps
        <4>3. IsFiniteSet(DOMAIN data) /\ Cardinality(DOMAIN data) \in Nat
              /\ Cardinality(DOMAIN data) <= MaxEntries /\ MaxEntries \in Nat
          BY LiveFinite, MapAssumption DEF Sound, WithinCapacity
        <4>4. Cardinality(DOMAIN data \ {k}) = Cardinality(DOMAIN data) - 1
          BY <3>1, <4>3, FS_RemoveElement
        <4>5. WithinCapacity'
          BY <4>1, <4>3, <4>4 DEF WithinCapacity
        <4>. QED  BY <3>1, <4>1, <4>2, <4>5, SoundPlain
      <3>2. ASSUME kind = "Array", k \in DOMAIN data, ArrayDelete(k) PROVE Sound'
        <4>1. data' = [data EXCEPT ![k] = Zero] /\ ret' = Done
              /\ UNCHANGED <<kind, stamps, stampOf, seq>>
          BY <3>2 DEF ArrayDelete
        <4>2. Maps(data', Keys, Values) /\ DOMAIN data' = DOMAIN data
          BY <4>1, MapAssumption DEF Sound, TypeOK, Maps
        <4>. QED  BY <3>2, <4>1, <4>2, SoundPlain DEF Sound, TypeOK, WithinCapacity
      <3>. QED  BY <2>2, <2>6, <3>1, <3>2, SoundLruDelete DEF Delete
    <2>. QED  BY <2>1, <2>4, <2>5, <2>6
  <1>. QED  BY <1>1, <1>2

\* Every reachable store satisfies the invariant.
THEOREM StoreSound == Spec => []Sound
  <1>1. Init => Sound
    BY SoundInit
  <1>2. Sound /\ [Next]_vars => Sound'
    BY SoundNext
  <1>. QED  BY <1>1, <1>2, PTL DEF Spec

\* The fields of MapStore keep their types.
THEOREM StoreTypeCorrect == Spec => []TypeOK
  <1>1. Sound => TypeOK
    BY DEF Sound
  <1>. QED  BY <1>1, StoreSound, PTL

\* Entries, stamps and reverse stamps of an LRU map never come apart.
THEOREM StoreIndexesAgree == Spec => []IndexesAgree
  <1>1. Sound => IndexesAgree
    BY DEF Sound
  <1>. QED  BY <1>1, StoreSound, PTL

\* No stamp is ever handed out twice: the next one is beyond all in use.
THEOREM StoreStampsFresh == Spec => []StampsBehindSeq
  <1>1. Sound => StampsBehindSeq
    BY DEF Sound
  <1>. QED  BY <1>1, StoreSound, PTL

\* No map ever holds more than max_entries entries.
THEOREM StoreWithinCapacity == Spec => []WithinCapacity
  <1>1. Sound => WithinCapacity
    BY DEF Sound
  <1>. QED  BY <1>1, StoreSound, PTL

\* An operation that returns an error leaves the store as it was.
THEOREM FailuresChangeNothing == Spec => FailureChangesNothing
  <1>1. [Next]_vars => [FailedStep]_vars
    <2> SUFFICES ASSUME Next PROVE FailedStep
      OBVIOUS
    <2>1. (\E e : Fail(e)) => FailedStep
      BY DEF Fail, FailedStep
    <2>2. (ret' = Done \/ ret' = Miss \/ \E x : ret' = Hit(x)) => FailedStep
      BY DEF FailedStep, Done, Miss, Hit
    <2>3. \A k : Lookup(k) => FailedStep
      BY <2>1, <2>2 DEF Lookup, LruLookup
    <2>4. \A k : Delete(k) => FailedStep
      BY <2>1, <2>2 DEF Delete, HashDelete, ArrayDelete, LruDelete
    <2>5. \A k, v, f : HashUpdate(k, v, f) => FailedStep
      BY <2>1, <2>2 DEF HashUpdate
    <2>6. \A k, v, f : ArrayUpdate(k, v, f) => FailedStep
      BY <2>1, <2>2 DEF ArrayUpdate
    <2>7. \A k, v, f : LruUpdate(k, v, f) => FailedStep
      BY <2>1, <2>2 DEF LruUpdate
    <2>8. \A k, v, f : Update(k, v, f) => FailedStep
      BY <2>1, <2>5, <2>6, <2>7 DEF Update
    <2>. QED  BY <2>3, <2>4, <2>8 DEF Next
  <1>. QED  BY <1>1, PTL DEF Spec, FailureChangesNothing

-----------------------------------------------------------------------------
(***************************************************************************)
(* The store implements BpfMap.                                            *)
(***************************************************************************)

\* The instance counts as the store does.
LEMMA SameCardinality ==
    ASSUME NEW S PROVE Abstract!Cardinality(S) = Cardinality(S)
  BY DEF Abstract!Cardinality, Cardinality, Abstract!IsFiniteSet, IsFiniteSet

LEMMA AbstractInit == ASSUME Init PROVE Abstract!Init
  <1>1. PICK S \in SUBSET Keys :
           \/ kind # "LruArray" /\ stampOf = Empty
           \/ /\ kind = "LruArray" /\ DOMAIN data = S
              /\ stampOf = [k \in S |-> Rank(k, S)]
    <2>1. PICK S \in SUBSET Keys : \E initial \in [S -> Values] :
              \/ kind = "Hash" /\ stampOf = Empty
              \/ kind = "Array" /\ stampOf = Empty
              \/ /\ kind = "LruArray" /\ data = initial
                 /\ stampOf = [k \in S |-> Rank(k, S)]
      BY DEF Init
    <2>2. PICK initial \in [S -> Values] :
              \/ kind = "Hash" /\ stampOf = Empty
              \/ kind = "Array" /\ stampOf = Empty
              \/ /\ kind = "LruArray" /\ data = initial
                 /\ stampOf = [k \in S |-> Rank(k, S)]
      BY <2>1
    <2>. QED  BY <2>2
  <1>2. Sound
    BY SoundInit
  <1>3. /\ kind \in Abstract!Kinds /\ ret = Abstract!Done
    BY DEF Init, Kinds, Abstract!Kinds, Done, Abstract!Done
  <1>4. \E T \in SUBSET Keys :
          /\ data \in [T -> Values]
          /\ kind = "Array" => T = 0 .. (MaxEntries - 1)
          /\ Cardinality(T) <= MaxEntries
    BY <1>2 DEF Sound, TypeOK, WithinCapacity, Slots
  <1>5. older = IF kind = "LruArray"
                THEN {p \in Abstract!Live \X Abstract!Live : p[1] < p[2]} ELSE {}
    <2>1. CASE kind = "LruArray"
      <3>1. DOMAIN stampOf = S /\ DOMAIN data = S /\ \A k \in S : stampOf[k] = Rank(k, S)
        BY <1>1, <2>1
      <3>2. \A k, l \in S : k < l <=> Rank(k, S) < Rank(l, S)
        BY RankFacts
      <3>3. \A p \in S \X S : stampOf[p[1]] < stampOf[p[2]] <=> p[1] < p[2]
        BY <3>1, <3>2
      <3>. QED  BY <2>1, <3>1, <3>3 DEF older, Abstract!Live
    <2>2. CASE kind # "LruArray"
      BY <1>1, <2>2 DEF older, Empty
    <2>. QED  BY <2>1, <2>2
  <1>. QED  BY <1>3, <1>4, <1>5, SameCardinality DEF Abstract!Init

\* lru_touch makes its key the newest of the keys it keeps.
LEMMA OlderAfterTouch ==
    ASSUME kind = "LruArray", NEW of, NEW k,
           DOMAIN of \subseteq DOMAIN stampOf,
           \A x \in DOMAIN of : of[x] = stampOf[x] /\ of[x] \in Nat,
           DOMAIN stampOf' = DOMAIN of \cup {k},
           stampOf'[k] = seq, seq \in Nat,
           \A x \in DOMAIN of \ {k} : stampOf'[x] = of[x] /\ of[x] < seq
    PROVE  older' = Abstract!Newest(k, DOMAIN of)
  <1> DEFINE R == (DOMAIN of) \ {k}
             N == {p \in older : p[1] \in R /\ p[2] \in R} \cup (R \X {k})
  <1>1. Abstract!Newest(k, DOMAIN of) = N
    BY DEF Abstract!Newest
  <1>2. ASSUME NEW a \in (DOMAIN of) \cup {k}, NEW b \in (DOMAIN of) \cup {k}
        PROVE  <<a, b>> \in older' <=> <<a, b>> \in N
    <2>1. <<a, b>> \in older' <=> stampOf'[a] < stampOf'[b]
      BY DEF older
    <2>2. CASE a \in R /\ b \in R
      <3>1. <<a, b>> \in older <=> stampOf[a] < stampOf[b]
        BY <2>2 DEF older
      <3>. QED  BY <2>1, <2>2, <3>1
    <2>3. CASE a \in R /\ b = k
      BY <2>1, <2>3
    <2>4. CASE a = k
      <3>1. \A x \in R : of[x] < seq /\ of[x] \in Nat
        OBVIOUS
      <3>2. ~(stampOf'[k] < stampOf'[b])
        BY <3>1
      <3>3. <<k, b>> \notin N
        OBVIOUS
      <3>. QED  BY <2>1, <2>4, <3>2, <3>3
    <2>. QED  BY <2>2, <2>3, <2>4
  <1>3. older' \subseteq ((DOMAIN of) \cup {k}) \X ((DOMAIN of) \cup {k})
    BY DEF older
  <1>4. N \subseteq ((DOMAIN of) \cup {k}) \X ((DOMAIN of) \cup {k})
    <2>1. \A p \in older : p = <<p[1], p[2]>>
      BY DEF older
    <2>. QED  BY <2>1
  <1> HIDE DEF N
  <1>5. older' = N
    BY <1>2, <1>3, <1>4
  <1>. QED  BY <1>1, <1>5

\* Maps without recency have no pairs; a store whose stamps did not move has
\* the pairs it had.
LEMMA OlderPlain ==
    ASSUME Sound, kind # "LruArray" PROVE older = {}
  BY DEF Sound, TypeOK, older

LEMMA OlderSame ==
    ASSUME stampOf' = stampOf PROVE older' = older
  BY DEF older

LEMMA AbstractLookup ==
    ASSUME Sound, NEW k \in Keys \cup {WrongWidth}, Lookup(k)
    PROVE  kind' = kind /\ Abstract!Lookup(k)
  <1> USE DEF Abstract!Live, Hit, Abstract!Hit, Miss, Abstract!Miss, Err, Abstract!Err
  <1>0. DOMAIN data \subseteq Keys /\ WrongWidth \notin Keys
    BY MapAssumption DEF Sound, TypeOK
  <1>1. CASE k = WrongWidth /\ Fail("KeySizeMismatch")
    BY <1>0, <1>1, OlderSame DEF Fail, Abstract!Lookup
  <1>2. CASE /\ k # WrongWidth /\ kind # "LruArray" /\ k \in DOMAIN data
             /\ ret' = Hit(data[k]) /\ UNCHANGED <<kind, data, stamps, stampOf, seq>>
    BY <1>2, OlderSame, OlderPlain DEF Abstract!Lookup, Abstract!Newest
  <1>3. CASE k # WrongWidth /\ kind = "LruArray" /\ k \in DOMAIN data /\ LruLookup(k)
    <2>1. /\ Touch(stamps, stampOf, k) /\ UNCHANGED <<kind, data>>
          /\ ret' = Hit(data[k]) /\ k \in Keys
      BY <1>0, <1>3 DEF LruLookup
    <2>2. /\ DOMAIN stampOf' = DOMAIN stampOf \cup {k} /\ stampOf'[k] = seq
          /\ seq \in Nat /\ DOMAIN stampOf = DOMAIN data
          /\ \A x \in DOMAIN stampOf \ {k} : stampOf'[x] = stampOf[x] /\ stampOf'[x] < seq
          /\ \A x \in DOMAIN stampOf : stampOf[x] \in Nat
      BY <1>3, <2>1, LruFacts, TouchFacts DEF Maps
    <2>3. older' = Abstract!Newest(k, DOMAIN stampOf)
      BY <1>3, <2>2, OlderAfterTouch
    <2>. QED  BY <1>3, <2>1, <2>2, <2>3 DEF Abstract!Lookup
  <1>4. CASE /\ k # WrongWidth /\ kind # "Array" /\ k \notin DOMAIN data /\ ret' = Miss
             /\ UNCHANGED <<kind, data, stamps, stampOf, seq>>
    BY <1>4, OlderSame DEF Abstract!Lookup
  <1>5. CASE k # WrongWidth /\ kind = "Array" /\ k >= MaxEntries /\ Fail("Full")
    <2>1. k \in Nat /\ MaxEntries \in Nat /\ DOMAIN data = 0 .. (MaxEntries - 1)
      BY <1>5, MapAssumption DEF Sound, TypeOK, Slots
    <2>2. k \notin DOMAIN data
      BY <1>5, <2>1
    <2>. QED  BY <1>5, <2>2, OlderSame DEF Fail, Abstract!Lookup
  <1>. QED  BY <1>1, <1>2, <1>3, <1>4, <1>5 DEF Lookup

LEMMA AbstractDelete ==
    ASSUME Sound, NEW k \in Keys \cup {WrongWidth}, Delete(k)
    PROVE  kind' = kind /\ Abstract!Delete(k)
  <1> USE DEF Abstract!Live, Done, Abstract!Done, Err
  <1>0. DOMAIN data \subseteq Keys /\ WrongWidth \notin Keys
    BY MapAssumption DEF Sound, TypeOK
  <1>1. ASSUME NEW e \in {"KeySizeMismatch", "KeyNotFound", "Full"}, Fail(e),
               k \notin DOMAIN data
        PROVE  kind' = kind /\ Abstract!Delete(k)
    BY <1>1, OlderSame DEF Fail, Abstract!Delete
  <1>2. ASSUME k # WrongWidth, kind = "Array", k >= MaxEntries PROVE k \notin DOMAIN data
    <2>1. k \in Nat /\ MaxEntries \in Nat /\ DOMAIN data = 0 .. (MaxEntries - 1)
      BY <1>2, MapAssumption DEF Sound, TypeOK, Slots
    <2>. QED  BY <1>2, <2>1
  <1>3. CASE kind = "Hash" /\ k \in DOMAIN data /\ HashDelete(k)
    <2>1. older' = older /\ older = {}
      BY <1>3, OlderSame, OlderPlain DEF HashDelete
    <2>. QED  BY <1>3, <2>1 DEF HashDelete, Without, Abstract!Delete
  <1>4. CASE kind = "Array" /\ k \in DOMAIN data /\ ArrayDelete(k)
    BY <1>4, OlderSame DEF ArrayDelete, Abstract!Delete
  <1>5. CASE kind = "LruArray" /\ k \in DOMAIN data /\ LruDelete(k)
    <2>1. stampOf' = Without(stampOf, k)
      BY <1>5 DEF LruDelete
    <2>2. DOMAIN stampOf' = DOMAIN stampOf \ {k}
          /\ \A x \in DOMAIN stampOf \ {k} : stampOf'[x] = stampOf[x]
      BY <2>1 DEF Without
    <2>3. older' = {p \in older : p[1] # k /\ p[2] # k}
      BY <2>2 DEF older
    <2>. QED  BY <1>5, <2>3 DEF LruDelete, Without, Abstract!Delete
  <1>. QED  BY <1>0, <1>1, <1>2, <1>3, <1>4, <1>5 DEF Delete

\* A refused update is one the abstract map refuses too.
LEMMA AbstractRefused ==
    ASSUME Sound, NEW k, NEW v, NEW f,
           NEW e \in {"InvalidDesc", "KeySizeMismatch", "ValueSizeMismatch",
                      "KeyExists", "KeyNotFound", "Full"},
           Fail(e), Abstract!Refused(k, v, f)
    PROVE  kind' = kind /\ Abstract!Update(k, v, f)
  BY OlderSame DEF Fail, Err, Abstract!Update

LEMMA AbstractHashUpdate ==
    ASSUME Sound, kind = "Hash", NEW k \in Keys, NEW v \in Values, NEW f \in Flags,
           f # 3, HashUpdate(k, v, f)
    PROVE  kind' = kind /\ Abstract!Update(k, v, f)
  <1>1. FlagError(f, k \in DOMAIN data) \in {"KeyExists", "KeyNotFound", "none"}
    BY DEF FlagError
  <1>2. /\ WrongWidth \notin {k, v}
        /\ Cardinality(DOMAIN data) \in Nat /\ MaxEntries \in Nat
    BY LiveFinite, MapAssumption DEF Sound
  <1>3. ASSUME FlagError(f, k \in DOMAIN data) # "none",
               Fail(FlagError(f, k \in DOMAIN data))
        PROVE  kind' = kind /\ Abstract!Update(k, v, f)
    <2>1. Abstract!Refused(k, v, f)
      BY <1>3 DEF FlagError, Abstract!Refused, Abstract!Live
    <2>. QED  BY <1>1, <1>3, <2>1, AbstractRefused
  <1>4. ASSUME k \notin DOMAIN data, Cardinality(DOMAIN data) >= MaxEntries, Fail("Full")
        PROVE  kind' = kind /\ Abstract!Update(k, v, f)
    <2>1. Abstract!Refused(k, v, f)
      BY <1>4, SameCardinality DEF Abstract!Refused, Abstract!Live
    <2>. QED  BY <1>4, <2>1, AbstractRefused
  <1>5. ASSUME FlagError(f, k \in DOMAIN data) = "none",
               k \in DOMAIN data \/ Cardinality(DOMAIN data) < MaxEntries,
               data' = With(data, k, v), ret' = Done,
               UNCHANGED <<kind, stamps, stampOf, seq>>
        PROVE  kind' = kind /\ Abstract!Update(k, v, f)
    <2>1. ~(f = 1 /\ k \in DOMAIN data) /\ ~(f = 2 /\ k \notin DOMAIN data)
      BY <1>5 DEF FlagError
    <2>2. ~ Abstract!Refused(k, v, f)
      BY <1>2, <1>5, <2>1, SameCardinality DEF Abstract!Refused, Abstract!Live
    <2>3. DOMAIN data \in Abstract!Kept(k)
      BY DEF Abstract!Kept, Abstract!Live
    <2>4. older' = Abstract!Newest(k, DOMAIN data)
      BY <1>5, OlderSame, OlderPlain DEF Abstract!Newest
    <2>. QED  BY <1>5, <2>2, <2>3, <2>4 DEF Abstract!Update, With, Done, Abstract!Done
  <1>. QED  BY <1>3, <1>4, <1>5 DEF HashUpdate

LEMMA AbstractArrayUpdate ==
    ASSUME Sound, kind = "Array", NEW k \in Keys, NEW v \in Values, NEW f \in Flags,
           f # 3, ArrayUpdate(k, v, f)
    PROVE  kind' = kind /\ Abstract!Update(k, v, f)
  <1>1. k \in Nat /\ MaxEntries \in Nat /\ DOMAIN data = 0 .. (MaxEntries - 1)
        /\ WrongWidth \notin {k, v}
    BY MapAssumption DEF Sound, TypeOK, Slots
  <1>2. Cardinality(DOMAIN data) = MaxEntries
    BY <1>1, MapAssumption, FS_Interval
  <1>3. k \in DOMAIN data <=> k < MaxEntries
    BY <1>1
  <1>4. CASE k >= MaxEntries /\ Fail("Full")
    <2>1. Abstract!Refused(k, v, f)
      BY <1>1, <1>2, <1>3, <1>4, SameCardinality DEF Abstract!Refused, Abstract!Live
    <2>. QED  BY <1>4, <2>1, AbstractRefused
  <1>5. CASE k < MaxEntries /\ f = 1 /\ Fail("KeyExists")
    <2>1. Abstract!Refused(k, v, f)
      BY <1>3, <1>5 DEF Abstract!Refused, Abstract!Live
    <2>. QED  BY <1>5, <2>1, AbstractRefused
  <1>6. CASE /\ k < MaxEntries /\ f # 1 /\ data' = [data EXCEPT ![k] = v] /\ ret' = Done
             /\ UNCHANGED <<kind, stamps, stampOf, seq>>
    <2>1. ~ Abstract!Refused(k, v, f)
      BY <1>1, <1>3, <1>6 DEF Abstract!Refused, Abstract!Live
    <2>2. DOMAIN data \in Abstract!Kept(k)
      BY DEF Abstract!Kept, Abstract!Live
    <2>3. older' = Abstract!Newest(k, DOMAIN data)
      BY <1>6, OlderSame, OlderPlain DEF Abstract!Newest
    <2>4. data' = [x \in DOMAIN data \cup {k} |-> IF x = k THEN v ELSE data[x]]
      BY <1>3, <1>6 DEF Sound, TypeOK
    <2>. QED  BY <1>6, <2>1, <2>2, <2>3, <2>4 DEF Abstract!Update, Done, Abstract!Done
  <1>. QED  BY <1>4, <1>5, <1>6 DEF ArrayUpdate

\* The victim of an eviction is a key nothing is older than.
LEMMA AbstractLruUpdate ==
    ASSUME Sound, kind = "LruArray", NEW k \in Keys, NEW v \in Values, NEW f \in Flags,
           f # 3, LruUpdate(k, v, f)
    PROVE  kind' = kind /\ Abstract!Update(k, v, f)
  <1>1. /\ WrongWidth \notin {k, v}
        /\ Cardinality(DOMAIN data) \in Nat /\ MaxEntries \in Nat
    BY LiveFinite, MapAssumption DEF Sound
  <1>2. CASE \E e \in {"KeyExists", "KeyNotFound"} :
                Fail(e) /\ FlagError(f, k \in DOMAIN data) = e
    <2>1. Abstract!Refused(k, v, f)
      BY <1>2 DEF FlagError, Abstract!Refused, Abstract!Live
    <2>. QED  BY <1>2, <2>1, AbstractRefused
  <1>3. ASSUME FlagError(f, k \in DOMAIN data) = "none"
        PROVE  ~ Abstract!Refused(k, v, f)
    BY <1>1, <1>3 DEF FlagError, Abstract!Refused, Abstract!Live
  <1>4. CASE /\ FlagError(f, k \in DOMAIN data) = "none"
             /\ k \in DOMAIN data \/ Cardinality(DOMAIN data) < MaxEntries
             /\ Touch(stamps, stampOf, k)
             /\ data' = With(data, k, v) /\ ret' = Done /\ kind' = kind
    <2>1. DOMAIN data \in Abstract!Kept(k)
      BY <1>1, <1>4, SameCardinality DEF Abstract!Kept, Abstract!Live
    <2>2. /\ DOMAIN stampOf' = DOMAIN stampOf \cup {k} /\ stampOf'[k] = seq
          /\ seq \in Nat /\ DOMAIN stampOf = DOMAIN data
          /\ \A x \in DOMAIN stampOf \ {k} : stampOf'[x] = stampOf[x] /\ stampOf'[x] < seq
          /\ \A x \in DOMAIN stampOf : stampOf[x] \in Nat
      BY <1>4, LruFacts, TouchFacts DEF Maps
    <2>3. older' = Abstract!Newest(k, DOMAIN data)
      BY <2>2, OlderAfterTouch
    <2>. QED  BY <1>3, <1>4, <2>1, <2>3 DEF Abstract!Update, With, Done, Abstract!Done
  <1>5. CASE /\ FlagError(f, k \in DOMAIN data) = "none"
             /\ k \notin DOMAIN data /\ Cardinality(DOMAIN data) >= MaxEntries
             /\ DOMAIN stamps # {}
             /\ Touch(Without(stamps, Oldest), Without(stampOf, stamps[Oldest]), k)
             /\ data' = With(Without(data, stamps[Oldest]), k, v)
             /\ ret' = Done /\ kind' = kind
    <2> DEFINE old == stamps[Oldest]
               sts == Without(stamps, Oldest)
               of == Without(stampOf, old)
               left == DOMAIN data \ {old}
    <2>1. /\ old \in DOMAIN data /\ stampOf[old] = Oldest
          /\ \A x \in DOMAIN data : Oldest <= stampOf[x] /\ stampOf[x] \in Nat
          /\ Oldest \in Nat
      BY <1>5, OldestFacts, LruFacts DEF Maps
    <2>2. \A x \in DOMAIN data : <<x, old>> \notin older
      <3>1. \A x \in DOMAIN data : ~(stampOf[x] < stampOf[old])
        BY <2>1
      <3>. QED  BY <3>1 DEF older
    <2>3. left \in Abstract!Kept(k)
      BY <1>5, <2>1, <2>2, SameCardinality DEF Abstract!Kept, Abstract!Live
    <2>4. /\ Maps(sts, Nat, Keys) /\ Maps(of, Keys, Nat) /\ Mutual(sts, of)
          /\ \A n \in DOMAIN sts : n < seq
          /\ DOMAIN of = left /\ seq \in Nat /\ Touch(sts, of, k)
      BY <1>5, EvictFacts, LruFacts
    <2>5. /\ left \subseteq DOMAIN stampOf
          /\ \A x \in left : of[x] = stampOf[x]
      BY LruFacts DEF Without
    <2>6. data' = [x \in left \cup {k} |-> IF x = k THEN v ELSE data[x]]
      BY <1>5 DEF With, Without
    <2> HIDE DEF old, sts, of, left
    <2>7. /\ DOMAIN stampOf' = DOMAIN of \cup {k} /\ stampOf'[k] = seq
          /\ \A x \in DOMAIN of \ {k} : stampOf'[x] = of[x] /\ stampOf'[x] < seq
          /\ \A x \in DOMAIN of : of[x] \in Nat
      <3>1. /\ DOMAIN stampOf' = DOMAIN of \cup {k} /\ stampOf'[k] = seq
            /\ \A x \in DOMAIN of \ {k} : stampOf'[x] = of[x] /\ stampOf'[x] < seq
        BY <2>4, TouchFacts
      <3>2. \A x \in DOMAIN of : of[x] \in Nat
        BY <2>4 DEF Maps
      <3>. QED  BY <3>1, <3>2
    <2>8. older' = Abstract!Newest(k, left)
      BY <2>4, <2>5, <2>7, OlderAfterTouch
    <2>. QED  BY <1>3, <1>5, <2>3, <2>6, <2>8 DEF Abstract!Update, Done, Abstract!Done
  <1>. QED  BY <1>2, <1>4, <1>5, LruUpdateCases

LEMMA AbstractUpdate ==
    ASSUME Sound, NEW k \in Keys \cup {WrongWidth}, NEW v \in Values \cup {WrongWidth},
           NEW f \in Flags, Update(k, v, f)
    PROVE  kind' = kind /\ Abstract!Update(k, v, f)
  <1>1. CASE f = 3 /\ Fail("InvalidDesc")
    <2>1. Abstract!Refused(k, v, f)
      BY <1>1 DEF Abstract!Refused
    <2>. QED  BY <1>1, <2>1, AbstractRefused
  <1>2. CASE WrongWidth \in {k, v} /\ \E e \in {"KeySizeMismatch", "ValueSizeMismatch"} : Fail(e)
    <2>1. Abstract!Refused(k, v, f)
      BY <1>2 DEF Abstract!Refused
    <2>. QED  BY <1>2, <2>1, AbstractRefused
  <1>3. CASE /\ f # 3 /\ k # WrongWidth /\ v # WrongWidth
             /\ \/ kind = "Hash" /\ HashUpdate(k, v, f)
                \/ kind = "Array" /\ ArrayUpdate(k, v, f)
                \/ kind = "LruArray" /\ LruUpdate(k, v, f)
    <2>1. k \in Keys /\ v \in Values
      BY <1>3
    <2>. QED  BY <1>3, <2>1, AbstractHashUpdate, AbstractArrayUpdate, AbstractLruUpdate
  <1>. QED  BY <1>1, <1>2, <1>3 DEF Update

LEMMA AbstractNext ==
    ASSUME Sound, [Next]_vars
    PROVE  [Abstract!Next]_(Abstract!vars)
  <1>1. CASE UNCHANGED vars
    <2>1. older' = older
      BY <1>1, OlderSame DEF vars
    <2>. QED  BY <1>1, <2>1 DEF vars, Abstract!vars
  <1>2. CASE Next
    <2>0. Flags = Abstract!Flags
      BY DEF Flags, Abstract!Flags
    <2>1. PICK k \in Keys \cup {WrongWidth} :
             \/ Lookup(k)
             \/ \E v \in Values \cup {WrongWidth}, f \in Flags : Update(k, v, f)
             \/ Delete(k)
      BY <1>2 DEF Next
    <2>2. CASE Lookup(k)
      BY <2>2, AbstractLookup DEF Abstract!Next
    <2>3. CASE \E v \in Values \cup {WrongWidth}, f \in Flags : Update(k, v, f)
      <3>1. PICK v \in Values \cup {WrongWidth}, f \in Flags : Update(k, v, f)
        BY <2>3
      <3>2. kind' = kind /\ Abstract!Update(k, v, f)
        BY <3>1, AbstractUpdate
      <3>. QED  BY <2>0, <3>2 DEF Abstract!Next
    <2>4. CASE Delete(k)
      BY <2>4, AbstractDelete DEF Abstract!Next
    <2>. QED  BY <2>1, <2>2, <2>3, <2>4
  <1>. QED  BY <1>1, <1>2

\* Every operation of the store, on maps of every size, does what the
\* abstract map allows: an eviction takes the entry used longest ago.
THEOREM StoreImplementsBpfMap == Spec => ImplementsBpfMap
  <1>1. Init => Abstract!Init
    BY AbstractInit
  <1>2. Sound /\ [Next]_vars => [Abstract!Next]_(Abstract!vars)
    BY AbstractNext
  <1>. QED  BY <1>1, <1>2, StoreSound, PTL DEF Spec, ImplementsBpfMap, Abstract!Spec
=============================================================================
