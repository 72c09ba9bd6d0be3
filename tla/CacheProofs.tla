---------------------------- MODULE CacheProofs ----------------------------
(***************************************************************************)
(* Proofs about CacheSim for every geometry of the caches and every trace. *)
(*                                                                         *)
(* Only an access that misses in the first level changes a set of the      *)
(* second one, and it replaces the set by Accessed(set, ...).  What must   *)
(* hold of a set (GoodSet) is shown once to be kept by Accessed, and what  *)
(* Accessed does to the list of a set's blocks in the order of their LRU   *)
(* counters (Recent) is shown once to be what RecencyCache does to it.     *)
(***************************************************************************)
EXTENDS CacheProperties, Sequences, WellFoundedInduction, TLAPS

USE GeometryAssumption

(* A set whose LRU counters are a permutation, with no block twice, empty  *)
(* ways older than full ones, and nothing dirty in an empty way            *)
Permuted(lru) ==
  /\ lru \in [Slots -> Slots]
  /\ \A v, w \in Slots : lru[v] = lru[w] => v = w
  /\ \A n \in Slots : \E w \in Slots : lru[w] = n

GoodSet(set) ==
  /\ set \in L2Set
  /\ Permuted(set.LRU_counter)
  /\ \A v, w \in Slots : ~set.validBit[v] /\ set.validBit[w]
       => set.LRU_counter[v] < set.LRU_counter[w]
  /\ \A v, w \in Slots :
       set.validBit[v] /\ set.validBit[w] /\ set.tag[v] = set.tag[w] => v = w
  /\ \A w \in Slots : set.dirtyBit[w] => set.validBit[w]

LEMMA SetsAreGood ==
  IInv <=> /\ i_cache \in [Lines -> L1Line] /\ d_cache \in [Lines -> L1Line]
           /\ line \in (Addresses \X Inputs) \cup {<<>>}
           /\ counted \in SUBSET Counters
           /\ l2_cache \in [Indices -> L2Set]
           /\ \A s \in Indices : GoodSet(l2_cache[s])
<1>1. ASSUME l2_cache \in [Indices -> L2Set], NEW s \in Indices
      PROVE  l2_cache[s] \in L2Set /\ l2_cache[s].LRU_counter \in [Slots -> Slots]
  BY <1>1 DEF L2Set
<1> QED BY <1>1 DEF IInv, TypeOK, LruPermutation, EmptyWaysOldest, NoDuplicateBlock,
             CleanWhenEmpty, GoodSet, Permuted

(* The tags and indices of an address *)
LEMMA AddressSplit ==
  ASSUME NEW a \in Addresses
  PROVE  /\ l1_index(a) \in Lines /\ l1_tag(a) \in Nat
         /\ l2_index(a) \in Indices /\ l2_tag(a) \in Nat
<1>1. ASSUME NEW block \in Nat \ {0}, NEW sets \in Nat \ {0}
      PROVE  /\ (a % (block * sets)) \div block \in 0 .. sets - 1
             /\ a \div (block * sets) \in Nat
  <2> DEFINE size == block * sets
             r == a % size
  <2>1. size \in Nat \ {0} /\ a \in Nat
    BY SMT
  <2>2. r \in 0 .. size - 1 /\ a \div size \in Nat
    BY <2>1, SMT
  <2>3. r \in Nat /\ r < block * sets
    BY <2>1, <2>2, SMT
  <2> HIDE DEF r
  <2>4. r \div block \in Nat /\ r % block \in 0 .. block - 1
    BY <2>3, SMT
  <2>5. r = block * (r \div block) + (r % block)
    BY <2>3, SMT
  <2>6. r \div block < sets
    BY <2>3, <2>4, <2>5, SMTT(30)
  <2> QED BY <2>2, <2>4, <2>6 DEF r
<1> QED BY <1>1 DEF l1_index, l1_tag, l2_index, l2_tag, Lines, Indices

(* Lowest finds the least of the ways it is given. *)
LEMMA LowestIn ==
  ASSUME NEW ways \in SUBSET Slots, ways # {}
  PROVE  Lowest(ways) \in ways /\ \A x \in ways : Lowest(ways) <= x
<1> DEFINE R == {ss \in Nat \X Nat : ss[1] < ss[2]}
<1>1. ways \in SUBSET Nat
  BY DEF Slots
<1>2. IsWellFoundedOn(R, Nat)
  BY NatLessThanWellFounded DEF OpToRel
<1>3. ASSUME NEW v \in Nat, NEW w \in Nat, v < w
      PROVE  <<v, w>> \in R
  <2> DEFINE x == <<v, w>>
  <2>1. x \in Nat \X Nat /\ x[1] = v /\ x[2] = w
    OBVIOUS
  <2> QED BY <1>3, <2>1
<1> HIDE DEF R
<1>4. PICK w \in ways : \A x \in ways : <<x, w>> \notin R
  BY <1>1, <1>2, WFMin
<1>5. ASSUME NEW x \in ways
      PROVE  w <= x
  <2>1. w \in Nat /\ x \in Nat
    BY <1>1
  <2>2. ~(x < w)
    BY <1>3, <1>4, <2>1
  <2> QED BY <2>1, <2>2
<1> QED BY <1>5 DEF Lowest

(* The way an access ends up in: the one that holds the block, or the      *)
(* oldest when none does.                                                  *)
LEMMA BlockIndexIn ==
  ASSUME NEW set, GoodSet(set), NEW tag
  PROVE  LET b == BlockIndex(set, tag)
             found == check_tag_and_validBit(set, tag)
         IN  /\ b \in Slots
             /\ found # {} => b \in found
             /\ found = {} => b = get_LRU_index(set) /\ set.LRU_counter[b] = 0
<1>1. 0 \in Slots
  BY DEF Slots
<1>2. {w \in Slots : set.LRU_counter[w] = 0} # {}
  BY <1>1 DEF GoodSet, Permuted
<1>3. get_LRU_index(set) \in {w \in Slots : set.LRU_counter[w] = 0}
  BY <1>2, LowestIn DEF get_LRU_index
<1>4. check_tag_and_validBit(set, tag) \in SUBSET Slots
  BY DEF check_tag_and_validBit
<1> QED BY <1>3, <1>4, LowestIn DEF BlockIndex

(* The LRU counters stay a permutation. *)
LEMMA TouchedPermuted ==
  ASSUME NEW lru, Permuted(lru), NEW b \in Slots
  PROVE  Permuted(Touched(lru, b))
<1> DEFINE new == Touched(lru, b)
<1>1. /\ lru \in [Slots -> Slots] /\ Ways \in Nat /\ Ways > 0
      /\ \A w \in Slots : lru[w] \in 0 .. Ways - 1
  <2>1. lru \in [Slots -> Slots]
    BY DEF Permuted
  <2>2. \A w \in Slots : lru[w] \in Slots
    BY <2>1
  <2>3. Slots = 0 .. Ways - 1
    BY DEF Slots
  <2> QED BY <2>1, <2>2, <2>3
<1>2. \A w \in Slots : new[w] = IF w = b THEN Ways - 1
                                ELSE IF lru[w] > lru[b] THEN lru[w] - 1 ELSE lru[w]
  BY DEF Touched
<1>3. \A v, w \in Slots : lru[v] = lru[w] => v = w
  BY DEF Permuted
<1>4. ASSUME NEW w \in Slots
      PROVE  new[w] \in Slots
  <2>1. lru[w] \in 0 .. Ways - 1 /\ lru[b] \in 0 .. Ways - 1
    BY <1>1
  <2>2. new[w] \in 0 .. Ways - 1
    BY <1>1, <1>2, <2>1
  <2> QED BY <2>2 DEF Slots
<1>5. ASSUME NEW v \in Slots, NEW w \in Slots, new[v] = new[w]
      PROVE  v = w
  <2>1. lru[v] \in 0 .. Ways - 1 /\ lru[w] \in 0 .. Ways - 1 /\ lru[b] \in 0 .. Ways - 1
    BY <1>1
  <2> QED BY <1>1, <1>2, <1>3, <1>5, <2>1
<1>6. ASSUME NEW n \in Slots
      PROVE  \E w \in Slots : new[w] = n
  <2>0. n \in 0 .. Ways - 1 /\ lru[b] \in 0 .. Ways - 1
    BY <1>1 DEF Slots
  <2>1. CASE n = Ways - 1
    BY <1>2, <2>1
  <2>2. CASE n < lru[b]
    <3>1. PICK w \in Slots : lru[w] = n
      BY DEF Permuted
    <3> QED BY <1>2, <2>0, <2>2, <3>1
  <2>3. CASE n >= lru[b] /\ n # Ways - 1
    <3>1. n + 1 \in Slots
      BY <1>1, <2>0, <2>3 DEF Slots
    <3>2. PICK w \in Slots : lru[w] = n + 1
      BY <3>1 DEF Permuted
    <3> QED BY <1>2, <2>0, <2>3, <3>2
  <2> QED BY <2>0, <2>1, <2>2, <2>3
<1>7. new \in [Slots -> Slots]
  BY <1>4 DEF Touched
<1> QED BY <1>5, <1>6, <1>7 DEF Permuted

(* An access to a set keeps it good. *)
LEMMA AccessedGood ==
  ASSUME NEW set, GoodSet(set), NEW tag \in Nat, NEW input
  PROVE  GoodSet(Accessed(set, tag, input))
<1> DEFINE b == BlockIndex(set, tag)
           found == check_tag_and_validBit(set, tag)
           lru == set.LRU_counter
           new == Accessed(set, tag, input)
<1>1. /\ b \in Slots
      /\ found # {} => b \in found
      /\ found = {} => lru[b] = 0
  BY BlockIndexIn
<1>2. /\ set.tag \in [Slots -> Nat] /\ set.validBit \in [Slots -> BOOLEAN]
      /\ set.dirtyBit \in [Slots -> BOOLEAN] /\ lru \in [Slots -> Slots]
  BY DEF GoodSet, L2Set
<1>3. Permuted(lru) /\ Permuted(Touched(lru, b))
  BY <1>1, TouchedPermuted DEF GoodSet
<1>4. found = {w \in Slots : set.validBit[w] /\ set.tag[w] = tag}
  BY DEF check_tag_and_validBit
<1> HIDE DEF b, found
<1>5. /\ new.tag = [set.tag EXCEPT ![b] = tag]
      /\ new.validBit = [set.validBit EXCEPT ![b] = TRUE]
      /\ new.dirtyBit = [set.dirtyBit EXCEPT ![b] = Dirty(set, tag, input)]
      /\ new.LRU_counter = Touched(lru, b)
  BY DEF Accessed, b
<1>6. new \in L2Set
  <2>1. Dirty(set, tag, input) \in BOOLEAN
    BY DEF Dirty
  <2>2. new.tag \in [Slots -> Nat] /\ new.validBit \in [Slots -> BOOLEAN]
    BY <1>1, <1>2, <1>5
  <2>3. new.dirtyBit \in [Slots -> BOOLEAN]
    BY <1>1, <1>2, <1>5, <2>1
  <2>4. new.LRU_counter \in [Slots -> Slots]
    BY <1>3, <1>5 DEF Permuted
  <2> QED BY <2>2, <2>3, <2>4 DEF Accessed, L2Set
<1>7. ASSUME NEW v \in Slots, NEW w \in Slots, ~new.validBit[v], new.validBit[w]
      PROVE  new.LRU_counter[v] < new.LRU_counter[w]
  <2>1. v # b /\ ~set.validBit[v] /\ (w = b \/ set.validBit[w])
    BY <1>1, <1>2, <1>5, <1>7
  <2>2. lru[v] # lru[b]
    BY <1>1, <1>3, <2>1 DEF Permuted
  <2>3. w # b => lru[v] < lru[w]
    BY <2>1 DEF GoodSet
  <2>4. /\ lru[v] \in 0 .. Ways - 1 /\ lru[w] \in 0 .. Ways - 1
        /\ lru[b] \in 0 .. Ways - 1 /\ Ways \in Nat
    BY <1>1, <1>2 DEF Slots
  <2>5. \A x \in {v, w} : new.LRU_counter[x] =
          IF x = b THEN Ways - 1 ELSE IF lru[x] > lru[b] THEN lru[x] - 1 ELSE lru[x]
    BY <1>5 DEF Touched
  <2> QED BY <2>1, <2>2, <2>3, <2>4, <2>5
<1>8. ASSUME NEW v \in Slots, NEW w \in Slots, new.validBit[v], new.validBit[w],
             new.tag[v] = new.tag[w]
      PROVE  v = w
  <2>1. ASSUME NEW x \in Slots, x # b, new.validBit[x]
        PROVE  set.validBit[x] /\ new.tag[x] = set.tag[x] /\ set.tag[x] # tag
    <3>1. set.validBit[x] /\ new.tag[x] = set.tag[x]
      BY <1>1, <1>2, <1>5, <2>1
    <3>2. CASE set.tag[x] = tag
      <4>1. x \in found /\ b \in found
        BY <1>1, <1>4, <3>1, <3>2
      <4> QED BY <1>4, <2>1, <4>1 DEF GoodSet
    <3> QED BY <3>1, <3>2
  <2>2. new.tag[b] = tag
    BY <1>1, <1>2, <1>5
  <2>3. CASE v # b /\ w # b
    BY <1>8, <2>1, <2>3 DEF GoodSet
  <2> QED BY <1>8, <2>1, <2>2, <2>3
<1>9. ASSUME NEW w \in Slots, new.dirtyBit[w]
      PROVE  new.validBit[w]
  BY <1>1, <1>2, <1>5, <1>9 DEF GoodSet
<1> QED BY <1>3, <1>5, <1>6, <1>7, <1>8, <1>9 DEF GoodSet

THEOREM InitIInv == Init => IInv
<1> SUFFICES ASSUME Init PROVE IInv
  OBVIOUS
<1>1. EmptySet \in L2Set /\ EmptyLine \in L1Line
  BY DEF EmptySet, EmptyLine, L2Set, L1Line, Slots
<1>2. GoodSet(EmptySet)
  BY <1>1 DEF GoodSet, Permuted, EmptySet, Slots
<1> QED BY <1>1, <1>2, SetsAreGood DEF Init

(* A line is filled with the block accessed. *)
LEMMA FilledLine ==
  ASSUME NEW cache \in [Lines -> L1Line], NEW a \in Addresses, NEW input
  PROVE  Filled(cache, a, input) \in [Lines -> L1Line]
<1>1. l1_index(a) \in Lines /\ l1_tag(a) \in Nat
  BY AddressSplit
<1> QED BY <1>1 DEF Filled, L1Line

LEMMA StepIInv ==
  ASSUME IInv, [Next]_vars
  PROVE  IInv'
<1> DEFINE Good == /\ i_cache' \in [Lines -> L1Line] /\ d_cache' \in [Lines -> L1Line]
                   /\ counted' \in SUBSET Counters
                   /\ l2_cache' \in [Indices -> L2Set]
                   /\ \A s \in Indices : GoodSet(l2_cache'[s])
<1>1. /\ i_cache \in [Lines -> L1Line] /\ d_cache \in [Lines -> L1Line]
      /\ l2_cache \in [Indices -> L2Set] /\ \A s \in Indices : GoodSet(l2_cache[s])
      /\ line \in (Addresses \X Inputs) \cup {<<>>} /\ counted \in SUBSET Counters
  BY SetsAreGood
<1>2. CASE UNCHANGED vars
  BY <1>2 DEF vars, IInv, TypeOK, LruPermutation, EmptyWaysOldest, NoDuplicateBlock,
              CleanWhenEmpty
<1>3. ASSUME NEW a \in Addresses, NEW input \in Inputs, NEW miss \in {"d_miss", "i_miss"},
             l2_cachesim_access(a, input, miss)
      PROVE  /\ l2_cache' \in [Indices -> L2Set] /\ counted' \in SUBSET Counters
             /\ \A s \in Indices : GoodSet(l2_cache'[s])
  <2> DEFINE i == l2_index(a)
             new == Accessed(l2_cache[i], l2_tag(a), input)
  <2>1. i \in Indices /\ l2_tag(a) \in Nat
    BY AddressSplit
  <2>2. GoodSet(new)
    BY <1>1, <2>1, AccessedGood
  <2>3. l2_cache' = [l2_cache EXCEPT ![i] = new]
    BY <1>3 DEF l2_cachesim_access
  <2>4. counted' \in SUBSET Counters
    BY <1>3 DEF l2_cachesim_access, L2Counted, Counters
  <2> HIDE DEF new, i
  <2> QED BY <1>1, <2>1, <2>2, <2>3, <2>4 DEF GoodSet
<1>4. ASSUME NEW a \in Addresses, NEW input \in Inputs, l1_cachesim_access(a, input)
      PROVE  Good
  <2>1. CASE DataHit(a, input)
    <3>1. l1_index(a) \in Lines
      BY AddressSplit
    <3>2. \A l \in L1Line, d \in BOOLEAN : [l EXCEPT !.dirtyBit = d] \in L1Line
      BY DEF L1Line
    <3>3. \A l \in L1Line : (l.dirtyBit \/ input = "w") \in BOOLEAN
      BY DEF L1Line
    <3>4. d_cache' \in [Lines -> L1Line]
      BY <1>1, <2>1, <3>1, <3>2, <3>3 DEF DataHit
    <3> QED BY <1>1, <2>1, <3>4 DEF DataHit, Counters
  <2>2. CASE DataMiss(a, input)
    BY <1>1, <1>3, <2>2, FilledLine DEF DataMiss
  <2>3. CASE FetchHit(a)
    BY <1>1, <2>3 DEF FetchHit, Counters
  <2>4. CASE input = "i" /\ FetchMiss(a)
    BY <1>1, <1>3, <2>4, FilledLine DEF FetchMiss
  <2> QED BY <1>4, <2>1, <2>2, <2>3, <2>4 DEF l1_cachesim_access
<1>5. CASE Next
  <2>1. PICK a \in Addresses, input \in Inputs :
          line' = <<a, input>> /\ l1_cachesim_access(a, input)
    BY <1>5 DEF Next
  <2>2. Good /\ line' \in (Addresses \X Inputs) \cup {<<>>}
    BY <1>4, <2>1
  <2> QED BY <2>2 DEF IInv, TypeOK, LruPermutation, EmptyWaysOldest, NoDuplicateBlock,
                      CleanWhenEmpty, GoodSet, Permuted
<1> QED BY <1>2, <1>5

(* The sets of the second level stay well formed for ever. *)
THEOREM Invariance == Spec => []IInv
BY InitIInv, StepIInv, PTL DEF Spec

(* Every variable of the cache simulator keeps its type. *)
THEOREM TypeCorrect == Spec => []TypeOK
<1>1. IInv => TypeOK
  BY DEF IInv
<1> QED BY <1>1, Invariance, PTL

(* get_LRU_index always finds exactly one way. *)
THEOREM LruCorrect == Spec => []LruPermutation
<1>1. IInv => LruPermutation
  BY DEF IInv
<1> QED BY <1>1, Invariance, PTL

(* Blocks are replaced only in full sets. *)
THEOREM EmptyWaysFirst == Spec => []EmptyWaysOldest
<1>1. IInv => EmptyWaysOldest
  BY DEF IInv
<1> QED BY <1>1, Invariance, PTL

(* No block is in two ways of its set. *)
THEOREM BlocksOnce == Spec => []NoDuplicateBlock
<1>1. IInv => NoDuplicateBlock
  BY DEF IInv
<1> QED BY <1>1, Invariance, PTL
(***************************************************************************)
(* The LRU counters and the list of the blocks used                        *)
(***************************************************************************)

(* Each place in the order of use has one way, each way one place. *)
LEMMA NthUsedIs ==
  ASSUME NEW set, GoodSet(set)
  PROVE  /\ \A k \in 1 .. Ways : /\ NthUsed(set, k) \in Slots
                                 /\ set.LRU_counter[NthUsed(set, k)] = Ways - k
         /\ \A w \in Slots : /\ Ways - set.LRU_counter[w] \in 1 .. Ways
                             /\ NthUsed(set, Ways - set.LRU_counter[w]) = w
<1> DEFINE lru == set.LRU_counter
<1>1. /\ \A w \in Slots : lru[w] \in 0 .. Ways - 1
      /\ \A v, w \in Slots : lru[v] = lru[w] => v = w
      /\ \A n \in Slots : \E w \in Slots : lru[w] = n
  BY DEF GoodSet, Permuted, Slots
<1>2. ASSUME NEW k \in 1 .. Ways
      PROVE  NthUsed(set, k) \in Slots /\ lru[NthUsed(set, k)] = Ways - k
  <2>1. Ways - k \in Slots
    BY DEF Slots
  <2>2. \E w \in Slots : lru[w] = Ways - k
    BY <1>1, <2>1
  <2> QED BY <2>2 DEF NthUsed
<1>3. ASSUME NEW w \in Slots
      PROVE  Ways - lru[w] \in 1 .. Ways /\ NthUsed(set, Ways - lru[w]) = w
  <2>1. lru[w] \in 0 .. Ways - 1 /\ Ways - lru[w] \in 1 .. Ways
    BY <1>1
  <2>2. /\ NthUsed(set, Ways - lru[w]) \in Slots
        /\ lru[NthUsed(set, Ways - lru[w])] = Ways - (Ways - lru[w])
    BY <1>2, <2>1
  <2> QED BY <1>1, <2>1, <2>2
<1> QED BY <1>2, <1>3

(* The blocks of a set are in the first places. *)
LEMMA FullPlaces ==
  ASSUME NEW set, GoodSet(set)
  PROVE  \E n \in 0 .. Ways : \A k \in 1 .. Ways :
           set.validBit[NthUsed(set, k)] <=> k <= n
<1> DEFINE Valid(k) == set.validBit[NthUsed(set, k)]
           empty == {w \in Slots : ~Valid(w + 1)}
<1>1. ASSUME NEW j \in 1 .. Ways, NEW k \in 1 .. Ways, j < k, Valid(k)
      PROVE  Valid(j)
  <2>1. /\ NthUsed(set, j) \in Slots /\ set.LRU_counter[NthUsed(set, j)] = Ways - j
        /\ NthUsed(set, k) \in Slots /\ set.LRU_counter[NthUsed(set, k)] = Ways - k
    BY NthUsedIs
  <2>2. ~Valid(j) => Ways - j < Ways - k
    BY <1>1, <2>1 DEF GoodSet
  <2> QED BY <1>1, <2>2
<1>2. CASE empty = {}
  <2>1. ASSUME NEW k \in 1 .. Ways
        PROVE  Valid(k)
    <3>1. k - 1 \in Slots /\ (k - 1) + 1 = k
      BY DEF Slots
    <3> QED BY <1>2, <3>1
  <2> QED BY <2>1
<1>3. CASE empty # {}
  <2> DEFINE n == Lowest(empty)
  <2>1. n \in empty /\ \A x \in empty : n <= x
    BY <1>3, LowestIn
  <2>2. n \in 0 .. Ways /\ n + 1 \in 1 .. Ways /\ ~Valid(n + 1)
    BY <2>1 DEF Slots
  <2> HIDE DEF n
  <2>3. ASSUME NEW k \in 1 .. Ways, k <= n
        PROVE  Valid(k)
    <3>1. k - 1 \in Slots /\ (k - 1) + 1 = k /\ ~(n <= k - 1)
      BY <2>2, <2>3 DEF Slots
    <3> QED BY <2>1, <3>1
  <2>4. ASSUME NEW k \in 1 .. Ways, ~(k <= n), Valid(k)
        PROVE  FALSE
    <3>1. n + 1 = k \/ n + 1 < k
      BY <2>2, <2>4
    <3> QED BY <1>1, <2>2, <2>4, <3>1
  <2> QED BY <2>2, <2>3, <2>4
<1> QED BY <1>2, <1>3

(* Recent is a list, with the blocks of the set. *)
LEMMA RecentList ==
  ASSUME NEW set, GoodSet(set), NEW n \in 0 .. Ways,
         \A k \in 1 .. Ways : set.validBit[NthUsed(set, k)] <=> k <= n
  PROVE  /\ Recent(set) = [k \in 1 .. n |-> set.tag[NthUsed(set, k)]]
         /\ Len(Recent(set)) = n
         /\ Recency!Blocks(Recent(set)) =
              {set.tag[w] : w \in {v \in Slots : set.validBit[v]}}
<1>1. {j \in 1 .. Ways : set.validBit[NthUsed(set, j)]} = 1 .. n
  OBVIOUS
<1>2. Recent(set) = [k \in 1 .. n |-> set.tag[NthUsed(set, k)]]
  BY <1>1 DEF Recent
<1>3. Len(Recent(set)) = n
  BY <1>2
<1>4. ASSUME NEW k \in 1 .. n
      PROVE  /\ NthUsed(set, k) \in Slots /\ set.validBit[NthUsed(set, k)]
             /\ Recent(set)[k] = set.tag[NthUsed(set, k)]
  BY <1>2, NthUsedIs
<1>5. ASSUME NEW w \in Slots, set.validBit[w]
      PROVE  \E k \in 1 .. n : Recent(set)[k] = set.tag[w]
  <2>1. /\ Ways - set.LRU_counter[w] \in 1 .. Ways
        /\ NthUsed(set, Ways - set.LRU_counter[w]) = w
    BY NthUsedIs
  <2>2. Ways - set.LRU_counter[w] \in 1 .. n
    BY <1>5, <2>1
  <2> QED BY <1>4, <2>1, <2>2
<1>6. Recency!Blocks(Recent(set)) = {Recent(set)[k] : k \in 1 .. n}
  BY <1>3 DEF Recency!Blocks
<1> QED BY <1>2, <1>3, <1>4, <1>5, <1>6
(***************************************************************************)
(* An access to the second level                                           *)
(***************************************************************************)

(* An access moves its way to the first place and those before it one back. *)
LEMMA AccessedPlaces ==
  ASSUME NEW set, GoodSet(set), NEW tag \in Nat, NEW input
  PROVE  LET b   == BlockIndex(set, tag)
             p   == Ways - set.LRU_counter[b]
             new == Accessed(set, tag, input)
         IN  /\ p \in 1 .. Ways
             /\ \A k \in 1 .. Ways : NthUsed(new, k) =
                  IF k = 1 THEN b
                  ELSE IF k <= p THEN NthUsed(set, k - 1)
                  ELSE NthUsed(set, k)
<1> DEFINE b   == BlockIndex(set, tag)
           lru == set.LRU_counter
           p   == Ways - lru[b]
           new == Accessed(set, tag, input)
<1>1. b \in Slots /\ GoodSet(new)
  BY BlockIndexIn, AccessedGood
<1>2. p \in 1 .. Ways
  BY <1>1, NthUsedIs
<1>3. \A w \in Slots : lru[w] \in 0 .. Ways - 1
  BY DEF GoodSet, Permuted, Slots
<1>4. \A w \in Slots : new.LRU_counter[w] =
        IF w = b THEN Ways - 1 ELSE IF lru[w] > lru[b] THEN lru[w] - 1 ELSE lru[w]
  BY DEF Accessed, Touched
<1>5. \A w \in Slots : NthUsed(new, Ways - new.LRU_counter[w]) = w
  BY <1>1, NthUsedIs
<1> HIDE DEF b, new
<1>6. ASSUME NEW k \in 1 .. Ways, k = 1
      PROVE  NthUsed(new, k) = b
  <2>1. Ways - new.LRU_counter[b] = 1
    BY <1>1, <1>4
  <2> QED BY <1>1, <1>5, <1>6, <2>1
<1>7. ASSUME NEW k \in 1 .. Ways, k # 1, k <= p
      PROVE  NthUsed(new, k) = NthUsed(set, k - 1)
  <2> DEFINE w == NthUsed(set, k - 1)
  <2>1. k - 1 \in 1 .. Ways
    BY <1>7
  <2>2. w \in Slots /\ lru[w] = Ways - (k - 1)
    BY <2>1, NthUsedIs
  <2>3. lru[w] > lru[b]
    BY <1>1, <1>2, <1>3, <1>7, <2>2
  <2>4. new.LRU_counter[w] = Ways - k
    BY <1>3, <1>4, <2>2, <2>3
  <2>5. Ways - new.LRU_counter[w] = k
    BY <2>4
  <2> QED BY <1>5, <2>2, <2>5
<1>8. ASSUME NEW k \in 1 .. Ways, k # 1, ~(k <= p)
      PROVE  NthUsed(new, k) = NthUsed(set, k)
  <2> DEFINE w == NthUsed(set, k)
  <2>1. w \in Slots /\ lru[w] = Ways - k
    BY NthUsedIs
  <2>2. ~(lru[w] > lru[b]) /\ w # b
    BY <1>1, <1>2, <1>3, <1>8, <2>1
  <2>3. Ways - new.LRU_counter[w] = k
    BY <1>4, <2>1, <2>2
  <2> QED BY <1>5, <2>1, <2>3
<1> QED BY <1>2, <1>6, <1>7, <1>8 DEF b, new

(* The fields of a set after an access *)
LEMMA AccessedFields ==
  ASSUME NEW set, GoodSet(set), NEW tag \in Nat, NEW input
  PROVE  LET b   == BlockIndex(set, tag)
             new == Accessed(set, tag, input)
         IN  /\ b \in Slots
             /\ new.tag[b] = tag /\ new.validBit[b]
             /\ new.dirtyBit[b] = Dirty(set, tag, input)
             /\ \A w \in Slots : w # b =>
                  /\ new.tag[w] = set.tag[w]
                  /\ new.validBit[w] = set.validBit[w]
                  /\ new.dirtyBit[w] = set.dirtyBit[w]
<1>1. BlockIndex(set, tag) \in Slots
  BY BlockIndexIn
<1>2. /\ set.tag \in [Slots -> Nat] /\ set.validBit \in [Slots -> BOOLEAN]
      /\ set.dirtyBit \in [Slots -> BOOLEAN]
  BY DEF GoodSet, L2Set
<1> QED BY <1>1, <1>2 DEF Accessed

(* The way an access to a block takes is the one at the block's place in   *)
(* the list; when there is none, the oldest.                               *)
LEMMA PlaceOfBlock ==
  ASSUME NEW set, GoodSet(set), NEW tag \in Nat, NEW n \in 0 .. Ways,
         \A k \in 1 .. Ways : set.validBit[NthUsed(set, k)] <=> k <= n
  PROVE  LET found == check_tag_and_validBit(set, tag)
             p     == Ways - set.LRU_counter[BlockIndex(set, tag)]
         IN  /\ found # {} <=> tag \in Recency!Blocks(Recent(set))
             /\ found # {} => p \in 1 .. n /\ Recency!Place(Recent(set), tag) = p
             /\ found = {} => /\ p = Ways
                              /\ Recency!Place(Recent(set), tag) =
                                   IF n < Ways THEN n + 1 ELSE Ways
<1> DEFINE found == check_tag_and_validBit(set, tag)
           b     == BlockIndex(set, tag)
           p     == Ways - set.LRU_counter[b]
           list  == Recent(set)
<1>1. /\ list = [k \in 1 .. n |-> set.tag[NthUsed(set, k)]]
      /\ Len(list) = n
      /\ Recency!Blocks(list) = {set.tag[w] : w \in {v \in Slots : set.validBit[v]}}
  BY RecentList
<1>2. found = {w \in Slots : set.validBit[w] /\ set.tag[w] = tag}
  BY DEF check_tag_and_validBit
<1>3. found # {} <=> tag \in Recency!Blocks(list)
  BY <1>1, <1>2
<1>4. /\ b \in Slots
      /\ found # {} => b \in found
      /\ found = {} => set.LRU_counter[b] = 0
  BY BlockIndexIn
<1>5. p \in 1 .. Ways /\ NthUsed(set, p) = b
  BY <1>4, NthUsedIs
<1> HIDE DEF found, b, list, p
<1>6. ASSUME found # {}
      PROVE  p \in 1 .. n /\ Recency!Place(list, tag) = p
  <2>1. set.validBit[b] /\ set.tag[b] = tag
    BY <1>2, <1>4, <1>6
  <2>2. p \in 1 .. n /\ list[p] = tag
    BY <1>1, <1>5, <2>1
  <2>3. ASSUME NEW k \in 1 .. n, list[k] = tag
        PROVE  k = p
    <3>1. /\ NthUsed(set, k) \in Slots /\ set.validBit[NthUsed(set, k)]
          /\ set.LRU_counter[NthUsed(set, k)] = Ways - k
          /\ set.tag[NthUsed(set, k)] = tag
      BY <1>1, <2>3, NthUsedIs
    <3>2. NthUsed(set, k) = b
      BY <1>4, <2>1, <3>1 DEF GoodSet
    <3>3. set.LRU_counter[b] = Ways - p
      BY <1>5, NthUsedIs
    <3> QED BY <1>5, <3>1, <3>2, <3>3
  <2>4. (CHOOSE k \in 1 .. n : list[k] = tag) = p
    BY <2>2, <2>3
  <2> QED BY <1>1, <1>3, <1>6, <2>2, <2>4 DEF Recency!Place
<1>7. ASSUME found = {}
      PROVE  p = Ways /\ Recency!Place(list, tag) = IF n < Ways THEN n + 1 ELSE Ways
  BY <1>1, <1>3, <1>4, <1>7 DEF Recency!Place, p
<1> QED BY <1>3, <1>6, <1>7 DEF found, b, list, p
(* An access changes the list of a set as the abstract cache says. *)
LEMMA AccessedRecent ==
  ASSUME NEW set, GoodSet(set), NEW tag \in Nat, NEW input
  PROVE  Recent(Accessed(set, tag, input)) = Recency!Used(Recent(set), tag)
<1> DEFINE b     == BlockIndex(set, tag)
           found == check_tag_and_validBit(set, tag)
           p     == Ways - set.LRU_counter[b]
           new   == Accessed(set, tag, input)
           list  == Recent(set)
           place == Recency!Place(list, tag)
<1>1. PICK n \in 0 .. Ways : \A k \in 1 .. Ways :
              set.validBit[NthUsed(set, k)] <=> k <= n
  BY FullPlaces
<1> DEFINE m == IF place > n THEN place ELSE n
<1>2. /\ list = [k \in 1 .. n |-> set.tag[NthUsed(set, k)]]
      /\ Len(list) = n
  BY <1>1, RecentList
<1>3. /\ p \in 1 .. Ways
      /\ \A k \in 1 .. Ways : NthUsed(new, k) =
           IF k = 1 THEN b
           ELSE IF k <= p THEN NthUsed(set, k - 1) ELSE NthUsed(set, k)
  BY AccessedPlaces
<1>4. /\ b \in Slots /\ new.tag[b] = tag /\ new.validBit[b]
      /\ \A w \in Slots : w # b =>
           new.tag[w] = set.tag[w] /\ new.validBit[w] = set.validBit[w]
  BY AccessedFields
<1>5. /\ found # {} => p \in 1 .. n /\ place = p
      /\ found = {} => p = Ways /\ place = IF n < Ways THEN n + 1 ELSE Ways
  BY <1>1, PlaceOfBlock
<1>6. \A k \in 1 .. Ways : /\ NthUsed(set, k) \in Slots
                           /\ NthUsed(set, k) = b => k = p
  BY <1>3, <1>4, NthUsedIs
<1> HIDE DEF b, found, p, new, list, place
<1>7. m \in 0 .. Ways /\ m \in Nat
  BY <1>3, <1>5
<1>8. ASSUME NEW k \in 1 .. Ways
      PROVE  /\ new.validBit[NthUsed(new, k)] <=> k <= m
             /\ k <= m => new.tag[NthUsed(new, k)] =
                  IF k = 1 THEN tag ELSE IF k <= place THEN list[k - 1] ELSE list[k]
  <2>1. CASE k = 1
    BY <1>3, <1>4, <1>5, <2>1
  <2>2. CASE k # 1 /\ k <= p
    <3>1. k - 1 \in 1 .. Ways /\ NthUsed(new, k) = NthUsed(set, k - 1)
      BY <1>3, <2>2
    <3>2. NthUsed(set, k - 1) \in Slots /\ NthUsed(set, k - 1) # b
      BY <1>3, <1>6, <2>2, <3>1
    <3>3. /\ new.validBit[NthUsed(new, k)] <=> k - 1 <= n
          /\ new.tag[NthUsed(new, k)] = set.tag[NthUsed(set, k - 1)]
      BY <1>1, <1>4, <3>1, <3>2
    <3>4. k - 1 <= n <=> k <= m
      BY <1>3, <1>5, <2>2
    <3>5. k <= m => k <= place /\ list[k - 1] = set.tag[NthUsed(set, k - 1)]
      BY <1>2, <1>3, <1>5, <2>2, <3>1, <3>4
    <3> QED BY <2>2, <3>3, <3>4, <3>5
  <2>3. CASE k # 1 /\ ~(k <= p)
    <3>1. NthUsed(new, k) = NthUsed(set, k)
      BY <1>3, <2>3
    <3>2. NthUsed(set, k) \in Slots /\ NthUsed(set, k) # b
      BY <1>6, <2>3, <1>3
    <3>3. /\ new.validBit[NthUsed(new, k)] <=> k <= n
          /\ new.tag[NthUsed(new, k)] = set.tag[NthUsed(set, k)]
      BY <1>1, <1>4, <3>1, <3>2
    <3>4. found # {} /\ place = p /\ m = n
      BY <1>3, <1>5, <2>3
    <3> QED BY <1>2, <2>3, <3>3, <3>4
  <2> QED BY <2>1, <2>2, <2>3
<1>9. Recent(new) = [k \in 1 .. m |-> new.tag[NthUsed(new, k)]]
  <2>1. GoodSet(new)
    BY AccessedGood DEF new
  <2> HIDE DEF m
  <2> QED BY <1>7, <1>8, <2>1, RecentList
<1>10. Recent(new) = [k \in 1 .. m |->
         IF k = 1 THEN tag ELSE IF k <= place THEN list[k - 1] ELSE list[k]]
  <2> HIDE DEF m
  <2>1. \A k \in 1 .. m : new.tag[NthUsed(new, k)] =
          IF k = 1 THEN tag ELSE IF k <= place THEN list[k - 1] ELSE list[k]
    BY <1>7, <1>8
  <2> QED BY <1>9, <2>1
<1>11. Recency!Used(list, tag) = [k \in 1 .. m |->
         IF k = 1 THEN tag ELSE IF k <= place THEN list[k - 1] ELSE list[k]]
  BY <1>2 DEF Recency!Used, place
<1> QED BY <1>10, <1>11 DEF new, list

(* What an access does to the dirty blocks, and what it counts *)
LEMMA AccessedDirty ==
  ASSUME NEW set, GoodSet(set), NEW tag \in Nat, NEW input
  PROVE  LET new   == Accessed(set, tag, input)
             kept  == Recency!Blocks(Recent(new))
             known == Recency!Blocks(Recent(set))
         IN  /\ DirtyBlocks(new) = (DirtyBlocks(set) \cap kept)
                                     \cup (IF input = "w" THEN {tag} ELSE {})
             /\ L2Counted(set, tag) =
                  (IF tag \in known THEN {"l2_hit"} ELSE {"l2_miss"})
                    \cup (IF DirtyBlocks(set) \subseteq kept THEN {} ELSE {"writebacks"})
<1> DEFINE b     == BlockIndex(set, tag)
           found == check_tag_and_validBit(set, tag)
           new   == Accessed(set, tag, input)
           kept  == Recency!Blocks(Recent(new))
           known == Recency!Blocks(Recent(set))
<1>1. /\ b \in Slots
      /\ found # {} => b \in found
      /\ found = {} => b = get_LRU_index(set)
  BY BlockIndexIn
<1>2. found = {w \in Slots : set.validBit[w] /\ set.tag[w] = tag}
  BY DEF check_tag_and_validBit
<1>3. /\ new.tag[b] = tag /\ new.validBit[b]
      /\ new.dirtyBit[b] = (input = "w" \/ (found # {} /\ set.dirtyBit[b]))
      /\ \A w \in Slots : w # b =>
           /\ new.tag[w] = set.tag[w]
           /\ new.validBit[w] = set.validBit[w]
           /\ new.dirtyBit[w] = set.dirtyBit[w]
  <2>1. Dirty(set, tag, input) = (input = "w" \/ (found # {} /\ set.dirtyBit[b]))
    BY DEF Dirty
  <2>2. new.dirtyBit[b] = Dirty(set, tag, input)
    BY AccessedFields
  <2> HIDE DEF b, found, new
  <2>3. new.dirtyBit[b] = (input = "w" \/ (found # {} /\ set.dirtyBit[b]))
    BY <2>1, <2>2
  <2> QED BY <2>3, AccessedFields DEF b, new
<1>4. /\ kept = {new.tag[w] : w \in {v \in Slots : new.validBit[v]}}
      /\ known = {set.tag[w] : w \in {v \in Slots : set.validBit[v]}}
  BY AccessedGood, FullPlaces, RecentList
<1>5. found # {} <=> tag \in known
  BY <1>2, <1>4
<1>6. \A w \in Slots : set.dirtyBit[w] => set.validBit[w]
  BY DEF GoodSet
<1> HIDE DEF b, found, new, kept, known
<1>7. ASSUME NEW w \in Slots, set.dirtyBit[w]
      PROVE  set.tag[w] \in kept <=> w # b \/ found # {}
  <2>1. CASE w # b
    BY <1>3, <1>4, <1>6, <1>7, <2>1
  <2>2. CASE w = b /\ found # {}
    BY <1>1, <1>2, <1>3, <1>4, <2>2
  <2>3. CASE w = b /\ found = {}
    <3>1. set.validBit[b] /\ set.tag[b] # tag
      BY <1>1, <1>2, <1>6, <1>7, <2>3
    <3>2. ASSUME NEW v \in Slots, new.validBit[v], new.tag[v] = set.tag[b]
          PROVE  FALSE
      <4>1. v # b
        BY <1>3, <3>1, <3>2
      <4>2. set.validBit[v] /\ set.tag[v] = set.tag[b]
        BY <1>3, <3>2, <4>1
      <4> QED BY <1>1, <3>1, <4>1, <4>2 DEF GoodSet
    <3> QED BY <1>4, <2>3, <3>2
  <2> QED BY <2>1, <2>2, <2>3
<1>8. DirtyBlocks(new) = (DirtyBlocks(set) \cap kept)
                           \cup (IF input = "w" THEN {tag} ELSE {})
  <2>1. ASSUME NEW t \in DirtyBlocks(new)
        PROVE  (t \in DirtyBlocks(set) /\ t \in kept) \/ (input = "w" /\ t = tag)
    <3>1. PICK w \in Slots : new.dirtyBit[w] /\ t = new.tag[w]
      BY DEF DirtyBlocks
    <3>2. CASE w # b
      <4>1. set.dirtyBit[w] /\ t = set.tag[w]
        BY <1>3, <3>1, <3>2
      <4> QED BY <1>7, <3>2, <4>1 DEF DirtyBlocks
    <3>3. CASE w = b /\ input # "w"
      <4>1. found # {} /\ set.dirtyBit[b] /\ set.tag[b] = tag /\ t = tag
        BY <1>1, <1>2, <1>3, <3>1, <3>3
      <4> QED BY <1>1, <1>7, <4>1 DEF DirtyBlocks
    <3> QED BY <1>3, <3>1, <3>2, <3>3
  <2>2. ASSUME NEW t \in DirtyBlocks(set), t \in kept
        PROVE  t \in DirtyBlocks(new)
    <3>1. PICK w \in Slots : set.dirtyBit[w] /\ t = set.tag[w]
      BY DEF DirtyBlocks
    <3>2. w # b \/ found # {}
      BY <1>7, <2>2, <3>1
    <3>3. new.dirtyBit[w] /\ new.tag[w] = t
      BY <1>1, <1>2, <1>3, <3>1, <3>2
    <3> QED BY <3>3 DEF DirtyBlocks
  <2>3. input = "w" => tag \in DirtyBlocks(new)
    BY <1>1, <1>3 DEF DirtyBlocks
  <2> QED BY <2>1, <2>2, <2>3
<1>9. DirtyBlocks(set) \subseteq kept <=> found # {} \/ ~set.dirtyBit[b]
  <2>1. ASSUME found = {}, set.dirtyBit[b]
        PROVE  set.tag[b] \in DirtyBlocks(set) /\ set.tag[b] \notin kept
    BY <1>1, <1>7, <2>1 DEF DirtyBlocks
  <2>2. ASSUME found # {} \/ ~set.dirtyBit[b], NEW t \in DirtyBlocks(set)
        PROVE  t \in kept
    BY <1>7, <2>2 DEF DirtyBlocks
  <2> QED BY <2>1, <2>2
<1>10. L2Counted(set, tag) =
         (IF tag \in known THEN {"l2_hit"} ELSE {"l2_miss"})
           \cup (IF DirtyBlocks(set) \subseteq kept THEN {} ELSE {"writebacks"})
  BY <1>1, <1>5, <1>9 DEF L2Counted, found
<1> QED BY <1>8, <1>10 DEF new, kept, known
(***************************************************************************)
(* The recency lists are implemented                                       *)
(***************************************************************************)

(* A line that was never filled has the tag that cachesim_init gives it.   *)
(* TypeOK and the second level do not say so; hits depend on it.           *)
Unfilled(cache) == \A l \in Lines : ~cache[l].validBit => cache[l].tag = 0

FirstLevel == Unfilled(i_cache) /\ Unfilled(d_cache)

LEMMA FilledKeepsUnfilled ==
  ASSUME NEW cache \in [Lines -> L1Line], Unfilled(cache), NEW a \in Addresses, NEW input
  PROVE  Unfilled(Filled(cache, a, input))
BY AddressSplit DEF Unfilled, Filled, L1Line

LEMMA FirstLevelInvariant == Spec => []FirstLevel
<1>1. Init => FirstLevel
  BY DEF Init, FirstLevel, Unfilled, EmptyLine
<1>2. IInv /\ FirstLevel /\ [Next]_vars => FirstLevel'
  <2> SUFFICES ASSUME IInv, FirstLevel, [Next]_vars PROVE FirstLevel'
    OBVIOUS
  <2>1. i_cache \in [Lines -> L1Line] /\ d_cache \in [Lines -> L1Line]
    BY DEF IInv, TypeOK
  <2>2. CASE UNCHANGED vars
    BY <2>2 DEF vars, FirstLevel, Unfilled
  <2>3. ASSUME NEW a \in Addresses, NEW input \in Inputs, DataHit(a, input)
        PROVE  FirstLevel'
    <3>1. /\ i_cache' = i_cache
          /\ \A l \in Lines : /\ d_cache'[l].validBit = d_cache[l].validBit
                              /\ d_cache'[l].tag = d_cache[l].tag
      BY <2>1, <2>3, AddressSplit DEF DataHit, L1Line
    <3> QED BY <3>1 DEF FirstLevel, Unfilled
  <2>4. ASSUME NEW a \in Addresses, NEW input \in Inputs, DataMiss(a, input)
        PROVE  FirstLevel'
    BY <2>1, <2>4, FilledKeepsUnfilled DEF DataMiss, FirstLevel, Unfilled
  <2>5. ASSUME NEW a \in Addresses, FetchHit(a)
        PROVE  FirstLevel'
    BY <2>5 DEF FetchHit, FirstLevel, Unfilled
  <2>6. ASSUME NEW a \in Addresses, FetchMiss(a)
        PROVE  FirstLevel'
    BY <2>1, <2>6, FilledKeepsUnfilled DEF FetchMiss, FirstLevel, Unfilled
  <2> QED BY <2>2, <2>3, <2>4, <2>5, <2>6 DEF Next, l1_cachesim_access
<1> QED BY <1>1, <1>2, Invariance, PTL DEF Spec

(* A lookup hits exactly when the line holds the block. *)
LEMMA LookupHeld ==
  ASSUME NoTagZero, NEW cache \in [Lines -> L1Line], Unfilled(cache), NEW a \in Addresses
  PROVE  L1Hit(cache, a) <=> HeldIn(cache)[l1_index(a)] = l1_tag(a)
BY AddressSplit DEF NoTagZero, Unfilled, L1Hit, HeldIn, L1Line

LEMMA FilledHeld ==
  ASSUME NEW cache \in [Lines -> L1Line], NEW a \in Addresses, NEW input
  PROVE  HeldIn(Filled(cache, a, input)) =
           [HeldIn(cache) EXCEPT ![l1_index(a)] = l1_tag(a)]
<1>1. l1_index(a) \in Lines
  BY AddressSplit
<1> QED BY <1>1 DEF HeldIn, Filled

(* The lists and the dirty blocks of the abstract cache *)
Lists       == [s \in Indices |-> Recent(l2_cache[s])]
DirtyInSets == [s \in Indices |-> DirtyBlocks(l2_cache[s])]

(* What the abstract cache does when address a misses in the first level *)
ListsUsed(a, letter, miss) ==
  LET s    == l2_index(a)
      tag  == l2_tag(a)
      list == Recency!Used(Lists[s], tag)
  IN  /\ Lists' = [Lists EXCEPT ![s] = list]
      /\ DirtyInSets' = [DirtyInSets EXCEPT ![s] =
           (@ \cap Recency!Blocks(list)) \cup (IF letter = "w" THEN {tag} ELSE {})]
      /\ counted' = {miss}
           \cup (IF tag \in Recency!Blocks(Lists[s]) THEN {"l2_hit"} ELSE {"l2_miss"})
           \cup (IF DirtyInSets[s] \subseteq Recency!Blocks(list) THEN {}
                 ELSE {"writebacks"})

(* An access to the second level is one of the abstract cache. *)
LEMMA SecondLevelStep ==
  ASSUME IInv, NEW a \in Addresses, NEW input, NEW miss,
         l2_cachesim_access(a, input, miss)
  PROVE  ListsUsed(a, input, miss)
<1> DEFINE s    == l2_index(a)
           tag  == l2_tag(a)
           new  == Accessed(l2_cache[s], tag, input)
           list == Recency!Used(Lists[s], tag)
<1>1. s \in Indices /\ tag \in Nat
  BY AddressSplit
<1>2. l2_cache \in [Indices -> L2Set] /\ GoodSet(l2_cache[s])
  BY <1>1, SetsAreGood
<1>3. Lists[s] = Recent(l2_cache[s]) /\ DirtyInSets[s] = DirtyBlocks(l2_cache[s])
  BY <1>1 DEF Lists, DirtyInSets
<1>4. l2_cache' = [l2_cache EXCEPT ![s] = new]
  BY DEF l2_cachesim_access
<1>5. counted' = {miss} \cup L2Counted(l2_cache[s], tag)
  BY DEF l2_cachesim_access
<1>6. Recent(new) = list
  BY <1>1, <1>2, <1>3, AccessedRecent
<1>7. /\ DirtyBlocks(new) = (DirtyInSets[s] \cap Recency!Blocks(list))
                               \cup (IF input = "w" THEN {tag} ELSE {})
      /\ L2Counted(l2_cache[s], tag) =
           (IF tag \in Recency!Blocks(Lists[s]) THEN {"l2_hit"} ELSE {"l2_miss"})
             \cup (IF DirtyInSets[s] \subseteq Recency!Blocks(list) THEN {}
                   ELSE {"writebacks"})
  BY <1>1, <1>2, <1>3, <1>6, AccessedDirty
<1> HIDE DEF s, tag, new, list
<1>8. Lists' = [Lists EXCEPT ![s] = list]
  BY <1>1, <1>2, <1>4, <1>6 DEF Lists
<1>9. DirtyInSets' = [DirtyInSets EXCEPT ![s] = DirtyBlocks(new)]
  BY <1>1, <1>2, <1>4 DEF DirtyInSets
<1>10. DirtyInSets' = [DirtyInSets EXCEPT ![s] =
         (@ \cap Recency!Blocks(list)) \cup (IF input = "w" THEN {tag} ELSE {})]
  BY <1>7, <1>9
<1>11. counted' = {miss}
         \cup (IF tag \in Recency!Blocks(Lists[s]) THEN {"l2_hit"} ELSE {"l2_miss"})
         \cup (IF DirtyInSets[s] \subseteq Recency!Blocks(list) THEN {} ELSE {"writebacks"})
  BY <1>5, <1>7
<1> QED BY <1>8, <1>10, <1>11 DEF s, tag, list, ListsUsed
LEMMA InitRefined == Init => Recency!Init
<1> SUFFICES ASSUME Init PROVE Recency!Init
  OBVIOUS
<1>1. GoodSet(EmptySet)
  <2>1. EmptySet \in L2Set
    BY DEF EmptySet, L2Set, Slots
  <2> QED BY <2>1 DEF GoodSet, Permuted, EmptySet, Slots
<1>2. \A k \in 1 .. Ways : NthUsed(EmptySet, k) \in Slots
  BY <1>1, NthUsedIs
<1>3. {j \in 1 .. Ways : EmptySet.validBit[NthUsed(EmptySet, j)]} = {}
  BY <1>2 DEF EmptySet
<1>4. Recent(EmptySet) = <<>>
  BY <1>3 DEF Recent
<1>5. DirtyBlocks(EmptySet) = {}
  BY DEF DirtyBlocks, EmptySet
<1>6. \A s \in Indices : l2_cache[s] = EmptySet
  BY DEF Init
<1>7. HeldIn(i_cache) = [l \in Lines |-> -1] /\ HeldIn(d_cache) = [l \in Lines |-> -1]
  BY DEF Init, HeldIn, EmptyLine
<1>8. Held = [c \in {"i", "d"} |-> [l \in Lines |-> -1]]
  BY <1>7 DEF Held
<1> QED BY <1>4, <1>5, <1>6, <1>8 DEF Init, Recency!Init, Recency!None, Recency!Lines,
                                      Recency!Indices, Lines, Indices

LEMMA StepRefined ==
  ASSUME NoTagZero, IInv, FirstLevel, [Next]_vars
  PROVE  [Recency!Next]_(Recency!vars)
<1>1. /\ i_cache \in [Lines -> L1Line] /\ Unfilled(i_cache)
      /\ d_cache \in [Lines -> L1Line] /\ Unfilled(d_cache)
  BY DEF IInv, TypeOK, FirstLevel
<1>2. CASE UNCHANGED vars
  BY <1>2 DEF vars, Recency!vars, Held, HeldIn
<1>3. CASE Next
  <2>1. PICK a \in Addresses, input \in Inputs :
               line' = <<a, input>> /\ l1_cachesim_access(a, input)
    BY <1>3 DEF Next
  <2>2. /\ Recency!l1_index(a) = l1_index(a) /\ Recency!l1_tag(a) = l1_tag(a)
        /\ Recency!l2_index(a) = l2_index(a) /\ Recency!l2_tag(a) = l2_tag(a)
    BY DEF Recency!l1_index, Recency!l1_tag, Recency!l2_index, Recency!l2_tag,
           l1_index, l1_tag, l2_index, l2_tag
  <2>3. l1_index(a) \in Lines
    BY AddressSplit
  <2>4. Held["i"] = HeldIn(i_cache) /\ Held["d"] = HeldIn(d_cache)
    BY DEF Held
  <2>5. ASSUME DataHit(a, input), input # "i"
        PROVE  Recency!Hit(a, input)
    <3>1. Held["d"][l1_index(a)] = l1_tag(a)
      BY <1>1, <2>4, <2>5, LookupHeld DEF DataHit
    <3>2. HeldIn(d_cache)' = HeldIn(d_cache)
      <4>1. \A l \in Lines : /\ d_cache'[l].validBit = d_cache[l].validBit
                             /\ d_cache'[l].tag = d_cache[l].tag
        BY <1>1, <2>3, <2>5 DEF DataHit, L1Line
      <4> QED BY <4>1 DEF HeldIn
    <3>3. Held' = Held /\ Lists' = Lists /\ DirtyInSets' = DirtyInSets
      BY <2>5, <3>2 DEF DataHit, Held, HeldIn, Lists, DirtyInSets
    <3>4. counted' = {"d_hit"}
      BY <2>5 DEF DataHit
    <3> QED BY <2>2, <2>5, <3>1, <3>3, <3>4
            DEF Recency!Hit, Recency!HitIn, Recency!Cache, Lists, DirtyInSets
  <2>6. ASSUME FetchHit(a), input = "i"
        PROVE  Recency!Hit(a, input)
    <3>1. Held["i"][l1_index(a)] = l1_tag(a)
      BY <1>1, <2>4, <2>6, LookupHeld DEF FetchHit
    <3>2. Held' = Held /\ Lists' = Lists /\ DirtyInSets' = DirtyInSets
      BY <2>6 DEF FetchHit, Held, HeldIn, Lists, DirtyInSets
    <3>3. counted' = {"i_hit"}
      BY <2>6 DEF FetchHit
    <3> QED BY <2>2, <2>6, <3>1, <3>2, <3>3
            DEF Recency!Hit, Recency!HitIn, Recency!Cache, Lists, DirtyInSets
  <2>7. ASSUME DataMiss(a, input), input # "i"
        PROVE  Recency!Miss(a, input)
    <3>1. Held["d"][l1_index(a)] # l1_tag(a)
      BY <1>1, <2>4, <2>7, LookupHeld DEF DataMiss
    <3>2. Held' = [Held EXCEPT !["d"][l1_index(a)] = l1_tag(a)]
      <4>1. d_cache' = Filled(d_cache, a, input) /\ i_cache' = i_cache
        BY <2>7 DEF DataMiss
      <4>2. /\ HeldIn(d_cache)' = [HeldIn(d_cache) EXCEPT ![l1_index(a)] = l1_tag(a)]
            /\ HeldIn(i_cache)' = HeldIn(i_cache)
        <5>1. HeldIn(d_cache)' = HeldIn(Filled(d_cache, a, input))
          BY <4>1 DEF HeldIn
        <5>2. HeldIn(i_cache)' = HeldIn(i_cache)
          BY <4>1 DEF HeldIn
        <5> QED BY <1>1, <5>1, <5>2, FilledHeld
      <4> QED BY <4>2 DEF Held
    <3>3. ListsUsed(a, input, "d_miss")
      BY <2>7, SecondLevelStep DEF DataMiss
    <3>4. Recency!Cache(input) = "d" /\ Recency!MissIn("d") = "d_miss"
      BY <2>7 DEF Recency!Cache, Recency!MissIn
    <3> QED BY <2>2, <2>7, <3>1, <3>2, <3>3, <3>4
            DEF ListsUsed, Recency!Miss, Lists, DirtyInSets
  <2>8. ASSUME FetchMiss(a), input = "i"
        PROVE  Recency!Miss(a, input)
    <3>1. Held["i"][l1_index(a)] # l1_tag(a)
      BY <1>1, <2>4, <2>8, LookupHeld DEF FetchMiss
    <3>2. Held' = [Held EXCEPT !["i"][l1_index(a)] = l1_tag(a)]
      <4>1. i_cache' = Filled(i_cache, a, "i") /\ d_cache' = d_cache
        BY <2>8 DEF FetchMiss
      <4>2. /\ HeldIn(i_cache)' = [HeldIn(i_cache) EXCEPT ![l1_index(a)] = l1_tag(a)]
            /\ HeldIn(d_cache)' = HeldIn(d_cache)
        <5>1. HeldIn(i_cache)' = HeldIn(Filled(i_cache, a, "i"))
          BY <4>1 DEF HeldIn
        <5>2. HeldIn(d_cache)' = HeldIn(d_cache)
          BY <4>1 DEF HeldIn
        <5> QED BY <1>1, <5>1, <5>2, FilledHeld
      <4> QED BY <4>2 DEF Held
    <3>3. ListsUsed(a, "i", "i_miss")
      BY <2>8, SecondLevelStep DEF FetchMiss
    <3>4. Recency!Cache(input) = "i" /\ Recency!MissIn("i") = "i_miss"
      BY <2>8 DEF Recency!Cache, Recency!MissIn
    <3> QED BY <2>2, <2>8, <3>1, <3>2, <3>3, <3>4
            DEF ListsUsed, Recency!Miss, Lists, DirtyInSets
  <2> QED BY <2>1, <2>5, <2>6, <2>7, <2>8 DEF l1_cachesim_access, Recency!Next
<1> QED BY <1>2, <1>3

(* When no address has the tag 0 in the first level, the two levels with   *)
(* their ways and LRU counters count what true LRU lists count.            *)
THEOREM RecencyImplemented ==
  ASSUME NoTagZero
  PROVE  Spec => ImplementsRecency
<1>1. Init => Recency!Init
  BY InitRefined
<1>2. IInv /\ FirstLevel /\ [Next]_vars => [Recency!Next]_(Recency!vars)
  BY StepRefined
<1> QED BY <1>1, <1>2, Invariance, FirstLevelInvariant, PTL
        DEF Spec, ImplementsRecency, Recency!Spec

(* Under the same hypothesis a hit in the data cache is a hit on a block   *)
(* that was brought in.                                                    *)
THEOREM HitsAreReal ==
  ASSUME NoTagZero
  PROVE  Spec => HitsAreFilled
<1> DEFINE Real == counted' = {"d_hit"} => d_cache[l1_index(line'[1])].validBit
<1>1. ASSUME IInv, FirstLevel, Next
      PROVE  Real
  <2>1. PICK a \in Addresses, input \in Inputs :
               line' = <<a, input>> /\ l1_cachesim_access(a, input)
    BY <1>1 DEF Next
  <2>2. CASE DataHit(a, input)
    <3>1. L1Hit(d_cache, a) /\ l1_index(a) \in Lines /\ l1_tag(a) # 0
      BY <2>2, AddressSplit DEF DataHit, NoTagZero
    <3>2. d_cache[l1_index(a)].validBit
      BY <1>1, <3>1 DEF L1Hit, FirstLevel, Unfilled
    <3> QED BY <2>1, <3>2
  <2>3. ASSUME DataMiss(a, input) \/ FetchHit(a) \/ FetchMiss(a)
        PROVE  counted' # {"d_hit"}
    <3>1. CASE FetchHit(a)
      BY <3>1 DEF FetchHit
    <3>2. ASSUME NEW miss \in {"d_miss", "i_miss"}, NEW letter,
                 l2_cachesim_access(a, letter, miss)
          PROVE  counted' # {"d_hit"}
      BY <3>2 DEF l2_cachesim_access
    <3> QED BY <2>3, <3>1, <3>2 DEF DataMiss, FetchMiss
  <2> QED BY <2>1, <2>2, <2>3 DEF l1_cachesim_access
<1>2. IInv /\ FirstLevel /\ [Next]_vars => [Real]_vars
  BY <1>1
<1> QED BY <1>2, Invariance, FirstLevelInvariant, PTL DEF Spec, HitsAreFilled
=============================================================================
