-------------------------- MODULE CacheProperties --------------------------
(***************************************************************************)
(* What the cache simulator must satisfy.                                  *)
(***************************************************************************)
EXTENDS CacheSim

(* The LRU counters of a set are a permutation: some way always has the    *)
(* counter 0 that get_LRU_index looks for, and only one.                   *)
LruPermutation ==
  \A s \in Indices : LET lru == l2_cache[s].LRU_counter IN
    /\ \A v, w \in Slots : lru[v] = lru[w] => v = w
    /\ \A n \in Slots : \E w \in Slots : lru[w] = n

(* Ways that hold no block are older than all that do: no block is         *)
(* replaced while there is room.                                           *)
EmptyWaysOldest ==
  \A s \in Indices : LET set == l2_cache[s] IN
    \A v, w \in Slots : ~set.validBit[v] /\ set.validBit[w]
      => set.LRU_counter[v] < set.LRU_counter[w]

(* A block is in at most one way of its set. *)
NoDuplicateBlock ==
  \A s \in Indices : LET set == l2_cache[s] IN
    \A v, w \in Slots :
      set.validBit[v] /\ set.validBit[w] /\ set.tag[v] = set.tag[w] => v = w

(* A way without a block has nothing to write back. *)
CleanWhenEmpty ==
  \A s \in Indices, w \in Slots : LET set == l2_cache[s] IN
    set.dirtyBit[w] => set.validBit[w]

IInv ==
  /\ TypeOK
  /\ LruPermutation
  /\ EmptyWaysOldest
  /\ NoDuplicateBlock
  /\ CleanWhenEmpty

(* A hit in the data cache means that the block "is already there"        *)
(* (cachesim.c:94): the line was filled before.                            *)
HitsAreFilled ==
  [][counted' = {"d_hit"} => d_cache[l1_index(line'[1])].validBit]_vars

(***************************************************************************)
(* Refinement                                                              *)
(***************************************************************************)
HeldIn(cache) ==
  [l \in Lines |-> IF cache[l].validBit THEN cache[l].tag ELSE -1]

Held == [c \in {"i", "d"} |-> HeldIn(IF c = "i" THEN i_cache ELSE d_cache)]

(* The way whose LRU counter is the k-th highest *)
NthUsed(set, k) == CHOOSE w \in Slots : set.LRU_counter[w] = Ways - k

(* The blocks of a set, those with the highest LRU counters first *)
Recent(set) ==
  [k \in {j \in 1 .. Ways : set.validBit[NthUsed(set, j)]} |->
     set.tag[NthUsed(set, k)]]

DirtyBlocks(set) == {set.tag[w] : w \in {v \in Slots : set.dirtyBit[v]}}

Recency == INSTANCE RecencyCache WITH
  held <- Held,
  recent <- [s \in Indices |-> Recent(l2_cache[s])],
  dirty <- [s \in Indices |-> DirtyBlocks(l2_cache[s])]

(* No address has the tag that cachesim_init leaves in every line of the   *)
(* first level.                                                            *)
NoTagZero == \A a \in Addresses : l1_tag(a) # 0

(* The hits, misses and write-backs are those of true LRU lists, when      *)
(* NoTagZero holds.                                                        *)
ImplementsRecency == Recency!Spec
=============================================================================
