------------------------------ MODULE CacheSim ------------------------------
(***************************************************************************)
(* The cache simulator (cachesim.c, main.c): direct-mapped instruction and *)
(* data caches in front of a set-associative second level with LRU         *)
(* replacement.                                                            *)
(*                                                                         *)
(* The program is sequential: a step is one line of the trace, a data read *)
(* or write ("r", "w") or an instruction fetch ("i"), run to its end.      *)
(* Lines with another letter touch no cache and are left out.              *)
(*                                                                         *)
(* The program's results are sums.  counted is what the last access added  *)
(* to them: the counters it incremented, each by one.  write_count,        *)
(* write_miss and the other counters that are never printed are left out,  *)
(* and so are the ways from Ways to 127, which hold the tag -1 and are     *)
(* never found or chosen.                                                  *)
(*                                                                         *)
(* A definition marked "Variant" is a faulty version of the one after it   *)
(* and no part of the specification.                                       *)
(***************************************************************************)
EXTENDS CacheGeometry

VARIABLES
  i_cache,    \* l1_cache_struct of each line
  d_cache,
  l2_cache,   \* l2_cache_struct of each set
  line,       \* the last line of the trace: the address and the letter
  counted     \* the counters the last access incremented

vars == <<i_cache, d_cache, l2_cache, line, counted>>

L1Line == [tag : Nat, validBit : BOOLEAN, dirtyBit : BOOLEAN]
L2Set  == [tag : [Slots -> Nat], validBit : [Slots -> BOOLEAN],
           dirtyBit : [Slots -> BOOLEAN], LRU_counter : [Slots -> Slots]]

TypeOK ==
  /\ i_cache \in [Lines -> L1Line]
  /\ d_cache \in [Lines -> L1Line]
  /\ l2_cache \in [Indices -> L2Set]
  /\ line \in (Addresses \X Inputs) \cup {<<>>}
  /\ counted \in SUBSET Counters

EmptyLine == [tag |-> 0, validBit |-> FALSE, dirtyBit |-> FALSE]
EmptySet  == [tag         |-> [w \in Slots |-> 0],
              validBit    |-> [w \in Slots |-> FALSE],
              dirtyBit    |-> [w \in Slots |-> FALSE],
              LRU_counter |-> [w \in Slots |-> w]]

(* cachesim_init *)
Init ==
  /\ i_cache = [l \in Lines |-> EmptyLine]
  /\ d_cache = [l \in Lines |-> EmptyLine]
  /\ l2_cache = [s \in Indices |-> EmptySet]
  /\ line = <<>>
  /\ counted = {}

(***************************************************************************)
(* The second level                                                        *)
(***************************************************************************)
Lowest(ways) == CHOOSE w \in ways : \A x \in ways : w <= x

(* The ways check_tag_and_validBit accepts; it returns the lowest, or -1. *)
check_tag_and_validBit(set, tag) ==
  {w \in Slots : set.validBit[w] /\ set.tag[w] = tag}

get_LRU_index(set) == Lowest({w \in Slots : set.LRU_counter[w] = 0})

(* Variant: the block used becomes one too recent. *)
TouchedPastEnd(lru, b) ==
  [w \in Slots |-> IF w = b THEN Ways
                   ELSE IF lru[w] > lru[b] THEN lru[w] - 1 ELSE lru[w]]

(* Variant: the block used becomes the oldest instead of the most recent. *)
TouchedOldest(lru, b) ==
  [w \in Slots |-> IF w = b THEN 0
                   ELSE IF lru[w] < lru[b] THEN lru[w] + 1 ELSE lru[w]]

(* Variant: the ways older than the one used age too. *)
TouchedAllAge(lru, b) ==
  [w \in Slots |-> IF w = b THEN Ways - 1
                   ELSE IF lru[w] > 0 THEN lru[w] - 1 ELSE lru[w]]

(* The LRU counters after an access to way b *)
Touched(lru, b) ==
  [w \in Slots |-> IF w = b THEN Ways - 1
                   ELSE IF lru[w] > lru[b] THEN lru[w] - 1 ELSE lru[w]]

(* Variant: a block that is found is filled into the LRU way again. *)
BlockRefilled(set, tag) == get_LRU_index(set)

(* The way an access to tag ends up in *)
BlockIndex(set, tag) ==
  LET found == check_tag_and_validBit(set, tag)
  IN  IF found # {} THEN Lowest(found) ELSE get_LRU_index(set)

(* Variant: the dirty bit of a block that is replaced is not reset. *)
DirtyKept(set, tag, input) == input = "w" \/ set.dirtyBit[BlockIndex(set, tag)]

Dirty(set, tag, input) ==
  \/ input = "w"
  \/ check_tag_and_validBit(set, tag) # {} /\ set.dirtyBit[BlockIndex(set, tag)]

Accessed(set, tag, input) ==
  LET b == BlockIndex(set, tag) IN
    [tag         |-> [set.tag EXCEPT ![b] = tag],
     validBit    |-> [set.validBit EXCEPT ![b] = TRUE],
     dirtyBit    |-> [set.dirtyBit EXCEPT ![b] = Dirty(set, tag, input)],
     LRU_counter |-> Touched(set.LRU_counter, b)]

(* What an access adds to the counters of the second level *)
L2Counted(set, tag) ==
  IF check_tag_and_validBit(set, tag) # {} THEN {"l2_hit"}
  ELSE IF set.dirtyBit[get_LRU_index(set)] THEN {"l2_miss", "writebacks"}
  ELSE {"l2_miss"}

(* l2_cachesim_access, called for a miss in the cache that counts "miss" *)
l2_cachesim_access(a, input, miss) ==
  LET set == l2_cache[l2_index(a)] IN
    /\ l2_cache' = [l2_cache EXCEPT
                      ![l2_index(a)] = Accessed(set, l2_tag(a), input)]
    /\ counted' = {miss} \cup L2Counted(set, l2_tag(a))

(***************************************************************************)
(* The first level.  A lookup compares tags and not the valid bit.         *)
(***************************************************************************)

L1Hit(cache, a) == cache[l1_index(a)].tag = l1_tag(a)

Filled(cache, a, input) ==
  [cache EXCEPT ![l1_index(a)] =
     [tag |-> l1_tag(a), validBit |-> TRUE, dirtyBit |-> input = "w"]]

DataHit(a, input) ==
  /\ L1Hit(d_cache, a)
  /\ d_cache' = [d_cache EXCEPT ![l1_index(a)].dirtyBit = @ \/ input = "w"]
  /\ counted' = {"d_hit"}
  /\ UNCHANGED <<i_cache, l2_cache>>

DataMiss(a, input) ==
  /\ ~L1Hit(d_cache, a)
  /\ l2_cachesim_access(a, input, "d_miss")
  /\ d_cache' = Filled(d_cache, a, input)
  /\ UNCHANGED i_cache

FetchHit(a) ==
  /\ L1Hit(i_cache, a)
  /\ counted' = {"i_hit"}
  /\ UNCHANGED <<i_cache, d_cache, l2_cache>>

FetchMiss(a) ==
  /\ ~L1Hit(i_cache, a)
  /\ l2_cachesim_access(a, "i", "i_miss")
  /\ i_cache' = Filled(i_cache, a, "i")
  /\ UNCHANGED d_cache

l1_cachesim_access(a, input) ==
  IF input = "i" THEN FetchHit(a) \/ FetchMiss(a)
                 ELSE DataHit(a, input) \/ DataMiss(a, input)

Next == \E a \in Addresses, input \in Inputs :
          line' = <<a, input>> /\ l1_cachesim_access(a, input)

Spec == Init /\ [][Next]_vars
=============================================================================
