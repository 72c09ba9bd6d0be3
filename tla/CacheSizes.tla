----------------------------- MODULE CacheSizes -----------------------------
(***************************************************************************)
(* The sizes cachesim_init computes from the command line.  Addresses are  *)
(* split with the truncated logarithms: of a number of sets or bytes that  *)
(* is no power of two only the next lower power is used.                   *)
(***************************************************************************)
EXTENDS Integers

(* (unsigned int) log2(n), for n > 0. *)
log2(n) == CHOOSE k \in 0 .. n : 2 ^ k <= n /\ n < 2 ^ (k + 1)

l2_index_max(blocksize, cachesize, ways) == cachesize \div (blocksize * ways)

l2_index_size(blocksize, cachesize, ways) ==
  log2(l2_index_max(blocksize, cachesize, ways))

l2_offset_size(blocksize) == log2(blocksize)

(* What the two shifts of an address leave to choose the set and the byte. *)
UsedSets(blocksize, cachesize, ways) == 2 ^ l2_index_size(blocksize, cachesize, ways)
UsedBlock(blocksize) == 2 ^ l2_offset_size(blocksize)

(* No index is beyond the sets that are allocated, if there is one. *)
ASSUME SetsAllocatedAssumption ==
  \A blocksize \in 1 .. 4, cachesize \in 1 .. 32, ways \in 1 .. 4 :
    l2_index_max(blocksize, cachesize, ways) > 0 =>
      UsedSets(blocksize, cachesize, ways) <= l2_index_max(blocksize, cachesize, ways)
=============================================================================
