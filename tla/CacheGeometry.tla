---------------------------- MODULE CacheGeometry ----------------------------
(***************************************************************************)
(* The sizes of the caches of the cache simulator, and where an address    *)
(* goes in them.  The program splits addresses with shifts: its sizes are  *)
(* powers of two (cachesim_init takes their logarithms), for which the     *)
(* shifts are the divisions and remainders below.                          *)
(***************************************************************************)
EXTENDS Integers

CONSTANTS
  Addresses,   \* the physical addresses of the trace
  Inputs,      \* the letters of the trace
  L1Block,     \* bytes in a block of i_cache and d_cache, 64
  L1Sets,      \* l1_index_max, 256
  L2Block,     \* l2_blocksize
  L2Sets,      \* l2_index_max
  Ways         \* l2_ways and max_LRU, at most 128

ASSUME GeometryAssumption ==
  /\ Addresses \subseteq Nat
  /\ Inputs \subseteq {"r", "w", "i"}
  /\ L1Block \in Nat \ {0} /\ L1Sets \in Nat \ {0}
  /\ L2Block \in Nat \ {0} /\ L2Sets \in Nat \ {0}
  /\ Ways \in Nat \ {0}

Lines   == 0 .. L1Sets - 1
Indices == 0 .. L2Sets - 1
Slots   == 0 .. Ways - 1

(* The counters of the simulation.  accesses is their sum without          *)
(* writebacks, the one that cachesim_print_stats does not print.           *)
Counters == {"d_hit", "d_miss", "i_hit", "i_miss", "l2_hit", "l2_miss",
             "writebacks"}

l1_index(a) == (a % (L1Block * L1Sets)) \div L1Block
l1_tag(a)   == a \div (L1Block * L1Sets)
l2_index(a) == (a % (L2Block * L2Sets)) \div L2Block
l2_tag(a)   == a \div (L2Block * L2Sets)
=============================================================================
