------------------------------ MODULE MCCache ------------------------------
(* The TLC runs of CacheSim. *)
EXTENDS CacheProperties, CacheSizes

\* Four blocks of set 0 and one of set 1 of a second level with two sets.
\* With one line in the first level none has the tag 0 there.
FiveBlocks == {2, 3, 4, 6, 8}

\* Addresses with first-level tag 0 among others.
LowBlocks == 0 .. 3

\* "cachesim <trace> 1 9 3": three sets, of which two are used.
SmallBlock == UsedBlock(1)
SmallSets  == UsedSets(1, 9, 3)
=============================================================================
