---------------------------- MODULE RecencyCache ----------------------------
(***************************************************************************)
(* What the cache simulator promises to count.  A set of the second level  *)
(* is the list of the blocks accessed last, most recent first, cut to Ways *)
(* blocks: an access hits exactly when its block is in the list.  A line   *)
(* of a first-level cache holds the last block accessed through it.  There *)
(* are no ways, no LRU counters, no valid bits, and no dirty bits in the   *)
(* first level.                                                            *)
(***************************************************************************)
EXTENDS CacheGeometry, Sequences

VARIABLES
  held,      \* the block in each line of each first-level cache, or None
  recent,    \* the blocks of each set, most recent first
  dirty,     \* the blocks of each set written while they are in it
  line,      \* the last access: the address and the letter
  counted    \* the counters it incremented

vars == <<held, recent, dirty, line, counted>>

None == -1

Blocks(list) == {list[k] : k \in 1 .. Len(list)}

Init ==
  /\ held = [c \in {"i", "d"} |-> [l \in Lines |-> None]]
  /\ recent = [s \in Indices |-> <<>>]
  /\ dirty = [s \in Indices |-> {}]
  /\ line = <<>>
  /\ counted = {}

Cache(input) == IF input = "i" THEN "i" ELSE "d"
HitIn(c)  == IF c = "i" THEN "i_hit" ELSE "d_hit"
MissIn(c) == IF c = "i" THEN "i_miss" ELSE "d_miss"

(* Where an access to a block takes it from: its place in the list, or the *)
(* place that is free or given up.                                         *)
Place(list, tag) ==
  IF tag \in Blocks(list) THEN CHOOSE k \in 1 .. Len(list) : list[k] = tag
  ELSE IF Len(list) < Ways THEN Len(list) + 1
  ELSE Ways

(* The list after an access to a block: the blocks before its place move   *)
(* one place back.                                                         *)
Used(list, tag) ==
  LET place == Place(list, tag)
  IN  [k \in 1 .. (IF place > Len(list) THEN place ELSE Len(list)) |->
         IF k = 1 THEN tag ELSE IF k <= place THEN list[k - 1] ELSE list[k]]

Hit(a, input) ==
  LET c == Cache(input) IN
    /\ held[c][l1_index(a)] = l1_tag(a)
    /\ counted' = {HitIn(c)}
    /\ UNCHANGED <<held, recent, dirty>>

Miss(a, input) ==
  LET c    == Cache(input)
      s    == l2_index(a)
      tag  == l2_tag(a)
      list == Used(recent[s], tag)
  IN  /\ held[c][l1_index(a)] # l1_tag(a)
      /\ held' = [held EXCEPT ![c][l1_index(a)] = l1_tag(a)]
      /\ recent' = [recent EXCEPT ![s] = list]
      /\ dirty' = [dirty EXCEPT ![s] =
                     (@ \cap Blocks(list)) \cup (IF input = "w" THEN {tag} ELSE {})]
      /\ counted' = {MissIn(c)}
            \cup (IF tag \in Blocks(recent[s]) THEN {"l2_hit"} ELSE {"l2_miss"})
            \cup (IF dirty[s] \subseteq Blocks(list) THEN {} ELSE {"writebacks"})

Next == \E a \in Addresses, input \in Inputs :
          line' = <<a, input>> /\ (Hit(a, input) \/ Miss(a, input))

Spec == Init /\ [][Next]_vars
=============================================================================
