------------------------------ MODULE MCPaging ------------------------------
(* The TLC runs of Paging. *)
EXTENDS PagingProperties, TLC

(* Processes are interchangeable; frames are not, the lowest free one is   *)
(* taken first.                                                            *)
Symmetry == Permutations(Pids)
=============================================================================
