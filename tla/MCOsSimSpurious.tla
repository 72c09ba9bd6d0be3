--------------------------- MODULE MCOsSimSpurious --------------------------
(* The TLC run of OsSimSpurious, with the constants of MCOsSim. *)
EXTENDS MCOsSim, OsSimSpurious
=============================================================================
