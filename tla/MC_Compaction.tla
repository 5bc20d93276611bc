--------------------------- MODULE MC_Compaction ---------------------------
(***************************************************************************)
(* Instances of Compaction for TLC: a window of two messages, so that a     *)
(* reply with two calls straddles it.                                       *)
(***************************************************************************)
EXTENDS Compaction
=============================================================================
