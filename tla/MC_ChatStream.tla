--------------------------- MODULE MC_ChatStream ---------------------------
(***************************************************************************)
(* Instances of ChatStream for TLC.                                         *)
(***************************************************************************)
EXTENDS ChatStream
=============================================================================
