--------------------------- MODULE MCSharedFrame ---------------------------
(* The shared frame for TLC; each .cfg gives the runs and the sizes. *)
EXTENDS SharedFrameProperties
=============================================================================
