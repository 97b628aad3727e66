--------------------------- MODULE MCUnnamedPipe ---------------------------
(* The unnamed pipe for TLC; the .cfg gives the sizes. *)
EXTENDS UnnamedPipeProperties
=============================================================================
