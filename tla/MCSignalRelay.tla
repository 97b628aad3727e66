--------------------------- MODULE MCSignalRelay ---------------------------
(* The signals for TLC; the .cfg bounds how often the user stops the processes. *)
EXTENDS SignalRelayProperties
=============================================================================
