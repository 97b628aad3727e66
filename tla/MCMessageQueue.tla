--------------------------- MODULE MCMessageQueue ---------------------------
(* The message queue for TLC; the .cfg gives the sizes. *)
EXTENDS MessageQueueProperties
=============================================================================
