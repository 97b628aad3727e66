--------------------------- MODULE MCAppleOrange ---------------------------
(* The apples and oranges for TLC; the .cfg gives the numbers. *)
EXTENDS AppleOrangeProperties
=============================================================================
