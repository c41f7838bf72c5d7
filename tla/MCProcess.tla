------------------------------ MODULE MCProcess ------------------------------
(* Process for TLC; the configurations give all constants.                   *)
EXTENDS Process
=============================================================================
