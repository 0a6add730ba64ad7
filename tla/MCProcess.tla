----------------------------- MODULE MCProcess -----------------------------
(* Process for TLC: every constant is a small set or number of the .cfg.   *)
EXTENDS Process
============================================================================
