------------------------------- MODULE MCThreads -------------------------------
(***************************************************************************)
(* Model-checking instances of Threads: one packet in a group.             *)
(***************************************************************************)
EXTENDS Threads

===============================================================================
