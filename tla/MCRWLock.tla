------------------------------ MODULE MCRWLock ---------------------------------
(***************************************************************************)
(* Instances of RWLock for TLC: three threads are enough for a writer, a   *)
(* writer in line behind it and a reader behind both.                      *)
(***************************************************************************)
EXTENDS RWLock
================================================================================
