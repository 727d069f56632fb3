------------------------------ MODULE MCDataStore ------------------------------
(***************************************************************************)
(* Instances of DataStore for TLC: a file of a few units and chunks of one *)
(* to three of them.                                                       *)
(***************************************************************************)
EXTENDS DataStore
====
