------------------------------ MODULE MCBufferMgr ------------------------------
(***************************************************************************)
(* Instances of BufferMgr for TLC: a persistent array with two chunks, one *)
(* of them compressed, written by t1 and read by both threads, and a       *)
(* temporary array with one chunk of t2.                                   *)
(***************************************************************************)
EXTENDS BufferMgr

mcKey == {1, 2, 3}
mcStoreOf == <<"pers", "pers", "temp">>
mcHome == [t1 |-> "pers", t2 |-> "temp"]
mcSize == <<1, 1, 2>>
====
