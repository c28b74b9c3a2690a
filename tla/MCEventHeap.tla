---------------------------- MODULE MCEventHeap ----------------------------
(* EventHeap with two blocks of two logs, one of them seen on two branches. *)
EXTENDS EventHeap

SomeEvents ==
  [block : {1, 2}, idx : {0, 1}, hash : {"a"}] \cup [block : {2}, idx : {0}, hash : {"b"}]
=============================================================================
