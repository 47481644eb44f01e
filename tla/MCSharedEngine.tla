---------------------------- MODULE MCSharedEngine ----------------------------
(* SharedEngine for TLC: processes that work under one worker id, tasks in *)
(* one order.                                                              *)
EXTENDS SharedEngine

CONSTANT w1

OneWorker == [p \in Process |-> w1]
OnlyTask  == [t \in Task |-> 1]
===============================================================================
