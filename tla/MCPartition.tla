---------------------------- MODULE MCPartition ----------------------------
(* Instances of Partition for TLC. *)
EXTENDS Partition

CONSTANT q1
====
