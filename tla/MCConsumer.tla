------------------------------ MODULE MCConsumer ------------------------------
(* Small instances of Consumer for TLC. *)
EXTENDS Consumer, TLC

CONSTANTS e1, e2, p1, p2, s1, s2

(* e1 was sent twice, and every kind of message occurs. *)
BothPartitions ==
  [p \in Partition |-> IF p = p1 THEN <<e1, Garbage, e2>> ELSE <<e1, Invalid, Empty>>]
TwoEvents == [p \in Partition |-> <<e1, e2>>]

Services == Permutations(Service)
=============================================================================
