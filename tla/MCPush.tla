------------------------------- MODULE MCPush -------------------------------
(* Instances of Push.                                                      *)
EXTENDS Push, TLC

CONSTANTS s1, s2

MCOnce == [s \in Sub |-> 1]

(* A subscribe that bq_add_topic has registered twice, and one that came   *)
(* after the topic.                                                        *)
MCTwice == [s \in Sub |-> IF s = s1 THEN 2 ELSE 1]

Symmetry == Permutations(Msg) \cup Permutations(Sub)
=============================================================================
