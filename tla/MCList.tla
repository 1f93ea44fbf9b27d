------------------------------- MODULE MCList -------------------------------
(* A header and nodes for a list of three, reused after they are freed; of *)
(* two pointers to insert, and NULL, a list can hold one twice.            *)
EXTENDS List

CONSTANTS h, n1, n2, n3
MCNode == {h, n1, n2, n3}
=============================================================================
