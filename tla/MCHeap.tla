------------------------------- MODULE MCHeap -------------------------------
(* Six items with ties in their priorities: insertions and removals, both  *)
(* outcomes of "<=" and ties occur at every depth of a three-level heap.   *)
EXTENDS Heap, TLC

CONSTANTS m1, m2, m3, m4, m5, m6

MCItem == {m1, m2, m3, m4, m5, m6}
MCPriority == (m1 :> 1 @@ m2 :> 2 @@ m3 :> 2 @@ m4 :> 3 @@ m5 :> 3 @@ m6 :> 3)
MCLess ==
    {p \in MCItem \X MCItem : MCPriority[p[1]] <= MCPriority[p[2]]}
=============================================================================
