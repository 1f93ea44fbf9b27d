--------------------------- MODULE PriorityQueue ---------------------------
(***************************************************************************)
(* What a jcqueue heap (data/heap.h) promises its callers, with no array,  *)
(* no index and no sift: a set of items from which removing the front      *)
(* hands out an item that no other item precedes.                          *)
(***************************************************************************)
CONSTANTS Item,  (* what is queued: pointers to messages                   *)
          Less,  (* h->less as a relation: <<x, y>> when less(x, y) is 1   *)
          NULL   (* the null pointer                                       *)

VARIABLES content,  (* the items queued                                    *)
          ret       (* the last call and the item it put in or handed out  *)

vars == <<content, ret>>

Outcome(op, x) == [op |-> op, item |-> x]

Init == /\ content = {}
        /\ ret = Outcome("build", NULL)

Insert(x) == /\ x \in Item \ content
             /\ content' = content \cup {x}
             /\ ret' = Outcome("insert", x)

(* heapinsert may give up for lack of memory: then nothing is queued.      *)
Refuse(x) == /\ x \in Item \ content
             /\ ret' = Outcome("refuse", x)
             /\ UNCHANGED content

(* Removing the front: an item that precedes every other one.              *)
Pop(x) == /\ x \in content
          /\ \A y \in content : <<x, y>> \in Less
          /\ content' = content \ {x}
          /\ ret' = Outcome("pop", x)

(* Removing at an index the caller has looked up.                          *)
Take(x) == /\ x \in content
           /\ content' = content \ {x}
           /\ ret' = Outcome("take", x)

(* Removing from an index that holds nothing.                              *)
Miss == /\ ret' = Outcome("miss", NULL)
        /\ UNCHANGED content

Next == \/ \E x \in Item : Insert(x) \/ Refuse(x) \/ Pop(x) \/ Take(x)
        \/ Miss

Spec == Init /\ [][Next]_vars
=============================================================================
