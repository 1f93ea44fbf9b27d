---------------------------- MODULE ItemSequence ----------------------------
(***************************************************************************)
(* What data/list.h promises its callers, with no node and no pointer: a   *)
(* sequence of pointers, in the order of their insertion.                  *)
(***************************************************************************)
EXTENDS Integers, Sequences, Selection

CONSTANTS Item,  (* what callers insert: pointers to their structures      *)
          NULL   (* the null pointer, which they may insert as well        *)

VARIABLES items, (* what is in the list                                    *)
          ret    (* what the last call did and returned                    *)

vars == <<items, ret>>

Outcome(op, x) == [op |-> op, val |-> x]

Init == items = <<>> /\ ret = Outcome("none", NULL)

(* A new list is empty, and a list that is freed leaves nothing behind.    *)
Emptied(op) == items' = <<>> /\ ret' = Outcome(op, NULL)

Insert(d) == /\ items' = Append(items, d)
             /\ ret' = Outcome("insert", d)

Pop == /\ items # <<>>
       /\ items' = Tail(items)
       /\ ret' = Outcome("pop", Head(items))

(* All that match go at once, and the caller is told how many.             *)
RemoveAll(P) ==
    LET left == Those(items, (Item \cup {NULL}) \ P)
    IN  /\ items' = left
        /\ ret' = Outcome("remove", Len(items) - Len(left))

(* The first item that matches, NULL if there is none.                     *)
Get(P) ==
    LET hits == Those(items, P)
    IN  /\ ret' = Outcome("get", IF hits = <<>> THEN NULL ELSE Head(hits))
        /\ UNCHANGED items

(* Calls that change nothing: a refused insertion, a pop of nothing, a     *)
(* search without a predicate.                                             *)
Miss(op) == ret' = Outcome(op, NULL) /\ UNCHANGED items

Next == \/ \E op \in {"build", "free"} : Emptied(op)
        \/ \E d \in Item \cup {NULL} : Insert(d)
        \/ Pop
        \/ \E P \in SUBSET Item : RemoveAll(P) \/ Get(P)
        \/ \E op \in {"refuse", "get", "pop"} : Miss(op)

Spec == Init /\ [][Next]_vars
=============================================================================
