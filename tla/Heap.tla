-------------------------------- MODULE Heap --------------------------------
(***************************************************************************)
(* data/heap.c: the binary heap behind every queue of a topic and behind   *)
(* the connection table.  The loops of siftdown and siftup are modelled    *)
(* one iteration per step, so that what each swap does to the order of the *)
(* array is visible; a call starts (Insert, Remove), iterates and returns. *)
(*                                                                         *)
(* h->less is a relation; the assumption that it is a total preorder is    *)
(* what MessageLessByPriority ("<=" on priorities) provides.               *)
(***************************************************************************)
EXTENDS Integers

CONSTANTS Item,  (* what callers queue: pointers to messages               *)
          Less,  (* h->less as a relation                                  *)
          NULL   (* the null pointer                                       *)

ASSUME NullAssumption == NULL \notin Item

ASSUME OrderAssumption ==
    /\ Less \subseteq Item \X Item
    /\ \A x, y \in Item : <<x, y>> \in Less \/ <<y, x>> \in Less
    /\ \A x, y, z \in Item :
          <<x, y>> \in Less /\ <<y, z>> \in Less => <<x, z>> \in Less

VARIABLES data,  (* h->data: the cells 0 .. cap-1; NULL when not yet written *)
          len,   (* h->len                                                 *)
          cap,   (* h->cap                                                 *)
          pc,    (* "idle", or the loop being run: "down" or "up"          *)
          call,  (* the call being run, "insert" or "remove"               *)
          k,     (* local k of that call                                   *)
          c,     (* the cursor: local k of the sift loop                   *)
          ret    (* the last call and the item it put in or handed out     *)

vars == <<data, len, cap, pc, call, k, c, ret>>
heap_vars == <<len, cap, call, ret>>

-----------------------------------------------------------------------------
(* Faults, here and below, that the properties must notice: a heap that    *)
(* doubles from nothing; a siftup that looks at one child; a removal that  *)
(* leaves its hole; a siftup whose cursor stays.                           *)
Parent(i) == (i - 1) \div 2
Left(i)   == i * 2 + 1
Right(i)  == i * 2 + 2

(* Positions in use, and the items in them.                                *)
Used     == 0 .. len - 1
Contents == {data[i] : i \in Used}

LessAt(i, j) == <<data[i], data[j]>> \in Less

Swapped(i, j) == [data EXCEPT ![i] = data[j], ![j] = data[i]]

FaultyNewCap(n) == n * 2

(* heapinsert allocates twice what it needs and copies the cells in use.   *)
NewCap(n) == (n + 1) * 2
Grown == [i \in 0 .. NewCap(len) - 1 |-> IF i \in Used THEN data[i] ELSE NULL]

FaultySmallest(i) == IF Left(i) < len /\ LessAt(Left(i), i) THEN Left(i) ELSE i

(* The smallest of position i and its children, as siftup selects it.      *)
Smallest(i) ==
    LET s == IF Left(i) < len /\ LessAt(Left(i), i) THEN Left(i) ELSE i
    IN  IF Right(i) < len /\ LessAt(Right(i), s) THEN Right(i) ELSE s

Outcome(op, x) == [op |-> op, item |-> x]
-----------------------------------------------------------------------------
(* buildHeap                                                               *)
Init == /\ data = [i \in {} |-> NULL]
        /\ len = 0
        /\ cap = 0
        /\ pc = "idle"
        /\ call = "insert"
        /\ k = 0
        /\ c = 0
        /\ ret = Outcome("build", NULL)

(* heapinsert(h, x), up to its call of siftdown.  The caller does not      *)
(* insert a pointer that the heap already holds.                           *)
Insert(x) ==
    /\ pc = "idle"
    /\ x \notin Contents
    /\ \/ /\ len = cap
          /\ data' = [Grown EXCEPT ![len] = x]
          /\ cap' = NewCap(len)
       \/ /\ len < cap
          /\ data' = [data EXCEPT ![len] = x]
          /\ UNCHANGED cap
    /\ len' = len + 1
    /\ k' = len
    /\ c' = len
    /\ pc' = "down"
    /\ call' = "insert"
    /\ ret' = Outcome("insert", x)

(* heapinsert when allocMem fails: it returns 0 and the heap is unchanged. *)
InsertRefused(x) ==
    /\ pc = "idle"
    /\ x \notin Contents
    /\ len = cap
    /\ ret' = Outcome("refuse", x)
    /\ UNCHANGED <<data, len, cap, pc, call, k, c>>

FaultyRemove(i) ==
    /\ pc = "idle"
    /\ i < len
    /\ len' = len - 1
    /\ k' = i
    /\ c' = i
    /\ pc' = "down"
    /\ call' = "remove"
    /\ ret' = Outcome(IF i = 0 THEN "pop" ELSE "take", data[i])
    /\ UNCHANGED <<data, cap>>

(* heapremove(h, i), up to its call of siftdown.  The last item fills the  *)
(* hole; its old cell keeps a stale copy.                                  *)
Remove(i) ==
    /\ pc = "idle"
    /\ i < len
    /\ len' = len - 1
    /\ data' = [data EXCEPT ![i] = data[len - 1]]
    /\ k' = i
    /\ c' = i
    /\ pc' = "down"
    /\ call' = "remove"
    /\ ret' = Outcome(IF i = 0 THEN "pop" ELSE "take", data[i])
    /\ UNCHANGED cap

(* heapremove of an index that is not in use returns 0.                    *)
RemoveMiss ==
    /\ pc = "idle"
    /\ ret' = Outcome("miss", NULL)
    /\ UNCHANGED <<data, len, cap, pc, call, k, c>>

(* The call returns; its locals are gone.                                  *)
Return == /\ pc' = "idle"
          /\ k' = 0
          /\ c' = 0

(* One iteration of siftdown: it ends the loop, or moves the cursor        *)
(* towards the root.  siftup then starts over from the caller's own k.     *)
SiftDown ==
    /\ pc = "down"
    /\ \/ /\ c # 0 => LessAt(Parent(c), c)
          /\ \/ call = "insert" /\ Return
             \/ call = "remove" /\ pc' = "up" /\ c' = k /\ UNCHANGED k
          /\ UNCHANGED data
       \/ /\ c # 0 /\ ~LessAt(Parent(c), c)
          /\ data' = Swapped(c, Parent(c))
          /\ c' = Parent(c)
          /\ UNCHANGED <<pc, k>>
    /\ UNCHANGED heap_vars

FaultySiftUp ==
    /\ pc = "up"
    /\ \/ /\ Smallest(c) = c
          /\ Return
          /\ UNCHANGED data
       \/ /\ Smallest(c) # c
          /\ data' = Swapped(c, Smallest(c))
          /\ UNCHANGED <<pc, k, c>>
    /\ UNCHANGED heap_vars

(* One iteration of siftup: the cursor moves towards the leaves.           *)
SiftUp ==
    /\ pc = "up"
    /\ \/ /\ Smallest(c) = c
          /\ Return
          /\ UNCHANGED data
       \/ /\ Smallest(c) # c
          /\ data' = Swapped(c, Smallest(c))
          /\ c' = Smallest(c)
          /\ UNCHANGED <<pc, k>>
    /\ UNCHANGED heap_vars

Next == \/ \E x \in Item : Insert(x) \/ InsertRefused(x)
        \/ \E i \in Used : Remove(i)
        \/ RemoveMiss
        \/ SiftDown
        \/ SiftUp

(* A call runs to its return: nothing but the process dying stops a loop.  *)
Fairness == WF_vars(SiftDown) /\ WF_vars(SiftUp)

Spec == Init /\ [][Next]_vars
FairSpec == Spec /\ Fairness
-----------------------------------------------------------------------------
(* Every variable has its type, the array exactly cap cells, and the       *)
(* cursor and the caller's index never leave them.                         *)
TypeOK ==
    /\ len \in Nat
    /\ cap \in Nat
    /\ len <= cap
    /\ data \in [0 .. cap - 1 -> Item \cup {NULL}]
    /\ pc \in {"idle", "down", "up"}
    /\ call \in {"insert", "remove"}
    /\ k \in Nat
    /\ c \in Nat
    /\ pc # "idle" => k < cap /\ c < cap /\ k <= len /\ c <= len
    /\ \A i \in Used : data[i] \in Item

(* No pointer sits in two positions: a message of a topic is handed out    *)
(* once, and freed once.                                                   *)
NoDuplicate == \A i, j \in Used : data[i] = data[j] => i = j

(* Between two calls no item precedes its parent: what heapremove(h, 0)    *)
(* relies on to find the first message at the root.                        *)
HeapOrder == pc = "idle" => \A i \in 1 .. len - 1 : LessAt(Parent(i), i)

(* The edges between a position and its parent that siftdown has not       *)
(* broken: all but the cursor's own and, before the first swap of a        *)
(* removal, those below the hole.                                          *)
DownOrder ==
    pc = "down" =>
      /\ \A i \in 1 .. len - 1 :
            i # c /\ (Parent(i) # c \/ c # k) => LessAt(Parent(i), i)
      /\ \A i \in 1 .. len - 1 :
            Parent(i) = c /\ c > 0 => LessAt(Parent(c), i)
      /\ c = len /\ c > 0 => LessAt(Parent(c), c)
      /\ c = len => call = "remove" /\ k = len
      /\ call = "insert" => k = len - 1

(* In siftup only the edges below the cursor may be broken.                *)
UpOrder ==
    pc = "up" =>
      /\ \A i \in 1 .. len - 1 : Parent(i) # c => LessAt(Parent(i), i)
      /\ \A i \in 1 .. len - 1 :
            Parent(i) = c /\ c > 0 => LessAt(Parent(c), i)

(* The inductive invariant behind HeapOrder.                               *)
HeapInv == TypeOK /\ NoDuplicate /\ HeapOrder /\ DownOrder /\ UpOrder

(* Every call returns: no comparison outcome keeps a sift loop going.      *)
CallsReturn == pc # "idle" ~> pc = "idle"

(* The heap is a priority queue: each call has its whole effect on the set *)
(* of queued items at once, the sift loops change nothing of it, and what  *)
(* is removed at index 0 precedes everything else.                         *)
Queue == INSTANCE PriorityQueue WITH content <- Contents
QueueSpec == Queue!Spec
=============================================================================
