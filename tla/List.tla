-------------------------------- MODULE List --------------------------------
(***************************************************************************)
(* data/list.c: the ring of nodes around a header in which topics,         *)
(* subscribes, pushers, requesters, users and their messages are kept.     *)
(*                                                                         *)
(* The loops over the ring (findNode under getFromList and removeFromList, *)
(* the calls of nextFromList with which a caller walks, freeList) are      *)
(* modelled one node per step, on the pointers themselves.  No caller of   *)
(* the repository changes a list while it walks on it.  checklist returns  *)
(* no value on a sound list; the build (CFLAGS = -g) leaves the header's   *)
(* pointer in its place, which is not 0, and so it is modelled as success. *)
(***************************************************************************)
EXTENDS Integers, SequencesExt, Selection

CONSTANTS Node,    (* addresses that allocMem may hand out for nodes       *)
          Header,  (* the one it hands out for the header                  *)
          Item,    (* what callers insert: pointers to their structures    *)
          NULL     (* the null pointer                                     *)

ASSUME HeaderAssumption == Header \in Node
ASSUME NullAssumption == NULL \notin Node /\ NULL \notin Item

VARIABLES next, prev, data, (* the fields of the nodes                     *)
          live,    (* the nodes that are allocated                         *)
          count,   (* list->count                                          *)
          pc,      (* "gone", "idle", or the call whose loop is running    *)
          ptr,     (* the node its loop is at                              *)
          match,   (* the data its predicate accepts                       *)
          removed, (* local removeNum                                      *)
          seen,    (* history: what a walk has handed to the caller        *)
          order,   (* history: the nodes in the order of their insertion   *)
          ret      (* what the last call did and returned                  *)

vars == <<next, prev, data, live, count, pc, ptr, match, removed, seen, order, ret>>
ring == <<next, prev, data, live, count, order>>
locals == <<pc, ptr, match, removed, seen>>
-----------------------------------------------------------------------------
Data == Item \cup {NULL}
Outcome(op, x) == [op |-> op, val |-> x]

(* A walk without a predicate takes every datum.                           *)
NoPredicate == Data

(* History: the nodes at the positions 0 .. Len(order) + 1 of the ring.    *)
At(i) == IF i \in 1 .. Len(order) THEN order[i] ELSE Header

Without(s, i) ==
    [j \in 1 .. Len(s) - 1 |-> IF j < i THEN s[j] ELSE s[j + 1]]

Gone == /\ pc' = "gone" /\ ptr' = NULL /\ match' = {} /\ removed' = 0
        /\ seen' = <<>>
Idle == /\ pc' = "idle" /\ ptr' = NULL /\ match' = {} /\ removed' = 0
        /\ seen' = <<>>

Init == /\ next = [n \in Node |-> NULL]
        /\ prev = [n \in Node |-> NULL]
        /\ data = [n \in Node |-> NULL]
        /\ live = {} /\ count = 0
        /\ pc = "gone" /\ ptr = NULL /\ match = {} /\ removed = 0
        /\ seen = <<>> /\ order = <<>> /\ ret = Outcome("none", NULL)

(* buildList                                                               *)
Build ==
    /\ pc = "gone"
    /\ live' = {Header}
    /\ next' = [next EXCEPT ![Header] = Header]
    /\ prev' = [prev EXCEPT ![Header] = Header]
    /\ data' = [data EXCEPT ![Header] = NULL]
    /\ count' = 0 /\ order' = <<>>
    /\ Idle
    /\ ret' = Outcome("build", NULL)

(* Faults, here and below, that the properties must notice: an insertion   *)
(* at the front; a loop that does not know where to end; a removal that    *)
(* goes on from the freed node; a walk that skips what follows a hit.      *)
FaultyFront(n, d) ==
    /\ pc = "idle" /\ n \notin live
    /\ live' = live \cup {n}
    /\ prev' = [prev EXCEPT ![next[Header]] = n, ![n] = Header]
    /\ next' = [next EXCEPT ![n] = next[Header], ![Header] = n]
    /\ data' = [data EXCEPT ![n] = d]
    /\ count' = count + 1 /\ order' = <<n>> \o order
    /\ ret' = Outcome("insert", d)
    /\ UNCHANGED locals

(* insertToList and pushToList, with a node n that allocMem hands out:     *)
(* before the header, which is the end of the list.                        *)
Insert(n, d) ==
    /\ pc = "idle" /\ n \notin live
    /\ live' = live \cup {n}
    /\ next' = [next EXCEPT ![prev[Header]] = n, ![n] = Header]
    /\ prev' = [prev EXCEPT ![n] = prev[Header], ![Header] = n]
    /\ data' = [data EXCEPT ![n] = d]
    /\ count' = count + 1 /\ order' = Append(order, n)
    /\ ret' = Outcome("insert", d)
    /\ UNCHANGED locals

(* allocMem fails: LIST_ERROR_MEM_ALLOC_FAILED is 1, as is success.        *)
InsertRefused ==
    /\ pc = "idle"
    /\ ret' = Outcome("refuse", NULL)
    /\ UNCHANGED <<ring, locals>>

(* popFromList                                                             *)
Pop ==
    /\ pc = "idle"
    /\ LET n == next[Header] IN
       \/ /\ count # 0
          /\ next' = [next EXCEPT ![Header] = next[n], ![n] = NULL]
          /\ prev' = [prev EXCEPT ![next[n]] = Header, ![n] = NULL]
          /\ data' = [data EXCEPT ![n] = NULL]
          /\ live' = live \ {n}
          /\ count' = count - 1 /\ order' = Without(order, 1)
          /\ ret' = Outcome("pop", data[n])
       \/ /\ count = 0
          /\ ret' = Outcome("pop", NULL)
          /\ UNCHANGED ring
    /\ UNCHANGED locals

(* getFromList, removeFromList and a caller's walk, up to the first node.  *)
Call(op, P) ==
    /\ pc = "idle"
    /\ pc' = op /\ match' = P
    /\ ptr' = next[Header]
    /\ removed' = 0 /\ seen' = <<>>
    /\ UNCHANGED <<ring, ret>>

(* findNode without a predicate finds nothing: getFromList(list, NULL,     *)
(* NULL), as subscribe.c and request.c call it, is NULL on any list.       *)
GetAny ==
    /\ pc = "idle"
    /\ ret' = Outcome("get", NULL)
    /\ UNCHANGED <<ring, locals>>

FaultyAtEnd == ptr = NULL
AtEnd == ptr = Header

(* The loop of findNode is at a node whose datum the predicate accepts.    *)
Found == ~AtEnd /\ data[ptr] \in match

(* ... at one that it does not accept.                                     *)
Skip ==
    /\ pc \in {"get", "remove", "walk"}
    /\ ~AtEnd /\ ~Found
    /\ ptr' = next[ptr]
    /\ UNCHANGED <<ring, pc, match, removed, seen, ret>>

(* getFromList returns the datum.                                          *)
GetHit ==
    /\ pc = "get" /\ Found
    /\ ret' = Outcome("get", data[ptr])
    /\ Idle /\ UNCHANGED ring

FaultyUnlink ==
    /\ pc = "remove" /\ Found
    /\ next' = [next EXCEPT ![prev[ptr]] = next[ptr], ![ptr] = NULL]
    /\ prev' = [prev EXCEPT ![next[ptr]] = prev[ptr], ![ptr] = NULL]
    /\ data' = [data EXCEPT ![ptr] = NULL]
    /\ live' = live \ {ptr}
    /\ count' = count - 1 /\ removed' = removed + 1
    /\ order' = Without(order, CHOOSE i \in 1 .. Len(order) : order[i] = ptr)
    /\ ptr' = next'[ptr]
    /\ UNCHANGED <<pc, match, seen, ret>>

(* removeFromList takes the node out and frees it, and goes on from its    *)
(* predecessor.  What a freed node holds is not read again.                *)
Unlink ==
    /\ pc = "remove" /\ Found
    /\ next' = [next EXCEPT ![prev[ptr]] = next[ptr], ![ptr] = NULL]
    /\ prev' = [prev EXCEPT ![next[ptr]] = prev[ptr], ![ptr] = NULL]
    /\ data' = [data EXCEPT ![ptr] = NULL]
    /\ live' = live \ {ptr}
    /\ count' = count - 1 /\ removed' = removed + 1
    /\ order' = Without(order, CHOOSE i \in 1 .. Len(order) : order[i] = ptr)
    /\ ptr' = next'[prev[ptr]]
    /\ UNCHANGED <<pc, match, seen, ret>>

FaultyVisit ==
    /\ pc = "walk" /\ Found /\ data[ptr] # NULL
    /\ seen' = Append(seen, data[ptr])
    /\ ptr' = next[next[ptr]]
    /\ UNCHANGED <<ring, pc, match, removed, ret>>

(* nextFromList hands the datum to the caller, who asks for the next one   *)
(* from that node unless it is NULL.                                       *)
Visit ==
    /\ pc = "walk" /\ Found /\ data[ptr] # NULL
    /\ seen' = Append(seen, data[ptr])
    /\ ptr' = next[ptr]
    /\ UNCHANGED <<ring, pc, match, removed, ret>>

VisitNull ==
    /\ pc = "walk" /\ Found /\ data[ptr] = NULL
    /\ Idle /\ UNCHANGED <<ring, ret>>

(* The loop has come round to the header.                                  *)
Exhausted ==
    /\ pc \in {"get", "remove", "walk"} /\ AtEnd
    /\ ret' = CASE pc = "get" -> Outcome("get", NULL)
                [] pc = "remove" -> Outcome("remove", removed)
                [] OTHER -> ret
    /\ Idle /\ UNCHANGED ring

(* freeList breaks the ring at the header ...                              *)
Free ==
    /\ pc = "idle"
    /\ pc' = "free"
    /\ ptr' = next[Header]
    /\ next' = [next EXCEPT ![Header] = NULL]
    /\ ret' = Outcome("free", NULL)
    /\ UNCHANGED <<prev, data, live, count, match, removed, seen, order>>

(* ... frees node after node, the header last, and then the list.          *)
FreeNode ==
    /\ pc = "free" /\ ptr # NULL
    /\ ptr' = next[ptr]
    /\ live' = live \ {ptr}
    /\ next' = [next EXCEPT ![ptr] = NULL]
    /\ prev' = [prev EXCEPT ![ptr] = NULL]
    /\ data' = [data EXCEPT ![ptr] = NULL]
    /\ order' = IF order = <<>> THEN order ELSE Without(order, 1)
    /\ UNCHANGED <<count, pc, match, removed, seen, ret>>

Freed ==
    /\ pc = "free" /\ ptr = NULL
    /\ count' = 0
    /\ Gone /\ UNCHANGED <<next, prev, data, live, order, ret>>

Step == \/ Skip \/ GetHit \/ Unlink \/ Visit \/ VisitNull \/ Exhausted
        \/ FreeNode \/ Freed

Next == \/ Build
        \/ \E n \in Node, d \in Data : Insert(n, d)
        \/ InsertRefused \/ Pop \/ GetAny
        \/ \E op \in {"get", "remove", "walk"}, P \in SUBSET Item : Call(op, P)
        \/ Call("walk", NoPredicate)
        \/ Free
        \/ Step

Spec == Init /\ [][Next]_vars
FairSpec == Spec /\ WF_vars(Step)
-----------------------------------------------------------------------------
(* Every variable has its type.                                            *)
TypeOK ==
    /\ next \in [Node -> Node \cup {NULL}]
    /\ prev \in [Node -> Node \cup {NULL}]
    /\ data \in [Node -> Data]
    /\ live \subseteq Node
    /\ count \in Nat /\ removed \in Nat
    /\ pc \in {"gone", "idle", "get", "remove", "walk", "free"}
    /\ ptr \in Node \cup {NULL}
    /\ match \subseteq Data
    /\ order \in Seq(Node)

(* The nodes in use are those of the list and the header, each once.       *)
Owned ==
    /\ \A i, j \in 1 .. Len(order) : order[i] = order[j] => i = j
    /\ \A i \in 1 .. Len(order) : order[i] # Header
    /\ pc \notin {"gone", "free"} \/ (pc = "free" /\ ptr # NULL) =>
          live = {order[i] : i \in 1 .. Len(order)} \cup {Header}

(* The ring is closed both ways and count counts it, whatever was inserted *)
(* and removed, and also between two removals of one call.                 *)
Ring ==
    pc \notin {"gone", "free"} =>
      /\ count = Len(order)
      /\ \A i \in 0 .. Len(order) :
            /\ next[At(i)] = At(i + 1)
            /\ prev[At(i + 1)] = At(i)

(* While freeList runs the chain ends at the header instead of closing.    *)
Chain ==
    pc = "free" =>
      /\ ptr # NULL =>
           /\ ptr = At(1) /\ next[Header] = NULL
           /\ \A i \in 1 .. Len(order) : next[order[i]] = At(i + 1)
      /\ ptr = NULL => order = <<>>

(* No loop stands on a node that is not allocated, so that none is read or *)
(* freed after it was freed, and a list that is gone has left no node.     *)
NoDangling ==
    /\ pc \in {"get", "remove", "walk"} => ptr \in live
    /\ pc = "free" /\ ptr # NULL => ptr \in live
    /\ pc = "gone" \/ (pc = "free" /\ ptr = NULL) => live = {} /\ order = <<>>

ListInv == TypeOK /\ Owned /\ Ring /\ Chain /\ NoDangling

Items == [i \in 1 .. Len(order) |-> data[order[i]]]

Accepted == Those(Items, match)

(* A walk hands out the accepted items in order, none twice and none left  *)
(* out, as far as it has come; only a NULL in the list keeps it from       *)
(* coming round with all of them.                                          *)
WalkInOrder ==
    pc = "walk" =>
      /\ IsPrefix(seen, Accepted) /\ \A i \in 1 .. Len(seen) : seen[i] # NULL
      /\ ptr = Header => seen = Accepted

(* Every call returns: no list and no predicate keeps a loop going.        *)
CallsReturn == pc \in {"get", "remove", "walk", "free"} ~> pc \in {"idle", "gone"}

(* The list is a sequence: a removal takes its items out where it starts,  *)
(* a release empties it, and no other step of a loop changes anything.     *)
AbstractItems ==
    CASE pc \in {"gone", "free"} -> <<>>
      [] pc = "remove" -> Those(Items, Data \ match)
      [] OTHER -> Items
AbstractRet ==
    IF pc = "remove" THEN Outcome("remove", removed + Len(Accepted)) ELSE ret
Sequence == INSTANCE ItemSequence WITH items <- AbstractItems, ret <- AbstractRet
SequenceSpec == Sequence!Spec
=============================================================================
