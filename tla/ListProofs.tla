----------------------------- MODULE ListProofs -----------------------------
(***************************************************************************)
(* Proofs about List: the ring stays closed, and no loop stands on a freed *)
(* node, for any memory, any data and lists of any length.                 *)
(***************************************************************************)
EXTENDS List, SequenceTheorems, WellFoundedInduction, TLAPS

(* Facts of the positions of the ring, under the inductive invariant.      *)
LEMMA Positions ==
    ASSUME TypeOK
    PROVE  /\ Len(order) \in Nat
           /\ \A i \in 1 .. Len(order) : At(i) = order[i] /\ order[i] \in Node
           /\ At(0) = Header /\ At(Len(order) + 1) = Header
           /\ \A i \in Int : At(i) \in Node
BY HeaderAssumption DEF TypeOK, At

(* With a node fewer, the positions behind it move up.                     *)
LEMMA WithoutShape ==
    ASSUME TypeOK, NEW k \in 1 .. Len(order), order' = Without(order, k)
    PROVE  /\ order' \in Seq(Node)
           /\ Len(order') = Len(order) - 1
           /\ \A j \in 1 .. Len(order') :
                 order'[j] = IF j < k THEN order[j] ELSE order[j + 1]
           /\ \A j \in 0 .. Len(order) :
                 At(j)' = IF j < k THEN At(j) ELSE At(j + 1)
<1>1. \A j \in 1 .. Len(order) - 1 :
         (IF j < k THEN order[j] ELSE order[j + 1]) \in Node
  BY DEF TypeOK
<1>2. /\ order' \in Seq(Node)
      /\ Len(order') = Len(order) - 1
      /\ \A j \in 1 .. Len(order') :
            order'[j] = IF j < k THEN order[j] ELSE order[j + 1]
  BY <1>1 DEF TypeOK, Without
<1>3. \A j \in 0 .. Len(order) : At(j)' = IF j < k THEN At(j) ELSE At(j + 1)
  BY <1>2 DEF At, TypeOK
<1>4. QED
  BY <1>2, <1>3

-----------------------------------------------------------------------------
LEMMA InitInv == Init => ListInv
BY HeaderAssumption DEF Init, ListInv, TypeOK, Owned, Ring, Chain, NoDangling, Data

LEMMA BuildKeeps ==
    ASSUME ListInv, Build
    PROVE  ListInv'
<1> USE HeaderAssumption, NullAssumption DEF ListInv, Build, Idle
<1>1. TypeOK'
  BY DEF TypeOK, Data
<1>2. Owned'
  BY DEF Owned, TypeOK
<1>3. Ring'
  BY DEF Ring, TypeOK, At
<1>4. Chain' /\ NoDangling'
  BY DEF Chain, NoDangling
<1>5. QED
  BY <1>1, <1>2, <1>3, <1>4

(* The new node comes between the last one and the header.                 *)
LEMMA InsertKeeps ==
    ASSUME ListInv, NEW n \in Node, NEW d \in Data, Insert(n, d)
    PROVE  ListInv'
<1> DEFINE L == Len(order)
<1>1. /\ pc = "idle" /\ n \notin live
      /\ TypeOK /\ Owned /\ Ring /\ NoDangling
      /\ pc' = pc /\ ptr' = ptr /\ match' = match /\ removed' = removed
      /\ order' = Append(order, n)
  BY DEF ListInv, Insert, locals
<1>2. /\ L \in Nat
      /\ live = {order[i] : i \in 1 .. L} \cup {Header}
      /\ n # Header /\ \A i \in 1 .. L : order[i] # n
      /\ prev[Header] = At(L) /\ At(L) # n
  BY <1>1, HeaderAssumption DEF TypeOK, Owned, Ring, At
<1>3. /\ order' \in Seq(Node) /\ Len(order') = L + 1
      /\ \A i \in 1 .. L : order'[i] = order[i]
      /\ order'[L + 1] = n
  BY <1>1 DEF TypeOK
<1>4. \A i \in Int : At(i)' = IF i \in 1 .. L THEN At(i)
                            ELSE IF i = L + 1 THEN n ELSE Header
  BY <1>2, <1>3 DEF At
<1>5. TypeOK'
  BY <1>1, <1>2, <1>3, Positions, HeaderAssumption DEF TypeOK, Insert
<1>6. Owned'
  <2>1. live' = {order'[i] : i \in 1 .. Len(order')} \cup {Header}
    BY <1>2, <1>3 DEF Insert
  <2>2. QED
    BY <2>1, <1>1, <1>2, <1>3 DEF Owned
<1>7. Ring'
  <2>1. count' = Len(order')
    BY <1>1, <1>3 DEF Ring, Insert
  <2>2. ASSUME NEW i \in 0 .. L + 1
        PROVE  next'[At(i)'] = At(i + 1)' /\ prev'[At(i + 1)'] = At(i)'
    <3>0. /\ next' = [next EXCEPT ![At(L)] = n, ![n] = Header]
          /\ prev' = [prev EXCEPT ![n] = At(L), ![Header] = n]
          /\ next \in [Node -> Node \cup {NULL}]
          /\ prev \in [Node -> Node \cup {NULL}]
      BY <1>1, <1>2 DEF Insert, TypeOK
    <3>1. CASE i = L + 1
      <4>1. At(i)' = n /\ At(i + 1)' = Header
        BY <3>1, <1>2, <1>4
      <4>2. QED
        BY <4>1, <3>0, <1>2, HeaderAssumption
    <3>2. CASE i = L
      <4>1. At(i)' = At(L) /\ At(i + 1)' = n
        BY <3>2, <1>2, <1>4 DEF At
      <4>2. At(L) \in Node
        BY <1>1, <1>2, Positions
      <4>3. QED
        BY <4>1, <4>2, <3>0, <1>2
    <3>3. CASE i < L
      <4>1. At(i) # At(L) /\ At(i) # n /\ At(i + 1) # Header /\ At(i + 1) # n
        BY <3>3, <1>1, <1>2 DEF At, Owned, TypeOK
      <4>2. next[At(i)] = At(i + 1) /\ prev[At(i + 1)] = At(i)
        BY <3>3, <1>1, <1>2 DEF Ring
      <4>3. At(i)' = At(i) /\ At(i + 1)' = At(i + 1)
        BY <3>3, <1>2, <1>4 DEF At
      <4>4. At(i) \in Node /\ At(i + 1) \in Node
        BY <1>1, Positions
      <4>5. next'[At(i)] = next[At(i)] /\ prev'[At(i + 1)] = prev[At(i + 1)]
        BY <4>1, <4>4, <3>0
      <4>6. QED
        BY <4>2, <4>3, <4>5
    <3>4. QED
      BY <3>1, <3>2, <3>3, <1>2
  <2>3. QED
    BY <2>1, <2>2, <1>2, <1>3 DEF Ring
<1>8. Chain' /\ NoDangling'
  BY <1>1 DEF Chain, NoDangling
<1>9. QED
  BY <1>5, <1>6, <1>7, <1>8 DEF ListInv

(* A node is taken out: what popFromList and removeFromList do to it.      *)
TakenOut(k) ==
    /\ next' = [next EXCEPT ![At(k - 1)] = At(k + 1), ![At(k)] = NULL]
    /\ prev' = [prev EXCEPT ![At(k + 1)] = At(k - 1), ![At(k)] = NULL]
    /\ data' = [data EXCEPT ![At(k)] = NULL]
    /\ live' = live \ {At(k)}
    /\ count' = count - 1
    /\ order' = Without(order, k)

LEMMA Neighbours ==
    ASSUME ListInv, pc \notin {"gone", "free"}, NEW k \in 1 .. Len(order)
    PROVE  /\ At(k) = order[k]
           /\ next[At(k)] = At(k + 1) /\ prev[At(k)] = At(k - 1)
<1>1. Len(order) \in Nat /\ k - 1 \in 0 .. Len(order) /\ (k - 1) + 1 = k
  BY Positions DEF ListInv
<1>2. next[At(k)] = At(k + 1) /\ prev[At((k - 1) + 1)] = At(k - 1)
  BY <1>1 DEF ListInv, Ring
<1>3. QED
  BY <1>1, <1>2 DEF At

LEMMA TakenOutKeeps ==
    ASSUME ListInv, NEW k \in 1 .. Len(order), TakenOut(k),
           pc \notin {"gone", "free"}, pc' = pc
    PROVE  /\ next' \in [Node -> Node \cup {NULL}]
           /\ prev' \in [Node -> Node \cup {NULL}]
           /\ data' \in [Node -> Data] /\ live' \subseteq Node
           /\ count' \in Nat /\ order' \in Seq(Node)
           /\ Owned' /\ Ring'
           /\ At(k)' = At(k + 1)
<1> DEFINE L == Len(order)
<1>1. /\ TypeOK /\ Owned /\ Ring
      /\ L \in Nat /\ k \in 1 .. L
      /\ live = {order[i] : i \in 1 .. L} \cup {Header}
      /\ \A i \in Int : At(i) \in Node
  BY Positions DEF ListInv, Owned
<1>2. /\ order' \in Seq(Node) /\ Len(order') = L - 1
      /\ \A j \in 1 .. L - 1 :
            order'[j] = IF j < k THEN order[j] ELSE order[j + 1]
      /\ \A j \in 0 .. L : At(j)' = IF j < k THEN At(j) ELSE At(j + 1)
  BY <1>1, WithoutShape DEF TakenOut
<1>3. /\ \A i, j \in 0 .. L : At(i) = At(j) => i = j
      /\ At(L + 1) = At(0)
  BY <1>1 DEF Owned, At
<1>4. /\ next' = [next EXCEPT ![At(k - 1)] = At(k + 1), ![At(k)] = NULL]
      /\ prev' = [prev EXCEPT ![At(k + 1)] = At(k - 1), ![At(k)] = NULL]
      /\ next \in [Node -> Node \cup {NULL}]
      /\ prev \in [Node -> Node \cup {NULL}]
  BY <1>1 DEF TakenOut, TypeOK
<1>5. /\ next' \in [Node -> Node \cup {NULL}]
      /\ prev' \in [Node -> Node \cup {NULL}]
  BY <1>1, <1>4
<1>6. data' \in [Node -> Data] /\ live' \subseteq Node
  BY <1>1 DEF TakenOut, TypeOK, Data
<1>7. count' = Len(order') /\ count' \in Nat
  BY <1>1, <1>2 DEF TakenOut, Ring
<1>8. Owned'
  <2>1. \A i, j \in 1 .. Len(order') : order'[i] = order'[j] => i = j
    BY <1>1, <1>2 DEF Owned
  <2>2. \A i \in 1 .. Len(order') : order'[i] # Header
    BY <1>1, <1>2 DEF Owned
  <2>3. live' = {order'[i] : i \in 1 .. Len(order')} \cup {Header}
    <3>1. At(k) = order[k] /\ order[k] # Header
      BY <1>1 DEF At, Owned
    <3>2. live' = {order[i] : i \in (1 .. L) \ {k}} \cup {Header}
      BY <1>1, <3>1 DEF TakenOut, Owned
    <3>3. \A i \in 1 .. L - 1 : \E j \in (1 .. L) \ {k} : order'[i] = order[j]
      <4>1. TAKE i \in 1 .. L - 1
      <4>2. CASE i < k
        BY <4>2, <1>1, <1>2
      <4>3. CASE i >= k
        <5>1. i + 1 \in (1 .. L) \ {k} /\ order'[i] = order[i + 1]
          BY <4>3, <1>1, <1>2
        <5>2. QED
          BY <5>1
      <4>4. QED
        BY <4>2, <4>3, <1>1
    <3>4. \A j \in (1 .. L) \ {k} : \E i \in 1 .. L - 1 : order'[i] = order[j]
      <4>1. TAKE j \in (1 .. L) \ {k}
      <4>2. CASE j < k
        BY <4>2, <1>1, <1>2
      <4>3. CASE j > k
        <5>1. j - 1 \in 1 .. L - 1 /\ order'[j - 1] = order[j]
          BY <4>3, <1>1, <1>2
        <5>2. QED
          BY <5>1
      <4>4. QED
        BY <4>2, <4>3, <1>1
    <3>5. {order[j] : j \in (1 .. L) \ {k}} = {order'[i] : i \in 1 .. L - 1}
      BY <3>3, <3>4
    <3>6. QED
      BY <3>2, <3>5, <1>2
  <2>4. QED
    BY <2>1, <2>2, <2>3 DEF Owned
<1>9. Ring'
  <2>1. ASSUME NEW i \in 0 .. L - 1
        PROVE  next'[At(i)'] = At(i + 1)' /\ prev'[At(i + 1)'] = At(i)'
    <3>1. /\ \A j \in 0 .. L : next[At(j)] = At(j + 1) /\ prev[At(j + 1)] = At(j)
      BY <1>1 DEF Ring, ListInv
    <3>2. CASE i < k - 1
      <4>0. i \in 0 .. L /\ i < k /\ i + 1 \in 0 .. L /\ i + 1 < k
        BY <3>2, <1>1
      <4>1. At(i)' = At(i) /\ At(i + 1)' = At(i + 1)
        BY <4>0, <1>2
      <4>2. /\ At(i) # At(k - 1) /\ At(i) # At(k)
            /\ At(i + 1) # At(k + 1) /\ At(i + 1) # At(k)
        BY <3>2, <1>1, <1>3
      <4>3. At(i) \in Node /\ At(i + 1) \in Node
        BY <1>1
      <4>4. QED
        BY <4>1, <4>2, <4>3, <3>1, <1>4, <1>1
    <3>3. CASE i = k - 1
      <4>1. At(i)' = At(k - 1) /\ At(i + 1)' = At(k + 1)
        BY <3>3, <1>1, <1>2
      <4>2. At(k - 1) # At(k) /\ At(k + 1) # At(k)
        BY <1>1, <1>3
      <4>3. At(k - 1) \in Node /\ At(k + 1) \in Node
        BY <1>1
      <4>4. QED
        BY <4>1, <4>2, <4>3, <1>4
    <3>4. CASE i >= k
      <4>1. At(i)' = At(i + 1) /\ At(i + 1)' = At(i + 2)
        BY <3>4, <1>1, <1>2
      <4>2. /\ At(i + 1) # At(k - 1) /\ At(i + 1) # At(k)
            /\ At(i + 2) # At(k + 1) /\ At(i + 2) # At(k)
        BY <3>4, <1>1, <1>3
      <4>3. At(i + 1) \in Node /\ At(i + 2) \in Node
        BY <1>1
      <4>4. next[At(i + 1)] = At(i + 2) /\ prev[At(i + 2)] = At(i + 1)
        <5>1. i + 1 \in 0 .. L /\ (i + 1) + 1 = i + 2
          BY <1>1
        <5>2. QED
          BY <5>1, <3>1
      <4>5. QED
        BY <4>1, <4>2, <4>3, <4>4, <1>4
    <3>5. QED
      BY <3>2, <3>3, <3>4, <1>1
  <2>2. QED
    BY <2>1, <1>1, <1>2, <1>7 DEF Ring
<1>10. At(k)' = At(k + 1)
  BY <1>1, <1>2
<1>11. QED
  BY <1>2, <1>5, <1>6, <1>7, <1>8, <1>9, <1>10

LEMMA PopKeeps ==
    ASSUME ListInv, Pop
    PROVE  ListInv'
<1> DEFINE n == next[Header]
<1>1. /\ pc = "idle" /\ pc' = pc /\ ptr' = ptr /\ match' = match
      /\ removed' = removed
      /\ TypeOK /\ Ring /\ NoDangling /\ Len(order) \in Nat
      /\ count = Len(order)
  BY Positions DEF Pop, locals, ListInv, Ring
<1>2. CASE count # 0
  <2>1. 1 \in 1 .. Len(order) /\ 0 \in 0 .. Len(order) /\ At(0) = Header
    BY <1>1, <1>2 DEF At
  <2>2. n = At(1) /\ next[n] = At(2) /\ Header = At(1 - 1)
    <3>1. next[At(0)] = At(0 + 1)
      BY <1>1, <2>1 DEF Ring
    <3>2. QED
      BY <1>1, <2>1, <3>1, Neighbours
  <2>3. TakenOut(1)
    BY <1>2, <2>2 DEF Pop, TakenOut
  <2>4. /\ next' \in [Node -> Node \cup {NULL}]
        /\ prev' \in [Node -> Node \cup {NULL}]
        /\ data' \in [Node -> Data] /\ live' \subseteq Node
        /\ count' \in Nat /\ order' \in Seq(Node) /\ Owned' /\ Ring'
    BY <1>1, <2>1, <2>3, TakenOutKeeps
  <2>5. TypeOK' /\ Chain' /\ NoDangling'
    BY <1>1, <2>4 DEF TypeOK, Chain, NoDangling
  <2>6. QED
    BY <2>4, <2>5 DEF ListInv
<1>3. CASE count = 0
  <2>1. /\ next' = next /\ prev' = prev /\ data' = data /\ live' = live
        /\ count' = count /\ order' = order
    BY <1>3 DEF Pop, ring
  <2>2. QED
    BY <1>1, <2>1 DEF ListInv, TypeOK, Owned, Ring, At, Chain, NoDangling
<1>4. QED
  BY <1>2, <1>3

(* A call begins at the first node; the ring stays as it is.               *)
LEMMA CallKeeps ==
    ASSUME ListInv, NEW op \in {"get", "remove", "walk"},
           NEW P \in SUBSET Data, Call(op, P)
    PROVE  ListInv'
<1>1. /\ TypeOK /\ Owned /\ Ring /\ Len(order) \in Nat
      /\ pc = "idle" /\ pc' = op /\ match' = P /\ ptr' = next[Header]
      /\ removed' = 0
      /\ \A i \in Int : At(i) \in Node
  BY Positions DEF ListInv, Call
<1>2. /\ next' = next /\ prev' = prev /\ data' = data /\ live' = live
      /\ count' = count /\ order' = order
  BY DEF Call, ring
<1>3. ptr' = At(1) /\ ptr' \in Node /\ ptr' \in live
  <2>1. 0 \in 0 .. Len(order) /\ At(0) = Header
    BY <1>1 DEF At
  <2>2. next[At(0)] = At(0 + 1)
    BY <1>1, <2>1 DEF Ring
  <2>3. At(1) \in live
    BY <1>1 DEF At, Owned
  <2>4. QED
    BY <1>1, <2>1, <2>2, <2>3
<1>4. TypeOK'
  BY <1>1, <1>2, <1>3 DEF TypeOK
<1>5. Owned' /\ Ring' /\ Chain' /\ NoDangling'
  BY <1>1, <1>2, <1>3 DEF Owned, Ring, At, Chain, NoDangling
<1>6. QED
  BY <1>4, <1>5 DEF ListInv

(* A loop that is not at the header is at a node of the list, and the next *)
(* one is allocated as well.                                               *)
LEMMA AtNode ==
    ASSUME ListInv, pc \in {"get", "remove", "walk"}, ptr # Header
    PROVE  \E k \in 1 .. Len(order) :
              /\ ptr = order[k] /\ ptr = At(k)
              /\ next[ptr] = At(k + 1) /\ prev[ptr] = At(k - 1)
              /\ next[ptr] \in live /\ next[ptr] \in Node
<1>1. /\ TypeOK /\ Owned /\ ptr \in live /\ Len(order) \in Nat
      /\ live = {order[i] : i \in 1 .. Len(order)} \cup {Header}
      /\ \A i \in Int : At(i) \in Node
  BY Positions DEF ListInv, NoDangling, Owned
<1>2. PICK k \in 1 .. Len(order) : ptr = order[k]
  BY <1>1
<1>3. At(k) = ptr /\ next[ptr] = At(k + 1) /\ prev[ptr] = At(k - 1)
  BY <1>1, <1>2, Neighbours
<1>4. At(k + 1) \in live /\ At(k + 1) \in Node
  BY <1>1 DEF At
<1>5. QED
  BY <1>2, <1>3, <1>4

LEMMA LoopKeeps ==
    ASSUME ListInv, Skip \/ GetHit \/ Visit \/ VisitNull \/ Exhausted
    PROVE  ListInv'
<1>1. /\ next' = next /\ prev' = prev /\ data' = data /\ live' = live
      /\ count' = count /\ order' = order
      /\ pc \in {"get", "remove", "walk"}
  BY DEF Skip, GetHit, Visit, VisitNull, Exhausted, ring
<1>2. \/ pc' = pc /\ match' = match /\ removed' = removed /\ ptr' \in live /\ ptr' \in Node
      \/ pc' = "idle" /\ ptr' = NULL /\ match' = {} /\ removed' = 0
  <2>1. CASE Skip \/ Visit
    <3>1. pc' = pc /\ match' = match /\ removed' = removed
          /\ ptr' = next[ptr] /\ ptr # Header
      BY <2>1 DEF Skip, Visit, Found, AtEnd
    <3>2. QED
      BY <1>1, <3>1, AtNode
  <2>2. CASE GetHit \/ VisitNull \/ Exhausted
    BY <2>2 DEF GetHit, VisitNull, Exhausted, Idle
  <2>3. QED
    BY <2>1, <2>2
<1>3. TypeOK'
  BY <1>1, <1>2 DEF ListInv, TypeOK
<1>4. Owned' /\ Ring' /\ Chain' /\ NoDangling'
  BY <1>1, <1>2 DEF ListInv, Owned, Ring, At, Chain, NoDangling
<1>5. QED
  BY <1>3, <1>4 DEF ListInv

(* removeFromList takes out the node its loop is at, and goes on with the  *)
(* one behind it.                                                          *)
LEMMA UnlinkTakes ==
    ASSUME ListInv, Unlink
    PROVE  \E k \in 1 .. Len(order) : /\ ptr = order[k] /\ ptr = At(k)
                                      /\ TakenOut(k) /\ ptr' = At(k + 1)
<1>1. /\ pc = "remove" /\ ptr # Header
      /\ TypeOK /\ Owned /\ Len(order) \in Nat
      /\ \A i \in Int : At(i) \in Node
  BY Positions DEF Unlink, Found, AtEnd, ListInv
<1>2. PICK k \in 1 .. Len(order) :
         /\ ptr = order[k] /\ ptr = At(k)
         /\ next[ptr] = At(k + 1) /\ prev[ptr] = At(k - 1)
  BY <1>1, AtNode
<1>3. (CHOOSE i \in 1 .. Len(order) : order[i] = ptr) = k
  BY <1>1, <1>2 DEF Owned
<1>4. TakenOut(k)
  BY <1>2, <1>3 DEF Unlink, TakenOut
<1>5. ptr' = At(k + 1)
  <2>1. At(k - 1) # At(k)
    BY <1>1 DEF Owned, At
  <2>2. next' = [next EXCEPT ![At(k - 1)] = At(k + 1), ![At(k)] = NULL]
    BY <1>4 DEF TakenOut
  <2>3. next'[At(k - 1)] = At(k + 1)
    BY <2>1, <2>2, <1>1 DEF TypeOK
  <2>4. QED
    BY <1>2, <2>3 DEF Unlink
<1>6. QED
  BY <1>2, <1>4, <1>5

LEMMA UnlinkKeeps ==
    ASSUME ListInv, Unlink
    PROVE  ListInv'
<1>1. /\ pc = "remove" /\ pc' = pc /\ match' = match
      /\ removed' = removed + 1
      /\ TypeOK /\ Owned /\ Len(order) \in Nat
      /\ \A i \in Int : At(i) \in Node
  BY Positions DEF Unlink, ListInv
<1>2. PICK k \in 1 .. Len(order) :
         ptr = order[k] /\ ptr = At(k) /\ TakenOut(k) /\ ptr' = At(k + 1)
  BY UnlinkTakes
<1>3. /\ next' \in [Node -> Node \cup {NULL}]
      /\ prev' \in [Node -> Node \cup {NULL}]
      /\ data' \in [Node -> Data] /\ live' \subseteq Node
      /\ count' \in Nat /\ order' \in Seq(Node) /\ Owned' /\ Ring'
  BY <1>1, <1>2, TakenOutKeeps
<1>4. ptr' \in live' /\ ptr' \in Node
  <2>1. At(k + 1) \in live /\ At(k + 1) # At(k)
    BY <1>1 DEF At, Owned
  <2>2. QED
    BY <1>1, <1>2, <2>1 DEF TakenOut
<1>5. TypeOK' /\ Chain' /\ NoDangling'
  BY <1>1, <1>3, <1>4 DEF TypeOK, Chain, NoDangling
<1>6. QED
  BY <1>3, <1>5 DEF ListInv

(* freeList follows what is left of the chain to the header.               *)
LEMMA FreeKeeps ==
    ASSUME ListInv, Free
    PROVE  ListInv'
<1>1. /\ TypeOK /\ Owned /\ Ring /\ Len(order) \in Nat
      /\ pc = "idle" /\ pc' = "free" /\ ptr' = next[Header]
      /\ next' = [next EXCEPT ![Header] = NULL]
      /\ prev' = prev /\ data' = data /\ live' = live /\ count' = count
      /\ match' = match /\ removed' = removed /\ order' = order
      /\ \A i \in Int : At(i) \in Node
      /\ live = {order[i] : i \in 1 .. Len(order)} \cup {Header}
  BY Positions DEF ListInv, Free, Owned
<1>2. ptr' = At(1) /\ At(1) \in Node /\ At(1) \in live
  <2>1. 0 \in 0 .. Len(order) /\ At(0) = Header
    BY <1>1 DEF At
  <2>2. next[At(0)] = At(0 + 1)
    BY <1>1, <2>1 DEF Ring
  <2>3. QED
    BY <1>1, <2>1, <2>2 DEF At
<1>3. TypeOK'
  BY <1>1, <1>2 DEF TypeOK
<1>4. Owned' /\ Ring' /\ NoDangling'
  BY <1>1, <1>2, NullAssumption DEF Owned, Ring, NoDangling
<1>5. Chain'
  <2>1. \A i \in 1 .. Len(order) : next'[order[i]] = At(i + 1)
    <3>1. TAKE i \in 1 .. Len(order)
    <3>2. order[i] # Header /\ order[i] \in Node /\ At(i) = order[i]
      BY <1>1 DEF Owned, TypeOK, At
    <3>3. next[order[i]] = At(i + 1)
      BY <1>1, <3>2 DEF Ring
    <3>4. QED
      BY <1>1, <3>2, <3>3 DEF TypeOK
  <2>2. next'[Header] = NULL /\ ptr' # NULL
    BY <1>1, <1>2, HeaderAssumption, NullAssumption DEF TypeOK
  <2>3. QED
    BY <1>1, <1>2, <2>1, <2>2 DEF Chain, At
<1>6. QED
  BY <1>3, <1>4, <1>5 DEF ListInv

LEMMA FreeNodeKeeps ==
    ASSUME ListInv, FreeNode
    PROVE  ListInv'
<1> DEFINE L == Len(order)
<1>1. /\ TypeOK /\ Owned /\ Chain /\ NoDangling /\ L \in Nat
      /\ pc = "free" /\ pc' = pc /\ ptr # NULL /\ ptr' = next[ptr]
      /\ live' = live \ {ptr}
      /\ next' = [next EXCEPT ![ptr] = NULL]
      /\ prev' = [prev EXCEPT ![ptr] = NULL]
      /\ data' = [data EXCEPT ![ptr] = NULL]
      /\ count' = count /\ match' = match /\ removed' = removed
      /\ ptr = At(1) /\ next[Header] = NULL
      /\ \A i \in 1 .. L : next[order[i]] = At(i + 1)
      /\ live = {order[i] : i \in 1 .. L} \cup {Header}
      /\ \A i \in Int : At(i) \in Node
  BY Positions DEF ListInv, FreeNode, Chain, Owned
<1>2. CASE L = 0
  <2>1. ptr = Header /\ order' = <<>> /\ order = <<>> /\ live' = {} /\ ptr' = NULL
    BY <1>1, <1>2 DEF At, FreeNode, TypeOK
  <2>2. TypeOK'
    BY <1>1, <2>1 DEF TypeOK, Data
  <2>3. Owned' /\ Ring' /\ Chain' /\ NoDangling'
    BY <1>1, <2>1 DEF Owned, Ring, Chain, NoDangling
  <2>4. QED
    BY <2>2, <2>3 DEF ListInv
<1>3. CASE L # 0
  <2>1. /\ 1 \in 1 .. L /\ order # <<>> /\ ptr = order[1]
        /\ ptr' = At(2) /\ order' = Without(order, 1)
    BY <1>1, <1>3 DEF At, FreeNode
  <2>2. /\ order' \in Seq(Node) /\ Len(order') = L - 1
        /\ \A j \in 1 .. L - 1 : order'[j] = order[j + 1]
        /\ \A j \in 0 .. L : At(j)' = IF j < 1 THEN At(j) ELSE At(j + 1)
    BY <1>1, <2>1, WithoutShape
  <2>3. TypeOK'
    BY <1>1, <2>1, <2>2 DEF TypeOK, Data
  <2>4. \A i, j \in 1 .. L : order[i] = order[j] => i = j
    BY <1>1 DEF Owned
  <2>5. live' = {order'[i] : i \in 1 .. L - 1} \cup {Header}
    <3>1. live' = {order[i] : i \in 2 .. L} \cup {Header}
      BY <1>1, <2>1, <2>4 DEF Owned
    <3>2. \A i \in 2 .. L : i - 1 \in 1 .. L - 1 /\ order'[i - 1] = order[i]
      BY <1>1, <2>2
    <3>3. \A i \in 1 .. L - 1 : i + 1 \in 2 .. L /\ order'[i] = order[i + 1]
      BY <1>1, <2>2
    <3>4. {order[i] : i \in 2 .. L} = {order'[i] : i \in 1 .. L - 1}
      BY <3>2, <3>3
    <3>5. QED
      BY <3>1, <3>4
  <2>6. Owned'
    <3>1. \A i, j \in 1 .. L - 1 : order'[i] = order'[j] => i = j
      BY <1>1, <2>2, <2>4
    <3>2. \A i \in 1 .. L - 1 : order'[i] # Header
      BY <1>1, <2>2 DEF Owned
    <3>3. QED
      BY <2>2, <2>5, <3>1, <3>2 DEF Owned
  <2>7. ptr' \in live' /\ ptr' # NULL
    <3>1. At(2) # At(1) /\ At(2) \in live
      BY <1>1, <2>1, <2>4 DEF At, Owned
    <3>2. QED
      BY <1>1, <2>1, <3>1, NullAssumption
  <2>8. Chain'
    <3>1. ptr' = At(1)'
      BY <1>1, <2>1, <2>2
    <3>2. next'[Header] = NULL
      BY <1>1, <2>1, HeaderAssumption DEF Owned, TypeOK
    <3>3. \A i \in 1 .. L - 1 : next'[order'[i]] = At(i + 1)'
      <4>1. TAKE i \in 1 .. L - 1
      <4>2. /\ i + 1 \in 1 .. L /\ i + 1 \in 0 .. L /\ order'[i] = order[i + 1]
            /\ order[i + 1] # ptr /\ order[i + 1] \in Node
        BY <1>1, <2>1, <2>2, <2>4 DEF TypeOK
      <4>3. At(i + 1)' = At((i + 1) + 1) /\ next[order[i + 1]] = At((i + 1) + 1)
        BY <1>1, <2>2, <4>2
      <4>4. QED
        BY <1>1, <4>2, <4>3 DEF TypeOK
    <3>4. QED
      BY <1>1, <2>2, <2>7, <3>1, <3>2, <3>3 DEF Chain
  <2>9. Ring' /\ NoDangling'
    BY <1>1, <2>7 DEF Ring, NoDangling
  <2>10. QED
    BY <2>3, <2>6, <2>8, <2>9 DEF ListInv
<1>4. QED
  BY <1>2, <1>3

LEMMA FreedKeeps ==
    ASSUME ListInv, Freed
    PROVE  ListInv'
BY DEF Freed, Gone, ListInv, TypeOK, Owned, Ring, At, Chain, NoDangling

-----------------------------------------------------------------------------
(* The inductive invariant is an invariant.                                *)
LEMMA NextKeeps == ListInv /\ [Next]_vars => ListInv'
<1> SUFFICES ASSUME ListInv, [Next]_vars
             PROVE  ListInv'
  OBVIOUS
<1>1. CASE Build
  BY <1>1, BuildKeeps
<1>2. CASE \E n \in Node, d \in Data : Insert(n, d)
  BY <1>2, InsertKeeps
<1>3. CASE InsertRefused \/ GetAny \/ UNCHANGED vars
  BY <1>3 DEF InsertRefused, GetAny, ring, locals, vars,
              ListInv, TypeOK, Owned, Ring, At, Chain, NoDangling
<1>4. CASE Pop
  BY <1>4, PopKeeps
<1>5. CASE \E op \in {"get", "remove", "walk"}, P \in SUBSET Item : Call(op, P)
  BY <1>5, CallKeeps DEF Data
<1>6. CASE Call("walk", NoPredicate)
  BY <1>6, CallKeeps DEF NoPredicate
<1>7. CASE Free
  BY <1>7, FreeKeeps
<1>8. CASE Step
  BY <1>8, LoopKeeps, UnlinkKeeps, FreeNodeKeeps, FreedKeeps DEF Step
<1>9. QED
  BY <1>1, <1>2, <1>3, <1>4, <1>5, <1>6, <1>7, <1>8 DEF Next

(* The ring is closed, its nodes are those allocated, and the count is     *)
(* right, after any sequence of calls.                                     *)
THEOREM ListInvariant == Spec => []ListInv
<1>1. Init => ListInv
  BY InitInv
<1>2. ListInv /\ [Next]_vars => ListInv'
  BY NextKeeps
<1>3. QED
  BY <1>1, <1>2, PTL DEF Spec

(* No call reads or frees a node that was freed before, and freeList       *)
(* leaves no node allocated.                                               *)
THEOREM NothingDangles == Spec => []NoDangling
<1>1. ListInv => NoDangling
  BY DEF ListInv
<1>2. QED
  BY <1>1, ListInvariant, PTL
-----------------------------------------------------------------------------
(* Selections.  Those is defined by recursion: what holds of it is proved  *)
(* by induction, which here speaks of a set instead of a predicate, and    *)
(* rests on the least element of a set of numbers.                         *)
LEMMA Least == ASSUME NEW T, T \subseteq Nat, T # {} PROVE \E x \in T : \A y \in T : x <= y
<1> DEFINE R == {ss \in Nat \X Nat : ss[1] < ss[2]}
<1>1. IsWellFoundedOn(R, Nat)
  BY NatLessThanWellFounded DEF OpToRel
<1>2. \A x, y \in Nat : <<x, y>> \in R <=> x < y
  OBVIOUS
<1> HIDE DEF R
<1>3. PICK x \in T : \A y \in T : ~ (<<y, x>> \in R)
  BY <1>1, WFMin
<1>4. \A y \in T : x <= y
  <2> TAKE y \in T
  <2>1. x \in Nat /\ y \in Nat /\ ~ (y < x)
    BY <1>2, <1>3
  <2> QED
    BY <2>1
<1> QED
  BY <1>4

(* Induction, on a set.                                                    *)
LEMMA Climb ==
    ASSUME NEW n \in Nat, NEW T, 0 \in T, \A i \in 0 .. n - 1 : i \in T => i + 1 \in T
    PROVE  \A i \in 0 .. n : i \in T
<1> SUFFICES ASSUME NEW k \in 0 .. n, k \notin T PROVE FALSE
  OBVIOUS
<1> DEFINE B == {i \in 0 .. n : i \notin T}
<1>1. PICK x \in B : \A y \in B : x <= y
  <2>1. B \subseteq Nat /\ B # {}
    OBVIOUS
  <2> HIDE DEF B
  <2> QED
    BY <2>1, Least
<1>2. x # 0 /\ x - 1 \in 0 .. n - 1 /\ (x - 1) + 1 = x
  OBVIOUS
<1>3. x - 1 \in T
  BY <1>1, <1>2
<1> QED
  BY <1>2, <1>3

Track(f, s, P, k) ==
    /\ DOMAIN f = 0 .. k /\ f[0] = <<>>
    /\ \A i \in 1 .. k : f[i] = IF s[i] \in P THEN Append(f[i - 1], s[i]) ELSE f[i - 1]

LEMMA TrackExists ==
    ASSUME NEW S, NEW s \in Seq(S), NEW P
    PROVE  \E f : f \in [0 .. Len(s) -> Seq(S)] /\ Track(f, s, P, Len(s))
<1> DEFINE n == Len(s)
           T == {k \in 0 .. n : \E f : f \in [0 .. k -> Seq(S)] /\ Track(f, s, P, k)}
<1>0. n \in Nat
  OBVIOUS
<1>1. 0 \in T
  <2> DEFINE f == [i \in 0 .. 0 |-> <<>>]
  <2>1. f \in [0 .. 0 -> Seq(S)] /\ Track(f, s, P, 0)
    BY DEF Track
  <2> QED
    BY <1>0, <2>1
<1>2. ASSUME NEW k \in 0 .. n - 1, k \in T PROVE k + 1 \in T
  <2>1. PICK f : f \in [0 .. k -> Seq(S)] /\ Track(f, s, P, k)
    BY <1>2
  <2>2. PICK x : x = IF s[k + 1] \in P THEN Append(f[k], s[k + 1]) ELSE f[k]
    OBVIOUS
  <2>3. x \in Seq(S)
    <3>1. s[k + 1] \in S /\ f[k] \in Seq(S)
      BY <1>0, <2>1
    <3> QED
      BY <2>2, <3>1
  <2>4. PICK g : g = [i \in 0 .. k + 1 |-> IF i <= k THEN f[i] ELSE x]
    OBVIOUS
  <2>5. g \in [0 .. k + 1 -> Seq(S)]
    BY <2>1, <2>3, <2>4
  <2>6. (\A i \in 0 .. k : g[i] = f[i]) /\ g[k + 1] = x
    BY <2>4
  <2>7. ASSUME NEW i \in 1 .. k + 1
        PROVE  g[i] = IF s[i] \in P THEN Append(g[i - 1], s[i]) ELSE g[i - 1]
    <3>1. CASE i = k + 1
      BY <2>2, <2>6, <3>1
    <3>2. CASE i # k + 1
      <4>1. i \in 1 .. k /\ i \in 0 .. k /\ i - 1 \in 0 .. k
        BY <3>2
      <4>2. f[i] = IF s[i] \in P THEN Append(f[i - 1], s[i]) ELSE f[i - 1]
        BY <2>1, <4>1 DEF Track
      <4> QED
        BY <2>6, <4>1, <4>2
    <3> QED
      BY <3>1, <3>2
  <2>8. Track(g, s, P, k + 1)
    BY <2>1, <2>5, <2>6, <2>7 DEF Track
  <2> QED
    BY <1>0, <2>5, <2>8
<1> HIDE DEF T
<1>3. \A i \in 0 .. n : i \in T
  BY <1>0, <1>1, <1>2, Climb
<1> QED
  BY <1>0, <1>3 DEF T

LEMMA TrackUnique ==
    ASSUME NEW s, NEW P, NEW k \in Nat, NEW f, NEW g, Track(f, s, P, k), Track(g, s, P, k)
    PROVE  \A i \in 0 .. k : f[i] = g[i]
<1> DEFINE T == {i \in 0 .. k : f[i] = g[i]}
<1>1. 0 \in T
  BY DEF Track
<1>2. ASSUME NEW i \in 0 .. k - 1, i \in T PROVE i + 1 \in T
  <2>1. i + 1 \in 1 .. k /\ (i + 1) - 1 = i
    OBVIOUS
  <2>2. f[i + 1] = g[i + 1]
    BY <1>2, <2>1 DEF Track
  <2> QED
    BY <2>2
<1> HIDE DEF T
<1>3. \A i \in 0 .. k : i \in T
  BY <1>1, <1>2, Climb
<1> QED
  BY <1>3 DEF T

LEMMA ThoseIs ==
    ASSUME NEW S, NEW s \in Seq(S), NEW P, NEW g, Track(g, s, P, Len(s))
    PROVE  Those(s, P) = g[Len(s)]
<1> DEFINE Is(f) == f = [i \in 0 .. Len(s) |-> IF i = 0 THEN <<>>
                           ELSE IF s[i] \in P THEN Append(f[i - 1], s[i]) ELSE f[i - 1]]
           step(f, i) == IF s[i] \in P THEN Append(f[i - 1], s[i]) ELSE f[i - 1]
<1>1. Len(s) \in Nat
  OBVIOUS
<1>2. PICK e : Track(e, s, P, Len(s)) /\ e \in [0 .. Len(s) -> Seq(S)]
  BY TrackExists
<1>3. Is(e)
  <2>1. \A i \in 0 .. Len(s) : e[i] = IF i = 0 THEN <<>> ELSE step(e, i)
    <3> TAKE i \in 0 .. Len(s)
    <3>1. CASE i = 0
      BY <1>2, <3>1 DEF Track
    <3>2. CASE i # 0
      <4>1. i \in 1 .. Len(s)
        BY <1>1, <3>2
      <4> QED
        BY <1>2, <3>2, <4>1 DEF Track
    <3> QED
      BY <3>1, <3>2
  <2>2. e = [i \in 0 .. Len(s) |-> e[i]]
    BY <1>2
  <2>3. [i \in 0 .. Len(s) |-> e[i]]
           = [i \in 0 .. Len(s) |-> IF i = 0 THEN <<>> ELSE step(e, i)]
    BY <2>1
  <2> QED
    BY <2>2, <2>3
<1>4. PICK h : h = CHOOSE f : Is(f)
  OBVIOUS
<1>5. Is(h)
  BY <1>3, <1>4
<1>6. Those(s, P) = h[Len(s)]
  BY <1>4 DEF Those
<1>7. Track(h, s, P, Len(s))
  <2>1. DOMAIN h = 0 .. Len(s) /\ h[0] = <<>>
    BY <1>1, <1>5
  <2>2. \A i \in 1 .. Len(s) : h[i] = step(h, i)
    <3> TAKE i \in 1 .. Len(s)
    <3>1. i \in 0 .. Len(s) /\ i # 0
      BY <1>1
    <3> QED
      BY <1>5, <3>1
  <2> QED
    BY <2>1, <2>2 DEF Track
<1>8. h[Len(s)] = g[Len(s)]
  <2>1. \A i \in 0 .. Len(s) : h[i] = g[i]
    BY <1>1, <1>7, TrackUnique
  <2> QED
    BY <1>1, <2>1
<1> QED
  BY <1>6, <1>8

LEMMA ThoseType ==
    ASSUME NEW S, NEW s \in Seq(S), NEW P
    PROVE  Those(s, P) \in Seq(S) /\ Those(<<>>, P) = <<>>
<1>1. PICK g : Track(g, s, P, Len(s)) /\ g \in [0 .. Len(s) -> Seq(S)]
  BY TrackExists
<1>2. Those(s, P) = g[Len(s)]
  BY <1>1, ThoseIs
<1>3. PICK e : Track(e, <<>>, P, 0)
  <2> DEFINE e == [i \in 0 .. 0 |-> <<>>]
  <2>1. Track(e, <<>>, P, 0)
    BY DEF Track
  <2> QED
    BY <2>1
<1>4. Those(<<>>, P) = <<>>
  <2>1. <<>> \in Seq(S) /\ Len(<<>>) = 0
    OBVIOUS
  <2>2. Those(<<>>, P) = e[0]
    BY <1>3, <2>1, ThoseIs
  <2> QED
    BY <1>3, <2>2 DEF Track
<1> QED
  BY <1>1, <1>2, <1>4

LEMMA ThoseAppend ==
    ASSUME NEW S, NEW s \in Seq(S), NEW x \in S, NEW P
    PROVE  Those(Append(s, x), P) = IF x \in P THEN Append(Those(s, P), x) ELSE Those(s, P)
<1> DEFINE n == Len(s)
           t == Append(s, x)
<1>1. /\ n \in Nat /\ t \in Seq(S) /\ Len(t) = n + 1 /\ t[n + 1] = x
      /\ \A i \in 1 .. n : t[i] = s[i]
  OBVIOUS
<1> HIDE DEF t
<1>2. PICK g : Track(g, t, P, n + 1)
  <2>1. PICK g : Track(g, t, P, Len(t))
    BY <1>1, TrackExists
  <2> QED
    BY <1>1, <2>1
<1>3. PICK f : f = [i \in 0 .. n |-> g[i]]
  OBVIOUS
<1>4. Track(f, s, P, n)
  <2>1. ASSUME NEW i \in 1 .. n
        PROVE  f[i] = IF s[i] \in P THEN Append(f[i - 1], s[i]) ELSE f[i - 1]
    <3>1. i \in 1 .. n + 1 /\ i \in 0 .. n /\ i - 1 \in 0 .. n
      BY <1>1
    <3>2. g[i] = IF t[i] \in P THEN Append(g[i - 1], t[i]) ELSE g[i - 1]
      BY <1>2, <3>1 DEF Track
    <3> QED
      BY <1>1, <1>3, <3>1, <3>2
  <2>2. f[0] = <<>> /\ DOMAIN f = 0 .. n
    BY <1>1, <1>2, <1>3 DEF Track
  <2> QED
    BY <2>1, <2>2 DEF Track
<1>5. Those(s, P) = g[n]
  <2>1. Those(s, P) = f[n]
    BY <1>4, ThoseIs
  <2> QED
    BY <1>1, <1>3, <2>1
<1>6. Those(t, P) = g[n + 1]
  BY <1>1, <1>2, ThoseIs
<1>7. g[n + 1] = IF x \in P THEN Append(g[n], x) ELSE g[n]
  <2>1. n + 1 \in 1 .. n + 1 /\ (n + 1) - 1 = n
    BY <1>1
  <2> QED
    BY <1>1, <1>2, <2>1 DEF Track
<1> QED
  BY <1>5, <1>6, <1>7 DEF t

(* Induction over the length of a sequence.                                *)
LEMMA Grow ==
    ASSUME NEW S, NEW T, <<>> \in T,
           \A s \in Seq(S), x \in S : s \in T => Append(s, x) \in T
    PROVE  \A s \in Seq(S) : s \in T
<1> SUFFICES ASSUME NEW s \in Seq(S) PROVE s \in T
  OBVIOUS
<1> DEFINE n == Len(s)
           U == {i \in 0 .. n : SubSeq(s, 1, i) \in T}
<1>0. n \in Nat /\ SubSeq(s, 1, n) = s /\ \A i \in 1 .. n : s[i] \in S
  OBVIOUS
<1>1. 0 \in U
  <2>1. SubSeq(s, 1, 0) = <<>>
    OBVIOUS
  <2>2. SubSeq(s, 1, 0) \in T
    BY <2>1, Zenon
  <2>3. 0 \in 0 .. n
    BY <1>0
  <2> QED
    BY ONLY <2>2, <2>3, Zenon
<1>2. ASSUME NEW i \in 0 .. n - 1, i \in U PROVE i + 1 \in U
  <2>1. PICK r : r = SubSeq(s, 1, i)
    OBVIOUS
  <2>2. /\ r \in Seq(S) /\ i + 1 \in 1 .. n /\ s[i + 1] \in S
        /\ SubSeq(s, 1, i + 1) = Append(r, s[i + 1])
    BY <2>1
  <2>3. Append(r, s[i + 1]) \in T
    BY <1>2, <2>1, <2>2
  <2>4. SubSeq(s, 1, i + 1) \in T
    BY <2>2, <2>3, Zenon
  <2>5. i + 1 \in 0 .. n
    BY <1>0
  <2> QED
    BY ONLY <2>4, <2>5, Zenon
<1> HIDE DEF U
<1>3. \A i \in 0 .. n : i \in U
  BY <1>0, <1>1, <1>2, Climb
<1>4. n \in U
  BY <1>0, <1>3
<1> QED
  BY <1>0, <1>4 DEF U

LEMMA Pieces ==
    ASSUME NEW S, NEW a \in Seq(S), NEW b \in Seq(S), NEW x \in S
    PROVE  /\ a \o b \in Seq(S) /\ Append(b, x) \in Seq(S) /\ a \o <<>> = a
           /\ a \o Append(b, x) = Append(a \o b, x)
           /\ Len(Append(b, x)) = Len(b) + 1 /\ Len(b) \in Nat
           /\ Len(a \o b) = Len(a) + Len(b)
OBVIOUS

LEMMA ThoseConcat ==
    ASSUME NEW S, NEW a \in Seq(S), NEW P
    PROVE  \A b \in Seq(S) : Those(a \o b, P) = Those(a, P) \o Those(b, P)
<1> DEFINE T == {b \in Seq(S) : Those(a \o b, P) = Those(a, P) \o Those(b, P)}
<1>1. <<>> \in T
  <2>1. <<>> \in Seq(S) /\ a \o <<>> = a
    OBVIOUS
  <2>2. Those(a, P) \in Seq(S) /\ Those(<<>>, P) = <<>>
    BY ThoseType
  <2>3. Those(a, P) \o <<>> = Those(a, P)
    BY <2>2
  <2>4. Those(a \o <<>>, P) = Those(a, P) \o Those(<<>>, P)
    BY <2>1, <2>2, <2>3
  <2> QED
    BY <2>1, <2>4, Zenon
<1>2. ASSUME NEW b \in Seq(S), NEW x \in S, b \in T PROVE Append(b, x) \in T
  <2>1. PICK u, v : u = Those(a, P) /\ v = Those(b, P)
    OBVIOUS
  <2>2. PICK c, e : c = a \o b /\ e = Append(b, x)
    OBVIOUS
  <2>3. u \in Seq(S) /\ v \in Seq(S) /\ c \in Seq(S) /\ e \in Seq(S) /\ a \o e = Append(c, x)
    BY <2>1, <2>2, ThoseType, Pieces
  <2>4. Those(c, P) = u \o v
    BY <1>2, <2>1, <2>2
  <2>5. Those(Append(c, x), P) = IF x \in P THEN Append(Those(c, P), x) ELSE Those(c, P)
    BY <2>3, ThoseAppend
  <2>6. Those(e, P) = IF x \in P THEN Append(v, x) ELSE v
    BY <2>1, <2>2, ThoseAppend
  <2>7. u \o Append(v, x) = Append(u \o v, x)
    BY <2>3, Pieces
  <2>8. Those(a \o e, P) = u \o Those(e, P)
    BY <2>3, <2>4, <2>5, <2>6, <2>7
  <2> QED
    BY <2>1, <2>2, <2>3, <2>8
<1> HIDE DEF T
<1>3. \A b \in Seq(S) : b \in T
  BY <1>1, <1>2, Grow
<1> QED
  BY <1>3 DEF T

(* The same, for any two sequences.                                        *)
LEMMA ThoseJoin ==
    \A S, P : \A a, b \in Seq(S) : Those(a \o b, P) = Those(a, P) \o Those(b, P)
BY ThoseConcat

LEMMA ThoseOne ==
    ASSUME NEW S, NEW x \in S, NEW P
    PROVE  Those(<<x>>, P) = IF x \in P THEN <<x>> ELSE <<>>
<1>1. <<>> \in Seq(S) /\ Append(<<>>, x) = <<x>>
  OBVIOUS
<1>2. Those(<<>>, P) = <<>>
  BY <1>1, ThoseType
<1>3. PICK e : e = Those(<<>>, P)
  OBVIOUS
<1>4. Those(Append(<<>>, x), P) = IF x \in P THEN Append(e, x) ELSE e
  BY <1>1, <1>3, ThoseAppend
<1> QED
  BY <1>1, <1>2, <1>3, <1>4

(* What one selection leaves out the other takes.                          *)
LEMMA ThoseLen ==
    ASSUME NEW S, NEW P
    PROVE  \A s \in Seq(S) : Len(s) = Len(Those(s, P)) + Len(Those(s, S \ P))
<1> DEFINE T == {s \in Seq(S) : Len(s) = Len(Those(s, P)) + Len(Those(s, S \ P))}
<1>1. <<>> \in T
  <2>1. <<>> \in Seq(S) /\ Len(<<>>) = 0
    OBVIOUS
  <2>2. Those(<<>>, P) = <<>> /\ Those(<<>>, S \ P) = <<>>
    BY <2>1, ThoseType
  <2>3. Len(<<>>) = Len(Those(<<>>, P)) + Len(Those(<<>>, S \ P))
    BY <2>1, <2>2
  <2> QED
    BY <2>1, <2>3, Zenon
<1>2. ASSUME NEW s \in Seq(S), NEW x \in S, s \in T PROVE Append(s, x) \in T
  <2>1. PICK u, v, t : u = Those(s, P) /\ v = Those(s, S \ P) /\ t = Append(s, x)
    OBVIOUS
  <2>2. /\ u \in Seq(S) /\ v \in Seq(S) /\ t \in Seq(S) /\ Len(t) = Len(s) + 1
        /\ Len(s) = Len(u) + Len(v) /\ Len(Append(u, x)) = Len(u) + 1
        /\ Len(Append(v, x)) = Len(v) + 1 /\ Len(u) \in Nat /\ Len(v) \in Nat
    <3>1. u \in Seq(S) /\ v \in Seq(S)
      BY <2>1, ThoseType
    <3>2. Len(s) = Len(u) + Len(v)
      BY <1>2, <2>1
    <3> QED
      BY <2>1, <3>1, <3>2, Pieces
  <2>3. Those(t, P) = IF x \in P THEN Append(u, x) ELSE u
    BY <2>1, ThoseAppend
  <2>4. Those(t, S \ P) = IF x \in S \ P THEN Append(v, x) ELSE v
    BY <2>1, ThoseAppend
  <2>5. Len(t) = Len(Those(t, P)) + Len(Those(t, S \ P))
    BY <2>2, <2>3, <2>4
  <2> QED
    BY <2>1, <2>2, <2>5
<1> HIDE DEF T
<1>3. \A s \in Seq(S) : s \in T
  BY <1>1, <1>2, Grow
<1> QED
  BY <1>3 DEF T

(* When all of a sequence is accepted, or nothing.                         *)
LEMMA ThoseEnds ==
    ASSUME NEW S, NEW P
    PROVE  \A s \in Seq(S) : /\ (\A i \in 1 .. Len(s) : s[i] \notin P) => Those(s, P) = <<>>
                             /\ (\A i \in 1 .. Len(s) : s[i] \in P) => Those(s, P) = s
<1> DEFINE none(s) == \A i \in 1 .. Len(s) : s[i] \notin P
           all(s) == \A i \in 1 .. Len(s) : s[i] \in P
           T == {s \in Seq(S) : /\ none(s) => Those(s, P) = <<>>
                                /\ all(s) => Those(s, P) = s}
<1>1. <<>> \in T
  <2>1. <<>> \in Seq(S)
    OBVIOUS
  <2>2. Those(<<>>, P) = <<>>
    BY <2>1, ThoseType
  <2> QED
    BY <2>1, <2>2
<1>2. ASSUME NEW s \in Seq(S), NEW x \in S, s \in T PROVE Append(s, x) \in T
  <2>1. PICK t : t = Append(s, x)
    OBVIOUS
  <2>2. /\ t \in Seq(S) /\ Len(t) = Len(s) + 1 /\ t[Len(s) + 1] = x /\ Len(s) \in Nat
        /\ \A i \in 1 .. Len(s) : t[i] = s[i]
    BY <2>1
  <2>3. Those(t, P) = IF x \in P THEN Append(Those(s, P), x) ELSE Those(s, P)
    BY <2>1, ThoseAppend
  <2>4. none(t) => none(s) /\ x \notin P
    BY <2>2
  <2>5. all(t) => all(s) /\ x \in P
    BY <2>2
  <2>6. (none(t) => Those(t, P) = <<>>) /\ (all(t) => Those(t, P) = t)
    <3>1. (none(s) => Those(s, P) = <<>>) /\ (all(s) => Those(s, P) = s)
      BY <1>2
    <3> HIDE DEF none, all
    <3> QED
      BY <2>1, <2>3, <2>4, <2>5, <3>1
  <2> QED
    BY <2>1, <2>2, <2>6
<1> HIDE DEF T
<1>3. \A s \in Seq(S) : s \in T
  BY <1>1, <1>2, Grow
<1> QED
  BY <1>3 DEF T
-----------------------------------------------------------------------------
(* The items of the list, and what the steps of the ring do to them.       *)
LEMMA ItemsType ==
    ASSUME TypeOK
    PROVE  /\ Items \in Seq(Data) /\ Len(Items) = Len(order) /\ Len(order) \in Nat
           /\ \A i \in 1 .. Len(order) : Items[i] = data[order[i]]
<1>1. Len(order) \in Nat /\ \A i \in 1 .. Len(order) : data[order[i]] \in Data
  BY DEF TypeOK
<1>2. PICK f : f = [i \in 1 .. Len(order) |-> data[order[i]]]
  OBVIOUS
<1>3. f \in Seq(Data) /\ Len(f) = Len(order)
  BY <1>1, <1>2
<1>4. Items = f
  BY <1>2 DEF Items
<1> QED
  BY <1>1, <1>2, <1>3, <1>4

LEMMA ItemsStay ==
    ASSUME order' = order, data' = data
    PROVE  Items' = Items /\ \A i \in Int : At(i)' = At(i)
BY DEF Items, At

(* A sequence around one of its elements.                                  *)
LEMMA Around ==
    ASSUME NEW S, NEW s \in Seq(S), NEW k \in 1 .. Len(s)
    PROVE  /\ SubSeq(s, 1, k - 1) \in Seq(S) /\ SubSeq(s, k + 1, Len(s)) \in Seq(S)
           /\ SubSeq(s, 1, k) = Append(SubSeq(s, 1, k - 1), s[k]) /\ s[k] \in S
           /\ SubSeq(s, 1, k) \o SubSeq(s, k + 1, Len(s)) = s
           /\ SubSeq(s, 1, k) = SubSeq(s, 1, k - 1) \o <<s[k]>>
           /\ Len(SubSeq(s, 1, k - 1)) = k - 1
OBVIOUS

(* ... and without it.                                                     *)
LEMMA Cut ==
    ASSUME NEW S, NEW s \in Seq(S), NEW k \in 1 .. Len(s), NEW t \in Seq(S),
           Len(t) = Len(s) - 1,
           \A i \in 1 .. Len(s) - 1 : t[i] = IF i < k THEN s[i] ELSE s[i + 1]
    PROVE  /\ t = SubSeq(s, 1, k - 1) \o SubSeq(s, k + 1, Len(s))
           /\ SubSeq(t, 1, k - 1) = SubSeq(s, 1, k - 1)
<1>1. PICK a : a = SubSeq(s, 1, k - 1)
  OBVIOUS
<1>2. PICK b : b = SubSeq(s, k + 1, Len(s))
  OBVIOUS
<1>3. /\ a \in Seq(S) /\ Len(a) = k - 1 /\ \A i \in 1 .. k - 1 : a[i] = s[i]
  BY <1>1
<1>4. b \in Seq(S) /\ Len(b) = Len(s) - k /\ \A i \in 1 .. Len(s) - k : b[i] = s[i + k]
  BY <1>2
<1>5. PICK u : u = a \o b
  OBVIOUS
<1>6. /\ u \in Seq(S) /\ Len(u) = Len(s) - 1
      /\ \A i \in 1 .. Len(s) - 1 : u[i] = IF i <= k - 1 THEN a[i] ELSE b[i - (k - 1)]
  <2>1. /\ u \in Seq(S) /\ Len(u) = Len(a) + Len(b)
        /\ \A i \in 1 .. Len(a) + Len(b) : u[i] = IF i <= Len(a) THEN a[i] ELSE b[i - Len(a)]
    BY ONLY <1>3, <1>4, <1>5, ConcatProperties
  <2>2. Len(s) \in Nat /\ (k - 1) + (Len(s) - k) = Len(s) - 1
    OBVIOUS
  <2>3. Len(a) = k - 1 /\ Len(a) + Len(b) = Len(s) - 1
    BY ONLY <1>3, <1>4, <2>2
  <2> QED
    BY ONLY <2>1, <2>3
<1>7. \A i \in 1 .. Len(s) - 1 : u[i] = IF i < k THEN s[i] ELSE s[i + 1]
  <2> TAKE i \in 1 .. Len(s) - 1
  <2>1. u[i] = IF i <= k - 1 THEN a[i] ELSE b[i - (k - 1)]
    BY <1>6
  <2>2. CASE i < k
    <3>1. i \in 1 .. k - 1 /\ i <= k - 1
      BY <2>2
    <3> QED
      BY <1>3, <2>1, <2>2, <3>1
  <2>3. CASE ~ (i < k)
    <3>1. /\ i - (k - 1) \in 1 .. Len(s) - k /\ (i - (k - 1)) + k = i + 1
          /\ ~ (i <= k - 1)
      BY <2>3
    <3> QED
      BY <1>4, <2>1, <2>3, <3>1
  <2> QED
    BY <2>2, <2>3
<1>8. t = u
  BY <1>6, <1>7, SeqEqual
<1>9. PICK v : v = SubSeq(t, 1, k - 1)
  OBVIOUS
<1>10. v \in Seq(S) /\ Len(v) = k - 1 /\ \A i \in 1 .. k - 1 : v[i] = t[i]
  BY <1>9
<1>11. v = a
  <2>1. ASSUME NEW i \in 1 .. k - 1
        PROVE  v[i] = a[i]
    <3>1. i \in 1 .. Len(s) - 1 /\ i < k
      OBVIOUS
    <3>2. t[i] = s[i]
      BY <3>1
    <3> QED
      BY <1>3, <1>10, <3>2
  <2>2. v \in Seq(S) /\ a \in Seq(S) /\ Len(v) = Len(a) /\ \A i \in 1 .. Len(v) : v[i] = a[i]
    BY <1>3, <1>10, <2>1
  <2> QED
    BY ONLY <2>2, SeqEqual
<1> QED
  BY <1>1, <1>2, <1>5, <1>8, <1>9, <1>11

LEMMA ItemsGrow ==
    ASSUME TypeOK, NEW n \in Node, NEW d \in Data, n \notin {order[i] : i \in 1 .. Len(order)},
           order' = Append(order, n), data' = [data EXCEPT ![n] = d]
    PROVE  Items' = Append(Items, d)
<1> DEFINE L == Len(order)
<1>1. PICK s : s = Items
  OBVIOUS
<1>2. /\ s \in Seq(Data) /\ Len(s) = L /\ L \in Nat
      /\ \A i \in 1 .. L : s[i] = data[order[i]]
  BY <1>1, ItemsType
<1>3. /\ Len(order') = L + 1 /\ order'[L + 1] = n
      /\ \A i \in 1 .. L : order'[i] = order[i] /\ order[i] \in Node /\ order[i] # n
  BY DEF TypeOK
<1>4. data'[n] = d /\ \A i \in 1 .. L : data'[order[i]] = s[i]
  BY <1>2, <1>3 DEF TypeOK
<1>5. PICK t : t = Items'
  OBVIOUS
<1>6. PICK u : u = Append(s, d)
  OBVIOUS
<1>7. t = [i \in 1 .. L + 1 |-> data'[order'[i]]]
  BY <1>3, <1>5 DEF Items
<1>8. /\ u \in Seq(Data) /\ Len(u) = L + 1 /\ u[L + 1] = d
      /\ \A i \in 1 .. L : u[i] = s[i]
  BY <1>2, <1>6
<1>9. t \in Seq(Data) /\ Len(t) = L + 1 /\ \A i \in 1 .. L + 1 : t[i] = u[i]
  <2>1. \A i \in 1 .. L + 1 : data'[order'[i]] = u[i] /\ u[i] \in Data
    BY <1>2, <1>3, <1>4, <1>8
  <2> QED
    BY <1>2, <1>7, <2>1
<1>10. t = u
  BY <1>8, <1>9, SeqEqual
<1> QED
  BY <1>1, <1>5, <1>6, <1>10

LEMMA ItemsShrink ==
    ASSUME ListInv, NEW k \in 1 .. Len(order), order' = Without(order, k),
           data' = [data EXCEPT ![At(k)] = NULL]
    PROVE  /\ Len(Items') = Len(order) - 1
           /\ Items' = SubSeq(Items, 1, k - 1) \o SubSeq(Items, k + 1, Len(Items))
           /\ \A i \in 1 .. k - 1 : Items'[i] = Items[i]
           /\ SubSeq(Items', 1, k - 1) = SubSeq(Items, 1, k - 1)
<1> DEFINE L == Len(order)
<1>1. PICK s, t : s = Items /\ t = Items'
  OBVIOUS
<1>2. /\ s \in Seq(Data) /\ Len(s) = L /\ L \in Nat
      /\ \A i \in 1 .. L : s[i] = data[order[i]]
  BY <1>1, ItemsType DEF ListInv
<1>3. /\ Len(order') = L - 1
      /\ \A j \in 1 .. L - 1 : order'[j] = IF j < k THEN order[j] ELSE order[j + 1]
  BY WithoutShape DEF ListInv
<1>4. \A i \in 1 .. L : order[i] \in Node /\ (i # k => order[i] # At(k))
  BY <1>2 DEF ListInv, TypeOK, Owned, At
<1>5. \A i \in 1 .. L : i # k => data'[order[i]] = s[i]
  BY <1>2, <1>4 DEF ListInv, TypeOK
<1>6. t = [i \in 1 .. L - 1 |-> data'[order'[i]]]
  BY <1>1, <1>3 DEF Items
<1>7. \A i \in 1 .. L - 1 : data'[order'[i]] = IF i < k THEN s[i] ELSE s[i + 1]
  BY <1>2, <1>3, <1>5
<1>8. t = [i \in 1 .. L - 1 |-> IF i < k THEN s[i] ELSE s[i + 1]]
  BY <1>6, <1>7
<1>9. /\ t \in Seq(Data) /\ Len(t) = L - 1
      /\ \A i \in 1 .. L - 1 : t[i] = IF i < k THEN s[i] ELSE s[i + 1]
  <2>1. \A i \in 1 .. L - 1 : (IF i < k THEN s[i] ELSE s[i + 1]) \in Data
    BY <1>2
  <2> QED
    BY <1>2, <1>8, <2>1
<1>10. /\ t = SubSeq(s, 1, k - 1) \o SubSeq(s, k + 1, Len(s))
       /\ SubSeq(t, 1, k - 1) = SubSeq(s, 1, k - 1)
  <2>1. /\ k \in 1 .. Len(s) /\ Len(t) = Len(s) - 1
        /\ \A i \in 1 .. Len(s) - 1 : t[i] = IF i < k THEN s[i] ELSE s[i + 1]
    BY <1>2, <1>9
  <2> HIDE DEF L
  <2> QED
    BY ONLY <1>2, <1>9, <2>1, Cut
<1>11. \A i \in 1 .. k - 1 : t[i] = s[i]
  BY <1>2, <1>9
<1> QED
  BY <1>1, <1>9, <1>10, <1>11
-----------------------------------------------------------------------------
(* A loop has passed the nodes before the one it is at: a search has found *)
(* nothing there, a removal has left nothing to remove, and a walk has     *)
(* handed out what was accepted there, with no NULL among it.              *)
Searched ==
  /\ pc \in {"get", "remove"} => match \subseteq Item
  /\ pc \in {"get", "remove", "walk"} =>
       \E k \in 1 .. Len(order) + 1 :
          /\ ptr = At(k)
          /\ pc \in {"get", "remove"} => \A i \in 1 .. k - 1 : Items[i] \notin match
          /\ pc = "walk" => /\ seen = Those(SubSeq(Items, 1, k - 1), match)
                            /\ \A i \in 1 .. Len(seen) : seen[i] # NULL

(* Where a loop is, in the sequence of the items.                          *)
LEMMA Here ==
    ASSUME ListInv, pc \in {"get", "remove", "walk"}, NEW k \in 1 .. Len(order) + 1,
           ptr = At(k)
    PROVE  /\ ptr = Header <=> k = Len(order) + 1
           /\ ptr # Header => /\ k \in 1 .. Len(order) /\ k + 1 \in 1 .. Len(order) + 1
                              /\ data[ptr] = Items[k] /\ next[ptr] = At(k + 1)
                              /\ ptr = order[k]
<1>1. TypeOK /\ Owned /\ Len(order) \in Nat
  BY Positions DEF ListInv
<1>2. ptr = Header <=> k = Len(order) + 1
  BY <1>1 DEF At, Owned
<1>3. ASSUME ptr # Header
      PROVE  /\ k \in 1 .. Len(order) /\ k + 1 \in 1 .. Len(order) + 1
             /\ data[ptr] = Items[k] /\ next[ptr] = At(k + 1) /\ ptr = order[k]
  <2>1. k \in 1 .. Len(order) /\ k + 1 \in 1 .. Len(order) + 1
    BY <1>1, <1>2, <1>3
  <2>2. At(k) = order[k] /\ next[At(k)] = At(k + 1)
    BY <2>1, Neighbours
  <2>3. data[ptr] = Items[k]
    BY <1>1, <2>1, <2>2, ItemsType
  <2> QED
    BY <2>1, <2>2, <2>3
<1> QED
  BY <1>2, <1>3

LEMMA CallSearches ==
    ASSUME ListInv, NEW op \in {"get", "remove", "walk"}, NEW P \in SUBSET Data,
           Call(op, P), op = "walk" \/ P \subseteq Item
    PROVE  Searched'
<1>1. /\ pc' = op /\ match' = P /\ ptr' = At(1) /\ seen' = <<>>
      /\ order' = order /\ data' = data /\ Len(order) \in Nat
  <2>1. 0 \in 0 .. Len(order) /\ At(0) = Header /\ Len(order) \in Nat
    BY Positions DEF ListInv
  <2>2. next[At(0)] = At(0 + 1)
    BY <2>1 DEF Call, ListInv, Ring
  <2> QED
    BY <2>1, <2>2 DEF Call, ring
<1>2. At(1)' = At(1)
  BY <1>1, ItemsStay
<1>3. PICK s : s = Items'
  OBVIOUS
<1>4. SubSeq(s, 1, 0) = <<>> /\ Those(<<>>, P) = <<>>
  <2>1. <<>> \in Seq(Data)
    OBVIOUS
  <2>2. s \in Seq(Data)
    BY <1>1, <1>3, ItemsType, ItemsStay DEF ListInv
  <2> QED
    BY <2>1, <2>2, ThoseType
<1>5. SubSeq(Items', 1, 1 - 1) = <<>>
  BY <1>3, <1>4
<1>6. 1 \in 1 .. Len(order') + 1
  BY <1>1
<1>7. /\ pc' = "walk" => /\ seen' = Those(SubSeq(Items', 1, 1 - 1), match')
                         /\ \A i \in 1 .. Len(seen') : seen'[i] # NULL
      /\ \A i \in 1 .. 1 - 1 : Items'[i] \notin match'
  <2>1. seen' = Those(SubSeq(Items', 1, 1 - 1), match')
    BY <1>1, <1>4, <1>5
  <2>2. Len(seen') = 0
    BY <1>1
  <2> QED
    BY <2>1, <2>2
<1> QED
  BY <1>1, <1>2, <1>6, <1>7 DEF Searched

LEMMA SkipSearches ==
    ASSUME ListInv, Searched, Skip \/ Visit
    PROVE  Searched'
<1>1. /\ pc \in {"get", "remove", "walk"} /\ pc' = pc /\ match' = match
      /\ ptr # Header /\ ptr' = next[ptr] /\ order' = order /\ data' = data
  BY DEF Skip, Visit, AtEnd, Found, ring
<1>2. PICK k \in 1 .. Len(order) + 1 :
          /\ ptr = At(k)
          /\ pc \in {"get", "remove"} => \A i \in 1 .. k - 1 : Items[i] \notin match
          /\ pc = "walk" => /\ seen = Those(SubSeq(Items, 1, k - 1), match)
                            /\ \A i \in 1 .. Len(seen) : seen[i] # NULL
  BY <1>1 DEF Searched
<1>3. /\ k \in 1 .. Len(order) /\ k + 1 \in 1 .. Len(order) + 1
      /\ data[ptr] = Items[k] /\ next[ptr] = At(k + 1)
  BY <1>1, <1>2, Here
<1>4. PICK s : s = Items
  OBVIOUS
<1>5. s \in Seq(Data) /\ Len(s) = Len(order) /\ Items' = s
  BY <1>1, <1>4, ItemsType, ItemsStay DEF ListInv
<1>6. PICK a : a = SubSeq(s, 1, k - 1)
  OBVIOUS
<1>7. a \in Seq(Data) /\ s[k] \in Data /\ SubSeq(s, 1, k) = Append(a, s[k])
  BY <1>3, <1>5, <1>6, Around
<1>8. PICK u : u = Those(a, match)
  OBVIOUS
<1>9. u \in Seq(Data)
  BY <1>7, <1>8, ThoseType
<1>10. Those(SubSeq(s, 1, k), match) = IF s[k] \in match THEN Append(u, s[k]) ELSE u
  <2>1. a \in Seq(Data) /\ s[k] \in Data
    BY <1>7
  <2>2. Those(Append(a, s[k]), match)
           = IF s[k] \in match THEN Append(Those(a, match), s[k]) ELSE Those(a, match)
    BY ONLY <2>1, ThoseAppend, ZenonT(60)
  <2> QED
    BY ONLY <1>7, <1>8, <2>2
<1>11. /\ pc \in {"get", "remove"} => s[k] \notin match
       /\ pc = "walk" => /\ seen' = IF s[k] \in match THEN Append(seen, s[k]) ELSE seen
                         /\ s[k] \in match => s[k] # NULL
  BY <1>1, <1>3, <1>4 DEF Skip, Visit, Found, AtEnd
<1>12. (k + 1) - 1 = k /\ \A i \in 1 .. k : i \in 1 .. k - 1 \/ i = k
  BY <1>3
<1>13. pc = "walk" => /\ seen' = Those(SubSeq(s, 1, k), match)
                      /\ \A i \in 1 .. Len(seen') : seen'[i] # NULL
  <2> HAVE pc = "walk"
  <2>1. seen = u /\ \A i \in 1 .. Len(u) : u[i] # NULL
    BY <1>2, <1>4, <1>6, <1>8
  <2>2. seen' = IF s[k] \in match THEN Append(u, s[k]) ELSE u
    BY <1>11, <2>1
  <2>3. seen' = Those(SubSeq(s, 1, k), match)
    BY <1>10, <2>2
  <2>4. CASE s[k] \in match
    <3>1. s[k] # NULL /\ seen' = Append(u, s[k])
      BY <1>11, <2>2, <2>4
    <3>2. PICK x, v : x = s[k] /\ v = Append(u, x)
      OBVIOUS
    <3>3. x \in Data /\ x # NULL
      BY <1>7, <3>1, <3>2
    <3>4. /\ Len(v) = Len(u) + 1 /\ v[Len(u) + 1] = x /\ Len(u) \in Nat
          /\ \A i \in 1 .. Len(u) : v[i] = u[i]
      BY ONLY <1>9, <3>2, <3>3
    <3>5. \A i \in 1 .. Len(v) : v[i] # NULL
      BY <2>1, <3>3, <3>4
    <3> QED
      BY <2>3, <3>1, <3>2, <3>5
  <2>5. CASE s[k] \notin match
    BY <2>1, <2>2, <2>3, <2>5
  <2> QED
    BY <2>4, <2>5
<1>14. pc \in {"get", "remove"} => \A i \in 1 .. k : s[i] \notin match
  BY <1>2, <1>4, <1>11, <1>12
<1>15. At(k + 1)' = At(k + 1) /\ k + 1 \in 1 .. Len(order') + 1
  BY <1>1, <1>3, ItemsStay
<1> QED
  BY <1>1, <1>3, <1>5, <1>12, <1>13, <1>14, <1>15 DEF Searched

LEMMA UnlinkSearches ==
    ASSUME ListInv, Searched, Unlink
    PROVE  Searched'
<1>1. pc = "remove" /\ pc' = pc /\ match' = match /\ ptr # Header
  BY DEF Unlink, Found, AtEnd
<1>2. PICK k \in 1 .. Len(order) : ptr = order[k] /\ ptr = At(k) /\ TakenOut(k) /\ ptr' = At(k + 1)
  BY UnlinkTakes
<1>3. PICK j \in 1 .. Len(order) + 1 : /\ ptr = At(j)
                                       /\ \A i \in 1 .. j - 1 : Items[i] \notin match
  BY <1>1 DEF Searched
<1>4. j = k
  <2>1. j \in 1 .. Len(order) /\ ptr = order[j]
    BY <1>1, <1>3, Here
  <2> QED
    BY <1>2, <2>1 DEF ListInv, Owned
<1>5. Len(order) \in Nat /\ Len(order') = Len(order) - 1
  BY <1>2, Positions, WithoutShape DEF TakenOut, ListInv
<1>6. \A i \in 1 .. k - 1 : Items'[i] = Items[i]
  BY <1>2, ItemsShrink DEF TakenOut
<1>7. ptr' = At(k)'
  BY <1>1, <1>2, TakenOutKeeps
<1>8. k \in 1 .. Len(order') + 1
  BY <1>5
<1> QED
  BY <1>1, <1>3, <1>4, <1>6, <1>7, <1>8 DEF Searched

LEMMA NextSearches ==
    ASSUME ListInv, Searched, [Next]_vars
    PROVE  Searched'
<1>1. CASE \E op \in {"get", "remove", "walk"}, P \in SUBSET Item : Call(op, P)
  BY <1>1, CallSearches DEF Data
<1>2. CASE Call("walk", NoPredicate)
  BY <1>2, CallSearches DEF NoPredicate
<1>3. CASE Skip \/ Visit
  BY <1>3, SkipSearches
<1>4. CASE Unlink
  BY <1>4, UnlinkSearches
<1>5. CASE Build \/ GetHit \/ VisitNull \/ Exhausted \/ Free \/ FreeNode \/ Freed
  <2>1. pc' \notin {"get", "remove", "walk"}
    BY <1>5 DEF Build, GetHit, VisitNull, Exhausted, Free, FreeNode, Freed, Idle, Gone
  <2> QED
    BY <2>1 DEF Searched
<1>6. CASE InsertRefused \/ Pop \/ GetAny \/ \E n \in Node, d \in Data : Insert(n, d)
  <2>1. pc' \notin {"get", "remove", "walk"}
    BY <1>6 DEF InsertRefused, Pop, GetAny, Insert, locals
  <2> QED
    BY <2>1 DEF Searched
<1>7. CASE UNCHANGED vars
  <2>1. /\ order' = order /\ data' = data /\ pc' = pc /\ ptr' = ptr /\ match' = match
        /\ seen' = seen
    BY <1>7 DEF vars
  <2>2. Items' = Items /\ \A i \in Int : At(i)' = At(i)
    BY <2>1, ItemsStay
  <2>3. Len(order) \in Nat
    BY Positions DEF ListInv
  <2>4. CASE pc \in {"get", "remove", "walk"}
    <3>1. PICK k \in 1 .. Len(order) + 1 :
              /\ ptr = At(k)
              /\ pc \in {"get", "remove"} => \A i \in 1 .. k - 1 : Items[i] \notin match
              /\ pc = "walk" => /\ seen = Those(SubSeq(Items, 1, k - 1), match)
                                /\ \A i \in 1 .. Len(seen) : seen[i] # NULL
      BY <2>4 DEF Searched
    <3>2. At(k)' = At(k)
      BY <2>2, <2>3
    <3> QED
      BY <2>1, <2>2, <3>1, <3>2 DEF Searched
  <2>5. CASE pc \notin {"get", "remove", "walk"}
    BY <2>1, <2>5 DEF Searched
  <2> QED
    BY <2>4, <2>5
<1> QED
  BY <1>1, <1>2, <1>3, <1>4, <1>5, <1>6, <1>7 DEF Next, Step

LEMMA SpecSearches == Spec => [](ListInv /\ Searched)
<1>1. Init => ListInv /\ Searched
  <2>1. Init => Searched
    BY DEF Init, Searched
  <2> QED
    BY <2>1, InitInv
<1>2. ListInv /\ Searched /\ [Next]_vars => ListInv' /\ Searched'
  BY NextKeeps, NextSearches
<1> QED
  BY <1>1, <1>2, PTL DEF Spec
-----------------------------------------------------------------------------
(* What a walk has taken is the selection from what it has passed, and the *)
(* selection from the rest comes after it.                                 *)
LEMMA PrefixOf ==
    ASSUME NEW S, NEW u \in Seq(S), NEW v \in Seq(S)
    PROVE  IsPrefix(u, u \o v)
<1>1. PICK w : w = u \o v
  OBVIOUS
<1>2. /\ w \in Seq(S) /\ Len(u) \in Nat /\ Len(w) \in Nat /\ Len(u) <= Len(w)
      /\ \A i \in 1 .. Len(u) : w[i] = u[i]
  BY <1>1, ConcatProperties
<1>3. PICK z : z = SubSeq(w, 1, Len(u))
  OBVIOUS
<1>4. z \in Seq(S) /\ Len(z) = Len(u) /\ \A i \in 1 .. Len(u) : z[i] = w[i]
  BY <1>2, <1>3
<1>5. z = u
  BY <1>2, <1>4, SeqEqual
<1>6. SubSeq(u, 1, Len(u)) = u
  BY SubSeqFull
<1> QED
  BY <1>1, <1>2, <1>3, <1>5, <1>6 DEF IsPrefix

LEMMA ThosePrefix ==
    ASSUME NEW S, NEW s \in Seq(S), NEW k \in 1 .. Len(s) + 1, NEW P
    PROVE  /\ IsPrefix(Those(SubSeq(s, 1, k - 1), P), Those(s, P))
           /\ k = Len(s) + 1 => SubSeq(s, 1, k - 1) = s
<1>1. PICK a, b : a = SubSeq(s, 1, k - 1) /\ b = SubSeq(s, k, Len(s))
  OBVIOUS
<1>2. a \in Seq(S) /\ b \in Seq(S) /\ s = a \o b
  <2>1. /\ a \in Seq(S) /\ Len(a) = k - 1 /\ Len(s) \in Nat
        /\ \A i \in 1 .. k - 1 : a[i] = s[i]
    BY <1>1
  <2>2. /\ b \in Seq(S) /\ Len(b) = Len(s) - k + 1
        /\ \A i \in 1 .. Len(b) : b[i] = s[k + i - 1]
    BY <1>1
  <2>3. PICK c : c = a \o b
    OBVIOUS
  <2>4. /\ c \in Seq(S) /\ Len(c) = Len(a) + Len(b)
        /\ \A i \in 1 .. Len(c) : c[i] = IF i <= Len(a) THEN a[i] ELSE b[i - Len(a)]
    <3>1. a \in Seq(S) /\ b \in Seq(S)
      BY <2>1, <2>2
    <3>2. /\ a \o b \in Seq(S) /\ Len(a \o b) = Len(a) + Len(b)
          /\ \A i \in 1 .. Len(a) + Len(b) :
                (a \o b)[i] = IF i <= Len(a) THEN a[i] ELSE b[i - Len(a)]
      BY ONLY <3>1, ConcatProperties
    <3> QED
      BY ONLY <2>3, <3>2
  <2>5. \A i \in 1 .. Len(s) : s[i] = c[i]
    BY ONLY <2>1, <2>2, <2>4, k \in 1 .. Len(s) + 1
  <2>6. s = c
    BY <2>1, <2>2, <2>4, <2>5, SeqEqual
  <2> QED
    BY <2>1, <2>2, <2>3, <2>6
<1>3. Those(a \o b, P) = Those(a, P) \o Those(b, P)
  BY ONLY <1>2, ThoseJoin, ZenonT(60)
<1>4. PICK u, v : u = Those(a, P) /\ v = Those(b, P)
  OBVIOUS
<1>5. u \in Seq(S) /\ v \in Seq(S)
  BY <1>2, <1>4, ThoseType
<1>6. IsPrefix(u, u \o v)
  BY <1>5, PrefixOf
<1>7. IsPrefix(Those(a, P), Those(s, P))
  BY ONLY <1>2, <1>3, <1>4, <1>6
<1>8. k = Len(s) + 1 => SubSeq(s, 1, k - 1) = s
  BY SubSeqFull
<1> QED
  BY <1>1, <1>7, <1>8

(* A caller that walks over a list of any length sees the items that its   *)
(* predicate accepts, in the order of their insertion, none twice and none *)
(* left out, and at the header it has seen them all.                       *)
THEOREM WalksInOrder == Spec => []WalkInOrder
<1>1. ASSUME ListInv, Searched, pc = "walk"
      PROVE  /\ IsPrefix(seen, Accepted) /\ \A i \in 1 .. Len(seen) : seen[i] # NULL
             /\ ptr = Header => seen = Accepted
  <2>1. PICK k \in 1 .. Len(order) + 1 :
            /\ ptr = At(k) /\ seen = Those(SubSeq(Items, 1, k - 1), match)
            /\ \A i \in 1 .. Len(seen) : seen[i] # NULL
    BY <1>1 DEF Searched
  <2>2. PICK s : s = Items
    OBVIOUS
  <2>3. s \in Seq(Data) /\ Len(s) = Len(order) /\ k \in 1 .. Len(s) + 1
    BY <1>1, <2>2, ItemsType DEF ListInv
  <2>4. /\ IsPrefix(Those(SubSeq(s, 1, k - 1), match), Those(s, match))
        /\ k = Len(s) + 1 => SubSeq(s, 1, k - 1) = s
    BY <2>3, ThosePrefix
  <2>5. ptr = Header => k = Len(s) + 1
    BY <1>1, <2>1, <2>3, Here
  <2> QED
    BY <2>1, <2>2, <2>4, <2>5 DEF Accepted
<1>2. ListInv /\ Searched => WalkInOrder
  BY <1>1 DEF WalkInOrder
<1> QED
  BY <1>2, SpecSearches, PTL
-----------------------------------------------------------------------------
(* The list is a sequence.                                                 *)
LEMMA FirstHit ==
    ASSUME NEW S, NEW s \in Seq(S), NEW P, NEW k \in 1 .. Len(s),
           \A i \in 1 .. k - 1 : s[i] \notin P, s[k] \in P
    PROVE  Those(s, P) # <<>> /\ Head(Those(s, P)) = s[k]
<1>1. PICK a, b, x, r : /\ a = SubSeq(s, 1, k - 1) /\ b = SubSeq(s, k + 1, Len(s))
                        /\ x = s[k] /\ r = SubSeq(s, 1, k)
  OBVIOUS
<1>2. /\ a \in Seq(S) /\ b \in Seq(S) /\ x \in S /\ r = Append(a, x) /\ r \o b = s
      /\ Len(a) = k - 1
  BY <1>1, Around
<1>3. \A i \in 1 .. Len(a) : a[i] \notin P
  BY <1>1, <1>2
<1>4. Those(a, P) = <<>>
  BY ONLY <1>2, <1>3, ThoseEnds
<1>5. Those(Append(a, x), P) = IF x \in P THEN Append(Those(a, P), x) ELSE Those(a, P)
  <2>1. a \in Seq(S) /\ x \in S
    BY <1>2
  <2> QED
    BY ONLY <2>1, ThoseAppend
<1>6. x \in P
  BY <1>1
<1>7. Those(r, P) = <<x>>
  BY ONLY <1>2, <1>4, <1>5, <1>6
<1>8. Those(r \o b, P) = Those(r, P) \o Those(b, P)
  <2>1. r \in Seq(S) /\ b \in Seq(S)
    BY <1>2
  <2> QED
    BY ONLY <2>1, ThoseJoin, ZenonT(60)
<1>9. PICK v : v = Those(b, P)
  OBVIOUS
<1>10. v \in Seq(S) /\ x \in S
  BY <1>2, <1>9, ThoseType
<1>11. Those(s, P) = <<x>> \o v
  BY ONLY <1>2, <1>7, <1>8, <1>9
<1>12. <<x>> \o v # <<>> /\ Head(<<x>> \o v) = x
  BY ONLY <1>10
<1> QED
  BY <1>1, <1>11, <1>12

(* Without an element that P does not accept, what P accepts stays.        *)
LEMMA ThoseCut ==
    ASSUME NEW S, NEW s \in Seq(S), NEW P, NEW k \in 1 .. Len(s), NEW t,
           t = SubSeq(s, 1, k - 1) \o SubSeq(s, k + 1, Len(s))
    PROVE  /\ s[k] \notin P => Those(t, P) = Those(s, P)
           /\ s[k] \in P => Len(Those(s, P)) = Len(Those(t, P)) + 1
<1>1. PICK a, b, x, r : /\ a = SubSeq(s, 1, k - 1) /\ b = SubSeq(s, k + 1, Len(s))
                        /\ x = s[k] /\ r = SubSeq(s, 1, k)
  OBVIOUS
<1>2. /\ a \in Seq(S) /\ b \in Seq(S) /\ x \in S /\ r = Append(a, x) /\ r \o b = s
  BY <1>1, Around
<1>3. r \in Seq(S) /\ t = a \o b
  BY <1>1, <1>2
<1>4. PICK u, v : u = Those(a, P) /\ v = Those(b, P)
  OBVIOUS
<1>5. u \in Seq(S) /\ v \in Seq(S)
  BY <1>2, <1>4, ThoseType
<1>6. Those(Append(a, x), P) = IF x \in P THEN Append(u, x) ELSE u
  <2>1. a \in Seq(S) /\ x \in S
    BY <1>2
  <2>2. Those(Append(a, x), P) = IF x \in P THEN Append(Those(a, P), x) ELSE Those(a, P)
    BY ONLY <2>1, ThoseAppend
  <2> QED
    BY ONLY <1>4, <2>2
<1>7. Those(r \o b, P) = Those(r, P) \o v /\ Those(a \o b, P) = u \o v
  <2>1. r \in Seq(S) /\ b \in Seq(S) /\ a \in Seq(S)
    BY <1>2, <1>3
  <2>2. Those(r \o b, P) = Those(r, P) \o Those(b, P)
    BY ONLY <2>1, ThoseJoin, ZenonT(60)
  <2>3. Those(a \o b, P) = Those(a, P) \o Those(b, P)
    BY ONLY <2>1, ThoseJoin, ZenonT(60)
  <2> QED
    BY ONLY <1>4, <2>2, <2>3
<1>8. Those(t, P) = u \o v /\ Those(s, P) = IF x \in P THEN Append(u, x) \o v ELSE u \o v
  BY ONLY <1>2, <1>3, <1>6, <1>7
<1>9. Len(Append(u, x) \o v) = Len(u \o v) + 1
  <2>1. /\ Append(u, x) \in Seq(S) /\ Len(Append(u, x)) = Len(u) + 1
        /\ Len(u) \in Nat /\ Len(v) \in Nat
    BY ONLY <1>2, <1>5
  <2>2. Len(Append(u, x) \o v) = Len(Append(u, x)) + Len(v) /\ Len(u \o v) = Len(u) + Len(v)
    BY ONLY <1>5, <2>1
  <2> QED
    BY ONLY <2>1, <2>2
<1> QED
  BY ONLY <1>1, <1>8, <1>9

LEMMA SameThose == \A s, P : Sequence!Those(s, P) = Those(s, P)
BY DEF Sequence!Those, Those

LEMMA SameOutcome == \A op, x : Sequence!Outcome(op, x) = Outcome(op, x)
BY DEF Sequence!Outcome, Outcome

(* What a reader of the sequence sees of a list.                           *)
LEMMA Seen ==
    /\ pc \in {"idle", "get", "walk"} => AbstractItems = Items /\ AbstractRet = ret
    /\ pc \in {"gone", "free"} => AbstractItems = <<>> /\ AbstractRet = ret
    /\ pc = "remove" => /\ AbstractItems = Those(Items, Data \ match)
                        /\ AbstractRet = Outcome("remove", removed + Len(Accepted))
BY DEF AbstractItems, AbstractRet

LEMMA SeenNext ==
    /\ pc' \in {"idle", "get", "walk"} => AbstractItems' = Items' /\ AbstractRet' = ret'
    /\ pc' \in {"gone", "free"} => AbstractItems' = <<>> /\ AbstractRet' = ret'
    /\ pc' = "remove" => /\ AbstractItems' = Those(Items', Data \ match')
                         /\ AbstractRet' = Outcome("remove", removed' + Len(Accepted'))
BY DEF AbstractItems, AbstractRet

LEMMA InitSequence == Init => Sequence!Init
<1>1. Init => pc = "gone" /\ ret = Outcome("none", NULL)
  BY DEF Init
<1> QED
  BY <1>1, Seen DEF Sequence!Init, Sequence!Outcome, Outcome

LEMMA BuildSequence ==
    ASSUME ListInv, Build
    PROVE  Sequence!Emptied("build")
<1>1. pc' = "idle" /\ order' = <<>> /\ ret' = Outcome("build", NULL)
  BY DEF Build, Idle
<1>2. Items' = <<>>
  BY <1>1 DEF Items
<1> QED
  BY <1>1, <1>2, SeenNext, SameOutcome DEF Sequence!Emptied

LEMMA FreeSequence ==
    ASSUME ListInv, Free
    PROVE  Sequence!Emptied("free")
<1>1. pc' = "free" /\ ret' = Outcome("free", NULL)
  BY DEF Free
<1> QED
  BY <1>1, SeenNext, SameOutcome DEF Sequence!Emptied

LEMMA InsertSequence ==
    ASSUME ListInv, NEW n \in Node, NEW d \in Data, Insert(n, d)
    PROVE  Sequence!Insert(d)
<1>1. /\ pc = "idle" /\ pc' = "idle" /\ n \notin live /\ ret' = Outcome("insert", d)
      /\ order' = Append(order, n) /\ data' = [data EXCEPT ![n] = d]
  BY DEF Insert, locals
<1>2. n \notin {order[i] : i \in 1 .. Len(order)}
  BY <1>1 DEF ListInv, Owned
<1>3. Items' = Append(Items, d)
  BY <1>1, <1>2, ItemsGrow DEF ListInv
<1> QED
  BY <1>1, <1>3, Seen, SeenNext, SameOutcome DEF Sequence!Insert

LEMMA MissSequence ==
    ASSUME ListInv, NEW op, pc = "idle", ret' = Outcome(op, NULL), UNCHANGED <<ring, locals>>
    PROVE  Sequence!Miss(op)
<1>1. pc' = "idle" /\ order' = order /\ data' = data
  BY DEF ring, locals
<1>2. Items' = Items
  BY <1>1, ItemsStay
<1> QED
  BY <1>1, <1>2, Seen, SeenNext, SameOutcome DEF Sequence!Miss

LEMMA PopSequence ==
    ASSUME ListInv, Pop
    PROVE  Sequence!Pop \/ Sequence!Miss("pop")
<1>1. CASE count = 0
  BY <1>1, MissSequence DEF Pop
<1>2. CASE count # 0
  <2>1. /\ pc = "idle" /\ pc' = "idle" /\ order' = Without(order, 1)
        /\ data' = [data EXCEPT ![next[Header]] = NULL]
        /\ ret' = Outcome("pop", data[next[Header]])
    BY <1>2 DEF Pop, locals
  <2>2. PICK s : s = Items
    OBVIOUS
  <2>3. s \in Seq(Data) /\ Len(s) = Len(order) /\ 1 \in 1 .. Len(s)
    BY <1>2, <2>1, <2>2, ItemsType DEF ListInv, Ring
  <2>4. next[Header] = At(1) /\ data[next[Header]] = s[1]
    <3>1. 0 \in 0 .. Len(order) /\ At(0) = Header /\ At(1) = order[1]
      BY <2>3 DEF At
    <3>2. next[At(0)] = At(0 + 1)
      BY <2>1, <3>1 DEF ListInv, Ring
    <3> QED
      BY <2>2, <2>3, <3>1, <3>2, ItemsType DEF ListInv
  <2>5. Items' = SubSeq(s, 1, 0) \o SubSeq(s, 2, Len(s))
    <3>1. 1 \in 1 .. Len(order) /\ data' = [data EXCEPT ![At(1)] = NULL]
      BY <2>1, <2>3, <2>4
    <3>2. Items' = SubSeq(Items, 1, 1 - 1) \o SubSeq(Items, 1 + 1, Len(Items))
      BY <2>1, <3>1, ItemsShrink
    <3> QED
      BY <2>2, <3>2
  <2>6. SubSeq(s, 1, 0) \o SubSeq(s, 2, Len(s)) = Tail(s) /\ s # <<>> /\ Head(s) = s[1]
    BY ONLY <2>3
  <2> QED
    BY <2>1, <2>2, <2>4, <2>5, <2>6, Seen, SeenNext, SameOutcome DEF Sequence!Pop
<1> QED
  BY <1>1, <1>2

LEMMA CallSequence ==
    ASSUME ListInv, NEW op \in {"get", "remove", "walk"}, NEW P, Call(op, P),
           op = "remove" => P \in SUBSET Item
    PROVE  \/ op = "remove" /\ Sequence!RemoveAll(P)
           \/ UNCHANGED Sequence!vars
<1>1. /\ pc = "idle" /\ pc' = op /\ match' = P /\ removed' = 0 /\ ret' = ret
      /\ order' = order /\ data' = data
  BY DEF Call, ring
<1>2. PICK s : s = Items
  OBVIOUS
<1>3. s \in Seq(Data) /\ Items' = s
  BY <1>1, <1>2, ItemsType, ItemsStay DEF ListInv
<1>4. CASE op \in {"get", "walk"}
  BY <1>1, <1>2, <1>3, <1>4, Seen, SeenNext DEF Sequence!vars
<1>5. CASE op = "remove"
  <2>1. /\ AbstractItems = s /\ AbstractItems' = Those(s, Data \ P)
        /\ AbstractRet' = Outcome("remove", 0 + Len(Those(s, P)))
    BY <1>1, <1>2, <1>3, <1>5, Seen, SeenNext DEF Accepted
  <2>2. Len(s) = Len(Those(s, P)) + Len(Those(s, Data \ P))
    BY ONLY <1>3, ThoseLen
  <2>3. Those(s, P) \in Seq(Data) /\ Those(s, Data \ P) \in Seq(Data)
    BY ONLY <1>3, ThoseType
  <2>4. 0 + Len(Those(s, P)) = Len(s) - Len(Those(s, Data \ P))
    BY <1>3, <2>2, <2>3
  <2>5. Sequence!RemoveAll(P)
    BY <2>1, <2>4, SameThose, SameOutcome DEF Sequence!RemoveAll, Data
  <2> QED
    BY <1>5, <2>5
<1> QED
  BY <1>4, <1>5

LEMMA LoopSequence ==
    ASSUME ListInv, Searched, Skip \/ Visit \/ VisitNull \/ GetHit
    PROVE  UNCHANGED Sequence!vars \/ \E P \in SUBSET Item : Sequence!Get(P)
<1>1. order' = order /\ data' = data /\ pc \in {"get", "remove", "walk"} /\ ptr # Header
  BY DEF Skip, Visit, VisitNull, GetHit, Found, AtEnd, ring
<1>2. PICK s : s = Items
  OBVIOUS
<1>3. s \in Seq(Data) /\ Len(s) = Len(order) /\ Items' = s
  BY <1>1, <1>2, ItemsType, ItemsStay DEF ListInv
<1>4. CASE Skip \/ Visit
  <2>1. pc' = pc /\ match' = match /\ removed' = removed /\ ret' = ret
    BY <1>4 DEF Skip, Visit
  <2>2. Accepted' = Accepted
    BY <1>2, <1>3, <2>1 DEF Accepted
  <2> QED
    BY <1>1, <1>2, <1>3, <2>1, <2>2, Seen, SeenNext DEF Sequence!vars
<1>5. CASE VisitNull
  <2>1. pc = "walk" /\ pc' = "idle" /\ ret' = ret
    BY <1>5 DEF VisitNull, Idle
  <2> QED
    BY <1>2, <1>3, <2>1, Seen, SeenNext DEF Sequence!vars
<1>6. CASE GetHit
  <2>1. /\ pc = "get" /\ pc' = "idle" /\ ret' = Outcome("get", data[ptr])
        /\ data[ptr] \in match
    BY <1>6 DEF GetHit, Idle, Found
  <2>2. match \subseteq Item
    BY <2>1 DEF Searched
  <2>3. PICK k \in 1 .. Len(order) + 1 : ptr = At(k) /\ \A i \in 1 .. k - 1 : s[i] \notin match
    BY <1>2, <2>1 DEF Searched
  <2>4. k \in 1 .. Len(s) /\ data[ptr] = s[k]
    BY <1>1, <1>2, <1>3, <2>3, Here
  <2>5. Those(s, match) # <<>> /\ Head(Those(s, match)) = s[k]
    BY <1>3, <2>1, <2>3, <2>4, FirstHit
  <2>6. Sequence!Get(match)
    BY <1>2, <1>3, <2>1, <2>4, <2>5, Seen, SeenNext, SameThose, SameOutcome DEF Sequence!Get
  <2> QED
    BY <2>2, <2>6
<1> QED
  BY <1>4, <1>5, <1>6

LEMMA ExhaustedSequence ==
    ASSUME ListInv, Searched, Exhausted
    PROVE  UNCHANGED Sequence!vars \/ \E P \in SUBSET Item : Sequence!Get(P)
<1>1. /\ order' = order /\ data' = data /\ pc \in {"get", "remove", "walk"} /\ ptr = Header
      /\ pc' = "idle"
  BY DEF Exhausted, AtEnd, Idle, ring
<1>2. PICK s : s = Items
  OBVIOUS
<1>3. s \in Seq(Data) /\ Len(s) = Len(order) /\ Items' = s /\ Len(s) \in Nat
  BY <1>1, <1>2, ItemsType, ItemsStay DEF ListInv
<1>4. CASE pc = "walk"
  <2>1. ret' = ret
    BY <1>4 DEF Exhausted
  <2> QED
    BY <1>1, <1>2, <1>3, <1>4, <2>1, Seen, SeenNext DEF Sequence!vars
<1>5. CASE pc \in {"get", "remove"}
  <2>1. match \subseteq Item
    BY <1>5 DEF Searched
  <2>2. PICK k \in 1 .. Len(order) + 1 : ptr = At(k) /\ \A i \in 1 .. k - 1 : s[i] \notin match
    BY <1>2, <1>5 DEF Searched
  <2>3. k = Len(s) + 1
    BY <1>1, <1>3, <2>2, Here
  <2>4. \A i \in 1 .. Len(s) : s[i] \notin match /\ s[i] \in Data \ match
    BY <1>3, <2>2, <2>3
  <2>5. Those(s, match) = <<>>
    BY ONLY <1>3, <2>4, ThoseEnds
  <2>6. Those(s, Data \ match) = s
    BY ONLY <1>3, <2>4, ThoseEnds
  <2>7. CASE pc = "get"
    <3>1. ret' = Outcome("get", NULL)
      BY <2>7 DEF Exhausted
    <3>2. Sequence!Get(match)
      BY <1>1, <1>2, <1>3, <2>5, <2>7, <3>1, Seen, SeenNext, SameThose, SameOutcome
         DEF Sequence!Get
    <3> QED
      BY <2>1, <3>2
  <2>8. CASE pc = "remove"
    <3>1. ret' = Outcome("remove", removed)
      BY <2>8 DEF Exhausted
    <3>2. removed + Len(Accepted) = removed
      BY <1>2, <2>5 DEF Accepted, ListInv, TypeOK
    <3> QED
      BY <1>1, <1>2, <1>3, <2>6, <2>8, <3>1, <3>2, Seen, SeenNext DEF Sequence!vars
  <2> QED
    BY <1>5, <2>7, <2>8
<1> QED
  BY <1>1, <1>4, <1>5

LEMMA UnlinkSequence ==
    ASSUME ListInv, ListInv', Unlink
    PROVE  UNCHANGED Sequence!vars
<1>1. /\ pc = "remove" /\ pc' = pc /\ match' = match /\ removed' = removed + 1
      /\ ptr # Header /\ data[ptr] \in match
  BY DEF Unlink, Found, AtEnd
<1>2. PICK k \in 1 .. Len(order) : ptr = order[k] /\ ptr = At(k) /\ TakenOut(k)
  BY UnlinkTakes
<1>3. PICK s, t : s = Items /\ t = Items'
  OBVIOUS
<1>4. /\ s \in Seq(Data) /\ k \in 1 .. Len(s) /\ s[k] \in match
      /\ t = SubSeq(s, 1, k - 1) \o SubSeq(s, k + 1, Len(s))
  <2>1. s \in Seq(Data) /\ k \in 1 .. Len(s) /\ s[k] = data[ptr]
    BY <1>2, <1>3, ItemsType DEF ListInv
  <2>2. Items' = SubSeq(Items, 1, k - 1) \o SubSeq(Items, k + 1, Len(Items))
    BY <1>2, ItemsShrink DEF TakenOut
  <2> QED
    BY <1>1, <1>3, <2>1, <2>2
<1>5. Those(t, Data \ match) = Those(s, Data \ match)
  BY ONLY <1>4, ThoseCut
<1>6. Len(Those(s, match)) = Len(Those(t, match)) + 1 /\ Len(Those(t, match)) \in Nat
  <2>1. Len(Those(s, match)) = Len(Those(t, match)) + 1
    BY ONLY <1>4, ThoseCut
  <2>2. t \in Seq(Data)
    BY <1>4, Around
  <2>3. Those(t, match) \in Seq(Data)
    BY ONLY <2>2, ThoseType
  <2> QED
    BY <2>1, <2>3
<1>7. removed' + Len(Accepted') = removed + Len(Accepted)
  <2>1. Accepted = Those(s, match) /\ Accepted' = Those(t, match)
    BY <1>1, <1>3 DEF Accepted
  <2>2. removed \in Nat
    BY DEF ListInv, TypeOK
  <2> QED
    BY <1>1, <1>6, <2>1, <2>2
<1>8. AbstractItems' = AbstractItems
  BY <1>1, <1>3, <1>5, Seen, SeenNext
<1>9. AbstractRet' = AbstractRet
  BY <1>1, <1>7, Seen, SeenNext
<1> QED
  BY <1>8, <1>9 DEF Sequence!vars

(* Every step of the ring is a step of the sequence or none.               *)
LEMMA NextSequence ==
    ASSUME ListInv, ListInv', Searched, [Next]_vars
    PROVE  [Sequence!Next]_(Sequence!vars)
<1>1. CASE Build
  BY <1>1, BuildSequence DEF Sequence!Next
<1>2. CASE \E n \in Node, d \in Data : Insert(n, d)
  <2>1. PICK n \in Node, d \in Data : Insert(n, d)
    BY <1>2
  <2> QED
    BY <2>1, InsertSequence DEF Sequence!Next, Data
<1>3. CASE InsertRefused
  <2>1. Sequence!Miss("refuse")
    BY <1>3, MissSequence DEF InsertRefused
  <2> QED
    BY <2>1 DEF Sequence!Next
<1>4. CASE GetAny
  <2>1. Sequence!Miss("get")
    BY <1>4, MissSequence DEF GetAny
  <2> QED
    BY <2>1 DEF Sequence!Next
<1>5. CASE Pop
  BY <1>5, PopSequence DEF Sequence!Next
<1>6. CASE \E op \in {"get", "remove", "walk"}, P \in SUBSET Item : Call(op, P)
  <2>1. PICK op \in {"get", "remove", "walk"}, P \in SUBSET Item : Call(op, P)
    BY <1>6
  <2> QED
    BY <2>1, CallSequence DEF Sequence!Next
<1>7. CASE Call("walk", NoPredicate)
  BY <1>7, CallSequence
<1>8. CASE Free
  BY <1>8, FreeSequence DEF Sequence!Next
<1>9. CASE Skip \/ Visit \/ VisitNull \/ GetHit
  BY <1>9, LoopSequence DEF Sequence!Next
<1>10. CASE Exhausted
  BY <1>10, ExhaustedSequence DEF Sequence!Next
<1>11. CASE Unlink
  BY <1>11, UnlinkSequence
<1>12. CASE FreeNode \/ Freed
  <2>1. pc \in {"gone", "free"} /\ pc' \in {"gone", "free"} /\ ret' = ret
    BY <1>12 DEF FreeNode, Freed, Gone
  <2> QED
    BY <2>1, Seen, SeenNext DEF Sequence!vars
<1>13. CASE UNCHANGED vars
  BY <1>13 DEF vars, Sequence!vars, AbstractItems, AbstractRet, Accepted, Items
<1> QED
  BY <1>1, <1>2, <1>3, <1>4, <1>5, <1>6, <1>7, <1>8, <1>9, <1>10, <1>11, <1>12, <1>13
     DEF Next, Step

(* The ring of nodes, with its loops that take a node at a step, is for    *)
(* its callers what list.h promises: a sequence from which a removal takes *)
(* all that match at once, a search gives the first that matches, and a    *)
(* pop the oldest.                                                         *)
THEOREM ListIsSequence == Spec => SequenceSpec
<1>1. Init => Sequence!Init
  BY InitSequence
<1>2. ListInv /\ ListInv' /\ Searched /\ [Next]_vars => [Sequence!Next]_(Sequence!vars)
  BY NextSequence
<1> QED
  BY <1>1, <1>2, SpecSearches, PTL DEF Spec, SequenceSpec, Sequence!Spec
=============================================================================
