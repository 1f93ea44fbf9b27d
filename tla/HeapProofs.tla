----------------------------- MODULE HeapProofs -----------------------------
(***************************************************************************)
(* Proofs about Heap: its inductive invariant, and that it implements the  *)
(* priority queue, for any set of items and any total preorder on them.    *)
(***************************************************************************)
EXTENDS Heap, WellFoundedInduction, TLAPS

(* The tree shape that indices stand for.                                  *)
LEMMA Halves ==
    ASSUME NEW i \in Nat \ {0}, NEW p \in Int,
           2 * p <= i - 1, i - 1 < 2 * p + 2
    PROVE  /\ p \in Nat
           /\ p < i
           /\ i = 2 * p + 1 \/ i = 2 * p + 2
OBVIOUS

LEMMA TreeShape ==
    ASSUME NEW i \in Nat \ {0}
    PROVE  /\ Parent(i) \in Nat
           /\ Parent(i) < i
           /\ i = Left(Parent(i)) \/ i = Right(Parent(i))
<1>1. /\ Parent(i) \in Int
      /\ 2 * Parent(i) <= i - 1
      /\ i - 1 < 2 * Parent(i) + 2
  BY DEF Parent
<1>2. /\ Parent(i) \in Nat
      /\ Parent(i) < i
      /\ i = 2 * Parent(i) + 1 \/ i = 2 * Parent(i) + 2
  BY <1>1, Halves
<1>3. QED
  BY <1>2 DEF Left, Right

LEMMA ChildShape ==
    ASSUME NEW i \in Nat
    PROVE  /\ Left(i) \in Nat \ {0} /\ Right(i) \in Nat \ {0}
           /\ i < Left(i) /\ Left(i) < Right(i)
           /\ Parent(Left(i)) = i /\ Parent(Right(i)) = i
BY DEF Parent, Left, Right
(* h->less is reflexive and transitive, and one of two items precedes the  *)
(* other.                                                                  *)
LEMMA LessFacts ==
    /\ \A x \in Item : <<x, x>> \in Less
    /\ \A x, y \in Item : <<x, y>> \notin Less => <<y, x>> \in Less
    /\ \A x, y, z \in Item :
          <<x, y>> \in Less /\ <<y, z>> \in Less => <<x, z>> \in Less
BY OrderAssumption

-----------------------------------------------------------------------------
(* The inductive invariant is kept by each step.                           *)
LEMMA InsertKeeps ==
    ASSUME HeapInv, NEW x \in Item, Insert(x)
    PROVE  HeapInv'
<1> USE DEF HeapInv
<1>1. /\ len' = len + 1 /\ k' = len /\ c' = len
      /\ pc' = "down" /\ call' = "insert"
  BY DEF Insert
<1>2. /\ cap' \in Nat /\ len < cap'
      /\ data' \in [0 .. cap' - 1 -> Item \cup {NULL}]
      /\ data'[len] = x
      /\ \A i \in Used : data'[i] = data[i]
  <2>1. CASE len = cap /\ data' = [Grown EXCEPT ![len] = x] /\ cap' = NewCap(len)
    <3>1. /\ Grown \in [0 .. NewCap(len) - 1 -> Item \cup {NULL}]
          /\ \A i \in Used : Grown[i] = data[i]
      BY DEF Grown, TypeOK, Used, NewCap
    <3>2. NewCap(len) \in Nat /\ len < NewCap(len)
      BY DEF NewCap, TypeOK
    <3>3. QED
      BY <2>1, <3>1, <3>2 DEF TypeOK, Used
  <2>2. CASE len < cap /\ data' = [data EXCEPT ![len] = x] /\ cap' = cap
    BY <2>2 DEF TypeOK, Used
  <2>3. QED
    BY <2>1, <2>2 DEF Insert
<1>3. TypeOK'
  <2>1. len \in Nat /\ \A i \in Used : data[i] \in Item
    BY DEF TypeOK
  <2>2. Used' = Used \cup {len}
    BY <1>1, <2>1 DEF Used
  <2>3. \A i \in Used' : data'[i] \in Item
    BY <1>2, <2>1, <2>2
  <2>4. /\ len' \in Nat /\ cap' \in Nat /\ len' <= cap'
        /\ k' \in Nat /\ c' \in Nat
        /\ k' < cap' /\ c' < cap' /\ k' <= len' /\ c' <= len'
    BY <1>1, <1>2, <2>1
  <2>5. QED
    BY <1>1, <1>2, <2>3, <2>4 DEF TypeOK
<1>4. NoDuplicate'
  BY <1>1, <1>2 DEF NoDuplicate, Insert, Contents, Used, TypeOK
<1>5. DownOrder'
  <2>1. \A i \in 1 .. len : Parent(i) \in Nat /\ Parent(i) < i
    BY TreeShape DEF TypeOK
  <2>2. \A i \in 1 .. len - 1 : LessAt(Parent(i), i)'
    <3>1. \A i \in 1 .. len - 1 : LessAt(Parent(i), i)
      BY DEF HeapOrder, Insert
    <3>2. \A i \in 1 .. len - 1 : i \in Used /\ Parent(i) \in Used
      BY <2>1 DEF Used, TypeOK
    <3>3. QED
      BY <3>1, <3>2, <1>2 DEF LessAt
  <2>3. QED
    BY <1>1, <2>1, <2>2 DEF DownOrder, TypeOK
<1>6. HeapOrder' /\ UpOrder'
  BY <1>1 DEF HeapOrder, UpOrder
<1>7. QED
  BY <1>3, <1>4, <1>5, <1>6

LEMMA RemoveKeeps ==
    ASSUME HeapInv, NEW n \in Used, Remove(n)
    PROVE  HeapInv'
<1> USE DEF HeapInv
<1>1. /\ len \in Nat /\ n \in Nat /\ n < len /\ len <= cap /\ cap \in Nat
      /\ len' = len - 1 /\ cap' = cap /\ k' = n /\ c' = n
      /\ pc = "idle" /\ pc' = "down" /\ call' = "remove"
      /\ data' = [data EXCEPT ![n] = data[len - 1]]
  BY DEF Remove, Used, TypeOK
<1>2. /\ \A i \in 0 .. len - 1 : i # n => data'[i] = data[i]
      /\ data'[n] = data[len - 1]
  BY <1>1 DEF TypeOK
<1>3. TypeOK'
  BY <1>1, <1>2 DEF TypeOK, Used
<1>4. NoDuplicate'
  BY <1>1, <1>2 DEF NoDuplicate, Used
<1>5. DownOrder'
  <2>1. \A i \in 1 .. len - 1 :
           /\ Parent(i) \in 0 .. len - 1 /\ Parent(i) < i
           /\ LessAt(Parent(i), i)
    BY TreeShape, <1>1 DEF HeapOrder
  <2>2. \A i \in 1 .. len - 2 : i # n /\ Parent(i) # n => LessAt(Parent(i), i)'
    BY <2>1, <1>1, <1>2 DEF LessAt
  <2>3. ASSUME NEW i \in 1 .. len - 2, Parent(i) = n, n > 0
        PROVE  LessAt(Parent(n), i)'
    <3>1. LessAt(Parent(n), n) /\ LessAt(n, i)
      BY <2>1, <2>3, <1>1
    <3>2. LessAt(Parent(n), i)
      <4>1. data[Parent(n)] \in Item /\ data[n] \in Item /\ data[i] \in Item
        BY <2>1, <2>3, <1>1 DEF TypeOK, Used
      <4>2. QED
        BY <3>1, <4>1, LessFacts DEF LessAt
    <3>3. data'[Parent(n)] = data[Parent(n)] /\ data'[i] = data[i]
      <4>1. /\ Parent(n) \in 0 .. len - 1 /\ Parent(n) # n
            /\ i \in 0 .. len - 1 /\ i # n
        BY <2>1, <2>3, <1>1
      <4>2. QED
        BY <4>1, <1>2
    <3>4. QED
      BY <3>2, <3>3 DEF LessAt
  <2>4. n = len - 1 /\ n > 0 => LessAt(Parent(n), n)'
    BY <2>1, <1>1, <1>2 DEF LessAt
  <2>5. QED
    BY <2>2, <2>3, <2>4, <1>1 DEF DownOrder
<1>6. HeapOrder' /\ UpOrder'
  BY <1>1 DEF HeapOrder, UpOrder
<1>7. QED
  BY <1>3, <1>4, <1>5, <1>6

(* Swapping two positions in use permutes the items.                       *)
LEMMA SwapFacts ==
    ASSUME TypeOK, NoDuplicate, NEW i \in Used, NEW j \in Used, i # j,
           data' = Swapped(i, j), len' = len, cap' = cap
    PROVE  /\ data' \in [0 .. cap' - 1 -> Item \cup {NULL}]
           /\ data'[i] = data[j] /\ data'[j] = data[i]
           /\ \A n \in Used : n # i /\ n # j => data'[n] = data[n]
           /\ Used' = Used
           /\ \A n \in Used : data'[n] \in Item
           /\ NoDuplicate'
           /\ Contents' = Contents
<1>1. Used' = Used /\ i \in 0 .. cap - 1 /\ j \in 0 .. cap - 1
  BY DEF Used, TypeOK
<1>2. /\ data' \in [0 .. cap' - 1 -> Item \cup {NULL}]
      /\ data'[i] = data[j] /\ data'[j] = data[i]
      /\ \A n \in 0 .. cap - 1 : n # i /\ n # j => data'[n] = data[n]
  BY <1>1 DEF Swapped, TypeOK
<1>3. \A n \in Used : n \in 0 .. cap - 1
  BY DEF Used, TypeOK
<1>4. \A n \in Used : data'[n] \in Item
  BY <1>2, <1>3 DEF TypeOK
<1>5. NoDuplicate'
  BY <1>1, <1>2, <1>3 DEF NoDuplicate
<1>6. Contents' = Contents
  <2>1. Contents' \subseteq Contents
    BY <1>1, <1>2, <1>3 DEF Contents
  <2>2. ASSUME NEW n \in Used
        PROVE  data[n] \in Contents'
    <3>1. data[n] = data'[IF n = i THEN j ELSE IF n = j THEN i ELSE n]
      BY <1>2, <1>3
    <3>2. QED
      BY <3>1, <1>1 DEF Contents
  <2>3. QED
    BY <2>1, <2>2 DEF Contents
<1>7. QED
  BY <1>1, <1>2, <1>3, <1>4, <1>5, <1>6

LEMMA SiftDownKeeps ==
    ASSUME HeapInv, SiftDown
    PROVE  HeapInv'
<1> USE DEF HeapInv
<1>1. /\ len \in Nat /\ cap \in Nat /\ len <= cap
      /\ c \in Nat /\ k \in Nat /\ c <= len /\ k <= len /\ c < cap /\ k < cap
      /\ pc = "down" /\ len' = len /\ cap' = cap /\ call' = call
  BY DEF SiftDown, heap_vars, TypeOK
<1>2. \A i \in 1 .. len - 1 : Parent(i) \in 0 .. len - 1 /\ Parent(i) < i
  BY TreeShape, <1>1
<1>3. CASE (c # 0 => LessAt(Parent(c), c)) /\ data' = data
  <2>1. \A i \in 1 .. len - 1 : Parent(i) # c \/ c # k => LessAt(Parent(i), i)
    BY <1>3, <1>1 DEF DownOrder
  <2>2. CASE call = "insert" /\ Return
    <3>1. TypeOK' /\ NoDuplicate'
      BY <2>2, <1>3, <1>1 DEF TypeOK, NoDuplicate, Used, Return
    <3>2. \A i \in 1 .. len - 1 : LessAt(Parent(i), i)
      BY <2>1, <2>2, <1>1, <1>2 DEF DownOrder
    <3>3. QED
      BY <3>1, <3>2, <2>2, <1>1, <1>3
         DEF HeapOrder, DownOrder, UpOrder, Return, LessAt
  <2>3. CASE call = "remove" /\ pc' = "up" /\ c' = k /\ k' = k
    <3>1. TypeOK' /\ NoDuplicate'
      BY <2>3, <1>3, <1>1 DEF TypeOK, NoDuplicate, Used
    <3>2. ASSUME NEW i \in 1 .. len - 1, Parent(i) # k
          PROVE  LessAt(Parent(i), i)
      BY <3>2, <2>1
    <3>3. ASSUME NEW i \in 1 .. len - 1, Parent(i) = k, k > 0
          PROVE  LessAt(Parent(k), i)
      <4>1. CASE c = k
        BY <4>1, <3>3, <1>1 DEF DownOrder
      <4>2. CASE c # k
        <5>1. k \in 1 .. len - 1 /\ Parent(k) \in 0 .. len - 1
          BY <3>3, <1>1, <1>2
        <5>2. LessAt(Parent(k), k) /\ LessAt(k, i)
          BY <5>1, <4>2, <3>3, <2>1
        <5>3. data[Parent(k)] \in Item /\ data[k] \in Item /\ data[i] \in Item
          BY <5>1, <1>1 DEF TypeOK, Used
        <5>4. QED
          BY <5>2, <5>3, LessFacts DEF LessAt
      <4>3. QED
        BY <4>1, <4>2
    <3>4. QED
      BY <3>1, <3>2, <3>3, <2>3, <1>1, <1>3
         DEF HeapOrder, DownOrder, UpOrder, LessAt
  <2>4. QED
    BY <2>2, <2>3, <1>3, <1>1 DEF SiftDown
<1>4. CASE /\ c # 0 /\ ~LessAt(Parent(c), c)
           /\ data' = Swapped(c, Parent(c))
           /\ c' = Parent(c) /\ pc' = pc /\ k' = k
  <2> DEFINE p == Parent(c)
  <2>1. /\ c \in 1 .. len - 1 /\ p \in 0 .. len - 1 /\ p < c
        /\ p \in Used /\ c \in Used
    BY <1>1, <1>2, <1>4 DEF DownOrder, Used
  <2>2. /\ data' \in [0 .. cap' - 1 -> Item \cup {NULL}]
        /\ data'[c] = data[p] /\ data'[p] = data[c]
        /\ \A n \in 0 .. len - 1 : n # c /\ n # p => data'[n] = data[n]
        /\ \A n \in Used' : data'[n] \in Item
        /\ NoDuplicate'
    BY <2>1, <1>1, <1>4, SwapFacts DEF Used
  <2>3. TypeOK'
    BY <2>1, <2>2, <1>1, <1>4 DEF TypeOK
  <2>4. \A n \in 0 .. len - 1 : data[n] \in Item
    BY DEF TypeOK, Used
  <2>5. \A i \in 1 .. len - 1 : i # c /\ Parent(i) # c => LessAt(Parent(i), i)
    BY <1>1 DEF DownOrder
  <2>6. <<data[c], data[p]>> \in Less
    BY <2>1, <2>4, <1>4, LessFacts DEF LessAt
  <2>7. ASSUME NEW i \in 1 .. len - 1, i # p
        PROVE  LessAt(Parent(i), i)'
    <3>1. CASE i = c
      BY <3>1, <2>2, <2>6 DEF LessAt
    <3>2. CASE i # c /\ Parent(i) = c
      <4>1. LessAt(p, i)
        BY <3>2, <1>1, <1>4 DEF DownOrder
      <4>2. data'[i] = data[i]
        BY <3>2, <2>7, <2>2
      <4>3. QED
        BY <3>2, <4>1, <4>2, <2>2 DEF LessAt
    <3>3. CASE i # c /\ Parent(i) = p
      <4>1. <<data[p], data[i]>> \in Less
        BY <3>3, <2>1, <2>5 DEF LessAt
      <4>2. <<data[c], data[i]>> \in Less
        BY <4>1, <2>6, <2>4, <2>1, LessFacts
      <4>3. data'[i] = data[i]
        BY <3>3, <2>7, <2>2
      <4>4. QED
        BY <3>3, <4>2, <4>3, <2>2 DEF LessAt
    <3>4. CASE i # c /\ Parent(i) # c /\ Parent(i) # p
      <4>1. data'[i] = data[i] /\ data'[Parent(i)] = data[Parent(i)]
        BY <3>4, <2>7, <2>2, <1>2
      <4>2. QED
        BY <3>4, <4>1, <2>5 DEF LessAt
    <3>5. QED
      BY <3>1, <3>2, <3>3, <3>4
  <2>8. ASSUME NEW i \in 1 .. len - 1, Parent(i) = p, p > 0
        PROVE  <<data'[Parent(p)], data'[i]>> \in Less
    <3>1. /\ p \in 1 .. len - 1 /\ Parent(p) \in 0 .. len - 1
          /\ Parent(p) < p /\ Parent(p) < c
      BY <2>1, <2>8, <1>2
    <3>2. <<data[Parent(p)], data[p]>> \in Less
      BY <3>1, <2>1, <2>5 DEF LessAt
    <3>3. data'[Parent(p)] = data[Parent(p)]
      BY <3>1, <2>2
    <3>4. CASE i = c
      BY <3>4, <3>2, <3>3, <2>2
    <3>5. CASE i # c
      <4>1. i # p /\ data'[i] = data[i]
        BY <3>5, <2>8, <2>2, <1>2
      <4>2. <<data[p], data[i]>> \in Less
        BY <3>5, <2>8, <2>1, <2>5 DEF LessAt
      <4>3. <<data[Parent(p)], data[i]>> \in Less
        BY <4>2, <3>1, <3>2, <2>1, <2>4, LessFacts
      <4>4. QED
        BY <4>1, <4>3, <3>3
    <3>6. QED
      BY <3>4, <3>5
  <2>9. DownOrder'
    BY <2>1, <2>7, <2>8, <1>1, <1>4 DEF DownOrder, LessAt
  <2>10. HeapOrder' /\ UpOrder'
    BY <1>1, <1>4 DEF HeapOrder, UpOrder
  <2>11. QED
    BY <2>2, <2>3, <2>9, <2>10
<1>5. QED
  BY <1>3, <1>4 DEF SiftDown

(* What siftup selects: the position itself when neither child precedes    *)
(* it, otherwise the child that precedes both it and the other child.      *)
LEMMA SmallestFacts ==
    ASSUME TypeOK, NEW i \in Nat
    PROVE  /\ Smallest(i) = i =>
                \A j \in 1 .. len - 1 : Parent(j) = i => LessAt(i, j)
           /\ Smallest(i) # i =>
                /\ Smallest(i) \in 1 .. len - 1
                /\ Parent(Smallest(i)) = i /\ i < Smallest(i)
                /\ LessAt(Smallest(i), i)
                /\ \A j \in 1 .. len - 1 : Parent(j) = i => LessAt(Smallest(i), j)
<1> DEFINE l == Left(i)
           r == Right(i)
           s == Smallest(i)
<1>1. /\ l \in Nat \ {0} /\ r \in Nat \ {0} /\ i < l /\ l < r
      /\ Parent(l) = i /\ Parent(r) = i
  BY ChildShape
<1>2. \A j \in 1 .. len - 1 : Parent(j) = i => j = l \/ j = r
  BY TreeShape DEF TypeOK
<1>3. \A n \in Nat : n < len => data[n] \in Item
  BY DEF TypeOK, Used
<1>4. len \in Nat
  BY DEF TypeOK
<1> HIDE DEF l, r, s
<1>5. \A m, n \in Nat : m < len /\ n < len =>
           LessAt(n, n) /\ (LessAt(m, n) \/ LessAt(n, m))
  BY <1>3, LessFacts DEF LessAt
<1>6. \A m, n, q \in Nat : m < len /\ n < len /\ q < len =>
           (LessAt(m, n) /\ LessAt(n, q) => LessAt(m, q))
  BY <1>3, LessFacts DEF LessAt
<1>7. s = LET t == IF l < len /\ LessAt(l, i) THEN l ELSE i
          IN  IF r < len /\ LessAt(r, t) THEN r ELSE t
  BY DEF s, l, r, Smallest
<1>8. CASE s = i
  <2>1. (l < len => ~LessAt(l, i)) /\ (r < len => ~LessAt(r, i))
    BY <1>1, <1>7, <1>8
  <2>2. (l < len => LessAt(i, l)) /\ (r < len => LessAt(i, r))
    BY <2>1, <1>1, <1>4, <1>5
  <2>3. QED
    BY <2>2, <1>2, <1>4, <1>8 DEF s
<1>9. CASE s # i
  <2>1. CASE s = l
    <3>1. l < len /\ LessAt(l, i) /\ (r < len => ~LessAt(r, l))
      BY <2>1, <1>1, <1>7, <1>9
    <3>2. LessAt(l, l) /\ (r < len => LessAt(l, r))
      BY <3>1, <1>1, <1>4, <1>5
    <3>3. l \in 1 .. len - 1
      BY <3>1, <1>1, <1>4
    <3>4. \A j \in 1 .. len - 1 : Parent(j) = i => LessAt(l, j)
      BY <3>2, <1>2, <1>4
    <3>5. QED
      BY <3>1, <3>3, <3>4, <2>1, <1>1, <1>9 DEF s
  <2>2. CASE s = r
    <3>1. r < len /\ l < len /\ i < len
      BY <2>2, <1>1, <1>4, <1>7, <1>9
    <3>2. IF LessAt(l, i) THEN LessAt(r, l) ELSE LessAt(r, i)
      BY <3>1, <2>2, <1>1, <1>7, <1>9
    <3>3. LessAt(r, i) /\ LessAt(r, l) /\ LessAt(r, r)
      BY <3>1, <3>2, <1>1, <1>5, <1>6
    <3>4. r \in 1 .. len - 1
      BY <3>1, <1>1, <1>4
    <3>5. \A j \in 1 .. len - 1 : Parent(j) = i => LessAt(r, j)
      BY <3>3, <1>2, <1>4
    <3>6. QED
      BY <3>3, <3>4, <3>5, <2>2, <1>1, <1>9 DEF s
  <2>3. QED
    BY <2>1, <2>2, <1>7, <1>9
<1>10. QED
  BY <1>8, <1>9 DEF s

LEMMA SiftUpKeeps ==
    ASSUME HeapInv, SiftUp
    PROVE  HeapInv'
<1> USE DEF HeapInv
<1>1. /\ len \in Nat /\ cap \in Nat /\ len <= cap
      /\ c \in Nat /\ k \in Nat /\ c <= len /\ k <= len /\ c < cap /\ k < cap
      /\ pc = "up" /\ len' = len /\ cap' = cap /\ call' = call
  BY DEF SiftUp, heap_vars, TypeOK
<1>2. \A i \in 1 .. len - 1 : Parent(i) \in 0 .. len - 1 /\ Parent(i) < i
  BY TreeShape, <1>1
<1>3. \A i \in 1 .. len - 1 : Parent(i) # c => LessAt(Parent(i), i)
  BY <1>1 DEF UpOrder
<1>4. CASE Smallest(c) = c /\ Return /\ data' = data
  <2>1. TypeOK' /\ NoDuplicate'
    BY <1>1, <1>4 DEF TypeOK, NoDuplicate, Used, Return
  <2>2. \A i \in 1 .. len - 1 : LessAt(Parent(i), i)
    BY <1>1, <1>3, <1>4, SmallestFacts
  <2>3. QED
    BY <2>1, <2>2, <1>1, <1>4 DEF HeapOrder, DownOrder, UpOrder, Return, LessAt
<1>5. CASE /\ Smallest(c) # c /\ data' = Swapped(c, Smallest(c))
           /\ c' = Smallest(c) /\ pc' = pc /\ k' = k
  <2> DEFINE s == Smallest(c)
  <2>1. /\ s \in 1 .. len - 1 /\ Parent(s) = c /\ c < s /\ c \in 0 .. len - 1
        /\ LessAt(s, c)
        /\ \A j \in 1 .. len - 1 : Parent(j) = c => LessAt(s, j)
        /\ s \in Used /\ c \in Used
    BY <1>1, <1>5, SmallestFacts DEF Used
  <2> HIDE DEF s
  <2>2. /\ data' = Swapped(c, s) /\ c' = s
    BY <1>5 DEF s
  <2>3. /\ data' \in [0 .. cap' - 1 -> Item \cup {NULL}]
        /\ data'[c] = data[s] /\ data'[s] = data[c]
        /\ \A n \in 0 .. len - 1 : n # c /\ n # s => data'[n] = data[n]
        /\ \A n \in Used' : data'[n] \in Item
        /\ NoDuplicate'
    BY <2>1, <2>2, <1>1, SwapFacts DEF Used
  <2>4. TypeOK'
    BY <2>1, <2>2, <2>3, <1>1, <1>5 DEF TypeOK
  <2>5. ASSUME NEW i \in 1 .. len - 1, Parent(i) # s
        PROVE  LessAt(Parent(i), i)'
    <3>1. CASE i = s
      BY <3>1, <2>1, <2>3 DEF LessAt
    <3>2. CASE i # s /\ Parent(i) = c
      <4>1. LessAt(s, i) /\ data'[i] = data[i]
        BY <3>2, <2>1, <2>3, <1>2
      <4>2. QED
        BY <3>2, <4>1, <2>3 DEF LessAt
    <3>3. CASE i = c
      <4>1. LessAt(Parent(c), s)
        BY <3>3, <2>1, <1>1 DEF UpOrder
      <4>2. data'[Parent(c)] = data[Parent(c)]
        BY <3>3, <2>1, <2>3, <1>2
      <4>3. QED
        BY <3>3, <4>1, <4>2, <2>3 DEF LessAt
    <3>4. CASE i # s /\ i # c /\ Parent(i) # c
      <4>1. data'[i] = data[i] /\ data'[Parent(i)] = data[Parent(i)]
        BY <3>4, <2>5, <2>3, <1>2
      <4>2. QED
        BY <3>4, <4>1, <1>3 DEF LessAt
    <3>5. QED
      BY <3>1, <3>2, <3>3, <3>4
  <2>6. ASSUME NEW i \in 1 .. len - 1, Parent(i) = s
        PROVE  <<data'[Parent(s)], data'[i]>> \in Less
    <3>1. LessAt(s, i)
      BY <2>6, <2>1, <1>3
    <3>2. data'[i] = data[i]
      BY <2>6, <2>1, <2>3, <1>2
    <3>3. QED
      BY <3>1, <3>2, <2>1, <2>3 DEF LessAt
  <2>7. UpOrder'
    BY <2>1, <2>2, <2>5, <2>6, <1>1 DEF UpOrder, LessAt
  <2>8. HeapOrder' /\ DownOrder'
    BY <1>1, <1>5 DEF HeapOrder, DownOrder
  <2>9. QED
    BY <2>3, <2>4, <2>7, <2>8
<1>6. QED
  BY <1>4, <1>5 DEF SiftUp

(* A step of any call, or of none, keeps the invariant.                    *)
LEMMA NextKeeps == HeapInv /\ [Next]_vars => HeapInv'
<1> SUFFICES ASSUME HeapInv, [Next]_vars
             PROVE  HeapInv'
  OBVIOUS
<1>1. ASSUME NEW x \in Item, Insert(x)
      PROVE  HeapInv'
  BY <1>1, InsertKeeps
<1>2. ASSUME NEW i \in Used, Remove(i)
      PROVE  HeapInv'
  BY <1>2, RemoveKeeps
<1>3. CASE UNCHANGED <<data, len, cap, pc, call, k, c>>
  BY <1>3 DEF HeapInv, TypeOK, NoDuplicate, HeapOrder, DownOrder, UpOrder,
              Used, LessAt
<1>4. CASE SiftDown
  BY <1>4, SiftDownKeeps
<1>5. CASE SiftUp
  BY <1>5, SiftUpKeeps
<1>6. QED
  BY <1>1, <1>2, <1>3, <1>4, <1>5
     DEF Next, InsertRefused, RemoveMiss, vars

LEMMA InitHolds == Init => HeapInv
BY DEF Init, HeapInv, TypeOK, NoDuplicate, HeapOrder, DownOrder, UpOrder, Used

(* In every state of every behaviour of heap.c's algorithm the inductive   *)
(* invariant holds: bounds, no duplicates, and the order of the array at   *)
(* every point of the sift loops.                                          *)
THEOREM HeapInvariant == Spec => []HeapInv
<1>1. HeapInv /\ [Next]_vars => HeapInv'
  BY NextKeeps
<1>2. QED
  BY InitHolds, <1>1, PTL DEF Spec

(* Between calls no item precedes its parent, whatever was inserted and    *)
(* removed, at any index and in any order.                                 *)
THEOREM HeapOrdered == Spec => []HeapOrder
<1>1. HeapInv => HeapOrder
  BY DEF HeapInv
<1>2. QED
  BY HeapInvariant, <1>1, PTL

-----------------------------------------------------------------------------
(* In an ordered heap the root precedes every item: were there positions   *)
(* it does not precede, the least of them would have a parent it precedes. *)
LEMMA RootFirst ==
    ASSUME TypeOK, \A i \in 1 .. len - 1 : LessAt(Parent(i), i)
    PROVE  \A i \in Used : LessAt(0, i)
<1> DEFINE Bad == {i \in Used : ~LessAt(0, i)}
<1>1. SUFFICES ASSUME Bad # {}
               PROVE  FALSE
  OBVIOUS
<1>2. Bad \subseteq Nat
  BY DEF Used
<1>3. PICK b \in Bad : \A i \in Bad : ~(<<i, b>> \in OpToRel(<, Nat))
  BY <1>1, <1>2, NatLessThanWellFounded, WFMin
<1>4. b \in Used /\ ~LessAt(0, b) /\ len \in Nat
  BY DEF TypeOK
<1>5. \A i \in Bad : ~(i < b)
  BY <1>2, <1>3 DEF OpToRel
<1>6. b \in 1 .. len - 1
  BY <1>4, LessFacts DEF Used, LessAt, TypeOK
<1>7. Parent(b) \in Used /\ Parent(b) < b
  BY <1>4, <1>6, TreeShape DEF Used
<1>8. LessAt(0, Parent(b)) /\ LessAt(Parent(b), b)
  BY <1>5, <1>6, <1>7
<1>9. data[0] \in Item /\ data[b] \in Item /\ data[Parent(b)] \in Item
  BY <1>4, <1>6, <1>7 DEF Used, TypeOK
<1>10. QED
  BY <1>4, <1>8, <1>9, LessFacts DEF LessAt

(* The sift loops leave the set of queued items as it is.                  *)
LEMMA SiftKeepsContents ==
    ASSUME HeapInv, SiftDown \/ SiftUp
    PROVE  Contents' = Contents /\ ret' = ret
<1> USE DEF HeapInv
<1>1. /\ len' = len /\ cap' = cap /\ ret' = ret
      /\ len \in Nat /\ c \in Nat /\ c <= len
  BY DEF SiftDown, SiftUp, heap_vars, TypeOK
<1>2. CASE data' = data
  BY <1>1, <1>2 DEF Contents, Used
<1>3. CASE SiftDown /\ data' # data
  <2>1. c # 0 /\ ~LessAt(Parent(c), c) /\ data' = Swapped(c, Parent(c))
    BY <1>3 DEF SiftDown
  <2>2. c \in Used /\ Parent(c) \in Used /\ c # Parent(c)
    BY <2>1, <1>1, <1>3, TreeShape DEF DownOrder, SiftDown, Used
  <2>3. QED
    BY <2>1, <2>2, <1>1, SwapFacts
<1>4. CASE SiftUp /\ data' # data
  <2>1. Smallest(c) # c /\ data' = Swapped(c, Smallest(c))
    BY <1>4 DEF SiftUp
  <2>2. c \in Used /\ Smallest(c) \in Used
    BY <2>1, <1>1, SmallestFacts DEF Used
  <2>3. QED
    BY <2>1, <2>2, <1>1, SwapFacts
<1>5. QED
  BY <1>1, <1>2, <1>3, <1>4

LEMMA InsertRefines ==
    ASSUME HeapInv, NEW x \in Item, Insert(x)
    PROVE  Queue!Insert(x)
<1>1. HeapInv'
  BY InsertKeeps
<1>2. /\ len \in Nat /\ len' = len + 1 /\ data'[len] = x
      /\ \A i \in Used : data'[i] = data[i]
  <2>1. CASE len = cap /\ data' = [Grown EXCEPT ![len] = x]
    BY <2>1 DEF HeapInv, TypeOK, Used, Grown, NewCap, Insert
  <2>2. CASE len < cap /\ data' = [data EXCEPT ![len] = x]
    BY <2>2 DEF HeapInv, TypeOK, Used, Insert
  <2>3. QED
    BY <2>1, <2>2 DEF Insert
<1>3. Used' = Used \cup {len}
  BY <1>2 DEF Used
<1>4. Contents' = Contents \cup {x}
  BY <1>2, <1>3 DEF Contents
<1>5. QED
  BY <1>4 DEF Insert, Queue!Insert, Outcome, Queue!Outcome

LEMMA RemoveRefines ==
    ASSUME HeapInv, NEW n \in Used, Remove(n)
    PROVE  Queue!Pop(data[n]) \/ Queue!Take(data[n])
<1>1. /\ len \in Nat \ {0} /\ n \in Nat /\ n < len /\ len <= cap /\ cap \in Nat
      /\ len' = len - 1 /\ pc = "idle"
      /\ data' = [data EXCEPT ![n] = data[len - 1]]
  BY DEF HeapInv, Remove, Used, TypeOK
<1>2. /\ \A i \in Used : i # n => data'[i] = data[i]
      /\ data'[n] = data[len - 1]
      /\ Used = Used' \cup {len - 1} /\ len - 1 \notin Used'
  BY <1>1 DEF HeapInv, TypeOK, Used
<1>3. Contents' = Contents \ {data[n]}
  <2>1. ASSUME NEW i \in Used'
        PROVE  data'[i] \in Contents /\ data'[i] # data[n]
    BY <1>2 DEF HeapInv, NoDuplicate, Contents
  <2>2. ASSUME NEW i \in Used, data[i] # data[n]
        PROVE  data[i] \in Contents'
    <3>1. CASE i = len - 1
      <4>1. n \in Used'
        BY <3>1, <2>2, <1>2
      <4>2. QED
        BY <4>1, <3>1, <1>2 DEF Contents
    <3>2. CASE i # len - 1
      <4>1. i \in Used' /\ i # n
        BY <3>2, <2>2, <1>2
      <4>2. QED
        BY <4>1, <1>2 DEF Contents
    <3>3. QED
      BY <3>1, <3>2
  <2>3. QED
    BY <2>1, <2>2 DEF Contents
<1>4. data[n] \in Contents
  BY DEF Contents
<1>5. CASE n = 0
  <2>1. \A y \in Contents : <<data[n], y>> \in Less
    BY <1>1, <1>5, RootFirst DEF HeapInv, HeapOrder, Contents, LessAt
  <2>2. ret' = Outcome("pop", data[n])
    BY <1>5 DEF Remove
  <2>3. QED
    BY <2>1, <2>2, <1>3, <1>4 DEF Queue!Pop, Outcome, Queue!Outcome
<1>6. CASE n # 0
  <2>1. ret' = Outcome("take", data[n])
    BY <1>6 DEF Remove
  <2>2. QED
    BY <2>1, <1>3, <1>4 DEF Queue!Take, Outcome, Queue!Outcome
<1>7. QED
  BY <1>5, <1>6

(* The heap implements the abstract priority queue: in particular, what is *)
(* removed at index 0 precedes every item that stays queued, and no item   *)
(* is lost, duplicated or handed out twice by the sift loops.              *)
THEOREM QueueImplemented == Spec => QueueSpec
<1>1. Init => Queue!Init
  BY DEF Init, Queue!Init, Contents, Used, Outcome, Queue!Outcome
<1>2. HeapInv /\ [Next]_vars => [Queue!Next]_(Queue!vars)
  <2> SUFFICES ASSUME HeapInv, [Next]_vars
               PROVE  [Queue!Next]_(Queue!vars)
    OBVIOUS
  <2>1. ASSUME NEW x \in Item, Insert(x)
        PROVE  Queue!Next
    BY <2>1, InsertRefines DEF Queue!Next
  <2>2. ASSUME NEW x \in Item, InsertRefused(x)
        PROVE  Queue!Next
    <3>1. Contents' = Contents
      BY <2>2 DEF InsertRefused, Contents, Used
    <3>2. Queue!Refuse(x)
      BY <3>1, <2>2 DEF InsertRefused, Queue!Refuse, Outcome, Queue!Outcome
    <3>3. QED
      BY <3>2 DEF Queue!Next
  <2>3. ASSUME NEW i \in Used, Remove(i)
        PROVE  Queue!Next
    <3>1. data[i] \in Item
      BY <2>3 DEF HeapInv, TypeOK
    <3>2. QED
      BY <2>3, <3>1, RemoveRefines DEF Queue!Next
  <2>4. CASE RemoveMiss
    <3>1. Contents' = Contents
      BY <2>4 DEF RemoveMiss, Contents, Used
    <3>2. QED
      BY <3>1, <2>4 DEF RemoveMiss, Queue!Next, Queue!Miss, Outcome, Queue!Outcome
  <2>5. CASE SiftDown \/ SiftUp
    BY <2>5, SiftKeepsContents DEF Queue!vars
  <2>6. CASE UNCHANGED vars
    BY <2>6 DEF vars, Queue!vars, Contents, Used
  <2>7. QED
    BY <2>1, <2>2, <2>3, <2>4, <2>5, <2>6 DEF Next
<1>3. QED
  BY <1>1, <1>2, HeapInvariant, PTL DEF Spec, QueueSpec, Queue!Spec
=============================================================================
