--------------------------- MODULE RequestsProofs ---------------------------
(* Proofs about Requests, for any number of requests.                      *)
EXTENDS Requests, FiniteSetTheorems, SequenceTheorems, TLAPS

(* The inductive invariant.                                                *)
RequestsInv == TypeOK /\ Paired

(* What comes out of a queue and goes into one.                            *)
LEMMA Queued ==
    ASSUME NEW S, NEW q \in Seq(S)
    PROVE  /\ q # <<>> => Head(q) \in S /\ Tail(q) \in Seq(S)
           /\ \A x \in S : Append(q, x) \in Seq(S)
  OBVIOUS

LEMMA InitInv == Init => RequestsInv
<1> SUFFICES ASSUME Init PROVE RequestsInv
  OBVIOUS
<1>1. <<>> \in Seq(Req)
  OBVIOUS
<1>2. TypeOK
  BY <1>1, BoundAssumption DEF Init, TypeOK, NewClientEnd, NewServerEnd, End
<1>3. Paired
  BY DEF Init, Paired, NewClientEnd, NewServerEnd, AnswerDue, One
<1> QED
  BY <1>2, <1>3 DEF RequestsInv

(* Typing is preserved by every step.                                      *)
LEMMA NextType == RequestsInv /\ [Next]_vars => TypeOK'
<1> SUFFICES ASSUME RequestsInv, [Next]_vars PROVE TypeOK'
  OBVIOUS
<1>0. TypeOK /\ Paired /\ (\A r \in Req : r # NULL)
  BY BoundAssumption DEF RequestsInv, Req
<1> USE <1>0 DEF TypeOK, End
<1>1. CASE Issue
  <2>1. issued + 1 \in 0 .. MaxReq /\ issued + 1 \in Req
    BY <1>1, BoundAssumption DEF Issue, Req
  <2> QED
    BY <1>1, <2>1, Queued DEF Issue
<1>2. CASE Tick
  <2>1. CASE MaySend /\ Taken
    BY <1>2, <2>1, Queued DEF Tick, MaySend, Taken
  <2>2. CASE UNCHANGED <<cli, queue>>
    BY <1>2, <2>2 DEF Tick
  <2> QED
    BY <1>2, <2>1, <2>2 DEF Tick
<1>3. CASE ClientWrite
  BY <1>3, Queued DEF ClientWrite, Written
<1>4. CASE ClientRead
  BY <1>4, Queued DEF ClientRead, Read
<1>5. CASE ServerRead
  BY <1>5, Queued DEF ServerRead, Answering
<1>6. CASE ServerWrite
  <2>1. srv' \in End
    BY <1>6 DEF ServerWrite, Written
  <2>2. down' \in Seq(Req)
    <3>1. CASE srv.send = "wait" /\ down' = Append(down, srv.out)
      <4>1. srv.out \in Req
        BY <1>6, <3>1 DEF ServerWrite, AnswerDue, Paired
      <4> QED
        BY <3>1, <4>1, Queued
    <3> QED
      BY <1>6, <3>1 DEF ServerWrite
  <2> QED
    BY <1>6, <2>1, <2>2 DEF ServerWrite
<1>7. CASE Close
  BY <1>7 DEF Close
<1>8. CASE UNCHANGED vars
  BY <1>8 DEF vars
<1> QED
  BY <1>1, <1>2, <1>3, <1>4, <1>5, <1>6, <1>7, <1>8 DEF Next

(* So is the pairing of requests and answers.                              *)
LEMMA NextPaired == RequestsInv /\ [Next]_vars => Paired'
<1> SUFFICES ASSUME RequestsInv, [Next]_vars PROVE Paired'
  OBVIOUS
<1> USE DEF RequestsInv, TypeOK, Paired, AnswerDue, One, End
<1>1. CASE Issue
  BY <1>1 DEF Issue
<1>2. CASE Tick
  BY <1>2 DEF Tick, MaySend, Taken
<1>3. CASE ClientWrite
  BY <1>3 DEF ClientWrite, Written
<1>4. CASE ClientRead
  BY <1>4 DEF ClientRead, Read
<1>5. CASE ServerRead
  BY <1>5 DEF ServerRead, Answering
<1>6. CASE ServerWrite
  BY <1>6 DEF ServerWrite, Written
<1>7. CASE Close
  BY <1>7 DEF Close
<1>8. CASE UNCHANGED vars
  BY <1>8 DEF vars
<1> QED
  BY <1>1, <1>2, <1>3, <1>4, <1>5, <1>6, <1>7, <1>8 DEF Next

LEMMA InvHolds == Spec => []RequestsInv
<1>1. RequestsInv /\ [Next]_vars => RequestsInv'
  BY NextType, NextPaired DEF RequestsInv
<1> QED
  BY InitInv, <1>1, PTL DEF Spec

(* Every variable of a request connection keeps its type.                  *)
THEOREM RequestsTyped == Spec => []TypeOK
  BY InvHolds, PTL DEF RequestsInv

(* Answers are paired with requests: processClientResponseOut prints the   *)
(* answer of the last request that the server has processed, and the       *)
(* client has no other one out.                                            *)
THEOREM AnswersPaired == Spec => []Paired
  BY InvHolds, PTL DEF RequestsInv
-----------------------------------------------------------------------------
(* The order.  The line consists of the requests that have been typed, in  *)
(* four pieces; steps move a request from one piece to the next, but for   *)
(* the one that an answer takes out of the client's slot.                  *)
Slot == IF cli.out = NULL THEN <<>> ELSE <<cli.out>>
Ascending(p) == \A i, j \in 1 .. Len(p) : i < j => p[i] < p[j]
LineInv == /\ Line \in Seq(Nat) /\ \A i \in 1 .. Len(Line) : Line[i] <= issued
           /\ Ascending(Line) /\ LostByAnswers

LEMMA Regroup ==
    ASSUME NEW S, NEW a \in Seq(S), NEW b \in Seq(S), NEW c \in Seq(S)
    PROVE  (a \o b) \o c = a \o (b \o c)
BY ConcatAssociative

LEMMA OneMoves ==
    ASSUME NEW S, NEW a \in Seq(S), NEW x \in S, NEW b \in Seq(S)
    PROVE  Append(a, x) \o b = a \o (<<x>> \o b)
<1>1. Append(a, x) = a \o <<x>> /\ <<x>> \in Seq(S)
  OBVIOUS
<1> QED
  BY <1>1, Regroup

LEMMA HeadFirst ==
    ASSUME NEW S, NEW a \in Seq(S), a # <<>>
    PROVE  a = <<Head(a)>> \o Tail(a) /\ Head(a) \in S /\ Tail(a) \in Seq(S)
OBVIOUS

LEMMA Members ==
    ASSUME NEW S, NEW p \in Seq(S), NEW x
    PROVE  x \in ToSet(p) <=> \E i \in 1 .. Len(p) : p[i] = x
<1>1. DOMAIN p = 1 .. Len(p)
  OBVIOUS
<1> QED
  BY <1>1 DEF ToSet

(* Taking an element out of a sequence.                                    *)
LEMMA Without ==
    ASSUME NEW S, NEW p \in Seq(S), NEW q \in Seq(S), Len(p) = Len(q) + 1,
           NEW k \in 1 .. Len(p),
           \A i \in 1 .. Len(q) : q[i] = p[IF i < k THEN i ELSE i + 1]
    PROVE  /\ Ascending(p) => Ascending(q)
           /\ ToSet(p) \subseteq ToSet(q) \cup {p[k]}
<1> DEFINE at(i) == IF i < k THEN i ELSE i + 1
<1>1. Len(p) \in Nat /\ Len(q) \in Nat
  OBVIOUS
<1>2. \A i \in 1 .. Len(q) : at(i) \in 1 .. Len(p) /\ q[i] = p[at(i)]
  BY <1>1
<1>3. \A i, j \in 1 .. Len(q) : i < j => at(i) < at(j)
  BY <1>1
<1>4. \A i \in 1 .. Len(p) : i = k \/ \E j \in 1 .. Len(q) : at(j) = i
  <2> TAKE i \in 1 .. Len(p)
  <2>1. CASE i < k
    <3>1. i \in 1 .. Len(q) /\ at(i) = i
      BY <1>1, <2>1
    <3> QED
      BY <3>1
  <2>2. CASE i > k
    <3>1. i - 1 \in 1 .. Len(q) /\ at(i - 1) = i
      BY <1>1, <2>2
    <3> QED
      BY <3>1
  <2> QED
    BY <1>1, <2>1, <2>2
<1> HIDE DEF at
<1>5. Ascending(p) => Ascending(q)
  BY <1>2, <1>3 DEF Ascending
<1>6. ASSUME NEW y \in ToSet(p) PROVE y \in ToSet(q) \cup {p[k]}
  <2>1. PICK i \in 1 .. Len(p) : p[i] = y
    BY <1>6, Members
  <2>2. CASE i # k
    <3>1. PICK j \in 1 .. Len(q) : at(j) = i
      BY <1>4, <2>2
    <3>2. q[j] = y
      BY <1>2, <2>1, <3>1
    <3> QED
      BY <3>2, Members
  <2> QED
    BY <2>1, <2>2
<1> QED
  BY <1>5, <1>6

LEMMA BetweenIs ==
    ASSUME NEW S, NEW a \in Seq(S), NEW x \in S, NEW b \in Seq(S)
    PROVE  LET p == (a \o <<x>>) \o b
               q == a \o b
               k == Len(a) + 1
           IN  /\ p \in Seq(S) /\ q \in Seq(S) /\ Len(p) = Len(q) + 1
               /\ k \in 1 .. Len(p) /\ p[k] = x
               /\ \A i \in 1 .. Len(q) : q[i] = p[IF i < k THEN i ELSE i + 1]
OBVIOUS

(* A request of a higher number comes last.                                *)
LEMMA Joins ==
    ASSUME NEW k \in Nat, NEW p \in Seq(Nat), \A i \in 1 .. Len(p) : p[i] < k,
           Ascending(p), NEW q, q = Append(p, k)
    PROVE  /\ q \in Seq(Nat) /\ \A i \in 1 .. Len(q) : q[i] <= k
           /\ Ascending(q)
           /\ ToSet(p) \subseteq ToSet(q) /\ k \in ToSet(q)
<1>1. /\ q \in Seq(Nat) /\ Len(p) \in Nat /\ Len(q) = Len(p) + 1 /\ q[Len(p) + 1] = k
      /\ \A i \in 1 .. Len(p) : q[i] = p[i] /\ p[i] \in Nat /\ p[i] < k
  OBVIOUS
<1>2. \A i \in 1 .. Len(q) : q[i] <= k
  BY <1>1
<1>3. Ascending(q)
  <2> SUFFICES ASSUME NEW i \in 1 .. Len(q), NEW j \in 1 .. Len(q), i < j PROVE q[i] < q[j]
    BY DEF Ascending
  <2>1. i \in 1 .. Len(p)
    BY <1>1
  <2>2. CASE j = Len(p) + 1
    BY <1>1, <2>1, <2>2
  <2>3. CASE j # Len(p) + 1
    <3>1. j \in 1 .. Len(p)
      <4>1. PICK l : l = Len(p)
        OBVIOUS
      <4>2. l \in Nat /\ j \in 1 .. l + 1 /\ j # l + 1
        BY <1>1, <2>3, <4>1
      <4> QED
        BY <4>1, <4>2
    <3> QED
      BY <1>1, <2>1, <3>1 DEF Ascending
  <2> QED
    BY <2>2, <2>3
<1>4. \A i \in 1 .. Len(p) : i \in 1 .. Len(q)
  BY <1>1
<1>5. ToSet(p) \subseteq ToSet(q)
  <2> SUFFICES ASSUME NEW y \in ToSet(p) PROVE y \in ToSet(q)
    OBVIOUS
  <2>1. PICK i \in 1 .. Len(p) : p[i] = y
    BY Members
  <2>2. i \in 1 .. Len(q) /\ q[i] = y
    BY <1>1, <1>4, <2>1
  <2>3. PICK r : r = q
    OBVIOUS
  <2> QED
    BY <1>1, <2>2, <2>3, Members
<1>6. k \in ToSet(q)
  <2>1. Len(p) + 1 \in 1 .. Len(q)
    BY <1>1
  <2> QED
    BY <1>1, <2>1, Members
<1> QED
  BY <1>1, <1>2, <1>3, <1>5, <1>6

(* How many are missing, when all but one of them are.                     *)
LEMMA OneLost ==
    ASSUME NEW A, NEW B, NEW x, IsFiniteSet(A), B \subseteq A \cup {x}
    PROVE  /\ Cardinality(A) \in Nat /\ Cardinality(B) \in Nat
           /\ Cardinality(B) <= Cardinality(A) + 1
<1>1. IsFiniteSet(A \cup {x}) /\ Cardinality(A \cup {x}) <= Cardinality(A) + 1
      /\ Cardinality(A) \in Nat
  BY FS_AddElement, FS_CardinalityType
<1>2. IsFiniteSet(B) /\ Cardinality(B) <= Cardinality(A \cup {x})
  BY <1>1, FS_Subset
<1> QED
  BY <1>1, <1>2, FS_CardinalityType

LEMMA FiniteRest == ASSUME NEW n \in Nat, NEW A PROVE IsFiniteSet((1 .. n) \ A)
<1>1. IsFiniteSet(1 .. n) /\ (1 .. n) \ A \subseteq 1 .. n
  BY FS_Interval
<1> QED
  BY <1>1, FS_Subset

LEMMA NoneLost ==
    ASSUME NEW A, NEW B, IsFiniteSet(A), B \subseteq A
    PROVE  /\ Cardinality(A) \in Nat /\ Cardinality(B) \in Nat
           /\ Cardinality(B) <= Cardinality(A)
BY FS_Subset, FS_CardinalityType

(* The pieces of the line after a step.                                    *)
LEMMA FromQueue ==
    ASSUME NEW S, NEW a \in Seq(S), NEW q \in Seq(S), q # <<>>
    PROVE  (a \o <<Head(q)>>) \o Tail(q) = (a \o <<>>) \o q
<1>1. PICK x, r : x = Head(q) /\ r = Tail(q)
  OBVIOUS
<1>2. x \in S /\ r \in Seq(S) /\ q = <<x>> \o r
  BY <1>1, HeadFirst
<1>3. (a \o <<x>>) \o r = a \o (<<x>> \o r)
  <2>1. <<x>> \in Seq(S)
    BY <1>2
  <2> QED
    BY <1>2, <2>1, Regroup
<1>4. a \o <<>> = a
  OBVIOUS
<1> QED
  BY <1>1, <1>2, <1>3, <1>4

LEMMA ToWire ==
    ASSUME NEW S, NEW s \in Seq(S), NEW u \in Seq(S), NEW x \in S
    PROVE  (s \o Append(u, x)) \o <<>> = (s \o u) \o <<x>>
<1>1. <<x>> \in Seq(S) /\ Append(u, x) = u \o <<x>> /\ Append(u, x) \in Seq(S)
  OBVIOUS
<1>2. (s \o u) \o <<x>> = s \o (u \o <<x>>)
  BY <1>1, Regroup
<1>3. s \o Append(u, x) \in Seq(S)
  BY <1>1
<1>4. (s \o Append(u, x)) \o <<>> = s \o Append(u, x)
  BY <1>3
<1> QED
  BY <1>1, <1>2, <1>4

LEMMA OffWire ==
    ASSUME NEW S, NEW s \in Seq(S), NEW u \in Seq(S), u # <<>>
    PROVE  Append(s, Head(u)) \o Tail(u) = s \o u
<1>1. PICK x, r : x = Head(u) /\ r = Tail(u)
  OBVIOUS
<1>2. x \in S /\ r \in Seq(S) /\ u = <<x>> \o r
  BY <1>1, HeadFirst
<1>3. Append(s, x) \o r = s \o (<<x>> \o r)
  BY <1>2, OneMoves
<1> QED
  BY <1>1, <1>2, <1>3

LEMMA AtTheEnd ==
    ASSUME NEW S, NEW a \in Seq(S), NEW q \in Seq(S), NEW x \in S
    PROVE  a \o Append(q, x) = Append(a \o q, x)
OBVIOUS

LEMMA LineIs ==
    ASSUME TypeOK
    PROVE  /\ served \o up \in Seq(Nat) /\ Slot \in Seq(Nat) /\ queue \in Seq(Nat)
           /\ (served \o up) \o Slot \in Seq(Nat) /\ Line \in Seq(Nat)
           /\ Line = ((served \o up) \o Slot) \o queue
<1>1. Req \subseteq Nat
  BY DEF Req
<1>2. /\ served \in Seq(Nat) /\ up \in Seq(Nat) /\ queue \in Seq(Nat)
      /\ (cli.out = NULL \/ cli.out \in Nat)
  <2>1. \A q \in Seq(Req) : q \in Seq(Nat)
    <3> TAKE q \in Seq(Req)
    <3>1. PICK n \in Nat : q \in [1 .. n -> Req]
      BY SeqDef
    <3>2. q \in [1 .. n -> Nat]
      BY <1>1, <3>1
    <3> QED
      BY <3>1, <3>2, SeqDef
  <2> QED
    BY <1>1, <2>1 DEF TypeOK, End
<1>3. Slot \in Seq(Nat)
  BY <1>2 DEF Slot
<1>4. served \o up \in Seq(Nat)
  BY <1>2, ConcatProperties
<1>5. (served \o up) \o Slot \in Seq(Nat)
  BY <1>3, <1>4, ConcatProperties
<1>6. ((served \o up) \o Slot) \o queue \in Seq(Nat)
  BY <1>2, <1>5, ConcatProperties
<1> QED
  BY <1>2, <1>3, <1>4, <1>5, <1>6 DEF Line, Slot

(* The line stays as it is in every step but two.                          *)
LEMMA TickLine ==
    ASSUME TypeOK, Tick
    PROVE  Line' = Line
<1>1. CASE UNCHANGED <<cli, queue>>
  BY <1>1 DEF Tick, Line
<1>2. CASE MaySend /\ Taken
  <2>1. PICK a, q : a = served \o up /\ q = queue
    OBVIOUS
  <2>2. a \in Seq(Nat) /\ q \in Seq(Nat) /\ q # <<>>
    BY <1>2, <2>1, LineIs DEF Taken
  <2>3. Slot = <<>> /\ Slot' = <<Head(q)>> /\ queue' = Tail(q)
    <3>1. cli.out = NULL /\ cli \in End
      BY <1>2 DEF TypeOK, MaySend, End
    <3>2. Head(q) \in Nat
      BY <2>2, HeadFirst
    <3>3. Head(q) # NULL /\ cli'.out = Head(q)
      BY <1>2, <2>1, <3>1, <3>2, BoundAssumption DEF Taken, End
    <3> QED
      BY <1>2, <2>1, <3>1, <3>3 DEF Taken, Slot
  <2>4. Line' = (a \o <<Head(q)>>) \o Tail(q) /\ Line = (a \o <<>>) \o q
    BY <2>1, <2>3 DEF Line, Slot, Tick
  <2> QED
    BY <2>2, <2>4, FromQueue
<1> QED
  BY <1>1, <1>2 DEF Tick

LEMMA ClientWriteLine ==
    ASSUME TypeOK, ClientWrite
    PROVE  Line' = Line
<1>1. PICK s, u, x, q : s = served /\ u = up /\ x = cli.out /\ q = queue
  OBVIOUS
<1>2. x \in Req /\ x # NULL /\ s \in Seq(Req) /\ u \in Seq(Req) /\ cli \in End
  BY <1>1 DEF ClientWrite, TypeOK, End
<1>3. Slot = <<x>> /\ Slot' = <<>>
  BY <1>1, <1>2 DEF ClientWrite, Written, Slot, End
<1>4. Line = ((s \o u) \o <<x>>) \o q /\ Line' = ((s \o Append(u, x)) \o <<>>) \o q
  BY <1>1, <1>3 DEF Line, Slot, ClientWrite
<1>5. (s \o Append(u, x)) \o <<>> = (s \o u) \o <<x>>
  BY <1>2, ToWire
<1> QED
  BY <1>4, <1>5

LEMMA ServerReadLine ==
    ASSUME TypeOK, ServerRead
    PROVE  Line' = Line
<1>1. PICK s, u : s = served /\ u = up
  OBVIOUS
<1>2. s \in Seq(Req) /\ u \in Seq(Req) /\ u # <<>>
  BY <1>1 DEF ServerRead, TypeOK
<1>3. served' \o up' = s \o u
  <2>1. served' = Append(s, Head(u)) /\ up' = Tail(u)
    BY <1>1 DEF ServerRead
  <2> QED
    BY <1>2, <2>1, OffWire
<1> QED
  BY <1>1, <1>3 DEF Line, ServerRead

(* A new request comes last; an answer may take one out.                   *)
LEMMA IssueLine ==
    ASSUME TypeOK, Issue
    PROVE  Line' = Append(Line, issued + 1)
<1>1. PICK a, q : a = (served \o up) \o Slot /\ q = queue
  OBVIOUS
<1>2. a \in Seq(Nat) /\ q \in Seq(Nat) /\ issued + 1 \in Nat
  BY <1>1, LineIs, BoundAssumption DEF TypeOK
<1>3. Line = a \o q /\ Line' = a \o Append(q, issued + 1)
  BY <1>1 DEF Line, Slot, Issue
<1> QED
  BY <1>2, <1>3, AtTheEnd

LEMMA ClientReadLine ==
    ASSUME TypeOK, ClientRead
    PROVE  \/ Line' = Line
           \/ \E x \in Nat, k \in 1 .. Len(Line) :
                 /\ Line' \in Seq(Nat) /\ Len(Line) = Len(Line') + 1 /\ Line[k] = x
                 /\ \A i \in 1 .. Len(Line') : Line'[i] = Line[IF i < k THEN i ELSE i + 1]
<1>1. PICK a, q, x : a = served \o up /\ q = queue /\ x = cli.out
  OBVIOUS
<1>2. a \in Seq(Nat) /\ q \in Seq(Nat) /\ cli \in End
  BY <1>1, LineIs DEF TypeOK
<1>3. Slot' = <<>>
  BY <1>2 DEF ClientRead, Read, Slot, End
<1>4. CASE x = NULL
  BY <1>1, <1>3, <1>4 DEF ClientRead, Line, Slot
<1>5. CASE x # NULL
  <2>1. x \in Nat /\ Slot = <<x>>
    BY <1>1, <1>2, <1>5 DEF Slot, End, Req
  <2>2. Line = (a \o <<x>>) \o q /\ Line' = (a \o <<>>) \o q
    BY <1>1, <1>3, <2>1 DEF ClientRead, Line, Slot
  <2>3. a \o <<>> = a
    BY <1>2
  <2>4. Line' = a \o q
    BY <2>2, <2>3
  <2>5. LET p == (a \o <<x>>) \o q
            r == a \o q
            k == Len(a) + 1
        IN  /\ p \in Seq(Nat) /\ r \in Seq(Nat) /\ Len(p) = Len(r) + 1
            /\ k \in 1 .. Len(p) /\ p[k] = x
            /\ \A i \in 1 .. Len(r) : r[i] = p[IF i < k THEN i ELSE i + 1]
    BY <1>2, <2>1, BetweenIs
  <2>6. PICK k : k = Len(a) + 1
    OBVIOUS
  <2> QED
    BY <2>1, <2>2, <2>4, <2>5, <2>6
<1> QED
  BY <1>4, <1>5

LEMMA InitLine == Init => LineInv
<1> SUFFICES ASSUME Init PROVE LineInv
  OBVIOUS
<1>1. Line = <<>> /\ issued = 0 /\ got = <<>>
  BY DEF Init, Line, NewClientEnd
<1>2. LostByAnswers
  <2>1. (1 .. issued) \ ToSet(Line) = {}
    BY <1>1
  <2> QED
    BY <1>1, <2>1, FS_EmptySet DEF LostByAnswers
<1>3. Line \in Seq(Nat) /\ Len(Line) = 0
  BY <1>1
<1> QED
  BY <1>2, <1>3 DEF LineInv, Ascending

(* A step that leaves the line as it is.                                   *)
LEMMA LineStays ==
    ASSUME TypeOK, LineInv, Line' = Line, issued' = issued, Len(got') >= Len(got), got' \in Seq(Req)
    PROVE  LineInv'
<1>1. LostByAnswers'
  <2>1. PICK c : c = Cardinality((1 .. issued) \ ToSet(Line))
    OBVIOUS
  <2>2. c \in Nat
    <3>1. IsFiniteSet((1 .. issued) \ ToSet(Line))
      <4>1. issued \in Nat
        BY BoundAssumption DEF TypeOK
      <4> QED
        BY <4>1, FiniteRest
    <3> QED
      BY <2>1, <3>1, FS_CardinalityType
  <2>3. c <= Len(got) /\ Len(got) \in Nat /\ Len(got') \in Nat
    BY <2>1 DEF LineInv, LostByAnswers, TypeOK
  <2>4. Cardinality((1 .. issued') \ ToSet(Line')) = c
    BY <2>1
  <2> QED
    BY <2>2, <2>3, <2>4 DEF LostByAnswers
<1> QED
  BY <1>1 DEF LineInv, Ascending

LEMMA IssueKeepsLine ==
    ASSUME TypeOK, LineInv, Issue
    PROVE  LineInv'
<1>1. PICK n, k, p, q : n = issued /\ k = issued + 1 /\ p = Line /\ q = Line'
  OBVIOUS
<1>2. /\ n \in Nat /\ k = n + 1 /\ issued' = k /\ got' = got /\ Len(got) \in Nat
  BY <1>1, BoundAssumption DEF TypeOK, Issue
<1>3. /\ p \in Seq(Nat) /\ \A i \in 1 .. Len(p) : p[i] <= n
      /\ Ascending(p) /\ q = Append(p, k)
  BY <1>1, IssueLine DEF LineInv
<1>4. k \in Nat /\ \A i \in 1 .. Len(p) : p[i] < k
  BY <1>2, <1>3
<1>5. /\ q \in Seq(Nat) /\ \A i \in 1 .. Len(q) : q[i] <= k
      /\ Ascending(q) /\ ToSet(p) \subseteq ToSet(q) /\ k \in ToSet(q)
  BY <1>3, <1>4, Joins
<1>6. LostByAnswers'
  <2> DEFINE A == (1 .. n) \ ToSet(p)
             B == (1 .. k) \ ToSet(q)
  <2>1. B \subseteq A
    BY <1>2, <1>5
  <2>2. IsFiniteSet(A)
    BY <1>2, FiniteRest
  <2>3. Cardinality(A) <= Len(got) /\ Cardinality((1 .. issued') \ ToSet(Line')) = Cardinality(B)
    BY <1>1, <1>2 DEF LineInv, LostByAnswers
  <2> HIDE DEF A, B
  <2>4. Cardinality(A) \in Nat /\ Cardinality(B) \in Nat /\ Cardinality(B) <= Cardinality(A)
    BY <2>1, <2>2, NoneLost
  <2> QED
    BY <1>2, <2>3, <2>4 DEF LostByAnswers
<1> QED
  BY <1>1, <1>2, <1>5, <1>6 DEF LineInv, Ascending

LEMMA ClientReadKeepsLine ==
    ASSUME TypeOK, LineInv, ClientRead
    PROVE  LineInv'
<1>1. /\ issued' = issued /\ issued \in Nat /\ down # <<>> /\ down \in Seq(Req)
      /\ got \in Seq(Req) /\ got' = Append(got, Head(down))
  BY BoundAssumption DEF TypeOK, ClientRead
<1>2. got' \in Seq(Req) /\ Len(got') = Len(got) + 1 /\ Len(got) \in Nat
  BY <1>1, Queued
<1>3. CASE Line' = Line
  BY <1>1, <1>2, <1>3, LineStays
<1>4. ASSUME NEW x \in Nat, NEW k \in 1 .. Len(Line),
             Line' \in Seq(Nat), Len(Line) = Len(Line') + 1, Line[k] = x,
             \A i \in 1 .. Len(Line') : Line'[i] = Line[IF i < k THEN i ELSE i + 1]
      PROVE  LineInv'
  <2>1. PICK n, p, q : n = issued /\ p = Line /\ q = Line'
    OBVIOUS
  <2>2. /\ p \in Seq(Nat) /\ q \in Seq(Nat) /\ Len(p) = Len(q) + 1
        /\ k \in 1 .. Len(p) /\ p[k] = x /\ n \in Nat /\ Ascending(p)
        /\ \A i \in 1 .. Len(p) : p[i] <= n
        /\ \A i \in 1 .. Len(q) : q[i] = p[IF i < k THEN i ELSE i + 1]
    BY <1>1, <1>4, <2>1 DEF LineInv
  <2>3. Ascending(q) /\ ToSet(p) \subseteq ToSet(q) \cup {x}
    BY <2>2, Without
  <2>4. ASSUME NEW i \in 1 .. Len(q) PROVE q[i] <= n
    <3>1. PICK j \in 1 .. Len(p) : q[i] = p[j]
      <4>1. i \in 1 .. Len(p) /\ i + 1 \in 1 .. Len(p)
        BY <2>2
      <4> QED
        BY <2>2, <4>1
    <3> QED
      BY <2>2, <3>1
  <2>5. LostByAnswers'
    <3>1. (1 .. n) \ ToSet(q) \subseteq ((1 .. n) \ ToSet(p)) \cup {x}
      BY <2>3
    <3>2. IsFiniteSet((1 .. n) \ ToSet(p))
      BY <2>2, FiniteRest
    <3>3. /\ Cardinality((1 .. n) \ ToSet(p)) \in Nat
          /\ Cardinality((1 .. n) \ ToSet(q)) \in Nat
          /\ Cardinality((1 .. n) \ ToSet(q)) <= Cardinality((1 .. n) \ ToSet(p)) + 1
      BY <3>1, <3>2, OneLost
    <3>4. Cardinality((1 .. n) \ ToSet(p)) <= Len(got)
      BY <2>1 DEF LineInv, LostByAnswers
    <3>5. Cardinality((1 .. issued') \ ToSet(Line')) = Cardinality((1 .. n) \ ToSet(q))
      BY <1>1, <2>1
    <3> QED
      BY <1>2, <3>3, <3>4, <3>5 DEF LostByAnswers
  <2> QED
    BY <1>1, <2>1, <2>2, <2>3, <2>4, <2>5 DEF LineInv, Ascending
<1> QED
  BY <1>3, <1>4, ClientReadLine

LEMMA NextLine == TypeOK /\ TypeOK' /\ LineInv /\ [Next]_vars => LineInv'
<1> SUFFICES ASSUME TypeOK, TypeOK', LineInv, [Next]_vars PROVE LineInv'
  OBVIOUS
<1>1. ASSUME Line' = Line, issued' = issued, got' = got PROVE LineInv'
  BY <1>1, LineStays DEF TypeOK
<1>2. CASE Issue
  BY <1>2, IssueKeepsLine
<1>3. CASE Tick
  BY <1>1, <1>3, TickLine DEF Tick
<1>4. CASE ClientWrite
  BY <1>1, <1>4, ClientWriteLine DEF ClientWrite
<1>5. CASE ClientRead
  BY <1>5, ClientReadKeepsLine
<1>6. CASE ServerRead
  BY <1>1, <1>6, ServerReadLine DEF ServerRead
<1>7. CASE ServerWrite
  BY <1>1, <1>7 DEF ServerWrite, Line
<1>8. CASE Close
  BY <1>1, <1>8 DEF Close, Line
<1>9. CASE UNCHANGED vars
  BY <1>1, <1>9 DEF vars, Line
<1> QED
  BY <1>2, <1>3, <1>4, <1>5, <1>6, <1>7, <1>8, <1>9 DEF Next

LEMMA LineHolds == Spec => [](TypeOK /\ LineInv)
<1>1. RequestsInv => TypeOK
  BY DEF RequestsInv
<1> QED
  BY <1>1, InitLine, NextLine, InvHolds, PTL DEF Spec

(* Requests are processed in the order they were typed, and none twice,    *)
(* however the tick of the client falls between the handlers.              *)
THEOREM ServedInOrder == Spec => []InOrder
<1>1. LineInv => InOrder
  BY DEF LineInv, InOrder, IsSorted, Ascending
<1> QED
  BY <1>1, LineHolds, PTL

(* No more requests are lost than answers have been read.                  *)
THEOREM LossesBounded == Spec => []LostByAnswers
<1>1. LineInv => LostByAnswers
  BY DEF LineInv
<1> QED
  BY <1>1, LineHolds, PTL
=============================================================================
