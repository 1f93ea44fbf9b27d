----------------------------- MODULE TopicProofs -----------------------------
(***************************************************************************)
(* Proofs about Topic: no step loses or duplicates a message, none         *)
(* postpones a delayed one, and the topic implements the life of a message *)
(* - for any messages, priorities, delays and bound of the clock.          *)
(***************************************************************************)
EXTENDS Topic, SequenceTheorems, TLAPS

(* The items of a queue, and that none is in it twice.                     *)
Cells(q) == {q[i] : i \in 1 .. Len(q)}
NoRepeat(q) == \A i, j \in 1 .. Len(q) : q[i] = q[j] => i = j

Inv == TypeOK /\ OnePlace /\ NeverLater
-----------------------------------------------------------------------------
(* What the three changes that the heap makes to its array do to the items *)
(* in it.                                                                  *)
LEMMA AppendCells ==
    ASSUME NEW S, NEW q \in Seq(S), NEW m \in S, NoRepeat(q), m \notin Cells(q)
    PROVE  /\ Append(q, m) \in Seq(S)
           /\ Len(Append(q, m)) = Len(q) + 1
           /\ Cells(Append(q, m)) = Cells(q) \cup {m}
           /\ NoRepeat(Append(q, m))
<1> DEFINE r == Append(q, m)
<1>1. /\ r \in Seq(S)
      /\ Len(r) = Len(q) + 1
      /\ \A i \in 1 .. Len(q) : r[i] = q[i]
      /\ r[Len(q) + 1] = m
      /\ Len(q) \in Nat
  OBVIOUS
<1> HIDE DEF r
<1>2. Cells(r) \subseteq Cells(q) \cup {m}
  BY <1>1 DEF Cells
<1>3. Cells(q) \cup {m} \subseteq Cells(r)
  <2>1. m \in Cells(r)
    BY <1>1 DEF Cells
  <2>2. \A i \in 1 .. Len(q) : i \in 1 .. Len(r)
    BY <1>1
  <2>3. Cells(q) \subseteq Cells(r)
    BY <1>1, <2>2 DEF Cells
  <2>4. QED
    BY <2>1, <2>3
<1>4. NoRepeat(r)
  BY <1>1 DEF NoRepeat, Cells
<1>5. QED
  BY <1>1, <1>2, <1>3, <1>4 DEF r

LEMMA SwappedCells ==
    ASSUME NEW S, NEW q \in Seq(S), NEW i \in 1 .. Len(q), NEW j \in 1 .. Len(q),
           NoRepeat(q)
    PROVE  /\ Swapped(q, i, j) \in Seq(S)
           /\ Len(Swapped(q, i, j)) = Len(q)
           /\ Cells(Swapped(q, i, j)) = Cells(q)
           /\ NoRepeat(Swapped(q, i, j))
<1> DEFINE r == Swapped(q, i, j)
<1>1. q[i] \in S /\ q[j] \in S /\ Len(q) \in Nat
  BY ElementOfSeq, LenProperties
<1>2. /\ r \in Seq(S)
      /\ Len(r) = Len(q)
      /\ \A n \in 1 .. Len(q) :
            r[n] = IF n = j THEN q[i] ELSE IF n = i THEN q[j] ELSE q[n]
  BY <1>1, ExceptSeq DEF Swapped
<1> HIDE DEF r
<1>3. Cells(r) \subseteq Cells(q)
  BY <1>2 DEF Cells
<1>4. Cells(q) \subseteq Cells(r)
  <2>1. SUFFICES ASSUME NEW n \in 1 .. Len(q) PROVE q[n] \in Cells(r)
    BY DEF Cells
  <2>2. \E w \in 1 .. Len(q) : r[w] = q[n]
    BY <1>2
  <2>3. QED
    BY <2>2, <1>2 DEF Cells
<1>5. NoRepeat(r)
  BY <1>2 DEF NoRepeat
<1>6. QED
  BY <1>2, <1>3, <1>4, <1>5 DEF r

LEMMA WithoutRootCells ==
    ASSUME NEW S, NEW q \in Seq(S), q # <<>>, NoRepeat(q)
    PROVE  /\ q[1] \in S
           /\ WithoutRoot(q) \in Seq(S)
           /\ Len(WithoutRoot(q)) = Len(q) - 1
           /\ Cells(WithoutRoot(q)) = Cells(q) \ {q[1]}
           /\ q[1] \in Cells(q)
           /\ NoRepeat(WithoutRoot(q))
<1> DEFINE n == Len(q)
           e == [q EXCEPT ![1] = q[n]]
           r == WithoutRoot(q)
<1>1. n \in Nat \ {0}
  BY EmptySeq
<1>2. q[1] \in S /\ q[n] \in S
  BY <1>1, ElementOfSeq
<1>3. /\ e \in Seq(S) /\ Len(e) = n
      /\ \A i \in 1 .. n : e[i] = IF i = 1 THEN q[n] ELSE q[i]
  BY <1>1, <1>2, ExceptSeq
<1>4. \A i \in 1 .. n - 1 : e[i] \in S
  BY <1>3, <1>1, ElementOfSeq
<1>5. /\ r \in Seq(S)
      /\ Len(r) = n - 1
      /\ \A i \in 1 .. n - 1 : r[i] = e[i]
  <2>1. r = SubSeq(e, 1, n - 1)
    BY DEF WithoutRoot
  <2> HIDE DEF e, r, n
  <2>2. n - 1 \in Int /\ 1 \in Int
    BY <1>1
  <2>3. /\ SubSeq(e, 1, n - 1) \in Seq(S)
        /\ Len(SubSeq(e, 1, n - 1)) = IF 1 <= n - 1 THEN (n - 1) - 1 + 1 ELSE 0
        /\ \A i \in 1 .. (n - 1) - 1 + 1 : SubSeq(e, 1, n - 1)[i] = e[1 + i - 1]
    BY <1>4, <2>2, SubSeqProperties
  <2>4. QED
    BY <1>1, <2>1, <2>3
<1>6. \A i \in 1 .. n - 1 : r[i] = IF i = 1 THEN q[n] ELSE q[i]
  BY <1>1, <1>3, <1>5
<1> HIDE DEF e, r
<1>7. Cells(r) \subseteq Cells(q) \ {q[1]}
  BY <1>1, <1>5, <1>6 DEF Cells, NoRepeat
<1>8. Cells(q) \ {q[1]} \subseteq Cells(r)
  <2>1. SUFFICES ASSUME NEW i \in 2 .. n PROVE q[i] \in Cells(r)
    BY <1>1 DEF Cells
  <2>2. \E w \in 1 .. n - 1 : r[w] = q[i]
    BY <1>1, <1>6
  <2>3. QED
    BY <2>2, <1>5 DEF Cells
<1>9. NoRepeat(r)
  BY <1>1, <1>5, <1>6 DEF NoRepeat
<1>10. q[1] \in Cells(q)
  BY <1>1 DEF Cells
<1>11. QED
  BY <1>2, <1>5, <1>7, <1>8, <1>9, <1>10 DEF r
-----------------------------------------------------------------------------
(* The comparator lowers the activetime of one message to another one's,   *)
(* or leaves it.                                                           *)
LEMMA AssignedLowers ==
    ASSUME NEW t \in [Msg -> Int], NEW a \in Msg, NEW b \in Msg
    PROVE  /\ Assigned(t, a, b) \in [Msg -> Int]
           /\ \A m \in Msg : Assigned(t, a, b)[m] <= t[m]
BY DEF Assigned

LEMMA QueueFacts ==
    ASSUME Inv
    PROVE  /\ delayQ \in Seq(Msg) /\ NoRepeat(delayQ)
           /\ Len(delayQ) \in Nat
           /\ Cells(delayQ) = Delayed
           /\ Delayed \subseteq Msg
           /\ \A i \in 1 .. Len(delayQ) : delayQ[i] \in Msg
<1>1. delayQ \in Seq(Msg) /\ NoRepeat(delayQ)
  BY DEF Inv, TypeOK, OnePlace, NoRepeat
<1>2. \A i \in 1 .. Len(delayQ) : delayQ[i] \in Msg
  BY <1>1, ElementOfSeq
<1>3. Len(delayQ) \in Nat
  BY <1>1, LenProperties
<1>4. QED
  BY <1>1, <1>2, <1>3 DEF Cells, Delayed

(* What addMessage does with a message that has just left its place.       *)
LEMMA AddMessageMoves ==
    ASSUME Inv, pc = "idle", NEW m \in Msg, NEW t \in Int, NEW d \in Int,
           m \notin Delayed, AddMessage(m, t, d)
    PROVE  /\ delayQ' \in Seq(Msg) /\ NoRepeat(delayQ')
           /\ pc' \in {"idle", "down"}
           /\ pc' = "down" => c' < Len(delayQ')
           /\ c' \in Nat
           /\ at' \in [Msg -> Int] /\ due' \in [Msg -> Int]
           /\ now' = now /\ hand' = NULL /\ hand = NULL
           /\ \A x \in Msg \ {m} : at'[x] = at[x] /\ due'[x] = due[x]
           /\ \/ /\ Delayed' = Delayed \cup {m} /\ at'[m] = due'[m]
                 /\ ready' = ready /\ lost' = lost
              \/ /\ Delayed' = Delayed
                 /\ ready' = ready \cup {m} /\ lost' = lost
              \/ /\ Delayed' = Delayed /\ MayFail
                 /\ ready' = ready /\ lost' = lost \cup {m}
<1> USE DEF Inv
<1>1. /\ at \in [Msg -> Int] /\ due \in [Msg -> Int]
      /\ now \in Int /\ c \in Nat /\ hand = NULL
  BY DEF TypeOK
<1>2. /\ at' \in [Msg -> Int]
      /\ at'[m] = t + NonNegative(d)
      /\ \A x \in Msg \ {m} : at'[x] = at[x]
      /\ now' = now /\ hand' = NULL
  BY <1>1 DEF AddMessage, NonNegative
<1>3. CASE d > 0 /\ EnterDelay(m) /\ UNCHANGED ready
           /\ due' = [due EXCEPT ![m] = t + d]
  <2>1. /\ due' \in [Msg -> Int]
        /\ due'[m] = at'[m]
        /\ \A x \in Msg \ {m} : due'[x] = due[x]
    BY <1>1, <1>2, <1>3 DEF NonNegative
  <2>2. CASE delayQ' = Append(delayQ, m) /\ pc' = "down" /\ c' = Len(delayQ)
             /\ UNCHANGED lost
    <3>1. /\ delayQ' \in Seq(Msg)
          /\ Len(delayQ') = Len(delayQ) + 1
          /\ Cells(delayQ') = Cells(delayQ) \cup {m}
          /\ NoRepeat(delayQ')
      BY <2>2, QueueFacts, AppendCells
    <3>2. Delayed' = Delayed \cup {m}
      BY <3>1, QueueFacts DEF Cells, Delayed
    <3>3. QED
      BY <1>1, <1>2, <1>3, <2>1, <2>2, <3>1, <3>2, QueueFacts
  <2>3. CASE MayLose(m) /\ lost' = lost \cup {m} /\ UNCHANGED <<delayQ, pc, c>>
    BY <1>1, <1>2, <1>3, <2>1, <2>3, QueueFacts DEF Delayed, MayLose
  <2>4. QED
    BY <1>3, <2>2, <2>3 DEF EnterDelay
<1>4. CASE d <= 0 /\ EnterReady(m) /\ UNCHANGED <<delayQ, due, pc, c>>
  BY <1>1, <1>2, <1>4, QueueFacts DEF EnterReady, MayLose, Delayed
<1>5. QED
  BY <1>3, <1>4 DEF AddMessage

(* bq_add: the message leaves fresh for the places addMessage chooses.     *)
LEMMA AddKeeps ==
    ASSUME Inv, NEW m \in Msg, NEW p \in Priority[m], NEW d \in Delays,
           Add(m, p, d)
    PROVE  Inv'
<1> USE DEF Inv
<1>1. m \notin Delayed /\ m \in fresh /\ pc = "idle"
  BY DEF Add, OnePlace, Held
<1>2. now + d \in Int /\ d \in Int /\ p \in Int
  BY BoundAssumption DEF TypeOK
<1>3. AddMessage(m, now + d, d)
  BY DEF Add
<1>4. /\ delayQ' \in Seq(Msg) /\ NoRepeat(delayQ')
      /\ pc' \in {"idle", "down"} /\ (pc' = "down" => c' < Len(delayQ'))
      /\ c' \in Nat
      /\ at' \in [Msg -> Int] /\ due' \in [Msg -> Int]
      /\ now' = now /\ hand' = NULL /\ hand = NULL
      /\ \A x \in Msg \ {m} : at'[x] = at[x] /\ due'[x] = due[x]
      /\ \/ /\ Delayed' = Delayed \cup {m} /\ at'[m] = due'[m]
            /\ ready' = ready /\ lost' = lost
         \/ /\ Delayed' = Delayed
            /\ ready' = ready \cup {m} /\ lost' = lost
         \/ /\ Delayed' = Delayed
            /\ ready' = ready /\ lost' = lost \cup {m}
  BY <1>1, <1>2, <1>3, AddMessageMoves
<1>5. TypeOK'
  <2>1. /\ fresh' = fresh \ {m} /\ prio' = [prio EXCEPT ![m] = p]
        /\ using' = using /\ sleep' = sleep /\ freed' = freed
    BY DEF Add
  <2>2. /\ fresh' \subseteq Msg /\ using' \subseteq Msg /\ sleep' \subseteq Msg
        /\ freed' \subseteq Msg /\ ready' \subseteq Msg /\ lost' \subseteq Msg
    BY <1>4, <2>1 DEF TypeOK
  <2>3. prio' \in [Msg -> Int] /\ now' \in Int
    BY <1>2, <1>4, <2>1 DEF TypeOK
  <2>4. asked' \in [Msg -> Int]
    BY <1>2 DEF TypeOK, Add
  <2>5. QED
    BY <1>4, <2>2, <2>3, <2>4 DEF TypeOK
<1>6. Held = Delayed /\ Held' = Delayed'
  BY <1>4, NullAssumption DEF Held
<1>7. OnePlace'
  <2>1. /\ fresh' = fresh \ {m}
        /\ using' = using /\ sleep' = sleep /\ freed' = freed
    BY DEF Add
  <2>2. hand' \notin Delayed'
    BY <1>4, QueueFacts, NullAssumption
  <2>3. QED
    BY <1>1, <1>4, <1>6, <2>1, <2>2 DEF OnePlace, NoRepeat
<1>8. NeverLater'
  <2>1. \A x \in Delayed : x \in Msg \ {m} /\ at[x] <= due[x]
    BY <1>1, <1>6, QueueFacts DEF NeverLater
  <2>2. \A x \in Delayed : at'[x] <= due'[x]
    BY <1>4, <2>1
  <2>3. at'[m] = due'[m] => at'[m] <= due'[m]
    BY <1>4
  <2>4. QED
    BY <1>4, <1>6, <2>2, <2>3 DEF NeverLater
<1>9. QED
  BY <1>5, <1>7, <1>8

LEMMA ReuseKeeps ==
    ASSUME Inv, NEW m \in Msg, NEW d \in Delays, Reuse(m, d)
    PROVE  Inv'
<1> USE DEF Inv
<1>1. m \notin Delayed /\ m \in using /\ pc = "idle"
  BY DEF Reuse, OnePlace, Held
<1>2. at[m] \in Int /\ d \in Int
  BY BoundAssumption DEF TypeOK
<1>3. /\ AddMessage(m, at[m], d)
      /\ using' = using \ {m}
      /\ sleep' = sleep /\ fresh' = fresh /\ freed' = freed /\ prio' = prio
      /\ asked' = asked
  BY DEF Reuse
<1>4. /\ delayQ' \in Seq(Msg) /\ NoRepeat(delayQ')
      /\ pc' \in {"idle", "down"} /\ (pc' = "down" => c' < Len(delayQ'))
      /\ c' \in Nat
      /\ at' \in [Msg -> Int] /\ due' \in [Msg -> Int]
      /\ now' = now /\ hand' = NULL /\ hand = NULL
      /\ \A x \in Msg \ {m} : at'[x] = at[x] /\ due'[x] = due[x]
      /\ \/ /\ Delayed' = Delayed \cup {m} /\ at'[m] = due'[m]
            /\ ready' = ready /\ lost' = lost
         \/ /\ Delayed' = Delayed
            /\ ready' = ready \cup {m} /\ lost' = lost
         \/ /\ Delayed' = Delayed
            /\ ready' = ready /\ lost' = lost \cup {m}
  BY <1>1, <1>2, <1>3, AddMessageMoves
<1>5. TypeOK'
  BY <1>3, <1>4 DEF TypeOK
<1>6. Held = Delayed /\ Held' = Delayed'
  BY <1>4, NullAssumption DEF Held
<1>7. hand' \notin Delayed'
  BY <1>4, QueueFacts, NullAssumption
<1>8. OnePlace'
  BY <1>1, <1>3, <1>4, <1>6, <1>7 DEF OnePlace, NoRepeat
<1>9. NeverLater'
  <2>1. \A x \in Delayed : x \in Msg \ {m} /\ at[x] <= due[x]
    BY <1>1, <1>6, QueueFacts DEF NeverLater
  <2>2. \A x \in Delayed : at'[x] <= due'[x]
    BY <1>4, <2>1
  <2>3. at'[m] = due'[m] => at'[m] <= due'[m]
    BY <1>4
  <2>4. QED
    BY <1>4, <1>6, <2>2, <2>3 DEF NeverLater
<1>10. QED
  BY <1>5, <1>8, <1>9

LEMMA WakeUpKeeps ==
    ASSUME Inv, NEW m \in Msg, NEW d \in Delays, WakeUp(m, d)
    PROVE  Inv'
<1> USE DEF Inv
<1>1. m \notin Delayed /\ m \in sleep /\ pc = "idle"
  BY DEF WakeUp, OnePlace, Held
<1>2. at[m] \in Int /\ d \in Int
  BY BoundAssumption DEF TypeOK
<1>3. /\ AddMessage(m, at[m], d)
      /\ sleep' = sleep \ {m}
      /\ using' = using /\ fresh' = fresh /\ freed' = freed /\ prio' = prio
      /\ asked' = asked
  BY DEF WakeUp
<1>4. /\ delayQ' \in Seq(Msg) /\ NoRepeat(delayQ')
      /\ pc' \in {"idle", "down"} /\ (pc' = "down" => c' < Len(delayQ'))
      /\ c' \in Nat
      /\ at' \in [Msg -> Int] /\ due' \in [Msg -> Int]
      /\ now' = now /\ hand' = NULL /\ hand = NULL
      /\ \A x \in Msg \ {m} : at'[x] = at[x] /\ due'[x] = due[x]
      /\ \/ /\ Delayed' = Delayed \cup {m} /\ at'[m] = due'[m]
            /\ ready' = ready /\ lost' = lost
         \/ /\ Delayed' = Delayed
            /\ ready' = ready \cup {m} /\ lost' = lost
         \/ /\ Delayed' = Delayed
            /\ ready' = ready /\ lost' = lost \cup {m}
  BY <1>1, <1>2, <1>3, AddMessageMoves
<1>5. TypeOK'
  BY <1>3, <1>4 DEF TypeOK
<1>6. Held = Delayed /\ Held' = Delayed'
  BY <1>4, NullAssumption DEF Held
<1>7. hand' \notin Delayed'
  BY <1>4, QueueFacts, NullAssumption
<1>8. OnePlace'
  BY <1>1, <1>3, <1>4, <1>6, <1>7 DEF OnePlace, NoRepeat
<1>9. NeverLater'
  <2>1. \A x \in Delayed : x \in Msg \ {m} /\ at[x] <= due[x]
    BY <1>1, <1>6, QueueFacts DEF NeverLater
  <2>2. \A x \in Delayed : at'[x] <= due'[x]
    BY <1>4, <2>1
  <2>3. at'[m] = due'[m] => at'[m] <= due'[m]
    BY <1>4
  <2>4. QED
    BY <1>4, <1>6, <2>2, <2>3 DEF NeverLater
<1>10. QED
  BY <1>5, <1>8, <1>9

LEMMA GetKeeps ==
    ASSUME Inv, NEW m \in Msg, Get(m)
    PROVE  Inv'
<1> USE DEF Inv
<1>1. Delayed' = Delayed /\ Held' = Held
  BY DEF Get, Delayed, Held
<1>2. TypeOK'
  BY DEF TypeOK, Get
<1>3. OnePlace'
  BY <1>1 DEF OnePlace, Get
<1>4. NeverLater'
  BY <1>1 DEF NeverLater, Get
<1>5. QED
  BY <1>2, <1>3, <1>4

LEMMA SleepKeeps ==
    ASSUME Inv, NEW m \in Msg, Sleep(m)
    PROVE  Inv'
<1> USE DEF Inv
<1>1. Delayed' = Delayed /\ Held' = Held
  BY DEF Sleep, Delayed, Held
<1>2. TypeOK'
  BY DEF TypeOK, Sleep
<1>3. OnePlace'
  BY <1>1 DEF OnePlace, Sleep
<1>4. NeverLater'
  BY <1>1 DEF NeverLater, Sleep
<1>5. QED
  BY <1>2, <1>3, <1>4

LEMMA DeleteKeeps ==
    ASSUME Inv, NEW m \in Msg, Delete(m)
    PROVE  Inv'
<1> USE DEF Inv
<1>1. Delayed' = Delayed /\ Held' = Held
  BY DEF Delete, Delayed, Held
<1>2. TypeOK'
  BY DEF TypeOK, Delete
<1>3. OnePlace'
  BY <1>1 DEF OnePlace, Delete
<1>4. NeverLater'
  BY <1>1, QueueFacts DEF NeverLater, Delete, OnePlace, TypeOK, Held
<1>5. QED
  BY <1>2, <1>3, <1>4

LEMMA DoneKeeps ==
    ASSUME Inv, TickDone
    PROVE  Inv'
<1> USE DEF Inv
<1>1. Delayed' = Delayed /\ Held' = Held
  BY DEF TickDone, Delayed, Held
<1>2. TypeOK'
  BY DEF TypeOK, TickDone
<1>3. OnePlace'
  BY <1>1 DEF OnePlace, TickDone
<1>4. NeverLater'
  BY <1>1 DEF NeverLater, TickDone
<1>5. QED
  BY <1>2, <1>3, <1>4

LEMMA ClockKeeps ==
    ASSUME Inv, Clock
    PROVE  Inv'
<1> USE DEF Inv
<1>1. Delayed' = Delayed /\ Held' = Held
  BY DEF Clock, Delayed, Held
<1>2. TypeOK'
  BY DEF TypeOK, Clock
<1>3. OnePlace'
  BY <1>1 DEF OnePlace, Clock
<1>4. NeverLater'
  BY <1>1 DEF NeverLater, Clock
<1>5. QED
  BY <1>2, <1>3, <1>4

LEMMA FreeTopicKeeps ==
    ASSUME Inv, FreeTopic
    PROVE  Inv'
<1> USE DEF Inv
<1>1. /\ delayQ' = <<>> /\ Len(delayQ') = 0 /\ delayQ' \in Seq(Msg)
      /\ hand = NULL /\ hand' = NULL /\ pc = "idle" /\ pc' = "idle"
  BY DEF FreeTopic, TypeOK
<1>2. Delayed' = {} /\ Held' = {} /\ Held = Delayed
  BY <1>1, NullAssumption DEF Delayed, Held
<1>3. TypeOK'
  BY <1>1, QueueFacts DEF TypeOK, FreeTopic
<1>4. OnePlace'
  BY <1>1, <1>2 DEF OnePlace, FreeTopic
<1>5. NeverLater'
  BY <1>2 DEF NeverLater
<1>6. QED
  BY <1>3, <1>4, <1>5

LEMMA TakeKeeps ==
    ASSUME Inv, TickTake
    PROVE  Inv' /\ Held' = Held
<1> USE DEF Inv
<1>1. /\ hand = NULL /\ hand' = delayQ[1] /\ delayQ' = WithoutRoot(delayQ)
      /\ pc' = "up" /\ c' = 0 /\ delayQ # <<>>
      /\ UNCHANGED <<ready, using, sleep, fresh, freed, lost, at, prio, due,
                     asked, now>>
  BY DEF TickTake, TypeOK
<1>2. /\ hand' \in Msg
      /\ delayQ' \in Seq(Msg)
      /\ Cells(delayQ') = Cells(delayQ) \ {hand'}
      /\ hand' \in Cells(delayQ)
      /\ NoRepeat(delayQ')
  BY <1>1, QueueFacts, WithoutRootCells
<1>3. Delayed' = Delayed \ {hand'} /\ hand' \in Delayed
  BY <1>2, QueueFacts DEF Cells, Delayed
<1>4. Held' = Held
  BY <1>1, <1>2, <1>3, NullAssumption DEF Held
<1>5. Len(delayQ') \in Nat
  BY <1>2, LenProperties
<1>6. TypeOK'
  BY <1>1, <1>2, <1>5 DEF TypeOK
<1>7. OnePlace'
  BY <1>1, <1>2, <1>3, <1>4 DEF OnePlace, NoRepeat
<1>8. NeverLater'
  BY <1>1, <1>4 DEF NeverLater
<1>9. QED
  BY <1>4, <1>6, <1>7, <1>8

LEMMA ReleaseKeeps ==
    ASSUME Inv, TickRelease
    PROVE  Inv' /\ hand \in Held /\ Held' = Held \ {hand}
<1> USE DEF Inv
<1>1. /\ hand \in Msg /\ hand' = NULL /\ pc' = "tick"
      /\ due' = [due EXCEPT ![hand] = 0]
      /\ asked' = [asked EXCEPT ![hand] = 0]
      /\ UNCHANGED <<using, sleep, delayQ, fresh, freed, at, prio, now, c>>
      /\ \/ ready' = ready \cup {hand} /\ lost' = lost
         \/ lost' = lost \cup {hand} /\ ready' = ready
  BY DEF TickRelease, TypeOK, EnterReady
<1>2. Delayed' = Delayed /\ hand \in Held /\ Held' = Held \ {hand}
  BY <1>1, NullAssumption DEF Delayed, Held, OnePlace
<1>3. hand' \notin Delayed'
  BY <1>1, <1>2, QueueFacts, NullAssumption
<1>4. TypeOK'
  BY <1>1 DEF TypeOK
<1>5. OnePlace'
  BY <1>1, <1>2, <1>3 DEF OnePlace
<1>6. NeverLater'
  BY <1>1, <1>2, QueueFacts DEF NeverLater, TypeOK, Held
<1>7. QED
  BY <1>2, <1>4, <1>5, <1>6

LEMMA PutBackKeeps ==
    ASSUME Inv, TickPutBack
    PROVE  Inv' /\ Held' = Held
<1> USE DEF Inv
<1>1. /\ hand \in Msg /\ hand' = NULL /\ hand \notin Delayed
      /\ delayQ' = Append(delayQ, hand) /\ pc' = "down" /\ c' = Len(delayQ)
      /\ UNCHANGED <<ready, using, sleep, fresh, freed, lost, at, prio, due,
                     asked, now>>
  BY DEF TickPutBack, TypeOK, OnePlace
<1>2. /\ delayQ' \in Seq(Msg)
      /\ Len(delayQ') = Len(delayQ) + 1
      /\ Cells(delayQ') = Cells(delayQ) \cup {hand}
      /\ NoRepeat(delayQ')
  BY <1>1, QueueFacts, AppendCells
<1>3. Delayed' = Delayed \cup {hand} /\ Delayed' \subseteq Msg
  BY <1>1, <1>2, QueueFacts DEF Cells, Delayed
<1>4. Held' = Held /\ hand' \notin Delayed'
  BY <1>1, <1>3, NullAssumption DEF Held
<1>5. TypeOK'
  BY <1>1, <1>2, QueueFacts DEF TypeOK
<1>6. OnePlace'
  BY <1>1, <1>2, <1>4 DEF OnePlace, NoRepeat
<1>7. NeverLater'
  BY <1>1, <1>4 DEF NeverLater
<1>8. QED
  BY <1>4, <1>5, <1>6, <1>7

(* An iteration of a sift loop permutes the queue and postpones nothing.   *)
LEMMA SiftKeeps ==
    ASSUME Inv, pc \in {"down", "up"},
           at' \in [Msg -> Int], \A m \in Msg : at'[m] <= at[m],
           \/ delayQ' = delayQ
           \/ \E i, j \in 1 .. Len(delayQ) : delayQ' = Swapped(delayQ, i, j),
           pc' \in {"idle", "down", "up", "check"},
           pc' \in {"down", "up"} <=> pc' = pc,
           pc' = "idle" => pc = "down", pc' = "check" => pc = "up",
           c' \in Nat, pc' = "down" => c' < Len(delayQ),
           pc' = "up" => c' <= Len(delayQ),
           UNCHANGED <<ready, using, sleep, fresh, freed, lost, prio, due, asked,
                       now, hand>>
    PROVE  Inv' /\ Held' = Held
<1> USE DEF Inv
<1>1. /\ delayQ' \in Seq(Msg) /\ NoRepeat(delayQ')
      /\ Len(delayQ') = Len(delayQ)
      /\ Cells(delayQ') = Cells(delayQ)
  BY QueueFacts, SwappedCells
<1>2. Delayed' = Delayed
  BY <1>1, QueueFacts DEF Cells, Delayed
<1>3. Held' = Held
  BY <1>2 DEF Held
<1>4. TypeOK'
  BY <1>1 DEF TypeOK
<1>5. OnePlace'
  BY <1>1, <1>2, <1>3 DEF OnePlace, NoRepeat
<1>6. NeverLater'
  <2>1. SUFFICES ASSUME NEW m \in Held PROVE at'[m] <= due[m]
    BY <1>3 DEF NeverLater
  <2>2. m \in Msg
    BY QueueFacts DEF Held
  <2>3. at[m] \in Int /\ at'[m] \in Int /\ due[m] \in Int
    BY <2>2 DEF TypeOK
  <2>4. at'[m] <= at[m] /\ at[m] <= due[m]
    BY <2>1, <2>2 DEF NeverLater
  <2>5. QED
    BY <2>3, <2>4
<1>7. QED
  BY <1>3, <1>4, <1>5, <1>6

LEMMA SiftDownKeeps ==
    ASSUME Inv, SiftDown
    PROVE  Inv' /\ Held' = Held
<1> DEFINE p == (c - 1) \div 2
           a == delayQ[p + 1]
           b == delayQ[c + 1]
<1>1. /\ pc = "down" /\ c \in Nat /\ c < Len(delayQ) /\ at \in [Msg -> Int]
      /\ UNCHANGED <<ready, using, sleep, fresh, freed, lost, prio, due, asked,
                     now, hand>>
  BY DEF SiftDown, Inv, TypeOK
<1>2. CASE c = 0 /\ pc' = "idle" /\ UNCHANGED <<delayQ, at, c>>
  BY <1>1, <1>2, SiftKeeps
<1>3. CASE c # 0 /\ at' = Assigned(at, a, b)
  <2>0. p \in Int /\ 2 * p <= c - 1 /\ c - 1 < 2 * p + 2
    BY <1>1
  <2> HIDE DEF p
  <2>1. p \in Nat /\ p < c /\ c + 1 \in 1 .. Len(delayQ) /\ p + 1 \in 1 .. Len(delayQ)
    BY <1>1, <1>3, <2>0, QueueFacts
  <2>2. a \in Msg /\ b \in Msg
    BY <2>1, QueueFacts
  <2>3. at' \in [Msg -> Int] /\ \A m \in Msg : at'[m] <= at[m]
    BY <1>1, <1>3, <2>2, AssignedLowers
  <2>4. CASE Earlier(at, a, b) /\ pc' = "idle" /\ c' = 0 /\ UNCHANGED delayQ
    BY <1>1, <2>3, <2>4, SiftKeeps
  <2>5. CASE ~Earlier(at, a, b) /\ delayQ' = Swapped(delayQ, c + 1, p + 1)
             /\ c' = p /\ UNCHANGED pc
    <3>1. \E i, j \in 1 .. Len(delayQ) : delayQ' = Swapped(delayQ, i, j)
      BY <2>1, <2>5
    <3>2. c' \in Nat /\ c' < Len(delayQ)
      BY <1>1, <2>1, <2>5, QueueFacts
    <3>3. QED
      BY <1>1, <2>3, <2>5, <3>1, <3>2, SiftKeeps
  <2>6. QED
    BY <1>1, <1>3, <2>4, <2>5 DEF SiftDown, p
<1>4. QED
  BY <1>2, <1>3 DEF SiftDown

LEMMA SiftUpKeeps ==
    ASSUME Inv, SiftUp
    PROVE  Inv' /\ Held' = Held
<1> DEFINE l == c * 2 + 1
           r == c * 2 + 2
           s == Chosen(at, c, l)
           t == After(at, c, l)
           w == Chosen(t, s, r)
<1>1. /\ pc = "up" /\ c \in Nat /\ c <= Len(delayQ) /\ at \in [Msg -> Int]
      /\ UNCHANGED <<ready, using, sleep, fresh, freed, lost, prio, due, asked,
                     now, hand>>
  BY DEF SiftUp, Inv, TypeOK
<1>2. l \in Nat /\ r \in Nat /\ c < l /\ l < r
  BY <1>1
<1>3. /\ s \in Nat /\ (s = c \/ (s = l /\ l < Len(delayQ)))
      /\ t \in [Msg -> Int]
      /\ \A m \in Msg : t[m] <= at[m]
  <2>1. CASE l < Len(delayQ)
    <3>1. delayQ[l + 1] \in Msg /\ delayQ[c + 1] \in Msg
      BY <1>1, <1>2, <2>1, QueueFacts
    <3>2. t = Assigned(at, delayQ[l + 1], delayQ[c + 1])
      BY <2>1 DEF After
    <3>3. /\ t \in [Msg -> Int]
          /\ \A m \in Msg : t[m] <= at[m]
      BY <1>1, <3>1, <3>2, AssignedLowers
    <3>4. s \in Nat /\ (s = c \/ s = l)
      BY <1>1, <1>2 DEF Chosen
    <3>5. QED
      BY <2>1, <3>3, <3>4
  <2>2. CASE ~(l < Len(delayQ))
    BY <1>1, <2>2 DEF Chosen, After
  <2>3. QED
    BY <2>1, <2>2
<1> HIDE DEF s, t
<1>4. /\ w \in Nat /\ (w = s \/ (w = r /\ r < Len(delayQ)))
      /\ After(t, s, r) \in [Msg -> Int]
      /\ \A m \in Msg : After(t, s, r)[m] <= at[m]
  <2>1. CASE r < Len(delayQ)
    <3>1. delayQ[r + 1] \in Msg /\ delayQ[s + 1] \in Msg
      BY <1>1, <1>2, <1>3, <2>1, QueueFacts
    <3>2. After(t, s, r) = Assigned(t, delayQ[r + 1], delayQ[s + 1])
      BY <2>1 DEF After
    <3>3. /\ After(t, s, r) \in [Msg -> Int]
          /\ \A m \in Msg : After(t, s, r)[m] <= t[m]
      BY <1>3, <3>1, <3>2, AssignedLowers
    <3>4. \A m \in Msg : After(t, s, r)[m] <= at[m]
      BY <1>1, <1>3, <3>3
    <3>5. w \in Nat /\ (w = s \/ w = r)
      BY <1>2, <1>3 DEF Chosen
    <3>6. QED
      BY <2>1, <3>3, <3>4, <3>5
  <2>2. CASE ~(r < Len(delayQ))
    BY <1>1, <1>3, <2>2 DEF Chosen, After
  <2>3. QED
    BY <2>1, <2>2
<1>5. at' = After(t, s, r)
  BY DEF SiftUp, s, t
<1>6. CASE w = c /\ pc' = "check" /\ c' = 0 /\ UNCHANGED delayQ
  BY <1>1, <1>4, <1>5, <1>6, SiftKeeps
<1>7. CASE w # c /\ delayQ' = Swapped(delayQ, c + 1, w + 1) /\ c' = w
           /\ UNCHANGED pc
  <2>0. Len(delayQ) \in Nat /\ w \in Nat /\ w # c
    BY <1>4, <1>7, QueueFacts
  <2> HIDE DEF w
  <2>1. c < Len(delayQ) /\ w < Len(delayQ)
    BY <1>1, <1>2, <1>3, <1>4, <2>0
  <2>2. c + 1 \in 1 .. Len(delayQ) /\ w + 1 \in 1 .. Len(delayQ)
    BY <1>1, <1>4, <2>1, QueueFacts
  <2>3. \E i, j \in 1 .. Len(delayQ) : delayQ' = Swapped(delayQ, i, j)
    BY <1>7, <2>2
  <2>4. c' \in Nat /\ c' <= Len(delayQ)
    BY <1>4, <1>7, <2>1, QueueFacts
  <2>5. QED
    BY <1>1, <1>4, <1>5, <1>7, <2>3, <2>4, SiftKeeps
<1>8. QED
  BY <1>1, <1>6, <1>7 DEF SiftUp, s, t

LEMMA NextKeeps ==
    ASSUME Inv, [Next]_vars
    PROVE  Inv'
<1>1. ASSUME NEW m \in Msg, NEW d \in Delays, NEW p \in Priority[m], Add(m, p, d)
      PROVE  Inv'
  BY <1>1, AddKeeps
<1>2. ASSUME NEW m \in Msg, Get(m) PROVE Inv'
  BY <1>2, GetKeeps
<1>3. ASSUME NEW m \in Msg, Sleep(m) PROVE Inv'
  BY <1>3, SleepKeeps
<1>4. ASSUME NEW m \in Msg, Delete(m) PROVE Inv'
  BY <1>4, DeleteKeeps
<1>5. ASSUME NEW m \in Msg, NEW d \in Delays, Reuse(m, d) PROVE Inv'
  BY <1>5, ReuseKeeps
<1>6. ASSUME NEW m \in Msg, NEW d \in Delays, WakeUp(m, d) PROVE Inv'
  BY <1>6, WakeUpKeeps
<1>7. CASE FreeTopic
  BY <1>7, FreeTopicKeeps
<1>8. CASE TickTake
  BY <1>8, TakeKeeps
<1>9. CASE TickRelease
  BY <1>9, ReleaseKeeps
<1>10. CASE TickPutBack
  BY <1>10, PutBackKeeps
<1>11. CASE TickDone
  BY <1>11, DoneKeeps
<1>12. CASE SiftDown
  BY <1>12, SiftDownKeeps
<1>13. CASE SiftUp
  BY <1>13, SiftUpKeeps
<1>14. CASE Clock
  BY <1>14, ClockKeeps
<1>15. CASE UNCHANGED vars
  BY <1>15 DEF vars, Inv, TypeOK, OnePlace, NeverLater, Held, Delayed
<1>16. QED
  BY <1>1, <1>2, <1>3, <1>4, <1>5, <1>6, <1>7, <1>8, <1>9, <1>10, <1>11, <1>12,
     <1>13, <1>14, <1>15 DEF Next, Request, Tick, Sift

LEMMA InitHolds == Init => Inv
<1> SUFFICES ASSUME Init PROVE Inv
  OBVIOUS
<1> USE DEF Init
<1>1. delayQ \in Seq(Msg) /\ Len(delayQ) = 0
  OBVIOUS
<1>2. Delayed = {} /\ Held = {}
  BY <1>1, NullAssumption DEF Delayed, Held
<1>3. TypeOK
  BY <1>1 DEF TypeOK
<1>4. OnePlace
  BY <1>1, <1>2 DEF OnePlace
<1>5. NeverLater
  BY <1>2 DEF NeverLater
<1>6. QED
  BY <1>3, <1>4, <1>5 DEF Inv

(* The cursors of the sift loops stay inside the delay queue and every     *)
(* variable keeps its type.                                                *)
THEOREM TypeCorrect == Spec => []TypeOK
<1>1. Inv => TypeOK
  BY DEF Inv
<1>2. QED
  BY <1>1, InitHolds, NextKeeps, PTL DEF Spec

(* No message is lost track of or in two places, at any point of any call: *)
(* none can be handed out twice, or freed while a queue still holds it.    *)
THEOREM NothingDuplicated == Spec => []OnePlace
<1>1. Inv => OnePlace
  BY DEF Inv
<1>2. QED
  BY <1>1, InitHolds, NextKeeps, PTL DEF Spec

(* The assignments of MessageLessByActiveTime only bring a delayed message *)
(* forward, however the heap's loops compare.                              *)
THEOREM NothingPostponed == Spec => []NeverLater
<1>1. Inv => NeverLater
  BY DEF Inv
<1>2. QED
  BY <1>1, InitHolds, NextKeeps, PTL DEF Spec
-----------------------------------------------------------------------------
(* The stages of the abstract specification.                               *)
stages == [m \in Msg |-> Stage(m)]

LEMMA StageFacts ==
    ASSUME OnePlace, NEW m \in Msg
    PROVE  /\ m \in fresh <=> Stage(m) = "fresh"
           /\ m \in ready <=> Stage(m) = "ready"
           /\ m \in Held <=> Stage(m) = "delayed"
           /\ m \in using <=> Stage(m) = "using"
           /\ m \in sleep <=> Stage(m) = "sleep"
           /\ m \in freed <=> Stage(m) = "freed"
           /\ m \in lost <=> Stage(m) = "lost"
BY DEF OnePlace, Stage

LEMMA NextStageFacts ==
    ASSUME OnePlace', NEW m \in Msg
    PROVE  /\ m \in fresh' <=> Stage(m)' = "fresh"
           /\ m \in ready' <=> Stage(m)' = "ready"
           /\ m \in Held' <=> Stage(m)' = "delayed"
           /\ m \in using' <=> Stage(m)' = "using"
           /\ m \in sleep' <=> Stage(m)' = "sleep"
           /\ m \in freed' <=> Stage(m)' = "freed"
           /\ m \in lost' <=> Stage(m)' = "lost"
BY DEF OnePlace, Stage

(* A step that moves one message.                                          *)
LEMMA OneMoves ==
    ASSUME NEW m \in Msg, NEW s, Stage(m)' = s,
           \A x \in Msg \ {m} :
              /\ x \in fresh' <=> x \in fresh
              /\ x \in ready' <=> x \in ready
              /\ x \in Held' <=> x \in Held
              /\ x \in using' <=> x \in using
              /\ x \in sleep' <=> x \in sleep
              /\ x \in freed' <=> x \in freed
    PROVE  stages' = [stages EXCEPT ![m] = s]
<1>1. \A x \in Msg \ {m} : Stage(x)' = Stage(x)
  BY DEF Stage
<1>2. QED
  BY <1>1 DEF stages

LEMMA NoneMoves ==
    ASSUME UNCHANGED <<fresh, ready, using, sleep, freed, lost, prio>>,
           Held' = Held
    PROVE  UNCHANGED Life!vars
<1>1. \A x \in Msg : Stage(x)' = Stage(x)
  BY DEF Stage
<1>2. QED
  BY <1>1 DEF Life!vars

(* What addMessage does to the stages.                                     *)
LEMMA AddMessageStages ==
    ASSUME Inv, Inv', pc = "idle", NEW m \in Msg, NEW t \in Int, NEW d \in Int,
           AddMessage(m, t, d), m \notin Delayed,
           \A x \in Msg \ {m} : /\ x \in fresh' <=> x \in fresh
                                /\ x \in using' <=> x \in using
                                /\ x \in sleep' <=> x \in sleep
                                /\ x \in freed' <=> x \in freed
    PROVE  Life!Moved(m, "ready") \/ Life!Moved(m, "delayed")
<1> DEFINE Rest == \A x \in Msg \ {m} :
                      /\ x \in fresh' <=> x \in fresh
                      /\ x \in ready' <=> x \in ready
                      /\ x \in Held' <=> x \in Held
                      /\ x \in using' <=> x \in using
                      /\ x \in sleep' <=> x \in sleep
                      /\ x \in freed' <=> x \in freed
<1>1. /\ hand' = NULL /\ hand = NULL
      /\ \/ Delayed' = Delayed \cup {m} /\ ready' = ready
         \/ Delayed' = Delayed /\ ready' = ready \cup {m}
         \/ Delayed' = Delayed /\ ready' = ready /\ MayFail
                              /\ lost' = lost \cup {m}
  BY AddMessageMoves
<1>2. Held = Delayed /\ Held' = Delayed'
  BY <1>1, NullAssumption DEF Held
<1>3. Rest
  BY <1>1, <1>2
<1>4. OnePlace' /\ OnePlace
  BY DEF Inv
<1>5. CASE Delayed' = Delayed \cup {m}
  <2>1. Stage(m)' = "delayed"
    BY <1>2, <1>4, <1>5, NextStageFacts
  <2>2. QED
    BY <1>3, <2>1, OneMoves DEF Life!Moved, stages
<1>6. CASE ready' = ready \cup {m}
  <2>1. Stage(m)' = "ready"
    BY <1>4, <1>6, NextStageFacts
  <2>2. QED
    BY <1>3, <2>1, OneMoves DEF Life!Moved, stages
<1>7. CASE MayFail /\ lost' = lost \cup {m}
  <2>1. Stage(m)' = "lost"
    BY <1>4, <1>7, NextStageFacts
  <2>2. QED
    BY <1>3, <1>7, <2>1, OneMoves DEF Life!Moved, stages
<1>8. QED
  BY <1>1, <1>5, <1>6, <1>7

LEMMA AddRefines ==
    ASSUME Inv, Inv', NEW m \in Msg, NEW p \in Priority[m], NEW d \in Delays,
           Add(m, p, d)
    PROVE  Life!Add(m)
<1>1. /\ pc = "idle" /\ m \in fresh /\ fresh' = fresh \ {m}
      /\ using' = using /\ sleep' = sleep /\ freed' = freed
      /\ prio' = [prio EXCEPT ![m] = p]
      /\ AddMessage(m, now + d, d)
  BY DEF Add
<1>2. m \notin Delayed /\ Stage(m) = "fresh"
  BY <1>1, StageFacts DEF Inv, OnePlace, Held
<1>3. now + d \in Int /\ d \in Int
  BY BoundAssumption DEF Inv, TypeOK
<1>4. Life!Moved(m, "ready") \/ Life!Moved(m, "delayed")
  BY <1>1, <1>2, <1>3, AddMessageStages
<1>5. QED
  BY <1>1, <1>2, <1>4 DEF Life!Add

LEMMA PutBackRefines ==
    ASSUME Inv, Inv', NEW m \in Msg, NEW d \in Delays,
           Reuse(m, d) \/ WakeUp(m, d)
    PROVE  Life!PutBack(m)
<1>1. /\ pc = "idle" /\ m \in using \cup sleep
      /\ fresh' = fresh /\ freed' = freed /\ prio' = prio
      /\ \A x \in Msg \ {m} : /\ x \in using' <=> x \in using
                              /\ x \in sleep' <=> x \in sleep
      /\ AddMessage(m, at[m], d)
  BY DEF Reuse, WakeUp
<1>2. m \notin Delayed /\ Stage(m) \in {"using", "sleep"}
  BY <1>1, StageFacts DEF Inv, OnePlace, Held
<1>3. at[m] \in Int /\ d \in Int
  BY BoundAssumption DEF Inv, TypeOK
<1>4. Life!Moved(m, "ready") \/ Life!Moved(m, "delayed")
  BY <1>1, <1>2, <1>3, AddMessageStages
<1>5. QED
  BY <1>1, <1>2, <1>4 DEF Life!PutBack

LEMMA GetRefines ==
    ASSUME Inv, Inv', NEW m \in Msg, Get(m)
    PROVE  Life!Get(m)
<1>1. /\ m \in ready /\ ready' = ready \ {m} /\ prio' = prio
      /\ \A x \in ready : prio[m] <= prio[x]
      /\ fresh' = fresh /\ sleep' = sleep /\ freed' = freed /\ Held' = Held
      /\ using' = using \cup {m} \/ (using' = using /\ MayFail /\ lost' = lost \cup {m})
  BY DEF Get, MayLose, Held, Delayed
<1>2. OnePlace /\ OnePlace' /\ Stage(m) = "ready"
  BY <1>1, StageFacts DEF Inv
<1>3. \A x \in Life!In("ready") : x \in ready
  BY <1>2, StageFacts DEF Life!In
<1>4. CASE using' = using \cup {m}
  <2>1. Stage(m)' = "using"
    BY <1>2, <1>4, NextStageFacts
  <2>2. stages' = [stages EXCEPT ![m] = "using"]
    BY <1>1, <1>4, <2>1, OneMoves
  <2>3. QED
    BY <1>1, <1>2, <1>3, <2>2 DEF Life!Get, Life!Moved, stages
<1>5. CASE using' = using /\ MayFail /\ lost' = lost \cup {m}
  <2>1. Stage(m)' = "lost"
    BY <1>2, <1>5, NextStageFacts
  <2>2. stages' = [stages EXCEPT ![m] = "lost"]
    BY <1>1, <1>5, <2>1, OneMoves
  <2>3. QED
    BY <1>1, <1>2, <1>3, <1>5, <2>2 DEF Life!Get, Life!Moved, stages
<1>6. QED
  BY <1>1, <1>4, <1>5

LEMMA SleepRefines ==
    ASSUME Inv, Inv', NEW m \in Msg, Sleep(m)
    PROVE  Life!Sleep(m)
<1>1. /\ m \in using /\ using' = using \ {m} /\ prio' = prio /\ ready' = ready
      /\ fresh' = fresh /\ freed' = freed /\ Held' = Held
      /\ sleep' = sleep \cup {m} \/ (sleep' = sleep /\ MayFail /\ lost' = lost \cup {m})
  BY DEF Sleep, MayLose, Held, Delayed
<1>2. OnePlace /\ OnePlace' /\ Stage(m) = "using"
  BY <1>1, StageFacts DEF Inv
<1>3. CASE sleep' = sleep \cup {m}
  <2>1. Stage(m)' = "sleep"
    BY <1>2, <1>3, NextStageFacts
  <2>2. stages' = [stages EXCEPT ![m] = "sleep"]
    BY <1>1, <1>3, <2>1, OneMoves
  <2>3. QED
    BY <1>1, <1>2, <2>2 DEF Life!Sleep, Life!Moved, stages
<1>4. CASE sleep' = sleep /\ MayFail /\ lost' = lost \cup {m}
  <2>1. Stage(m)' = "lost"
    BY <1>2, <1>4, NextStageFacts
  <2>2. stages' = [stages EXCEPT ![m] = "lost"]
    BY <1>1, <1>4, <2>1, OneMoves
  <2>3. QED
    BY <1>1, <1>2, <1>4, <2>2 DEF Life!Sleep, Life!Moved, stages
<1>5. QED
  BY <1>1, <1>3, <1>4

LEMMA DeleteRefines ==
    ASSUME Inv, Inv', NEW m \in Msg, Delete(m)
    PROVE  Life!Delete(m)
<1>1. /\ m \in using \cup sleep /\ using' = using \ {m} /\ freed' = freed \cup {m}
      /\ \A x \in Msg \ {m} : x \in sleep' <=> x \in sleep
      /\ prio' = prio /\ ready' = ready /\ fresh' = fresh /\ Held' = Held
  BY DEF Delete, Held, Delayed
<1>2. OnePlace /\ OnePlace' /\ Stage(m) \in {"using", "sleep"}
  BY <1>1, StageFacts DEF Inv
<1>3. Stage(m)' = "freed"
  BY <1>1, <1>2, NextStageFacts
<1>4. stages' = [stages EXCEPT ![m] = "freed"]
  BY <1>1, <1>3, OneMoves
<1>5. QED
  BY <1>1, <1>2, <1>4 DEF Life!Delete, stages

LEMMA FreeTopicRefines ==
    ASSUME Inv, Inv', FreeTopic
    PROVE  Life!Clear
<1>1. /\ freed' = freed \cup ready \cup Held \cup using \cup sleep
      /\ fresh' = fresh /\ lost' = lost /\ prio' = prio
  BY NullAssumption DEF FreeTopic, Inv, TypeOK, Held
<1>2. OnePlace /\ OnePlace'
  BY DEF Inv
<1>3. ASSUME NEW x \in Msg
      PROVE  Stage(x)' = IF Stage(x) \in {"fresh", "lost"} THEN Stage(x) ELSE "freed"
  <2>1. /\ x \in fresh' <=> Stage(x)' = "fresh"
        /\ x \in freed' <=> Stage(x)' = "freed"
        /\ x \in lost' <=> Stage(x)' = "lost"
    BY <1>2, NextStageFacts
  <2>2. x \in freed' <=> ~(x \in fresh \/ x \in lost)
    BY <1>1, <1>2 DEF OnePlace
  <2>3. QED
    BY <1>1, <1>2, <2>1, <2>2, StageFacts
<1>4. QED
  BY <1>1, <1>3 DEF Life!Clear

LEMMA ReleaseRefines ==
    ASSUME Inv, Inv', TickRelease
    PROVE  Life!Release(hand)
<1>1. /\ hand \in Msg /\ hand \in Held /\ Held' = Held \ {hand}
      /\ using' = using /\ sleep' = sleep /\ fresh' = fresh /\ freed' = freed
      /\ prio' = prio
      /\ ready' = ready \cup {hand} \/ (ready' = ready /\ MayFail /\ lost' = lost \cup {hand})
  BY ReleaseKeeps DEF TickRelease, EnterReady, MayLose, Inv, TypeOK
<1>2. OnePlace /\ OnePlace' /\ Stage(hand) = "delayed"
  BY <1>1, StageFacts DEF Inv
<1>3. PICK m \in Msg : m = hand
  BY <1>1
<1>4. CASE ready' = ready \cup {hand}
  <2>1. Stage(m)' = "ready"
    BY <1>2, <1>3, <1>4, NextStageFacts
  <2>2. stages' = [stages EXCEPT ![m] = "ready"]
    BY <1>1, <1>3, <1>4, <2>1, OneMoves
  <2>3. QED
    BY <1>1, <1>2, <1>3, <2>2 DEF Life!Release, Life!Moved, stages
<1>5. CASE ready' = ready /\ MayFail /\ lost' = lost \cup {hand}
  <2>1. Stage(m)' = "lost"
    BY <1>2, <1>3, <1>5, NextStageFacts
  <2>2. stages' = [stages EXCEPT ![m] = "lost"]
    BY <1>1, <1>3, <1>5, <2>1, OneMoves
  <2>3. QED
    BY <1>1, <1>2, <1>3, <1>5, <2>2 DEF Life!Release, Life!Moved, stages
<1>6. QED
  BY <1>1, <1>4, <1>5

LEMMA NextRefines ==
    ASSUME Inv, Inv', [Next]_vars
    PROVE  [Life!Next]_(Life!vars)
<1>1. ASSUME NEW m \in Msg, NEW d \in Delays, NEW p \in Priority[m], Add(m, p, d)
      PROVE  Life!Next
  BY <1>1, AddRefines DEF Life!Next
<1>2. ASSUME NEW m \in Msg, Get(m) PROVE Life!Next
  BY <1>2, GetRefines DEF Life!Next
<1>3. ASSUME NEW m \in Msg, Sleep(m) PROVE Life!Next
  BY <1>3, SleepRefines DEF Life!Next
<1>4. ASSUME NEW m \in Msg, Delete(m) PROVE Life!Next
  BY <1>4, DeleteRefines DEF Life!Next
<1>5. ASSUME NEW m \in Msg, NEW d \in Delays, Reuse(m, d) \/ WakeUp(m, d)
      PROVE  Life!Next
  BY <1>5, PutBackRefines DEF Life!Next
<1>6. CASE FreeTopic
  BY <1>6, FreeTopicRefines DEF Life!Next
<1>7. CASE TickRelease
  <2>1. hand \in Msg
    BY <1>7 DEF TickRelease, Inv, TypeOK
  <2>2. QED
    BY <1>7, <2>1, ReleaseRefines DEF Life!Next
<1>8. CASE TickTake
  BY <1>8, TakeKeeps, NoneMoves DEF TickTake
<1>9. CASE TickPutBack
  BY <1>9, PutBackKeeps, NoneMoves DEF TickPutBack
<1>10. CASE TickDone
  BY <1>10, NoneMoves DEF TickDone, Held, Delayed
<1>11. CASE SiftDown
  BY <1>11, SiftDownKeeps, NoneMoves DEF SiftDown
<1>12. CASE SiftUp
  BY <1>12, SiftUpKeeps, NoneMoves DEF SiftUp
<1>13. CASE Clock
  BY <1>13, NoneMoves DEF Clock, Held, Delayed
<1>14. CASE UNCHANGED vars
  BY <1>14, NoneMoves DEF vars, Held, Delayed
<1>15. QED
  BY <1>1, <1>2, <1>3, <1>4, <1>5, <1>6, <1>7, <1>8, <1>9, <1>10, <1>11, <1>12,
     <1>13, <1>14 DEF Next, Request, Tick, Sift

LEMMA InitRefines == Init => Life!Init
<1> SUFFICES ASSUME Init PROVE Life!Init
  OBVIOUS
<1>1. \A m \in Msg : Stage(m) = "fresh"
  <2>1. SUFFICES ASSUME NEW m \in Msg PROVE Stage(m) = "fresh"
    OBVIOUS
  <2>2. m \in fresh
    BY DEF Init
  <2>3. QED
    BY <2>2, InitHolds, StageFacts DEF Inv
<1>2. QED
  BY <1>1 DEF Init, Life!Init

(* A topic implements the life of a message: between any two steps a       *)
(* message moves along an edge of MessageLife or stays, a consumer gets    *)
(* the most urgent message, and none comes back once it is freed.          *)
THEOREM LifeImplemented == Spec => LifeSpec
<1>1. QED
  BY InitHolds, NextKeeps, InitRefines, NextRefines, PTL DEF Spec, LifeSpec, Life!Spec
=============================================================================
