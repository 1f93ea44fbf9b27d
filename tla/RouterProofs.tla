---------------------------- MODULE RouterProofs ----------------------------
(***************************************************************************)
(* What the commands of the routers do, for any constants.  Subscription:  *)
(* for any subscribes, topics and matching relations, the lists that       *)
(* relate them serve everyone who subscribed, and those of the subscribes  *)
(* there are agree with the topics'.  Router: for any units, lines, topics *)
(* and bounds, a command reaches only the server current when it was       *)
(* typed, no more of them are lost than answers were read, only live       *)
(* accounts are served, and what is found in a text of params, by the end  *)
(* of a name, is what was put there.  The two share no state.              *)
(***************************************************************************)
EXTENDS Subscription, Router, SequenceTheorems, FiniteSetTheorems,
        WellFoundedInduction, TLAPS

(* The entries of a list, one topic at a time.                             *)
LEMMA EntriesByTopic ==
    ASSUME NEW b \in [Sub -> SUBSET (Topic \X Nat)], NEW e
    PROVE  NoneNewer(b, e) <=>
              \A s \in Sub, t \in Topic, k \in Nat : <<t, k>> \in b[s] => k <= e[t]
<1>1. ASSUME NoneNewer(b, e), NEW s \in Sub, NEW t \in Topic, NEW k \in Nat,
             <<t, k>> \in b[s]
      PROVE  k <= e[t]
  <2>1. <<t, k>>[2] <= e[<<t, k>>[1]]
    BY ONLY <1>1 DEF NoneNewer
  <2>2. QED
    BY <2>1
<1>2. ASSUME \A s \in Sub, t \in Topic, k \in Nat : <<t, k>> \in b[s] => k <= e[t],
             NEW s \in Sub, NEW p \in b[s]
      PROVE  p[2] <= e[p[1]]
  <2>1. p \in Topic \X Nat
    BY <1>2
  <2>2. PICK t \in Topic, k \in Nat : p = <<t, k>>
    BY <2>1
  <2>3. QED
    BY <1>2, <2>2
<1>3. QED
  BY <1>1, <1>2 DEF NoneNewer

(* What addSubscribeTopic does to the lists, when the pairs it is given    *)
(* are of one new subscribe or of one new topic.                           *)
LEMMA LinkedKeeps ==
    ASSUME SubInv, NEW P, NEW n \in {1, 2}, Linked(P, n), epoch' = epoch,
           \A s \in Sub, t \in Topic : <<s, t>> \in P => copies[t][s] = 0,
           \A s \in Live' : s \in Sub /\ (s \in Live \/ s \notin built)
    PROVE  /\ copies' \in [Topic -> [Sub -> 0 .. 2]]
           /\ back' \in [Sub -> SUBSET (Topic \X Nat)]
           /\ entries' \subseteq Topic
           /\ \A t \in Topic, s \in Sub :
                 copies'[t][s] > 0 <=> copies[t][s] > 0 \/ <<s, t>> \in P
           /\ Agree'
           /\ \A t \in Topic \ entries', s \in Sub :
                 copies'[t][s] = 0 /\ EntryOf(t)' \notin back'[s]
           /\ \A s \in Sub, t \in Topic, k \in Nat :
                 <<t, k>> \in back'[s] => k <= epoch[t]
           /\ \A s \in Sub : (\A t \in Topic : <<s, t>> \notin P) => back'[s] = back[s]
<1> USE DEF SubInv
<1>1. /\ epoch \in [Topic -> Nat] /\ copies \in [Topic -> [Sub -> 0 .. 2]]
      /\ back \in [Sub -> SUBSET (Topic \X Nat)] /\ entries \subseteq Topic
  BY DEF TypeOK
<1>2. \A t \in Topic, s \in Sub :
         copies'[t][s] = IF <<s, t>> \in P THEN copies[t][s] + n ELSE copies[t][s]
  BY DEF Linked
<1>3. \A t \in Topic, s \in Sub : <<s, t>> \in P => copies[t][s] = 0
  OBVIOUS
<1>4. copies' \in [Topic -> [Sub -> 0 .. 2]]
  <2>1. ASSUME NEW t \in Topic, NEW s \in Sub
        PROVE  (IF <<s, t>> \in P THEN copies[t][s] + n ELSE copies[t][s]) \in 0 .. 2
    <3>1. copies[t][s] \in 0 .. 2
      BY <1>1
    <3>2. <<s, t>> \in P => copies[t][s] = 0
      BY <1>3
    <3>3. QED
      BY <3>1, <3>2
  <2>2. QED
    BY <2>1 DEF Linked
<1>5. \A t \in Topic, s \in Sub :
         copies'[t][s] > 0 <=> copies[t][s] > 0 \/ <<s, t>> \in P
  <2>1. SUFFICES ASSUME NEW t \in Topic, NEW s \in Sub
                 PROVE  copies'[t][s] > 0 <=> copies[t][s] > 0 \/ <<s, t>> \in P
    OBVIOUS
  <2>2. copies[t][s] \in 0 .. 2
    BY <1>1
  <2>3. QED
    BY <2>2, <1>2
<1>6. entries' = entries \cup {t \in Topic : \E s \in Sub : <<s, t>> \in P}
  BY DEF Linked
<1>7. \A s \in Sub, t \in Topic, k \in Nat :
         <<t, k>> \in back'[s] <=>
            <<t, k>> \in back[s] \/ (<<s, t>> \in P /\ k = epoch[t])
  <2>1. SUFFICES ASSUME NEW s \in Sub, NEW t \in Topic, NEW k \in Nat
                 PROVE  <<t, k>> \in back'[s] <=>
                           <<t, k>> \in back[s] \/ (<<s, t>> \in P /\ k = epoch[t])
    OBVIOUS
  <2>2. back'[s] = back[s] \cup {<<v, epoch[v]>> : v \in {u \in Topic : <<s, u>> \in P}}
    BY DEF Linked, EntryOf
  <2>3. QED
    BY <2>2
<1>8. back' \in [Sub -> SUBSET (Topic \X Nat)]
  <2>1. ASSUME NEW s \in Sub
        PROVE  back[s] \cup {<<t, epoch[t]>> : t \in {u \in Topic : <<s, u>> \in P}}
                  \in SUBSET (Topic \X Nat)
    <3>1. \A t \in Topic : <<t, epoch[t]>> \in Topic \X Nat
      BY <1>1
    <3>2. {<<t, epoch[t]>> : t \in {u \in Topic : <<s, u>> \in P}}
             \subseteq Topic \X Nat
      BY <3>1
    <3>3. back[s] \subseteq Topic \X Nat
      BY <1>1
    <3>4. QED
      BY <3>2, <3>3
  <2>2. QED
    BY <2>1 DEF Linked, EntryOf
<1>9. \A s \in Sub, t \in Topic :
         EntryOf(t)' \in back'[s] <=> EntryOf(t) \in back[s] \/ <<s, t>> \in P
  BY <1>1, <1>7 DEF EntryOf
<1>10. Agree'
  <2>1. SUFFICES ASSUME NEW t \in entries', NEW s \in Live'
                 PROVE  copies'[t][s] > 0 <=> EntryOf(t)' \in back'[s]
    BY DEF Agree
  <2>2. t \in Topic /\ s \in Sub /\ (s \in Live \/ s \notin built)
    BY <1>1, <1>6
  <2>3. copies[t][s] > 0 <=> EntryOf(t) \in back[s]
    <3>1. CASE t \in entries /\ s \in Live
      BY <3>1 DEF Agree
    <3>2. CASE t \notin entries
      BY <3>2, <2>2 DEF NothingLeft
    <3>3. CASE s \notin Live
      <4>1. s \notin built
        BY <2>2, <3>3
      <4>2. copies[t][s] = 0 /\ back[s] = {}
        BY <2>2, <3>3, <4>1 DEF NothingLeft
      <4> QED
        BY <4>2
    <3>4. QED
      BY <3>1, <3>2, <3>3
  <2>4. QED
    BY <2>2, <2>3, <1>5, <1>9
<1>11. \A t \in Topic \ entries', s \in Sub :
          copies'[t][s] = 0 /\ EntryOf(t)' \notin back'[s]
  BY <1>2, <1>6, <1>9 DEF NothingLeft
<1>12. \A s \in Sub, t \in Topic, k \in Nat :
          <<t, k>> \in back'[s] => k <= epoch[t]
  <2>1. SUFFICES ASSUME NEW s \in Sub, NEW t \in Topic, NEW k \in Nat,
                        <<t, k>> \in back'[s]
                 PROVE  k <= epoch[t]
    OBVIOUS
  <2>2. CASE <<t, k>> \in back[s]
    BY <1>1, <2>2, EntriesByTopic DEF NothingLeft
  <2>3. CASE k = epoch[t]
    BY <2>3
  <2>4. QED
    BY <1>7, <2>1, <2>2, <2>3
<1>13. ASSUME NEW s \in Sub, \A t \in Topic : <<s, t>> \notin P
       PROVE  back'[s] = back[s]
  <2>1. back'[s] = back[s] \cup {<<t, epoch[t]>> : t \in {u \in Topic : <<s, u>> \in P}}
    BY DEF Linked, EntryOf
  <2>2. {u \in Topic : <<s, u>> \in P} = {}
    BY <1>13
  <2> QED
    BY <2>1, <2>2
<1>14. QED
  BY <1>1, <1>4, <1>5, <1>6, <1>8, <1>10, <1>11, <1>12, <1>13

LEMMA InitInv == Init => SubInv
  BY MatchAssumption
     DEF Init, SubInv, TypeOK, Served, Agree, NothingLeft, NoneNewer, Live, EntryOf

LEMMA AddSubscribeKeeps ==
    ASSUME SubInv, NEW s \in Sub, AddSubscribe(s)
    PROVE  SubInv'
<1> DEFINE P == {<<s, t>> : t \in {u \in topics : <<s, u>> \in AnyCase}}
<1> USE DEF SubInv
<1>1. /\ topics \subseteq Topic /\ subscribes \in Seq(Sub) /\ epoch' = epoch
      /\ built' = built \cup {s} /\ subscribes' = Append(subscribes, s)
      /\ pushers' = pushers \cup {s} /\ topics' = topics
      /\ Linked(P, 1) /\ s \notin built
  BY DEF AddSubscribe, TypeOK
<1>2. \A x \in Sub, t \in Topic :
         <<x, t>> \in P <=> x = s /\ t \in topics /\ <<s, t>> \in AnyCase
  BY <1>1
<1>3. \A x \in Sub, t \in Topic : <<x, t>> \in P => copies[t][x] = 0
  BY <1>1, <1>2 DEF NothingLeft
<1>4. Live' = Live \cup {s} /\ subscribes' \in Seq(Sub) /\ Live \subseteq Sub
  BY <1>1 DEF Live
<1>5. /\ copies' \in [Topic -> [Sub -> 0 .. 2]]
      /\ back' \in [Sub -> SUBSET (Topic \X Nat)]
      /\ entries' \subseteq Topic
      /\ \A t \in Topic, x \in Sub :
            copies'[t][x] > 0 <=> copies[t][x] > 0 \/ <<x, t>> \in P
      /\ Agree'
      /\ \A t \in Topic \ entries', x \in Sub :
            copies'[t][x] = 0 /\ EntryOf(t)' \notin back'[x]
      /\ \A x \in Sub, t \in Topic, k \in Nat :
            <<t, k>> \in back'[x] => k <= epoch[t]
      /\ \A x \in Sub : (\A t \in Topic : <<x, t>> \notin P) => back'[x] = back[x]
  BY <1>1, <1>2, <1>3, <1>4, LinkedKeeps
<1>6. TypeOK'
  BY <1>1, <1>5, <1>4 DEF TypeOK
<1>7. Served'
  <2>1. \A x \in Live', t \in topics' : <<x, t>> \in Exact => copies'[t][x] > 0
    <3>1. SUFFICES ASSUME NEW x \in Live', NEW t \in topics, <<x, t>> \in Exact
                   PROVE  copies'[t][x] > 0
      BY <1>1
    <3>2. x \in Sub /\ t \in Topic
      BY <1>1, <1>4 DEF Live
    <3>3. copies[t][x] > 0 \/ <<x, t>> \in P
      BY <1>4, <3>1, MatchAssumption DEF Served
    <3>4. QED
      BY <1>5, <3>2, <3>3
  <2>2. \A x \in Sub, t \in Topic : copies'[t][x] > 0 => <<x, t>> \in AnyCase
    BY <1>5 DEF Served
  <2>3. entries' \subseteq topics'
    BY <1>1 DEF Linked, Served
  <2>4. QED
    BY <1>1, <1>4, <2>1, <2>2, <2>3 DEF Served
<1>8. NothingLeft'
  <2>1. \A x \in Sub \ built', t \in Topic : copies'[t][x] = 0
    BY <1>1 DEF Linked, NothingLeft
  <2>2. NoneNewer(back', epoch')
    BY <1>1, <1>5, EntriesByTopic
  <2>3. ASSUME NEW x \in Sub \ Live' PROVE back'[x] = {}
    <3>1. x \notin Live /\ \A t \in Topic : <<x, t>> \notin P
      BY <1>2, <1>4
    <3> QED
      BY <1>5, <3>1 DEF NothingLeft
  <2>4. QED
    BY <1>1, <1>5, <2>1, <2>2, <2>3 DEF NothingLeft
<1>9. QED
  BY <1>5, <1>6, <1>7, <1>8

LEMMA DelSubscribeKeeps ==
    ASSUME SubInv, DelSubscribe
    PROVE  SubInv'
<1> USE DEF SubInv
<1>1. /\ built' = built /\ topics' = topics /\ entries' = entries
      /\ epoch' = epoch /\ copies' = copies
      /\ back' = [s \in Sub |-> IF s \in Live THEN {} ELSE back[s]]
  BY DEF DelSubscribe, Freed
<1>2. subscribes' = <<>> /\ pushers' \subseteq pushers
  BY DEF DelSubscribe
<1>3. Live' = {}
  BY <1>2 DEF Live
<1>4. \A s \in Sub : back'[s] = {}
  BY <1>1 DEF NothingLeft
<1>5. TypeOK'
  <2>1. back' \in [Sub -> SUBSET (Topic \X Nat)]
    BY <1>1 DEF TypeOK
  <2> QED
    BY <1>1, <1>2, <1>3, <2>1 DEF TypeOK
<1>6. Served' /\ Agree'
  BY <1>1, <1>3 DEF Served, Agree
<1>7. NothingLeft'
  <2>1. NoneNewer(back', epoch')
    BY <1>4 DEF NoneNewer
  <2>2. /\ \A t \in Topic \ entries', s \in Sub :
              copies'[t][s] = 0 /\ EntryOf(t)' \notin back'[s]
        /\ \A s \in Sub \ built', t \in Topic : copies'[t][s] = 0
    BY <1>1, <1>4 DEF NothingLeft
  <2> QED
    BY <1>4, <2>1, <2>2 DEF NothingLeft
<1> QED
  BY <1>5, <1>6, <1>7

LEMMA AddTopicKeeps ==
    ASSUME SubInv, NEW t \in Topic, AddTopic(t)
    PROVE  SubInv'
<1> DEFINE P == {<<s, t>> : s \in {x \in Live : <<x, t>> \in Exact}}
<1> USE DEF SubInv
<1>1. /\ topics \subseteq Topic /\ subscribes \in Seq(Sub) /\ epoch' = epoch
      /\ built' = built /\ subscribes' = subscribes /\ pushers' = pushers
      /\ topics' = topics \cup {t}
      /\ Linked(P, 2) /\ t \notin topics
  BY DEF AddTopic, TypeOK
<1>2. /\ Live \subseteq Sub /\ Live' = Live
      /\ \A x \in Sub, u \in Topic :
            <<x, u>> \in P <=> u = t /\ x \in Live /\ <<x, t>> \in Exact
  BY <1>1 DEF Live, TypeOK
<1>3. t \notin entries
  BY <1>1 DEF Served
<1>4. \A x \in Sub, u \in Topic : <<x, u>> \in P => copies[u][x] = 0
  BY <1>2, <1>3 DEF NothingLeft
<1>5. /\ copies' \in [Topic -> [Sub -> 0 .. 2]]
      /\ back' \in [Sub -> SUBSET (Topic \X Nat)]
      /\ entries' \subseteq Topic
      /\ \A u \in Topic, s \in Sub :
            copies'[u][s] > 0 <=> copies[u][s] > 0 \/ <<s, u>> \in P
      /\ Agree'
      /\ \A u \in Topic \ entries', s \in Sub :
            copies'[u][s] = 0 /\ EntryOf(u)' \notin back'[s]
      /\ \A s \in Sub, u \in Topic, k \in Nat :
            <<u, k>> \in back'[s] => k <= epoch[u]
      /\ \A s \in Sub : (\A u \in Topic : <<s, u>> \notin P) => back'[s] = back[s]
  BY <1>1, <1>2, <1>4, LinkedKeeps
<1>6. TypeOK'
  BY <1>1, <1>2, <1>5 DEF TypeOK
<1>7. Served'
  <2>1. \A s \in Live', u \in topics' : <<s, u>> \in Exact => copies'[u][s] > 0
    <3>1. SUFFICES ASSUME NEW s \in Live, NEW u \in topics', <<s, u>> \in Exact
                   PROVE  copies'[u][s] > 0
      BY <1>2
    <3>2. s \in Sub /\ u \in Topic
      BY <1>1, <1>2
    <3>3. copies[u][s] > 0 \/ <<s, u>> \in P
      BY <1>1, <3>1 DEF Served
    <3>4. QED
      BY <1>5, <3>2, <3>3
  <2>2. \A s \in Sub, u \in Topic : copies'[u][s] > 0 => <<s, u>> \in AnyCase
    BY <1>5, MatchAssumption DEF Served
  <2>3. entries' \subseteq topics'
    BY <1>1 DEF Linked, Served
  <2>4. QED
    BY <1>1, <1>2, <2>1, <2>2, <2>3 DEF Served
<1>8. NothingLeft'
  <2>1. \A s \in Sub \ built', u \in Topic : copies'[u][s] = 0
    <3>1. Live \subseteq built
      BY DEF TypeOK
    <3>2. QED
      BY <1>1, <3>1 DEF Linked, NothingLeft
  <2>2. NoneNewer(back', epoch')
    BY <1>1, <1>5, EntriesByTopic
  <2>3. ASSUME NEW s \in Sub \ Live' PROVE back'[s] = {}
    <3>1. s \notin Live /\ \A u \in Topic : <<s, u>> \notin P
      BY <1>2
    <3> QED
      BY <1>5, <3>1 DEF NothingLeft
  <2>4. QED
    BY <1>1, <1>5, <2>1, <2>2, <2>3 DEF NothingLeft
<1>9. QED
  BY <1>5, <1>6, <1>7, <1>8

LEMMA RemoveTopicKeeps ==
    ASSUME SubInv, NEW t \in Topic, RemoveTopic(t)
    PROVE  SubInv'
<1> USE DEF SubInv
<1>1. /\ subscribes' = subscribes /\ built' = built /\ pushers' = pushers
      /\ back' = back
      /\ topics' = topics \ {t} /\ entries' = entries \ {t}
      /\ epoch' = IF t \in entries THEN [epoch EXCEPT ![t] = @ + 1] ELSE epoch
      /\ copies' = [copies EXCEPT ![t] = [s \in Sub |-> 0]]
  BY DEF RemoveTopic
<1>2. /\ copies \in [Topic -> [Sub -> 0 .. 2]] /\ epoch \in [Topic -> Nat]
      /\ entries \subseteq Topic /\ topics \subseteq Topic
      /\ back \in [Sub -> SUBSET (Topic \X Nat)]
  BY DEF TypeOK
<1>3. /\ \A s \in Sub : copies'[t][s] = 0
      /\ \A u \in Topic \ {t}, s \in Sub : copies'[u][s] = copies[u][s]
  BY <1>1, <1>2
<1>4. \A u \in Topic \ {t} : epoch'[u] = epoch[u]
  BY <1>1, <1>2
<1>5. epoch'[t] = IF t \in entries THEN epoch[t] + 1 ELSE epoch[t]
  BY <1>1, <1>2
<1>6. Live' = Live
  BY <1>1 DEF Live
<1>7. TypeOK'
  <2>1. copies' \in [Topic -> [Sub -> 0 .. 2]]
    BY <1>1, <1>2
  <2>2. epoch' \in [Topic -> Nat]
    BY <1>1, <1>2
  <2>3. QED
    BY <1>1, <1>2, <1>6, <2>1, <2>2 DEF TypeOK
<1>8. Served'
  <2>1. Live \subseteq Sub
    BY DEF TypeOK
  <2>2. \A s \in Live', u \in topics' : <<s, u>> \in Exact => copies'[u][s] > 0
    BY <1>1, <1>2, <1>3, <1>6, <2>1 DEF Served
  <2>3. \A s \in Sub, u \in Topic : copies'[u][s] > 0 => <<s, u>> \in AnyCase
    BY <1>3 DEF Served
  <2>4. QED
    BY <1>1, <1>6, <2>2, <2>3 DEF Served
<1>9. Agree'
  <2>1. Live \subseteq Sub
    BY DEF TypeOK
  <2> QED
    BY <1>1, <1>2, <1>3, <1>4, <1>6, <2>1 DEF Agree, EntryOf
<1>10. NothingLeft'
  <2>1. ASSUME NEW u \in Topic \ entries', NEW s \in Sub
        PROVE  copies'[u][s] = 0 /\ EntryOf(u)' \notin back'[s]
    <3>1. CASE u # t
      BY <1>1, <1>3, <1>4, <3>1 DEF NothingLeft, EntryOf
    <3>2. CASE u = t /\ t \notin entries
      BY <1>1, <1>3, <1>5, <3>2 DEF NothingLeft, EntryOf
    <3>3. CASE u = t /\ t \in entries
      <4>1. epoch[t] \in Nat /\ epoch'[t] = epoch[t] + 1
        BY <1>2, <1>5, <3>3
      <4>2. \A v \in Sub, w \in Topic, k \in Nat : <<w, k>> \in back[v] => k <= epoch[w]
        <5>1. NoneNewer(back, epoch)
          BY DEF NothingLeft
        <5> QED
          BY ONLY <1>2, <5>1, EntriesByTopic
      <4>3. <<t, epoch'[t]>> \notin back[s]
        BY ONLY <4>1, <4>2, t \in Topic, s \in Sub
      <4> QED
        BY <1>1, <1>3, <3>3, <4>3 DEF EntryOf
    <3>4. QED
      BY <3>1, <3>2, <3>3
  <2>2. ASSUME NEW s \in Sub, NEW u \in Topic, NEW k \in Nat, <<u, k>> \in back'[s]
        PROVE  k <= epoch'[u]
    <3>1. k <= epoch[u] /\ epoch[u] \in Nat
      <4>1. NoneNewer(back, epoch) /\ <<u, k>> \in back[s]
        BY <1>1, <2>2 DEF NothingLeft
      <4> QED
        BY ONLY <1>2, <4>1, EntriesByTopic, s \in Sub, u \in Topic, k \in Nat
    <3>2. epoch'[u] \in {epoch[u], epoch[u] + 1}
      BY <1>4, <1>5
    <3>3. QED
      BY <3>1, <3>2
  <2>3. \A s \in Sub \ built', u \in Topic : copies'[u][s] = 0
    BY <1>1, <1>3 DEF NothingLeft
  <2>4. NoneNewer(back', epoch')
    BY <1>1, <1>2, <2>2, EntriesByTopic
  <2>5. \A s \in Sub \ Live' : back'[s] = {}
    BY <1>1, <1>6 DEF NothingLeft
  <2>6. QED
    BY <2>1, <2>3, <2>4, <2>5 DEF NothingLeft
<1>11. QED
  BY <1>7, <1>8, <1>9, <1>10

(* The inductive invariant holds for every number of subscribes and        *)
(* topics, whatever the keywords match.                                    *)
THEOREM SubscriptionInvariant == Spec => []SubInv
<1>1. SubInv /\ [Next]_vars => SubInv'
  <2>1. SUFFICES ASSUME SubInv, [Next]_vars
                 PROVE  SubInv'
    OBVIOUS
  <2>2. CASE \E s \in Sub : AddSubscribe(s)
    BY <2>1, <2>2, AddSubscribeKeeps
  <2>3. CASE DelSubscribe
    BY <2>1, <2>3, DelSubscribeKeeps
  <2>4. CASE \E t \in Topic : AddTopic(t)
    BY <2>1, <2>4, AddTopicKeeps
  <2>5. CASE \E t \in Topic : RemoveTopic(t)
    BY <2>1, <2>5, RemoveTopicKeeps
  <2>6. CASE UNCHANGED vars
    BY <2>1, <2>6
       DEF vars, SubInv, TypeOK, Served, Agree, NothingLeft, NoneNewer, Live,
           EntryOf
  <2>7. QED
    BY <2>1, <2>2, <2>3, <2>4, <2>5, <2>6 DEF Next
<1>2. QED
  BY InitInv, <1>1, PTL DEF Spec

(* Whoever subscribed is served, whichever of the subscribe and the topic  *)
(* came first.                                                             *)
THEOREM EveryoneServed == Spec => []Served
<1>1. SubInv => Served
  BY DEF SubInv
<1>2. QED
  BY SubscriptionInvariant, <1>1, PTL

(* The lists of the topics and those of the subscribes that are there      *)
(* agree, whatever was freed on either side before.                        *)
THEOREM ListsAgree == Spec => []Agree
<1>1. SubInv => Agree
  BY DEF SubInv
<1>2. QED
  BY SubscriptionInvariant, <1>1, PTL
-----------------------------------------------------------------------------
(* Types of Router's variables.                                            *)
User == [id : 1 .. made, name : Word, pass : Word]
ServerEnd == [want : {"r", "w"}, send : {"wait", "finish"}]
Listed == [Requester -> Seq(Command)]
RouterTypes ==
    /\ made \in Nat /\ users \subseteq User
    /\ user \in [Requester -> Nat]
    /\ added \in 0 .. MaxServer /\ servers \subseteq 1 .. added
    /\ current \in servers \cup {0}
    /\ queue \in Listed /\ slot \in Listed /\ wire \in Listed /\ handled \in Listed
    /\ \A r \in Requester : Len(slot[r]) <= 1
    /\ want \in [Requester -> {"r", "w"}] /\ end \in [Requester -> ServerEnd]
    /\ got \in [Requester -> Nat] /\ down \in [Requester -> Nat]
    /\ aim \in Seq(0 .. added) /\ Len(aim) <= MaxCmd
    /\ pushes \in Seq(TopicName) /\ Len(pushes) <= MaxPush

(* An account has its own id, and what a line gave it.                     *)
Accounts ==
    /\ \A u, v \in users : u.id = v.id => u = v
    /\ \A u \in users : [name |-> u.name, pass |-> u.pass] \in AsTyped

(* CommandsKept, of commands that have been typed.                         *)
Kept == CommandsKept /\ \A r \in Requester : ToSet(Trail(r)) \subseteq DOMAIN aim

(* The texts of the params, if no topic so far contains "message_id".      *)
Pair(a, v, b, w) == <<Param(a, v), Param(b, w)>>
PushOf(i) == Pair("topic_name", pushes[i], "message_id", Ids[i])
AnswerOf(i) == Pair("message_id", Ids[i], "topic_name", pushes[i])
Texts ==
    Plain =>
       /\ pushText = IF pushes = <<>> THEN <<>> ELSE PushOf(Len(pushes))
       /\ ackText = <<>> \/ \E i \in DOMAIN pushes : ackText = AnswerOf(i)
       /\ read.topic # NULL => read = [id |-> Ids[Len(pushes)], topic |-> Last(pushes)]

RouterInv == RouterTypes /\ Accounts /\ Kept /\ Texts
-----------------------------------------------------------------------------
(* A set of numbers has a least element.                                   *)
LEMMA Least == ASSUME NEW T, T \subseteq Nat, T # {} PROVE \E x \in T : \A y \in T : x <= y
<1> DEFINE R == {ss \in Nat \X Nat : ss[1] < ss[2]}
<1>1. IsWellFoundedOn(R, Nat)
  BY NatLessThanWellFounded DEF OpToRel
<1>2. \A x, y \in Nat : <<x, y>> \in R <=> x < y
  OBVIOUS
<1> HIDE DEF R
<1>3. PICK x \in T : \A y \in T : ~ (<<y, x>> \in R)
  BY <1>1, WFMin
<1>4. \A y \in T : x <= y
  <2> TAKE y \in T
  <2>1. x \in Nat /\ y \in Nat /\ ~ (y < x)
    BY <1>2, <1>3
  <2> QED
    BY <2>1
<1> QED
  BY <1>4
-----------------------------------------------------------------------------
(* Where a search for a name ends.                                         *)
Mentions(p, n) == n \in ToSet(p.name) \cup ToSet(p.value)

LEMMA PositionSome ==
    ASSUME NEW s, NEW n, Len(s) \in Nat
    PROVE  \/ Position(s, n) = 0 /\ \A i \in 1 .. Len(s) : ~ Mentions(s[i], n)
           \/ /\ Position(s, n) \in 1 .. Len(s) /\ Mentions(s[Position(s, n)], n)
              /\ \A i \in 1 .. Len(s) : Mentions(s[i], n) => Position(s, n) <= i
<1> DEFINE I == {i \in 1 .. Len(s) : n \in ToSet(s[i].name) \cup ToSet(s[i].value)}
<1>1. Position(s, n) = IF I # {} THEN Min(I) ELSE 0
  BY DEF Position, SelectInSeq
<1>2. I = {i \in 1 .. Len(s) : Mentions(s[i], n)}
  BY DEF Mentions
<1> HIDE DEF I
<1>3. CASE I = {}
  BY <1>1, <1>2, <1>3
<1>4. CASE I # {}
  <2>1. \E x \in I : \A y \in I : x <= y
    <3>1. I \subseteq Nat
      BY <1>2
    <3> QED
      BY <1>4, <3>1, Least
  <2>2. Min(I) \in I /\ \A y \in I : Min(I) <= y
    BY <2>1 DEF Min
  <2> QED
    BY <1>1, <1>2, <1>4, <2>2
<1> QED
  BY <1>3, <1>4

LEMMA PositionIs ==
    ASSUME NEW s, NEW n, Len(s) \in Nat, NEW k \in 1 .. Len(s), Mentions(s[k], n),
           \A i \in 1 .. k - 1 : ~ Mentions(s[i], n)
    PROVE  Position(s, n) = k
<1>1. PICK p : p = Position(s, n)
  OBVIOUS
<1>2. p \in 1 .. Len(s) /\ Mentions(s[p], n) /\ p <= k
  BY <1>1, PositionSome
<1>3. ~ (p \in 1 .. k - 1)
  BY <1>2
<1> QED
  BY <1>1, <1>2, <1>3

LEMMA EndsInIs ==
    ASSUME NEW w \in Seq(Unit), w # <<>>, NEW n, EndsIn(w, n)
    PROVE  Last(w) = n
<1> DEFINE I == {i \in 1 .. Len(w) : w[i] = n}
<1>1. (IF I # {} THEN Min(I) ELSE 0) = Len(w)
  BY DEF EndsIn, SelectInSeq
<1>2. Len(w) \in Nat /\ Len(w) # 0
  OBVIOUS
<1>3. I # {} /\ I \subseteq Nat
  BY <1>1, <1>2
<1>4. \E x \in I : \A y \in I : x <= y
  <2> HIDE DEF I
  <2> QED
    BY <1>3, Least
<1>5. Min(I) \in I
  <2> HIDE DEF I
  <2> QED
    BY <1>4 DEF Min
<1>6. Len(w) \in I
  <2> HIDE DEF I
  <2> QED
    BY <1>1, <1>3, <1>5
<1> QED
  BY <1>6 DEF Last

LEMMA LastIn ==
    ASSUME NEW w \in Seq(Unit), w # <<>>
    PROVE  Last(w) \in ToSet(w)
<1>1. Len(w) \in 1 .. Len(w) /\ DOMAIN w = 1 .. Len(w)
  OBVIOUS
<1> QED
  BY <1>1 DEF Last, ToSet

(* A param set by a handler has a name of one unit.                        *)
LEMMA ParamIs ==
    ASSUME NEW n, NEW v
    PROVE  /\ Param(n, v).value = v /\ EndsIn(Param(n, v).name, n)
           /\ \A m : Mentions(Param(n, v), m) <=> m = n \/ m \in ToSet(v)
<1>1. PICK w : w = <<n>>
  OBVIOUS
<1>2. Len(w) = 1 /\ w[1] = n /\ DOMAIN w = 1 .. 1
  BY <1>1
<1>3. EndsIn(w, n)
  <2> DEFINE I == {i \in 1 .. Len(w) : w[i] = n}
  <2>1. I = {1}
    BY <1>2
  <2>2. Min(I) = 1
    BY <2>1 DEF Min
  <2>3. (IF I # {} THEN Min(I) ELSE 0) = Len(w)
    BY <1>2, <2>1, <2>2
  <2> QED
    BY <2>3 DEF EndsIn, SelectInSeq
<1>4. ToSet(w) = {n}
  BY <1>2 DEF ToSet
<1>5. Param(n, v).name = w /\ Param(n, v).value = v
  BY <1>1 DEF Param
<1> QED
  BY <1>3, <1>4, <1>5 DEF Mentions
-----------------------------------------------------------------------------
LEMMA LineIs ==
    ASSUME NEW l \in Line
    PROVE  /\ Len(l) \in Nat /\ DOMAIN l = 1 .. Len(l)
           /\ \A j \in 1 .. Len(l) : /\ l[j].name \in Seq(Unit) /\ l[j].name # <<>>
                                     /\ l[j].value \in Word
<1>1. PICK S : S = [name : Name, value : Word]
  OBVIOUS
<1>2. PICK n \in 0 .. MaxParam : l \in [1 .. n -> S]
  BY <1>1 DEF Line
<1>3. n \in Nat
  BY <1>2, RouterAssumption
<1>4. l \in Seq(S) /\ Len(l) = n /\ DOMAIN l = 1 .. n
  BY ONLY <1>2, <1>3
<1>5. \A j \in 1 .. n : l[j] \in S
  BY ONLY <1>2
<1>6. \A j \in 1 .. n : l[j].name \in Name /\ l[j].value \in Word
  BY <1>1, <1>5
<1> QED
  BY <1>3, <1>4, <1>6, RouterAssumption

(* What a search for a name finds in a line is the value of such a param.  *)
LEMMA FindIs ==
    ASSUME NEW l \in Line, NEW n, Find(l, n) # NULL
    PROVE  GivenBy(l, n, Find(l, n)) /\ Find(l, n) \in Word
<1>1. PICK i : i = Position(l, n)
  OBVIOUS
<1>2. i # 0 /\ EndsIn(l[i].name, n) /\ Find(l, n) = l[i].value
  BY <1>1 DEF Find, HasValue
<1>3. i \in 1 .. Len(l) /\ \A j \in 1 .. Len(l) : Mentions(l[j], n) => i <= j
  BY <1>1, <1>2, LineIs, PositionSome
<1>4. l[i].name \in Seq(Unit) /\ l[i].name # <<>> /\ l[i].value \in Word /\ i \in DOMAIN l
  BY <1>3, LineIs
<1>5. Last(l[i].name) = n
  BY <1>2, <1>4, EndsInIs
<1>6. ASSUME NEW j \in 1 .. i - 1, Last(l[j].name) = n PROVE FALSE
  <2>1. j \in 1 .. Len(l) /\ ~ (i <= j)
    BY <1>3, LineIs
  <2>2. n \in ToSet(l[j].name)
    BY <1>6, <2>1, LineIs, LastIn
  <2> QED
    BY <1>3, <2>1, <2>2 DEF Mentions
<1>7. PICK v : v = Find(l, n)
  OBVIOUS
<1>8. GivenBy(l, n, v)
  BY <1>2, <1>4, <1>5, <1>6, <1>7 DEF GivenBy
<1> QED
  BY <1>2, <1>4, <1>7, <1>8

(* A name and a password that a line gives are values of its params.       *)
LEMMA TypedIs ==
    ASSUME NEW t \in AsTyped
    PROVE  /\ t = [name |-> t.name, pass |-> t.pass]
           /\ t.name # NULL => t.name \in Word
           /\ t.pass # NULL => t.pass \in Word
           /\ t.name # NULL /\ t.pass # NULL => t \in RightlyTyped
<1>1. PICK k \in Line : t = [name |-> Find(k, "user"), pass |-> Find(k, "password")]
  BY DEF AsTyped, Typed
<1>2. t.name # NULL => t.name \in Word
  BY <1>1, FindIs
<1>3. t.pass # NULL => t.pass \in Word
  BY <1>1, FindIs
<1>4. ASSUME t.name # NULL, t.pass # NULL
      PROVE  t \in RightlyTyped
  <2>1. ASSUME NEW l \in Line, Typed(l) = t
        PROVE  GivenBy(l, "user", t.name) /\ GivenBy(l, "password", t.pass)
    <3>1. t.name = Find(l, "user") /\ t.pass = Find(l, "password")
      BY <2>1 DEF Typed
    <3> QED
      BY <1>4, <3>1, FindIs
  <2> QED
    BY <2>1 DEF RightlyTyped
<1> QED
  BY <1>1, <1>2, <1>3, <1>4
-----------------------------------------------------------------------------
(* FindRight follows from what Accounts says.                              *)
LEMMA RightOfAccounts ==
    ASSUME RouterTypes, Accounts
    PROVE  FindRight
<1> SUFFICES ASSUME NEW u \in users PROVE [name |-> u.name, pass |-> u.pass] \in RightlyTyped
  BY DEF FindRight
<1>1. PICK t : t = [name |-> u.name, pass |-> u.pass]
  OBVIOUS
<1>2. t \in AsTyped
  BY <1>1 DEF Accounts
<1>3. t.name \in Word /\ t.pass \in Word
  BY <1>1 DEF RouterTypes, User
<1>4. t.name # NULL /\ t.pass # NULL
  BY <1>3, RouterAssumption
<1> QED
  BY <1>1, <1>2, <1>4, TypedIs
-----------------------------------------------------------------------------
(* The types and the accounts are kept.                                    *)
LEMMA IdIs ==
    ASSUME NEW us
    PROVE  (us = {} /\ Id(us) = 0) \/ \E u \in us : Id(us) = u.id
<1>1. CASE us = {}
  BY <1>1 DEF Id
<1>2. CASE us # {}
  <2>1. PICK u : u = CHOOSE v \in us : TRUE
    OBVIOUS
  <2>2. u \in us
    BY <1>2, <2>1
  <2>3. Id(us) = u.id
    BY <1>2, <2>1 DEF Id
  <2> QED
    BY <2>2, <2>3
<1> QED
  BY <1>1, <1>2

LEMMA AddUserKeeps ==
    ASSUME RouterTypes, Accounts, NEW t \in AsTyped, AddUser(t)
    PROVE  /\ made' \in Nat /\ users' \subseteq User' /\ Accounts'
<1>1. PICK v : v = [id |-> made + 1, name |-> t.name, pass |-> t.pass]
  OBVIOUS
<1>2. made' = made + 1 /\ users' = users \cup {v} /\ t.name # NULL /\ t.pass # NULL
  BY <1>1 DEF AddUser
<1>3. made \in Nat /\ users \subseteq User
  BY DEF RouterTypes, User
<1>4. t.name \in Word /\ t.pass \in Word /\ t = [name |-> t.name, pass |-> t.pass]
  BY <1>2, TypedIs
<1>5. v \in User' /\ \A u \in users : u.id # v.id
  <2>1. v.id = made + 1 /\ made + 1 \in 1 .. made'
    BY <1>1, <1>2, <1>3
  <2>2. v \in User'
    BY <1>1, <1>4, <2>1 DEF User
  <2>3. \A u \in users : u.id \in 1 .. made
    BY <1>3 DEF User
  <2> QED
    BY <1>3, <2>1, <2>2, <2>3
<1>6. users \subseteq User'
  <2>1. 1 .. made \subseteq 1 .. made'
    BY <1>2, <1>3
  <2> QED
    BY <1>3, <2>1 DEF User
<1>7. [name |-> v.name, pass |-> v.pass] \in AsTyped
  BY <1>1, <1>4
<1>8. AsTyped' = AsTyped
  BY DEF AsTyped, Typed, Line
<1>9. Accounts'
  <2>1. \A u, w \in users' : u.id = w.id => u = w
    BY <1>2, <1>5 DEF Accounts
  <2>2. \A u \in users' : [name |-> u.name, pass |-> u.pass] \in AsTyped
    BY <1>2, <1>7 DEF Accounts
  <2> QED
    BY <1>8, <2>1, <2>2 DEF Accounts
<1> QED
  BY <1>2, <1>3, <1>5, <1>6, <1>9

LEMMA DelUserKeeps ==
    ASSUME RouterTypes, Accounts, NEW t \in AsTyped, DelUser(t)
    PROVE  /\ made' \in Nat /\ users' \subseteq User' /\ Accounts'
<1>1. users' \subseteq users /\ made' = made
  BY DEF DelUser
<1>2. AsTyped' = AsTyped
  BY DEF AsTyped, Typed, Line
<1>3. Accounts'
  BY <1>1, <1>2 DEF Accounts
<1> QED
  BY <1>1, <1>3 DEF RouterTypes, User

LEMMA SetUserKeeps ==
    ASSUME RouterTypes, Accounts, NEW t \in AsTyped, SetUser(t)
    PROVE  /\ made' \in Nat /\ users' \subseteq User' /\ Accounts'
<1> DEFINE W(u) == [u EXCEPT !.pass = t.pass]
<1>1. /\ made' = made /\ t.name # NULL /\ t.pass # NULL
      /\ users' = (users \ Named(t.name)) \cup {W(u) : u \in Named(t.name)}
  BY DEF SetUser
<1>2. t.name \in Word /\ t.pass \in Word /\ t = [name |-> t.name, pass |-> t.pass]
  BY <1>1, TypedIs
<1>3. users \subseteq User /\ User' = User
  BY <1>1 DEF RouterTypes, User
<1>4. ASSUME NEW u \in Named(t.name)
      PROVE  /\ u \in users /\ W(u) \in User /\ W(u).id = u.id
             /\ W(u).name = t.name /\ W(u).pass = t.pass
  <2>1. u \in users /\ u.name = t.name /\ u \in User
    BY <1>3 DEF Named
  <2>2. W(u) = [id |-> u.id, name |-> u.name, pass |-> t.pass] /\ u.id \in 1 .. made
    BY <2>1 DEF User
  <2> QED
    BY <1>2, <2>1, <2>2 DEF User
<1> HIDE DEF W
<1>5. users' \subseteq User'
  BY <1>1, <1>3, <1>4
<1>6. AsTyped' = AsTyped
  BY DEF AsTyped, Typed, Line
<1>7. \A u \in users' : [name |-> u.name, pass |-> u.pass] \in AsTyped
  <2> TAKE u \in users'
  <2>1. CASE u \in users
    BY <2>1 DEF Accounts
  <2>2. CASE u \notin users
    <3>1. PICK w \in Named(t.name) : u = W(w)
      BY <1>1, <2>2
    <3>2. u.name = t.name /\ u.pass = t.pass
      BY <1>4, <3>1
    <3> QED
      BY <1>2, <3>2
  <2> QED
    BY <2>1, <2>2
<1>8. \A u, w \in users' : u.id = w.id => u = w
  <2>1. ASSUME NEW u \in users'
        PROVE  \E x \in users : /\ x.id = u.id
                                /\ x \in Named(t.name) => u = W(x)
                                /\ x \notin Named(t.name) => u = x
    BY <1>1, <1>4
  <2> TAKE u, w \in users'
  <2> HAVE u.id = w.id
  <2>2. PICK x \in users : /\ x.id = u.id
                           /\ x \in Named(t.name) => u = W(x)
                           /\ x \notin Named(t.name) => u = x
    BY <2>1
  <2>3. PICK y \in users : /\ y.id = w.id
                           /\ y \in Named(t.name) => w = W(y)
                           /\ y \notin Named(t.name) => w = y
    BY <2>1
  <2>4. x = y
    BY <2>2, <2>3 DEF Accounts
  <2> QED
    BY <2>2, <2>3, <2>4
<1>9. Accounts'
  BY <1>6, <1>7, <1>8 DEF Accounts
<1> QED
  BY <1>1, <1>5, <1>9 DEF RouterTypes

LEMMA AccountsStay ==
    ASSUME Accounts, users' = users
    PROVE  Accounts'
<1>1. AsTyped' = AsTyped
  BY DEF AsTyped, Typed, Line
<1> QED
  BY <1>1 DEF Accounts
-----------------------------------------------------------------------------
(* A text of two params, one named a with value v and one named b with     *)
(* value w: what is found in it, and what setting one of them makes of it. *)
(* The first value must not contain the second name.                       *)
LEMMA TwoIs ==
    ASSUME NEW x, NEW y, NEW t, t = <<x, y>>
    PROVE  /\ Len(t) = 2 /\ t[1] = x /\ t[2] = y
           /\ \A z : [t EXCEPT ![1] = z] = <<z, y>> /\ [t EXCEPT ![2] = z] = <<x, z>>
OBVIOUS

LEMMA AppendTwo ==
    ASSUME NEW x, NEW y, NEW t, t = <<x>>
    PROVE  Append(t, y) = <<x, y>>
<1>1. PICK S : S = {x, y}
  OBVIOUS
<1>2. t \in Seq(S) /\ y \in S /\ Len(t) = 1 /\ t[1] = x
  BY <1>1
<1>3. PICK a, b : a = Append(t, y) /\ b = <<x, y>>
  OBVIOUS
<1>4. a \in Seq(S) /\ Len(a) = 2 /\ a[1] = x /\ a[2] = y
  <2>1. /\ a \in Seq(S) /\ Len(a) = Len(t) + 1 /\ a[Len(t) + 1] = y
        /\ \A i \in 1 .. Len(t) : a[i] = t[i]
    BY ONLY <1>2, <1>3, AppendProperties
  <2> QED
    BY ONLY <1>2, <2>1
<1>5. b \in Seq(S) /\ Len(b) = 2 /\ b[1] = x /\ b[2] = y
  BY <1>1, <1>3
<1>6. a = b
  BY ONLY <1>4, <1>5, SeqEqual
<1> QED
  BY <1>3, <1>6

LEMMA FoundInPair ==
    ASSUME NEW a, NEW v, NEW b, NEW w, a # b, b \notin ToSet(v), NEW x, x = Pair(a, v, b, w)
    PROVE  /\ Position(x, a) = 1 /\ Position(x, b) = 2
           /\ HasValue(x, a) /\ HasValue(x, b) /\ Find(x, a) = v /\ Find(x, b) = w
<1>1. PICK p, q : p = Param(a, v) /\ q = Param(b, w)
  OBVIOUS
<1>2. x = <<p, q>>
  BY <1>1 DEF Pair
<1>3. Len(x) = 2 /\ x[1] = p /\ x[2] = q
  BY ONLY <1>2, TwoIs
<1>4. /\ Mentions(p, a) /\ Mentions(q, b) /\ ~ Mentions(p, b) /\ EndsIn(p.name, a)
      /\ EndsIn(q.name, b) /\ p.value = v /\ q.value = w
  BY <1>1, ParamIs
<1>5. Position(x, a) = 1
  <2>1. 1 \in 1 .. Len(x) /\ Len(x) \in Nat /\ Mentions(x[1], a)
    BY <1>3, <1>4
  <2>2. \A i \in 1 .. 1 - 1 : ~ Mentions(x[i], a)
    OBVIOUS
  <2> QED
    BY ONLY <2>1, <2>2, PositionIs
<1>6. Position(x, b) = 2
  <2>1. 2 \in 1 .. Len(x) /\ Len(x) \in Nat /\ Mentions(x[2], b)
    BY <1>3, <1>4
  <2>2. \A i \in 1 .. 2 - 1 : ~ Mentions(x[i], b)
    BY <1>3, <1>4
  <2> QED
    BY ONLY <2>1, <2>2, PositionIs
<1>7. HasValue(x, a) /\ HasValue(x, b)
  BY <1>3, <1>4, <1>5, <1>6 DEF HasValue
<1> QED
  BY <1>3, <1>4, <1>5, <1>6, <1>7 DEF Find

LEMMA PairSet ==
    ASSUME NEW a, NEW v, NEW b, NEW w, NEW z, a # b, b \notin ToSet(v), z # NULL
    PROVE  /\ Set(Pair(a, v, b, w), a, z) = Pair(a, z, b, w)
           /\ Set(Pair(a, v, b, w), b, z) = Pair(a, v, b, z)
<1>1. PICK x, p, q : x = Pair(a, v, b, w) /\ p = Param(a, v) /\ q = Param(b, w)
  OBVIOUS
<1>2. x = <<p, q>> /\ x[1] = p /\ x[2] = q
  BY <1>1, TwoIs DEF Pair
<1>3. /\ Position(x, a) = 1 /\ Position(x, b) = 2 /\ HasValue(x, a) /\ HasValue(x, b)
  BY <1>1, FoundInPair
<1>4. [p EXCEPT !.value = z] = Param(a, z) /\ [q EXCEPT !.value = z] = Param(b, z)
  BY <1>1 DEF Param
<1>5. Set(x, a, z) = [x EXCEPT ![1] = [p EXCEPT !.value = z]]
  BY <1>2, <1>3 DEF Set
<1>6. Set(x, b, z) = [x EXCEPT ![2] = [q EXCEPT !.value = z]]
  BY <1>2, <1>3 DEF Set
<1>7. /\ [x EXCEPT ![1] = Param(a, z)] = <<Param(a, z), q>>
      /\ [x EXCEPT ![2] = Param(b, z)] = <<p, Param(b, z)>>
  BY <1>2, TwoIs
<1> QED
  BY <1>1, <1>4, <1>5, <1>6, <1>7 DEF Pair

LEMMA PairBuilt ==
    ASSUME NEW a, NEW v, NEW b, NEW w, a # b, b \notin ToSet(v), v # NULL, w # NULL
    PROVE  Set(Set(<<>>, a, v), b, w) = Pair(a, v, b, w)
<1>1. PICK e, p, q : e = <<>> /\ p = Param(a, v) /\ q = Param(b, w)
  OBVIOUS
<1>2. Position(e, a) = 0
  <2>1. Len(e) = 0
    BY <1>1
  <2> QED
    BY <2>1, PositionSome
<1>3. Set(e, a, v) = Append(e, p)
  BY <1>1, <1>2 DEF Set, HasValue
<1>4. PICK x : x = <<p>>
  OBVIOUS
<1>5. Append(e, p) = x /\ Len(x) = 1 /\ x[1] = p
  BY <1>1, <1>4
<1>6. Position(x, b) = 0
  <2>1. ~ Mentions(p, b)
    BY <1>1, ParamIs
  <2>2. \A i \in 1 .. Len(x) : ~ Mentions(x[i], b)
    BY <1>5, <2>1
  <2>3. Len(x) \in Nat /\ ~ (Position(x, b) \in 1 .. Len(x) /\ Mentions(x[Position(x, b)], b))
    BY <1>5, <2>2
  <2> QED
    BY <2>3, PositionSome
<1>7. Set(x, b, w) = Append(x, q)
  BY <1>1, <1>6 DEF Set, HasValue
<1>8. Append(x, q) = <<p, q>>
  BY <1>4, AppendTwo
<1> QED
  BY <1>1, <1>3, <1>5, <1>7, <1>8 DEF Pair

(* No topic and no id is taken for NULL, and no id for the name of a param.*)
LEMMA IdsAre ==
    ASSUME NEW i \in 1 .. MaxPush
    PROVE  Ids[i] # NULL /\ "topic_name" \notin ToSet(Ids[i])
<1>1. PICK U, n : U = Unit \ {"message_id", "topic_name"} /\ n = "topic_name"
  OBVIOUS
<1>2. Ids \in Seq(Seq(U)) /\ MaxPush \in Nat /\ MaxPush <= Len(Ids)
  BY <1>1, RouterAssumption
<1>3. Ids[i] \in Seq(U)
  BY ONLY <1>2
<1>4. PICK w : w = Ids[i]
  OBVIOUS
<1>5. w \in Seq(U) /\ n \notin U
  BY <1>1, <1>3, <1>4
<1>6. n \notin ToSet(w)
  BY ONLY <1>5 DEF ToSet
<1>7. w \in Seq(Unit)
  <2>1. Len(w) \in Nat /\ w = [j \in 1 .. Len(w) |-> w[j]] /\ \A j \in 1 .. Len(w) : w[j] \in U
    BY ONLY <1>5
  <2>2. \A j \in 1 .. Len(w) : w[j] \in Unit
    BY <1>1, <2>1
  <2>3. w \in [1 .. Len(w) -> Unit]
    BY ONLY <2>1, <2>2
  <2> QED
    BY ONLY <2>1, <2>3
<1> QED
  BY <1>1, <1>4, <1>6, <1>7, RouterAssumption

LEMMA BoundsAre ==
    {MaxParam, MaxUser, MaxServer, MaxCmd, MaxPush, MaxAll} \subseteq Nat
BY RouterAssumption

LEMMA TopicsAre == \A t \in TopicName : t # NULL
BY RouterAssumption

LEMMA PushKeeps ==
    ASSUME RouterTypes, Texts, NEW t \in TopicName, Push(t)
    PROVE  Texts'
<1>1. PICK n : n = Len(pushes) + 1
  OBVIOUS
<1>2. /\ pushes \in Seq(TopicName) /\ pushes' = Append(pushes, t) /\ n \in 1 .. MaxPush
      /\ n - 1 = Len(pushes) /\ MaxPush \in Nat /\ Len(pushes) < MaxPush
  BY <1>1, RouterAssumption DEF RouterTypes, Push
<1>3. /\ Len(pushes') = n /\ pushes' # <<>> /\ pushes'[n] = t
      /\ DOMAIN pushes = 1 .. n - 1 /\ DOMAIN pushes' = 1 .. n
      /\ \A i \in 1 .. n - 1 : pushes'[i] = pushes[i]
  BY <1>1, <1>2
<1>4. /\ pushText' = Set(Set(pushText, "topic_name", t), "message_id", Ids[n])
      /\ ackText' = ackText /\ read'.topic = NULL
  BY <1>1 DEF Push
<1>5. Ids[n] # NULL /\ t # NULL
  BY <1>2, IdsAre, TopicsAre
<1>6. SUFFICES ASSUME Plain'
               PROVE  /\ pushText' = PushOf(n)'
                      /\ ackText' = <<>> \/ \E i \in DOMAIN pushes' : ackText' = AnswerOf(i)'
  BY <1>3, <1>4 DEF Texts
<1>7. Plain /\ "message_id" \notin ToSet(t)
  <2>1. ToSet(pushes) \subseteq ToSet(pushes')
    <3>1. 1 .. n - 1 \subseteq 1 .. n
      BY <1>2
    <3> QED
      BY <1>3, <3>1 DEF ToSet
  <2>2. t \in ToSet(pushes')
    <3>1. n \in 1 .. n
      BY <1>2
    <3> QED
      BY <1>3, <3>1 DEF ToSet
  <2> QED
    BY <1>6, <2>1, <2>2 DEF Plain
<1>8. "topic_name" # "message_id"
  OBVIOUS
<1>9. PushOf(n)' = Pair("topic_name", t, "message_id", Ids[n])
  BY <1>3 DEF PushOf
<1>10. pushText' = PushOf(n)'
  <2>1. CASE pushes = <<>>
    <3>1. pushText = <<>>
      BY <1>7, <2>1 DEF Texts
    <3> QED
      BY <1>4, <1>5, <1>7, <1>8, <1>9, <3>1, PairBuilt
  <2>2. CASE pushes # <<>>
    <3>1. pushText = PushOf(n - 1)
      BY <1>2, <1>7, <2>2 DEF Texts
    <3>2. PICK v, w : v = pushes[n - 1] /\ w = Ids[n - 1]
      OBVIOUS
    <3>3. pushText = Pair("topic_name", v, "message_id", w)
      BY <3>1, <3>2 DEF PushOf
    <3>4. "message_id" \notin ToSet(v)
      <4>1. n - 1 \in 1 .. n - 1
        BY <1>2, <2>2
      <4> QED
        BY <1>3, <1>7, <3>2, <4>1 DEF Plain, ToSet
    <3>5. Set(pushText, "topic_name", t) = Pair("topic_name", t, "message_id", w)
      BY <1>5, <1>8, <3>3, <3>4, PairSet
    <3>6. Set(Pair("topic_name", t, "message_id", w), "message_id", Ids[n])
             = Pair("topic_name", t, "message_id", Ids[n])
      BY <1>5, <1>7, <1>8, PairSet
    <3> QED
      BY <1>4, <1>9, <3>5, <3>6
  <2> QED
    BY <2>1, <2>2
<1>11. ackText' = <<>> \/ \E i \in DOMAIN pushes' : ackText' = AnswerOf(i)'
  <2>1. ASSUME NEW i \in DOMAIN pushes, ackText = AnswerOf(i)
        PROVE  i \in DOMAIN pushes' /\ ackText' = AnswerOf(i)'
    <3>1. i \in 1 .. n - 1 /\ i \in 1 .. n
      BY <1>2, <1>3
    <3>2. AnswerOf(i)' = AnswerOf(i)
      BY <1>3, <3>1 DEF AnswerOf
    <3> QED
      BY <1>3, <1>4, <2>1, <3>1, <3>2
  <2> QED
    BY <1>4, <1>7, <2>1 DEF Texts
<1> QED
  BY <1>10, <1>11

LEMMA AnswerKeeps ==
    ASSUME RouterTypes, Texts, Answer
    PROVE  Texts'
<1>1. PICK n : n = Len(pushes)
  OBVIOUS
<1>2. /\ pushes \in Seq(TopicName) /\ pushes # <<>> /\ n \in 1 .. MaxPush /\ n \in DOMAIN pushes
      /\ DOMAIN pushes = 1 .. n
  <2>1. pushes \in Seq(TopicName) /\ pushes # <<>> /\ Len(pushes) <= MaxPush
    BY DEF RouterTypes, Answer
  <2> QED
    BY ONLY <1>1, <2>1, BoundsAre
<1>3. /\ pushes' = pushes /\ pushText' = pushText /\ ackText' = Acknowledged
      /\ read' = [id |-> Find(ackText', "message_id"), topic |-> Find(ackText', "topic_name")]
  BY DEF Answer
<1>4. SUFFICES ASSUME Plain
               PROVE  /\ ackText' = AnswerOf(n)
                      /\ read' = [id |-> Ids[n], topic |-> Last(pushes)]
  <2>1. Plain' <=> Plain
    BY <1>3 DEF Plain
  <2>2. PushOf(n)' = PushOf(n) /\ AnswerOf(n)' = AnswerOf(n)
    BY <1>3 DEF PushOf, AnswerOf
  <2>3. Plain => pushText = PushOf(n)
    BY <1>1, <1>2 DEF Texts
  <2>4. Last(pushes)' = Last(pushes)
    BY <1>3 DEF Last
  <2> QED
    BY <1>1, <1>2, <1>3, <2>1, <2>2, <2>3, <2>4 DEF Texts
<1>5. PICK t, d : t = pushes[n] /\ d = Ids[n]
  OBVIOUS
<1>6. /\ d # NULL /\ "topic_name" \notin ToSet(d)
      /\ t # NULL /\ "message_id" \notin ToSet(t) /\ Last(pushes) = t
  <2>1. t \in TopicName
    BY <1>2, <1>5
  <2>2. t \in ToSet(pushes)
    BY <1>2, <1>5 DEF ToSet
  <2> QED
    BY <1>1, <1>2, <1>4, <1>5, <2>1, <2>2, IdsAre, TopicsAre DEF Plain, Last
<1>7. "topic_name" # "message_id"
  OBVIOUS
<1>8. pushText = Pair("topic_name", t, "message_id", d)
  BY <1>1, <1>2, <1>4, <1>5 DEF Texts, PushOf
<1>9. Find(pushText, "message_id") = d /\ Find(pushText, "topic_name") = t
  BY <1>6, <1>7, <1>8, FoundInPair
<1>10. ackText' = Set(Set(ackText, "message_id", d), "topic_name", t)
  BY <1>3, <1>9 DEF Acknowledged
<1>11. ackText' = Pair("message_id", d, "topic_name", t)
  <2>1. CASE ackText = <<>>
    BY <1>6, <1>7, <1>10, <2>1, PairBuilt
  <2>2. CASE ackText # <<>>
    <3>1. PICK i \in DOMAIN pushes : ackText = AnswerOf(i)
      BY <1>4, <2>2 DEF Texts
    <3>2. PICK v, w : v = Ids[i] /\ w = pushes[i]
      OBVIOUS
    <3>3. ackText = Pair("message_id", v, "topic_name", w)
      BY <3>1, <3>2 DEF AnswerOf
    <3>4. "topic_name" \notin ToSet(v)
      <4>1. i \in 1 .. MaxPush
        BY <1>2, RouterAssumption
      <4> QED
        BY <3>2, <4>1, IdsAre
    <3>5. Set(ackText, "message_id", d) = Pair("message_id", d, "topic_name", w)
      BY <1>6, <1>7, <3>3, <3>4, PairSet
    <3>6. Set(Pair("message_id", d, "topic_name", w), "topic_name", t)
             = Pair("message_id", d, "topic_name", t)
      BY <1>6, <1>7, PairSet
    <3> QED
      BY <1>10, <3>5, <3>6
  <2> QED
    BY <2>1, <2>2
<1>12. Find(ackText', "message_id") = d /\ Find(ackText', "topic_name") = t
  BY <1>6, <1>7, <1>11, FoundInPair
<1> QED
  BY <1>3, <1>5, <1>6, <1>11, <1>12 DEF AnswerOf
-----------------------------------------------------------------------------
(* The commands for a server, step by step.                                *)
LEMMA TrailType ==
    ASSUME RouterTypes, NEW r \in Requester
    PROVE  /\ handled[r] \in Seq(Command) /\ wire[r] \in Seq(Command)
           /\ slot[r] \in Seq(Command) /\ queue[r] \in Seq(Command)
           /\ handled[r] \o wire[r] \in Seq(Command)
           /\ (handled[r] \o wire[r]) \o slot[r] \in Seq(Command)
           /\ Trail(r) \in Seq(Command)
<1>1. /\ handled[r] \in Seq(Command) /\ wire[r] \in Seq(Command)
      /\ slot[r] \in Seq(Command) /\ queue[r] \in Seq(Command)
  BY DEF RouterTypes, Listed
<1>2. handled[r] \o wire[r] \in Seq(Command)
  BY ONLY <1>1, ConcatProperties
<1>3. (handled[r] \o wire[r]) \o slot[r] \in Seq(Command)
  BY ONLY <1>1, <1>2, ConcatProperties
<1>4. ((handled[r] \o wire[r]) \o slot[r]) \o queue[r] \in Seq(Command)
  BY ONLY <1>1, <1>3, ConcatProperties
<1> QED
  BY <1>1, <1>2, <1>3, <1>4 DEF Trail

(* The first of one sequence moves to the end of the one before it.        *)
LEMMA Moves ==
    ASSUME NEW S, NEW a \in Seq(S), NEW b \in Seq(S), b # <<>>
    PROVE  /\ Append(a, Head(b)) \in Seq(S) /\ Tail(b) \in Seq(S) /\ Head(b) \in S
           /\ Append(a, Head(b)) \o Tail(b) = a \o b
<1>1. PICK x, u : x = Head(b) /\ u = Tail(b)
  OBVIOUS
<1>2. x \in S /\ u \in Seq(S)
  BY <1>1, HeadTailProperties
<1>3. Append(a, x) = a \o <<x>> /\ <<x>> \in Seq(S) /\ Append(a, x) \in Seq(S)
  BY <1>2
<1>4. <<x>> \o u = b
  BY <1>1
<1>5. (a \o <<x>>) \o u = a \o (<<x>> \o u)
  BY ONLY <1>2, <1>3, a \in Seq(S), ConcatAssociative
<1> QED
  BY <1>1, <1>2, <1>3, <1>4, <1>5

(* The first of a list goes into the slot before it.                       *)
LEMMA IntoSlot ==
    ASSUME NEW S, NEW a \in Seq(S), NEW q \in Seq(S), q # <<>>
    PROVE  /\ <<Head(q)>> \in Seq(S) /\ Len(<<Head(q)>>) = 1 /\ Tail(q) \in Seq(S)
           /\ (a \o <<Head(q)>>) \o Tail(q) = (a \o <<>>) \o q
<1>1. PICK x, z, r : x = Head(q) /\ z = <<x>> /\ r = Tail(q)
  OBVIOUS
<1>2. x \in S /\ r \in Seq(S)
  BY ONLY <1>1, q \in Seq(S), q # <<>>, HeadTailProperties
<1>3. z \in Seq(S) /\ Len(z) = 1
  BY ONLY <1>1, <1>2
<1>4. Append(a, x) \o r = a \o q /\ Append(a, x) = a \o z
  <2>1. Append(a, x) \o r = a \o q
    BY <1>1, Moves
  <2>2. Append(a, x) = a \o z
    BY ONLY <1>1, <1>2, a \in Seq(S), AppendIsConcat
  <2> QED
    BY <2>1, <2>2
<1>5. a \o <<>> = a
  BY ONLY a \in Seq(S), ConcatEmptySeq
<1> QED
  BY <1>1, <1>2, <1>3, <1>4, <1>5

LEMMA SendKeepsTrail ==
    ASSUME RouterTypes, Send
    PROVE  /\ \A s \in Requester : Trail(s)' = Trail(s)
           /\ slot' \in Listed /\ queue' \in Listed
           /\ \A s \in Requester : Len(slot'[s]) <= 1
<1>1. /\ slot' = [s \in Requester |-> IF MaySend(s) THEN <<Head(queue[s])>> ELSE slot[s]]
      /\ queue' = [s \in Requester |-> IF MaySend(s) THEN Tail(queue[s]) ELSE queue[s]]
      /\ handled' = handled /\ wire' = wire
  BY DEF Send, server
<1>2. ASSUME NEW s \in Requester
      PROVE  /\ slot'[s] \in Seq(Command) /\ queue'[s] \in Seq(Command)
             /\ Len(slot'[s]) <= 1 /\ Trail(s)' = Trail(s)
  <2>1. PICK a, q : a = handled[s] \o wire[s] /\ q = queue[s]
    OBVIOUS
  <2>2. a \in Seq(Command) /\ q \in Seq(Command)
    BY <2>1, TrailType
  <2>3. Trail(s) = (a \o slot[s]) \o q /\ Trail(s)' = (a \o slot'[s]) \o queue'[s]
    BY <1>1, <2>1 DEF Trail
  <2>4. CASE MaySend(s)
    <3>1. slot[s] = <<>> /\ q # <<>> /\ slot'[s] = <<Head(q)>> /\ queue'[s] = Tail(q)
      BY <1>1, <2>1, <2>4 DEF MaySend
    <3>2. /\ <<Head(q)>> \in Seq(Command) /\ Len(<<Head(q)>>) = 1 /\ Tail(q) \in Seq(Command)
          /\ (a \o <<Head(q)>>) \o Tail(q) = (a \o <<>>) \o q
      BY ONLY <2>2, <3>1, IntoSlot
    <3> QED
      BY <2>3, <3>1, <3>2
  <2>5. CASE ~ MaySend(s)
    <3>1. slot'[s] = slot[s] /\ queue'[s] = q
      BY <1>1, <2>1, <2>5
    <3> QED
      BY <2>2, <2>3, <3>1, TrailType DEF RouterTypes
  <2> QED
    BY <2>4, <2>5
<1>3. slot' \in Listed
  BY <1>1, <1>2 DEF Listed
<1>4. queue' \in Listed
  BY <1>1, <1>2 DEF Listed
<1> QED
  BY <1>2, <1>3, <1>4

(* One place of a function is changed.                                     *)
Becomes(g, f, r, x) ==
    g \in Listed /\ g[r] = x /\ \A s \in Requester : s # r => g[s] = f[s]

LEMMA OneChanged ==
    ASSUME NEW f \in Listed, NEW r \in Requester, NEW x \in Seq(Command),
           NEW g, g = [f EXCEPT ![r] = x]
    PROVE  Becomes(g, f, r, x)
BY DEF Listed, Becomes

LEMMA SlotsEmptied ==
    ASSUME RouterTypes, NEW r \in Requester, Becomes(slot', slot, r, <<>>)
    PROVE  \A s \in Requester : Len(slot'[s]) <= 1
<1> TAKE s \in Requester
<1>1. CASE s = r
  <2>1. PICK x : x = slot'[s]
    OBVIOUS
  <2>2. x = <<>>
    BY <1>1, <2>1 DEF Becomes
  <2> QED
    BY <2>1, <2>2
<1>2. CASE s # r
  BY <1>2 DEF RouterTypes, Becomes
<1> QED
  BY <1>1, <1>2

LEMMA WriteKeepsTrail ==
    ASSUME RouterTypes, NEW r \in Requester, Write(r)
    PROVE  /\ \A s \in Requester : Trail(s)' = Trail(s)
           /\ wire' \in Listed /\ slot' \in Listed
           /\ \A s \in Requester : Len(slot'[s]) <= 1
<1>1. PICK h, w, x, q, e, y : /\ h = handled[r] /\ w = wire[r] /\ x = slot[r] /\ q = queue[r]
                              /\ e = <<>> /\ y = w \o x
  OBVIOUS
<1>2. /\ handled' = handled /\ queue' = queue
      /\ wire' = [wire EXCEPT ![r] = y] /\ slot' = [slot EXCEPT ![r] = e]
  BY <1>1 DEF Write, server
<1>3. h \in Seq(Command) /\ w \in Seq(Command) /\ x \in Seq(Command) /\ q \in Seq(Command)
  BY <1>1, TrailType
<1>4. y \in Seq(Command) /\ e \in Seq(Command) /\ Len(e) = 0
  <2>1. y \in Seq(Command)
    BY ONLY <1>1, <1>3, ConcatProperties
  <2> QED
    BY <1>1, <2>1
<1>5. wire \in Listed /\ slot \in Listed
  BY DEF RouterTypes
<1>6. Becomes(wire', wire, r, y)
  BY <1>2, <1>4, <1>5, OneChanged
<1>7. Becomes(slot', slot, r, e)
  BY <1>2, <1>4, <1>5, OneChanged
<1>8. (h \o y) \o e = (h \o w) \o x
  <2>1. h \o y = (h \o w) \o x
    <3>1. (h \o w) \o x = h \o (w \o x)
      BY ONLY <1>3, ConcatAssociative
    <3> QED
      BY <1>1, <3>1
  <2>2. h \o y \in Seq(Command)
    BY ONLY <1>3, <1>4, ConcatProperties
  <2>3. (h \o y) \o e = h \o y
    BY ONLY <1>1, <2>2, ConcatEmptySeq
  <2> QED
    BY <2>1, <2>3
<1>9. ASSUME NEW s \in Requester PROVE Trail(s)' = Trail(s)
  <2>1. CASE s = r
    BY <1>1, <1>2, <1>6, <1>7, <1>8, <2>1 DEF Trail, Becomes
  <2>2. CASE s # r
    BY <1>2, <1>6, <1>7, <2>2 DEF Trail, Becomes
  <2> QED
    BY <2>1, <2>2
<1>10. \A s \in Requester : Len(slot'[s]) <= 1
  BY <1>1, <1>7, SlotsEmptied
<1> QED
  BY <1>6, <1>7, <1>9, <1>10 DEF Becomes

LEMMA ProcessKeepsTrail ==
    ASSUME RouterTypes, NEW r \in Requester, Process(r)
    PROVE  /\ \A s \in Requester : Trail(s)' = Trail(s)
           /\ wire' \in Listed /\ handled' \in Listed
<1>1. PICK h, w, x, y : /\ h = handled[r] /\ w = wire[r]
                        /\ x = Append(h, Head(w)) /\ y = Tail(w)
  OBVIOUS
<1>2. /\ w # <<>> /\ queue' = queue /\ slot' = slot
      /\ handled' = [handled EXCEPT ![r] = x] /\ wire' = [wire EXCEPT ![r] = y]
  BY <1>1 DEF Process, ends
<1>3. h \in Seq(Command) /\ w \in Seq(Command)
  BY <1>1, TrailType
<1>4. x \in Seq(Command) /\ y \in Seq(Command) /\ x \o y = h \o w
  <2>1. /\ Append(h, Head(w)) \in Seq(Command) /\ Tail(w) \in Seq(Command)
        /\ Append(h, Head(w)) \o Tail(w) = h \o w
    BY ONLY <1>2, <1>3, Moves
  <2> QED
    BY <1>1, <2>1
<1>5. wire \in Listed /\ handled \in Listed
  BY DEF RouterTypes
<1>6. Becomes(wire', wire, r, y)
  BY <1>2, <1>4, <1>5, OneChanged
<1>7. Becomes(handled', handled, r, x)
  BY <1>2, <1>4, <1>5, OneChanged
<1>8. ASSUME NEW s \in Requester PROVE Trail(s)' = Trail(s)
  <2>1. CASE s = r
    BY <1>1, <1>2, <1>4, <1>6, <1>7, <2>1 DEF Trail, Becomes
  <2>2. CASE s # r
    BY <1>2, <1>6, <1>7, <2>2 DEF Trail, Becomes
  <2> QED
    BY <2>1, <2>2
<1> QED
  BY <1>6, <1>7, <1>8 DEF Becomes

(* A command typed goes to the end of the trail of the current server.     *)
LEMMA ToServerTrail ==
    ASSUME RouterTypes, ToServer
    PROVE  /\ \A s \in Requester :
                 Trail(s)' = IF s = current THEN Append(Trail(s), Len(aim) + 1) ELSE Trail(s)
           /\ queue' \in Listed
<1>1. PICK c : c = Len(aim) + 1
  OBVIOUS
<1>2. c \in Command /\ (current = 0 \/ current \in Requester) /\ 0 \notin Requester
  <2>1. /\ Len(aim) \in Nat /\ Len(aim) < MaxCmd /\ current \in (1 .. added) \cup {0}
        /\ added \in 0 .. MaxServer
    BY DEF RouterTypes, ToServer
  <2> QED
    BY <1>1, <2>1, BoundsAre DEF Command, Requester
<1>3. /\ handled' = handled /\ wire' = wire /\ slot' = slot /\ queue \in Listed
      /\ queue' = IF current = 0 THEN queue
                  ELSE [queue EXCEPT ![current] = Append(queue[current], c)]
  BY <1>1 DEF ToServer, server, ends, RouterTypes
<1>4. CASE current = 0
  <2>1. queue' = queue /\ \A s \in Requester : s # current
    BY <1>2, <1>3, <1>4
  <2> QED
    BY <1>3, <2>1 DEF Trail
<1>5. CASE current # 0
  <2>1. PICK r, q, y : r = current /\ q = queue[r] /\ y = Append(q, c)
    OBVIOUS
  <2>2. r \in Requester
    BY <1>2, <1>5, <2>1
  <2>3. q \in Seq(Command)
    BY <2>1, <2>2, TrailType
  <2>4. y \in Seq(Command)
    BY ONLY <1>2, <2>1, <2>3, AppendProperties
  <2>5. queue' = [queue EXCEPT ![r] = y]
    BY <1>3, <1>5, <2>1
  <2>6. Becomes(queue', queue, r, y)
    BY <1>3, <2>2, <2>4, <2>5, OneChanged
  <2>7. ASSUME NEW s \in Requester, s # r PROVE Trail(s)' = Trail(s)
    BY <1>3, <2>6, <2>7 DEF Trail, Becomes
  <2>8. Trail(r)' = Append(Trail(r), c)
    <3>1. PICK a, z : a = (handled[r] \o wire[r]) \o slot[r] /\ z = <<c>>
      OBVIOUS
    <3>2. a \in Seq(Command) /\ z \in Seq(Command)
      <4>1. a \in Seq(Command)
        BY <2>2, <3>1, TrailType
      <4>2. z \in Seq(Command)
        BY ONLY <1>2, <3>1
      <4> QED
        BY <4>1, <4>2
    <3>3. y = q \o z
      BY ONLY <1>2, <2>1, <2>3, <3>1, AppendIsConcat
    <3>4. a \o q \in Seq(Command)
      BY ONLY <2>3, <3>2, ConcatProperties
    <3>5. Append(a \o q, c) = (a \o q) \o z
      BY ONLY <1>2, <3>1, <3>4, AppendIsConcat
    <3>6. (a \o q) \o z = a \o (q \o z)
      BY ONLY <2>3, <3>2, ConcatAssociative
    <3>7. Trail(r) = a \o q /\ Trail(r)' = a \o y
      BY <1>3, <2>1, <2>6, <3>1 DEF Trail, Becomes
    <3> QED
      BY <3>3, <3>5, <3>6, <3>7
  <2> QED
    BY <1>1, <2>1, <2>6, <2>7, <2>8 DEF Becomes
<1> QED
  BY <1>4, <1>5
-----------------------------------------------------------------------------
(* A piece is cut out of a sequence.                                       *)
LEMMA Members ==
    ASSUME NEW S, NEW p \in Seq(S), NEW x
    PROVE  x \in ToSet(p) <=> \E i \in 1 .. Len(p) : p[i] = x
<1>1. DOMAIN p = 1 .. Len(p)
  OBVIOUS
<1> QED
  BY <1>1 DEF ToSet

LEMMA JoinIs ==
    ASSUME NEW S, NEW a \in Seq(S), NEW b \in Seq(S), NEW p, p = a \o b
    PROVE  /\ p \in Seq(S) /\ Len(a) \in Nat /\ Len(b) \in Nat /\ Len(p) = Len(a) + Len(b)
           /\ \A i \in 1 .. Len(p) : p[i] = IF i <= Len(a) THEN a[i] ELSE b[i - Len(a)]
BY ConcatProperties

Thinned(p, q, b) ==
    /\ Ordered(p) => Ordered(q)
    /\ ToSet(q) \subseteq ToSet(p) /\ ToSet(p) \subseteq ToSet(q) \cup ToSet(b)

LEMMA CutOut ==
    ASSUME NEW a \in Seq(Command), NEW b \in Seq(Command), NEW c \in Seq(Command)
    PROVE  Thinned((a \o b) \o c, a \o c, b)
<1>1. PICK ab, p, q : ab = a \o b /\ p = ab \o c /\ q = a \o c
  OBVIOUS
<1>2. PICK k, m, l : k = Len(a) /\ m = Len(b) /\ l = Len(c)
  OBVIOUS
<1>3. /\ k \in Nat /\ m \in Nat /\ l \in Nat
      /\ ab \in Seq(Command) /\ Len(ab) = k + m
      /\ \A i \in 1 .. k + m : ab[i] = IF i <= k THEN a[i] ELSE b[i - k]
  BY <1>1, <1>2, JoinIs
<1>4. /\ p \in Seq(Command) /\ Len(p) = k + m + l
      /\ \A i \in 1 .. k + m + l : p[i] = IF i <= k + m THEN ab[i] ELSE c[i - (k + m)]
  BY <1>1, <1>2, <1>3, JoinIs
<1>5. /\ q \in Seq(Command) /\ Len(q) = k + l
      /\ \A i \in 1 .. k + l : q[i] = IF i <= k THEN a[i] ELSE c[i - k]
  BY <1>1, <1>2, JoinIs
<1> DEFINE at(i) == IF i <= k THEN i ELSE i + m
<1>6. \A i \in 1 .. k + l : at(i) \in 1 .. k + m + l /\ q[i] = p[at(i)]
  <2> TAKE i \in 1 .. k + l
  <2>1. CASE i <= k
    <3>1. i \in 1 .. k + m /\ i \in 1 .. k + m + l /\ i <= k + m
      BY ONLY <1>3, <2>1
    <3> QED
      BY ONLY <1>3, <1>4, <1>5, <2>1, <3>1
  <2>2. CASE ~ (i <= k)
    <3>1. i + m \in 1 .. k + m + l /\ ~ (i + m <= k + m) /\ (i + m) - (k + m) = i - k
      BY ONLY <1>3, <2>2
    <3> QED
      BY ONLY <1>3, <1>4, <1>5, <2>2, <3>1
  <2> QED
    BY <2>1, <2>2
<1>7. \A i, j \in 1 .. k + l : i < j => at(i) < at(j)
  BY <1>3
<1>8. \A j \in 1 .. k + m + l : \/ \E i \in 1 .. k + l : at(i) = j
                                \/ j - k \in 1 .. m /\ p[j] = b[j - k]
  <2> TAKE j \in 1 .. k + m + l
  <2>1. CASE j <= k
    <3>1. j \in 1 .. k + l /\ at(j) = j
      BY <1>3, <2>1
    <3> QED
      BY <3>1
  <2>2. CASE j > k + m
    <3>1. j - m \in 1 .. k + l /\ at(j - m) = j
      BY <1>3, <2>2
    <3> QED
      BY <3>1
  <2>3. CASE k < j /\ j <= k + m
    BY <1>3, <1>4, <2>3
  <2> QED
    BY <1>3, <2>1, <2>2, <2>3
<1> HIDE DEF at
<1>9. Ordered(p) => Ordered(q)
  <2>1. DOMAIN p = 1 .. k + m + l /\ DOMAIN q = 1 .. k + l
    BY <1>4, <1>5
  <2> QED
    BY <1>6, <1>7, <2>1 DEF Ordered
<1>10. ASSUME NEW x \in ToSet(q) PROVE x \in ToSet(p)
  <2>1. PICK i \in 1 .. k + l : q[i] = x
    BY <1>5, <1>10, Members
  <2> QED
    BY <1>4, <1>6, <2>1, Members
<1>11. ASSUME NEW x \in ToSet(p) PROVE x \in ToSet(q) \cup ToSet(b)
  <2>1. PICK j \in 1 .. k + m + l : p[j] = x
    BY <1>4, <1>11, Members
  <2>2. CASE \E i \in 1 .. k + l : at(i) = j
    BY <1>5, <1>6, <2>1, <2>2, Members
  <2>3. CASE j - k \in 1 .. m /\ p[j] = b[j - k]
    BY <1>2, <2>1, <2>3, Members
  <2> QED
    BY <1>8, <2>2, <2>3
<1> QED
  BY <1>1, <1>9, <1>10, <1>11 DEF Thinned

(* What remains of a trail without its slot, and without its list, too.    *)
LEMMA SlotLost ==
    ASSUME RouterTypes, NEW r \in Requester, NEW t,
           t = ((handled[r] \o wire[r]) \o <<>>) \o queue[r]
    PROVE  Thinned(Trail(r), t, slot[r])
<1>1. PICK a, b, q : a = handled[r] \o wire[r] /\ b = slot[r] /\ q = queue[r]
  OBVIOUS
<1>2. a \in Seq(Command) /\ b \in Seq(Command) /\ q \in Seq(Command)
  BY <1>1, TrailType
<1>3. Thinned((a \o b) \o q, a \o q, b)
  BY <1>2, CutOut
<1>4. a \o <<>> = a
  BY ONLY <1>2, ConcatEmptySeq
<1>5. Trail(r) = (a \o b) \o q /\ t = a \o q
  BY <1>1, <1>4 DEF Trail
<1> QED
  BY <1>1, <1>3, <1>5

LEMMA RestLost ==
    ASSUME RouterTypes, NEW r \in Requester, NEW t,
           t = ((handled[r] \o wire[r]) \o <<>>) \o <<>>
    PROVE  /\ Ordered(Trail(r)) => Ordered(t)
           /\ ToSet(t) \subseteq ToSet(Trail(r))
<1>1. PICK a, q, e, u : /\ a = handled[r] \o wire[r] /\ q = queue[r] /\ e = <<>>
                        /\ u = (a \o e) \o q
  OBVIOUS
<1>2. a \in Seq(Command) /\ q \in Seq(Command) /\ e \in Seq(Command)
  BY <1>1, TrailType
<1>3. Thinned(Trail(r), u, slot[r])
  BY <1>1, SlotLost
<1>4. a \o e = a
  BY ONLY <1>1, <1>2, ConcatEmptySeq
<1>5. u = a \o q /\ (a \o q) \o e = a \o q /\ t = a \o e
  <2>1. u = a \o q
    BY <1>1, <1>4
  <2>2. a \o q \in Seq(Command)
    BY ONLY <1>2, ConcatProperties
  <2>3. (a \o q) \o e = a \o q
    BY ONLY <1>1, <2>2, ConcatEmptySeq
  <2> QED
    BY <1>1, <1>4, <2>1, <2>3
<1>6. Thinned((a \o q) \o e, a \o e, q)
  BY <1>2, CutOut
<1> QED
  BY <1>3, <1>5, <1>6 DEF Thinned
-----------------------------------------------------------------------------
(* Kept, from what becomes of the trails.                                  *)
LEMMA FewerLost ==
    ASSUME NEW A, NEW B, IsFiniteSet(A), B \subseteq A
    PROVE  /\ Cardinality(A) \in Nat /\ Cardinality(B) \in Nat
           /\ Cardinality(B) <= Cardinality(A)
BY FS_Subset, FS_CardinalityType

LEMMA OneLost ==
    ASSUME NEW A, NEW B, NEW x, IsFiniteSet(A), B \subseteq A \cup {x}
    PROVE  /\ Cardinality(A) \in Nat /\ Cardinality(B) \in Nat
           /\ Cardinality(B) <= Cardinality(A) + 1
<1>1. IsFiniteSet(A \cup {x}) /\ Cardinality(A \cup {x}) <= Cardinality(A) + 1
      /\ Cardinality(A) \in Nat
  BY FS_AddElement, FS_CardinalityType
<1>2. IsFiniteSet(B) /\ Cardinality(B) <= Cardinality(A \cup {x})
  BY <1>1, FS_Subset
<1> QED
  BY <1>1, <1>2, FS_CardinalityType

LEMMA FiniteLost ==
    ASSUME RouterTypes, NEW r
    PROVE  IsFiniteSet(Lost(r))
<1>1. DOMAIN aim = 1 .. Len(aim) /\ Len(aim) \in Nat
  BY DEF RouterTypes
<1>2. IsFiniteSet(1 .. Len(aim)) /\ Lost(r) \subseteq 1 .. Len(aim)
  BY <1>1, FS_Interval DEF Lost
<1> QED
  BY <1>2, FS_Subset

(* CommandsKept and the rest of Kept, for one server.                      *)
Whole(t, r) == /\ Ordered(t) /\ ToSet(t) \subseteq DOMAIN aim
               /\ \A c \in ToSet(t) : aim[c] = r
Bounded(r) == r \in servers => Cardinality(Lost(r)) <= got[r]

LEMMA KeptIs == Kept <=> \A r \in Requester : Whole(Trail(r), r) /\ Bounded(r)
BY DEF Kept, CommandsKept, Whole, Bounded

LEMMA KeptNext ==
    Kept' <=> \A r \in Requester : Whole(Trail(r), r)' /\ Bounded(r)'
BY DEF Kept, CommandsKept, Whole, Bounded, Ordered

(* A server whose trail stays what it is.                                  *)
LEMMA KeptAlike ==
    ASSUME NEW r \in Requester, Whole(Trail(r), r), Bounded(r), Trail(r)' = Trail(r),
           aim' = aim, got'[r] = got[r], r \in servers' => r \in servers
    PROVE  Whole(Trail(r), r)' /\ Bounded(r)'
<1>1. Lost(r)' = Lost(r)
  BY DEF Lost
<1>2. Bounded(r)'
  BY <1>1 DEF Bounded
<1>3. Whole(Trail(r), r)'
  BY DEF Whole, Ordered
<1> QED
  BY <1>2, <1>3

LEMMA KeptUnmoved ==
    ASSUME Kept, \A s \in Requester : Trail(s)' = Trail(s), UNCHANGED <<aim, got>>,
           servers' \subseteq servers
    PROVE  Kept'
<1> SUFFICES ASSUME NEW s \in Requester PROVE Whole(Trail(s), s)' /\ Bounded(s)'
  BY KeptNext
<1> QED
  BY KeptIs, KeptAlike

(* A command is appended to a trail.                                       *)
LEMMA Appended ==
    ASSUME NEW x \in Seq(Command), NEW n \in Nat, \A c \in ToSet(x) : c < n, Ordered(x),
           NEW y, y = Append(x, n)
    PROVE  Ordered(y) /\ ToSet(y) = ToSet(x) \cup {n}
<1>1. PICK k : k = Len(x)
  OBVIOUS
<1>2. /\ k \in Nat /\ DOMAIN x = 1 .. k /\ DOMAIN y = 1 .. k + 1
      /\ y[k + 1] = n /\ \A i \in 1 .. k : y[i] = x[i]
  BY <1>1
<1>3. \A i \in 1 .. k + 1 : i \in 1 .. k \/ i = k + 1
  BY <1>2
<1>4. k + 1 \in 1 .. k + 1 /\ 1 .. k \subseteq 1 .. k + 1
  BY <1>2
<1>5. ToSet(y) = ToSet(x) \cup {n}
  <2>1. ToSet(y) = {y[i] : i \in 1 .. k + 1} /\ ToSet(x) = {x[i] : i \in 1 .. k}
    BY <1>2 DEF ToSet
  <2> QED
    BY <1>2, <1>3, <1>4, <2>1
<1>6. \A i \in 1 .. k : x[i] < n
  BY <1>2 DEF ToSet
<1>7. Ordered(y)
  <2> SUFFICES ASSUME NEW i \in 1 .. k + 1, NEW j \in 1 .. k + 1, i < j PROVE y[i] < y[j]
    BY <1>2 DEF Ordered
  <2>1. i \in 1 .. k
    BY <1>2
  <2>2. CASE j = k + 1
    BY <1>2, <1>6, <2>1, <2>2
  <2>3. CASE j \in 1 .. k
    <3>1. x[i] < x[j]
      BY <1>2, <2>1, <2>3 DEF Ordered
    <3> QED
      BY <1>2, <2>1, <2>3, <3>1
  <2> QED
    BY <1>3, <2>2, <2>3
<1> QED
  BY <1>5, <1>7

LEMMA KeptGrown ==
    ASSUME RouterTypes, Kept, ToServer
    PROVE  Kept'
<1>1. PICK n : n = Len(aim) + 1
  OBVIOUS
<1>2. /\ \A s \in Requester :
            Trail(s)' = IF s = current THEN Append(Trail(s), n) ELSE Trail(s)
      /\ aim' = Append(aim, current) /\ servers' = servers /\ got' = got
  BY <1>1, ToServerTrail DEF ToServer, ends
<1>3. /\ n \in Nat /\ DOMAIN aim = 1 .. n - 1 /\ DOMAIN aim' = 1 .. n
      /\ aim'[n] = current /\ \A c \in DOMAIN aim : aim'[c] = aim[c]
  BY <1>1, <1>2 DEF RouterTypes
<1>4. /\ DOMAIN aim \subseteq DOMAIN aim' /\ n \in DOMAIN aim' /\ \A c \in DOMAIN aim : c < n
      /\ \A c \in DOMAIN aim' : c \in DOMAIN aim \/ c = n
  <2>1. PICK m : m = n - 1
    OBVIOUS
  <2>2. /\ n \in Nat /\ m = n - 1 /\ m \in Nat
    <3>1. Len(aim) \in Nat
      BY DEF RouterTypes
    <3> QED
      BY <1>1, <2>1, <3>1
  <2> QED
    BY <1>3, <2>1, <2>2
<1>5. ASSUME NEW s \in Requester PROVE Whole(Trail(s), s)' /\ Bounded(s)'
  <2>1. Whole(Trail(s), s) /\ Bounded(s)
    BY KeptIs
  <2>2. Whole(Trail(s), s)' /\ ToSet(Trail(s)) \subseteq ToSet(Trail(s)')
        /\ (s = current => n \in ToSet(Trail(s)'))
    <3>1. CASE s # current
      <4>1. Trail(s)' = Trail(s)
        BY <1>2, <3>1
      <4> QED
        BY <1>3, <1>4, <2>1, <3>1, <4>1 DEF Whole, Ordered
    <3>2. CASE s = current
      <4>1. PICK x, y : x = Trail(s) /\ y = Append(x, n)
        OBVIOUS
      <4>2. Trail(s)' = y /\ x \in Seq(Command)
        BY <1>2, <3>2, <4>1, TrailType
      <4>3. Ordered(x) /\ \A c \in ToSet(x) : c < n
        BY <1>4, <2>1, <4>1 DEF Whole
      <4>4. Ordered(y) /\ ToSet(y) = ToSet(x) \cup {n}
        BY <1>3, <4>1, <4>2, <4>3, Appended
      <4>5. /\ ToSet(y) \subseteq DOMAIN aim' /\ \A c \in ToSet(y) : aim'[c] = s
        BY <1>3, <1>4, <2>1, <3>2, <4>1, <4>4 DEF Whole
      <4> QED
        BY <4>1, <4>2, <4>4, <4>5 DEF Whole, Ordered
    <3> QED
      BY <3>1, <3>2
  <2>3. Lost(s)' \subseteq Lost(s)
    BY <1>3, <1>4, <2>2 DEF Lost
  <2>4. Bounded(s)'
    <3>1. Cardinality(Lost(s)') <= Cardinality(Lost(s))
          /\ Cardinality(Lost(s)') \in Nat /\ Cardinality(Lost(s)) \in Nat
      BY <2>3, FiniteLost, FewerLost
    <3>2. got[s] \in Nat
      BY DEF RouterTypes
    <3> QED
      BY <1>2, <2>1, <3>1, <3>2 DEF Bounded
  <2> QED
    BY <2>2, <2>4
<1> QED
  BY <1>5, KeptNext

(* An answer may empty the slot: one command more is lost.                 *)
LEMMA KeptEmptied ==
    ASSUME RouterTypes, Kept, NEW r \in Requester, ReadAnswer(r)
    PROVE  /\ Kept' /\ slot' \in Listed /\ got' \in [Requester -> Nat]
           /\ \A s \in Requester : Len(slot'[s]) <= 1
<1>1. PICK e : e = <<>>
  OBVIOUS
<1>2. /\ slot' = [slot EXCEPT ![r] = e] /\ got' = [got EXCEPT ![r] = @ + 1]
      /\ UNCHANGED <<servers, aim, handled, wire, queue>>
  BY <1>1 DEF ReadAnswer, client, server
<1>3. Becomes(slot', slot, r, e)
  <2>1. slot \in Listed /\ e \in Seq(Command)
    BY <1>1 DEF RouterTypes
  <2> QED
    BY <1>2, <2>1, OneChanged
<1>4. got' \in [Requester -> Nat] /\ got[r] \in Nat /\ got'[r] = got[r] + 1
      /\ \A s \in Requester : s # r => got'[s] = got[s]
  BY <1>2 DEF RouterTypes
<1>5. ASSUME NEW s \in Requester PROVE Whole(Trail(s), s)' /\ Bounded(s)'
  <2>1. Whole(Trail(s), s) /\ Bounded(s)
    BY KeptIs
  <2>2. CASE s # r
    <3>1. Trail(s)' = Trail(s)
      BY <1>2, <1>3, <2>2 DEF Trail, Becomes
    <3> QED
      BY <1>2, <1>4, <2>1, <2>2, <3>1, KeptAlike
  <2>3. CASE s = r
    <3>1. PICK t : t = ((handled[r] \o wire[r]) \o e) \o queue[r]
      OBVIOUS
    <3>2. Trail(s)' = t
      BY <1>2, <1>3, <2>3, <3>1 DEF Trail, Becomes
    <3>3. Thinned(Trail(s), t, slot[s])
      BY <1>1, <2>3, <3>1, SlotLost
    <3>4. Whole(Trail(s), s)'
      BY <1>2, <2>1, <3>2, <3>3 DEF Whole, Thinned, Ordered
    <3>5. Lost(s)' \subseteq Lost(s) \cup {slot[s][1]}
      <4>1. ToSet(slot[s]) \subseteq {slot[s][1]}
        <5>1. slot[s] \in Seq(Command) /\ Len(slot[s]) <= 1
          BY TrailType DEF RouterTypes
        <5>2. \A i \in DOMAIN slot[s] : i = 1
          BY <5>1
        <5> QED
          BY <5>2 DEF ToSet
      <4> QED
        BY <1>2, <3>2, <3>3, <4>1 DEF Lost, Thinned
    <3>6. /\ Cardinality(Lost(s)') <= Cardinality(Lost(s)) + 1
          /\ Cardinality(Lost(s)') \in Nat /\ Cardinality(Lost(s)) \in Nat
      BY <3>5, FiniteLost, OneLost
    <3>7. Bounded(s)'
      BY <1>2, <1>4, <2>1, <2>3, <3>6 DEF Bounded
    <3> QED
      BY <3>4, <3>7
  <2> QED
    BY <2>2, <2>3
<1>6. \A s \in Requester : Len(slot'[s]) <= 1
  BY <1>1, <1>3, SlotsEmptied
<1> QED
  BY <1>3, <1>4, <1>5, <1>6, KeptNext DEF Becomes

(* What is deleted with a server is the end of its trail.                  *)
LEMMA KeptCut ==
    ASSUME RouterTypes, Kept, NEW r \in Requester, DelServer(r)
    PROVE  /\ Kept' /\ slot' \in Listed /\ queue' \in Listed
           /\ \A s \in Requester : Len(slot'[s]) <= 1
<1>1. PICK e : e = <<>>
  OBVIOUS
<1>2. /\ queue' = [queue EXCEPT ![r] = e] /\ slot' = [slot EXCEPT ![r] = e]
      /\ servers' = servers \ {r} /\ UNCHANGED <<aim, handled, wire, got>>
  BY <1>1 DEF DelServer, Dropped, server
<1>3. Becomes(slot', slot, r, e) /\ Becomes(queue', queue, r, e)
  <2>1. slot \in Listed /\ queue \in Listed /\ e \in Seq(Command)
    BY <1>1 DEF RouterTypes
  <2> QED
    BY <1>2, <2>1, OneChanged
<1>4. ASSUME NEW s \in Requester PROVE Whole(Trail(s), s)' /\ Bounded(s)'
  <2>1. Whole(Trail(s), s) /\ Bounded(s)
    BY KeptIs
  <2>2. CASE s # r
    <3>1. Trail(s)' = Trail(s)
      BY <1>2, <1>3, <2>2 DEF Trail, Becomes
    <3> QED
      BY <1>2, <2>1, <3>1, KeptAlike
  <2>3. CASE s = r
    <3>1. PICK t : t = ((handled[r] \o wire[r]) \o e) \o e
      OBVIOUS
    <3>2. Trail(s)' = t
      BY <1>2, <1>3, <2>3, <3>1 DEF Trail, Becomes
    <3>3. (Ordered(Trail(s)) => Ordered(t)) /\ ToSet(t) \subseteq ToSet(Trail(s))
      BY <1>1, <2>3, <3>1, RestLost
    <3>4. Whole(Trail(s), s)'
      BY <1>2, <2>1, <3>2, <3>3 DEF Whole, Ordered
    <3> QED
      BY <1>2, <2>3, <3>4 DEF Bounded
  <2> QED
    BY <2>2, <2>3
<1>5. \A s \in Requester : Len(slot'[s]) <= 1
  BY <1>1, <1>3, SlotsEmptied
<1> QED
  BY <1>3, <1>4, <1>5, KeptNext DEF Becomes

(* A new server has no commands yet.                                       *)
LEMMA KeptNew ==
    ASSUME RouterTypes, Kept, AddServer
    PROVE  Kept'
<1>1. /\ servers' = servers \cup {added + 1}
      /\ UNCHANGED <<aim, queue, slot, wire, handled, got>>
  BY DEF AddServer, server, ends
<1>2. ASSUME NEW s \in Requester PROVE Whole(Trail(s), s)' /\ Bounded(s)'
  <2>1. Whole(Trail(s), s) /\ Bounded(s) /\ Trail(s)' = Trail(s)
    BY <1>1, KeptIs DEF Trail
  <2>2. CASE s # added + 1
    BY <1>1, <2>1, <2>2, KeptAlike
  <2>3. CASE s = added + 1
    <3>1. \A c \in DOMAIN aim : aim[c] # s
      <4>1. aim \in Seq(0 .. added) /\ added \in Nat
        BY BoundsAre DEF RouterTypes
      <4>2. \A c \in DOMAIN aim : aim[c] \in 0 .. added
        BY <4>1
      <4> QED
        BY <2>3, <4>1, <4>2
    <3>2. Lost(s)' = {}
      BY <1>1, <3>1 DEF Lost
    <3>3. Cardinality(Lost(s)') = 0 /\ got'[s] \in Nat
      BY <1>1, <3>2, FS_EmptySet DEF RouterTypes
    <3>4. Bounded(s)'
      BY <3>3 DEF Bounded
    <3>5. Whole(Trail(s), s)'
      BY <1>1, <2>1 DEF Whole, Ordered
    <3> QED
      BY <3>4, <3>5
  <2> QED
    BY <2>2, <2>3
<1> QED
  BY <1>2, KeptNext
-----------------------------------------------------------------------------
(* The invariant, step by step.                                            *)
LEMMA SeqWidens ==
    ASSUME NEW S, NEW T, S \subseteq T, NEW s \in Seq(S)
    PROVE  s \in Seq(T)
<1>1. Len(s) \in Nat /\ s = [i \in 1 .. Len(s) |-> s[i]]
  OBVIOUS
<1>2. \A i \in 1 .. Len(s) : s[i] \in T
  OBVIOUS
<1>3. s \in [1 .. Len(s) -> T]
  BY <1>1, <1>2
<1> QED
  BY <1>1, <1>3

LEMMA TextsStay ==
    ASSUME Texts, UNCHANGED pusher
    PROVE  Texts'
<1>1. pushText' = pushText /\ ackText' = ackText /\ pushes' = pushes /\ read' = read
  BY DEF pusher
<1>2. (Plain' <=> Plain) /\ (Last(pushes)' = Last(pushes))
  BY <1>1 DEF Plain, Last
<1>3. \A i : PushOf(i)' = PushOf(i) /\ AnswerOf(i)' = AnswerOf(i)
  BY <1>1 DEF PushOf, AnswerOf
<1> QED
  BY <1>1, <1>2, <1>3 DEF Texts

LEMMA TrailsStay ==
    ASSUME UNCHANGED <<handled, wire, slot, queue>>
    PROVE  \A s \in Requester : Trail(s)' = Trail(s)
BY DEF Trail

LEMMA RouterInitInv == RouterInit => RouterInv
<1> SUFFICES ASSUME RouterInit PROVE RouterInv
  OBVIOUS
<1>1. PICK e : e = <<>>
  OBVIOUS
<1>2. /\ made = 0 /\ users = {} /\ servers = {} /\ current = 0 /\ added = 0
      /\ aim = e /\ pushes = e /\ pushText = <<>> /\ ackText = <<>> /\ read.topic = NULL
      /\ user = [r \in Requester |-> 0]
      /\ queue = [r \in Requester |-> e] /\ wire = [r \in Requester |-> e]
      /\ handled = [r \in Requester |-> e] /\ slot = [r \in Requester |-> e]
      /\ want = [r \in Requester |-> "w"] /\ got = [r \in Requester |-> 0]
      /\ down = [r \in Requester |-> 0]
      /\ end = [r \in Requester |-> [want |-> "r", send |-> "wait"]]
  BY <1>1 DEF RouterInit
<1>3. e \in Seq(Command) /\ Len(e) = 0
  BY <1>1
<1>4. RouterTypes
  <2>1. /\ user \in [Requester -> Nat] /\ got \in [Requester -> Nat]
        /\ down \in [Requester -> Nat]
        /\ want \in [Requester -> {"r", "w"}] /\ end \in [Requester -> ServerEnd]
    BY <1>2 DEF ServerEnd
  <2>2. queue \in Listed /\ wire \in Listed /\ handled \in Listed /\ slot \in Listed
    BY <1>2, <1>3 DEF Listed
  <2>3. added \in 0 .. MaxServer /\ servers \subseteq 1 .. added /\ current \in servers \cup {0}
    BY <1>2, BoundsAre
  <2>4. /\ aim \in Seq(0 .. added) /\ Len(aim) <= MaxCmd
        /\ pushes \in Seq(TopicName) /\ Len(pushes) <= MaxPush
    BY <1>1, <1>2, BoundsAre
  <2>5. \A r \in Requester : Len(slot[r]) <= 1
    BY <1>2, <1>3
  <2> QED
    BY <1>2, <2>1, <2>2, <2>3, <2>4, <2>5 DEF RouterTypes
<1>5. Accounts
  BY <1>2 DEF Accounts
<1>6. Kept
  <2> SUFFICES ASSUME NEW r \in Requester PROVE Whole(Trail(r), r) /\ Bounded(r)
    BY KeptIs
  <2>1. PICK t : t = Trail(r)
    OBVIOUS
  <2>2. t = ((e \o e) \o e) \o e
    BY <1>2, <2>1 DEF Trail
  <2>3. DOMAIN t = {}
    BY <1>1, <2>2
  <2> QED
    BY <1>2, <2>1, <2>3 DEF Whole, Bounded, Ordered, ToSet
<1>7. Texts
  BY <1>1, <1>2 DEF Texts
<1> QED
  BY <1>4, <1>5, <1>6, <1>7 DEF RouterInv

LEMMA ServerConsoleKeeps ==
    ASSUME RouterInv, ServerConsole
    PROVE  RouterInv'
<1>1. PICK t \in AsTyped : AddUser(t) \/ DelUser(t) \/ SetUser(t)
  BY DEF ServerConsole
<1>2. UNCHANGED <<client, queue, ends, wire, down, server, pusher>>
  BY <1>1 DEF AddUser, DelUser, SetUser
<1>3. made' \in Nat /\ users' \subseteq User' /\ Accounts'
  BY <1>1, AddUserKeeps, DelUserKeeps, SetUserKeeps DEF RouterInv
<1>4. RouterTypes'
  BY <1>2, <1>3 DEF RouterInv, RouterTypes, client, ends, server, pusher
<1>5. Kept'
  <2>1. /\ UNCHANGED <<handled, wire, slot, queue>>
        /\ UNCHANGED <<aim, got>> /\ servers' \subseteq servers
    BY <1>2 DEF client, server, ends
  <2> QED
    BY <2>1, TrailsStay, KeptUnmoved DEF RouterInv
<1>6. Texts'
  BY <1>2, TextsStay DEF RouterInv
<1> QED
  BY <1>3, <1>4, <1>5, <1>6 DEF RouterInv

(* What the steps of the client and of the connections leave alone.        *)
Aside == UNCHANGED <<accounts, pusher>>

LEMMA AsideStays ==
    ASSUME RouterInv, Aside
    PROVE  /\ Accounts' /\ Texts' /\ made' \in Nat /\ users' \subseteq User'
           /\ pushes' \in Seq(TopicName) /\ Len(pushes') <= MaxPush
<1>1. UNCHANGED <<users, made, pushes>> /\ UNCHANGED pusher
  BY DEF Aside, accounts, pusher
<1>2. Accounts' /\ Texts'
  BY <1>1, AccountsStay, TextsStay DEF RouterInv
<1> QED
  BY <1>1, <1>2 DEF RouterInv, RouterTypes, User

LEMMA AddServerKeeps ==
    ASSUME RouterInv, AddServer
    PROVE  RouterInv'
<1>1. /\ added < MaxServer /\ added' = added + 1 /\ servers' = servers \cup {added + 1}
      /\ current' = IF current = 0 THEN added + 1 ELSE current
      /\ UNCHANGED <<aim, queue, slot, want, got, wire, down, end, user, handled>> /\ Aside
  BY DEF AddServer, Aside, ends, server
<1>2. RouterTypes'
  <2>1. MaxServer \in Nat /\ added \in 0 .. MaxServer /\ servers \subseteq 1 .. added
    BY BoundsAre DEF RouterInv, RouterTypes
  <2>2. added' \in 0 .. MaxServer /\ servers' \subseteq 1 .. added' /\ current' \in servers' \cup {0}
    BY <1>1, <2>1 DEF RouterInv, RouterTypes
  <2>3. aim' \in Seq(0 .. added')
    <3>1. 0 .. added \subseteq 0 .. added'
      BY <1>1, <2>1
    <3>2. aim \in Seq(0 .. added)
      BY DEF RouterInv, RouterTypes
    <3>3. aim \in Seq(0 .. added')
      BY ONLY <3>1, <3>2, SeqWidens
    <3> QED
      BY <1>1, <3>3
  <2> QED
    BY <1>1, <2>2, <2>3, AsideStays DEF RouterInv, RouterTypes
<1>3. Kept'
  BY KeptNew DEF RouterInv
<1> QED
  BY <1>1, <1>2, <1>3, AsideStays DEF RouterInv

LEMMA DelServerKeeps ==
    ASSUME RouterInv, NEW r \in Requester, DelServer(r)
    PROVE  RouterInv'
<1>1. /\ servers' = servers \ {r} /\ current' = Left(r)
      /\ UNCHANGED <<added, aim, want, got, wire, down, end, user, handled>> /\ Aside
  BY DEF DelServer, Aside, server
<1>2. /\ Kept' /\ slot' \in Listed /\ queue' \in Listed
      /\ \A s \in Requester : Len(slot'[s]) <= 1
  BY KeptCut DEF RouterInv
<1>3. current' \in servers' \cup {0} /\ servers' \subseteq 1 .. added'
  BY <1>1 DEF RouterInv, RouterTypes, Left
<1>4. RouterTypes'
  BY <1>1, <1>2, <1>3, AsideStays DEF RouterInv, RouterTypes
<1> QED
  BY <1>1, <1>2, <1>4, AsideStays DEF RouterInv

LEMMA UseServerKeeps ==
    ASSUME RouterInv, NEW r \in Requester, UseServer(r)
    PROVE  RouterInv'
<1>1. /\ r \in servers /\ current' = r
      /\ UNCHANGED <<servers, added, aim, queue, slot, want, got, wire, down, end, user, handled>>
      /\ Aside
  BY DEF UseServer, Aside, ends, server
<1>2. RouterTypes'
  BY <1>1, AsideStays DEF RouterInv, RouterTypes
<1>3. Kept'
  BY <1>1, TrailsStay, KeptUnmoved DEF RouterInv
<1> QED
  BY <1>1, <1>2, <1>3, AsideStays DEF RouterInv

LEMMA ToServerKeeps ==
    ASSUME RouterInv, ToServer
    PROVE  RouterInv'
<1>1. /\ Len(aim) < MaxCmd /\ aim' = Append(aim, current)
      /\ UNCHANGED <<servers, current, added, slot, want, got, wire, down, end, user, handled>>
      /\ Aside
  BY DEF ToServer, Aside, ends, server
<1>2. RouterTypes'
  <2>1. queue' \in Listed
    BY ToServerTrail DEF RouterInv
  <2>2. aim' \in Seq(0 .. added') /\ Len(aim') <= MaxCmd
    <3>1. /\ aim \in Seq(0 .. added) /\ current \in 0 .. added /\ MaxCmd \in Nat
      BY BoundsAre DEF RouterInv, RouterTypes
    <3> QED
      BY <1>1, <3>1
  <2> QED
    BY <1>1, <2>1, <2>2, AsideStays DEF RouterInv, RouterTypes
<1>3. Kept'
  BY KeptGrown DEF RouterInv
<1> QED
  BY <1>1, <1>2, <1>3, AsideStays DEF RouterInv

LEMMA SendKeeps ==
    ASSUME RouterInv, Send
    PROVE  RouterInv'
<1>1. /\ UNCHANGED <<servers, current, added, aim, want, got, wire, down, end, user, handled>>
      /\ Aside
  BY DEF Send, Aside, client, server
<1>2. /\ \A s \in Requester : Trail(s)' = Trail(s)
      /\ slot' \in Listed /\ queue' \in Listed
      /\ \A s \in Requester : Len(slot'[s]) <= 1
  BY SendKeepsTrail DEF RouterInv
<1>3. RouterTypes'
  BY <1>1, <1>2, AsideStays DEF RouterInv, RouterTypes
<1>4. Kept'
  BY <1>1, <1>2, KeptUnmoved DEF RouterInv
<1> QED
  BY <1>1, <1>3, <1>4, AsideStays DEF RouterInv

LEMMA WriteKeeps ==
    ASSUME RouterInv, NEW r \in Requester, Write(r)
    PROVE  RouterInv'
<1>1. /\ UNCHANGED <<servers, current, added, aim, queue, got, down, end, user, handled>>
      /\ Aside /\ want' = [want EXCEPT ![r] = "r"]
  BY DEF Write, Aside, client, server
<1>2. /\ \A s \in Requester : Trail(s)' = Trail(s)
      /\ wire' \in Listed /\ slot' \in Listed
      /\ \A s \in Requester : Len(slot'[s]) <= 1
  BY WriteKeepsTrail DEF RouterInv
<1>3. want' \in [Requester -> {"r", "w"}]
  BY <1>1 DEF RouterInv, RouterTypes
<1>4. RouterTypes'
  BY <1>1, <1>2, <1>3, AsideStays DEF RouterInv, RouterTypes
<1>5. Kept'
  BY <1>1, <1>2, KeptUnmoved DEF RouterInv
<1> QED
  BY <1>1, <1>4, <1>5, AsideStays DEF RouterInv

LEMMA ReadAnswerKeeps ==
    ASSUME RouterInv, NEW r \in Requester, ReadAnswer(r)
    PROVE  RouterInv'
<1>1. /\ UNCHANGED <<servers, current, added, aim, queue, wire, end, user, handled>> /\ Aside
      /\ want' = [want EXCEPT ![r] = "w"]
      /\ down[r] > 0 /\ down' = [down EXCEPT ![r] = down[r] - 1]
  BY DEF ReadAnswer, Aside, client, server
<1>2. /\ Kept' /\ slot' \in Listed /\ got' \in [Requester -> Nat]
      /\ \A s \in Requester : Len(slot'[s]) <= 1
  BY KeptEmptied DEF RouterInv
<1>3. want' \in [Requester -> {"r", "w"}]
  BY <1>1 DEF RouterInv, RouterTypes
<1>4. down' \in [Requester -> Nat]
  <2>1. down \in [Requester -> Nat] /\ down[r] - 1 \in Nat
    BY <1>1 DEF RouterInv, RouterTypes
  <2> QED
    BY <1>1, <2>1
<1>5. RouterTypes'
  BY <1>1, <1>2, <1>3, <1>4, AsideStays DEF RouterInv, RouterTypes
<1> QED
  BY <1>1, <1>2, <1>5, AsideStays DEF RouterInv

LEMMA ProcessKeeps ==
    ASSUME RouterInv, NEW r \in Requester, Process(r)
    PROVE  RouterInv'
<1>1. /\ UNCHANGED <<servers, current, added, aim, queue, slot, want, got, down>> /\ Aside
      /\ user' = [user EXCEPT ![r] = Found(r)] /\ end' = [end EXCEPT ![r].want = "w"]
  BY DEF Process, Aside, client, ends
<1>2. /\ \A s \in Requester : Trail(s)' = Trail(s)
      /\ wire' \in Listed /\ handled' \in Listed
  BY ProcessKeepsTrail DEF RouterInv
<1>3. user' \in [Requester -> Nat]
  <2>1. Found(r) \in Nat
    <3>1. \A u \in Named(Sender.name) : u.id \in Nat
      BY DEF RouterInv, RouterTypes, User, Named
    <3> QED
      BY <3>1, IdIs DEF Found
  <2> QED
    BY <1>1, <2>1 DEF RouterInv, RouterTypes
<1>4. end' \in [Requester -> ServerEnd]
  BY <1>1 DEF RouterInv, RouterTypes, ServerEnd
<1>5. RouterTypes'
  BY <1>1, <1>2, <1>3, <1>4, AsideStays DEF RouterInv, RouterTypes
<1>6. Kept'
  BY <1>1, <1>2, KeptUnmoved DEF RouterInv
<1> QED
  BY <1>1, <1>5, <1>6, AsideStays DEF RouterInv

LEMMA RespondKeeps ==
    ASSUME RouterInv, NEW r \in Requester, Respond(r)
    PROVE  RouterInv'
<1>1. /\ UNCHANGED <<servers, current, added, aim, queue, slot, want, got, wire, user, handled>>
      /\ Aside
      /\ end' = [end EXCEPT ![r] = [want |-> "r", send |-> "finish"]]
      /\ down' = [down EXCEPT ![r] = IF end[r].send = "wait" THEN @ + 1 ELSE @]
  BY DEF Respond, Aside, client, ends
<1>2. end' \in [Requester -> ServerEnd] /\ down' \in [Requester -> Nat]
  BY <1>1 DEF RouterInv, RouterTypes, ServerEnd
<1>3. RouterTypes'
  BY <1>1, <1>2, AsideStays DEF RouterInv, RouterTypes
<1>4. Kept'
  BY <1>1, TrailsStay, KeptUnmoved DEF RouterInv
<1> QED
  BY <1>1, <1>3, <1>4, AsideStays DEF RouterInv

LEMMA PusherKeeps ==
    ASSUME RouterInv, Answer \/ \E t \in TopicName : Push(t)
    PROVE  RouterInv'
<1>1. UNCHANGED <<users, made, servers, current, added, aim, queue, slot, want, got, wire,
                  down, end, user, handled>>
  BY DEF Answer, Push, accounts, client, ends, server
<1>2. pushes' \in Seq(TopicName) /\ Len(pushes') <= MaxPush
  <2>1. pushes \in Seq(TopicName) /\ Len(pushes) <= MaxPush /\ MaxPush \in Nat
    BY BoundsAre DEF RouterInv, RouterTypes
  <2>2. CASE Answer
    BY <2>1, <2>2 DEF Answer
  <2>3. CASE \E t \in TopicName : Push(t)
    <3>1. PICK t \in TopicName : Push(t)
      BY <2>3
    <3>2. Len(pushes) < MaxPush /\ pushes' = Append(pushes, t)
      BY <3>1 DEF Push
    <3> QED
      BY <2>1, <3>2
  <2> QED
    BY <2>2, <2>3
<1>3. RouterTypes'
  BY <1>1, <1>2 DEF RouterInv, RouterTypes, User
<1>4. Accounts'
  BY <1>1, AccountsStay DEF RouterInv
<1>5. Texts'
  BY PushKeeps, AnswerKeeps DEF RouterInv
<1>6. Kept'
  BY <1>1, TrailsStay, KeptUnmoved DEF RouterInv
<1> QED
  BY <1>3, <1>4, <1>5, <1>6 DEF RouterInv

LEMMA RouterStays ==
    ASSUME RouterInv, UNCHANGED routerVars
    PROVE  RouterInv'
<1>1. UNCHANGED <<servers, current, added, aim, queue, slot, want, got, wire, down, end,
                  user, handled>> /\ Aside
  BY DEF routerVars, client, ends, server, Aside
<1>2. RouterTypes'
  BY <1>1, AsideStays DEF RouterInv, RouterTypes
<1>3. Kept'
  BY <1>1, TrailsStay, KeptUnmoved DEF RouterInv
<1> QED
  BY <1>1, <1>2, <1>3, AsideStays DEF RouterInv

(* Types, accounts with ids of their own that are what lines gave, trails  *)
(* of commands for their server with a bound on what they have lost, and   *)
(* texts of two params: what router.c, user.c, request.c with the handlers *)
(* of a request connection, and setParamByValue keep.                      *)
THEOREM RouterInvariant == RouterSpec => []RouterInv
<1>1. RouterInv /\ [RouterNext]_routerVars => RouterInv'
  <2> SUFFICES ASSUME RouterInv, [RouterNext]_routerVars PROVE RouterInv'
    OBVIOUS
  <2>1. CASE ServerConsole
    BY <2>1, ServerConsoleKeeps
  <2>2. CASE ClientConsole
    BY <2>2, AddServerKeeps, ToServerKeeps, DelServerKeeps, UseServerKeeps DEF ClientConsole
  <2>3. CASE Send
    BY <2>3, SendKeeps
  <2>4. CASE \E r \in Requester : Write(r) \/ ReadAnswer(r) \/ Process(r) \/ Respond(r)
    BY <2>4, WriteKeeps, ReadAnswerKeeps, ProcessKeeps, RespondKeeps
  <2>5. CASE Answer \/ \E t \in TopicName : Push(t)
    BY <2>5, PusherKeeps
  <2>6. CASE UNCHANGED routerVars
    BY <2>6, RouterStays
  <2> QED
    BY <2>1, <2>2, <2>3, <2>4, <2>5, <2>6 DEF RouterNext
<1> QED
  BY <1>1, RouterInitInv, PTL DEF RouterSpec

(* A command only goes to the server that was current when it was typed,   *)
(* in the order typed, and while that server is listed one is lost at most *)
(* for each answer read: aq_client_to_server, requestToTarget,             *)
(* processClientResponseOut and delRequesterFromServer.                    *)
THEOREM CommandsReach == RouterSpec => []CommandsKept
<1>1. RouterInv => CommandsKept
  BY DEF RouterInv, Kept
<1> QED
  BY <1>1, RouterInvariant, PTL

(* The name and the password of an account are the whole values of params  *)
(* of its line whose names end in "user" and "password": where a search by *)
(* findParamValueByString ends in a value, it finds nothing.               *)
THEOREM AccountsRight == RouterSpec => []FindRight
<1>1. RouterInv => FindRight
  BY RightOfAccounts DEF RouterInv
<1> QED
  BY <1>1, RouterInvariant, PTL

(* The answer to a push names that push, although the params of earlier    *)
(* ones are still in the text, as long as no topic pushed there contains   *)
(* "message_id": setParamByValue replaces them all.                        *)
THEOREM AnswersMatch == RouterSpec => []AnswerNames
<1>1. RouterInv => AnswerNames
  BY DEF RouterInv, Texts, AnswerNames
<1> QED
  BY <1>1, RouterInvariant, PTL

(* What is carried out is for an account that is in the list with this     *)
(* name and password at that moment: processRequest asks findUser and      *)
(* checkUser anew.  Ids are unique, so that an id stands for ptr->user.    *)
THEOREM UsersLive == RouterSpec => UserIsLive
<1>1. ASSUME RouterInv, NEW r \in Requester, Process(r), done' # done
      PROVE  \E u \in users : u.id = user'[r] /\ u.name = Sender.name /\ u.pass = Sender.pass
  <2>1. Checked(r) /\ user' = [user EXCEPT ![r] = Found(r)]
    BY <1>1 DEF Process
  <2>2. user'[r] = Found(r)
    BY <1>1, <2>1 DEF RouterInv, RouterTypes
  <2>3. PICK u \in users : u.id = Found(r) /\ u.pass = Sender.pass
    BY <2>1 DEF Checked
  <2>4. u.id >= 1
    BY <1>1, <2>3 DEF RouterInv, RouterTypes, User
  <2>5. PICK v \in Named(Sender.name) : v.id = Found(r)
    BY <2>3, <2>4, IdIs DEF Found
  <2>6. v \in users /\ v.name = Sender.name
    BY <2>5 DEF Named
  <2>7. u = v
    BY <1>1, <2>3, <2>5, <2>6 DEF RouterInv, Accounts
  <2> QED
    BY <2>2, <2>3, <2>6, <2>7
<1>2. RouterInv /\ [RouterNext]_routerVars =>
         [\A r \in Requester :
             done' # done /\ Process(r) =>
                \E u \in users : /\ u.id = user'[r]
                                 /\ u.name = Sender.name
                                 /\ u.pass = Sender.pass]_routerVars
  BY <1>1
<1> QED
  BY <1>2, RouterInvariant, PTL DEF RouterSpec, UserIsLive
=============================================================================
