---------------------------- MODULE Subscription ----------------------------
(***************************************************************************)
(* app_queue/subscribe.c with the calls that base_queue/topic_router.c and *)
(* base_queue/router.c make of it: subscribes, topics, and the two lists   *)
(* that relate them.  A topic that some subscribe has asked for has an     *)
(* entry, a SubscribeTopic, whose subscribesList holds subscribes; each    *)
(* subscribe has a subscribedTopicLists that holds entries.  Both are      *)
(* lists of pointers; nothing counts the references.                       *)
(*                                                                         *)
(* Each action is one request, which the server runs to its end.           *)
(***************************************************************************)
EXTENDS Integers, Sequences

CONSTANTS Sub,      (* subscribes; each is built at most once              *)
          Topic,    (* topic names                                         *)
          Exact,    (* the pairs isMatchSubscribeByTopicName matches       *)
          AnyCase,  (* those isMatchTopicName matches                      *)
          MaxFreed  (* bound: how often the entry of a name is freed       *)

(* strcasecmp accepts what strcmp accepts; the regular expression is the   *)
(* same on both sides.                                                     *)
ASSUME MatchAssumption == Exact \subseteq AnyCase /\ AnyCase \subseteq Sub \X Topic
ASSUME BoundAssumption == MaxFreed \in Nat

VARIABLES subscribes,  (* the server's list of subscribes                  *)
          built,       (* the subscribes built so far                      *)
          pushers,     (* whose pushers the push server ticks              *)
          topics,      (* the names in topicList                           *)
          entries,     (* the names that have an entry                     *)
          epoch,       (* how many entries of a name have been freed       *)
          copies,      (* how often a subscribe is in the entry of a name  *)
          back         (* the entries in each subscribedTopicLists         *)

vars == <<subscribes, built, pushers, topics, entries, epoch, copies, back>>
-----------------------------------------------------------------------------
Live == {subscribes[i] : i \in 1 .. Len(subscribes)}

(* The entry a name has now.                                               *)
EntryOf(t) == <<t, epoch[t]>>

(* Faults, here and below, that the properties must notice: an entry that  *)
(* is built without its subscribe hearing of it; a new subscribe linked    *)
(* with the entries there are instead of the topics; an entry that         *)
(* outlives its topic.                                                     *)
FaultyLinked(P, n) ==
    /\ entries' = entries \cup {t \in Topic : \E s \in Sub : <<s, t>> \in P}
    /\ copies' = [t \in Topic |-> [s \in Sub |->
                     IF <<s, t>> \in P THEN copies[t][s] + n ELSE copies[t][s]]]
    /\ back' = [s \in Sub |-> back[s] \cup
                     {EntryOf(t) : t \in {u \in entries : <<s, u>> \in P}}]

(* addSubscribeTopic for each pair of P, n times: the entry is built when  *)
(* there is none, and each of the two is put into the list of the other.   *)
Linked(P, n) ==
    /\ entries' = entries \cup {t \in Topic : \E s \in Sub : <<s, t>> \in P}
    /\ copies' = [t \in Topic |-> [s \in Sub |->
                     IF <<s, t>> \in P THEN copies[t][s] + n ELSE copies[t][s]]]
    /\ back' = [s \in Sub |-> back[s] \cup
                     {EntryOf(t) : t \in {u \in Topic : <<s, u>> \in P}}]
-----------------------------------------------------------------------------
Init == /\ subscribes = <<>> /\ built = {} /\ pushers = {}
        /\ topics = {} /\ entries = {}
        /\ epoch = [t \in Topic |-> 0]
        /\ copies = [t \in Topic |-> [s \in Sub |-> 0]]
        /\ back = [s \in Sub |-> {}]

FaultyAddSubscribe(s) ==
    /\ s \notin built
    /\ built' = built \cup {s}
    /\ subscribes' = Append(subscribes, s)
    /\ pushers' = pushers \cup {s}
    /\ Linked({<<s, t>> : t \in {u \in entries : <<s, u>> \in AnyCase}}, 1)
    /\ UNCHANGED <<topics, epoch>>

(* addSubscribe: the new subscribe is linked with the topics of its        *)
(* keyword, which getTopicListByKeyword finds whatever their case.         *)
AddSubscribe(s) ==
    /\ s \notin built
    /\ built' = built \cup {s}
    /\ subscribes' = Append(subscribes, s)
    /\ pushers' = pushers \cup {s}
    /\ Linked({<<s, t>> : t \in {u \in topics : <<s, u>> \in AnyCase}}, 1)
    /\ UNCHANGED <<topics, epoch>>

(* freeSubscribe: the subscribes S are freed, each with its list of        *)
(* entries.  It takes none of them out of a topic's list: it asks          *)
(* getPtrFromList for a node with no predicate and gets NULL.              *)
Freed(S) ==
    /\ back' = [s \in Sub |-> IF s \in S THEN {} ELSE back[s]]
    /\ UNCHANGED copies

(* delSubscribe: isSubscribeById assigns, so that every subscribe is the   *)
(* one with the id of the request.  The pusher of the first goes, and all  *)
(* subscribes are freed.                                                   *)
DelSubscribe ==
    /\ IF subscribes = <<>>
       THEN UNCHANGED <<subscribes, pushers>>
       ELSE /\ pushers' = pushers \ {subscribes[1]}
            /\ subscribes' = <<>>
    /\ Freed(Live)
    /\ UNCHANGED <<built, topics, entries, epoch>>

(* bq_add_topic of a new name: addTopic links the subscribes that match    *)
(* it, and then bq_add_topic links them once more.                         *)
AddTopic(t) ==
    /\ t \notin topics
    /\ topics' = topics \cup {t}
    /\ Linked({<<s, t>> : s \in {x \in Live : <<x, t>> \in Exact}}, 2)
    /\ UNCHANGED <<subscribes, built, pushers, epoch>>

FaultyRemoveTopic(t) ==
    /\ t \in topics
    /\ topics' = topics \ {t}
    /\ copies' = [copies EXCEPT ![t] = [s \in Sub |-> 0]]
    /\ UNCHANGED <<subscribes, built, pushers, entries, epoch, back>>

(* bq_del_topic: freeTopic, and freeSubscribeTopic for the entry, which    *)
(* stays in the lists of its subscribes.  The second call that             *)
(* bq_del_topic makes finds nothing to remove.                             *)
RemoveTopic(t) ==
    /\ t \in topics
    /\ epoch[t] < MaxFreed
    /\ topics' = topics \ {t}
    /\ entries' = entries \ {t}
    /\ epoch' = IF t \in entries THEN [epoch EXCEPT ![t] = @ + 1] ELSE epoch
    /\ copies' = [copies EXCEPT ![t] = [s \in Sub |-> 0]]
    /\ UNCHANGED <<subscribes, built, pushers, back>>

Next == \/ \E s \in Sub : AddSubscribe(s)
        \/ DelSubscribe
        \/ \E t \in Topic : AddTopic(t) \/ RemoveTopic(t)

Spec == Init /\ [][Next]_vars
-----------------------------------------------------------------------------
(* Every variable has its type; a subscribe is at most twice in the list   *)
(* of a topic, so that a message reaches it at most twice.                 *)
TypeOK ==
    /\ subscribes \in Seq(Sub)
    /\ built \subseteq Sub /\ pushers \subseteq Sub
    /\ Live \subseteq built /\ pushers \subseteq built
    /\ topics \subseteq Topic /\ entries \subseteq Topic
    /\ epoch \in [Topic -> Nat]
    /\ copies \in [Topic -> [Sub -> 0 .. 2]]
    /\ back \in [Sub -> SUBSET (Topic \X Nat)]

(* Whichever came first, a subscribe is in the list of every topic that    *)
(* has its keyword and its pusher is ticked; the lists hold nothing that   *)
(* does not match and belong to topics that exist, so that a dispatch      *)
(* never asks a freed topic for a message.                                 *)
Served ==
    /\ \A s \in Live, t \in topics : <<s, t>> \in Exact => copies[t][s] > 0
    /\ \A s \in Sub, t \in Topic : copies[t][s] > 0 => <<s, t>> \in AnyCase
    /\ Live \subseteq pushers
    /\ entries \subseteq topics

(* The two directions agree for the subscribes there are: one has the      *)
(* entry of a topic in its list just when that entry has the subscribe in  *)
(* its own.  Of a freed subscribe a topic may know (NoFreedSubscribe).     *)
Agree ==
    \A t \in entries, s \in Live : copies[t][s] > 0 <=> EntryOf(t) \in back[s]

(* No entry in the lists b is newer than what the epochs e say.            *)
NoneNewer(b, e) == \A s \in Sub : \A p \in b[s] : p[2] <= e[p[1]]

(* A name without an entry is in no list, and the entry it will get next   *)
(* is new to every subscribe, as a subscribe not yet built is to every     *)
(* topic.  Who is not there has no list.                                   *)
NothingLeft ==
    /\ \A t \in Topic \ entries, s \in Sub :
          copies[t][s] = 0 /\ EntryOf(t) \notin back[s]
    /\ NoneNewer(back, epoch)
    /\ \A s \in Sub \ built, t \in Topic : copies[t][s] = 0
    /\ \A s \in Sub \ Live : back[s] = {}

(* The inductive invariant behind the three above.                         *)
SubInv == TypeOK /\ Served /\ Agree /\ NothingLeft

(* "When the subscribe is freed, it is removed from the list in the        *)
(* subscribeTopic": no topic's list holds a freed subscribe.               *)
NoFreedSubscribe == \A t \in Topic, s \in built : copies[t][s] > 0 => s \in Live
=============================================================================
