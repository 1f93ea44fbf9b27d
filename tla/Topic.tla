-------------------------------- MODULE Topic --------------------------------
(***************************************************************************)
(* base_queue/topic.c and message.c: one topic, its four queues and the    *)
(* life of its messages.                                                   *)
(*                                                                         *)
(* ready, using and sleep are heaps ordered by priority, whose comparator  *)
(* only reads: they are the priority queues that Heap is proved to         *)
(* implement, and are modelled as sets.  The delay queue is a heap ordered *)
(* by MessageLessByActiveTime, which assigns as it compares; its array and *)
(* the iterations of its sift loops are modelled as they are.              *)
(*                                                                         *)
(* The server is one thread: a call runs to its end before the next one    *)
(* begins, and the clock is read once per call.                            *)
(***************************************************************************)
EXTENDS Integers, Sequences, FiniteSets

CONSTANTS Msg,      (* messages, that is their ids                         *)
          Priority, (* the priorities that a message may be given, the     *)
                    (* lower the more urgent                               *)
          Delays,   (* delays that requests ask for                        *)
          MaxTime,  (* bound: the last instant of the clock                *)
          MaxTaken, (* bound: the messages that are out of ready and delay *)
          MayFail,  (* whether allocMem may return NULL inside heapinsert  *)
          NULL      (* the null pointer                                    *)

ASSUME NullAssumption == NULL \notin Msg

ASSUME BoundAssumption ==
    /\ Msg \subseteq Int
    /\ Priority \in [Msg -> SUBSET Int]
    /\ Delays \subseteq Int
    /\ \A d \in Delays : d >= -1   (* no activetime is 0 in the delay queue *)
    /\ MaxTime \in Nat /\ MaxTaken \in Nat
    /\ MayFail \in BOOLEAN

VARIABLES ready, using, sleep,  (* the messages of those heaps             *)
          delayQ,   (* delay_queue: position i of the C array at i + 1     *)
          fresh,    (* messages not built yet                              *)
          freed,    (* messages given back to the allocator                *)
          lost,     (* messages no heap took: allocation failed            *)
          at,       (* activetime of each message                          *)
          prio,     (* priority of each message                            *)
          due,      (* history: activetime as last set by setMessageDelay  *)
          asked,    (* history: when its bq_add asked it to activate       *)
          now,      (* the clock                                           *)
          pc,       (* where the call being run is, "idle" between calls   *)
          c,        (* the cursor of a sift loop                           *)
          hand      (* ptr, the message tickTopic holds                    *)

vars == <<ready, using, sleep, delayQ, fresh, freed, lost, at, prio,
          due, asked, now, pc, c, hand>>
loop == <<pc, c, hand>>
-----------------------------------------------------------------------------
Delayed == {delayQ[i] : i \in 1 .. Len(delayQ)}

NonNegative(d) == IF d >= 0 THEN d ELSE 0

(* Faults, here and below, that the properties must notice: the assignment *)
(* in the other branch; a deletion that leaves the message asleep; a       *)
(* consumer given any message; a message that is put back at the root,     *)
(* where the next tick takes it again.                                     *)
FaultyAssigned(t, a, b) == IF t[a] < t[b] THEN [t EXCEPT ![a] = t[b]] ELSE t

(* MessageLessByActiveTime(a, b), given the activetimes t: what it returns, *)
(* and the activetimes it leaves behind: when a is not the earlier one its *)
(* "else if" assigns b's activetime to a.                                  *)
Earlier(t, a, b) == t[a] < t[b] \/ prio[a] <= prio[b]
Assigned(t, a, b) == IF t[a] < t[b] THEN t ELSE [t EXCEPT ![a] = t[b]]

(* isMessageWaitFinished                                                   *)
WaitFinished(m) == at[m] <= now

Swapped(q, i, j) == [q EXCEPT ![i] = q[j], ![j] = q[i]]

(* The last item fills the hole that heapremove leaves at the root.        *)
WithoutRoot(q) == SubSeq([q EXCEPT ![1] = q[Len(q)]], 1, Len(q) - 1)

(* The messages that neither ready nor the delay queue holds any more.     *)
Taken == using \cup sleep \cup freed \cup lost

(* heapinsert may find no memory, and loses m then.                        *)
MayLose(m) == MayFail /\ Cardinality(Taken \ {m}) < MaxTaken

(* heapinsert(ready_queue, m)                                              *)
EnterReady(m) ==
    \/ ready' = ready \cup {m} /\ UNCHANGED lost
    \/ MayLose(m) /\ lost' = lost \cup {m} /\ UNCHANGED ready

(* heapinsert(delay_queue, m), up to its call of siftdown.                 *)
EnterDelay(m) ==
    \/ /\ delayQ' = Append(delayQ, m)
       /\ pc' = "down"
       /\ c' = Len(delayQ)
       /\ UNCHANGED lost
    \/ MayLose(m) /\ lost' = lost \cup {m} /\ UNCHANGED <<delayQ, pc, c>>

(* addMessage(m, d) on behalf of a request: setMessageDelay adds the delay *)
(* to t, the activetime m has, and m enters one of the queues.             *)
AddMessage(m, t, d) ==
    /\ t + NonNegative(d) <= MaxTime
    /\ at' = [at EXCEPT ![m] = t + NonNegative(d)]
    /\ \/ /\ d > 0
          /\ due' = [due EXCEPT ![m] = t + d]
          /\ EnterDelay(m)
          /\ UNCHANGED ready
       \/ /\ d <= 0
          /\ EnterReady(m)
          /\ UNCHANGED <<delayQ, due, pc, c>>
    /\ UNCHANGED <<now, hand>>
-----------------------------------------------------------------------------
(* buildTopic                                                              *)
Init == /\ ready = {} /\ using = {} /\ sleep = {}
        /\ delayQ = <<>>
        /\ fresh = Msg /\ freed = {} /\ lost = {}
        /\ at = [m \in Msg |-> 0]
        /\ prio = [m \in Msg |-> 0]
        /\ due = [m \in Msg |-> 0]
        /\ asked = [m \in Msg |-> 0]
        /\ now = 1
        /\ pc = "idle" /\ c = 0 /\ hand = NULL

(* bq_add: buildMessage takes the next id and sets activetime to the time  *)
(* of creation plus the delay, addMessage adds the delay to it.            *)
Add(m, p, d) ==
    /\ pc = "idle"
    /\ m \in fresh /\ \A x \in fresh : m <= x
    /\ fresh' = fresh \ {m}
    /\ prio' = [prio EXCEPT ![m] = p]
    /\ AddMessage(m, now + d, d)
    /\ asked' = IF d > 0 THEN [asked EXCEPT ![m] = now + d] ELSE asked
    /\ UNCHANGED <<using, sleep, freed>>

FaultyGet(m) ==
    /\ pc = "idle"
    /\ m \in ready /\ Cardinality(Taken) < MaxTaken
    /\ ready' = ready \ {m}
    /\ using' = using \cup {m}
    /\ UNCHANGED <<sleep, delayQ, fresh, freed, lost, at, prio, due, asked, now,
                   pc, c, hand>>

(* bq_get, getReadyMessage: the root of the ready heap, which is any of    *)
(* its most urgent messages, goes to the using pool.                       *)
Get(m) ==
    /\ pc = "idle"
    /\ m \in ready /\ Cardinality(Taken) < MaxTaken
    /\ \A x \in ready : prio[m] <= prio[x]
    /\ ready' = ready \ {m}
    /\ \/ using' = using \cup {m} /\ UNCHANGED lost
       \/ MayLose(m) /\ lost' = lost \cup {m} /\ UNCHANGED using
    /\ UNCHANGED <<sleep, delayQ, fresh, freed, at, prio, due, asked, now,
                   pc, c, hand>>

(* bq_sleep, sleepMessage                                                  *)
Sleep(m) ==
    /\ pc = "idle"
    /\ m \in using
    /\ using' = using \ {m}
    /\ \/ sleep' = sleep \cup {m} /\ UNCHANGED lost
       \/ MayLose(m) /\ lost' = lost \cup {m} /\ UNCHANGED sleep
    /\ UNCHANGED <<ready, delayQ, fresh, freed, at, prio, due, asked, now,
                   pc, c, hand>>

(* bq_reuse, reuseMessage                                                  *)
Reuse(m, d) ==
    /\ pc = "idle"
    /\ m \in using
    /\ using' = using \ {m}
    /\ AddMessage(m, at[m], d)
    /\ UNCHANGED <<sleep, fresh, freed, prio, asked>>

(* bq_wakeup, wakeUpMessage                                                *)
WakeUp(m, d) ==
    /\ pc = "idle"
    /\ m \in sleep
    /\ sleep' = sleep \ {m}
    /\ AddMessage(m, at[m], d)
    /\ UNCHANGED <<using, fresh, freed, prio, asked>>

FaultyDelete(m) ==
    /\ pc = "idle"
    /\ m \in using \cup sleep
    /\ using' = using \ {m}
    /\ freed' = freed \cup {m}
    /\ at' = [at EXCEPT ![m] = 0]
    /\ UNCHANGED <<ready, sleep, delayQ, fresh, lost, prio, due, asked, now,
                   pc, c, hand>>

(* bq_del, delMessage: from the using pool or else from the sleep queue.   *)
Delete(m) ==
    /\ pc = "idle"
    /\ m \in using \cup sleep
    /\ using' = using \ {m}
    /\ sleep' = IF m \in using THEN sleep ELSE sleep \ {m}
    /\ freed' = freed \cup {m}
    /\ at' = [at EXCEPT ![m] = 0]
    /\ UNCHANGED <<ready, delayQ, fresh, lost, prio, due, asked, now,
                   pc, c, hand>>

(* removeTopic: freeTopic frees the four queues with their messages; a     *)
(* topic of that name that is added later starts as this one did.          *)
FreeTopic ==
    /\ pc = "idle"
    /\ freed' = freed \cup ready \cup Delayed \cup using \cup sleep
    /\ ready' = {} /\ using' = {} /\ sleep' = {}
    /\ delayQ' = <<>>
    /\ at' = [m \in Msg |-> 0]
    /\ due' = [m \in Msg |-> 0]
    /\ asked' = [m \in Msg |-> 0]
    /\ UNCHANGED <<fresh, lost, prio, now, pc, c, hand>>

(* tickTopic, heapremove(delay_queue, 0): siftdown stops at the root, what *)
(* is left to do is siftup.                                                *)
TickTake ==
    /\ pc \in {"idle", "tick"}
    /\ delayQ # <<>>
    /\ hand' = delayQ[1]
    /\ delayQ' = WithoutRoot(delayQ)
    /\ pc' = "up"
    /\ c' = 0
    /\ UNCHANGED <<ready, using, sleep, fresh, freed, lost, at, prio, due,
                   asked, now>>

(* The message tickTopic took is due: addMessage(topic, ptr, 0) makes it   *)
(* ready and the loop goes on.                                             *)
TickRelease ==
    /\ pc = "check"
    /\ WaitFinished(hand)
    /\ EnterReady(hand)
    /\ due' = [due EXCEPT ![hand] = 0]
    /\ asked' = [asked EXCEPT ![hand] = 0]
    /\ pc' = "tick"
    /\ hand' = NULL
    /\ UNCHANGED <<using, sleep, delayQ, fresh, freed, at, prio, now, c>>

FaultyTickPutBack ==
    /\ pc = "check"
    /\ ~WaitFinished(hand)
    /\ delayQ' = <<hand>> \o delayQ
    /\ pc' = "idle"
    /\ hand' = NULL
    /\ UNCHANGED <<ready, using, sleep, fresh, freed, lost, at, prio, due,
                   asked, now, c>>

(* It is not: it goes back and the loop breaks.  heapremove has just made  *)
(* room for it, so that this heapinsert allocates nothing.                 *)
TickPutBack ==
    /\ pc = "check"
    /\ ~WaitFinished(hand)
    /\ delayQ' = Append(delayQ, hand)
    /\ pc' = "down"
    /\ c' = Len(delayQ)
    /\ hand' = NULL
    /\ UNCHANGED <<ready, using, sleep, fresh, freed, lost, at, prio, due,
                   asked, now>>

TickDone ==
    /\ pc = "tick"
    /\ delayQ = <<>>
    /\ pc' = "idle"
    /\ UNCHANGED <<ready, using, sleep, delayQ, fresh, freed, lost, at, prio,
                   due, asked, now, c, hand>>

(* An iteration of siftdown on the delay queue, after which the call       *)
(* returns or the cursor is at the parent.                                 *)
SiftDown ==
    /\ pc = "down"
    /\ LET p == (c - 1) \div 2
           a == delayQ[p + 1]
           b == delayQ[c + 1]
       IN  \/ /\ c = 0
              /\ pc' = "idle"
              /\ UNCHANGED <<delayQ, at, c>>
           \/ /\ c # 0
              /\ at' = Assigned(at, a, b)
              /\ \/ /\ Earlier(at, a, b)
                    /\ pc' = "idle"
                    /\ c' = 0
                    /\ UNCHANGED delayQ
                 \/ /\ ~Earlier(at, a, b)
                    /\ delayQ' = Swapped(delayQ, c + 1, p + 1)
                    /\ c' = p
                    /\ UNCHANGED pc
    /\ UNCHANGED <<ready, using, sleep, fresh, freed, lost, prio, due, asked,
                   now, hand>>

(* siftup compares the child at position l with the one at s, which it     *)
(* would displace: the smaller of the two, and the activetimes afterwards. *)
Chosen(t, s, l) ==
    IF l < Len(delayQ) /\ Earlier(t, delayQ[l + 1], delayQ[s + 1])
    THEN l ELSE s
After(t, s, l) ==
    IF l < Len(delayQ) THEN Assigned(t, delayQ[l + 1], delayQ[s + 1]) ELSE t

(* An iteration of siftup on the delay queue.                              *)
SiftUp ==
    /\ pc = "up"
    /\ LET l == c * 2 + 1
           r == c * 2 + 2
           s == Chosen(at, c, l)
           t == After(at, c, l)
           w == Chosen(t, s, r)
       IN  /\ at' = After(t, s, r)
           /\ \/ /\ w = c
                 /\ pc' = "check"
                 /\ c' = 0
                 /\ UNCHANGED delayQ
              \/ /\ w # c
                 /\ delayQ' = Swapped(delayQ, c + 1, w + 1)
                 /\ c' = w
                 /\ UNCHANGED pc
    /\ UNCHANGED <<ready, using, sleep, fresh, freed, lost, prio, due, asked,
                   now, hand>>

(* Time passes between calls.                                              *)
Clock ==
    /\ pc = "idle"
    /\ now < MaxTime
    /\ now' = now + 1
    /\ UNCHANGED <<ready, using, sleep, delayQ, fresh, freed, lost, at, prio,
                   due, asked, pc, c, hand>>

Request ==
    \/ \E m \in Msg : Get(m) \/ Sleep(m) \/ Delete(m)
    \/ \E m \in Msg, d \in Delays : Reuse(m, d) \/ WakeUp(m, d)
    \/ \E m \in Msg, d \in Delays : \E p \in Priority[m] : Add(m, p, d)
    \/ FreeTopic

(* The calls the event loop makes, one iteration or test at a time.        *)
Tick == TickTake \/ TickRelease \/ TickPutBack \/ TickDone
Sift == SiftDown \/ SiftUp

Next == Request \/ Tick \/ Sift \/ Clock

(* A call runs to its end, and the loop calls tickTopic again and again.   *)
Fairness == WF_vars(Tick) /\ WF_vars(Sift)

Spec == Init /\ [][Next]_vars
FairSpec == Spec /\ Fairness
-----------------------------------------------------------------------------
(* Every variable has its type and the cursor is a position of the queue.  *)
TypeOK ==
    /\ ready \subseteq Msg /\ using \subseteq Msg /\ sleep \subseteq Msg
    /\ fresh \subseteq Msg /\ freed \subseteq Msg /\ lost \subseteq Msg
    /\ delayQ \in Seq(Msg)
    /\ at \in [Msg -> Int] /\ due \in [Msg -> Int] /\ asked \in [Msg -> Int]
    /\ prio \in [Msg -> Int]
    /\ now \in Int
    /\ pc \in {"idle", "tick", "down", "up", "check"}
    /\ c \in Nat
    /\ pc = "down" => c < Len(delayQ)
    /\ pc = "up" => c <= Len(delayQ)
    /\ IF pc \in {"up", "check"} THEN hand \in Msg ELSE hand = NULL

(* The messages waiting for their activetime: in the queue, or in          *)
(* tickTopic's hand.                                                       *)
Held == Delayed \cup ({hand} \cap Msg)

(* A message is in one place, and once: in the delay queue while the loops *)
(* swap its cells, in tickTopic's hand, in one of the heaps, or freed.     *)
OnePlace ==
    /\ Msg = fresh \cup ready \cup Held \cup using \cup sleep \cup freed \cup lost
    /\ fresh \cap (ready \cup Held \cup using \cup sleep \cup freed \cup lost) = {}
    /\ ready \cap (Held \cup using \cup sleep \cup freed \cup lost) = {}
    /\ Held \cap (using \cup sleep \cup freed \cup lost) = {}
    /\ using \cap (sleep \cup freed \cup lost) = {}
    /\ sleep \cap (freed \cup lost) = {}
    /\ freed \cap lost = {}
    /\ hand \notin Delayed
    /\ \A i, j \in 1 .. Len(delayQ) : delayQ[i] = delayQ[j] => i = j

(* The comparator's assignments never postpone a delayed message: it is    *)
(* due no later than setMessageDelay made it.                              *)
NeverLater == \A m \in Held : at[m] <= due[m]

(* The stage of a message.                                                 *)
Stage(m) == CASE m \in fresh -> "fresh"
              [] m \in ready -> "ready"
              [] m \in Held -> "delayed"
              [] m \in using -> "using"
              [] m \in sleep -> "sleep"
              [] m \in freed -> "freed"
              [] OTHER -> "lost"

(* Whatever the loops do to the queue, each call moves one message along   *)
(* one edge of the life of a message, and a consumer is handed the most    *)
(* urgent ready message.                                                   *)
Life == INSTANCE MessageLife WITH stage <- [m \in Msg |-> Stage(m)]
LifeSpec == Life!Spec

(* A message that is due is released by calls of tickTopic alone, while    *)
(* the clock stands and although one that is not due may be the root of    *)
(* the queue, whose order is not that of the activetimes: tickTopic stops  *)
(* there, but takes the root out and puts it back at the end.  This is     *)
(* said of four messages: among nine the order may come back to where it   *)
(* was before a due message has reached the root.                          *)
Released == \A m \in Msg : m \in Held /\ WaitFinished(m) ~> m \notin Held

(* activetime is "the time the message activates": tickTopic releases no   *)
(* message before the delay of its bq_add has passed.                      *)
NotEarly == pc = "check" /\ WaitFinished(hand) => asked[hand] <= now
=============================================================================
