-------------------------------- MODULE Push --------------------------------
(***************************************************************************)
(* app_queue/push.c with the tick of the server and the handlers of both   *)
(* ends of a pusher's connection: how a message gets from its topic to the *)
(* subscribers, and how their acknowledgements free it.                    *)
(*                                                                         *)
(* The server is one thread: it polls one event, runs the tick or not, and *)
(* then calls the handler of that event.  The tick may change a connection *)
(* between the poll and the handler.  A client is a thread of its own; its *)
(* tick does not touch the connections of pushers.                         *)
(*                                                                         *)
(* A frame on a connection is written and read as a whole, and its user is *)
(* accepted.  A read may return several frames.  The block of a freed      *)
(* message, which messagePushed still points to, does not hold the id that *)
(* an acknowledgement looks for.                                           *)
(***************************************************************************)
EXTENDS Integers, SequencesExt

CONSTANTS Msg,       (* messages of one topic, each built at most once     *)
          Sub,       (* subscribes in the topic's list                     *)
          Copies,    (* how many times each of them is listed              *)
          MaxRead,   (* bound: the frames that one read returns            *)
          MayClose,  (* whether a client may go away                       *)
          NULL       (* no event; nothing in the send slot                 *)

ASSUME SubAssumption == IsFiniteSet(Sub)
ASSUME CopiesAssumption == Copies \in [Sub -> Nat \ {0}]
ASSUME ReadAssumption == MaxRead \in Nat \ {0} /\ MayClose \in BOOLEAN

VARIABLES stage,     (* "fresh", "ready", "using" or "freed"               *)
          count,     (* relateCount of each message                        *)
          waiting,   (* messageReady of each pusher                        *)
          pushed,    (* messagePushed of each pusher, as a set             *)
          link,      (* its connection: "none", "open" or "closed"         *)
          srv,       (* the server's end of the connection                 *)
          cli,       (* the client's end                                   *)
          down, up,  (* frames on the way to the client, and back          *)
          loop,      (* where srvProcess is: "poll", "polled" or "ticked"  *)
          event,     (* what it polled: a subscribe and an event, or NULL  *)
          seen       (* history: the pushes each client has printed        *)

vars == <<stage, count, waiting, pushed, link, srv, cli, down, up, loop,
          event, seen>>
-----------------------------------------------------------------------------
Frame == [kind : {"push", "recived", "finish", "error"}, msg : Msg]
F(k, m) == [kind |-> k, msg |-> m]

ASSUME NullAssumption == NULL \notin Frame

(* An end of a connection: the event it wants, sendState, the frame in its *)
(* send slot while that state is WAIT, and the frames in lastParserBuf.    *)
End == [want : {"r", "w"}, send : {"wait", "finish"},
        out : Frame \cup {NULL}, left : Seq(Frame)]
Idle(w) == [want |-> w, send |-> "finish", out |-> NULL, left |-> <<>>]

(* Faults, here and below, that the properties must notice: a frame that   *)
(* no event will write; one listing too few; one count for all subscribes; *)
(* a tick that does not look at the slot; the newest message first; a      *)
(* count that is compared before it falls.                                 *)
FaultyFilled(e, f) == [e EXCEPT !.send = "wait", !.out = f]

(* A frame in the send slot, and the end wants to write it.                *)
Filled(e, f) == [e EXCEPT !.want = "w", !.send = "wait", !.out = f]

(* After sendResponseData and setConnectRead.                              *)
Written(e) == [e EXCEPT !.want = "r", !.send = "finish", !.out = NULL]

(* An end that turns to writing with nothing to send.                      *)
Answering(e) == [e EXCEPT !.want = "w"]

(* How many there are in all, when there are f[s] of subscribe s.          *)
Total(f) == Cardinality(UNION {{s} \X (1 .. f[s]) : s \in Sub})

(* What is read beyond a frame is kept.                                    *)
Left(e, b) == [e EXCEPT !.left = b]

(* What a read of n frames from wire w leaves to parse.                    *)
Bytes(e, w, n) == e.left \o SubSeq(w, 1, n)
Reads(w) == {n \in 1 .. MaxRead : n <= Len(w)}
-----------------------------------------------------------------------------
Init == /\ stage = [m \in Msg |-> "fresh"]
        /\ count = [m \in Msg |-> 0]
        /\ waiting = [s \in Sub |-> <<>>]
        /\ pushed = [s \in Sub |-> {}]
        /\ link = [s \in Sub |-> "none"]
        /\ srv = [s \in Sub |-> Idle("w")]
        /\ cli = [s \in Sub |-> Idle("r")]
        /\ down = [s \in Sub |-> <<>>] /\ up = [s \in Sub |-> <<>>]
        /\ loop = "poll" /\ event = NULL
        /\ seen = [s \in Sub |-> <<>>]

(* A producer's bq_add: another event of the server's loop.                *)
Add(m) ==
    /\ loop # "poll" /\ event = NULL
    /\ stage[m] = "fresh"
    /\ stage' = [stage EXCEPT ![m] = "ready"]
    /\ loop' = "poll"
    /\ UNCHANGED <<count, waiting, pushed, link, srv, cli, down, up, event, seen>>

FaultyListings(s, m) == <<m>>

(* What addMessageToPusher adds to a pusher's queue, by pushMessageTo-     *)
(* SubscribeList going through the topic's list.                           *)
Listings(s, m) == [i \in 1 .. Copies[s] |-> m]

FaultyDispatched(m) ==
    /\ stage' = [stage EXCEPT ![m] = "using"]
    /\ count' = [count EXCEPT ![m] = @ + 1]

(* processSubscribeTopic: the message that getReadyMessage returns goes to *)
(* every pusher of the list, with one count for each time it is listed.    *)
Dispatched(m) ==
    /\ stage' = [stage EXCEPT ![m] = "using"]
    /\ count' = [count EXCEPT ![m] = @ + Total(Copies)]

(* pushToTarget: a pusher without a connection makes one; one whose send   *)
(* slot is free takes its next message, given the queues q.                *)
FaultyMayPush(s) == s \in Sub
MayPush(s) == srv[s].send = "finish"

FaultyPushAll(q) ==
    LET Goes(s) == MayPush(s) /\ q[s] # <<>>
    IN  /\ link' = [s \in Sub |-> IF link[s] = "none" THEN "open" ELSE link[s]]
        /\ waiting' = [s \in Sub |-> IF Goes(s) THEN Front(q[s]) ELSE q[s]]
        /\ pushed' = [s \in Sub |-> IF Goes(s) THEN pushed[s] \cup {Last(q[s])}
                                    ELSE pushed[s]]
        /\ srv' = [s \in Sub |-> IF Goes(s)
                                 THEN Filled(srv[s], F("push", Last(q[s])))
                                 ELSE srv[s]]

PushAll(q) ==
    LET Goes(s) == MayPush(s) /\ q[s] # <<>>
    IN  /\ link' = [s \in Sub |-> IF link[s] = "none" THEN "open" ELSE link[s]]
        /\ waiting' = [s \in Sub |-> IF Goes(s) THEN Tail(q[s]) ELSE q[s]]
        /\ pushed' = [s \in Sub |-> IF Goes(s) THEN pushed[s] \cup {Head(q[s])}
                                    ELSE pushed[s]]
        /\ srv' = [s \in Sub |-> IF Goes(s)
                                 THEN Filled(srv[s], F("push", Head(q[s])))
                                 ELSE srv[s]]

(* tickAppServer: the subscribes, then the pushers.                        *)
Tick ==
    /\ loop = "polled"
    /\ loop' = "ticked"
    /\ \/ \E m \in Msg :
             /\ stage[m] = "ready"
             /\ Dispatched(m)
             /\ PushAll([s \in Sub |-> waiting[s] \o Listings(s, m)])
       \/ /\ \A m \in Msg : stage[m] # "ready"
          /\ PushAll(waiting)
          /\ UNCHANGED <<stage, count>>
    /\ UNCHANGED <<cli, down, up, event, seen>>

(* epoll: a connection whose peer is gone reports that and nothing else.   *)
Reported(s) ==
    CASE link[s] = "none" -> {}
      [] link[s] = "closed" -> {"h"}
      [] link[s] = "open" /\ srv[s].want = "w" -> {"w"}
      [] link[s] = "open" /\ srv[s].want = "r" ->
            IF up[s] # <<>> THEN {"r"} ELSE {}

(* socknext: an event of a pusher's connection, or any other or none.      *)
Poll(s) ==
    /\ loop = "poll"
    /\ loop' = "polled"
    /\ \E rw \in Reported(s) : event' = [sub |-> s, rw |-> rw]
    /\ UNCHANGED <<stage, count, waiting, pushed, link, srv, cli, down, up, seen>>

PollOther ==
    /\ loop = "poll"
    /\ loop' = "polled"
    /\ UNCHANGED <<stage, count, waiting, pushed, link, srv, cli, down, up,
                   event, seen>>

FaultyRecived(s, m) ==
    IF m \in pushed[s]
    THEN /\ count' = [count EXCEPT ![m] = @ - 1]
         /\ stage' = IF count[m] <= 2 THEN [stage EXCEPT ![m] = "freed"]
                                      ELSE stage
    ELSE UNCHANGED <<count, stage>>

(* pushMessageRecived and the answer to it: the message is freed when the  *)
(* count falls to zero; to every other acknowledgement the answer is that  *)
(* the message was not found.                                              *)
Recived(s, m) ==
    IF m \in pushed[s]
    THEN /\ count' = [count EXCEPT ![m] = @ - 1]
         /\ stage' = IF count[m] <= 1 THEN [stage EXCEPT ![m] = "freed"]
                                      ELSE stage
    ELSE UNCHANGED <<count, stage>>
Answer(s, m) ==
    IF m \in pushed[s] /\ count[m] <= 1 THEN "finish" ELSE "error"

(* processPusherResponse: one frame is handled, whatever was read beyond   *)
(* it is kept for the next read.                                           *)
ServerRead(s) ==
    \E n \in Reads(up[s]) :
       LET b == Bytes(srv[s], up[s], n)
           m == Head(b).msg
       IN  /\ Recived(s, m)
           /\ srv' = [srv EXCEPT ![s] =
                 Left(Filled(@, F(Answer(s, m), m)), Tail(b))]
           /\ up' = [up EXCEPT ![s] = SubSeq(@, n + 1, Len(@))]
           /\ UNCHANGED <<down, cli, seen>>

(* processPusherRequest                                                    *)
ServerWrite(s) ==
    /\ down' = IF srv[s].send = "wait"
               THEN [down EXCEPT ![s] = Append(@, srv[s].out)] ELSE down
    /\ srv' = [srv EXCEPT ![s] = Written(@)]
    /\ UNCHANGED <<stage, count, up, cli, seen>>

(* srvProcess calls the handler the connection has now, which ignores an   *)
(* event that is not its own; a hang-up is only noted.                     *)
Handle ==
    /\ loop # "poll"
    /\ loop' = "poll"
    /\ event' = NULL
    /\ \/ /\ event # NULL
          /\ LET s == event.sub
             IN  \/ event.rw = "r" /\ srv[s].want = "r" /\ ServerRead(s)
                 \/ event.rw = "w" /\ srv[s].want = "w" /\ ServerWrite(s)
                 \/ /\ event.rw # srv[s].want
                    /\ UNCHANGED <<stage, count, srv, cli, down, up, seen>>
       \/ /\ event = NULL
          /\ UNCHANGED <<stage, count, srv, cli, down, up, seen>>
    /\ UNCHANGED <<waiting, pushed, link>>

(* processClientPusherRequest: a push is printed and acknowledged, an      *)
(* answer leaves nothing to send, but the end turns to writing all the     *)
(* same.                                                                   *)
ClientRead(s) ==
    /\ link[s] = "open"
    /\ cli[s].want = "r"
    /\ \E n \in Reads(down[s]) :
          LET b == Bytes(cli[s], down[s], n)
              f == Head(b)
              e == Left(cli[s], Tail(b))
          IN  /\ \/ /\ f.kind = "push"
                    /\ cli' = [cli EXCEPT ![s] = Filled(e, F("recived", f.msg))]
                    /\ seen' = [seen EXCEPT ![s] = Append(@, f.msg)]
                 \/ /\ f.kind # "push"
                    /\ cli' = [cli EXCEPT ![s] = Answering(e)]
                    /\ UNCHANGED seen
              /\ down' = [down EXCEPT ![s] = SubSeq(@, n + 1, Len(@))]
    /\ UNCHANGED <<stage, count, waiting, pushed, link, srv, up, loop, event>>

(* processClientPusherResponse                                             *)
ClientWrite(s) ==
    /\ link[s] = "open"
    /\ cli[s].want = "w"
    /\ up' = IF cli[s].send = "wait"
             THEN [up EXCEPT ![s] = Append(@, cli[s].out)] ELSE up
    /\ cli' = [cli EXCEPT ![s] = Written(@)]
    /\ UNCHANGED <<stage, count, waiting, pushed, link, srv, down, loop, event, seen>>

(* A client goes away.                                                     *)
Close(s) ==
    /\ MayClose
    /\ link[s] = "open"
    /\ link' = [link EXCEPT ![s] = "closed"]
    /\ UNCHANGED <<stage, count, waiting, pushed, srv, cli, down, up, loop, event, seen>>

Next == \/ \E m \in Msg : Add(m)
        \/ Tick \/ PollOther \/ Handle
        \/ \E s \in Sub : Poll(s) \/ ClientRead(s) \/ ClientWrite(s) \/ Close(s)

(* The server's loop goes round, epoll passes over no socket for ever, and *)
(* the tick runs again and again; a client handles its events.             *)
Fairness ==
    /\ WF_vars(PollOther) /\ WF_vars(Handle) /\ SF_vars(Tick)
    /\ \A s \in Sub : /\ SF_vars(Poll(s))
                      /\ WF_vars(ClientRead(s)) /\ WF_vars(ClientWrite(s))

Spec == Init /\ [][Next]_vars
FairSpec == Spec /\ Fairness
-----------------------------------------------------------------------------
(* Every variable but count has its type (Accounted says what count is);   *)
(* an end has a frame in its send slot when its state is WAIT and only     *)
(* then, and then it wants to write.                                       *)
TypeOK ==
    /\ stage \in [Msg -> {"fresh", "ready", "using", "freed"}]
    /\ waiting \in [Sub -> Seq(Msg)] /\ pushed \in [Sub -> SUBSET Msg]
    /\ link \in [Sub -> {"none", "open", "closed"}]
    /\ srv \in [Sub -> End] /\ cli \in [Sub -> End]
    /\ down \in [Sub -> Seq(Frame)] /\ up \in [Sub -> Seq(Frame)]
    /\ loop \in {"poll", "polled", "ticked"}
    /\ event \in [sub : Sub, rw : {"r", "w", "h"}] \cup {NULL}
    /\ event # NULL => loop # "poll"
    /\ seen \in [Sub -> Seq(Msg)]
    /\ \A s \in Sub : \A e \in {srv[s], cli[s]} :
          /\ e.send = "wait" <=> e.out # NULL
          /\ e.send = "wait" => e.want = "w"

Times(q, x) == Cardinality({i \in 1 .. Len(q) : q[i] = x})
One(p) == IF p THEN 1 ELSE 0

(* Copies of m on their way to subscriber s, and acknowledgements of m on  *)
(* their way back.                                                         *)
Going(s, m) ==
    Times(waiting[s], m) + One(srv[s].out = F("push", m))
    + Times(down[s], F("push", m)) + Times(cli[s].left, F("push", m))
Coming(s, m) ==
    One(cli[s].out = F("recived", m)) + Times(up[s], F("recived", m))
    + Times(srv[s].left, F("recived", m))
Owed(s, m) == Going(s, m) + Coming(s, m)

(* relateCount is the number of copies not yet acknowledged, wherever they *)
(* are: in a list, in a send slot, on a connection or left over from a     *)
(* read; so that a freed message is on its way to nobody.                  *)
Accounted ==
    \A m \in Msg : count[m] = Total([s \in Sub |-> Owed(s, m)])

(* Subscribers see the messages of a topic in one and the same order, that *)
(* of the dispatches.                                                      *)
AgreeOnOrder ==
    \A s, t \in Sub : IsPrefix(seen[s], seen[t]) \/ IsPrefix(seen[t], seen[s])

(* What the tick or a handler puts in a send slot is written before        *)
(* anything else takes the slot: a push does not displace an answer, nor   *)
(* an answer a push, whatever the tick does between a poll and its handler.*)
Kept(e, f) == e.out # NULL => f.out \in {e.out, NULL}
SlotKept == [][\A s \in Sub : Kept(srv[s], srv'[s]) /\ Kept(cli[s], cli'[s])]_vars

(* Every subscriber is handed every message as often as it is listed, and  *)
(* the last acknowledgement frees the message.                             *)
Started(m) == stage[m] \in {"using", "freed"}
Promise == INSTANCE Delivery WITH
    got <- [m \in Msg |-> [s \in Sub |-> Times(seen[s], m)]],
    acked <- [m \in Msg |-> [s \in Sub |->
                 IF Started(m) THEN Copies[s] - Owed(s, m) ELSE 0]]
DeliverySpec == Promise!Spec

(* Every message that is dispatched is acknowledged by all and freed, but  *)
(* for a client that went away and for frames that were read together with *)
(* the one before them: they wait for a read that may never come.          *)
HeldUp(s) == link[s] = "closed" \/ srv[s].left # <<>> \/ cli[s].left # <<>>
AllFreed ==
    \A m \in Msg : stage[m] = "using" ~> stage[m] = "freed" \/ \E s \in Sub : HeldUp(s)

(* A pusher's queue moves on as long as its client is there, also when     *)
(* acknowledgements stay unread.                                           *)
NoneWaits ==
    \A s \in Sub, m \in Msg :
       Times(waiting[s], m) > 0 ~> Times(waiting[s], m) = 0 \/ link[s] = "closed"
=============================================================================
