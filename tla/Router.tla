------------------------------- MODULE Router -------------------------------
(***************************************************************************)
(* app_queue/router.c with request.c, user.c and the params of             *)
(* net_message.c: what is typed at the server's console changes the list   *)
(* of accounts; what is typed at the client's console changes the list of  *)
(* servers or goes to the current one, which checks the account anew for   *)
(* each request; a push and its answer carry the message as params.        *)
(*                                                                         *)
(* A text is a sequence of params, name[value], and names and values are   *)
(* sequences of units: a name that is searched for is one unit, which may  *)
(* be a part of other names and of values.  Commands that only show        *)
(* something are left out; a frame is written and read as a whole (Stream  *)
(* models its parts), servers do not hang up (Requests models that), and   *)
(* memory suffices.                                                        *)
(***************************************************************************)
EXTENDS Integers, FiniteSets, SequencesExt

CONSTANTS Unit,      (* what names and values are made of                  *)
          Name,      (* names of params that users type                    *)
          Word,      (* the values they type                               *)
          Sender,    (* the client's account                               *)
          TopicName, (* names of topics                                    *)
          Ids,       (* the ids of the messages pushed, as texts           *)
          MaxParam,  (* bound: the params of a line                        *)
          MaxUser,   (* bound: the accounts made                           *)
          MaxServer, (* bound: the servers added at the client             *)
          MaxCmd,    (* bound: the commands typed for the server           *)
          MaxPush,   (* bound: the pushes                                  *)
          MaxAll,    (* bound: these four taken together                   *)
          NULL       (* no value                                           *)

ASSUME RouterAssumption ==
    /\ {"user", "password", "message_id", "topic_name"} \subseteq Unit
    /\ Name \subseteq Seq(Unit) \ {<<>>}
    /\ Word \subseteq Seq(Unit) /\ TopicName \subseteq Seq(Unit)
    /\ Sender \in [name : Word, pass : Word]
    /\ {MaxParam, MaxUser, MaxServer, MaxCmd, MaxPush, MaxAll} \subseteq Nat
    (* An id is the text of a number.                                      *)
    /\ Ids \in Seq(Seq(Unit \ {"message_id", "topic_name"}))
    /\ MaxPush <= Len(Ids)
    /\ NULL \notin Seq(Unit)

VARIABLES users,     (* the accounts of the server                         *)
          made,      (* how many have been built                           *)
          servers,   (* requesters of the client                           *)
          current,   (* of the request server, 0 if NULL                   *)
          added,     (* how many have been built                           *)
          aim,       (* history: the requester of each command typed       *)
          queue,     (* of a requester: messageReady                       *)
          slot,      (* of its connection: what sendState WAIT is for      *)
          want,      (* the event that this connection wants               *)
          got,       (* history: how many answers it has read              *)
          wire,      (* what it has written                                *)
          down,      (* how many answers are on their way to it            *)
          end,       (* the server's end: the event it wants, sendState    *)
          user,      (* ptr->user there                                    *)
          handled,   (* history: the commands a server has looked at       *)
          done,      (* history: those it has carried out                  *)
          pushText,  (* sendExtraParam of a pusher's connection            *)
          ackText,   (* that of the client's end of it                     *)
          pushes,    (* the topics of the pushes so far                    *)
          read       (* what the server reads in the answer to the last    *)

accounts   == <<users, made>>
client     == <<servers, current, added, aim>>
ends       == <<slot, want, got>>
server     == <<end, user, handled, done>>
pusher     == <<pushText, ackText, pushes, read>>
routerVars == <<accounts, client, queue, ends, wire, down, server, pusher>>
-----------------------------------------------------------------------------
Command   == 1 .. MaxCmd
Requester == 1 .. MaxServer

(* Room for one more of what is bounded.                                   *)
Room == made + added + Len(aim) + Len(pushes) < MaxAll

(* Faults, here and below, that the properties must notice: a search that  *)
(* takes a value for a name; a param that is only ever appended; a user    *)
(* who is checked once per connection; a tick that serves the current      *)
(* server only, or does not look at sendState.                             *)

(* strstr: the first param of s in which n occurs, in its name or value.   *)
Position(s, n) ==
    SelectInSeq(s, LAMBDA p : n \in ToSet(p.name) \cup ToSet(p.value))

FaultyHasValue(s, n) == Position(s, n) # 0

(* The "[" comes right behind n: it is found at the end of a name.         *)
EndsIn(w, n) == SelectInSeq(w, LAMBDA x : x = n) = Len(w)
HasValue(s, n) ==
    LET i == Position(s, n) IN i # 0 /\ EndsIn(s[i].name, n)

(* findParamValueByString                                                  *)
Find(s, n) == IF HasValue(s, n) THEN s[Position(s, n)].value ELSE NULL

Param(n, v) == [name |-> <<n>>, value |-> v]

FaultySet(s, n, v) == IF v = NULL THEN s ELSE Append(s, Param(n, v))

(* setParamByValue, which refuses NULL                                     *)
Set(s, n, v) ==
    IF v = NULL THEN s
    ELSE IF HasValue(s, n) THEN [s EXCEPT ![Position(s, n)].value = v]
    ELSE Append(s, Param(n, v))

(* A line of the console: a few params.  What a command makes of them.     *)
Line == UNION {[1 .. n -> [name : Name, value : Word]] : n \in 0 .. MaxParam}
Typed(l) == [name |-> Find(l, "user"), pass |-> Find(l, "password")]
AsTyped == {Typed(l) : l \in Line}

(* requestToTarget sets sendState of a new connection to FINISH; that of   *)
(* one which the server accepts is WAIT from the start.                    *)
RouterInit ==
    /\ users = {} /\ made = 0
    /\ servers = {} /\ current = 0 /\ added = 0 /\ aim = <<>>
    /\ queue = [r \in Requester |-> <<>>]
    /\ slot = [r \in Requester |-> <<>>]
    /\ want = [r \in Requester |-> "w"]
    /\ got = [r \in Requester |-> 0]
    /\ wire = [r \in Requester |-> <<>>]
    /\ down = [r \in Requester |-> 0]
    /\ end = [r \in Requester |-> [want |-> "r", send |-> "wait"]]
    /\ user = [r \in Requester |-> 0]
    /\ handled = [r \in Requester |-> <<>>] /\ done = {}
    /\ pushText = <<>> /\ ackText = <<>> /\ pushes = <<>>
    /\ read = [id |-> NULL, topic |-> NULL]
-----------------------------------------------------------------------------
(* The server's console.                                                   *)
Named(n) == {u \in users : u.name = n}

MayAdd(n) == Named(n) = {}

(* aq_server_add_user                                                      *)
AddUser(t) ==
    /\ made < MaxUser /\ Room
    /\ t.name # NULL /\ t.pass # NULL /\ MayAdd(t.name)
    /\ made' = made + 1
    /\ users' = users \cup
                {[id |-> made + 1, name |-> t.name, pass |-> t.pass]}
    /\ UNCHANGED <<client, queue, ends, wire, down, server, pusher>>

(* aq_server_del_user                                                      *)
DelUser(t) ==
    /\ t.name # NULL
    /\ users' = users \ Named(t.name)
    /\ UNCHANGED <<made, client, queue, ends, wire, down, server, pusher>>

(* aq_server_set_user                                                      *)
SetUser(t) ==
    /\ t.name # NULL /\ t.pass # NULL
    /\ users' = (users \ Named(t.name)) \cup
                {[u EXCEPT !.pass = t.pass] : u \in Named(t.name)}
    /\ UNCHANGED <<made, client, queue, ends, wire, down, server, pusher>>
-----------------------------------------------------------------------------
(* The client's console.                                                   *)

(* aq_client_server_add, addRequester                                      *)
AddServer ==
    /\ added < MaxServer /\ Room
    /\ added' = added + 1
    /\ servers' = servers \cup {added + 1}
    /\ current' = IF current = 0 THEN added + 1 ELSE current
    /\ UNCHANGED <<aim, accounts, queue, ends, wire, down, server, pusher>>

(* The current requester after r is deleted: getFromList without a         *)
(* predicate finds none that could take its place.                         *)
Left(r) == IF current = r THEN 0 ELSE current

(* freeRequester: what it still had to send goes with it, in its list and  *)
(* in the slot of its connection, which is closed.                         *)
Dropped(f, r) == [f EXCEPT ![r] = <<>>]

(* aq_client_server_del, delRequesterFromServer                            *)
DelServer(r) ==
    /\ r \in servers
    /\ servers' = servers \ {r}
    /\ current' = Left(r)
    /\ queue' = Dropped(queue, r) /\ slot' = Dropped(slot, r)
    /\ UNCHANGED <<added, aim, want, got, accounts, wire, down, server, pusher>>

(* aq_client_server_use, changeCurrentRequester                            *)
UseServer(r) ==
    /\ r \in servers
    /\ current' = r
    /\ UNCHANGED <<servers, added, aim>>
    /\ UNCHANGED <<accounts, queue, ends, wire, down, server, pusher>>

(* aq_client_to_server: without a current one the command is answered with *)
(* an error.                                                               *)
ToServer ==
    /\ Len(aim) < MaxCmd /\ Room
    /\ aim' = Append(aim, current)
    /\ queue' = IF current = 0 THEN queue
                ELSE [queue EXCEPT ![current] = Append(@, Len(aim) + 1)]
    /\ UNCHANGED <<servers, current, added>>
    /\ UNCHANGED <<accounts, ends, wire, down, server, pusher>>
-----------------------------------------------------------------------------
(* A requester's connection: Requests, for several of them.                *)

FaultyMaySend(r) == r = current /\ slot[r] = <<>> /\ queue[r] # <<>>
FaultySendAgain(r) == r \in servers /\ queue[r] # <<>>

(* requestToTarget: sendState is FINISH, and there is a command.           *)
MaySend(r) == r \in servers /\ slot[r] = <<>> /\ queue[r] # <<>>

(* The client's tick, processRequestServer: goes through all requesters.   *)
Send ==
    /\ \E r \in Requester : MaySend(r)
    /\ slot' = [r \in Requester |->
                  IF MaySend(r) THEN <<Head(queue[r])>> ELSE slot[r]]
    /\ queue' = [r \in Requester |->
                   IF MaySend(r) THEN Tail(queue[r]) ELSE queue[r]]
    /\ UNCHANGED <<accounts, client, want, got, wire, down, server, pusher>>

(* processClientRequestOut                                                 *)
Write(r) ==
    /\ r \in servers /\ want[r] = "w" /\ slot[r] # <<>>
    /\ wire' = [wire EXCEPT ![r] = @ \o slot[r]]
    /\ slot' = [slot EXCEPT ![r] = <<>>]
    /\ want' = [want EXCEPT ![r] = "r"]
    /\ UNCHANGED <<accounts, client, queue, got, down, server, pusher>>

(* processClientResponseOut: the answer sets sendState to FINISH, whatever *)
(* the tick has put into the slot.                                         *)
ReadAnswer(r) ==
    /\ r \in servers /\ want[r] = "r" /\ down[r] > 0
    /\ down' = [down EXCEPT ![r] = @ - 1]
    /\ slot' = [slot EXCEPT ![r] = <<>>]
    /\ want' = [want EXCEPT ![r] = "w"]
    /\ got' = [got EXCEPT ![r] = @ + 1]
    /\ UNCHANGED <<accounts, client, queue, wire, server, pusher>>

Id(us) == IF us = {} THEN 0 ELSE (CHOOSE u \in us : TRUE).id

(* The user is looked up for every request.                                *)
Found(r) == Id(Named(Sender.name))

FaultyChecked(r) == user[r] # 0 /\ user[r] = Found(r)

(* findUser, and checkUser of what it found                                *)
Checked(r) ==
    \E u \in users : u.id = Found(r) /\ u.pass = Sender.pass

(* processRequest: also when its requester is gone, what was sent arrives. *)
(* It turns to writing, and leaves sendState as it is.                     *)
Process(r) ==
    /\ end[r].want = "r" /\ wire[r] # <<>>
    /\ wire' = [wire EXCEPT ![r] = Tail(@)]
    /\ end' = [end EXCEPT ![r].want = "w"]
    /\ user' = [user EXCEPT ![r] = Found(r)]
    /\ handled' = [handled EXCEPT ![r] = Append(@, Head(wire[r]))]
    /\ done' = IF Checked(r) THEN done \cup {Head(wire[r])} ELSE done
    /\ UNCHANGED <<accounts, client, queue, ends, down, pusher>>

(* processResponse: an answer is written while sendState is WAIT.          *)
Respond(r) ==
    /\ end[r].want = "w"
    /\ end' = [end EXCEPT ![r] = [want |-> "r", send |-> "finish"]]
    /\ down' = [down EXCEPT ![r] = IF end[r].send = "wait" THEN @ + 1 ELSE @]
    /\ UNCHANGED <<accounts, client, queue, ends, wire, pusher>>
    /\ UNCHANGED <<user, handled, done>>
-----------------------------------------------------------------------------
(* A push and its answer.  The params of the pushes before it are still in *)
(* the text.  The message's other params are set behind these two, and     *)
(* each is found at its own name or not at all.                            *)

(* pushToTarget                                                            *)
Push(t) ==
    /\ Len(pushes) < MaxPush /\ Room
    /\ LET id == Ids[Len(pushes) + 1]
       IN  pushText' = Set(Set(pushText, "topic_name", t), "message_id", id)
    /\ pushes' = Append(pushes, t)
    /\ read' = [id |-> NULL, topic |-> NULL]
    /\ UNCHANGED <<ackText, accounts, client, queue, ends, wire, down, server>>

(* aq_push_server_push: what the client answers.                           *)
(* A param that is missing is refused, and stays what it was.              *)
Acknowledged ==
    Set(Set(ackText, "message_id", Find(pushText, "message_id")),
        "topic_name", Find(pushText, "topic_name"))

(* The client answers, and aq_push_client_router reads it at the server.   *)
Answer ==
    /\ pushes # <<>> /\ read.topic = NULL
    /\ ackText' = Acknowledged
    /\ read' = [id |-> Find(ackText', "message_id"),
                topic |-> Find(ackText', "topic_name")]
    /\ UNCHANGED <<pushText, pushes>>
    /\ UNCHANGED <<accounts, client, queue, ends, wire, down, server>>
-----------------------------------------------------------------------------
(* aq_server_router, aq_client_router                                      *)
ServerConsole == \E t \in AsTyped : AddUser(t) \/ DelUser(t) \/ SetUser(t)
ClientConsole == \/ AddServer \/ ToServer
                 \/ \E r \in Requester : DelServer(r) \/ UseServer(r)

RouterNext ==
    \/ ServerConsole \/ ClientConsole
    \/ Send
    \/ \E r \in Requester :
          Write(r) \/ ReadAnswer(r) \/ Process(r) \/ Respond(r)
    \/ \E t \in TopicName : Push(t)
    \/ Answer

RouterSpec == RouterInit /\ [][RouterNext]_routerVars

(* The client's tick runs again and again, and both loops go through the   *)
(* connections that can be written or read.                                *)
FairSpec ==
    /\ RouterSpec
    /\ WF_routerVars(Send)
    /\ \A r \in Requester : WF_routerVars(Write(r)) /\ WF_routerVars(Process(r))
-----------------------------------------------------------------------------
(* The commands for a server: those it has looked at, those under way, and *)
(* those in the slot and the list of its requester.                        *)
Trail(r) == handled[r] \o wire[r] \o slot[r] \o queue[r]
Ordered(s) == \A i, j \in DOMAIN s : i < j => s[i] < s[j]

(* Commands for r that will never get there.                               *)
Lost(r) == {c \in DOMAIN aim : aim[c] = r} \ ToSet(Trail(r))

(* A command only ever goes to the server that was current when it was     *)
(* typed, in the order typed and once.  While the server is listed, one is *)
(* lost at most for each answer that was read: requestToTarget may take it *)
(* while the answer is due, and processClientResponseOut then empties the  *)
(* slot.                                                                   *)
CommandsKept ==
    \A r \in Requester :
       /\ Ordered(Trail(r))
       /\ \A c \in ToSet(Trail(r)) : aim[c] = r
       /\ r \in servers => Cardinality(Lost(r)) <= got[r]

(* A request is carried out only for an account that is in the list right  *)
(* then, with the password that is set right then: del_user and set_user   *)
(* hold at once, also on connections that used the account before.         *)
UserIsLive ==
    [][\A r \in Requester :
          done' # done /\ Process(r) =>
             \E u \in users : /\ u.id = user'[r]
                              /\ u.name = Sender.name
                              /\ u.pass = Sender.pass]_routerVars

(* The search for a name may end in a value or in another name, and then   *)
(* finds nothing, or the value of the first param whose name ends so, but  *)
(* never a part of a text that is not the value of such a param: an        *)
(* account has the name and the password that its line gives in this       *)
(* sense.  In this sense only: the line xuser[bob]password[p], which       *)
(* isExtraParamFormatRight accepts, makes an account bob.                  *)
GivenBy(l, n, v) ==
    \E i \in DOMAIN l : /\ Last(l[i].name) = n /\ l[i].value = v
                        /\ \A j \in 1 .. i - 1 : Last(l[j].name) # n
RightlyTyped ==
    {t \in AsTyped :
       \A l \in Line : Typed(l) = t => /\ GivenBy(l, "user", t.name)
                                       /\ GivenBy(l, "password", t.pass)}
FindRight ==
    \A u \in users : [name |-> u.name, pass |-> u.pass] \in RightlyTyped

(* The answer to a push names the message and the topic of this push, not  *)
(* of one before it on the connection, unless "message_id" occurs in the   *)
(* name of a topic that was pushed there.                                  *)
Plain == \A t \in ToSet(pushes) : "message_id" \notin ToSet(t)
AnswerNames ==
    read.topic # NULL /\ Plain
    => read = [id |-> Ids[Len(pushes)], topic |-> Last(pushes)]

=============================================================================
