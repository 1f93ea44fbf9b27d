------------------------------ MODULE Requests ------------------------------
(***************************************************************************)
(* app_queue/request.c and the handlers of both ends of a request          *)
(* connection (client.c, server.c): commands typed at the client's console *)
(* queue up, the client's tick sends them one by one, the server processes *)
(* and answers them.                                                       *)
(*                                                                         *)
(* Client and server are a thread each.  The client's tick changes neither *)
(* the event its connection wants nor what is on the wire, so that it does *)
(* not matter whether it comes between a poll and the handler.  A frame is *)
(* written and read as a whole, its user is accepted, every command sets   *)
(* an answer, and the connection can be made.                              *)
(***************************************************************************)
EXTENDS Integers, FiniteSets, SequencesExt

CONSTANTS MaxReq,    (* bound: the requests the user types                 *)
          NULL       (* nothing in the send slot                           *)

ASSUME BoundAssumption == MaxReq \in Nat /\ NULL \notin Nat

VARIABLES issued,    (* the requests typed so far; they are numbered       *)
          queue,     (* messageReady of the requester                      *)
          link,      (* its connection: "none", "open" or "closed"         *)
          cli, srv,  (* the two ends of it                                 *)
          up, down,  (* requests on the way to the server, answers back    *)
          served,    (* history: the requests the server has processed     *)
          got        (* history: the requests whose answer was printed     *)

vars == <<issued, queue, link, cli, srv, up, down, served, got>>
-----------------------------------------------------------------------------
Req == 1 .. MaxReq

(* An end: the event it wants, sendState, and what its send slot holds.    *)
End == [want : {"r", "w"}, send : {"wait", "finish"}, out : Req \cup {NULL}]

(* requestToTarget sets sendState of a new connection; that of one which   *)
(* the server accepts is WAIT from the start.                              *)
NewClientEnd == [want |-> "w", send |-> "finish", out |-> NULL]
NewServerEnd == [want |-> "r", send |-> "wait", out |-> NULL]

Init == /\ issued = 0 /\ queue = <<>>
        /\ link = "none" /\ cli = NewClientEnd /\ srv = NewServerEnd
        /\ up = <<>> /\ down = <<>>
        /\ served = <<>> /\ got = <<>>

(* aq_client_to_server                                                     *)
Issue ==
    /\ issued < MaxReq
    /\ issued' = issued + 1
    /\ queue' = Append(queue, issued + 1)
    /\ UNCHANGED <<link, cli, srv, up, down, served, got>>

(* Faults, here and below, that the properties must notice: a tick that    *)
(* does not look at the slot; the newest request first; a client that does *)
(* not wait for the answer; a server that goes on reading instead of       *)
(* writing its answer; an answer that leaves the client waiting to read.   *)
FaultyMaySend == TRUE
MaySend == cli.send = "finish"

FaultyTaken ==
    /\ queue # <<>>
    /\ cli' = [cli EXCEPT !.send = "wait", !.out = Last(queue)]
    /\ queue' = Front(queue)

(* The head of messageReady goes into the send slot; the event the         *)
(* connection wants stays what it is.                                      *)
Taken ==
    /\ queue # <<>>
    /\ cli' = [cli EXCEPT !.send = "wait", !.out = Head(queue)]
    /\ queue' = Tail(queue)

(* tickRequestServer: requestToTarget makes the connection if there is     *)
(* none, and sends if it finds that it can.                                *)
Tick ==
    /\ link' = IF link = "none" THEN "open" ELSE link
    /\ \/ MaySend /\ Taken
       \/ ~(MaySend /\ queue # <<>>) /\ UNCHANGED <<cli, queue>>
    /\ UNCHANGED <<issued, srv, up, down, served, got>>

FaultyWritten(e) == [e EXCEPT !.send = "finish", !.out = NULL]
(* sendResponseData and setConnectRead                                     *)
Written(e) == [e EXCEPT !.want = "r", !.send = "finish", !.out = NULL]

(* processClientRequestOut.  With nothing to send the end stays as it is.  *)
ClientWrite ==
    /\ link = "open"
    /\ cli.want = "w" /\ cli.send = "wait"
    /\ up' = Append(up, cli.out)
    /\ cli' = Written(cli)
    /\ UNCHANGED <<issued, queue, link, srv, down, served, got>>

FaultyAnswering(r) == [srv EXCEPT !.out = r]

(* getRequestData turns the end to writing, and the command sets its       *)
(* answer.  sendState is left as it is.                                    *)
Answering(r) == [srv EXCEPT !.want = "w", !.out = r]

(* processRequest                                                          *)
ServerRead ==
    /\ link = "open"
    /\ srv.want = "r" /\ up # <<>>
    /\ served' = Append(served, Head(up))
    /\ up' = Tail(up)
    /\ srv' = Answering(Head(up))
    /\ UNCHANGED <<issued, queue, link, cli, down, got>>

(* processResponse: sendState says whether there is an answer to write.    *)
ServerWrite ==
    /\ link = "open"
    /\ srv.want = "w"
    /\ \/ srv.send = "wait" /\ down' = Append(down, srv.out)
       \/ srv.send = "finish" /\ UNCHANGED down
    /\ srv' = Written(srv)
    /\ UNCHANGED <<issued, queue, link, cli, up, served, got>>

FaultyRead == [cli EXCEPT !.send = "finish", !.out = NULL]

(* What an answer leaves: the end turns to writing, and its sendState says *)
(* that there is nothing to write, whatever the tick has put there.        *)
Read == [cli EXCEPT !.want = "w", !.send = "finish", !.out = NULL]

(* processClientResponseOut: the answer is printed.                        *)
ClientRead ==
    /\ link = "open"
    /\ cli.want = "r" /\ down # <<>>
    /\ got' = Append(got, Head(down))
    /\ down' = Tail(down)
    /\ cli' = Read
    /\ UNCHANGED <<issued, queue, link, srv, up, served>>

(* The server's process ends: the client notes a hang-up and nothing else. *)
Close ==
    /\ link = "open"
    /\ link' = "closed"
    /\ UNCHANGED <<issued, queue, cli, srv, up, down, served, got>>

Next == \/ Issue \/ Tick \/ ClientWrite \/ ClientRead
        \/ ServerRead \/ ServerWrite \/ Close

(* Both loops go round, and the client's tick runs again and again.        *)
Fairness == /\ WF_vars(Tick) /\ WF_vars(ClientWrite) /\ WF_vars(ClientRead)
            /\ WF_vars(ServerRead) /\ WF_vars(ServerWrite)

Spec == Init /\ [][Next]_vars
FairSpec == Spec /\ Fairness
-----------------------------------------------------------------------------
(* Every variable has its type; the client's slot is taken while its state *)
(* is WAIT and only then.                                                  *)
TypeOK ==
    /\ issued \in 0 .. MaxReq /\ queue \in Seq(Req)
    /\ link \in {"none", "open", "closed"}
    /\ cli \in End /\ srv \in End
    /\ up \in Seq(Req) /\ down \in Seq(Req)
    /\ served \in Seq(Req) /\ got \in Seq(Req)
    /\ cli.send = "wait" <=> cli.out # NULL

(* An answer that the server has set and will write.                       *)
AnswerDue == srv.want = "w" /\ srv.send = "wait"
One(p) == IF p THEN 1 ELSE 0

(* An answer does not say which request it is for: the client has at most  *)
(* one request out, does not write another before it has read the answer,  *)
(* and the answer under way is that of the last request processed.         *)
Paired ==
    /\ Len(up) + One(AnswerDue) + Len(down) <= 1
    /\ cli.want = "w" => up = <<>> /\ ~AnswerDue /\ down = <<>>
    /\ AnswerDue => served # <<>> /\ srv.out = served[Len(served)]
    /\ down # <<>> => served # <<>> /\ down[1] = served[Len(served)]

(* Every request that is not lost, in the order of its way.                *)
Line == served \o up \o (IF cli.out = NULL THEN <<>> ELSE <<cli.out>>) \o queue

(* Requests are processed in the order they were typed and none twice,     *)
(* also when others are lost.                                              *)
InOrder == IsSorted(Line, <)

(* requestToTarget takes "FINISH" to mean that it can send another message *)
(* also while an answer is due, and the answer then empties the slot.  At  *)
(* most one request is lost in this way for each answer read.              *)
LostByAnswers == Cardinality((1 .. issued) \ ToSet(Line)) <= Len(got)

(* The first request is processed and its answer printed.                  *)
FirstAnswered == issued > 0 ~> got # <<>> \/ link = "closed"

(* After an answer the client goes on to the next request of its queue:    *)
(* the server gets to process it.                                          *)
NextServed ==
    got # <<>> /\ queue # <<>> ~> Len(served) > 1 \/ link = "closed"
=============================================================================
