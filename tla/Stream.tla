------------------------------- MODULE Stream -------------------------------
(***************************************************************************)
(* One direction of a connection: the frames that reparserJCQMessage and   *)
(* sendResponseData write, the reads of getRequestData, which may cut them *)
(* anywhere, the parser of parser/jcq.c, one turn of its loop per step,    *)
(* and what the handler of a request connection (server.c) makes of the    *)
(* result.                                                                 *)
(*                                                                         *)
(* A frame is a sequence of units: both halves of its start flag, of one   *)
(* param (for the eight of JCQ_FORMAT), of "data:" and of its terminator,  *)
(* and its data.  No data contains a flag, a colon or a line end.  A frame *)
(* written in parts reads like one that is cut.  The connection is not     *)
(* closed; the answer is written at once.                                  *)
(***************************************************************************)
EXTENDS Integers, SequencesExt

CONSTANTS MaxFrame,  (* bound: the frames sent                             *)
          MaxCut,    (* bound: the reads that end within a frame           *)
          Size       (* the length of the data of each                     *)

ASSUME FrameAssumption ==
    MaxFrame \in Nat /\ MaxCut \in Nat /\ Size \in [1 .. MaxFrame -> Nat]

VARIABLES sent,      (* how many frames have been written                  *)
          wire,      (* units written and not yet read                     *)
          pc,        (* "poll"; in getRequestData "read" or "parse"        *)
          rest,      (* temp from readLength on                            *)
          result,    (* what the parser returned: "ok", "more", "format"   *)
          kept,      (* lastParserBuf                                      *)
          readState, (* of the message                                     *)
          param,     (* the params it holds: the units they came from      *)
          length,    (* its length                                         *)
          room,      (* the size of the allocation behind its data         *)
          data,      (* the first readLength units of its data             *)
          cstate,    (* state of the connection                            *)
          turn,      (* the event it wants, "r" or "w"                     *)
          got,       (* history: the messages handed to the router         *)
          cuts,      (* history: the reads that ended within a frame       *)
          lone       (* history: the frame that lay whole before a parser  *)
                     (* that waited for one, 0 if none                     *)

message == <<readState, param, length, room, data>>
history == <<got, cuts, lone>>
vars == <<sent, wire, pc, rest, result, kept, message, cstate, turn, history>>
-----------------------------------------------------------------------------
Kind(u) ==
    LET f == u[1]  i == u[2]
    IN  CASE f = 0 -> "heap"
          [] f # 0 /\ i \in 1 .. 6 -> <<"S1", "S2", "P1", "P2", "D1", "D2">>[i]
          [] f # 0 /\ i > 6 /\ i <= 6 + Size[f] -> "B"
          [] f # 0 /\ i = 7 + Size[f] -> "E1"
          [] OTHER -> "E2"

Units(f, i, j) == [k \in 1 .. j - i + 1 |-> <<f, i + k - 1>>]
Frame(f) == Units(f, 1, 8 + Size[f])
Good(f)  == [param |-> Units(f, 3, 4), data |-> Units(f, 7, 6 + Size[f])]

(* Bytes of the heap that are copied behind the end of a buffer.           *)
Heap(n) == [k \in 1 .. n |-> <<0, 0>>]

Rest(s, n) == SubSeq(s, n + 1, Len(s))

(* s has the two halves of a token at i, whichever frame they came from.   *)
TokenAt(s, i, a, b) ==
    i + 1 <= Len(s) /\ Kind(s[i]) = a /\ Kind(s[i + 1]) = b
HasFlag(s) == \E i \in 1 .. Len(s) : TokenAt(s, i, "S1", "S2")

Init == /\ sent = 0 /\ wire = <<>>
        /\ pc = "poll" /\ rest = <<>> /\ result = "ok" /\ kept = <<>>
        /\ readState = "wait" /\ param = <<>> /\ length = 0
        /\ room = 0 /\ data = <<>>
        /\ cstate = "wait" /\ turn = "r"
        /\ got = <<>> /\ cuts = 0 /\ lone = 0

(* reparserJCQMessage and sendResponseData                                 *)
Send ==
    /\ sent < MaxFrame
    /\ sent' = sent + 1
    /\ wire' = wire \o Frame(sent + 1)
    /\ UNCHANGED <<pc, rest, result, kept, message, cstate, turn, history>>

(* isJCQMessage looks for the flag in a copy of what was kept, over the    *)
(* beginning of which it has copied what was read; the end of the copy is  *)
(* not initialised and may hold a flag, too.                               *)
MayRecognise(buf) ==
    \/ HasFlag(buf \o Rest(kept, Len(buf)))
    \/ kept # <<>>
MayDrop(buf) == ~HasFlag(buf \o Rest(kept, Len(buf)))

Cut(buf) == IF Kind(Last(buf)) = "E2" THEN 0 ELSE 1

(* Faults, here and below, that the properties must notice: a copy in the  *)
(* wrong order; a copy without a bound; a second frame that is read behind *)
(* the data of the first; a handler that does not turn to reading.         *)
FaultyJoined(buf) == buf \o kept
Joined(buf) == kept \o buf

(* One read() of getRequestData, of any part of what has arrived.          *)
Read(n) ==
    LET buf == SubSeq(wire, 1, n)
    IN  /\ (pc = "poll" /\ turn = "r") \/ pc = "read"
        /\ wire' = Rest(wire, n)
        /\ cuts' = cuts + Cut(buf) /\ cuts' <= MaxCut
        /\ \/ /\ MayRecognise(buf)
              /\ pc' = "parse" /\ rest' = Joined(buf) /\ result' = "ok"
              /\ kept' = <<>>
              /\ lone' = LET f == Joined(buf)[1][1] IN
                   IF /\ readState = "wait" /\ f # 0
                      /\ IsPrefix(Frame(f), Joined(buf))
                   THEN f ELSE 0
           \/ /\ MayDrop(buf)
              /\ pc' = "read" /\ result' = "more" /\ lone' = 0
              /\ UNCHANGED <<rest, kept>>
        /\ UNCHANGED <<sent, message, cstate, turn, got>>

(* One turn of the loop of parserJCQMessage in state s.                    *)
Turn(s) ==
    /\ pc = "parse" /\ rest # <<>> /\ result = "ok" /\ readState = s
    /\ UNCHANGED <<sent, wire, pc, cstate, turn, history>>

(* It moves on by n units, or keeps what is left and returns.              *)
Advance(n) == rest' = Rest(rest, n) /\ UNCHANGED <<result, kept>>
Stop(res, n) == rest' = <<>> /\ result' = res /\ kept' = Rest(rest, n)

WaitTurn ==
    /\ Turn("wait")
    /\ \/ \E i \in 1 .. Len(rest) :
             /\ TokenAt(rest, i, "S1", "S2")
             /\ \A j \in 1 .. i - 1 : ~TokenAt(rest, j, "S1", "S2")
             /\ Advance(i + 1)
             /\ readState' = "param"
       \/ ~HasFlag(rest) /\ Stop("more", 0) /\ UNCHANGED readState
    /\ UNCHANGED <<param, length, room, data>>

IsData == TokenAt(rest, 1, "D1", "D2")

(* getJCQParamNameAndData looks for a colon and then for a line end.       *)
Colons == {i \in 1 .. Len(rest) : Kind(rest[i]) \in {"P1", "D2"}}
Ends(i) == {j \in i + 1 .. Len(rest) : Kind(rest[j]) \in {"S2", "P2", "E1", "E2"}}
ParamEnds(i, j) ==
    /\ i \in Colons /\ \A x \in Colons : i <= x
    /\ j \in Ends(i) /\ \A x \in Ends(i) : j <= x
NoParam == \A i, j \in 1 .. Len(rest) : ~ParamEnds(i, j)

FaultyDataFollows ==
    /\ Turn("param") /\ IsData
    /\ readState' = "data" /\ room' = 0
    /\ UNCHANGED <<rest, result, kept, param, length, data>>

(* "data:" is next: the data of the message before is freed.               *)
DataFollows ==
    /\ Turn("param") /\ IsData
    /\ readState' = "data" /\ data' = <<>> /\ room' = 0
    /\ UNCHANGED <<rest, result, kept, param, length>>

(* Both halves of a param, of the same frame.                              *)
AsSent == TokenAt(rest, 1, "P1", "P2") /\ rest[1][1] = rest[2][1]

(* setNetMessageParam, of a name that a param has.  A value that is not    *)
(* what was sent may leave any length, or the length as it was.            *)
ParamTurn ==
    /\ Turn("param") /\ ~IsData
    /\ \E i, j \in 1 .. Len(rest) :
          /\ ParamEnds(i, j) /\ i = 1 /\ Kind(rest[1]) = "P1"
          /\ param' = SubSeq(rest, 1, j)
          /\ length' \in IF AsSent THEN {Size[rest[1][1]]}
                         ELSE ToSet(Size) \cup {0, length}
          /\ Advance(j)
    /\ UNCHANGED <<readState, room, data>>

(* A name that no param has, as half of "data:", or a value without the    *)
(* form of its param, which has freed the one before.  What is kept then   *)
(* is as long as what was left before the param.                           *)
ParamRefused ==
    /\ Turn("param") /\ ~IsData /\ ~AsSent
    /\ \E i, j \in 1 .. Len(rest) :
          /\ ParamEnds(i, j)
          /\ rest' = <<>> /\ result' = "format"
          /\ kept' = Rest(rest, j) \o Heap(j)
    /\ param' \in {param, <<>>}
    /\ UNCHANGED <<readState, length, room, data>>

ParamCut ==
    /\ Turn("param") /\ ~IsData /\ NoParam
    /\ Stop("more", 0)
    /\ UNCHANGED message

EmptyData ==
    /\ Turn("data") /\ length = 0
    /\ \/ IsData /\ Advance(2) /\ readState' = "end"
       \/ ~IsData /\ Stop("format", 0) /\ UNCHANGED readState
    /\ UNCHANGED <<param, length, room, data>>

FaultyToCopy(s) == Len(s)
ToCopy(s) == IF Len(data) + Len(s) <= length THEN Len(s) ELSE length - Len(data)

(* The data is copied, all there is of it or up to its length.             *)
CopyData(s) ==
    /\ data' = data \o SubSeq(s, 1, ToCopy(s))
    /\ rest' = Rest(s, ToCopy(s))
    /\ \/ /\ Len(data') < length
          /\ result' = "more" /\ UNCHANGED readState
       \/ /\ Len(data') >= length
          /\ readState' = "end" /\ UNCHANGED result
    /\ UNCHANGED <<kept, param, length>>

DataTurn ==
    /\ Turn("data") /\ length > 0
    /\ \/ data = <<>> /\ IsData /\ room' = length /\ CopyData(Rest(rest, 2))
       \/ data = <<>> /\ ~IsData /\ Stop("format", 0) /\ UNCHANGED message
       \/ data # <<>> /\ CopyData(rest) /\ UNCHANGED room

IsEnd == TokenAt(rest, 1, "E1", "E2")

FaultyAnswer ==
    /\ pc = "poll" /\ turn = "w"
    /\ readState' = "wait"
    /\ UNCHANGED <<sent, wire, pc, rest, result, kept, param, length, room, data,
                   cstate, turn, history>>

EndTurn ==
    /\ Turn("end")
    /\ \/ /\ IsEnd
          /\ readState' = "finish"
          /\ rest' = <<>> /\ kept' = Rest(rest, 2)
          /\ UNCHANGED result
       \/ ~IsEnd /\ Stop("format", 0) /\ UNCHANGED readState
    /\ UNCHANGED <<param, length, room, data>>

(* The loop ends.  getRequestData reads on if the parser needs more.       *)
ParseMore ==
    /\ pc = "parse" /\ result = "more"
    /\ pc' = "read"
    /\ UNCHANGED <<sent, wire, rest, result, kept, message, cstate, turn, history>>

Message == [param |-> param, data |-> data]
Finished == result = "ok" /\ readState = "finish"

(* processRequest, by the state of the connection.                         *)
Handled(state) ==
    \/ /\ state = "ready"
       /\ got' = Append(got, Message) /\ readState' = "wait"
    \/ state # "ready" /\ UNCHANGED <<got, readState>>

(* getRequestData returns: there is nothing to read, or the parser is done *)
(* with a frame or an error, or with neither; then the state of the        *)
(* connection is that of the time before.                                  *)
Return ==
    /\ \/ pc = "read" /\ result = "more"
       \/ /\ pc = "parse" /\ result # "more"
          /\ rest = <<>> \/ result = "format" \/ readState = "finish"
    /\ pc' = "poll"
    /\ cstate' = CASE result = "more" -> "wait"
                   [] result = "format" -> "format"
                   [] Finished -> "ready"
                   [] OTHER -> cstate
    /\ turn' = IF result = "format" \/ Finished THEN "w" ELSE turn
    /\ Handled(cstate')
    /\ lone' = 0
    /\ UNCHANGED <<sent, wire, rest, result, kept, param, length, room, data, cuts>>

(* processResponse, with setConnectRead when the answer is written.        *)
Answer ==
    /\ pc = "poll" /\ turn = "w"
    /\ turn' = "r" /\ readState' = "wait"
    /\ UNCHANGED <<sent, wire, pc, rest, result, kept, param, length, room, data,
                   cstate, history>>

Parse == \/ WaitTurn \/ DataFollows \/ ParamTurn \/ ParamRefused \/ ParamCut
         \/ EmptyData \/ DataTurn \/ EndTurn \/ ParseMore

Next == \/ Send
        \/ \E n \in 1 .. Len(wire) : Read(n)
        \/ Parse \/ Return \/ Answer

Spec == Init /\ [][Next]_vars
FairSpec == Spec /\ WF_vars(Send) /\ WF_vars(Parse \/ Return \/ Answer)
                 /\ WF_vars(\E n \in 1 .. Len(wire) : Read(n))
-----------------------------------------------------------------------------
(* Every variable has its type; the copy of a buffer is used up when the   *)
(* parser returns.                                                         *)
TypeOK ==
    /\ pc # "parse" => rest = <<>>
    /\ sent \in 0 .. MaxFrame
    /\ \A s \in {wire, rest, kept, param, data} : s \in Seq(Nat \X Nat)
    /\ pc \in {"poll", "read", "parse"}
    /\ result \in {"ok", "more", "format"}
    /\ readState \in {"wait", "param", "data", "end", "finish"}
    /\ length \in Nat /\ room \in Nat
    /\ cstate \in {"wait", "format", "ready"} /\ turn \in {"r", "w"}
    /\ cuts \in 0 .. MaxCut /\ lone \in 0 .. MaxFrame

(* However the frames are cut, what is copied into the data of a message   *)
(* fits into what was allocated for it.                                    *)
CopyFits == Len(data) <= room

(* Frames that are read whole, alone or several at once, come out as they  *)
(* went in, in order and each once; what was read beyond the first waits   *)
(* in the buffer and nothing is lost.                                      *)
Intact ==
    cuts = 0 =>
      /\ \A i \in 1 .. Len(got) : got[i] = Good(i)
      /\ pc = "poll" =>
           kept \o wire = FlattenSeq([i \in 1 .. sent - Len(got) |-> Frame(Len(got) + i)])

(* However the frames before it were cut, a frame that lies whole before a *)
(* parser waiting for one is read as it was sent: nothing that is left of  *)
(* a message given up gets into the next.                                  *)
Resync ==
    lone # 0 /\ pc = "parse" =>
      /\ result = "ok"
      /\ readState = "finish" => Message = Good(lone)

(* Whatever cuts and errors of format there were, the connection goes on   *)
(* reading: the parser comes to an end of every buffer, and the handlers   *)
(* turn to reading again.                                                  *)
ReadsOn == sent = MaxFrame ~> wire = <<>>
=============================================================================
