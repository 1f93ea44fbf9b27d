---------------------------- MODULE StreamProofs ----------------------------
(***************************************************************************)
(* Proofs about Stream, for any number of frames with data of any length,  *)
(* cut anywhere.                                                           *)
(***************************************************************************)
EXTENDS Stream, SequenceTheorems, WellFoundedInduction, TLAPS

Unit == (0 .. MaxFrame) \X Nat

(* What TypeOK says, and of which frames the units may be.                 *)
Types ==
    /\ sent \in 0 .. MaxFrame
    /\ wire \in Seq(Unit) /\ rest \in Seq(Unit) /\ kept \in Seq(Unit)
    /\ param \in Seq(Unit) /\ data \in Seq(Unit)
    /\ pc \in {"poll", "read", "parse"}
    /\ result \in {"ok", "more", "format"}
    /\ readState \in {"wait", "param", "data", "end", "finish"}
    /\ length \in Nat /\ room \in Nat
    /\ cstate \in {"wait", "format", "ready"} /\ turn \in {"r", "w"}
    /\ cuts \in 0 .. MaxCut /\ lone \in 0 .. MaxFrame

(* The parser returns when nothing is left of its copy, or after a frame.  *)
UsedUp ==
    /\ pc # "parse" => rest = <<>> /\ readState # "finish"
    /\ result # "ok" \/ readState = "finish" => rest = <<>>
    /\ readState = "finish" => result = "ok"

(* While data is copied the allocation is as large as the length says.     *)
Room ==
    /\ Len(data) <= room
    /\ readState = "data" /\ data # <<>> => room = length

StreamInv == Types /\ UsedUp /\ Room
-----------------------------------------------------------------------------
LEMMA RestIs ==
    ASSUME NEW S, NEW s \in Seq(S), NEW n \in 0 .. Len(s)
    PROVE  /\ Rest(s, n) \in Seq(S)
           /\ Len(Rest(s, n)) = Len(s) - n
           /\ n = Len(s) => Rest(s, n) = <<>>
<1>1. \A i \in n + 1 .. Len(s) : s[i] \in S
  OBVIOUS
<1>2. Len(s) \in Nat
  OBVIOUS
<1> QED
  BY <1>1, <1>2, SubSeqProperties, SubSeqEmpty DEF Rest

LEMMA FrontIs ==
    ASSUME NEW S, NEW s \in Seq(S), NEW n \in Int, n <= Len(s)
    PROVE  /\ SubSeq(s, 1, n) \in Seq(S)
           /\ Len(SubSeq(s, 1, n)) = IF 1 <= n THEN n ELSE 0
<1>1. \A i \in 1 .. n : s[i] \in S
  OBVIOUS
<1> QED
  BY <1>1, SubSeqProperties

LEMMA FrameIs ==
    ASSUME NEW f \in 1 .. MaxFrame
    PROVE  Frame(f) \in Seq(Unit)
<1>1. 8 + Size[f] \in Nat /\ f \in 0 .. MaxFrame
  BY FrameAssumption
<1>2. \A k \in 1 .. (8 + Size[f]) : <<f, 1 + k - 1>> \in Unit
  BY <1>1 DEF Unit
<1> QED
  BY <1>1, <1>2 DEF Frame, Units

LEMMA HeapIs ==
    ASSUME NEW n \in Nat
    PROVE  Heap(n) \in Seq(Unit)
<1>1. <<0, 0>> \in Unit
  BY FrameAssumption DEF Unit
<1> QED
  BY <1>1 DEF Heap

(* The first half of a param is a unit of a frame that was sent.           *)
LEMMA ParamOf ==
    ASSUME NEW s \in Seq(Unit), TokenAt(s, 1, "P1", "P2")
    PROVE  s[1][1] \in 1 .. MaxFrame
<1>1. s[1] \in Unit /\ Kind(s[1]) = "P1"
  BY DEF TokenAt
<1>2. s[1][1] # 0
  BY <1>1 DEF Kind
<1> QED
  BY <1>1, <1>2, FrameAssumption DEF Unit

LEMMA InitInv == Init => StreamInv
BY FrameAssumption DEF Init, StreamInv, Types, UsedUp, Room
-----------------------------------------------------------------------------
LEMMA SendKeeps ==
    ASSUME StreamInv, Send
    PROVE  StreamInv'
<1>1. sent + 1 \in 1 .. MaxFrame
  BY FrameAssumption DEF StreamInv, Types, Send
<1>2. wire' \in Seq(Unit)
  BY <1>1, FrameIs, ConcatProperties DEF StreamInv, Types, Send
<1> QED
  BY <1>1, <1>2 DEF StreamInv, Types, UsedUp, Room, Send, message, history

LEMMA ReadKeeps ==
    ASSUME StreamInv, NEW n \in 1 .. Len(wire), Read(n)
    PROVE  StreamInv'
<1> DEFINE buf == SubSeq(wire, 1, n)
<1>1. wire \in Seq(Unit) /\ kept \in Seq(Unit) /\ Len(wire) \in Nat
  BY DEF StreamInv, Types
<1>2. buf \in Seq(Unit) /\ Len(buf) = n /\ n \in 1 .. Len(wire)
  BY <1>1, FrontIs
<1>3. Rest(wire, n) \in Seq(Unit)
  BY <1>1, RestIs
<1>4. /\ Joined(buf) \in Seq(Unit) /\ Len(Joined(buf)) >= 1
      /\ Joined(buf)[1] \in Unit
  <2>1. Joined(buf) \in Seq(Unit) /\ Len(Joined(buf)) = Len(kept) + n
    BY <1>1, <1>2, ConcatProperties DEF Joined
  <2> QED
    BY <1>1, <1>2, <2>1
<1>5. Joined(buf)[1][1] \in 0 .. MaxFrame
  BY <1>4 DEF Unit
<1>6. cuts' \in 0 .. MaxCut
  <2>1. cuts' = cuts + Cut(buf) /\ cuts' <= MaxCut
    BY DEF Read
  <2>2. Cut(buf) \in {0, 1}
    BY DEF Cut
  <2> QED
    BY <2>1, <2>2, FrameAssumption DEF StreamInv, Types
<1> HIDE DEF buf
<1>7. /\ wire' = Rest(wire, n)
      /\ UNCHANGED <<sent, message, cstate, turn, got>>
      /\ pc # "parse"
      /\ \/ /\ pc' = "parse" /\ rest' = Joined(buf) /\ result' = "ok" /\ kept' = <<>>
            /\ lone' \in {0, Joined(buf)[1][1]}
         \/ /\ pc' = "read" /\ result' = "more" /\ lone' = 0
            /\ UNCHANGED <<rest, kept>>
  BY DEF Read, buf
<1>8. 0 \in 0 .. MaxFrame
  BY FrameAssumption
<1> QED
  BY <1>3, <1>4, <1>5, <1>6, <1>7, <1>8 DEF StreamInv, Types, UsedUp, Room, message
-----------------------------------------------------------------------------
(* The turns of the parser that leave the message as it is, but for its    *)
(* state.                                                                  *)
LEMMA TurnKeeps ==
    ASSUME StreamInv, pc = "parse", readState # "finish",
           UNCHANGED <<sent, wire, pc, cstate, turn, history, length, room, data>>,
           rest' \in Seq(Unit), kept' \in Seq(Unit), param' \in Seq(Unit),
           result' \in {"ok", "more", "format"},
           readState' \in {"wait", "param", "end", "finish", readState},
           result' # "ok" \/ readState' = "finish" => rest' = <<>>,
           readState' = "finish" => result' = "ok"
    PROVE  StreamInv'
BY DEF StreamInv, Types, UsedUp, Room, history

LEMMA WaitKeeps ==
    ASSUME StreamInv, WaitTurn
    PROVE  StreamInv'
<1>1. /\ rest \in Seq(Unit) /\ kept \in Seq(Unit) /\ param \in Seq(Unit)
      /\ pc = "parse" /\ readState = "wait" /\ result = "ok"
      /\ UNCHANGED <<sent, wire, pc, cstate, turn, history, length, room, data, param>>
  BY DEF StreamInv, Types, WaitTurn, Turn
<1>2. ASSUME NEW i \in 1 .. Len(rest), TokenAt(rest, i, "S1", "S2"), Advance(i + 1),
             readState' = "param"
      PROVE  StreamInv'
  <2>1. i + 1 \in 0 .. Len(rest)
    BY <1>1, <1>2 DEF TokenAt
  <2>2. rest' \in Seq(Unit)
    BY <1>1, <1>2, <2>1, RestIs DEF Advance
  <2> QED
    BY <1>1, <1>2, <2>2, TurnKeeps DEF Advance
<1>3. CASE Stop("more", 0) /\ UNCHANGED readState
  <2>1. Rest(rest, 0) \in Seq(Unit)
    BY <1>1, RestIs
  <2> QED
    BY <1>1, <1>3, <2>1, TurnKeeps DEF Stop
<1> QED
  BY <1>2, <1>3 DEF WaitTurn

LEMMA DataFollowsKeeps ==
    ASSUME StreamInv, DataFollows
    PROVE  StreamInv'
BY DEF StreamInv, Types, UsedUp, Room, DataFollows, Turn, history

LEMMA ParamKeeps ==
    ASSUME StreamInv, ParamTurn
    PROVE  StreamInv'
<1>1. /\ rest \in Seq(Unit) /\ kept \in Seq(Unit)
      /\ pc = "parse" /\ readState = "param" /\ result = "ok"
      /\ UNCHANGED <<sent, wire, pc, cstate, turn, history, readState, room, data>>
  BY DEF StreamInv, Types, ParamTurn, Turn
<1>2. PICK j \in 1 .. Len(rest) :
          /\ param' = SubSeq(rest, 1, j)
          /\ length' \in IF AsSent THEN {Size[rest[1][1]]}
                         ELSE ToSet(Size) \cup {0, length}
          /\ Advance(j)
  BY DEF ParamTurn
<1>3. param' \in Seq(Unit) /\ rest' \in Seq(Unit) /\ kept' = kept /\ result' = "ok"
  BY <1>1, <1>2, FrontIs, RestIs DEF Advance
<1>4. length' \in Nat
  <2>1. ToSet(Size) \cup {0, length} \subseteq Nat
    BY FrameAssumption DEF ToSet, StreamInv, Types
  <2>2. AsSent => Size[rest[1][1]] \in Nat
    BY <1>1, ParamOf, FrameAssumption DEF AsSent
  <2> QED
    BY <1>2, <2>1, <2>2
<1> QED
  BY <1>1, <1>3, <1>4 DEF StreamInv, Types, UsedUp, Room, history

LEMMA ParamRefusedKeeps ==
    ASSUME StreamInv, ParamRefused
    PROVE  StreamInv'
<1>1. /\ rest \in Seq(Unit) /\ param \in Seq(Unit)
      /\ pc = "parse" /\ readState = "param"
      /\ param' \in Seq(Unit)
      /\ UNCHANGED <<sent, wire, pc, cstate, turn, history>>
      /\ UNCHANGED <<readState, length, room, data>>
  <2>1. <<>> \in Seq(Unit)
    OBVIOUS
  <2> QED
    BY <2>1 DEF StreamInv, Types, ParamRefused, Turn
<1>2. PICK j \in 1 .. Len(rest) :
          rest' = <<>> /\ result' = "format" /\ kept' = Rest(rest, j) \o Heap(j)
  BY DEF ParamRefused
<1>3. Rest(rest, j) \in Seq(Unit) /\ Heap(j) \in Seq(Unit)
  BY <1>1, RestIs, HeapIs
<1>4. kept' \in Seq(Unit)
  BY <1>2, <1>3, ConcatProperties
<1> QED
  BY <1>1, <1>2, <1>4 DEF StreamInv, Types, UsedUp, Room, history

LEMMA StopKeeps ==
    ASSUME StreamInv, pc = "parse", readState # "finish",
           UNCHANGED <<sent, wire, pc, cstate, turn, history, message>>,
           NEW res \in {"more", "format"}, Stop(res, 0)
    PROVE  StreamInv'
<1>1. rest \in Seq(Unit) /\ param \in Seq(Unit)
  BY DEF StreamInv, Types
<1>2. Rest(rest, 0) \in Seq(Unit)
  BY <1>1, RestIs
<1> QED
  BY <1>1, <1>2, TurnKeeps DEF Stop, message

LEMMA EmptyDataKeeps ==
    ASSUME StreamInv, EmptyData
    PROVE  StreamInv'
<1>1. /\ rest \in Seq(Unit) /\ kept \in Seq(Unit) /\ param \in Seq(Unit)
      /\ pc = "parse" /\ readState = "data" /\ result = "ok"
      /\ UNCHANGED <<sent, wire, pc, cstate, turn, history, param, length, room, data>>
  BY DEF StreamInv, Types, EmptyData, Turn
<1>2. CASE IsData /\ Advance(2) /\ readState' = "end"
  <2>1. 2 \in 0 .. Len(rest)
    BY <1>1, <1>2 DEF IsData, TokenAt
  <2>2. rest' \in Seq(Unit)
    BY <1>1, <1>2, <2>1, RestIs DEF Advance
  <2> QED
    BY <1>1, <1>2, <2>2, TurnKeeps DEF Advance
<1>3. CASE Stop("format", 0) /\ UNCHANGED readState
  BY <1>1, <1>3, StopKeeps DEF message
<1> QED
  BY <1>2, <1>3 DEF EmptyData

(* No more is copied than the length of the data leaves room for, and if   *)
(* less, then all there is.                                                *)
LEMMA CopyKeeps ==
    ASSUME StreamInv, pc = "parse", readState = "data", result = "ok",
           UNCHANGED <<sent, wire, pc, cstate, turn, history>>,
           NEW s \in Seq(Unit), CopyData(s),
           room' = length
    PROVE  StreamInv'
<1>1. /\ data \in Seq(Unit) /\ length \in Nat /\ kept \in Seq(Unit)
      /\ Len(data) \in Nat /\ Len(s) \in Nat /\ param \in Seq(Unit)
  BY DEF StreamInv, Types
<1>2. Len(data) <= length
  BY <1>1 DEF StreamInv, Room
<1> DEFINE n == ToCopy(s)
<1>3. /\ n \in 0 .. Len(s) /\ Len(data) + n <= length
      /\ n = Len(s) \/ Len(data) + n = length
  BY <1>1, <1>2 DEF ToCopy
<1>4. /\ data' = data \o SubSeq(s, 1, n) /\ rest' = Rest(s, n)
      /\ \/ Len(data') < length /\ result' = "more" /\ UNCHANGED readState
         \/ Len(data') >= length /\ readState' = "end" /\ UNCHANGED result
      /\ UNCHANGED <<kept, param, length>>
  BY DEF CopyData
<1> HIDE DEF n
<1>5. SubSeq(s, 1, n) \in Seq(Unit) /\ Len(SubSeq(s, 1, n)) = n
  BY <1>1, <1>3, FrontIs
<1>6. data' \in Seq(Unit) /\ Len(data') = Len(data) + n
  BY <1>1, <1>4, <1>5, ConcatProperties
<1>7. rest' \in Seq(Unit) /\ (n = Len(s) => rest' = <<>>)
  BY <1>3, <1>4, RestIs
<1>8. Types'
  BY <1>1, <1>4, <1>6, <1>7 DEF StreamInv, Types, history
<1>9. UsedUp'
  BY <1>1, <1>3, <1>4, <1>6, <1>7 DEF UsedUp
<1>10. Room'
  BY <1>1, <1>3, <1>4, <1>6 DEF Room
<1> QED
  BY <1>8, <1>9, <1>10 DEF StreamInv

LEMMA DataKeeps ==
    ASSUME StreamInv, DataTurn
    PROVE  StreamInv'
<1>1. /\ rest \in Seq(Unit)
      /\ pc = "parse" /\ readState = "data" /\ result = "ok"
      /\ UNCHANGED <<sent, wire, pc, cstate, turn, history>>
  BY DEF StreamInv, Types, DataTurn, Turn
<1>2. CASE IsData /\ room' = length /\ CopyData(Rest(rest, 2))
  <2>1. 2 \in 0 .. Len(rest)
    BY <1>1, <1>2 DEF IsData, TokenAt
  <2>2. Rest(rest, 2) \in Seq(Unit)
    BY <1>1, <2>1, RestIs
  <2> QED
    BY <1>1, <1>2, <2>2, CopyKeeps
<1>3. CASE Stop("format", 0) /\ UNCHANGED message
  BY <1>1, <1>3, StopKeeps
<1>4. CASE data # <<>> /\ CopyData(rest) /\ UNCHANGED room
  <2>1. room' = length
    BY <1>1, <1>4 DEF StreamInv, Room
  <2> QED
    BY <1>1, <1>4, <2>1, CopyKeeps
<1> QED
  BY <1>2, <1>3, <1>4 DEF DataTurn

LEMMA EndKeeps ==
    ASSUME StreamInv, EndTurn
    PROVE  StreamInv'
<1>1. /\ rest \in Seq(Unit) /\ kept \in Seq(Unit) /\ param \in Seq(Unit)
      /\ pc = "parse" /\ readState = "end" /\ result = "ok"
      /\ UNCHANGED <<sent, wire, pc, cstate, turn, history, param, length, room, data>>
  BY DEF StreamInv, Types, EndTurn, Turn
<1>2. CASE /\ IsEnd /\ readState' = "finish"
           /\ rest' = <<>> /\ kept' = Rest(rest, 2) /\ UNCHANGED result
  <2>1. 2 \in 0 .. Len(rest)
    BY <1>1, <1>2 DEF IsEnd, TokenAt
  <2>2. kept' \in Seq(Unit)
    BY <1>1, <1>2, <2>1, RestIs
  <2> QED
    BY <1>1, <1>2, <2>2, TurnKeeps
<1>3. CASE Stop("format", 0) /\ UNCHANGED readState
  BY <1>1, <1>3, StopKeeps DEF message
<1> QED
  BY <1>2, <1>3 DEF EndTurn

LEMMA ParseKeeps ==
    ASSUME StreamInv, Parse
    PROVE  StreamInv'
<1>1. CASE ParamCut
  <2>1. /\ pc = "parse" /\ readState = "param" /\ Stop("more", 0)
        /\ UNCHANGED <<sent, wire, pc, cstate, turn, history, message>>
    BY <1>1 DEF ParamCut, Turn
  <2> QED
    BY <2>1, StopKeeps
<1>2. CASE ParseMore
  BY <1>2 DEF StreamInv, Types, UsedUp, Room, ParseMore, message, history
<1> QED
  BY <1>1, <1>2, WaitKeeps, DataFollowsKeeps, ParamKeeps, ParamRefusedKeeps,
     EmptyDataKeeps, DataKeeps, EndKeeps DEF Parse

(* A message that is finished is handed on, and the connection turned to   *)
(* writing.                                                                *)
LEMMA ReturnKeeps ==
    ASSUME StreamInv, Return
    PROVE  StreamInv'
<1>1. /\ rest = <<>> /\ pc' = "poll" /\ lone' = 0
      /\ UNCHANGED <<sent, wire, rest, result, kept, param, length, room, data, cuts>>
  BY DEF StreamInv, UsedUp, Return
<1>2. cstate' \in {"wait", "format", "ready"} /\ turn' \in {"r", "w"}
  BY DEF StreamInv, Types, Return
<1>3. readState' \in {readState, "wait"} /\ readState' # "finish"
  <2>1. CASE cstate' = "ready"
    BY <2>1 DEF Return, Handled
  <2>2. CASE cstate' # "ready"
    <3>1. readState' = readState
      BY <2>2 DEF Return, Handled
    <3>2. result # "ok" \/ readState # "finish"
      BY <2>2 DEF Return, Finished
    <3>3. readState = "finish" => result = "ok"
      BY DEF StreamInv, UsedUp
    <3> QED
      BY <3>1, <3>2, <3>3
  <2> QED
    BY <2>1, <2>2
<1>4. 0 \in 0 .. MaxFrame
  BY FrameAssumption
<1> QED
  BY <1>1, <1>2, <1>3, <1>4 DEF StreamInv, Types, UsedUp, Room

LEMMA NextKeeps == StreamInv /\ [Next]_vars => StreamInv'
<1> SUFFICES ASSUME StreamInv, [Next]_vars PROVE StreamInv'
  OBVIOUS
<1>1. CASE Answer
  BY <1>1 DEF StreamInv, Types, UsedUp, Room, Answer, history
<1>2. CASE UNCHANGED vars
  BY <1>2 DEF StreamInv, Types, UsedUp, Room, vars, message, history
<1> QED
  BY <1>1, <1>2, SendKeeps, ReadKeeps, ParseKeeps, ReturnKeeps DEF Next

(* StreamInv is an invariant of getRequestData and the parser: a buffer is *)
(* used up when the parser returns, and the allocation behind the data is  *)
(* as large as the length, from the first unit of data to the last.        *)
THEOREM StreamInvariant == Spec => []StreamInv
<1>1. Init => StreamInv
  BY InitInv
<1>2. StreamInv /\ [Next]_vars => StreamInv'
  BY NextKeeps
<1> QED
  BY <1>1, <1>2, PTL DEF Spec

(* Every variable has its type, and the units are those of frames that     *)
(* were sent, or of the heap.                                              *)
THEOREM TypesCorrect == Spec => []TypeOK
<1>1. StreamInv => TypeOK
  <2> SUFFICES ASSUME StreamInv PROVE TypeOK
    OBVIOUS
  <2>1. \A s : s \in Seq(Unit) => s \in Seq(Nat \X Nat)
    BY FrameAssumption DEF Unit
  <2> QED
    BY <2>1 DEF StreamInv, Types, UsedUp, TypeOK
<1> QED
  BY <1>1, StreamInvariant, PTL

(* However the frames are cut, what parserJCQMessage copies into the data  *)
(* of a message fits into what was allocated for it.                       *)
THEOREM CopiesFit == Spec => []CopyFits
<1>1. StreamInv => CopyFits
  BY DEF StreamInv, Room, CopyFits
<1> QED
  BY <1>1, StreamInvariant, PTL
-----------------------------------------------------------------------------
(* The stream.  A connection carries the units of the frames one after the *)
(* other; what is left of it from a unit v on, with m frames sent:         *)
End(f) == 8 + Size[f]
Follows(u) == IF u[2] = End(u[1]) THEN <<u[1] + 1, 1>> ELSE <<u[1], u[2] + 1>>
Tape(x, v, m) ==
    /\ \A i \in 1 .. Len(x) : x[i][1] \in 1 .. m /\ x[i][2] \in 1 .. End(x[i][1])
    /\ \A i \in 1 .. Len(x) - 1 : x[i + 1] = Follows(x[i])
    /\ x = <<>> => v = <<m + 1, 1>>
    /\ x # <<>> => x[1] = v /\ Follows(x[Len(x)]) = <<m + 1, 1>>

(* No frame is begun and not ended.                                        *)
Whole(s) == s # <<>> => Kind(s[Len(s)]) = "E2"

(* The units of frame f behind its first p lie at the front of s.          *)
Lies(s, f, p) ==
    Len(s) >= End(f) - p /\ \A i \in 1 .. End(f) - p : s[i] = <<f, p + i>>

(* The parser has read p units of frame f, and the rest lies before it.    *)
HasParam(f) == param = Units(f, 3, 4) /\ length = Size[f]
Reading(f, p) ==
    /\ pc = "parse" /\ result = "ok" /\ Lies(rest, f, p)
    /\ \/ readState = "wait" /\ p = 0
       \/ readState = "param" /\ p = 2
       \/ readState = "param" /\ p = 4 /\ HasParam(f)
       \/ readState = "data" /\ p = 4 /\ HasParam(f) /\ data = <<>>
       \/ readState = "end" /\ p = End(f) - 2 /\ Message = Good(f)
       \/ readState = "finish" /\ p = End(f) /\ Message = Good(f)
    /\ readState # "finish" => kept = <<>>

(* A frame that lay whole before a parser waiting for one is being read.   *)
Alone == lone # 0 /\ pc = "parse" =>
            /\ lone \in 1 .. MaxFrame
            /\ \E p \in 0 .. End(lone) : Reading(lone, p)

(* Without a cut, so is the next frame of all; what is kept, the copy and  *)
(* the wire are what is left of the stream.                                *)
Left == (kept \o rest) \o wire
Flow ==
    cuts = 0 =>
      /\ got \in Seq([param : Seq(Unit), data : Seq(Unit)])
      /\ \A i \in 1 .. Len(got) : got[i] = Good(i)
      /\ pc # "read" /\ result = "ok" /\ Whole(kept \o rest)
      /\ pc = "poll" => /\ readState = "wait"
                        /\ Tape(Left, <<Len(got) + 1, 1>>, sent)
      /\ pc = "parse" => /\ Len(got) < sent
                         /\ \E p \in 0 .. End(Len(got) + 1) :
                              /\ Reading(Len(got) + 1, p)
                              /\ Tape(Left, Follows(<<Len(got) + 1, p>>), sent)
-----------------------------------------------------------------------------
LEMMA Kinds ==
    ASSUME NEW f \in 1 .. MaxFrame
    PROVE  /\ Size[f] \in Nat
           /\ Kind(<<f, 1>>) = "S1" /\ Kind(<<f, 2>>) = "S2"
           /\ Kind(<<f, 3>>) = "P1" /\ Kind(<<f, 4>>) = "P2"
           /\ Kind(<<f, 5>>) = "D1" /\ Kind(<<f, 6>>) = "D2"
           /\ Kind(<<f, End(f) - 1>>) = "E1" /\ Kind(<<f, End(f)>>) = "E2"
           /\ \A k \in 1 .. End(f) : Kind(<<f, k>>) = "E2" => k = End(f)
<1>1. Size[f] \in Nat /\ f # 0
  BY FrameAssumption
<1>2. /\ Kind(<<f, 1>>) = "S1" /\ Kind(<<f, 2>>) = "S2"
      /\ Kind(<<f, 3>>) = "P1" /\ Kind(<<f, 4>>) = "P2"
      /\ Kind(<<f, 5>>) = "D1" /\ Kind(<<f, 6>>) = "D2"
  BY <1>1 DEF Kind
<1>3. Kind(<<f, End(f) - 1>>) = "E1" /\ Kind(<<f, End(f)>>) = "E2"
  BY <1>1 DEF Kind, End
<1>4. ASSUME NEW k \in 1 .. End(f), Kind(<<f, k>>) = "E2"
      PROVE  k = End(f)
  <2>1. CASE k \in 1 .. 6
    <3>1. k = 1 \/ k = 2 \/ k = 3 \/ k = 4 \/ k = 5 \/ k = 6
      BY <2>1
    <3> QED
      BY <1>2, <1>4, <3>1
  <2>2. CASE k > 6 /\ k <= 6 + Size[f]
    BY <1>1, <1>4, <2>2 DEF Kind
  <2>3. CASE k = 7 + Size[f]
    BY <1>1, <1>3, <1>4, <2>3 DEF End
  <2> QED
    BY <1>1, <2>1, <2>2, <2>3 DEF End
<1> QED
  BY <1>1, <1>2, <1>3, <1>4

LEMMA FrameUnits ==
    ASSUME NEW f \in 1 .. MaxFrame
    PROVE  /\ Frame(f) \in Seq(Unit) /\ Len(Frame(f)) = End(f)
           /\ End(f) \in Nat /\ End(f) >= 8
           /\ \A i \in 1 .. End(f) : Frame(f)[i] = <<f, i>>
<1>1. End(f) = 8 + Size[f] /\ End(f) \in Nat /\ End(f) >= 8
  BY FrameAssumption DEF End
<1>2. Frame(f) = [k \in 1 .. End(f) |-> <<f, k>>]
  <2>1. End(f) - 1 + 1 = End(f) /\ \A k \in 1 .. End(f) : 1 + k - 1 = k
    BY <1>1
  <2> QED
    BY <1>1, <2>1 DEF Frame, Units
<1>3. Len(Frame(f)) = End(f) /\ \A i \in 1 .. End(f) : Frame(f)[i] = <<f, i>>
  <2>1. PICK n : n = End(f)
    OBVIOUS
  <2>2. PICK a : a = [k \in 1 .. n |-> <<f, k>>]
    OBVIOUS
  <2>3. Len(a) = n /\ \A i \in 1 .. n : a[i] = <<f, i>>
    BY ONLY <1>1, <2>1, <2>2
  <2> QED
    BY <1>2, <2>1, <2>2, <2>3
<1> QED
  BY <1>1, <1>3, FrameIs

(* What is left of a sequence of which the first n are gone.               *)
LEMMA RestAt ==
    ASSUME NEW S, NEW s \in Seq(S), NEW n \in 0 .. Len(s)
    PROVE  /\ Rest(s, n) \in Seq(S) /\ Len(Rest(s, n)) = Len(s) - n
           /\ \A i \in 1 .. Len(s) - n : Rest(s, n)[i] = s[n + i]
<1>1. Len(s) \in Nat /\ \A i \in n + 1 .. Len(s) : s[i] \in S
  OBVIOUS
<1>2. PICK r : r = SubSeq(s, n + 1, Len(s))
  OBVIOUS
<1>3. r \in Seq(S) /\ Len(r) = Len(s) - n /\ \A i \in 1 .. Len(s) - n : r[i] = s[n + i]
  BY <1>1, <1>2
<1> QED
  BY <1>2, <1>3 DEF Rest

LEMMA LiesOn ==
    ASSUME NEW s \in Seq(Unit), NEW f \in 1 .. MaxFrame, NEW p \in 0 .. End(f),
           NEW q \in p .. End(f), Lies(s, f, p)
    PROVE  /\ q - p \in 0 .. Len(s) /\ Lies(Rest(s, q - p), f, q)
<1>1. End(f) \in Nat /\ Len(s) \in Nat
  BY FrameAssumption DEF End
<1>2. q - p \in 0 .. Len(s)
  BY <1>1 DEF Lies
<1>3. PICK r : r = Rest(s, q - p)
  OBVIOUS
<1>4. /\ r \in Seq(Unit) /\ Len(r) = Len(s) - (q - p)
      /\ \A i \in 1 .. Len(s) - (q - p) : r[i] = s[(q - p) + i]
  BY <1>2, <1>3, RestAt
<1>5. Len(r) >= End(f) - q
  BY <1>1, <1>4 DEF Lies
<1>6. ASSUME NEW i \in 1 .. End(f) - q PROVE r[i] = <<f, q + i>>
  <2>1. /\ i \in 1 .. Len(s) - (q - p) /\ (q - p) + i \in 1 .. End(f) - p
        /\ p + ((q - p) + i) = q + i
    BY <1>1, <1>4, <1>5
  <2> QED
    BY <1>4, <2>1 DEF Lies
<1> QED
  BY <1>2, <1>3, <1>5, <1>6 DEF Lies

(* The units of a frame at the front of a sequence, taken out.             *)
LEMMA LiesFront ==
    ASSUME NEW s \in Seq(Unit), NEW f \in 1 .. MaxFrame, NEW p \in 0 .. End(f),
           NEW n \in 0 .. End(f) - p, Lies(s, f, p)
    PROVE  SubSeq(s, 1, n) = Units(f, p + 1, p + n)
<1>1. End(f) \in Nat /\ Len(s) \in Nat /\ n <= Len(s) /\ f \in 0 .. MaxFrame
  BY FrameAssumption DEF End, Lies
<1>2. PICK a : a = SubSeq(s, 1, n)
  OBVIOUS
<1>3. a \in Seq(Unit) /\ Len(a) = n /\ \A i \in 1 .. n : a[i] = s[i]
  BY <1>1, <1>2
<1>4. PICK b : b = Units(f, p + 1, p + n)
  OBVIOUS
<1>5. b = [k \in 1 .. n |-> <<f, p + k>>]
  <2>1. (p + n) - (p + 1) + 1 = n /\ \A k \in 1 .. n : (p + 1) + k - 1 = p + k
    OBVIOUS
  <2> QED
    BY <1>4, <2>1 DEF Units
<1>6. b \in Seq(Unit) /\ Len(b) = n /\ \A i \in 1 .. n : b[i] = <<f, p + i>>
  <2>1. \A k \in 1 .. n : <<f, p + k>> \in Unit
    BY <1>1 DEF Unit
  <2>2. n \in Nat
    BY <1>1
  <2>3. [k \in 1 .. n |-> <<f, p + k>>] \in Seq(Unit)
    BY <2>1, <2>2
  <2>4. Len(b) = n /\ \A i \in 1 .. n : b[i] = <<f, p + i>>
    BY ONLY <1>5, <2>2
  <2> QED
    BY ONLY <1>5, <2>3, <2>4
<1>7. \A i \in 1 .. n : a[i] = b[i]
  <2> TAKE i \in 1 .. n
  <2>1. i \in 1 .. End(f) - p
    BY <1>1
  <2>2. s[i] = <<f, p + i>>
    BY <2>1 DEF Lies
  <2> QED
    BY <1>3, <1>6, <2>2
<1>8. a = b
  BY <1>3, <1>6, <1>7, SeqEqual
<1> QED
  BY <1>2, <1>4, <1>8
-----------------------------------------------------------------------------
(* The parser goes on by n units, or keeps the rest after the last of the  *)
(* frame.                                                                  *)
Forward(f, p, q) ==
    /\ Reading(f, q)'
    /\ \/ kept = <<>> /\ kept' = <<>> /\ rest' = Rest(rest, q - p)
       \/ kept = <<>> /\ rest' = <<>> /\ kept' = Rest(rest, q - p)
    /\ q - p \in 0 .. Len(rest)
    /\ UNCHANGED <<sent, wire, pc, cstate, turn, history>>

LEMMA WaitReads ==
    ASSUME StreamInv, NEW f \in 1 .. MaxFrame, Reading(f, 0), WaitTurn
    PROVE  Forward(f, 0, 2)
<1>1. /\ rest \in Seq(Unit) /\ pc = "parse" /\ readState = "wait" /\ result = "ok"
      /\ kept = <<>> /\ Lies(rest, f, 0) /\ End(f) \in Nat /\ End(f) >= 8
      /\ UNCHANGED <<sent, wire, pc, cstate, turn, history, param, length, room, data>>
  BY FrameAssumption DEF StreamInv, Types, WaitTurn, Turn, Reading, End
<1>2. TokenAt(rest, 1, "S1", "S2") /\ 1 \in 1 .. Len(rest) /\ Len(rest) \in Nat
  <2>1. rest[1] = <<f, 1>> /\ rest[2] = <<f, 2>> /\ Len(rest) >= 8
    <3>1. 1 \in 1 .. End(f) - 0 /\ 2 \in 1 .. End(f) - 0 /\ 0 + 1 = 1 /\ 0 + 2 = 2
      BY <1>1
    <3>2. \A i \in 1 .. End(f) - 0 : rest[i] = <<f, 0 + i>>
      BY <1>1 DEF Lies
    <3>3. Len(rest) >= 8
      BY <1>1 DEF Lies
    <3> QED
      BY <3>1, <3>2, <3>3
  <2>2. Kind(rest[1]) = "S1" /\ Kind(rest[2]) = "S2"
    BY <2>1, Kinds
  <2> QED
    BY <1>1, <2>1, <2>2 DEF TokenAt
<1>3. PICK i \in 1 .. Len(rest) :
         /\ TokenAt(rest, i, "S1", "S2")
         /\ \A j \in 1 .. i - 1 : ~TokenAt(rest, j, "S1", "S2")
         /\ Advance(i + 1)
         /\ readState' = "param"
  BY <1>2 DEF WaitTurn, HasFlag
<1>4. i = 1
  BY <1>2, <1>3
<1>5. rest' = Rest(rest, 2) /\ result' = "ok" /\ kept' = <<>>
  BY <1>1, <1>3, <1>4 DEF Advance
<1>6. 2 - 0 \in 0 .. Len(rest) /\ Lies(Rest(rest, 2 - 0), f, 2) /\ 2 - 0 = 2
  <2>1. 0 \in 0 .. End(f) /\ 2 \in 0 .. End(f)
    BY <1>1
  <2> QED
    BY <1>1, <2>1, LiesOn
<1>7. Reading(f, 2)'
  BY <1>1, <1>3, <1>5, <1>6 DEF Reading
<1> QED
  BY <1>1, <1>5, <1>6, <1>7 DEF Forward

(* In front of the param of a frame, and in front of its data.             *)
LEMMA AtParam ==
    ASSUME StreamInv, NEW f \in 1 .. MaxFrame, Reading(f, 2), readState = "param"
    PROVE  /\ TokenAt(rest, 1, "P1", "P2") /\ rest[1] = <<f, 3>> /\ rest[2] = <<f, 4>>
           /\ ~IsData /\ ParamEnds(1, 2) /\ Len(rest) \in Nat /\ Len(rest) >= 2
           /\ \A i, j \in 1 .. Len(rest) : ParamEnds(i, j) => i = 1 /\ j = 2
<1>1. rest \in Seq(Unit) /\ Len(rest) \in Nat /\ End(f) \in Nat /\ End(f) >= 8
  BY FrameAssumption DEF StreamInv, Types, End
<1>2. rest[1] = <<f, 3>> /\ rest[2] = <<f, 4>> /\ Len(rest) >= 6
  <2>1. \A i \in 1 .. End(f) - 2 : rest[i] = <<f, 2 + i>>
    BY DEF Reading, Lies
  <2>2. Len(rest) >= End(f) - 2
    BY DEF Reading, Lies
  <2>3. 1 \in 1 .. End(f) - 2 /\ 2 \in 1 .. End(f) - 2
    BY <1>1
  <2> QED
    BY <1>1, <2>1, <2>2, <2>3
<1>3. Kind(rest[1]) = "P1" /\ Kind(rest[2]) = "P2"
  BY <1>2, Kinds
<1>4. TokenAt(rest, 1, "P1", "P2") /\ ~IsData
  BY <1>1, <1>2, <1>3 DEF TokenAt, IsData
<1>5. 1 \in Colons /\ \A x \in Colons : 1 <= x
  BY <1>1, <1>2, <1>3 DEF Colons
<1>6. 2 \in Ends(1) /\ \A x \in Ends(1) : 2 <= x
  BY <1>1, <1>2, <1>3 DEF Ends
<1>7. ParamEnds(1, 2)
  BY <1>5, <1>6 DEF ParamEnds
<1>8. ASSUME NEW i \in 1 .. Len(rest), NEW j \in 1 .. Len(rest), ParamEnds(i, j)
      PROVE  i = 1 /\ j = 2
  <2>1. i = 1
    BY <1>5, <1>8 DEF ParamEnds
  <2> QED
    BY <1>6, <1>8, <2>1 DEF ParamEnds
<1> QED
  BY <1>1, <1>2, <1>4, <1>7, <1>8

LEMMA AtData ==
    ASSUME StreamInv, NEW f \in 1 .. MaxFrame, Reading(f, 4)
    PROVE  readState \in {"param", "data"} => IsData
<1>1. rest \in Seq(Unit) /\ Len(rest) \in Nat /\ End(f) \in Nat /\ End(f) >= 8
  BY FrameAssumption DEF StreamInv, Types, End
<1>2. rest[1] = <<f, 5>> /\ rest[2] = <<f, 6>> /\ Len(rest) >= 4
  <2>1. \A i \in 1 .. End(f) - 4 : rest[i] = <<f, 4 + i>>
    BY DEF Reading, Lies
  <2>2. Len(rest) >= End(f) - 4
    BY DEF Reading, Lies
  <2>3. 1 \in 1 .. End(f) - 4 /\ 2 \in 1 .. End(f) - 4
    BY <1>1
  <2> QED
    BY <1>1, <2>1, <2>2, <2>3
<1>3. Kind(rest[1]) = "D1" /\ Kind(rest[2]) = "D2"
  BY <1>2, Kinds
<1> QED
  BY <1>1, <1>2, <1>3 DEF IsData, TokenAt

LEMMA ParamReads ==
    ASSUME StreamInv, NEW f \in 1 .. MaxFrame, NEW p \in 0 .. End(f), Reading(f, p), ParamTurn
    PROVE  p = 2 /\ Forward(f, 2, 4)
<1>1. /\ rest \in Seq(Unit) /\ pc = "parse" /\ readState = "param" /\ result = "ok"
      /\ kept = <<>> /\ ~IsData /\ End(f) \in Nat /\ End(f) >= 8
      /\ UNCHANGED <<sent, wire, pc, cstate, turn, history, readState, room, data>>
  <2>1. End(f) \in Nat /\ End(f) >= 8
    BY FrameUnits
  <2>2. /\ pc = "parse" /\ readState = "param" /\ result = "ok" /\ ~IsData
        /\ UNCHANGED <<sent, wire, pc, cstate, turn, history, readState, room, data>>
    BY DEF ParamTurn, Turn
  <2>3. kept = <<>>
    BY <2>2 DEF Reading
  <2> QED
    BY <2>1, <2>2, <2>3 DEF StreamInv, Types
<1>2. p = 2
  <2>1. p = 4 => FALSE
    BY <1>1, AtData
  <2> QED
    BY <1>1, <2>1 DEF Reading
<1>3. PICK i, j \in 1 .. Len(rest) :
          /\ ParamEnds(i, j) /\ i = 1
          /\ param' = SubSeq(rest, 1, j)
          /\ length' \in IF AsSent THEN {Size[rest[1][1]]}
                         ELSE ToSet(Size) \cup {0, length}
          /\ Advance(j)
  BY DEF ParamTurn
<1>4. /\ j = 2 /\ TokenAt(rest, 1, "P1", "P2")
      /\ rest[1] = <<f, 3>> /\ rest[2] = <<f, 4>>
  BY <1>1, <1>2, <1>3, AtParam
<1>5. length' = Size[f]
  BY <1>3, <1>4 DEF AsSent
<1>6. 2 \in 0 .. End(f) /\ 4 \in 2 .. End(f) /\ 2 \in 0 .. End(f) - 2 /\ 4 - 2 = 2
  BY <1>1
<1>7. Lies(rest, f, 2)
  BY <1>2 DEF Reading
<1>8. 4 - 2 \in 0 .. Len(rest) /\ Lies(Rest(rest, 4 - 2), f, 4)
  BY <1>1, <1>6, <1>7, LiesOn
<1>9. param' = Units(f, 3, 4)
  <2>1. SubSeq(rest, 1, 2) = Units(f, 2 + 1, 2 + 2)
    BY <1>1, <1>6, <1>7, LiesFront
  <2> QED
    BY <1>3, <1>4, <2>1
<1>10. rest' = Rest(rest, 4 - 2) /\ result' = "ok" /\ kept' = <<>>
  BY <1>1, <1>3, <1>4, <1>6 DEF Advance
<1>11. Reading(f, 4)'
  BY <1>1, <1>5, <1>8, <1>9, <1>10 DEF Reading, HasParam
<1> QED
  BY <1>1, <1>2, <1>8, <1>10, <1>11 DEF Forward

LEMMA DataFollowsReads ==
    ASSUME StreamInv, NEW f \in 1 .. MaxFrame, NEW p \in 0 .. End(f), Reading(f, p), DataFollows
    PROVE  p = 4 /\ Forward(f, 4, 4)
<1>1. /\ rest \in Seq(Unit) /\ pc = "parse" /\ readState = "param" /\ result = "ok"
      /\ kept = <<>> /\ IsData /\ End(f) \in Nat /\ End(f) >= 8
      /\ readState' = "data" /\ data' = <<>>
      /\ UNCHANGED <<rest, result, kept, param, length>>
      /\ UNCHANGED <<sent, wire, pc, cstate, turn, history>>
  BY FrameAssumption DEF StreamInv, Types, DataFollows, Turn, Reading, End
<1>2. p = 4 /\ Lies(rest, f, 4) /\ HasParam(f)
  <2>1. p = 2 => FALSE
    BY <1>1, AtParam
  <2> QED
    BY <1>1, <2>1 DEF Reading
<1>3. Reading(f, 4)'
  BY <1>1, <1>2 DEF Reading, HasParam
<1>4. 4 \in 0 .. End(f) /\ 4 \in 4 .. End(f) /\ 4 - 4 = 0
  BY <1>1
<1>5. 4 - 4 \in 0 .. Len(rest)
  BY <1>1, <1>2, <1>4, LiesOn
<1>6. Rest(rest, 0) = rest
  <2>1. SubSeq(rest, 1, Len(rest)) = rest
    BY <1>1, SubSeqFull
  <2> QED
    BY <2>1 DEF Rest
<1> QED
  BY <1>1, <1>2, <1>3, <1>4, <1>5, <1>6 DEF Forward

LEMMA EmptyDataReads ==
    ASSUME StreamInv, NEW f \in 1 .. MaxFrame, NEW p \in 0 .. End(f), Reading(f, p), EmptyData
    PROVE  p = 4 /\ Forward(f, 4, End(f) - 2)
<1>1. /\ rest \in Seq(Unit) /\ pc = "parse" /\ readState = "data" /\ result = "ok"
      /\ kept = <<>> /\ length = 0 /\ End(f) \in Nat /\ End(f) >= 8 /\ p = 4
      /\ HasParam(f) /\ data = <<>> /\ Lies(rest, f, 4)
      /\ UNCHANGED <<sent, wire, pc, cstate, turn, history, param, length, room, data>>
  BY FrameAssumption DEF StreamInv, Types, EmptyData, Turn, Reading, End
<1>2. Size[f] = 0 /\ End(f) - 2 = 6 /\ 6 - 4 = 2
  BY <1>1 DEF HasParam, End
<1>3. IsData
  BY <1>1, AtData
<1>4. rest' = Rest(rest, 6 - 4) /\ result' = "ok" /\ kept' = <<>> /\ readState' = "end"
  BY <1>1, <1>2, <1>3 DEF EmptyData, Advance
<1>5. 4 \in 0 .. End(f) /\ 6 \in 4 .. End(f)
  BY <1>1
<1>6. 6 - 4 \in 0 .. Len(rest) /\ Lies(Rest(rest, 6 - 4), f, 6)
  BY <1>1, <1>5, LiesOn
<1>7. Units(f, 7, 6 + 0) = <<>>
  <2>1. 1 .. (6 + 0) - 7 + 1 = {}
    OBVIOUS
  <2> QED
    BY <2>1 DEF Units
<1>8. Message = Good(f)
  BY <1>1, <1>2, <1>7 DEF Message, Good, HasParam
<1>9. Message' = Good(f)
  BY <1>1, <1>8 DEF Message
<1>10. Reading(f, 6)'
  BY <1>1, <1>2, <1>4, <1>6, <1>9 DEF Reading
<1> QED
  BY <1>1, <1>2, <1>4, <1>6, <1>10 DEF Forward

LEMMA DataReads ==
    ASSUME StreamInv, NEW f \in 1 .. MaxFrame, NEW p \in 0 .. End(f), Reading(f, p), DataTurn
    PROVE  p = 4 /\ Forward(f, 4, End(f) - 2)
<1>1. /\ rest \in Seq(Unit) /\ pc = "parse" /\ readState = "data" /\ result = "ok"
      /\ kept = <<>> /\ length > 0 /\ End(f) \in Nat /\ End(f) >= 8 /\ p = 4
      /\ HasParam(f) /\ data = <<>> /\ Lies(rest, f, 4) /\ Len(rest) \in Nat
      /\ UNCHANGED <<sent, wire, pc, cstate, turn, history>>
  <2>1. /\ pc = "parse" /\ readState = "data" /\ result = "ok" /\ length > 0
        /\ UNCHANGED <<sent, wire, pc, cstate, turn, history>>
    BY DEF DataTurn, Turn
  <2>2. rest \in Seq(Unit) /\ Len(rest) \in Nat /\ End(f) \in Nat /\ End(f) >= 8
    BY FrameAssumption DEF StreamInv, Types, End
  <2>3. kept = <<>> /\ p = 4 /\ HasParam(f) /\ data = <<>> /\ Lies(rest, f, 4)
    BY <2>1 DEF Reading
  <2> QED
    BY <2>1, <2>2, <2>3
<1>2. IsData
  BY <1>1, AtData
<1>3. CopyData(Rest(rest, 2))
  BY <1>1, <1>2 DEF DataTurn
<1>4. length = Size[f] /\ End(f) = 8 + Size[f] /\ Size[f] \in Nat
  BY <1>1, FrameAssumption DEF HasParam, End
<1>5. 2 \in 0 .. Len(rest) /\ Len(Rest(rest, 2)) = Len(rest) - 2 /\ Len(rest) >= 4 + Size[f]
  <2>1. Len(rest) >= End(f) - 4
    BY <1>1 DEF Lies
  <2>2. 2 \in 0 .. Len(rest) /\ Len(rest) >= 4 + Size[f]
    BY <1>1, <1>4, <2>1
  <2> QED
    BY <1>1, <2>2, RestAt
<1>6. PICK s : s = Rest(rest, 2)
  OBVIOUS
<1>7. /\ s \in Seq(Unit) /\ Lies(s, f, 6)
  <2>1. 4 \in 0 .. End(f) /\ 6 \in 4 .. End(f) /\ 6 - 4 = 2
    BY <1>1
  <2>2. Lies(Rest(rest, 6 - 4), f, 6)
    BY <1>1, <2>1, LiesOn
  <2>3. Rest(rest, 2) \in Seq(Unit)
    BY <1>1, <1>5, RestAt
  <2> QED
    BY <1>6, <2>1, <2>2, <2>3
<1>8. ToCopy(s) = Size[f]
  <2>1. Len(data) = 0
    BY <1>1
  <2>2. Len(s) = Len(rest) - 2 /\ Len(s) > Size[f]
    BY <1>1, <1>4, <1>5, <1>6
  <2> QED
    BY <1>1, <1>4, <2>1, <2>2 DEF ToCopy
<1>9. SubSeq(s, 1, Size[f]) = Units(f, 7, 6 + Size[f])
  <2>1. 6 \in 0 .. End(f) /\ Size[f] \in 0 .. End(f) - 6 /\ 6 + 1 = 7
    BY <1>4
  <2>2. SubSeq(s, 1, Size[f]) = Units(f, 6 + 1, 6 + Size[f])
    BY <1>7, <2>1, LiesFront
  <2> QED
    BY <2>1, <2>2
<1>10. PICK d : d = SubSeq(s, 1, Size[f])
  OBVIOUS
<1>11. d \in Seq(Unit) /\ Len(d) = Size[f] /\ <<>> \o d = d
  <2>1. Size[f] <= Len(s)
    BY <1>4, <1>7 DEF Lies
  <2>2. d \in Seq(Unit) /\ Len(d) = Size[f]
    BY <1>4, <1>7, <1>10, <2>1
  <2> QED
    BY <2>2, ConcatEmptySeq
<1>12. /\ data' = d /\ rest' = Rest(s, Size[f]) /\ readState' = "end" /\ result' = "ok"
       /\ kept' = <<>> /\ param' = param /\ length' = length
  <2>1. data' = d /\ rest' = Rest(s, Size[f]) /\ UNCHANGED <<kept, param, length>>
    BY <1>1, <1>3, <1>6, <1>8, <1>10, <1>11 DEF CopyData
  <2>2. ~(Len(data') < length)
    BY <1>4, <1>11, <2>1
  <2>3. \/ Len(data') < length
        \/ readState' = "end" /\ UNCHANGED result
    BY <1>3 DEF CopyData
  <2> QED
    BY <1>1, <2>1, <2>2, <2>3
<1>13. Message' = Good(f)
  BY <1>1, <1>9, <1>10, <1>12 DEF Message, Good, HasParam
<1>14. Rest(s, Size[f]) = Rest(rest, (End(f) - 2) - 4)
  <2>1. PICK r, t : r = Rest(s, Size[f]) /\ t = Rest(rest, 2 + Size[f])
    OBVIOUS
  <2>2. Size[f] \in 0 .. Len(s) /\ 2 + Size[f] \in 0 .. Len(rest)
    BY <1>1, <1>4, <1>5, <1>6
  <2>3. /\ r \in Seq(Unit) /\ Len(r) = Len(s) - Size[f]
        /\ \A i \in 1 .. Len(s) - Size[f] : r[i] = s[Size[f] + i]
    BY <1>7, <2>1, <2>2, RestAt
  <2>4. /\ t \in Seq(Unit) /\ Len(t) = Len(rest) - (2 + Size[f])
        /\ \A i \in 1 .. Len(rest) - (2 + Size[f]) : t[i] = rest[(2 + Size[f]) + i]
    BY <1>1, <2>1, <2>2, RestAt
  <2>5. Len(s) = Len(rest) - 2 /\ \A i \in 1 .. Len(rest) - 2 : s[i] = rest[2 + i]
    BY <1>1, <1>5, <1>6, RestAt
  <2>6. Len(r) = Len(t)
    BY <1>1, <1>4, <2>3, <2>4, <2>5
  <2>7. ASSUME NEW i \in 1 .. Len(r) PROVE r[i] = t[i]
    <3>1. /\ i \in 1 .. Len(s) - Size[f] /\ Size[f] + i \in 1 .. Len(rest) - 2
          /\ i \in 1 .. Len(rest) - (2 + Size[f]) /\ 2 + (Size[f] + i) = (2 + Size[f]) + i
      <4>1. PICK m, z, l : m = Len(rest) /\ z = Size[f] /\ l = Len(s)
        OBVIOUS
      <4>2. m \in Nat /\ z \in Nat /\ l = m - 2 /\ m >= 4 + z /\ i \in 1 .. l - z
        BY <1>1, <1>4, <1>5, <2>3, <2>5, <4>1
      <4>3. /\ i \in 1 .. l - z /\ z + i \in 1 .. m - 2
            /\ i \in 1 .. m - (2 + z) /\ 2 + (z + i) = (2 + z) + i
        BY ONLY <4>2
      <4> QED
        BY ONLY <4>1, <4>3
    <3> QED
      BY <2>3, <2>4, <2>5, <3>1
  <2>8. r = t
    BY <2>3, <2>4, <2>6, <2>7, SeqEqual
  <2>9. (End(f) - 2) - 4 = 2 + Size[f]
    BY <1>4
  <2> QED
    BY <2>1, <2>8, <2>9
<1>15. /\ (End(f) - 2) - 4 \in 0 .. Len(rest)
       /\ Lies(Rest(rest, (End(f) - 2) - 4), f, End(f) - 2)
  <2>1. 4 \in 0 .. End(f) /\ End(f) - 2 \in 4 .. End(f)
    BY <1>1, <1>4
  <2> QED
    BY <1>1, <2>1, LiesOn
<1>16. Reading(f, End(f) - 2)'
  BY <1>1, <1>12, <1>13, <1>14, <1>15 DEF Reading
<1> QED
  BY <1>1, <1>12, <1>14, <1>15, <1>16 DEF Forward

LEMMA EndReads ==
    ASSUME StreamInv, NEW f \in 1 .. MaxFrame, NEW p \in 0 .. End(f), Reading(f, p), EndTurn
    PROVE  p = End(f) - 2 /\ Forward(f, End(f) - 2, End(f))
<1>1. /\ rest \in Seq(Unit) /\ pc = "parse" /\ readState = "end" /\ result = "ok"
      /\ kept = <<>> /\ End(f) \in Nat /\ End(f) >= 8 /\ p = End(f) - 2
      /\ Message = Good(f) /\ Lies(rest, f, End(f) - 2) /\ Len(rest) \in Nat
      /\ UNCHANGED <<sent, wire, pc, cstate, turn, history, param, length, room, data>>
  BY FrameAssumption DEF StreamInv, Types, EndTurn, Turn, Reading, End
<1>2. IsEnd
  <2>1. End(f) - (End(f) - 2) = 2 /\ (End(f) - 2) + 1 = End(f) - 1 /\ (End(f) - 2) + 2 = End(f)
    BY <1>1
  <2>2. Len(rest) >= 2 /\ \A i \in 1 .. 2 : rest[i] = <<f, (End(f) - 2) + i>>
    BY <1>1, <2>1 DEF Lies
  <2>3. rest[1] = <<f, End(f) - 1>> /\ rest[2] = <<f, End(f)>>
    BY <2>1, <2>2
  <2>4. Kind(rest[1]) = "E1" /\ Kind(rest[2]) = "E2"
    BY <2>3, Kinds
  <2> QED
    BY <1>1, <2>2, <2>4 DEF IsEnd, TokenAt
<1>3. readState' = "finish" /\ rest' = <<>> /\ kept' = Rest(rest, 2) /\ result' = "ok"
  BY <1>1, <1>2 DEF EndTurn
<1>4. End(f) - (End(f) - 2) = 2 /\ 2 \in 0 .. Len(rest)
  <2>1. End(f) - (End(f) - 2) = 2
    BY <1>1
  <2>2. Len(rest) >= 2
    BY <1>1, <2>1 DEF Lies
  <2> QED
    BY <1>1, <2>1, <2>2
<1>5. Lies(<<>>, f, End(f))
  BY <1>1 DEF Lies
<1>6. Message' = Good(f)
  BY <1>1 DEF Message
<1>7. Reading(f, End(f))'
  BY <1>1, <1>3, <1>5, <1>6 DEF Reading
<1> QED
  BY <1>1, <1>3, <1>4, <1>7 DEF Forward

(* A frame that lies before the parser is read to its end.                 *)
LEMMA ReadingGoesOn ==
    ASSUME StreamInv, NEW f \in 1 .. MaxFrame, NEW p \in 0 .. End(f), Reading(f, p), Parse
    PROVE  \E q \in p .. End(f) : Forward(f, p, q)
<1>1. End(f) \in Nat /\ End(f) >= 8
  BY FrameAssumption DEF End
<1>2. CASE WaitTurn
  <2>1. p = 0 /\ 2 \in p .. End(f)
    BY <1>1, <1>2 DEF WaitTurn, Turn, Reading
  <2> QED
    BY <1>2, <2>1, WaitReads
<1>3. CASE DataFollows
  <2>1. p = 4 /\ Forward(f, 4, 4) /\ 4 \in 4 .. End(f)
    BY <1>1, <1>3, DataFollowsReads
  <2> QED
    BY <2>1
<1>4. CASE ParamTurn
  <2>1. p = 2 /\ Forward(f, 2, 4) /\ 4 \in 2 .. End(f)
    BY <1>1, <1>4, ParamReads
  <2> QED
    BY <2>1
<1>5. CASE ParamRefused \/ ParamCut
  <2>1. readState = "param" /\ ~IsData
    BY <1>5 DEF ParamRefused, ParamCut, Turn
  <2>2. p = 2
    <3>1. p = 4 => FALSE
      BY <2>1, AtData
    <3> QED
      BY <2>1, <3>1 DEF Reading
  <2>3. /\ ParamEnds(1, 2) /\ 1 \in 1 .. Len(rest) /\ 2 \in 1 .. Len(rest)
        /\ TokenAt(rest, 1, "P1", "P2") /\ rest[1] = <<f, 3>> /\ rest[2] = <<f, 4>>
    BY <2>1, <2>2, AtParam
  <2>4. AsSent
    BY <2>3 DEF AsSent
  <2> QED
    BY <1>5, <2>3, <2>4 DEF ParamRefused, ParamCut, NoParam
<1>6. CASE EmptyData
  <2>1. p = 4 /\ Forward(f, 4, End(f) - 2) /\ End(f) - 2 \in 4 .. End(f)
    BY <1>1, <1>6, EmptyDataReads
  <2> QED
    BY <2>1
<1>7. CASE DataTurn
  <2>1. p = 4 /\ Forward(f, 4, End(f) - 2) /\ End(f) - 2 \in 4 .. End(f)
    BY <1>1, <1>7, DataReads
  <2> QED
    BY <2>1
<1>8. CASE EndTurn
  <2>1. /\ p = End(f) - 2 /\ Forward(f, End(f) - 2, End(f))
        /\ End(f) \in End(f) - 2 .. End(f)
    BY <1>1, <1>8, EndReads
  <2> QED
    BY <2>1
<1>9. CASE ParseMore
  BY <1>9 DEF ParseMore, Reading
<1> QED
  BY <1>2, <1>3, <1>4, <1>5, <1>6, <1>7, <1>8, <1>9 DEF Parse
-----------------------------------------------------------------------------
(* A frame that lies whole before a parser waiting for one.                *)
LEMMA ReadingStays ==
    ASSUME UNCHANGED <<pc, result, rest, kept, message>>, NEW f, NEW p, Reading(f, p)
    PROVE  Reading(f, p)'
BY DEF Reading, HasParam, Message, message

LEMMA PrefixLies ==
    ASSUME NEW s \in Seq(Unit), NEW f \in 1 .. MaxFrame, IsPrefix(Frame(f), s)
    PROVE  Lies(s, f, 0)
<1>1. PICK a, n : a = Frame(f) /\ n = End(f)
  OBVIOUS
<1>2. /\ a \in Seq(Unit) /\ Len(a) = n /\ n \in Nat
      /\ \A i \in 1 .. n : a[i] = <<f, i>>
  BY <1>1, FrameUnits
<1>3. n <= Len(s) /\ SubSeq(s, 1, n) = a
  <2>1. Len(a) <= Len(s) /\ SubSeq(a, 1, Len(a)) = SubSeq(s, 1, Len(a))
    BY <1>1 DEF IsPrefix
  <2>2. SubSeq(a, 1, Len(a)) = a
    BY <1>2, SubSeqFull
  <2> QED
    BY <1>2, <2>1, <2>2
<1>4. \A i \in 1 .. n : s[i] = a[i]
  <2>1. PICK b : b = SubSeq(s, 1, n)
    OBVIOUS
  <2>2. \A i \in 1 .. n : b[i] = s[i]
    BY <1>2, <1>3, <2>1
  <2> QED
    BY <1>3, <2>1, <2>2
<1>5. n - 0 = n /\ Len(s) >= n /\ \A i \in 1 .. n : s[i] = <<f, 0 + i>>
  BY <1>2, <1>3, <1>4
<1> QED
  BY <1>1, <1>5 DEF Lies

LEMMA AloneFrom ==
    ASSUME NEW f \in 1 .. MaxFrame, NEW p \in 0 .. End(f), lone' = f, Reading(f, p)'
    PROVE  Alone'
BY DEF Alone, Reading, HasParam, Message

LEMMA InitAlone == Init => Alone
BY DEF Init, Alone

LEMMA AloneKeeps ==
    ASSUME StreamInv, Alone, [Next]_vars
    PROVE  Alone'
<1>1. CASE Send \/ UNCHANGED vars
  <2>1. /\ UNCHANGED <<pc, result, rest, kept, message>> /\ lone' = lone
    BY <1>1 DEF Send, vars, history
  <2> QED
    BY <2>1, ReadingStays DEF Alone
<1>2. CASE \E n \in 1 .. Len(wire) : Read(n)
  <2>1. PICK n \in 1 .. Len(wire) : Read(n)
    BY <1>2
  <2>2. PICK s : s = Joined(SubSeq(wire, 1, n))
    OBVIOUS
  <2>3. s \in Seq(Unit) /\ s[1] \in Unit
    <3>1. wire \in Seq(Unit) /\ kept \in Seq(Unit) /\ Len(wire) \in Nat
      BY DEF StreamInv, Types
    <3>2. PICK b : b = SubSeq(wire, 1, n)
      OBVIOUS
    <3>3. b \in Seq(Unit) /\ Len(b) = n
      BY <3>1, <3>2, FrontIs
    <3>4. s \in Seq(Unit) /\ Len(s) = Len(kept) + n
      BY <2>2, <3>1, <3>2, <3>3, ConcatProperties DEF Joined
    <3> QED
      BY <3>1, <3>4
  <2>4. \/ pc' # "parse"
        \/ lone' = 0
        \/ /\ pc' = "parse" /\ rest' = s /\ result' = "ok" /\ kept' = <<>>
           /\ readState = "wait" /\ lone' = s[1][1] /\ lone' # 0
           /\ IsPrefix(Frame(lone'), s)
    BY <2>1, <2>2 DEF Read
  <2>5. readState' = readState
    BY <2>1 DEF Read, message
  <2>6. s[1][1] \in 0 .. MaxFrame
    BY <2>3 DEF Unit
  <2>7. ASSUME lone' # 0, pc' = "parse"
        PROVE  Alone'
    <3>1. PICK f : f = lone'
      OBVIOUS
    <3>2. f \in 1 .. MaxFrame
      BY <2>4, <2>6, <2>7, <3>1, FrameAssumption
    <3>3. Lies(s, f, 0)
      BY <2>3, <2>4, <2>7, <3>1, <3>2, PrefixLies
    <3>4. Reading(f, 0)'
      BY <2>4, <2>5, <2>7, <3>3 DEF Reading
    <3>5. 0 \in 0 .. End(f)
      BY <3>2, FrameUnits
    <3> QED
      BY <3>1, <3>2, <3>4, <3>5, AloneFrom
  <2>8. ~(lone' # 0 /\ pc' = "parse") => Alone'
    BY DEF Alone
  <2> QED
    BY <2>7, <2>8
<1>3. CASE Parse
  <2>1. lone' = lone /\ (pc' = "parse" => pc = "parse")
    BY <1>3 DEF Parse, WaitTurn, DataFollows, ParamTurn, ParamRefused, ParamCut, EmptyData,
                DataTurn, EndTurn, ParseMore, Turn, history
  <2>2. ASSUME lone # 0, pc = "parse"
        PROVE  Alone'
    <3>1. PICK f : f = lone
      OBVIOUS
    <3>2. f \in 1 .. MaxFrame
      BY <2>2, <3>1 DEF Alone
    <3>3. PICK p \in 0 .. End(f) : Reading(f, p)
      BY <2>2, <3>1 DEF Alone
    <3>4. PICK q \in p .. End(f) : Forward(f, p, q)
      BY <1>3, <3>2, <3>3, ReadingGoesOn
    <3>5. q \in 0 .. End(f) /\ Reading(f, q)'
      BY <3>2, <3>4, FrameUnits DEF Forward
    <3> QED
      BY <2>1, <3>1, <3>2, <3>5, AloneFrom
  <2>3. ~(lone' # 0 /\ pc' = "parse") => Alone'
    BY DEF Alone
  <2> QED
    BY <2>1, <2>2, <2>3
<1>4. CASE Return \/ Answer
  <2>1. pc' # "parse"
    BY <1>4 DEF Return, Answer
  <2> QED
    BY <2>1 DEF Alone
<1> QED
  BY <1>1, <1>2, <1>3, <1>4 DEF Next

(* A frame that is read whole by a parser waiting for one comes out as it  *)
(* was sent, whatever was cut or given up before: nothing that is left of  *)
(* the message before gets into it.                                        *)
THEOREM ReadsAnew == Spec => []Resync
<1>1. Init => StreamInv /\ Alone
  BY InitInv, InitAlone
<1>2. StreamInv /\ Alone /\ [Next]_vars => StreamInv' /\ Alone'
  BY NextKeeps, AloneKeeps
<1>3. Alone => Resync
  BY DEF Alone, Resync, Reading
<1> QED
  BY <1>1, <1>2, <1>3, PTL DEF Spec
-----------------------------------------------------------------------------
(* Induction, on a set: it rests on the least element of a set of numbers. *)
LEMMA Least == ASSUME NEW T, T \subseteq Nat, T # {} PROVE \E x \in T : \A y \in T : x <= y
<1> DEFINE R == {ss \in Nat \X Nat : ss[1] < ss[2]}
<1>1. IsWellFoundedOn(R, Nat)
  BY NatLessThanWellFounded DEF OpToRel
<1>2. \A x, y \in Nat : <<x, y>> \in R <=> x < y
  OBVIOUS
<1> HIDE DEF R
<1>3. PICK x \in T : \A y \in T : ~ (<<y, x>> \in R)
  BY <1>1, WFMin
<1>4. \A y \in T : x <= y
  <2> TAKE y \in T
  <2>1. x \in Nat /\ y \in Nat /\ ~ (y < x)
    BY <1>2, <1>3
  <2> QED
    BY <2>1
<1> QED
  BY <1>4

LEMMA Climb ==
    ASSUME NEW n \in Nat, NEW T, 0 \in T, \A i \in 0 .. n - 1 : i \in T => i + 1 \in T
    PROVE  \A i \in 0 .. n : i \in T
<1> SUFFICES ASSUME NEW k \in 0 .. n, k \notin T PROVE FALSE
  OBVIOUS
<1> DEFINE B == {i \in 0 .. n : i \notin T}
<1>1. PICK x \in B : \A y \in B : x <= y
  <2>1. B \subseteq Nat /\ B # {}
    OBVIOUS
  <2> HIDE DEF B
  <2> QED
    BY <2>1, Least
<1>2. x # 0 /\ x - 1 \in 0 .. n - 1 /\ (x - 1) + 1 = x
  OBVIOUS
<1>3. x - 1 \in T
  BY <1>1, <1>2
<1> QED
  BY <1>2, <1>3

-----------------------------------------------------------------------------
(* What is left of the stream behind its first n units.                    *)
LEMMA TapeRest ==
    ASSUME NEW x \in Seq(Unit), NEW v, NEW m \in Nat, Tape(x, v, m), NEW n \in 1 .. Len(x)
    PROVE  Tape(Rest(x, n), Follows(x[n]), m)
<1>1. PICK r : r = Rest(x, n)
  OBVIOUS
<1>2. /\ r \in Seq(Unit) /\ Len(r) = Len(x) - n /\ Len(x) \in Nat /\ n \in 1 .. Len(x)
      /\ \A i \in 1 .. Len(x) - n : r[i] = x[n + i]
  <2>1. Len(x) \in Nat /\ n \in 0 .. Len(x)
    OBVIOUS
  <2> QED
    BY <1>1, <2>1, RestAt
<1>3. /\ \A i \in 1 .. Len(x) : x[i][1] \in 1 .. m /\ x[i][2] \in 1 .. End(x[i][1])
      /\ \A i \in 1 .. Len(x) - 1 : x[i + 1] = Follows(x[i])
      /\ Follows(x[Len(x)]) = <<m + 1, 1>>
  BY <1>2 DEF Tape
<1>4. ASSUME NEW i \in 1 .. Len(r)
      PROVE  r[i][1] \in 1 .. m /\ r[i][2] \in 1 .. End(r[i][1])
  <2>1. n + i \in 1 .. Len(x) /\ r[i] = x[n + i]
    BY <1>2
  <2> QED
    BY <1>3, <2>1
<1>5. ASSUME NEW i \in 1 .. Len(r) - 1
      PROVE  r[i + 1] = Follows(r[i])
  <2>1. n + i \in 1 .. Len(x) - 1 /\ i \in 1 .. Len(x) - n /\ i + 1 \in 1 .. Len(x) - n
        /\ n + (i + 1) = (n + i) + 1
    BY <1>2
  <2>2. r[i] = x[n + i]
    BY <1>2, <2>1
  <2>3. r[i + 1] = x[n + (i + 1)]
    BY <1>2, <2>1
  <2>4. x[(n + i) + 1] = Follows(x[n + i])
    BY <1>3, <2>1
  <2> QED
    BY <2>1, <2>2, <2>3, <2>4
<1>6. r = <<>> => Follows(x[n]) = <<m + 1, 1>>
  <2> HAVE r = <<>>
  <2>1. Len(r) = 0
    OBVIOUS
  <2>2. n = Len(x)
    BY <1>2, <2>1
  <2> QED
    BY <1>3, <2>2
<1>7. r # <<>> => r[1] = Follows(x[n]) /\ Follows(r[Len(r)]) = <<m + 1, 1>>
  <2> HAVE r # <<>>
  <2>1. 1 \in 1 .. Len(x) - n /\ Len(r) \in 1 .. Len(x) - n /\ n \in 1 .. Len(x) - 1
        /\ n + Len(r) = Len(x)
    BY <1>2
  <2>2. r[1] = x[n + 1] /\ r[Len(r)] = x[Len(x)]
    BY <1>2, <2>1
  <2> QED
    BY <1>3, <2>1, <2>2
<1>8. Tape(r, Follows(x[n]), m)
  BY <1>4, <1>5, <1>6, <1>7 DEF Tape
<1> QED
  BY <1>1, <1>8

(* The stream begins with the units of its next frame, as far as it goes.  *)
LEMMA TapeFrame ==
    ASSUME NEW x \in Seq(Unit), NEW f \in 1 .. MaxFrame, NEW m \in Nat,
           Tape(x, <<f, 1>>, m), x # <<>>
    PROVE  \A i \in 1 .. End(f) : i <= Len(x) => x[i] = <<f, i>>
<1> DEFINE n == End(f) - 1
           T == {i \in 0 .. n : i + 1 <= Len(x) => x[i + 1] = <<f, i + 1>>}
<1>1. n \in Nat /\ Len(x) \in Nat /\ x[1] = <<f, 1>> /\ End(f) \in Nat
  BY FrameUnits DEF Tape
<1>2. 0 \in T
  BY <1>1
<1>3. ASSUME NEW i \in 0 .. n - 1, i \in T PROVE i + 1 \in T
  <2>1. i + 1 \in 0 .. n
    BY <1>1
  <2>2. ASSUME (i + 1) + 1 <= Len(x)
        PROVE  x[(i + 1) + 1] = <<f, (i + 1) + 1>>
    <3>1. i + 1 \in 1 .. Len(x) - 1 /\ i + 1 <= Len(x) /\ i + 1 # End(f)
      BY <1>1, <2>2
    <3>2. x[i + 1] = <<f, i + 1>>
      BY <1>3, <3>1
    <3>3. x[(i + 1) + 1] = Follows(x[i + 1])
      BY <3>1 DEF Tape
    <3> QED
      BY <3>1, <3>2, <3>3 DEF Follows
  <2> QED
    BY <2>1, <2>2
<1> HIDE DEF T
<1>4. \A i \in 0 .. n : i \in T
  BY <1>1, <1>2, <1>3, Climb
<1>5. ASSUME NEW i \in 1 .. End(f), i <= Len(x)
      PROVE  x[i] = <<f, i>>
  <2>1. i - 1 \in 0 .. n /\ (i - 1) + 1 = i
    BY <1>1
  <2>2. i - 1 \in T
    BY <1>4, <2>1
  <2> QED
    BY <1>5, <2>1, <2>2 DEF T
<1> QED
  BY <1>5

(* If no frame is begun and not ended, the next one lies whole.            *)
LEMMA TapeLies ==
    ASSUME NEW s \in Seq(Unit), NEW w \in Seq(Unit), NEW f \in 1 .. MaxFrame, NEW m \in Nat,
           Tape(s \o w, <<f, 1>>, m), s # <<>>, Whole(s)
    PROVE  Lies(s, f, 0)
<1>1. PICK x : x = s \o w
  OBVIOUS
<1>2. /\ x \in Seq(Unit) /\ Len(x) = Len(s) + Len(w) /\ Len(s) \in Nat /\ Len(w) \in Nat
      /\ \A i \in 1 .. Len(s) : x[i] = s[i]
  BY <1>1, ConcatProperties
<1>3. Len(s) > 0 /\ x # <<>>
  BY <1>2
<1>4. \A i \in 1 .. End(f) : i <= Len(x) => x[i] = <<f, i>>
  BY <1>1, <1>2, <1>3, TapeFrame
<1>5. End(f) \in Nat
  BY FrameUnits
<1>6. Len(s) >= End(f)
  <2> SUFFICES ASSUME Len(s) < End(f) PROVE FALSE
    BY <1>2, <1>5
  <2>1. Len(s) \in 1 .. End(f) /\ s[Len(s)] = <<f, Len(s)>>
    BY <1>2, <1>3, <1>4, <1>5
  <2>2. Kind(<<f, Len(s)>>) = "E2"
    BY <2>1 DEF Whole
  <2> QED
    <3>1. \A k \in 1 .. End(f) : Kind(<<f, k>>) = "E2" => k = End(f)
      BY Kinds
    <3>2. Len(s) = End(f)
      BY ONLY <2>1, <2>2, <3>1
    <3> QED
      BY <1>2, <1>5, <3>2
<1>7. \A i \in 1 .. End(f) : s[i] = <<f, 0 + i>>
  BY <1>2, <1>4, <1>5, <1>6
<1>8. End(f) - 0 = End(f)
  BY <1>5
<1> QED
  BY <1>6, <1>7, <1>8 DEF Lies

(* A further frame is written behind it.                                   *)
LEMMA TapeSend ==
    ASSUME NEW x \in Seq(Unit), NEW v, NEW m \in Nat, m + 1 \in 1 .. MaxFrame, Tape(x, v, m)
    PROVE  Tape(x \o Frame(m + 1), v, m + 1)
<1>1. PICK a : a = Frame(m + 1)
  OBVIOUS
<1>2. PICK e : e = End(m + 1)
  OBVIOUS
<1>3. /\ a \in Seq(Unit) /\ Len(a) = e /\ e \in Nat /\ e >= 8
      /\ \A i \in 1 .. e : a[i] = <<m + 1, i>>
  BY <1>1, <1>2, FrameUnits
<1>4. PICK y : y = x \o a
  OBVIOUS
<1>5. PICK k : k = Len(x)
  OBVIOUS
<1>6. /\ y \in Seq(Unit) /\ Len(y) = k + e /\ k \in Nat
      /\ \A i \in 1 .. k : y[i] = x[i]
      /\ \A i \in 1 .. e : y[k + i] = <<m + 1, i>>
  <2>1. /\ y \in Seq(Unit) /\ Len(y) = k + e /\ k \in Nat
        /\ \A i \in 1 .. k + e : y[i] = IF i <= k THEN x[i] ELSE a[i - k]
    <3>1. /\ x \o a \in Seq(Unit) /\ Len(x \o a) = Len(x) + Len(a)
          /\ \A i \in 1 .. Len(x) + Len(a) :
                (x \o a)[i] = IF i <= Len(x) THEN x[i] ELSE a[i - Len(x)]
      BY <1>3, ConcatProperties
    <3>2. Len(x) \in Nat
      OBVIOUS
    <3> QED
      BY ONLY <1>3, <1>4, <1>5, <3>1, <3>2
  <2>2. \A i \in 1 .. k : y[i] = x[i]
    BY <1>3, <2>1
  <2>3. ASSUME NEW i \in 1 .. e PROVE y[k + i] = <<m + 1, i>>
    <3>1. k + i \in 1 .. k + e /\ ~(k + i <= k) /\ (k + i) - k = i
      BY <1>3, <2>1
    <3> QED
      BY <1>3, <2>1, <3>1
  <2> QED
    BY <2>1, <2>2, <2>3
<1>7. /\ \A i \in 1 .. k : x[i][1] \in 1 .. m /\ x[i][2] \in 1 .. End(x[i][1])
      /\ \A i \in 1 .. k - 1 : x[i + 1] = Follows(x[i])
      /\ k = 0 => v = <<m + 1, 1>>
      /\ k > 0 => x[1] = v /\ Follows(x[k]) = <<m + 1, 1>>
  <2>1. x = <<>> <=> k = 0
    BY <1>5
  <2> QED
    BY <1>5, <1>6, <2>1 DEF Tape
<1>8. ASSUME NEW i \in 1 .. k + e
      PROVE  y[i][1] \in 1 .. m + 1 /\ y[i][2] \in 1 .. End(y[i][1])
  <2>1. CASE i <= k
    BY <1>6, <1>7, <2>1
  <2>2. CASE i > k
    <3>1. i - k \in 1 .. e /\ k + (i - k) = i
      BY <1>3, <1>6, <2>2
    <3>2. y[i] = <<m + 1, i - k>>
      BY <1>6, <3>1
    <3> QED
      BY <1>2, <3>1, <3>2
  <2> QED
    BY <1>3, <1>6, <2>1, <2>2
<1>9. ASSUME NEW i \in 1 .. (k + e) - 1
      PROVE  y[i + 1] = Follows(y[i])
  <2>1. CASE i < k
    BY <1>6, <1>7, <2>1
  <2>2. CASE i = k
    <3>1. 1 \in 1 .. e /\ i \in 1 .. k /\ k > 0
      BY <1>3, <1>6, <2>2
    <3>2. y[k + 1] = <<m + 1, 1>> /\ y[k] = x[k]
      BY <1>6, <2>2, <3>1
    <3> QED
      BY <1>7, <2>2, <3>1, <3>2
  <2>3. CASE i > k
    <3>1. /\ i - k \in 1 .. e /\ k + (i - k) = i /\ (i - k) # e
          /\ (i - k) + 1 \in 1 .. e /\ k + ((i - k) + 1) = i + 1
      BY <1>3, <1>6, <2>3
    <3>2. y[i] = <<m + 1, i - k>> /\ y[i + 1] = <<m + 1, (i - k) + 1>>
      BY <1>6, <3>1
    <3> QED
      BY <1>2, <3>1, <3>2 DEF Follows
  <2> QED
    BY <1>3, <1>6, <2>1, <2>2, <2>3
<1>10. y # <<>> /\ y[1] = v
  <2>1. CASE k = 0
    <3>1. 1 \in 1 .. e /\ k + 1 = 1
      BY <1>3, <2>1
    <3>2. y[1] = <<m + 1, 1>> /\ Len(y) > 0
      BY <1>3, <1>6, <2>1, <3>1
    <3> QED
      BY <1>7, <2>1, <3>2
  <2>2. CASE k > 0
    BY <1>3, <1>6, <1>7, <2>2
  <2> QED
    BY <1>6, <2>1, <2>2
<1>11. Follows(y[Len(y)]) = <<(m + 1) + 1, 1>>
  <2>1. e \in 1 .. e
    BY <1>3
  <2>2. y[k + e] = <<m + 1, e>>
    BY <1>6, <2>1
  <2> QED
    BY <1>2, <1>6, <2>2 DEF Follows
<1>12. Tape(y, v, m + 1)
  BY <1>6, <1>8, <1>9, <1>10, <1>11 DEF Tape
<1> QED
  BY <1>1, <1>4, <1>12

LEMMA UnitIs ==
    ASSUME NEW u \in Unit
    PROVE  u = <<u[1], u[2]>> /\ u[1] \in 0 .. MaxFrame /\ u[2] \in Nat
BY DEF Unit

(* What is read up to the end of a frame, behind what was kept up to the   *)
(* end of another, begins with a flag.                                     *)
LEMMA TapeFlag ==
    ASSUME NEW k \in Seq(Unit), NEW w \in Seq(Unit), NEW z \in Seq(Unit),
           NEW f \in 1 .. MaxFrame, NEW m \in 0 .. MaxFrame, Tape(k \o w, <<f, 1>>, m), Whole(k),
           NEW n \in 1 .. Len(w), Kind(w[n]) = "E2"
    PROVE  HasFlag(SubSeq(w, 1, n) \o z)
<1>1. PICK x, j : x = k \o w /\ j = Len(k)
  OBVIOUS
<1>2. /\ x \in Seq(Unit) /\ Len(x) = j + Len(w) /\ j \in Nat /\ Len(w) \in Nat
      /\ \A i \in 1 .. j : x[i] = k[i]
      /\ \A i \in 1 .. Len(w) : x[j + i] = w[i]
  <2>1. /\ x \in Seq(Unit) /\ Len(x) = j + Len(w) /\ j \in Nat /\ Len(w) \in Nat
        /\ \A i \in 1 .. j + Len(w) : x[i] = IF i <= j THEN k[i] ELSE w[i - j]
    BY <1>1, ConcatProperties
  <2>2. \A i \in 1 .. j : x[i] = k[i]
    BY <2>1
  <2>3. ASSUME NEW i \in 1 .. Len(w) PROVE x[j + i] = w[i]
    <3>1. j + i \in 1 .. j + Len(w) /\ ~(j + i <= j) /\ (j + i) - j = i
      BY <2>1
    <3> QED
      BY <2>1, <3>1
  <2> QED
    BY <2>1, <2>2, <2>3
<1>3. /\ \A i \in 1 .. Len(x) : x[i][1] \in 1 .. m /\ x[i][2] \in 1 .. End(x[i][1])
      /\ \A i \in 1 .. Len(x) - 1 : x[i + 1] = Follows(x[i])
      /\ x # <<>> => x[1] = <<f, 1>>
  BY <1>1, <1>2 DEF Tape
<1>4. \E g \in 1 .. MaxFrame : w[1] = <<g, 1>>
  <2>1. CASE j = 0
    <3>1. x # <<>> /\ 1 \in 1 .. Len(w) /\ j + 1 = 1
      BY <1>2, <2>1
    <3>2. x[j + 1] = w[1]
      BY <1>2, <3>1
    <3> QED
      BY <1>3, <3>1, <3>2
  <2>2. CASE j > 0
    <3>1. j \in 1 .. Len(x) /\ j \in 1 .. Len(x) - 1 /\ j + 1 \in 1 .. Len(x) /\ 1 \in 1 .. Len(w)
      BY <1>2, <2>2
    <3>2. w[1] = Follows(x[j]) /\ w[1] = x[j + 1]
      BY <1>2, <1>3, <3>1
    <3>3. x[j] \in Unit /\ x[j] = k[j] /\ j \in 1 .. j
      BY <1>2, <2>2, <3>1
    <3>4. PICK g, i : g = x[j][1] /\ i = x[j][2]
      OBVIOUS
    <3>41. x[j] = <<g, i>>
      BY <3>3, <3>4, UnitIs
    <3>5. g \in 1 .. m /\ i \in 1 .. End(g)
      BY <1>3, <3>1, <3>4
    <3>60. m \in Nat /\ m <= MaxFrame /\ MaxFrame \in Nat
      BY FrameAssumption
    <3>6. g \in 1 .. MaxFrame
      BY <3>5, <3>60
    <3>7. Kind(<<g, i>>) = "E2"
      <4>1. k # <<>>
        BY <1>1, <2>2
      <4> QED
        BY <1>1, <3>3, <3>41, <4>1 DEF Whole
    <3>8. i = End(g)
      BY <3>5, <3>6, <3>7, Kinds
    <3>9. w[1] = <<g + 1, 1>>
      BY <3>2, <3>41, <3>8 DEF Follows
    <3>10. x[j + 1][1] \in 1 .. m
      BY <1>3, <3>1
    <3>11. g + 1 \in 1 .. MaxFrame
      <4>1. (<<g + 1, 1>>)[1] = g + 1
        OBVIOUS
      <4>2. g + 1 \in 1 .. m
        BY <3>2, <3>9, <3>10, <4>1
      <4> QED
        BY <3>60, <4>2
    <3> QED
      BY <3>9, <3>11
  <2> QED
    BY <1>2, <2>1, <2>2
<1>5. PICK g \in 1 .. MaxFrame : w[1] = <<g, 1>>
  BY <1>4
<1>6. n > 1
  <2>1. Kind(w[1]) = "S1"
    BY <1>5, Kinds
  <2> QED
    BY <1>2, <2>1
<1>7. w[2] = <<g, 2>>
  <2>1. /\ j + 1 \in 1 .. Len(x) - 1 /\ (j + 1) + 1 = j + 2
        /\ 1 \in 1 .. Len(w) /\ 2 \in 1 .. Len(w)
    BY <1>2, <1>6
  <2>2. x[j + 1] = <<g, 1>> /\ x[j + 2] = w[2]
    BY <1>2, <1>5, <2>1
  <2>3. x[(j + 1) + 1] = Follows(x[j + 1])
    BY <1>3, <2>1
  <2>4. 1 # End(g)
    BY FrameUnits
  <2> QED
    BY <2>1, <2>2, <2>3, <2>4 DEF Follows
<1>8. PICK b : b = SubSeq(w, 1, n)
  OBVIOUS
<1>9. b \in Seq(Unit) /\ Len(b) = n /\ b[1] = w[1] /\ b[2] = w[2]
  <2>1. b \in Seq(Unit) /\ Len(b) = n /\ \A i \in 1 .. n : b[i] = w[i]
    BY <1>2, <1>8
  <2>2. 1 \in 1 .. n /\ 2 \in 1 .. n
    BY <1>2, <1>6
  <2> QED
    BY <2>1, <2>2
<1>10. PICK c : c = b \o z
  OBVIOUS
<1>11. Len(c) \in Nat /\ Len(c) >= 2 /\ c[1] = <<g, 1>> /\ c[2] = <<g, 2>>
  <2>1. /\ b \o z \in Seq(Unit) /\ Len(b \o z) = Len(b) + Len(z)
        /\ \A i \in 1 .. Len(b) + Len(z) :
              (b \o z)[i] = IF i <= Len(b) THEN b[i] ELSE z[i - Len(b)]
    BY <1>9, ConcatProperties
  <2>2. /\ 1 \in 1 .. Len(b) + Len(z) /\ 2 \in 1 .. Len(b) + Len(z)
        /\ 1 <= Len(b) /\ 2 <= Len(b) /\ Len(z) \in Nat /\ Len(b) \in Nat
    BY <1>2, <1>6, <1>9
  <2>3. c[1] = b[1] /\ c[2] = b[2] /\ Len(c) = Len(b) + Len(z)
    BY ONLY <1>10, <2>1, <2>2
  <2> QED
    BY <1>5, <1>7, <1>9, <2>2, <2>3
<1>12. Kind(c[1]) = "S1" /\ Kind(c[2]) = "S2"
  BY <1>11, Kinds
<1>13. TokenAt(c, 1, "S1", "S2") /\ 1 \in 1 .. Len(c)
  <2>1. 1 + 1 = 2
    OBVIOUS
  <2>2. 1 + 1 <= Len(c) /\ Kind(c[1]) = "S1" /\ Kind(c[1 + 1]) = "S2"
    BY <1>11, <1>12, <2>1
  <2> QED
    BY <1>11, <2>2 DEF TokenAt
<1>14. HasFlag(c)
  BY <1>13 DEF HasFlag
<1> QED
  BY <1>8, <1>10, <1>14

(* There is one stream from a unit on.                                     *)
LEMMA TapeOnce ==
    ASSUME NEW x \in Seq(Unit), NEW y \in Seq(Unit), NEW v, NEW m \in Nat,
           Tape(x, v, m), Tape(y, v, m)
    PROVE  x = y
<1>1. Len(x) \in Nat /\ Len(y) \in Nat
  OBVIOUS
<1>2. ASSUME NEW a \in Seq(Unit), NEW b \in Seq(Unit), Tape(a, v, m), Tape(b, v, m),
             Len(a) <= Len(b)
      PROVE  a = b
  <2> DEFINE n == Len(a)
             T == {i \in 0 .. n : i > 0 => a[i] = b[i]}
  <2>1. n \in Nat /\ Len(b) \in Nat
    OBVIOUS
  <2>2. 0 \in T
    BY <2>1
  <2>3. ASSUME NEW i \in 0 .. n - 1, i \in T PROVE i + 1 \in T
    <3>1. CASE i = 0
      <4>1. a # <<>> /\ b # <<>> /\ 1 \in 0 .. n
        BY <1>2, <2>1, <3>1
      <4>2. a[1] = v /\ b[1] = v
        BY <1>2, <4>1 DEF Tape
      <4> QED
        BY <3>1, <4>1, <4>2
    <3>2. CASE i > 0
      <4>1. i \in 1 .. n - 1 /\ i \in 1 .. Len(b) - 1 /\ i + 1 \in 0 .. n
        BY <1>2, <2>1, <3>2
      <4>2. a[i + 1] = Follows(a[i]) /\ b[i + 1] = Follows(b[i]) /\ a[i] = b[i]
        BY <1>2, <2>3, <4>1, <3>2 DEF Tape
      <4> QED
        BY <4>1, <4>2
    <3> QED
      BY <2>1, <3>1, <3>2
  <2> HIDE DEF T
  <2>4. \A i \in 0 .. n : i \in T
    BY <2>1, <2>2, <2>3, Climb
  <2>5. \A i \in 1 .. n : a[i] = b[i]
    BY <2>1, <2>4 DEF T
  <2>6. n = Len(b)
    <3> SUFFICES ASSUME n < Len(b) PROVE FALSE
      BY <1>2, <2>1
    <3>1. b # <<>> /\ n + 1 \in 1 .. Len(b)
      BY <2>1
    <3>2. b[n + 1][1] \in 1 .. m
      BY <1>2, <3>1 DEF Tape
    <3>3. b[n + 1] = <<m + 1, 1>>
      <4>1. CASE n = 0
        <5>1. a = <<>>
          BY <4>1
        <5>2. v = <<m + 1, 1>> /\ b[1] = v
          BY <1>2, <3>1, <5>1 DEF Tape
        <5> QED
          BY <4>1, <5>2
      <4>2. CASE n > 0
        <5>1. a # <<>> /\ n \in 1 .. Len(b) - 1 /\ n \in 1 .. n
          BY <2>1, <4>2
        <5>2. Follows(a[n]) = <<m + 1, 1>> /\ b[n + 1] = Follows(b[n])
          BY <1>2, <5>1 DEF Tape
        <5> QED
          BY <2>5, <5>1, <5>2
      <4> QED
        BY <2>1, <4>1, <4>2
    <3> QED
      BY <3>2, <3>3
  <2> QED
    BY <2>5, <2>6, SeqEqual
<1> QED
  BY <1>1, <1>2

(* f has the first elements of s, up to the k-th, one behind the other.    *)
Joins(f, s, k) ==
    k # 0 => f[1] = s[1] /\ \A i \in 1 .. k : i # 1 => f[i] = f[i - 1] \o s[i]
Joinable(s, k) == \E f : f \in [1 .. k -> Seq(Unit)] /\ Joins(f, s, k)

(* The frames themselves, one behind the other, are the stream.            *)
LEMMA FlatTape ==
    ASSUME NEW g \in Nat, NEW m \in Nat, g <= m, m <= MaxFrame
    PROVE  LET s == [i \in 1 .. m - g |-> Frame(g + i)]
           IN  FlattenSeq(s) \in Seq(Unit) /\ Tape(FlattenSeq(s), <<g + 1, 1>>, m)
<1>1. PICK s, n : s = [i \in 1 .. m - g |-> Frame(g + i)] /\ n = m - g
  OBVIOUS
<1>2. /\ n \in Nat /\ g + n = m /\ s = [i \in 1 .. n |-> Frame(g + i)]
      /\ \A i \in 1 .. n : s[i] = Frame(g + i)
  BY <1>1
<1>3. ASSUME NEW i \in 1 .. n PROVE g + i \in 1 .. MaxFrame /\ s[i] \in Seq(Unit)
  <2>1. g + i \in 1 .. MaxFrame
    BY <1>2, FrameAssumption
  <2> QED
    BY <1>2, <2>1, FrameIs
<1>4. Len(s) = n /\ (n = 0 => s = <<>>)
  <2>1. PICK S : S = Seq(Unit)
    OBVIOUS
  <2>2. s \in [1 .. n -> S]
    BY <1>2, <1>3, <2>1
  <2> QED
    BY <1>2, <2>2
<1>5. Tape(<<>>, <<g + 1, 1>>, g) /\ <<>> \in Seq(Unit)
  BY DEF Tape
<1>6. CASE n = 0
  <2>1. s = <<>>
    BY <1>4, <1>6
  <2>2. FlattenSeq(s) = s
    BY <1>4, <1>6 DEF FlattenSeq
  <2>3. g = m
    BY <1>2, <1>6
  <2> QED
    BY <1>1, <1>5, <2>1, <2>2, <2>3
<1>7. CASE n > 0
  <2> DEFINE Is(f) == f = [i \in 1 .. Len(s) |-> IF i = 1 THEN s[i] ELSE f[i - 1] \o s[i]]
             T == {k \in 0 .. n : Joinable(s, k)}
  <2>1. 0 \in T
    <3>1. PICK f : f = [i \in 1 .. 0 |-> <<>>]
      OBVIOUS
    <3>2. f \in [1 .. 0 -> Seq(Unit)]
      BY <3>1
    <3>3. Joins(f, s, 0)
      BY DEF Joins
    <3>4. Joinable(s, 0)
      BY <3>2, <3>3 DEF Joinable
    <3> QED
      BY <1>2, <3>4
  <2>2. ASSUME NEW k \in 0 .. n - 1, k \in T PROVE k + 1 \in T
    <3>1. PICK f : f \in [1 .. k -> Seq(Unit)] /\ Joins(f, s, k)
      BY <2>2 DEF Joinable
    <3>11. k # 0 => f[1] = s[1] /\ \A i \in 1 .. k : i # 1 => f[i] = f[i - 1] \o s[i]
      BY <3>1 DEF Joins
    <3>12. k \in Nat /\ (k > 0 <=> k # 0)
      BY <1>2
    <3>2. PICK x : x = IF k = 0 THEN s[1] ELSE f[k] \o s[k + 1]
      OBVIOUS
    <3>3. x \in Seq(Unit)
      <4>0. k + 1 \in 1 .. n /\ 1 \in 1 .. n
        BY <1>2, <1>7
      <4>1. s[k + 1] \in Seq(Unit) /\ s[1] \in Seq(Unit)
        BY <1>3, <4>0
      <4>2. k # 0 => f[k] \in Seq(Unit)
        BY <3>1
      <4>3. k # 0 => f[k] \o s[k + 1] \in Seq(Unit)
        BY <4>1, <4>2, ConcatProperties
      <4> QED
        BY <3>2, <4>1, <4>3
    <3>4. PICK h : h = [i \in 1 .. k + 1 |-> IF i <= k THEN f[i] ELSE x]
      OBVIOUS
    <3>5. h \in [1 .. k + 1 -> Seq(Unit)]
      BY <3>1, <3>3, <3>4
    <3>6. (\A i \in 1 .. k : h[i] = f[i]) /\ h[k + 1] = x
      BY <3>4
    <3>7. h[1] = s[1]
      <4>1. CASE k = 0
        BY <3>2, <3>6, <4>1
      <4>2. CASE k > 0
        <5>1. 1 \in 1 .. k
          BY <3>12, <4>2
        <5> QED
          BY <3>11, <3>12, <3>6, <4>2, <5>1
      <4> QED
        BY <3>12, <4>1, <4>2
    <3>8. ASSUME NEW i \in 1 .. k + 1, i # 1
          PROVE  h[i] = h[i - 1] \o s[i]
      <4>1. CASE i = k + 1
        <5>1. k \in 1 .. k /\ i - 1 = k /\ k # 0
          BY <3>8, <4>1
        <5> QED
          BY <3>2, <3>6, <4>1, <5>1
      <4>2. CASE i # k + 1
        <5>1. i \in 1 .. k /\ i - 1 \in 1 .. k /\ k > 0
          BY <3>8, <4>2
        <5>2. f[i] = f[i - 1] \o s[i]
          BY <3>11, <3>12, <3>8, <5>1
        <5> QED
          BY <3>6, <5>1, <5>2
      <4> QED
        BY <4>1, <4>2
    <3>9. Joins(h, s, k + 1)
      BY <3>7, <3>8 DEF Joins
    <3>10. Joinable(s, k + 1)
      BY <3>5, <3>9 DEF Joinable
    <3> QED
      BY <1>2, <3>10
  <2>3. \E f : f \in [1 .. n -> Seq(Unit)] /\ Joins(f, s, n)
    <3> HIDE DEF T
    <3>1. \A i \in 0 .. n : i \in T
      BY <1>2, <2>1, <2>2, Climb
    <3>2. n \in T
      BY <1>2, <3>1
    <3> QED
      BY <1>7, <3>2 DEF T, Joinable
  <2>4. PICK e : e \in [1 .. n -> Seq(Unit)] /\ Joins(e, s, n)
    BY <2>3
  <2>5. Is(e)
    <3>0. n # 0
      BY <1>7
    <3>1. e[1] = s[1] /\ \A i \in 1 .. n : i # 1 => e[i] = e[i - 1] \o s[i]
      BY <2>4, <3>0 DEF Joins
    <3>2. e = [i \in 1 .. n |-> e[i]]
      BY <2>4
    <3>3. [i \in 1 .. n |-> e[i]] = [i \in 1 .. n |-> IF i = 1 THEN s[i] ELSE e[i - 1] \o s[i]]
      BY <3>1
    <3> QED
      BY <1>4, <3>2, <3>3
  <2>6. PICK h : h = CHOOSE f : Is(f)
    OBVIOUS
  <2>7. Is(h)
    BY <2>5, <2>6
  <2>8. FlattenSeq(s) = h[Len(s)]
    <3>1. Len(s) # 0
      BY <1>4, <1>7
    <3> QED
      BY <2>6, <3>1 DEF FlattenSeq
  <2>9. h[1] = s[1] /\ \A i \in 1 .. n : i # 1 => h[i] = h[i - 1] \o s[i]
    <3>1. 1 \in 1 .. n
      BY <1>2, <1>7
    <3> QED
      BY <1>4, <2>7, <3>1
  <2> DEFINE V == {k \in 0 .. n : k > 0 => h[k] \in Seq(Unit) /\ Tape(h[k], <<g + 1, 1>>, g + k)}
  <2>10. 0 \in V
    BY <1>2
  <2>11. ASSUME NEW k \in 0 .. n - 1, k \in V PROVE k + 1 \in V
    <3>1. g + (k + 1) = (g + k) + 1 /\ k + 1 \in 1 .. n /\ k + 1 \in 0 .. n /\ g + k \in Nat
      BY <1>2
    <3>2. (g + k) + 1 \in 1 .. MaxFrame /\ s[k + 1] = Frame((g + k) + 1)
          /\ s[k + 1] \in Seq(Unit)
      BY <1>2, <1>3, <3>1
    <3>3. PICK x : x = IF k = 0 THEN <<>> ELSE h[k]
      OBVIOUS
    <3>4. x \in Seq(Unit) /\ Tape(x, <<g + 1, 1>>, g + k)
      <4>1. CASE k = 0
        <5>1. g + k = g
          BY <4>1
        <5> QED
          BY <1>5, <3>3, <4>1, <5>1
      <4>2. CASE k # 0
        BY <2>11, <3>3, <4>2
      <4> QED
        BY <4>1, <4>2
    <3>5. x \o Frame((g + k) + 1) \in Seq(Unit) /\ Tape(x \o Frame((g + k) + 1), <<g + 1, 1>>, (g + k) + 1)
      BY <3>1, <3>2, <3>4, TapeSend, ConcatProperties
    <3>6. h[k + 1] = x \o Frame((g + k) + 1)
      <4>1. CASE k = 0
        <5>1. <<>> \o s[1] = s[1]
          BY <3>2, <4>1, ConcatEmptySeq
        <5> QED
          BY <2>9, <3>2, <3>3, <4>1, <5>1
      <4>2. CASE k # 0
        <5>1. k + 1 # 1 /\ (k + 1) - 1 = k
          BY <4>2
        <5> QED
          BY <2>9, <3>1, <3>2, <3>3, <4>2, <5>1
      <4> QED
        BY <4>1, <4>2
    <3> QED
      BY <3>1, <3>5, <3>6
  <2> HIDE DEF V
  <2>12. \A i \in 0 .. n : i \in V
    BY <1>2, <2>10, <2>11, Climb
  <2>13. n \in V /\ n > 0
    BY <1>2, <1>7, <2>12
  <2>14. h[n] \in Seq(Unit) /\ Tape(h[n], <<g + 1, 1>>, g + n)
    BY <2>13 DEF V
  <2> QED
    BY <1>1, <1>2, <1>4, <2>8, <2>14
<1> QED
  BY <1>2, <1>6, <1>7
-----------------------------------------------------------------------------
(* Without a cut the frames go through one after the other.                *)
LEMMA RestType ==
    ASSUME NEW S, NEW s \in Seq(S), NEW n \in Nat
    PROVE  Rest(s, n) \in Seq(S)
<1>1. \A i \in n + 1 .. Len(s) : s[i] \in S
  OBVIOUS
<1>2. n + 1 \in Int /\ Len(s) \in Int
  OBVIOUS
<1> QED
  BY <1>1, <1>2, SubSeqProperties DEF Rest

LEMMA SplitIs ==
    ASSUME NEW S, NEW s \in Seq(S), NEW n \in 0 .. Len(s)
    PROVE  SubSeq(s, 1, n) \o Rest(s, n) = s
<1>1. PICK b, r, y : b = SubSeq(s, 1, n) /\ r = Rest(s, n) /\ y = b \o r
  OBVIOUS
<1>2. Len(s) \in Nat /\ n \in Nat /\ n <= Len(s)
  OBVIOUS
<1>3. /\ b \in Seq(S) /\ Len(b) = n /\ \A i \in 1 .. n : b[i] = s[i]
  BY <1>1, <1>2
<1>4. r \in Seq(S) /\ Len(r) = Len(s) - n /\ \A i \in 1 .. Len(s) - n : r[i] = s[n + i]
  BY <1>1, RestAt
<1>5. /\ y \in Seq(S) /\ Len(y) = Len(b) + Len(r)
      /\ \A i \in 1 .. Len(b) + Len(r) : y[i] = IF i <= Len(b) THEN b[i] ELSE r[i - Len(b)]
  <2>1. /\ b \o r \in Seq(S) /\ Len(b \o r) = Len(b) + Len(r)
        /\ \A i \in 1 .. Len(b) + Len(r) :
              (b \o r)[i] = IF i <= Len(b) THEN b[i] ELSE r[i - Len(b)]
    BY <1>3, <1>4, ConcatProperties
  <2> QED
    BY ONLY <1>1, <2>1
<1>6. Len(y) = Len(s) /\ Len(b) + Len(r) = Len(s)
  BY <1>2, <1>3, <1>4, <1>5
<1>7. ASSUME NEW i \in 1 .. Len(s) PROVE y[i] = s[i]
  <2>1. CASE i <= n
    <3>1. i \in 1 .. n
      BY <1>2, <2>1
    <3> QED
      BY <1>3, <1>5, <1>6, <2>1, <3>1
  <2>2. CASE ~(i <= n)
    <3>1. i - n \in 1 .. Len(s) - n /\ n + (i - n) = i
      BY <1>2, <2>2
    <3> QED
      BY <1>3, <1>4, <1>5, <1>6, <2>2, <3>1
  <2> QED
    BY <2>1, <2>2
<1>8. y = s
  BY <1>5, <1>6, <1>7, SeqEqual
<1> QED
  BY <1>1, <1>8

LEMMA RestConcat ==
    ASSUME NEW S, NEW s \in Seq(S), NEW w \in Seq(S), NEW n \in 0 .. Len(s)
    PROVE  Rest(s, n) \o w = Rest(s \o w, n)
<1>1. PICK r, x, y, z : r = Rest(s, n) /\ x = s \o w /\ y = r \o w /\ z = Rest(x, n)
  OBVIOUS
<1>2. Len(s) \in Nat /\ Len(w) \in Nat /\ n \in Nat /\ n <= Len(s)
  OBVIOUS
<1>3. r \in Seq(S) /\ Len(r) = Len(s) - n /\ \A i \in 1 .. Len(s) - n : r[i] = s[n + i]
  BY <1>1, RestAt
<1>4. /\ x \in Seq(S) /\ Len(x) = Len(s) + Len(w)
      /\ \A i \in 1 .. Len(s) + Len(w) : x[i] = IF i <= Len(s) THEN s[i] ELSE w[i - Len(s)]
  BY <1>1, ConcatProperties
<1>5. /\ y \in Seq(S) /\ Len(y) = Len(r) + Len(w)
      /\ \A i \in 1 .. Len(r) + Len(w) : y[i] = IF i <= Len(r) THEN r[i] ELSE w[i - Len(r)]
  <2>1. /\ r \o w \in Seq(S) /\ Len(r \o w) = Len(r) + Len(w)
        /\ \A i \in 1 .. Len(r) + Len(w) :
              (r \o w)[i] = IF i <= Len(r) THEN r[i] ELSE w[i - Len(r)]
    BY <1>3, ConcatProperties
  <2> QED
    BY ONLY <1>1, <2>1
<1>6. z \in Seq(S) /\ Len(z) = Len(x) - n /\ \A i \in 1 .. Len(x) - n : z[i] = x[n + i]
  <2>1. n \in 0 .. Len(x)
    BY <1>2, <1>4
  <2>2. x \in Seq(S)
    BY <1>4
  <2>3. /\ Rest(x, n) \in Seq(S) /\ Len(Rest(x, n)) = Len(x) - n
        /\ \A i \in 1 .. Len(x) - n : Rest(x, n)[i] = x[n + i]
    BY <2>1, <2>2, RestAt
  <2> QED
    BY ONLY <1>1, <2>3
<1>7. Len(y) = Len(z) /\ Len(z) = Len(r) + Len(w) /\ Len(r) \in Nat
  BY <1>2, <1>3, <1>4, <1>5, <1>6
<1>8. ASSUME NEW i \in 1 .. Len(z) PROVE y[i] = z[i]
  <2>1. z[i] = x[n + i] /\ n + i \in 1 .. Len(s) + Len(w)
    BY <1>2, <1>3, <1>4, <1>6, <1>7
  <2>2. CASE i <= Len(r)
    <3>1. i \in 1 .. Len(s) - n /\ n + i <= Len(s)
      BY <1>2, <1>3, <1>7, <2>2
    <3> QED
      BY <1>3, <1>4, <1>5, <1>7, <2>1, <2>2, <3>1
  <2>3. CASE ~(i <= Len(r))
    <3>1. ~(n + i <= Len(s)) /\ (n + i) - Len(s) = i - Len(r)
      BY <1>2, <1>3, <1>7, <2>3
    <3> QED
      BY <1>4, <1>5, <1>7, <2>1, <2>3, <3>1
  <2> QED
    BY <2>2, <2>3
<1>9. y = z
  BY <1>5, <1>6, <1>7, <1>8, SeqEqual
<1> QED
  BY <1>1, <1>9

(* What is left of a buffer that ends with a frame ends with it, too.      *)
LEMMA RestWhole ==
    ASSUME NEW s \in Seq(Unit), NEW n \in 0 .. Len(s), Whole(s)
    PROVE  Whole(Rest(s, n))
<1>1. PICK r : r = Rest(s, n)
  OBVIOUS
<1>2. r \in Seq(Unit) /\ Len(r) = Len(s) - n /\ \A i \in 1 .. Len(s) - n : r[i] = s[n + i]
  BY <1>1, RestAt
<1>3. ASSUME r # <<>> PROVE Kind(r[Len(r)]) = "E2"
  <2>1. Len(r) \in 1 .. Len(s) - n /\ n + Len(r) = Len(s) /\ s # <<>>
    BY <1>2, <1>3
  <2>2. r[Len(r)] = s[Len(s)]
    BY <1>2, <2>1
  <2> QED
    BY <2>1, <2>2 DEF Whole
<1> QED
  BY <1>1, <1>3 DEF Whole

(* The next frame is one of those that were sent, or there is none.        *)
LEMMA TapeNext ==
    ASSUME NEW x \in Seq(Unit), NEW g \in Nat, NEW m \in Nat, Tape(x, <<g + 1, 1>>, m)
    PROVE  g <= m /\ (x # <<>> => g < m)
<1>1. CASE x = <<>>
  <2>1. <<g + 1, 1>> = <<m + 1, 1>>
    BY <1>1 DEF Tape
  <2> QED
    BY <1>1, <2>1
<1>2. CASE x # <<>>
  <2>1. 1 \in 1 .. Len(x)
    BY <1>2
  <2>2. x[1] = <<g + 1, 1>> /\ x[1][1] \in 1 .. m
    BY <1>2, <2>1 DEF Tape
  <2>3. (<<g + 1, 1>>)[1] = g + 1
    OBVIOUS
  <2>4. g + 1 \in 1 .. m
    BY <2>2, <2>3
  <2> QED
    BY <2>4
<1> QED
  BY <1>1, <1>2

GotTyped == got \in Seq([param : Seq(Unit), data : Seq(Unit)])

LEMMA FlowPolls ==
    ASSUME NEW g, NEW x, NEW m, pc' = "poll", GotTyped', Len(got') = g,
           \A i \in 1 .. g : got'[i] = Good(i), result' = "ok", Whole(kept' \o rest'),
           readState' = "wait", Left' = x, sent' = m, Tape(x, <<g + 1, 1>>, m)
    PROVE  Flow'
BY DEF Flow, GotTyped

LEMMA FlowParses ==
    ASSUME NEW g, NEW x, NEW m, pc' = "parse", GotTyped', Len(got') = g,
           \A i \in 1 .. g : got'[i] = Good(i), result' = "ok", Whole(kept' \o rest'),
           g < m, NEW p \in 0 .. End(g + 1), Reading(g + 1, p)', Left' = x, sent' = m,
           Tape(x, Follows(<<g + 1, p>>), m)
    PROVE  Flow'
BY DEF Flow, GotTyped, Reading, HasParam, Message

LEMMA FlowCut == ASSUME cuts' # 0 PROVE Flow'
BY DEF Flow

(* What Flow says of a connection without a cut.                           *)
LEMMA FlowIs ==
    ASSUME StreamInv, Flow, cuts = 0
    PROVE  /\ GotTyped /\ Len(got) \in Nat /\ \A i \in 1 .. Len(got) : got[i] = Good(i)
           /\ wire \in Seq(Unit) /\ rest \in Seq(Unit) /\ kept \in Seq(Unit)
           /\ Left \in Seq(Unit) /\ kept \o rest \in Seq(Unit)
           /\ sent \in 0 .. MaxFrame /\ sent \in Nat
           /\ pc \in {"poll", "parse"} /\ result = "ok" /\ Whole(kept \o rest)
           /\ pc = "poll" => /\ readState = "wait" /\ rest = <<>>
                             /\ kept \o rest = kept /\ Left = kept \o wire
                             /\ Tape(Left, <<Len(got) + 1, 1>>, sent)
           /\ pc = "parse" => Len(got) < sent /\ Len(got) + 1 \in 1 .. MaxFrame
<1>1. /\ wire \in Seq(Unit) /\ rest \in Seq(Unit) /\ kept \in Seq(Unit)
      /\ sent \in 0 .. MaxFrame /\ pc \in {"poll", "read", "parse"}
      /\ pc # "parse" => rest = <<>>
  BY DEF StreamInv, Types, UsedUp
<1>2. /\ GotTyped /\ \A i \in 1 .. Len(got) : got[i] = Good(i)
      /\ pc # "read" /\ result = "ok" /\ Whole(kept \o rest)
      /\ pc = "poll" => readState = "wait" /\ Tape(Left, <<Len(got) + 1, 1>>, sent)
      /\ pc = "parse" => Len(got) < sent
  BY DEF Flow, GotTyped
<1>3. Len(got) \in Nat
  BY <1>2 DEF GotTyped
<1>4. kept \o rest \in Seq(Unit)
  BY <1>1, ConcatProperties
<1>5. Left \in Seq(Unit)
  BY <1>1, <1>4, ConcatProperties DEF Left
<1>6. pc = "poll" => kept \o rest = kept
  BY <1>1, <1>2, ConcatEmptySeq
<1>7. sent \in Nat /\ sent <= MaxFrame /\ MaxFrame \in Nat
  BY <1>1, FrameAssumption
<1>8. pc = "parse" => Len(got) + 1 \in 1 .. MaxFrame
  BY <1>2, <1>3, <1>7
<1> QED
  BY <1>1, <1>2, <1>3, <1>4, <1>5, <1>6, <1>7, <1>8 DEF Left

LEMMA InitFlow == Init => Flow
<1> SUFFICES ASSUME Init PROVE Flow
  OBVIOUS
<1>1. /\ kept = <<>> /\ rest = <<>> /\ wire = <<>> /\ got = <<>> /\ sent = 0
      /\ pc = "poll" /\ result = "ok" /\ readState = "wait"
  BY DEF Init
<1>2. <<>> \in Seq(Unit) /\ (<<>> \o <<>>) = <<>>
  <2>1. <<>> \in Seq(Unit)
    OBVIOUS
  <2> QED
    BY <2>1, ConcatEmptySeq
<1>3. kept \o rest = <<>> /\ Left = <<>>
  BY <1>1, <1>2 DEF Left
<1>4. Tape(<<>>, <<1, 1>>, 0) /\ Whole(<<>>)
  BY DEF Tape, Whole
<1>5. Len(got) = 0 /\ Len(got) + 1 = 1 /\ got \in Seq([param : Seq(Unit), data : Seq(Unit)])
  BY <1>1
<1> QED
  BY <1>1, <1>3, <1>4, <1>5 DEF Flow

LEMMA SendFlows ==
    ASSUME StreamInv, Flow, Send
    PROVE  Flow'
<1>1. /\ wire' = wire \o Frame(sent + 1) /\ sent' = sent + 1 /\ sent < MaxFrame
      /\ UNCHANGED <<pc, rest, result, kept, message, got, cuts, readState>>
  BY DEF Send, message, history
<1>2. CASE cuts # 0
  BY <1>1, <1>2, FlowCut
<1>3. CASE cuts = 0
  <2>1. PICK g, m, k, w, a : /\ g = Len(got) /\ m = sent /\ k = kept \o rest /\ w = wire
                             /\ a = Frame(sent + 1)
    OBVIOUS
  <2>2. /\ GotTyped /\ g \in Nat /\ \A i \in 1 .. g : got[i] = Good(i)
        /\ k \in Seq(Unit) /\ w \in Seq(Unit) /\ Left = k \o w /\ Left \in Seq(Unit)
        /\ m \in Nat /\ m + 1 \in 1 .. MaxFrame
        /\ pc \in {"poll", "parse"} /\ result = "ok" /\ Whole(k)
    <3>1. /\ GotTyped /\ Len(got) \in Nat /\ \A i \in 1 .. Len(got) : got[i] = Good(i)
          /\ wire \in Seq(Unit) /\ Left \in Seq(Unit) /\ kept \o rest \in Seq(Unit)
          /\ sent \in Nat /\ pc \in {"poll", "parse"} /\ result = "ok"
          /\ Whole(kept \o rest)
      BY <1>3, FlowIs
    <3>2. m + 1 \in 1 .. MaxFrame
      BY <1>1, <2>1, <3>1, FrameAssumption
    <3>3. Left = (kept \o rest) \o wire
      BY DEF Left
    <3> QED
      BY ONLY <2>1, <3>1, <3>2, <3>3
  <2>3. a \in Seq(Unit)
    BY <2>1, <2>2, FrameIs
  <2>4. k' = k /\ Left' = k \o (w \o a)
    BY <1>1, <2>1 DEF Left
  <2>5. k \o (w \o a) = (k \o w) \o a
    <3>1. k \in Seq(Unit) /\ w \in Seq(Unit) /\ a \in Seq(Unit)
      BY <2>2, <2>3
    <3> QED
      BY ONLY <3>1, ConcatAssociative
  <2>6. /\ GotTyped' /\ Len(got') = g /\ (\A i \in 1 .. g : got'[i] = Good(i))
        /\ result' = "ok" /\ Whole(kept' \o rest') /\ Left' = Left \o a /\ sent' = m + 1
    BY <1>1, <2>1, <2>2, <2>4, <2>5 DEF GotTyped
  <2>7. PICK x : x = Left
    OBVIOUS
  <2>8. CASE pc = "poll"
    <3>1. readState = "wait" /\ Tape(x, <<g + 1, 1>>, m)
      BY <1>3, <2>1, <2>7, <2>8 DEF Flow
    <3>2. Tape(x \o a, <<g + 1, 1>>, m + 1)
      BY <2>1, <2>2, <2>7, <3>1, TapeSend
    <3> QED
      BY <1>1, <2>6, <2>7, <2>8, <3>1, <3>2, FlowPolls
  <2>9. CASE pc = "parse"
    <3>1. g < m
      BY <1>3, <2>1, <2>9 DEF Flow
    <3>2. PICK p \in 0 .. End(g + 1) : Reading(g + 1, p) /\ Tape(x, Follows(<<g + 1, p>>), m)
      BY <1>3, <2>1, <2>7, <2>9 DEF Flow
    <3>3. Reading(g + 1, p)'
      <4>1. PICK f : f = g + 1
        OBVIOUS
      <4>2. UNCHANGED <<pc, result, rest, kept, message>>
        BY <1>1
      <4>3. Reading(f, p)
        BY <3>2, <4>1
      <4>4. Reading(f, p)'
        BY <4>2, <4>3, ReadingStays
      <4> QED
        BY <4>1, <4>4
    <3>4. Tape(x \o a, Follows(<<g + 1, p>>), m + 1)
      BY <2>1, <2>2, <2>7, <3>2, TapeSend
    <3>5. g < m + 1
      BY <2>2, <3>1
    <3> QED
      BY <1>1, <2>6, <2>7, <2>9, <3>2, <3>3, <3>4, <3>5, FlowParses
  <2> QED
    BY <2>2, <2>8, <2>9
<1> QED
  BY <1>2, <1>3

(* A read that ends with a frame is taken for one, and the next frame lies *)
(* whole before the parser.                                                *)
LEMMA ReadFlows ==
    ASSUME StreamInv, Flow, NEW n \in 1 .. Len(wire), Read(n)
    PROVE  Flow'
<1>1. PICK b : b = SubSeq(wire, 1, n)
  OBVIOUS
<1>2. /\ wire' = Rest(wire, n) /\ cuts' = cuts + Cut(b)
      /\ UNCHANGED <<sent, message, got>>
      /\ \/ MayRecognise(b) /\ pc' = "parse" /\ rest' = Joined(b) /\ result' = "ok" /\ kept' = <<>>
         \/ MayDrop(b)
  BY <1>1 DEF Read
<1>3. cuts \in Nat /\ Cut(b) \in {0, 1}
  BY FrameAssumption DEF StreamInv, Types, Cut
<1>4. CASE cuts' # 0
  BY <1>4, FlowCut
<1>5. CASE cuts' = 0
  <2>1. cuts = 0 /\ Cut(b) = 0
    BY <1>2, <1>3, <1>5
  <2>2. PICK g, m, k, w, x : g = Len(got) /\ m = sent /\ k = kept /\ w = wire /\ x = k \o w
    OBVIOUS
  <2>3. /\ GotTyped /\ g \in Nat /\ \A i \in 1 .. g : got[i] = Good(i)
        /\ k \in Seq(Unit) /\ w \in Seq(Unit) /\ x \in Seq(Unit)
        /\ m \in Nat /\ m \in 0 .. MaxFrame /\ pc \in {"poll", "parse"}
        /\ pc = "poll" => readState = "wait" /\ Whole(k) /\ Tape(x, <<g + 1, 1>>, m)
    <3>1. /\ GotTyped /\ Len(got) \in Nat /\ \A i \in 1 .. Len(got) : got[i] = Good(i)
          /\ wire \in Seq(Unit) /\ kept \in Seq(Unit) /\ Left \in Seq(Unit)
          /\ sent \in 0 .. MaxFrame /\ sent \in Nat /\ pc \in {"poll", "parse"}
          /\ Whole(kept \o rest)
          /\ pc = "poll" => /\ readState = "wait" /\ kept \o rest = kept
                            /\ Left = kept \o wire
                            /\ Tape(Left, <<Len(got) + 1, 1>>, sent)
      BY <2>1, FlowIs
    <3>2. x \in Seq(Unit)
      BY <2>2, <3>1, ConcatProperties
    <3> QED
      BY ONLY <2>2, <3>1, <3>2
  <2>4. pc = "poll"
    BY <2>3 DEF Read
  <2>5. n \in 1 .. Len(w) /\ Len(w) \in Nat /\ n \in 0 .. Len(w)
    BY <2>2, <2>3
  <2>6. b \in Seq(Unit) /\ Len(b) = n /\ b[n] = w[n] /\ b = SubSeq(w, 1, n)
    <3>1. b = SubSeq(w, 1, n)
      BY <1>1, <2>2
    <3> QED
      BY <2>3, <2>5, <3>1
  <2>7. Kind(w[n]) = "E2"
    <3>1. Last(b) = b[n]
      BY <2>6 DEF Last
    <3> QED
      BY <2>1, <2>6, <3>1 DEF Cut
  <2>8. x # <<>> /\ g < m /\ g + 1 \in 1 .. MaxFrame
    <3>1. Len(x) = Len(k) + Len(w)
      BY <2>2, <2>3, ConcatProperties
    <3>2. x # <<>>
      BY <2>3, <2>5, <3>1
    <3>3. g < m
      BY <2>3, <2>4, <3>2, TapeNext
    <3> QED
      BY <2>3, <3>2, <3>3, FrameAssumption
  <2>9. PICK f : f = g + 1
    OBVIOUS
  <2>10. f \in 1 .. MaxFrame /\ Tape(k \o w, <<f, 1>>, m) /\ Whole(k)
    BY <2>2, <2>3, <2>4, <2>8, <2>9
  <2>11. ~MayDrop(b)
    <3>1. PICK z : z = Rest(kept, Len(b))
      OBVIOUS
    <3>2. z \in Seq(Unit)
      BY <2>2, <2>3, <2>5, <2>6, <3>1, RestType
    <3>3. HasFlag(SubSeq(w, 1, n) \o z)
      BY <2>3, <2>5, <2>7, <2>10, <3>2, TapeFlag
    <3> QED
      BY <2>6, <3>1, <3>3 DEF MayDrop
  <2>12. PICK s, u : s = k \o b /\ u = Rest(w, n)
    OBVIOUS
  <2>13. /\ pc' = "parse" /\ rest' = s /\ result' = "ok" /\ kept' = <<>> /\ wire' = u
         /\ readState' = "wait" /\ sent' = m
    BY <1>2, <2>2, <2>3, <2>4, <2>11, <2>12 DEF Joined, message
  <2>14. s \in Seq(Unit) /\ u \in Seq(Unit) /\ s # <<>> /\ Kind(s[Len(s)]) = "E2"
    <3>1. u \in Seq(Unit)
      BY <2>3, <2>5, <2>12, RestAt
    <3>2. /\ k \o b \in Seq(Unit) /\ Len(k \o b) = Len(k) + Len(b)
          /\ \A i \in 1 .. Len(k) + Len(b) :
                (k \o b)[i] = IF i <= Len(k) THEN k[i] ELSE b[i - Len(k)]
      BY <2>3, <2>6, ConcatProperties
    <3>3. /\ Len(k) + n \in 1 .. Len(k) + n /\ ~(Len(k) + n <= Len(k))
          /\ (Len(k) + n) - Len(k) = n /\ Len(k) + n > 0
      BY <2>3, <2>5
    <3>4. s \in Seq(Unit) /\ Len(s) = Len(k) + n /\ s[Len(k) + n] = b[n]
      BY ONLY <2>6, <2>12, <3>2, <3>3
    <3> QED
      BY <2>6, <2>7, <3>1, <3>3, <3>4
  <2>15. s \o u = x
    <3>1. b \o u = w
      BY <2>3, <2>5, <2>6, <2>12, SplitIs
    <3>2. (k \o b) \o u = k \o (b \o u)
      <4>1. k \in Seq(Unit) /\ b \in Seq(Unit) /\ u \in Seq(Unit)
        BY <2>3, <2>6, <2>14
      <4> QED
        BY ONLY <4>1, ConcatAssociative
    <3> QED
      BY ONLY <2>2, <2>12, <3>1, <3>2
  <2>16. kept' \o rest' = s /\ Left' = x
    <3>1. <<>> \o s = s
      BY <2>14, ConcatEmptySeq
    <3>2. kept' \o rest' = s
      BY <2>13, <3>1
    <3>3. Left' = (kept' \o rest') \o wire'
      BY DEF Left
    <3> QED
      BY <2>13, <2>15, <3>2, <3>3
  <2>17. Whole(s) /\ Tape(s \o u, <<f, 1>>, m)
    BY <2>2, <2>10, <2>14, <2>15 DEF Whole
  <2>18. Lies(s, f, 0)
    BY <2>3, <2>10, <2>14, <2>17, TapeLies
  <2>19. Reading(f, 0)'
    BY <2>13, <2>18 DEF Reading
  <2>20. 0 \in 0 .. End(f) /\ Follows(<<f, 0>>) = <<f, 1>>
    <3>1. End(f) \in Nat /\ End(f) >= 8 /\ 0 + 1 = 1
      BY <2>10, FrameUnits
    <3> QED
      BY <3>1 DEF Follows
  <2>21. GotTyped' /\ Len(got') = g /\ \A i \in 1 .. g : got'[i] = Good(i)
    BY <1>2, <2>2, <2>3 DEF GotTyped
  <2>22. Tape(x, Follows(<<f, 0>>), m)
    BY <2>15, <2>17, <2>20
  <2>23. Whole(kept' \o rest')
    BY <2>16, <2>17
  <2> QED
    BY <2>8, <2>9, <2>13, <2>16, <2>19, <2>20, <2>21, <2>22, <2>23, FlowParses
<1> QED
  BY <1>4, <1>5

(* The parser goes on within the frame, and the rest of the stream with it.*)
LEMMA ParseFlows ==
    ASSUME StreamInv, Flow, Parse
    PROVE  Flow'
<1>1. /\ UNCHANGED <<sent, wire, got, cuts>> /\ pc = "parse"
  BY DEF Parse, WaitTurn, DataFollows, ParamTurn, ParamRefused, ParamCut, EmptyData,
         DataTurn, EndTurn, ParseMore, Turn, history
<1>2. CASE cuts # 0
  BY <1>1, <1>2, FlowCut
<1>3. CASE cuts = 0
  <2>1. PICK g, m, s, w, x : g = Len(got) /\ m = sent /\ s = rest /\ w = wire /\ x = Left
    OBVIOUS
  <2>2. /\ GotTyped /\ g \in Nat /\ \A i \in 1 .. g : got[i] = Good(i)
        /\ s \in Seq(Unit) /\ w \in Seq(Unit) /\ x \in Seq(Unit)
        /\ m \in Nat /\ result = "ok" /\ Whole(kept \o rest)
        /\ g < m /\ g + 1 \in 1 .. MaxFrame
    <3>1. /\ GotTyped /\ Len(got) \in Nat /\ \A i \in 1 .. Len(got) : got[i] = Good(i)
          /\ wire \in Seq(Unit) /\ rest \in Seq(Unit) /\ Left \in Seq(Unit)
          /\ sent \in Nat /\ result = "ok" /\ Whole(kept \o rest)
          /\ pc = "parse" => Len(got) < sent /\ Len(got) + 1 \in 1 .. MaxFrame
      BY <1>3, FlowIs
    <3> QED
      BY ONLY <1>1, <2>1, <3>1
  <2>3. PICK f : f = g + 1
    OBVIOUS
  <2>4. f \in 1 .. MaxFrame /\ End(f) \in Nat
    BY <2>2, <2>3, FrameUnits
  <2>5. PICK p \in 0 .. End(f) : Reading(f, p) /\ Tape(x, Follows(<<f, p>>), m)
    BY <1>1, <1>3, <2>1, <2>3 DEF Flow
  <2>6. PICK q \in p .. End(f) : Forward(f, p, q)
    BY <2>4, <2>5, ReadingGoesOn
  <2>7. PICK n, r : n = q - p /\ r = Rest(s, n)
    OBVIOUS
  <2>8. n \in 0 .. Len(s) /\ n \in Nat /\ n <= End(f) - p /\ p + n = q /\ q \in 0 .. End(f)
    BY <2>1, <2>2, <2>4, <2>6, <2>7 DEF Forward
  <2>9. r \in Seq(Unit)
    BY <2>2, <2>7, <2>8, RestAt
  <2>10. /\ kept = <<>> /\ Reading(f, q)'
         /\ \/ kept' = <<>> /\ rest' = r
            \/ kept' = r /\ rest' = <<>>
    <3>1. /\ Reading(f, q)'
          /\ \/ kept = <<>> /\ kept' = <<>> /\ rest' = Rest(rest, q - p)
             \/ kept = <<>> /\ rest' = <<>> /\ kept' = Rest(rest, q - p)
      BY <2>6 DEF Forward
    <3>2. Rest(rest, q - p) = r
      BY <2>1, <2>7
    <3>3. Reading(f, q)'
      BY <3>1
    <3>4. \/ kept' = <<>> /\ rest' = r
          \/ kept' = r /\ rest' = <<>>
      BY ONLY <3>1, <3>2
    <3>5. kept = <<>>
      BY <3>1
    <3> QED
      BY ONLY <3>3, <3>4, <3>5
  <2>11. kept \o rest = s /\ kept' \o rest' = r
    <3>1. <<>> \o s = s /\ <<>> \o r = r /\ r \o <<>> = r
      BY <2>2, <2>9, ConcatEmptySeq
    <3> QED
      BY <2>1, <2>10, <3>1
  <2>12. x = s \o w /\ Left' = r \o w
    <3>1. Left = (kept \o rest) \o wire /\ Left' = (kept' \o rest') \o wire'
      BY DEF Left
    <3> QED
      BY <1>1, <2>1, <2>11, <3>1
  <2>13. r \o w = Rest(x, n)
    <3>1. r \o w = Rest(s \o w, n)
      BY <2>2, <2>7, <2>8, RestConcat
    <3> QED
      BY <2>12, <3>1
  <2>14. Whole(r)
    <3>1. Whole(s)
      BY <2>2, <2>11
    <3> QED
      BY <2>2, <2>7, <2>8, <3>1, RestWhole
  <2>15. Tape(Rest(x, n), Follows(<<f, q>>), m)
    <3>1. Len(x) = Len(s) + Len(w) /\ \A i \in 1 .. Len(s) : x[i] = s[i]
      BY <2>2, <2>12, ConcatProperties
    <3>2. CASE n = 0
      <4>1. SubSeq(x, 1, Len(x)) = x
        BY <2>2, SubSeqFull
      <4>2. Rest(x, n) = x /\ q = p
        BY <2>8, <3>2, <4>1 DEF Rest
      <4> QED
        BY <2>5, <4>2
    <3>3. CASE n # 0
      <4>1. n \in 1 .. Len(s) /\ n \in 1 .. Len(x) /\ n \in 1 .. End(f) - p
        BY <2>2, <2>4, <2>8, <3>1, <3>3
      <4>2. x[n] = <<f, q>>
        <5>1. s[n] = <<f, p + n>>
          BY <2>1, <2>5, <4>1 DEF Reading, Lies
        <5> QED
          BY <2>8, <3>1, <4>1, <5>1
      <4>3. Tape(Rest(x, n), Follows(x[n]), m)
        BY <2>2, <2>5, <4>1, TapeRest
      <4> QED
        BY <4>2, <4>3
    <3> QED
      BY <3>2, <3>3
  <2>16. /\ GotTyped' /\ Len(got') = g /\ (\A i \in 1 .. g : got'[i] = Good(i))
         /\ sent' = m
    BY <1>1, <2>1, <2>2 DEF GotTyped
  <2>17. pc' = "parse" /\ result' = "ok"
    BY <2>10 DEF Reading
  <2>18. Left' = Rest(x, n) /\ Whole(kept' \o rest')
    BY <2>11, <2>12, <2>13, <2>14
  <2> QED
    BY <2>2, <2>3, <2>8, <2>10, <2>15, <2>16, <2>17, <2>18, FlowParses
<1> QED
  BY <1>2, <1>3

(* What is handed on is the next frame, as it was sent.                    *)
LEMMA ReturnFlows ==
    ASSUME StreamInv, Flow, Return
    PROVE  Flow'
<1>1. /\ UNCHANGED <<sent, wire, rest, result, kept, param, length, room, data, cuts>>
      /\ pc' = "poll" /\ Handled(cstate')
      /\ \/ pc = "read" /\ result = "more"
         \/ pc = "parse" /\ (rest = <<>> \/ result = "format" \/ readState = "finish")
      /\ Finished => cstate' = "ready"
  BY DEF Return, Finished
<1>2. CASE cuts # 0
  BY <1>1, <1>2, FlowCut
<1>3. CASE cuts = 0
  <2>1. PICK g, m, x, t : g = Len(got) /\ m = sent /\ x = Left /\ t = got
    OBVIOUS
  <2>2. /\ GotTyped /\ g \in Nat /\ \A i \in 1 .. g : t[i] = Good(i)
        /\ m \in Nat /\ result = "ok" /\ Whole(kept \o rest) /\ pc = "parse"
        /\ g < m /\ g + 1 \in 1 .. MaxFrame
    <3>1. /\ GotTyped /\ Len(got) \in Nat /\ \A i \in 1 .. Len(got) : got[i] = Good(i)
          /\ sent \in Nat /\ result = "ok" /\ Whole(kept \o rest)
          /\ pc \in {"poll", "parse"}
          /\ pc = "parse" => Len(got) < sent /\ Len(got) + 1 \in 1 .. MaxFrame
      BY <1>3, FlowIs
    <3>2. pc = "parse"
      BY <1>1, <3>1
    <3> QED
      BY ONLY <2>1, <3>1, <3>2
  <2>3. PICK f : f = g + 1
    OBVIOUS
  <2>4. f \in 1 .. MaxFrame /\ End(f) \in Nat /\ End(f) >= 8
    BY <2>2, <2>3, FrameUnits
  <2>5. PICK p \in 0 .. End(f) : Reading(f, p) /\ Tape(x, Follows(<<f, p>>), m)
    BY <1>3, <2>1, <2>2, <2>3 DEF Flow
  <2>6. readState = "finish"
    <3> SUFFICES ASSUME readState # "finish" PROVE FALSE
      OBVIOUS
    <3>1. rest = <<>>
      BY <1>1, <2>2
    <3>2. 0 >= End(f) - p
      BY <2>5, <3>1 DEF Reading, Lies
    <3>3. p = 0 \/ p = 2 \/ p = 4 \/ p = End(f) - 2
      BY <2>5 DEF Reading
    <3> QED
      BY <2>4, <3>2, <3>3
  <2>7. p = End(f) /\ Message = Good(f) /\ cstate' = "ready"
    BY <1>1, <2>2, <2>5, <2>6 DEF Reading, Finished
  <2>8. got' = Append(t, Good(f)) /\ readState' = "wait"
    BY <1>1, <2>1, <2>7 DEF Handled
  <2>9. t \in Seq([param : Seq(Unit), data : Seq(Unit)])
        /\ Good(f) \in [param : Seq(Unit), data : Seq(Unit)]
    <3>1. param \in Seq(Unit) /\ data \in Seq(Unit)
      BY DEF StreamInv, Types
    <3>2. Message \in [param : Seq(Unit), data : Seq(Unit)]
      BY <3>1 DEF Message
    <3> QED
      BY <2>1, <2>2, <2>7, <3>2 DEF GotTyped
  <2>10. PICK S, y, t1 : S = [param : Seq(Unit), data : Seq(Unit)] /\ y = Good(f) /\ t1 = got'
    OBVIOUS
  <2>11. t \in Seq(S) /\ y \in S /\ t1 = Append(t, y) /\ Len(t) = g
    BY <2>1, <2>8, <2>9, <2>10
  <2>12. t1 \in Seq(S) /\ Len(t1) = g + 1 /\ t1[g + 1] = y /\ \A i \in 1 .. g : t1[i] = t[i]
    BY <2>2, <2>11
  <2>13. GotTyped' /\ Len(got') = f /\ \A i \in 1 .. f : got'[i] = Good(i)
    <3>1. \A i \in 1 .. f : i \in 1 .. g \/ i = f
      BY <2>2, <2>3
    <3> QED
      BY <2>2, <2>3, <2>10, <2>12, <3>1 DEF GotTyped
  <2>14. Follows(<<f, p>>) = <<f + 1, 1>>
    BY <2>7 DEF Follows
  <2>15. Left' = x /\ Whole(kept' \o rest') /\ result' = "ok" /\ sent' = m
    BY <1>1, <2>1, <2>2 DEF Left
  <2> QED
    BY <1>1, <2>5, <2>8, <2>13, <2>14, <2>15, FlowPolls
<1> QED
  BY <1>2, <1>3

LEMMA FlowKeeps ==
    ASSUME StreamInv, Flow, [Next]_vars
    PROVE  Flow'
<1>1. CASE Answer
  <2>1. /\ pc = "poll" /\ pc' = pc /\ readState' = "wait"
        /\ UNCHANGED <<sent, wire, rest, result, kept, got, cuts>>
    BY <1>1 DEF Answer, history
  <2>2. Left' = Left
    BY <2>1 DEF Left
  <2> QED
    BY <2>1, <2>2 DEF Flow
<1>2. CASE UNCHANGED vars
  BY <1>2 DEF vars, message, history, Flow, Left, Reading, HasParam, Message
<1>3. CASE \E n \in 1 .. Len(wire) : Read(n)
  BY <1>3, ReadFlows
<1> QED
  BY <1>1, <1>2, <1>3, SendFlows, ParseFlows, ReturnFlows DEF Next

(* Frames that no read cuts come out as they went in, in their order and   *)
(* each once, and what is kept and on the wire is the rest of them: of     *)
(* getRequestData, the parser and the handler of a request connection.     *)
THEOREM FramesIntact == Spec => []Intact
<1>1. Init => StreamInv /\ Flow
  BY InitInv, InitFlow
<1>2. StreamInv /\ Flow /\ [Next]_vars => StreamInv' /\ Flow'
  BY NextKeeps, FlowKeeps
<1>3. StreamInv /\ Flow => Intact
  <2> SUFFICES ASSUME StreamInv, Flow, cuts = 0
               PROVE  /\ \A i \in 1 .. Len(got) : got[i] = Good(i)
                      /\ pc = "poll" =>
                            kept \o wire
                              = FlattenSeq([i \in 1 .. sent - Len(got) |-> Frame(Len(got) + i)])
    BY DEF Intact
  <2>1. /\ \A i \in 1 .. Len(got) : got[i] = Good(i)
        /\ Len(got) \in Nat /\ sent \in Nat /\ sent \in 0 .. MaxFrame /\ Left \in Seq(Unit)
        /\ pc = "poll" => Left = kept \o wire /\ Tape(Left, <<Len(got) + 1, 1>>, sent)
    BY FlowIs
  <2>2. ASSUME pc = "poll"
        PROVE  kept \o wire
                 = FlattenSeq([i \in 1 .. sent - Len(got) |-> Frame(Len(got) + i)])
    <3>1. PICK g, m, x, y : /\ g = Len(got) /\ m = sent /\ x = Left
                            /\ y = FlattenSeq([i \in 1 .. m - g |-> Frame(g + i)])
      OBVIOUS
    <3>2. g \in Nat /\ m \in Nat /\ x \in Seq(Unit) /\ Tape(x, <<g + 1, 1>>, m) /\ m <= MaxFrame
      BY <2>1, <2>2, <3>1, FrameAssumption
    <3>3. g <= m
      BY <3>2, TapeNext
    <3>4. y \in Seq(Unit) /\ Tape(y, <<g + 1, 1>>, m)
      BY <3>1, <3>2, <3>3, FlatTape
    <3>5. x = y
      BY <3>2, <3>4, TapeOnce
    <3> QED
      BY <2>1, <2>2, <3>1, <3>5
  <2> QED
    BY <2>1, <2>2
<1> QED
  BY <1>1, <1>2, <1>3, PTL DEF Spec
=============================================================================
