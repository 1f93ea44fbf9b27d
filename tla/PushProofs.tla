----------------------------- MODULE PushProofs -----------------------------
(***************************************************************************)
(* Proofs about Push, for any number of messages, of subscribes, however   *)
(* often listed, and of frames in a read.                                  *)
(***************************************************************************)
EXTENDS Push, FiniteSetTheorems, SequenceTheorems, TLAPS

(* What TypeOK says of an end.                                             *)
Sound(e) == /\ e \in End
            /\ e.send = "wait" <=> e.out # NULL
            /\ e.send = "wait" => e.want = "w"

Slots == \A s \in Sub : Kept(srv[s], srv'[s]) /\ Kept(cli[s], cli'[s])
-----------------------------------------------------------------------------
LEMMA FrameIs ==
    ASSUME NEW k \in {"push", "recived", "finish", "error"}, NEW m \in Msg
    PROVE  F(k, m) \in Frame
BY DEF F, Frame

(* A slot is filled, emptied, or left as it is.                            *)
LEMMA FilledIs ==
    ASSUME NEW e \in End, NEW f \in Frame
    PROVE  Sound(Filled(e, f)) /\ (e.out = NULL => Kept(e, Filled(e, f)))
BY NullAssumption DEF Filled, End, Sound, Kept

LEMMA WrittenIs ==
    ASSUME NEW e \in End
    PROVE  Sound(Written(e)) /\ Kept(e, Written(e))
BY DEF Written, End, Sound, Kept

LEMMA LeftIs ==
    ASSUME NEW e, Sound(e), NEW b \in Seq(Frame)
    PROVE  /\ Sound(Left(e, b)) /\ Left(e, b) \in End
           /\ Left(e, b).out = e.out
BY DEF Left, End, Sound

LEMMA AnsweringIs ==
    ASSUME NEW e, Sound(e)
    PROVE  /\ Sound(Answering(e)) /\ Answering(e) \in End
           /\ Answering(e).out = e.out
BY DEF Answering, End, Sound

LEMMA IdleIs == Sound(Idle("r")) /\ Sound(Idle("w"))
<1>1. <<>> \in Seq(Frame)
  OBVIOUS
<1> QED
  BY <1>1 DEF Idle, End, Sound

(* What is read, and what is left of a wire after it.                      *)
LEMMA ReadIs ==
    ASSUME NEW S, NEW e, e.left \in Seq(S), NEW w \in Seq(S), NEW n \in Reads(w)
    PROVE  /\ n \in 0 .. Len(w)
           /\ SubSeq(w, 1, n) \in Seq(S) /\ SubSeq(w, n + 1, Len(w)) \in Seq(S)
           /\ Bytes(e, w, n) \in Seq(S) /\ Bytes(e, w, n) # <<>>
           /\ Head(Bytes(e, w, n)) \in S /\ Tail(Bytes(e, w, n)) \in Seq(S)
<1>1. n \in 1 .. Len(w) /\ Len(w) \in Nat
  BY ReadAssumption DEF Reads
<1>2. /\ SubSeq(w, 1, n) \in Seq(S) /\ Len(SubSeq(w, 1, n)) = n
      /\ SubSeq(w, n + 1, Len(w)) \in Seq(S)
  <2>1. \A i \in 1 .. n : w[i] \in S
    BY <1>1
  <2>2. \A i \in n + 1 .. Len(w) : w[i] \in S
    BY <1>1
  <2> QED
    BY <1>1, <2>1, <2>2, SubSeqProperties
<1>3. /\ Bytes(e, w, n) \in Seq(S)
      /\ Len(Bytes(e, w, n)) = Len(e.left) + n
  BY <1>1, <1>2, ConcatProperties DEF Bytes
<1>4. Bytes(e, w, n) # <<>>
  BY <1>1, <1>3
<1> QED
  BY <1>1, <1>2, <1>3, <1>4, HeadTailProperties

LEMMA BytesIs ==
    ASSUME NEW e \in End, NEW w \in Seq(Frame), NEW n \in Reads(w)
    PROVE  /\ Head(Bytes(e, w, n)) \in Frame
           /\ Tail(Bytes(e, w, n)) \in Seq(Frame)
           /\ SubSeq(w, n + 1, Len(w)) \in Seq(Frame)
<1>1. e.left \in Seq(Frame)
  BY DEF End
<1> QED
  BY <1>1, ReadIs

-----------------------------------------------------------------------------
LEMMA Ends ==
    ASSUME TypeOK, NEW s \in Sub
    PROVE  /\ Sound(srv[s]) /\ Sound(cli[s])
           /\ srv[s] \in End /\ cli[s] \in End
           /\ down[s] \in Seq(Frame) /\ up[s] \in Seq(Frame)
BY DEF TypeOK, Sound

LEMMA InitType == Init => TypeOK
<1>1. \A s \in Sub : Sound(Idle("r")) /\ Sound(Idle("w"))
  BY IdleIs
<1> QED
  BY <1>1 DEF Init, TypeOK, Sound

(* Steps that change no end.                                               *)
LEMMA EndsStay ==
    ASSUME TypeOK, UNCHANGED <<srv, cli>>
    PROVE  Slots
BY DEF Slots, Kept

(* Steps that change one end.                                              *)
LEMMA ServerEnd ==
    ASSUME TypeOK, NEW s \in Sub, NEW e, Sound(e), Kept(srv[s], e),
           srv' = [srv EXCEPT ![s] = e], UNCHANGED cli
    PROVE  /\ srv' \in [Sub -> End] /\ \A t \in Sub : Sound(srv'[t])
           /\ Slots
<1>1. \A t \in Sub : Sound(srv[t]) /\ srv \in [Sub -> End]
  BY Ends DEF TypeOK
<1>2. srv' \in [Sub -> End] /\ \A t \in Sub : srv'[t] = IF t = s THEN e ELSE srv[t]
  BY <1>1 DEF Sound, TypeOK
<1> QED
  BY <1>1, <1>2 DEF Slots, Kept

LEMMA ClientEnd ==
    ASSUME TypeOK, NEW s \in Sub, NEW e, Sound(e), Kept(cli[s], e),
           cli' = [cli EXCEPT ![s] = e], UNCHANGED srv
    PROVE  /\ cli' \in [Sub -> End] /\ \A t \in Sub : Sound(cli'[t])
           /\ Slots
<1>1. \A t \in Sub : Sound(cli[t]) /\ cli \in [Sub -> End]
  BY Ends DEF TypeOK
<1>2. cli' \in [Sub -> End] /\ \A t \in Sub : cli'[t] = IF t = s THEN e ELSE cli[t]
  BY <1>1 DEF Sound, TypeOK
<1> QED
  BY <1>1, <1>2 DEF Slots, Kept
-----------------------------------------------------------------------------
LEMMA AddKeeps ==
    ASSUME TypeOK, NEW m \in Msg, Add(m)
    PROVE  TypeOK' /\ Slots
BY EndsStay DEF TypeOK, Add

(* A pusher takes a message only while its slot is empty.                  *)
LEMMA PushAllKeeps ==
    ASSUME TypeOK, NEW q \in [Sub -> Seq(Msg)], PushAll(q), UNCHANGED cli
    PROVE  /\ link' \in [Sub -> {"none", "open", "closed"}]
           /\ waiting' \in [Sub -> Seq(Msg)] /\ pushed' \in [Sub -> SUBSET Msg]
           /\ srv' \in [Sub -> End] /\ \A s \in Sub : Sound(srv'[s])
           /\ Slots
<1> DEFINE Goes(s) == MayPush(s) /\ q[s] # <<>>
<1>1. \A s \in Sub : q[s] # <<>> => Head(q[s]) \in Msg /\ Tail(q[s]) \in Seq(Msg)
  BY HeadTailProperties
<1>2. /\ link' = [s \in Sub |-> IF link[s] = "none" THEN "open" ELSE link[s]]
      /\ waiting' = [s \in Sub |-> IF Goes(s) THEN Tail(q[s]) ELSE q[s]]
      /\ pushed' = [s \in Sub |-> IF Goes(s) THEN pushed[s] \cup {Head(q[s])}
                                  ELSE pushed[s]]
      /\ srv' = [s \in Sub |-> IF Goes(s)
                               THEN Filled(srv[s], F("push", Head(q[s])))
                               ELSE srv[s]]
  BY DEF PushAll
<1>3. ASSUME NEW s \in Sub
      PROVE  Sound(srv'[s]) /\ srv'[s] \in End /\ Kept(srv[s], srv'[s])
  <2>1. Sound(srv[s]) /\ srv[s] \in End
    BY Ends
  <2>2. CASE Goes(s)
    <3>1. srv[s].out = NULL
      BY <2>1, <2>2 DEF MayPush, Sound
    <3>2. F("push", Head(q[s])) \in Frame
      BY <1>1, <2>2, FrameIs
    <3>3. srv'[s] = Filled(srv[s], F("push", Head(q[s])))
      BY <1>2, <2>2
    <3>4. Sound(srv'[s]) /\ Kept(srv[s], srv'[s])
      BY <2>1, <3>1, <3>2, <3>3, FilledIs
    <3> QED
      BY <3>4 DEF Sound
  <2>3. CASE ~Goes(s)
    <3>1. srv'[s] = srv[s]
      BY <1>2, <2>3
    <3> QED
      BY <2>1, <3>1 DEF Kept
  <2> QED
    BY <2>2, <2>3
<1>4. srv' \in [Sub -> End]
  <2>1. srv' = [s \in Sub |-> srv'[s]]
    BY <1>2
  <2> QED
    BY <1>3, <2>1
<1>5. /\ link' \in [Sub -> {"none", "open", "closed"}]
      /\ waiting' \in [Sub -> Seq(Msg)]
      /\ pushed' \in [Sub -> SUBSET Msg]
  <2> HIDE DEF Goes
  <2> QED
    BY <1>1, <1>2 DEF TypeOK, Goes
<1>6. Slots
  BY <1>3 DEF Slots, Kept
<1> QED
  BY <1>3, <1>4, <1>5, <1>6

LEMMA TickKeeps ==
    ASSUME TypeOK, Tick
    PROVE  TypeOK' /\ Slots
<1>1. /\ loop' = "ticked" /\ UNCHANGED <<cli, down, up, event, seen>>
  BY DEF Tick
<1>2. PICK q \in [Sub -> Seq(Msg)] :
          PushAll(q) /\ stage' \in [Msg -> {"fresh", "ready", "using", "freed"}]
  <2>1. ASSUME NEW m \in Msg, Dispatched(m),
               PushAll([s \in Sub |-> waiting[s] \o Listings(s, m)])
        PROVE  \E q \in [Sub -> Seq(Msg)] :
                  PushAll(q) /\ stage' \in [Msg -> {"fresh", "ready", "using", "freed"}]
    <3>1. stage' = [stage EXCEPT ![m] = "using"]
      BY <2>1 DEF Dispatched
    <3>2. stage' \in [Msg -> {"fresh", "ready", "using", "freed"}]
      BY <3>1 DEF TypeOK
    <3>3. \A s \in Sub : waiting[s] \o Listings(s, m) \in Seq(Msg)
      <4> TAKE s \in Sub
      <4>1. waiting[s] \in Seq(Msg)
        BY DEF TypeOK
      <4>2. Listings(s, m) \in Seq(Msg)
        BY CopiesAssumption DEF Listings
      <4> QED
        BY <4>1, <4>2, ConcatProperties
    <3>4. [s \in Sub |-> waiting[s] \o Listings(s, m)] \in [Sub -> Seq(Msg)]
      BY <3>3
    <3> QED
      BY <2>1, <3>2, <3>4
  <2>2. CASE PushAll(waiting) /\ UNCHANGED <<stage, count>>
    BY <2>2 DEF TypeOK
  <2> QED
    BY <2>1, <2>2 DEF Tick
<1>3. /\ link' \in [Sub -> {"none", "open", "closed"}]
      /\ waiting' \in [Sub -> Seq(Msg)] /\ pushed' \in [Sub -> SUBSET Msg]
      /\ srv' \in [Sub -> End] /\ \A s \in Sub : Sound(srv'[s])
      /\ Slots
  BY <1>1, <1>2, PushAllKeeps
<1>4. \A s \in Sub : Sound(cli[s])
  BY Ends
<1>5. /\ cli \in [Sub -> End] /\ down \in [Sub -> Seq(Frame)]
      /\ up \in [Sub -> Seq(Frame)] /\ seen \in [Sub -> Seq(Msg)]
      /\ event \in [sub : Sub, rw : {"r", "w", "h"}] \cup {NULL}
  BY DEF TypeOK
<1>6. /\ stage' \in [Msg -> {"fresh", "ready", "using", "freed"}]
      /\ loop' = "ticked" /\ cli' = cli /\ down' = down /\ up' = up
      /\ event' = event /\ seen' = seen
  BY <1>1, <1>2
<1>7. TypeOK'
  <2>1. \A s \in Sub : \A e \in {srv'[s], cli'[s]} :
            /\ e.send = "wait" <=> e.out # NULL
            /\ e.send = "wait" => e.want = "w"
    BY <1>3, <1>4, <1>6 DEF Sound
  <2>2. loop' \in {"poll", "polled", "ticked"} /\ (event' # NULL => loop' # "poll")
    BY <1>6
  <2>3. cli' \in [Sub -> End] /\ seen' \in [Sub -> Seq(Msg)]
        /\ down' \in [Sub -> Seq(Frame)] /\ up' \in [Sub -> Seq(Frame)]
        /\ event' \in [sub : Sub, rw : {"r", "w", "h"}] \cup {NULL}
    BY <1>5, <1>6
  <2> QED
    BY <1>3, <1>6, <2>1, <2>2, <2>3 DEF TypeOK
<1> QED
  BY <1>3, <1>7

LEMMA PollKeeps ==
    ASSUME TypeOK, NEW s \in Sub, Poll(s)
    PROVE  TypeOK' /\ Slots
<1>0. link[s] \in {"none", "open", "closed"} /\ srv[s].want \in {"r", "w"}
  BY Ends DEF TypeOK, End
<1>1. Reported(s) \subseteq {"r", "w", "h"}
  BY <1>0 DEF Reported
<1>2. event' \in [sub : Sub, rw : {"r", "w", "h"}] /\ loop' = "polled"
  BY <1>1 DEF Poll
<1> QED
  BY <1>2, EndsStay DEF TypeOK, Poll

LEMMA PollOtherKeeps ==
    ASSUME TypeOK, PollOther
    PROVE  TypeOK' /\ Slots
BY EndsStay DEF TypeOK, PollOther

(* An answer is put in the slot by a handler that only runs while the end  *)
(* does not want to write, which it does while the slot is full.           *)
LEMMA ServerReadKeeps ==
    ASSUME TypeOK, NEW s \in Sub, srv[s].want = "r", ServerRead(s)
    PROVE  /\ stage' \in [Msg -> {"fresh", "ready", "using", "freed"}]
           /\ srv' \in [Sub -> End] /\ \A t \in Sub : Sound(srv'[t])
           /\ up' \in [Sub -> Seq(Frame)]
           /\ UNCHANGED <<down, cli, seen>> /\ Slots
<1>1. PICK n \in Reads(up[s]) :
          LET b == Bytes(srv[s], up[s], n)
              m == Head(b).msg
          IN  /\ Recived(s, m)
              /\ srv' = [srv EXCEPT ![s] =
                    Left(Filled(srv[s], F(Answer(s, m), m)), Tail(b))]
              /\ up' = [up EXCEPT ![s] = SubSeq(up[s], n + 1, Len(up[s]))]
              /\ UNCHANGED <<down, cli, seen>>
  BY DEF ServerRead
<1> DEFINE b == Bytes(srv[s], up[s], n)
           m == Head(b).msg
           e == Left(Filled(srv[s], F(Answer(s, m), m)), Tail(b))
<1>2. /\ Sound(srv[s]) /\ srv[s] \in End /\ up[s] \in Seq(Frame)
      /\ srv[s].out = NULL
  BY Ends DEF Sound
<1>3. /\ Head(b) \in Frame /\ Tail(b) \in Seq(Frame)
      /\ SubSeq(up[s], n + 1, Len(up[s])) \in Seq(Frame)
  BY <1>2, BytesIs
<1>4. m \in Msg /\ Answer(s, m) \in {"finish", "error"}
  BY <1>3 DEF Frame, Answer
<1>5. /\ Recived(s, m) /\ srv' = [srv EXCEPT ![s] = e]
      /\ up' = [up EXCEPT ![s] = SubSeq(up[s], n + 1, Len(up[s]))]
      /\ UNCHANGED <<down, cli, seen>>
  BY <1>1
<1> HIDE DEF m, b
<1>6. Sound(e) /\ Kept(srv[s], e)
  <2> DEFINE g == Filled(srv[s], F(Answer(s, m), m))
  <2>1. F(Answer(s, m), m) \in Frame
    BY <1>4, FrameIs
  <2>2. Sound(g)
    BY <1>2, <2>1, FilledIs
  <2> HIDE DEF g
  <2>3. Sound(Left(g, Tail(b)))
    BY <1>3, <2>2, LeftIs
  <2> QED
    BY <1>2, <2>3 DEF Kept, g
<1> HIDE DEF e
<1>7. stage' \in [Msg -> {"fresh", "ready", "using", "freed"}]
  BY <1>4, <1>5 DEF Recived, TypeOK
<1>8. up' \in [Sub -> Seq(Frame)]
  BY <1>3, <1>5 DEF TypeOK
<1> QED
  BY <1>5, <1>6, <1>7, <1>8, ServerEnd

LEMMA ServerWriteKeeps ==
    ASSUME TypeOK, NEW s \in Sub, ServerWrite(s)
    PROVE  /\ UNCHANGED <<stage, count, up, cli, seen>>
           /\ srv' \in [Sub -> End] /\ \A t \in Sub : Sound(srv'[t])
           /\ down' \in [Sub -> Seq(Frame)]
           /\ Slots
<1>1. /\ Sound(srv[s]) /\ srv[s] \in End /\ down[s] \in Seq(Frame)
  BY Ends
<1>2. /\ srv' = [srv EXCEPT ![s] = Written(srv[s])]
      /\ down' = IF srv[s].send = "wait"
                 THEN [down EXCEPT ![s] = Append(down[s], srv[s].out)] ELSE down
      /\ UNCHANGED <<stage, count, up, cli, seen>>
  BY DEF ServerWrite
<1>3. srv[s].send = "wait" => Append(down[s], srv[s].out) \in Seq(Frame)
  BY <1>1 DEF Sound, End
<1>4. down' \in [Sub -> Seq(Frame)]
  BY <1>2, <1>3 DEF TypeOK
<1>5. Sound(Written(srv[s])) /\ Kept(srv[s], Written(srv[s]))
  BY <1>1, WrittenIs
<1> QED
  BY <1>2, <1>4, <1>5, ServerEnd

LEMMA HandleKeeps ==
    ASSUME TypeOK, Handle
    PROVE  TypeOK' /\ Slots
<1>1. loop' = "poll" /\ event' = NULL /\ UNCHANGED <<waiting, pushed, link>>
  BY DEF Handle
<1>2. ASSUME NEW s \in Sub, srv[s].want = "r", ServerRead(s)
      PROVE  TypeOK' /\ Slots
  BY <1>1, <1>2, ServerReadKeeps DEF TypeOK, Sound
<1>3. ASSUME NEW s \in Sub, ServerWrite(s)
      PROVE  TypeOK' /\ Slots
  BY <1>1, <1>3, ServerWriteKeeps DEF TypeOK, Sound
<1>4. CASE UNCHANGED <<stage, count, srv, cli, down, up, seen>>
  BY <1>1, <1>4, EndsStay DEF TypeOK
<1>5. event # NULL => event.sub \in Sub
  BY DEF TypeOK
<1> QED
  BY <1>2, <1>3, <1>4, <1>5 DEF Handle

LEMMA ClientReadKeeps ==
    ASSUME TypeOK, NEW s \in Sub, ClientRead(s)
    PROVE  TypeOK' /\ Slots
<1>1. PICK n \in Reads(down[s]) :
          LET b == Bytes(cli[s], down[s], n)
              f == Head(b)
              e == Left(cli[s], Tail(b))
          IN  /\ \/ /\ f.kind = "push"
                    /\ cli' = [cli EXCEPT ![s] = Filled(e, F("recived", f.msg))]
                    /\ seen' = [seen EXCEPT ![s] = Append(seen[s], f.msg)]
                 \/ /\ f.kind # "push"
                    /\ cli' = [cli EXCEPT ![s] = Answering(e)]
                    /\ UNCHANGED seen
              /\ down' = [down EXCEPT ![s] = SubSeq(down[s], n + 1, Len(down[s]))]
  BY DEF ClientRead
<1>2. /\ UNCHANGED <<stage, count, waiting, pushed, link, srv, up, loop, event>>
      /\ cli[s].want = "r"
  BY DEF ClientRead
<1> DEFINE b == Bytes(cli[s], down[s], n)
           f == Head(b)
           e == Left(cli[s], Tail(b))
<1>3. /\ Sound(cli[s]) /\ cli[s] \in End /\ down[s] \in Seq(Frame)
      /\ cli[s].out = NULL
  BY <1>2, Ends DEF Sound
<1>4. /\ f \in Frame /\ Tail(b) \in Seq(Frame)
      /\ SubSeq(down[s], n + 1, Len(down[s])) \in Seq(Frame)
  BY <1>3, BytesIs
<1>5. /\ \/ /\ cli' = [cli EXCEPT ![s] = Filled(e, F("recived", f.msg))]
            /\ seen' = [seen EXCEPT ![s] = Append(seen[s], f.msg)]
         \/ cli' = [cli EXCEPT ![s] = Answering(e)] /\ UNCHANGED seen
      /\ down' = [down EXCEPT ![s] = SubSeq(down[s], n + 1, Len(down[s]))]
  BY <1>1
<1> HIDE DEF b
<1>6. Sound(e) /\ e \in End /\ e.out = NULL
  BY <1>3, <1>4, LeftIs
<1>7. f.msg \in Msg
  BY <1>4 DEF Frame
<1> HIDE DEF f, e
<1>8. PICK x : Sound(x) /\ Kept(cli[s], x) /\ cli' = [cli EXCEPT ![s] = x]
  <2>1. F("recived", f.msg) \in Frame
    BY <1>7, FrameIs
  <2>2. Sound(Filled(e, F("recived", f.msg))) /\ Sound(Answering(e))
    BY <1>6, <2>1, FilledIs, AnsweringIs
  <2> QED
    BY <1>3, <1>5, <2>2 DEF Kept
<1>9. down' \in [Sub -> Seq(Frame)]
  BY <1>4, <1>5 DEF TypeOK
<1>10. seen' \in [Sub -> Seq(Msg)]
  <2>1. Append(seen[s], f.msg) \in Seq(Msg)
    BY <1>7 DEF TypeOK
  <2> QED
    BY <1>5, <2>1 DEF TypeOK
<1>11. cli' \in [Sub -> End] /\ (\A t \in Sub : Sound(cli'[t])) /\ Slots
  BY <1>2, <1>8, ClientEnd
<1> QED
  BY <1>2, <1>9, <1>10, <1>11 DEF TypeOK, Sound

LEMMA ClientWriteKeeps ==
    ASSUME TypeOK, NEW s \in Sub, ClientWrite(s)
    PROVE  TypeOK' /\ Slots
<1>1. /\ Sound(cli[s]) /\ cli[s] \in End /\ up[s] \in Seq(Frame)
  BY Ends
<1>2. /\ cli' = [cli EXCEPT ![s] = Written(cli[s])]
      /\ up' = IF cli[s].send = "wait"
               THEN [up EXCEPT ![s] = Append(up[s], cli[s].out)] ELSE up
      /\ UNCHANGED <<stage, count, waiting, pushed, link, srv, down, loop, event, seen>>
  BY DEF ClientWrite
<1>3. cli[s].send = "wait" => Append(up[s], cli[s].out) \in Seq(Frame)
  BY <1>1 DEF Sound, End
<1>4. up' \in [Sub -> Seq(Frame)]
  BY <1>2, <1>3 DEF TypeOK
<1>5. Sound(Written(cli[s])) /\ Kept(cli[s], Written(cli[s]))
  BY <1>1, WrittenIs
<1>6. cli' \in [Sub -> End] /\ (\A t \in Sub : Sound(cli'[t])) /\ Slots
  BY <1>2, <1>5, ClientEnd
<1> QED
  BY <1>2, <1>4, <1>6 DEF TypeOK, Sound

LEMMA CloseKeeps ==
    ASSUME TypeOK, NEW s \in Sub, Close(s)
    PROVE  TypeOK' /\ Slots
BY EndsStay DEF TypeOK, Close

LEMMA NextKeeps == TypeOK /\ [Next]_vars => TypeOK' /\ Slots
<1> SUFFICES ASSUME TypeOK, [Next]_vars PROVE TypeOK' /\ Slots
  OBVIOUS
<1>1. CASE UNCHANGED vars
  BY <1>1, EndsStay DEF TypeOK, vars
<1> QED
  BY <1>1, AddKeeps, TickKeeps, PollKeeps, PollOtherKeeps, HandleKeeps,
     ClientReadKeeps, ClientWriteKeeps, CloseKeeps DEF Next

(* Every variable of the pushers and their connections has its type, and a *)
(* send slot is full exactly while sendState is WAIT and the end wants to  *)
(* write.                                                                  *)
THEOREM TypesCorrect == Spec => []TypeOK
<1>1. Init => TypeOK
  BY InitType
<1>2. TypeOK /\ [Next]_vars => TypeOK'
  BY NextKeeps
<1> QED
  BY <1>1, <1>2, PTL DEF Spec

(* What pushToTarget or a handler puts in a send slot is written before    *)
(* anything else takes the slot, although the tick may run between the     *)
(* poll of an event and its handler.                                       *)
THEOREM SlotsKept == Spec => SlotKept
<1>1. TypeOK /\ [Next]_vars =>
         [\A s \in Sub : Kept(srv[s], srv'[s]) /\ Kept(cli[s], cli'[s])]_vars
  BY NextKeeps DEF Slots
<1> QED
  BY <1>1, TypesCorrect, PTL DEF Spec, SlotKept
-----------------------------------------------------------------------------
(* The places where x is in a sequence.                                    *)
Places(q, x) == {i \in 1 .. Len(q) : q[i] = x}

LEMMA PlacesFinite ==
    ASSUME NEW S, NEW q \in Seq(S), NEW x
    PROVE  /\ IsFiniteSet(Places(q, x)) /\ Times(q, x) \in Nat
           /\ Times(q, x) = Cardinality(Places(q, x))
           /\ Places(q, x) = {} => Times(q, x) = 0
<1>1. IsFiniteSet(1 .. Len(q)) /\ Places(q, x) \subseteq 1 .. Len(q)
  BY FS_Interval DEF Places
<1>2. IsFiniteSet(Places(q, x))
  BY <1>1, FS_Subset
<1> QED
  BY <1>2, FS_CardinalityType, FS_EmptySet DEF Times, Places

(* A set of numbers moved up by k.                                         *)
LEMMA Shifted ==
    ASSUME NEW A \in SUBSET Nat, IsFiniteSet(A), NEW k \in Nat
    PROVE  LET B == {k + i : i \in A}
           IN  IsFiniteSet(B) /\ Cardinality(B) = Cardinality(A)
<1> DEFINE B == {k + i : i \in A}
           f == [i \in A |-> k + i]
<1>1. f \in Injection(A, B)
  <2>1. f \in [A -> B] /\ DOMAIN f = A
    OBVIOUS
  <2>2. ASSUME NEW a \in A, NEW b \in A, f[a] = f[b] PROVE a = b
    <3>1. k + a = k + b /\ a \in Nat /\ b \in Nat
      BY <2>2
    <3> QED
      BY <3>1
  <2> HIDE DEF f
  <2> QED
    BY <2>1, <2>2 DEF Injection, IsInjective
<1>2. f \in Surjection(A, B)
  BY DEF Surjection
<1>3. ExistsBijection(A, B)
  BY <1>1, <1>2 DEF ExistsBijection, Bijection
<1> QED
  BY <1>3, FS_Bijection

LEMMA TimesConcat ==
    ASSUME NEW S, NEW p \in Seq(S), NEW q \in Seq(S), NEW x
    PROVE  Times(p \o q, x) = Times(p, x) + Times(q, x)
<1> DEFINE r == p \o q
           A == Places(p, x)
           B == Places(q, x)
           D == {Len(p) + i : i \in B}
<1>1. /\ r \in Seq(S) /\ Len(p) \in Nat /\ Len(q) \in Nat /\ Len(r) = Len(p) + Len(q)
      /\ \A i \in 1 .. Len(r) : r[i] = IF i <= Len(p) THEN p[i] ELSE q[i - Len(p)]
  BY ConcatProperties
<1> HIDE DEF r
<1>2. Places(r, x) = A \cup D
  <2>1. ASSUME NEW i \in Places(r, x), i > Len(p) PROVE i \in D
    <3>1. i - Len(p) \in B
      BY <1>1, <2>1 DEF Places
    <3>2. i = Len(p) + (i - Len(p))
      BY <1>1, <2>1 DEF Places
    <3> QED
      BY <3>1, <3>2
  <2>2. ASSUME NEW i \in B PROVE Len(p) + i \in Places(r, x)
    <3>1. i \in 1 .. Len(q) /\ q[i] = x
      BY DEF Places
    <3>2. Len(p) + i \in 1 .. Len(r) /\ ~(Len(p) + i <= Len(p))
      BY <1>1, <3>1
    <3>3. r[Len(p) + i] = q[(Len(p) + i) - Len(p)]
      BY <1>1, <3>2
    <3>4. (Len(p) + i) - Len(p) = i
      BY <1>1, <3>1
    <3> QED
      BY <3>1, <3>2, <3>3, <3>4 DEF Places
  <2>3. ASSUME NEW i \in A PROVE i \in Places(r, x)
    BY <1>1 DEF Places
  <2>4. ASSUME NEW i \in Places(r, x), ~(i > Len(p)) PROVE i \in A
    BY <1>1, <2>4 DEF Places
  <2> QED
    BY <2>1, <2>2, <2>3, <2>4
<1>3. A \cap D = {}
  BY <1>1 DEF Places
<1>4. /\ IsFiniteSet(A) /\ Times(p, x) = Cardinality(A)
      /\ IsFiniteSet(B) /\ Times(q, x) = Cardinality(B)
      /\ Times(r, x) = Cardinality(Places(r, x))
      /\ Times(p, x) \in Nat /\ Times(q, x) \in Nat
  BY <1>1, PlacesFinite
<1>5. IsFiniteSet(D) /\ Cardinality(D) = Cardinality(B)
  <2>1. B \in SUBSET Nat
    BY DEF Places
  <2> HIDE DEF B
  <2>2. LET E == {Len(p) + i : i \in B}
        IN  IsFiniteSet(E) /\ Cardinality(E) = Cardinality(B)
    BY <1>1, <1>4, <2>1, Shifted
  <2> QED
    BY <2>2
<1>6. Cardinality(A \cup D) = Cardinality(A) + Cardinality(D)
  <2> HIDE DEF A, B, D
  <2>1. Cardinality(A \cup D) = Cardinality(A) + Cardinality(D) - Cardinality({})
    BY <1>3, <1>4, <1>5, FS_Union
  <2>2. Cardinality(A) \in Nat /\ Cardinality(D) \in Nat
    BY <1>4, <1>5, FS_CardinalityType
  <2> QED
    BY <2>1, <2>2, FS_EmptySet
<1> QED
  BY <1>2, <1>4, <1>5, <1>6 DEF r

LEMMA TimesOne == \A x, y : Times(<<y>>, x) = One(y = x) /\ Times(<<>>, x) = 0
<1> TAKE x, y
<1>1. Times(<<>>, x) = 0
  <2>1. {i \in 1 .. Len(<<>>) : <<>>[i] = x} = {}
    OBVIOUS
  <2> QED
    BY <2>1, FS_EmptySet DEF Times
<1>2. CASE y = x
  <2>1. {i \in 1 .. Len(<<y>>) : <<y>>[i] = x} = {1}
    BY <1>2
  <2> QED
    BY <1>1, <1>2, <2>1, FS_Singleton DEF Times, One
<1>3. CASE y # x
  <2>1. {i \in 1 .. Len(<<y>>) : <<y>>[i] = x} = {}
    BY <1>3
  <2> QED
    BY <1>1, <1>3, <2>1, FS_EmptySet DEF Times, One
<1> QED
  BY <1>2, <1>3

LEMMA TimesAppend ==
    ASSUME NEW S, NEW q \in Seq(S), NEW y \in S, NEW x
    PROVE  Times(Append(q, y), x) = Times(q, x) + One(y = x)
<1>1. Append(q, y) = q \o <<y>> /\ <<y>> \in Seq(S)
  OBVIOUS
<1>2. Times(q \o <<y>>, x) = Times(q, x) + Times(<<y>>, x)
  BY <1>1, TimesConcat
<1> QED
  BY <1>1, <1>2, TimesOne

LEMMA TimesTail ==
    ASSUME NEW S, NEW q \in Seq(S), q # <<>>, NEW x
    PROVE  Times(q, x) = One(Head(q) = x) + Times(Tail(q), x)
<1>1. Head(q) \in S /\ Tail(q) \in Seq(S)
  BY HeadTailProperties
<1>2. q = <<Head(q)>> \o Tail(q) /\ <<Head(q)>> \in Seq(S)
  BY <1>1
<1>3. Times(<<Head(q)>> \o Tail(q), x) = Times(<<Head(q)>>, x) + Times(Tail(q), x)
  BY <1>1, <1>2, TimesConcat
<1> QED
  BY <1>2, <1>3, TimesOne

LEMMA SplitIs ==
    ASSUME NEW S, NEW q \in Seq(S), NEW n \in 0 .. Len(q)
    PROVE  /\ SubSeq(q, 1, n) \in Seq(S) /\ SubSeq(q, n + 1, Len(q)) \in Seq(S)
           /\ q = SubSeq(q, 1, n) \o SubSeq(q, n + 1, Len(q))
<1>1. Len(q) \in Nat /\ n \in Int /\ 0 <= n /\ n <= Len(q)
  OBVIOUS
<1>2. /\ \A i \in 1 .. n : q[i] \in S
      /\ \A i \in n + 1 .. Len(q) : q[i] \in S
  BY <1>1
<1>3. SubSeq(q, 1, n) \in Seq(S)
  BY <1>1, <1>2, SubSeqProperties
<1>4. SubSeq(q, n + 1, Len(q)) \in Seq(S)
  BY <1>1, <1>2, SubSeqProperties
<1>5. SubSeq(q, 1, n) \o SubSeq(q, n + 1, Len(q)) = SubSeq(q, 1, Len(q))
  <2>1. 1 \in 1 .. Len(q) + 1 /\ n \in 1 - 1 .. Len(q) /\ Len(q) \in n .. Len(q)
    BY <1>1
  <2> QED
    BY <2>1, ConcatAdjacentSubSeq
<1>6. SubSeq(q, 1, Len(q)) = q
  BY SubSeqFull
<1> QED
  BY <1>3, <1>4, <1>5, <1>6

LEMMA TimesSplit ==
    ASSUME NEW S, NEW q \in Seq(S), NEW n \in 0 .. Len(q), NEW x
    PROVE  Times(q, x) = Times(SubSeq(q, 1, n), x)
                            + Times(SubSeq(q, n + 1, Len(q)), x)
<1>1. PICK u, v : u = SubSeq(q, 1, n) /\ v = SubSeq(q, n + 1, Len(q))
  OBVIOUS
<1>2. u \in Seq(S) /\ v \in Seq(S) /\ q = u \o v
  BY <1>1, SplitIs
<1>3. Times(u \o v, x) = Times(u, x) + Times(v, x)
  BY <1>2, TimesConcat
<1> QED
  BY <1>1, <1>2, <1>3

LEMMA TimesSame ==
    ASSUME NEW S, NEW q \in Seq(S), NEW y, \A i \in 1 .. Len(q) : q[i] = y, NEW x
    PROVE  Times(q, x) = IF x = y THEN Len(q) ELSE 0
<1>1. {i \in 1 .. Len(q) : q[i] = x} = IF x = y THEN 1 .. Len(q) ELSE {}
  OBVIOUS
<1>2. Cardinality(1 .. Len(q)) = Len(q) /\ Cardinality({}) = 0
  <2>1. Len(q) \in Nat
    OBVIOUS
  <2>2. Cardinality(1 .. Len(q)) = IF 1 > Len(q) THEN 0 ELSE Len(q) - 1 + 1
    BY <2>1, FS_Interval
  <2> QED
    BY <2>1, <2>2, FS_EmptySet
<1>3. Times(q, x) = Cardinality(IF x = y THEN 1 .. Len(q) ELSE {})
  BY <1>1 DEF Times
<1> QED
  BY <1>2, <1>3
-----------------------------------------------------------------------------
(* What Total counts.                                                      *)
Each(f) == UNION {{s} \X (1 .. f[s]) : s \in Sub}

LEMMA EachFinite ==
    ASSUME NEW f \in [Sub -> Nat]
    PROVE  IsFiniteSet(Each(f)) /\ Total(f) = Cardinality(Each(f)) /\ Total(f) \in Nat
<1> DEFINE T == {{s} \X (1 .. f[s]) : s \in Sub}
           g == [s \in Sub |-> {s} \X (1 .. f[s])]
<1>1. g \in Surjection(Sub, T)
  BY DEF Surjection
<1>2. IsFiniteSet(T)
  BY <1>1, SubAssumption, FS_Surjection
<1>3. ASSUME NEW s \in Sub PROVE IsFiniteSet({s} \X (1 .. f[s]))
  <2>1. IsFiniteSet({s})
    BY FS_Singleton
  <2>2. IsFiniteSet(1 .. f[s])
    <3>1. f[s] \in Int
      OBVIOUS
    <3> QED
      BY <3>1, FS_Interval
  <2> QED
    BY <2>1, <2>2, FS_Product
<1>4. IsFiniteSet(UNION T)
  BY <1>2, <1>3, FS_UNION
<1> QED
  BY <1>4, FS_CardinalityType DEF Total, Each

(* One more of one subscribe is one more in all.                           *)
LEMMA TotalUp ==
    ASSUME NEW f \in [Sub -> Nat], NEW g \in [Sub -> Nat], NEW s \in Sub,
           g[s] = f[s] + 1, \A t \in Sub \ {s} : g[t] = f[t]
    PROVE  Total(g) = Total(f) + 1
<1>1. Each(g) = Each(f) \cup {<<s, g[s]>>}
  <2>1. ASSUME NEW t \in Sub, NEW i \in 1 .. g[t] PROVE <<t, i>> \in Each(f) \cup {<<s, g[s]>>}
    BY DEF Each
  <2>2. ASSUME NEW t \in Sub, NEW i \in 1 .. f[t] PROVE <<t, i>> \in Each(g)
    BY DEF Each
  <2>3. <<s, g[s]>> \in Each(g)
    BY DEF Each
  <2> QED
    BY <2>1, <2>2, <2>3 DEF Each
<1>2. <<s, g[s]>> \notin Each(f)
  BY DEF Each
<1> QED
  BY <1>1, <1>2, EachFinite, FS_AddElement

LEMMA TotalZero ==
    ASSUME NEW f \in [Sub -> Nat]
    PROVE  Total(f) = 0 <=> \A s \in Sub : f[s] = 0
<1>1. Total(f) = 0 <=> Each(f) = {}
  BY EachFinite, FS_EmptySet
<1>2. ASSUME NEW s \in Sub, f[s] # 0 PROVE Each(f) # {}
  <2>1. <<s, 1>> \in Each(f)
    BY <1>2 DEF Each
  <2> QED
    BY <2>1
<1>3. ASSUME \A s \in Sub : f[s] = 0 PROVE Each(f) = {}
  BY <1>3 DEF Each
<1> QED
  BY <1>1, <1>2, <1>3
-----------------------------------------------------------------------------
Acks == {f \in Frame : f.kind = "recived"}

(* The invariant that the counts rest on.  What a client sends are         *)
(* acknowledgements.                                                       *)
Acknowledgements ==
    \A s \in Sub : /\ cli[s].out \in Acks \cup {NULL}
                   /\ up[s] \in Seq(Acks) /\ srv[s].left \in Seq(Acks)

(* A copy that has left the queue of its pusher is in messagePushed.       *)
Handed ==
    \A s \in Sub, m \in Msg : Owed(s, m) > Times(waiting[s], m) => m \in pushed[s]

(* No count is negative, and a message that is not with the pushers has    *)
(* none.                                                                   *)
Settled == /\ count \in [Msg -> Nat]
           /\ \A m \in Msg : stage[m] # "using" => count[m] = 0

(* A subscriber has seen every copy of a message but those on their way.   *)
Tally ==
    \A s \in Sub, m \in Msg :
       Times(seen[s], m) + Going(s, m) = IF Started(m) THEN Copies[s] ELSE 0

PushInv == TypeOK /\ Acknowledgements /\ Handed /\ Settled /\ Tally /\ Accounted

(* Parts of a read count as much as the whole.                             *)
LEMMA ReadCounts ==
    ASSUME NEW S, NEW e, e.left \in Seq(S), NEW w \in Seq(S), NEW n \in Reads(w), NEW x
    PROVE  Times(e.left, x) + Times(w, x)
              = One(Head(Bytes(e, w, n)) = x) + Times(Tail(Bytes(e, w, n)), x)
                + Times(SubSeq(w, n + 1, Len(w)), x)
<1> DEFINE b == Bytes(e, w, n)
           u == SubSeq(w, 1, n)
           v == SubSeq(w, n + 1, Len(w))
<1>1. /\ n \in 0 .. Len(w) /\ u \in Seq(S) /\ v \in Seq(S)
      /\ b \in Seq(S) /\ b # <<>> /\ Tail(b) \in Seq(S) /\ b = e.left \o u
  BY ReadIs DEF Bytes
<1>2. Times(b, x) = One(Head(b) = x) + Times(Tail(b), x)
  BY <1>1, TimesTail
<1>3. Times(w, x) = Times(u, x) + Times(v, x)
  BY <1>1, TimesSplit
<1>4. Times(b, x) = Times(e.left, x) + Times(u, x)
  <2>1. Times(e.left \o u, x) = Times(e.left, x) + Times(u, x)
    <3> HIDE DEF u
    <3> QED
      BY <1>1, TimesConcat
  <2> QED
    BY <1>1, <2>1
<1>5. /\ Times(e.left, x) \in Nat /\ Times(u, x) \in Nat /\ Times(v, x) \in Nat
      /\ Times(Tail(b), x) \in Nat
  BY <1>1, PlacesFinite
<1>6. One(Head(b) = x) \in {0, 1}
  BY DEF One
<1> HIDE DEF b, u, v
<1>7. Times(e.left, x) + Times(w, x) = One(Head(b) = x) + Times(Tail(b), x) + Times(v, x)
  BY <1>2, <1>3, <1>4, <1>5, <1>6
<1> QED
  BY <1>7 DEF b, v

(* Every part of what is owed is a number.                                 *)
LEMMA Numbers ==
    ASSUME TypeOK, NEW s \in Sub, NEW m \in Msg
    PROVE  /\ Times(waiting[s], m) \in Nat /\ Times(seen[s], m) \in Nat
           /\ \A f : /\ Times(down[s], f) \in Nat /\ Times(cli[s].left, f) \in Nat
                     /\ Times(up[s], f) \in Nat /\ Times(srv[s].left, f) \in Nat
           /\ Going(s, m) \in Nat /\ Coming(s, m) \in Nat /\ Owed(s, m) \in Nat
<1>1. /\ waiting[s] \in Seq(Msg) /\ seen[s] \in Seq(Msg)
      /\ down[s] \in Seq(Frame) /\ up[s] \in Seq(Frame)
      /\ cli[s].left \in Seq(Frame) /\ srv[s].left \in Seq(Frame)
  BY Ends DEF TypeOK, End
<1>2. Times(waiting[s], m) \in Nat /\ Times(seen[s], m) \in Nat
  BY <1>1, PlacesFinite
<1>3. \A f : /\ Times(down[s], f) \in Nat /\ Times(cli[s].left, f) \in Nat
            /\ Times(up[s], f) \in Nat /\ Times(srv[s].left, f) \in Nat
  BY <1>1, PlacesFinite
<1>5. Going(s, m) \in Nat
  BY <1>2, <1>3 DEF Going, One
<1>6. Coming(s, m) \in Nat
  BY <1>3 DEF Coming, One
<1> QED
  BY <1>2, <1>3, <1>5, <1>6 DEF Owed

(* Steps that only move copies along.                                      *)
LEMMA BooksStay ==
    ASSUME PushInv, UNCHANGED <<count, waiting, pushed>>,
           \A m \in Msg : /\ stage'[m] = "using" <=> stage[m] = "using"
                          /\ Started(m)' <=> Started(m),
           \A s \in Sub, m \in Msg :
              /\ Owed(s, m)' = Owed(s, m)
              /\ Times(seen[s], m)' + Going(s, m)' = Times(seen[s], m) + Going(s, m)
    PROVE  (Handed /\ Settled /\ Tally /\ Accounted)'
<1>1. Handed /\ Settled /\ Tally /\ Accounted
  BY DEF PushInv
<1>2. Handed'
  BY <1>1 DEF Handed
<1>3. Settled'
  BY <1>1 DEF Settled
<1>4. Tally'
  BY <1>1 DEF Tally
<1>5. Accounted'
  <2>1. ASSUME NEW m \in Msg PROVE count'[m] = Total([s \in Sub |-> Owed(s, m)'])
    <3>1. [s \in Sub |-> Owed(s, m)'] = [s \in Sub |-> Owed(s, m)]
      OBVIOUS
    <3> QED
      BY <1>1, <3>1 DEF Accounted
  <2> QED
    BY <2>1 DEF Accounted
<1> QED
  BY <1>2, <1>3, <1>4, <1>5

(* Steps that leave pushers, connections and clients alone.                *)
LEMMA PlacesStay ==
    ASSUME PushInv, UNCHANGED <<count, waiting, pushed, srv, cli, down, up, seen>>,
           \A m \in Msg : /\ stage'[m] = "using" <=> stage[m] = "using"
                          /\ Started(m)' <=> Started(m)
    PROVE  (Acknowledgements /\ Handed /\ Settled /\ Tally /\ Accounted)'
<1>1. \A s \in Sub, m \in Msg :
         /\ Owed(s, m)' = Owed(s, m) /\ Times(seen[s], m)' = Times(seen[s], m)
         /\ Going(s, m)' = Going(s, m)
  BY DEF Owed, Going, Coming
<1>2. Acknowledgements'
  BY DEF PushInv, Acknowledgements
<1> QED
  BY <1>1, <1>2, BooksStay

LEMMA AddCounts ==
    ASSUME PushInv, NEW m \in Msg, Add(m)
    PROVE  (Acknowledgements /\ Handed /\ Settled /\ Tally /\ Accounted)'
<1>1. \A x \in Msg : /\ stage'[x] = "using" <=> stage[x] = "using"
                     /\ Started(x)' <=> Started(x)
  BY DEF PushInv, TypeOK, Add, Started
<1> QED
  BY <1>1, PlacesStay DEF Add

LEMMA OthersCount ==
    ASSUME PushInv, UNCHANGED <<stage, count, waiting, pushed, srv, cli, down, up, seen>>
    PROVE  (Acknowledgements /\ Handed /\ Settled /\ Tally /\ Accounted)'
<1>1. \A x \in Msg : /\ stage'[x] = "using" <=> stage[x] = "using"
                     /\ Started(x)' <=> Started(x)
  BY DEF Started
<1> QED
  BY <1>1, PlacesStay

(* A frame that is written is on the connection instead of in the slot.    *)
LEMMA ServerWriteMoves ==
    ASSUME TypeOK, NEW s \in Sub, ServerWrite(s), NEW t \in Sub, NEW m \in Msg,
           UNCHANGED waiting
    PROVE  Going(t, m)' = Going(t, m) /\ Coming(t, m)' = Coming(t, m)
<1>1. /\ srv' = [srv EXCEPT ![s] = Written(srv[s])]
      /\ down' = IF srv[s].send = "wait"
                 THEN [down EXCEPT ![s] = Append(down[s], srv[s].out)] ELSE down
      /\ UNCHANGED <<up, cli>>
  BY DEF ServerWrite
<1>2. /\ Sound(srv[s]) /\ down[s] \in Seq(Frame) /\ srv \in [Sub -> End]
      /\ down \in [Sub -> Seq(Frame)]
  BY Ends DEF TypeOK
<1>3. CASE t # s
  BY <1>1, <1>2, <1>3 DEF Going, Coming
<1>4. CASE t = s
  <2>1. srv'[s].out = NULL /\ srv'[s].left = srv[s].left
    BY <1>1, <1>2 DEF Written, End
  <2>2. Coming(s, m)' = Coming(s, m)
    BY <1>1, <2>1 DEF Coming
  <2>3. F("push", m) \in Frame /\ F("push", m) # NULL
    BY FrameIs, NullAssumption
  <2>4. One(srv'[s].out = F("push", m)) = 0
    BY <2>1, <2>3 DEF One
  <2>5. Times(down'[s], F("push", m))
           = Times(down[s], F("push", m)) + One(srv[s].out = F("push", m))
    <3>1. CASE srv[s].send = "wait"
      <4>1. srv[s].out \in Frame
        BY <1>2, <3>1 DEF Sound, End
      <4>2. down'[s] = Append(down[s], srv[s].out)
        BY <1>1, <1>2, <3>1
      <4> QED
        BY <1>2, <4>1, <4>2, TimesAppend
    <3>2. CASE srv[s].send # "wait"
      <4>1. srv[s].out = NULL /\ down'[s] = down[s]
        BY <1>1, <1>2, <3>2 DEF Sound
      <4>2. One(srv[s].out = F("push", m)) = 0
        BY <2>3, <4>1 DEF One
      <4>3. Times(down[s], F("push", m)) \in Nat
        BY Numbers
      <4> QED
        BY <4>1, <4>2, <4>3
    <3> QED
      BY <3>1, <3>2
  <2>6. Going(s, m)' = Going(s, m)
    <3>1. /\ Times(waiting[s], m) \in Nat /\ Times(down[s], F("push", m)) \in Nat
          /\ Times(cli[s].left, F("push", m)) \in Nat
      BY Numbers
    <3>2. One(srv[s].out = F("push", m)) \in Nat
      BY DEF One
    <3> QED
      BY <1>1, <2>4, <2>5, <3>1, <3>2 DEF Going
  <2> QED
    BY <1>4, <2>2, <2>6
<1> QED
  BY <1>3, <1>4

LEMMA ClientWriteMoves ==
    ASSUME TypeOK, NEW s \in Sub, ClientWrite(s), NEW t \in Sub, NEW m \in Msg
    PROVE  Going(t, m)' = Going(t, m) /\ Coming(t, m)' = Coming(t, m)
<1>1. /\ cli' = [cli EXCEPT ![s] = Written(cli[s])]
      /\ up' = IF cli[s].send = "wait"
               THEN [up EXCEPT ![s] = Append(up[s], cli[s].out)] ELSE up
      /\ UNCHANGED <<waiting, down, srv>>
  BY DEF ClientWrite
<1>2. /\ Sound(cli[s]) /\ up[s] \in Seq(Frame) /\ cli \in [Sub -> End]
      /\ up \in [Sub -> Seq(Frame)]
  BY Ends DEF TypeOK
<1>3. CASE t # s
  BY <1>1, <1>2, <1>3 DEF Going, Coming
<1>4. CASE t = s
  <2>1. cli'[s].out = NULL /\ cli'[s].left = cli[s].left
    BY <1>1, <1>2 DEF Written, End
  <2>2. Going(s, m)' = Going(s, m)
    BY <1>1, <2>1 DEF Going
  <2>3. F("recived", m) \in Frame /\ F("recived", m) # NULL
    BY FrameIs, NullAssumption
  <2>4. One(cli'[s].out = F("recived", m)) = 0
    BY <2>1, <2>3 DEF One
  <2>5. Times(up'[s], F("recived", m))
           = Times(up[s], F("recived", m)) + One(cli[s].out = F("recived", m))
    <3>1. CASE cli[s].send = "wait"
      <4>1. cli[s].out \in Frame
        BY <1>2, <3>1 DEF Sound, End
      <4>2. up'[s] = Append(up[s], cli[s].out)
        BY <1>1, <1>2, <3>1
      <4> QED
        BY <1>2, <4>1, <4>2, TimesAppend
    <3>2. CASE cli[s].send # "wait"
      <4>1. cli[s].out = NULL /\ up'[s] = up[s]
        BY <1>1, <1>2, <3>2 DEF Sound
      <4>2. One(cli[s].out = F("recived", m)) = 0
        BY <2>3, <4>1 DEF One
      <4>3. Times(up[s], F("recived", m)) \in Nat
        BY Numbers
      <4> QED
        BY <4>1, <4>2, <4>3
    <3> QED
      BY <3>1, <3>2
  <2>6. Coming(s, m)' = Coming(s, m)
    <3>1. /\ Times(up[s], F("recived", m)) \in Nat
          /\ Times(srv[s].left, F("recived", m)) \in Nat
      BY Numbers
    <3>2. One(cli[s].out = F("recived", m)) \in Nat
      BY DEF One
    <3> QED
      BY <1>1, <2>4, <2>5, <3>1, <3>2 DEF Coming
  <2> QED
    BY <1>4, <2>2, <2>6
<1> QED
  BY <1>3, <1>4

(* The handler of an acknowledgement takes one off the wire.               *)
LEMMA ServerReadMoves ==
    ASSUME TypeOK, Acknowledgements, NEW s \in Sub, srv[s].want = "r",
           ServerRead(s), UNCHANGED waiting
    PROVE  /\ Acknowledgements'
           /\ \E m \in Msg :
                 /\ Recived(s, m) /\ Coming(s, m) >= 1
                 /\ Coming(s, m)' = Coming(s, m) - 1
                 /\ \A t \in Sub, x \in Msg :
                       /\ Going(t, x)' = Going(t, x)
                       /\ t # s \/ x # m => Coming(t, x)' = Coming(t, x)
<1>1. PICK n \in Reads(up[s]) :
          LET b == Bytes(srv[s], up[s], n)
              m == Head(b).msg
          IN  /\ Recived(s, m)
              /\ srv' = [srv EXCEPT ![s] =
                    Left(Filled(srv[s], F(Answer(s, m), m)), Tail(b))]
              /\ up' = [up EXCEPT ![s] = SubSeq(up[s], n + 1, Len(up[s]))]
              /\ UNCHANGED <<down, cli, seen>>
  BY DEF ServerRead
<1> DEFINE b == Bytes(srv[s], up[s], n)
           v == SubSeq(up[s], n + 1, Len(up[s]))
<1>2. /\ srv[s] \in End /\ srv[s].out = NULL /\ srv \in [Sub -> End]
      /\ up \in [Sub -> Seq(Frame)]
  BY Ends DEF Sound, TypeOK
<1>3. srv[s].left \in Seq(Acks) /\ up[s] \in Seq(Acks)
  BY DEF Acknowledgements
<1>4. Head(b) \in Acks /\ Tail(b) \in Seq(Acks) /\ v \in Seq(Acks)
  BY <1>3, ReadIs
<1>5. PICK m \in Msg : Head(b) = F("recived", m)
  BY <1>4 DEF Acks, Frame, F
<1> DEFINE e == Left(Filled(srv[s], F(Answer(s, m), m)), Tail(b))
<1>6. \A x : Times(srv[s].left, x) + Times(up[s], x)
                = One(Head(b) = x) + Times(Tail(b), x) + Times(v, x)
  BY <1>3, ReadCounts
<1>7. /\ Recived(s, m) /\ srv' = [srv EXCEPT ![s] = e] /\ up' = [up EXCEPT ![s] = v]
      /\ UNCHANGED <<down, cli, seen>>
  <2>1. Head(b).msg = m
    BY <1>5 DEF F
  <2> QED
    BY <1>1, <2>1
<1>8. e.out = F(Answer(s, m), m) /\ e.left = Tail(b)
  BY <1>2 DEF Left, Filled, End
<1>9. \A x : Times(Tail(b), x) \in Nat /\ Times(v, x) \in Nat
  BY <1>4, PlacesFinite
<1> HIDE DEF b, v, e
<1>10. /\ srv'[s] = e /\ up'[s] = v
       /\ \A t \in Sub \ {s} : srv'[t] = srv[t] /\ up'[t] = up[t]
  BY <1>2, <1>7
<1>11. Acknowledgements'
  BY <1>4, <1>7, <1>8, <1>10 DEF Acknowledgements
<1>12. \A x \in Msg : Coming(s, x)' = Coming(s, x) - One(x = m)
  <2> TAKE x \in Msg
  <2>1. One(Head(b) = F("recived", x)) = One(x = m)
    <3>1. (Head(b) = F("recived", x)) <=> (x = m)
      BY <1>5 DEF F
    <3> QED
      BY <3>1 DEF One
  <2>2. /\ Times(srv[s].left, F("recived", x)) \in Nat
        /\ Times(up[s], F("recived", x)) \in Nat
    BY Numbers
  <2>3. Times(srv[s].left, F("recived", x)) + Times(up[s], F("recived", x))
           = One(x = m) + Times(Tail(b), F("recived", x)) + Times(v, F("recived", x))
    BY <1>6, <2>1
  <2>4. Times(Tail(b), F("recived", x)) \in Nat /\ Times(v, F("recived", x)) \in Nat
    BY <1>9
  <2>5. One(x = m) \in {0, 1} /\ One(cli[s].out = F("recived", x)) \in {0, 1}
    BY DEF One
  <2>6. Coming(s, x) = One(cli[s].out = F("recived", x))
                          + Times(up[s], F("recived", x)) + Times(srv[s].left, F("recived", x))
    BY DEF Coming
  <2>7. Coming(s, x)' = One(cli[s].out = F("recived", x))
                           + Times(v, F("recived", x)) + Times(Tail(b), F("recived", x))
    BY <1>7, <1>8, <1>10 DEF Coming
  <2> QED
    BY <2>2, <2>3, <2>4, <2>5, <2>6, <2>7
<1>13. \A t \in Sub \ {s}, x \in Msg : Coming(t, x)' = Coming(t, x)
  BY <1>7, <1>10 DEF Coming
<1>14. \A t \in Sub, x \in Msg : Going(t, x)' = Going(t, x)
  <2> TAKE t \in Sub, x \in Msg
  <2>1. One(srv'[t].out = F("push", x)) = One(srv[t].out = F("push", x))
    <3>1. CASE t = s
      <4>1. e.out # F("push", x)
        <5>1. e.out.kind # "push"
          BY <1>8 DEF Answer, F
        <5> QED
          BY <5>1 DEF F
      <4>2. srv[s].out # F("push", x)
        BY <1>2, FrameIs, NullAssumption
      <4> QED
        BY <1>10, <3>1, <4>1, <4>2 DEF One
    <3>2. CASE t # s
      BY <1>10, <3>2
    <3> QED
      BY <3>1, <3>2
  <2> QED
    BY <1>7, <2>1 DEF Going
<1>15. Coming(s, m)' = Coming(s, m) - 1 /\ Coming(s, m) >= 1
  <2>1. Coming(s, m)' = Coming(s, m) - 1
    <3>1. One(m = m) = 1
      BY DEF One
    <3> QED
      BY <1>5, <1>12, <3>1
  <2>2. Coming(s, m)' \in Nat
    <3>1. /\ Times(Tail(b), F("recived", m)) \in Nat /\ Times(v, F("recived", m)) \in Nat
      BY <1>9
    <3>2. Coming(s, m)' = One(cli[s].out = F("recived", m))
                             + Times(v, F("recived", m)) + Times(Tail(b), F("recived", m))
      BY <1>7, <1>8, <1>10 DEF Coming
    <3> QED
      BY <3>1, <3>2 DEF One
  <2>3. Coming(s, m) \in Nat
    BY <1>5, Numbers
  <2> QED
    BY <2>1, <2>2, <2>3
<1>16. ASSUME NEW x \in Msg, x # m PROVE Coming(s, x)' = Coming(s, x)
  <2>1. One(x = m) = 0
    BY <1>16 DEF One
  <2>2. Coming(s, x) \in Nat
    BY Numbers
  <2> QED
    BY <1>12, <2>1, <2>2
<1>17. \A t \in Sub, x \in Msg : t # s \/ x # m => Coming(t, x)' = Coming(t, x)
  BY <1>13, <1>16
<1> QED
  BY <1>5, <1>7, <1>11, <1>14, <1>15, <1>17

(* An acknowledgement is worth one, of a message that is in messagePushed  *)
(* and in use.                                                             *)
LEMMA ServerReadTakes ==
    ASSUME PushInv, NEW s \in Sub, srv[s].want = "r", ServerRead(s),
           UNCHANGED <<waiting, pushed>>
    PROVE  /\ Acknowledgements' /\ UNCHANGED seen
           /\ \E m \in Msg :
                 /\ Coming(s, m) >= 1
                 /\ Owed(s, m) >= 1 /\ Owed(s, m)' = Owed(s, m) - 1
                 /\ \A t \in Sub, x \in Msg :
                       /\ Going(t, x)' = Going(t, x)
                       /\ t # s \/ x # m => Owed(t, x)' = Owed(t, x)
                 /\ count' = [count EXCEPT ![m] = count[m] - 1]
                 /\ stage' = IF count[m] <= 1 THEN [stage EXCEPT ![m] = "freed"]
                             ELSE stage
<1>1. TypeOK /\ Acknowledgements /\ Handed /\ Settled /\ Tally /\ Accounted
  BY DEF PushInv
<1>2. UNCHANGED seen
  BY DEF ServerRead
<1>3. Acknowledgements'
  BY <1>1, ServerReadMoves
<1>4. PICK m \in Msg :
         /\ Recived(s, m) /\ Coming(s, m) >= 1
         /\ Coming(s, m)' = Coming(s, m) - 1
         /\ \A t \in Sub, x \in Msg :
               /\ Going(t, x)' = Going(t, x)
               /\ t # s \/ x # m => Coming(t, x)' = Coming(t, x)
  BY <1>1, ServerReadMoves
<1>5. \A t \in Sub, x \in Msg :
         /\ Owed(t, x) \in Nat /\ Going(t, x) \in Nat /\ Coming(t, x) \in Nat
         /\ Going(t, x) >= Times(waiting[t], x) /\ Times(waiting[t], x) \in Nat
  <2> TAKE t \in Sub, x \in Msg
  <2>1. /\ Owed(t, x) \in Nat /\ Going(t, x) \in Nat /\ Coming(t, x) \in Nat
        /\ Times(waiting[t], x) \in Nat
        /\ Times(down[t], F("push", x)) \in Nat /\ Times(cli[t].left, F("push", x)) \in Nat
    BY <1>1, Numbers
  <2>2. Going(t, x) >= Times(waiting[t], x)
    BY <2>1 DEF Going, One
  <2> QED
    BY <2>1, <2>2
<1>6. /\ Owed(s, m) >= 1 /\ Owed(s, m)' = Owed(s, m) - 1
      /\ \A t \in Sub, x \in Msg : t # s \/ x # m => Owed(t, x)' = Owed(t, x)
  BY <1>4, <1>5 DEF Owed
<1>7. m \in pushed[s]
  <2>1. Owed(s, m) > Times(waiting[s], m)
    BY <1>4, <1>5 DEF Owed
  <2> QED
    BY <1>1, <2>1 DEF Handed
<1>8. /\ count' = [count EXCEPT ![m] = count[m] - 1]
      /\ stage' = IF count[m] <= 1 THEN [stage EXCEPT ![m] = "freed"] ELSE stage
  BY <1>4, <1>7 DEF Recived
<1> QED
  BY <1>2, <1>3, <1>4, <1>6, <1>8

LEMMA ServerReadCounts ==
    ASSUME PushInv, NEW s \in Sub, srv[s].want = "r", ServerRead(s),
           UNCHANGED <<waiting, pushed>>
    PROVE  (Acknowledgements /\ Handed /\ Settled /\ Tally /\ Accounted)'
<1>1. TypeOK /\ Acknowledgements /\ Handed /\ Settled /\ Tally /\ Accounted
  BY DEF PushInv
<1>2. Acknowledgements' /\ UNCHANGED seen
  BY ServerReadTakes
<1>3. PICK m \in Msg :
         /\ Owed(s, m) >= 1 /\ Owed(s, m)' = Owed(s, m) - 1
         /\ \A t \in Sub, x \in Msg :
               /\ Going(t, x)' = Going(t, x)
               /\ t # s \/ x # m => Owed(t, x)' = Owed(t, x)
         /\ count' = [count EXCEPT ![m] = count[m] - 1]
         /\ stage' = IF count[m] <= 1 THEN [stage EXCEPT ![m] = "freed"] ELSE stage
  BY ServerReadTakes
<1>4. \A t \in Sub, x \in Msg : Owed(t, x) \in Nat /\ Times(waiting[t], x) \in Nat
  BY <1>1, Numbers
<1> DEFINE owed(x) == [t \in Sub |-> Owed(t, x)]
           next(x) == [t \in Sub |-> Owed(t, x)']
<1>9. \A x \in Msg : /\ owed(x) \in [Sub -> Nat] /\ next(x) \in [Sub -> Nat]
                     /\ count[x] = Total(owed(x)) /\ count[x] \in Nat
  <2> TAKE x \in Msg
  <2>1. owed(x) \in [Sub -> Nat]
    BY <1>4
  <2>2. next(x) \in [Sub -> Nat]
    <3>1. \A t \in Sub : Owed(t, x)' \in Nat
      BY <1>3, <1>4
    <3> QED
      BY <3>1
  <2>3. count[x] = Total(owed(x))
    BY <1>1 DEF Accounted
  <2> HIDE DEF owed, next
  <2> QED
    BY <2>1, <2>2, <2>3, EachFinite
<1>10. count[m] = Total(next(m)) + 1
  <2>1. owed(m)[s] = next(m)[s] + 1 /\ \A t \in Sub \ {s} : owed(m)[t] = next(m)[t]
    BY <1>3, <1>4
  <2> HIDE DEF owed, next
  <2> QED
    BY <1>9, <2>1, TotalUp
<1>11. Total(next(m)) \in Nat
  <2> HIDE DEF next
  <2> QED
    BY <1>9, EachFinite
<1>12. stage[m] = "using"
  BY <1>1, <1>10, <1>11 DEF Settled
<1>13. \A x \in Msg : count'[x] = Total(next(x))
  <2>1. ASSUME NEW x \in Msg, x # m PROVE next(x) = owed(x)
    BY <1>3, <2>1
  <2>2. count \in [Msg -> Nat]
    BY <1>1 DEF Settled
  <2> HIDE DEF owed, next
  <2>3. ASSUME NEW x \in Msg, x # m PROVE count'[x] = Total(next(x))
    BY <1>3, <1>9, <2>1, <2>2, <2>3
  <2>4. count'[m] = Total(next(m))
    BY <1>3, <1>10, <1>11, <2>2
  <2> QED
    BY <2>3, <2>4
<1>14. Accounted'
  BY <1>13 DEF Accounted
<1>15. Settled'
  <2>1. count \in [Msg -> Nat] /\ stage \in [Msg -> {"fresh", "ready", "using", "freed"}]
    BY <1>1 DEF Settled, TypeOK
  <2>2. count[m] >= 1
    BY <1>10, <1>11
  <2> QED
    BY <1>1, <1>3, <1>12, <2>1, <2>2 DEF Settled
<1>16. Tally'
  <2>1. \A x \in Msg : Started(x)' <=> Started(x)
    BY <1>1, <1>3, <1>12 DEF Started, TypeOK
  <2> QED
    BY <1>1, <1>2, <1>3, <2>1 DEF Tally
<1>17. Handed'
  BY <1>1, <1>3, <1>4 DEF Handed
<1> QED
  BY <1>2, <1>14, <1>15, <1>16, <1>17

(* A client that reads a push prints it and owes an acknowledgement; it    *)
(* drops everything else.                                                  *)
LEMMA ClientReadMoves ==
    ASSUME TypeOK, Acknowledgements, NEW s \in Sub, ClientRead(s)
    PROVE  /\ Acknowledgements'
           /\ \/ \E m \in Msg :
                    /\ seen' = [seen EXCEPT ![s] = Append(seen[s], m)]
                    /\ Going(s, m) >= 1
                    /\ Going(s, m)' = Going(s, m) - 1
                    /\ Coming(s, m)' = Coming(s, m) + 1
                    /\ \A t \in Sub, x \in Msg : t # s \/ x # m =>
                          /\ Going(t, x)' = Going(t, x)
                          /\ Coming(t, x)' = Coming(t, x)
              \/ /\ UNCHANGED seen
                 /\ \A t \in Sub, x \in Msg :
                       /\ Going(t, x)' = Going(t, x)
                       /\ Coming(t, x)' = Coming(t, x)
<1>1. PICK n \in Reads(down[s]) :
          LET b == Bytes(cli[s], down[s], n)
              f == Head(b)
              e == Left(cli[s], Tail(b))
          IN  /\ \/ /\ f.kind = "push"
                    /\ cli' = [cli EXCEPT ![s] = Filled(e, F("recived", f.msg))]
                    /\ seen' = [seen EXCEPT ![s] = Append(seen[s], f.msg)]
                 \/ /\ f.kind # "push"
                    /\ cli' = [cli EXCEPT ![s] = Answering(e)]
                    /\ UNCHANGED seen
              /\ down' = [down EXCEPT ![s] = SubSeq(down[s], n + 1, Len(down[s]))]
  BY DEF ClientRead
<1>2. /\ UNCHANGED <<waiting, srv, up>> /\ cli[s].want = "r"
  BY DEF ClientRead
<1> DEFINE b == Bytes(cli[s], down[s], n)
           v == SubSeq(down[s], n + 1, Len(down[s]))
<1>3. /\ cli[s] \in End /\ cli[s].out = NULL /\ cli \in [Sub -> End]
      /\ down[s] \in Seq(Frame) /\ down \in [Sub -> Seq(Frame)]
      /\ cli[s].left \in Seq(Frame)
  BY <1>2, Ends DEF Sound, TypeOK, End
<1>4. Head(b) \in Frame /\ Tail(b) \in Seq(Frame) /\ v \in Seq(Frame)
  BY <1>3, ReadIs
<1>5. \A x : Times(cli[s].left, x) + Times(down[s], x)
                = One(Head(b) = x) + Times(Tail(b), x) + Times(v, x)
  <2>1. cli[s].left \in Seq(Frame) /\ down[s] \in Seq(Frame)
    BY <1>3
  <2> QED
    BY <2>1, ReadCounts
<1>6. PICK k \in {"push", "recived", "finish", "error"}, m \in Msg : Head(b) = F(k, m)
  BY <1>4 DEF Frame, F
<1>7. /\ down' = [down EXCEPT ![s] = v]
      /\ \/ /\ k = "push"
            /\ cli' = [cli EXCEPT ![s] = Filled(Left(cli[s], Tail(b)), F("recived", m))]
            /\ seen' = [seen EXCEPT ![s] = Append(seen[s], m)]
         \/ /\ k # "push"
            /\ cli' = [cli EXCEPT ![s] = Answering(Left(cli[s], Tail(b)))]
            /\ UNCHANGED seen
  <2>1. Head(b).msg = m /\ Head(b).kind = k
    BY <1>6 DEF F
  <2> QED
    BY <1>1, <2>1
<1>8. \A x : Times(Tail(b), x) \in Nat /\ Times(v, x) \in Nat
  BY <1>4, PlacesFinite
<1> HIDE DEF b, v
<1>9. /\ down'[s] = v /\ cli'[s].left = Tail(b)
      /\ cli'[s].out = IF k = "push" THEN F("recived", m) ELSE NULL
      /\ \A t \in Sub \ {s} : cli'[t] = cli[t] /\ down'[t] = down[t]
  <2> DEFINE e == Left(cli[s], Tail(b))
  <2>1. e.left = Tail(b) /\ e.out = NULL
    BY <1>3 DEF Left, End
  <2>2. /\ Filled(e, F("recived", m)).left = Tail(b)
        /\ Filled(e, F("recived", m)).out = F("recived", m)
        /\ Answering(e).left = Tail(b) /\ Answering(e).out = NULL
    BY <1>3, <2>1 DEF Filled, Answering, Left, End
  <2> HIDE DEF e
  <2>3. \/ k = "push" /\ cli' = [cli EXCEPT ![s] = Filled(e, F("recived", m))]
        \/ k # "push" /\ cli' = [cli EXCEPT ![s] = Answering(e)]
    BY <1>7 DEF e
  <2>4. /\ down'[s] = v
        /\ \A t \in Sub \ {s} : cli'[t] = cli[t] /\ down'[t] = down[t]
    BY <1>3, <1>7, <2>3
  <2> QED
    BY <1>3, <2>2, <2>3, <2>4
<1>10. Acknowledgements'
  <2>1. F("recived", m) \in Acks
    BY FrameIs DEF Acks, F
  <2>2. \A t \in Sub : cli'[t].out \in Acks \cup {NULL}
    BY <1>9, <2>1 DEF Acknowledgements
  <2> QED
    BY <1>2, <2>2 DEF Acknowledgements
<1>11. \A t \in Sub \ {s}, x \in Msg :
          Going(t, x)' = Going(t, x) /\ Coming(t, x)' = Coming(t, x)
  BY <1>2, <1>9 DEF Going, Coming
<1> DEFINE d(x) == IF k = "push" /\ x = m THEN 1 ELSE 0
<1>12. \A x \in Msg : Going(s, x)' = Going(s, x) - d(x) /\ Going(s, x) >= d(x)
  <2> TAKE x \in Msg
  <2>1. One(Head(b) = F("push", x)) = d(x)
    <3>1. (Head(b) = F("push", x)) <=> (k = "push" /\ x = m)
      BY <1>6 DEF F
    <3> QED
      BY <3>1 DEF One
  <2>2. /\ Times(waiting[s], x) \in Nat
        /\ Times(cli[s].left, F("push", x)) \in Nat /\ Times(down[s], F("push", x)) \in Nat
        /\ Times(Tail(b), F("push", x)) \in Nat /\ Times(v, F("push", x)) \in Nat
    BY <1>8, Numbers
  <2>3. Times(cli[s].left, F("push", x)) + Times(down[s], F("push", x))
           = d(x) + Times(Tail(b), F("push", x)) + Times(v, F("push", x))
    BY <1>5, <2>1
  <2>4. Going(s, x) = Times(waiting[s], x) + One(srv[s].out = F("push", x))
                         + Times(down[s], F("push", x)) + Times(cli[s].left, F("push", x))
    BY DEF Going
  <2>5. Going(s, x)' = Times(waiting[s], x) + One(srv[s].out = F("push", x))
                          + Times(v, F("push", x)) + Times(Tail(b), F("push", x))
    BY <1>2, <1>9 DEF Going
  <2>6. One(srv[s].out = F("push", x)) \in Nat /\ d(x) \in Nat
    BY DEF One
  <2> HIDE DEF d
  <2> QED
    BY <2>2, <2>3, <2>4, <2>5, <2>6
<1>13. \A x \in Msg : Coming(s, x)' = Coming(s, x) + d(x)
  <2> TAKE x \in Msg
  <2>1. One(cli[s].out = F("recived", x)) = 0
    <3>1. F("recived", x) \in Frame
      BY FrameIs
    <3> QED
      BY <1>3, <3>1, NullAssumption DEF One
  <2>2. One(cli'[s].out = F("recived", x)) = d(x)
    <3>1. F("recived", x) \in Frame
      BY FrameIs
    <3>2. (cli'[s].out = F("recived", x)) <=> (k = "push" /\ x = m)
      <4>1. F("recived", x) # NULL
        BY <3>1, NullAssumption
      <4>2. (F("recived", m) = F("recived", x)) <=> (x = m)
        BY DEF F
      <4> QED
        BY <1>9, <4>1, <4>2
    <3> QED
      BY <3>2 DEF One
  <2>3. Times(up[s], F("recived", x)) \in Nat /\ Times(srv[s].left, F("recived", x)) \in Nat
    BY Numbers
  <2>4. d(x) \in Nat
    OBVIOUS
  <2> HIDE DEF d
  <2> QED
    BY <1>2, <2>1, <2>2, <2>3, <2>4 DEF Coming
<1>14. CASE k = "push"
  <2>1. d(m) = 1 /\ \A x \in Msg \ {m} : d(x) = 0
    BY <1>14
  <2>2. \A x \in Msg : Going(s, x) \in Nat /\ Coming(s, x) \in Nat
    BY Numbers
  <2>3. /\ Going(s, m) >= 1 /\ Going(s, m)' = Going(s, m) - 1
        /\ Coming(s, m)' = Coming(s, m) + 1
    <3> HIDE DEF d
    <3> QED
      BY <1>12, <1>13, <2>1
  <2>4. \A x \in Msg \ {m} : Going(s, x)' = Going(s, x) /\ Coming(s, x)' = Coming(s, x)
    <3> HIDE DEF d
    <3> QED
      BY <1>12, <1>13, <2>1, <2>2
  <2>5. \A t \in Sub, x \in Msg : t # s \/ x # m =>
           Going(t, x)' = Going(t, x) /\ Coming(t, x)' = Coming(t, x)
    BY <1>11, <2>4
  <2>6. seen' = [seen EXCEPT ![s] = Append(seen[s], m)]
    BY <1>7, <1>14
  <2> QED
    BY <1>10, <2>3, <2>5, <2>6
<1>15. CASE k # "push"
  <2>1. \A x \in Msg : d(x) = 0
    BY <1>15
  <2>2. \A x \in Msg : Going(s, x) \in Nat /\ Coming(s, x) \in Nat
    BY Numbers
  <2>3. \A x \in Msg : Going(s, x)' = Going(s, x) /\ Coming(s, x)' = Coming(s, x)
    <3> HIDE DEF d
    <3> QED
      BY <1>12, <1>13, <2>1, <2>2
  <2> QED
    BY <1>7, <1>10, <1>11, <1>15, <2>3
<1> QED
  BY <1>14, <1>15

LEMMA ClientReadCounts ==
    ASSUME PushInv, NEW s \in Sub, ClientRead(s)
    PROVE  (Acknowledgements /\ Handed /\ Settled /\ Tally /\ Accounted)'
<1>1. TypeOK /\ Acknowledgements
  BY DEF PushInv
<1>2. UNCHANGED <<stage, count, waiting, pushed>>
  BY DEF ClientRead
<1>3. /\ Acknowledgements'
      /\ \A t \in Sub, x \in Msg :
            /\ Owed(t, x)' = Owed(t, x)
            /\ Times(seen[t], x)' + Going(t, x)' = Times(seen[t], x) + Going(t, x)
  <2>1. \A t \in Sub, x \in Msg : /\ Going(t, x) \in Nat /\ Coming(t, x) \in Nat
                                  /\ Times(seen[t], x) \in Nat
    BY <1>1, Numbers
  <2>2. CASE /\ UNCHANGED seen
             /\ \A t \in Sub, x \in Msg :
                   /\ Going(t, x)' = Going(t, x)
                   /\ Coming(t, x)' = Coming(t, x)
    BY <1>1, <2>2, ClientReadMoves DEF Owed
  <2>3. CASE \E m \in Msg :
                /\ seen' = [seen EXCEPT ![s] = Append(seen[s], m)]
                /\ Going(s, m) >= 1
                /\ Going(s, m)' = Going(s, m) - 1
                /\ Coming(s, m)' = Coming(s, m) + 1
                /\ \A t \in Sub, x \in Msg : t # s \/ x # m =>
                      /\ Going(t, x)' = Going(t, x)
                      /\ Coming(t, x)' = Coming(t, x)
    <3>1. PICK m \in Msg :
             /\ seen' = [seen EXCEPT ![s] = Append(seen[s], m)]
             /\ Going(s, m)' = Going(s, m) - 1
             /\ Coming(s, m)' = Coming(s, m) + 1
             /\ \A t \in Sub, x \in Msg : t # s \/ x # m =>
                   /\ Going(t, x)' = Going(t, x)
                   /\ Coming(t, x)' = Coming(t, x)
      BY <2>3
    <3>2. seen \in [Sub -> Seq(Msg)] /\ seen[s] \in Seq(Msg)
      BY <1>1 DEF TypeOK
    <3>3. /\ \A t \in Sub \ {s} : seen'[t] = seen[t]
          /\ seen'[s] = Append(seen[s], m)
      BY <3>1, <3>2
    <3>4. \A x \in Msg : Times(seen'[s], x) = Times(seen[s], x) + One(m = x)
      BY <3>2, <3>3, TimesAppend
    <3>5. \A t \in Sub, x \in Msg : Owed(t, x)' = Owed(t, x)
      BY <2>1, <3>1 DEF Owed
    <3>6. ASSUME NEW t \in Sub, NEW x \in Msg
          PROVE  Times(seen'[t], x) + Going(t, x)' = Times(seen[t], x) + Going(t, x)
      <4>1. CASE t = s /\ x = m
        <5>1. Times(seen'[s], m) = Times(seen[s], m) + 1
          BY <3>4 DEF One
        <5> QED
          BY <2>1, <3>1, <4>1, <5>1
      <4>2. CASE t = s /\ x # m
        <5>1. Times(seen'[s], x) = Times(seen[s], x) + 0
          BY <3>4, <4>2 DEF One
        <5> QED
          BY <2>1, <3>1, <4>2, <5>1
      <4>3. CASE t # s
        BY <3>1, <3>3, <4>3
      <4> QED
        BY <4>1, <4>2, <4>3
    <3> QED
      BY <1>1, <3>5, <3>6, ClientReadMoves
  <2> QED
    BY <1>1, <2>2, <2>3, ClientReadMoves
<1>4. \A m \in Msg : /\ stage'[m] = "using" <=> stage[m] = "using"
                     /\ Started(m)' <=> Started(m)
  BY <1>2 DEF Started
<1> QED
  BY <1>2, <1>3, <1>4, BooksStay

(* A pusher moves a copy from its queue to the slot; nothing else moves.   *)
LEMMA PushAllMoves ==
    ASSUME TypeOK, NEW q \in [Sub -> Seq(Msg)], PushAll(q), UNCHANGED <<cli, down, up>>,
           NEW s \in Sub, NEW m \in Msg
    PROVE  /\ Times(q[s], m) \in Nat
           /\ Going(s, m)' = (Going(s, m) - Times(waiting[s], m)) + Times(q[s], m)
           /\ Coming(s, m)' = Coming(s, m)
           /\ srv'[s].left = srv[s].left /\ pushed[s] \subseteq pushed'[s]
           /\ m \in pushed'[s] \/ Times(waiting'[s], m) = Times(q[s], m)
<1> DEFINE Goes == MayPush(s) /\ q[s] # <<>>
<1>1. /\ waiting'[s] = IF Goes THEN Tail(q[s]) ELSE q[s]
      /\ pushed'[s] = IF Goes THEN pushed[s] \cup {Head(q[s])} ELSE pushed[s]
      /\ srv'[s] = IF Goes THEN Filled(srv[s], F("push", Head(q[s]))) ELSE srv[s]
  BY DEF PushAll
<1>2. /\ srv[s] \in End /\ Sound(srv[s]) /\ q[s] \in Seq(Msg)
      /\ pushed[s] \subseteq pushed'[s]
  BY <1>1, Ends
<1>3. /\ Times(q[s], m) \in Nat /\ Times(waiting[s], m) \in Nat
      /\ Times(down[s], F("push", m)) \in Nat /\ Times(cli[s].left, F("push", m)) \in Nat
  BY <1>2, Numbers, PlacesFinite
<1>4. srv'[s].left = srv[s].left
  BY <1>1, <1>2 DEF Filled, End
<1>5. Coming(s, m)' = Coming(s, m)
  BY <1>4 DEF Coming
<1>6. /\ Times(waiting'[s], m) + One(srv'[s].out = F("push", m))
            = Times(q[s], m) + One(srv[s].out = F("push", m))
      /\ Times(waiting'[s], m) \in Nat
      /\ m \in pushed'[s] \/ Times(waiting'[s], m) = Times(q[s], m)
  <2>1. CASE Goes
    <3>1. waiting'[s] = Tail(q[s]) /\ Head(q[s]) \in pushed'[s]
      BY <1>1, <2>1
    <3>2. srv'[s].out = F("push", Head(q[s]))
      BY <1>1, <1>2, <2>1 DEF Filled, End
    <3>3. srv[s].out = NULL
      BY <1>2, <2>1 DEF MayPush, Sound
    <3>4. Times(q[s], m) = One(Head(q[s]) = m) + Times(Tail(q[s]), m)
      BY <1>2, <2>1, TimesTail
    <3>5. Tail(q[s]) \in Seq(Msg) /\ Times(Tail(q[s]), m) \in Nat
      <4>1. Tail(q[s]) \in Seq(Msg)
        BY <1>2, <2>1, HeadTailProperties
      <4> QED
        BY <4>1, PlacesFinite
    <3>6. One(srv[s].out = F("push", m)) = 0
      BY <3>3, FrameIs, NullAssumption DEF One
    <3>7. One(srv'[s].out = F("push", m)) = One(Head(q[s]) = m)
      <4>1. (srv'[s].out = F("push", m)) <=> (Head(q[s]) = m)
        BY <3>2 DEF F
      <4> QED
        BY <4>1 DEF One
    <3>8. One(Head(q[s]) = m) \in Nat /\ (Head(q[s]) # m => One(Head(q[s]) = m) = 0)
      BY DEF One
    <3> QED
      BY <3>1, <3>4, <3>5, <3>6, <3>7, <3>8
  <2>2. CASE ~Goes
    BY <1>1, <1>3, <2>2
  <2> QED
    BY <2>1, <2>2
<1>7. Going(s, m)' = (Going(s, m) - Times(waiting[s], m)) + Times(q[s], m)
  <2>1. Going(s, m) = Times(waiting[s], m) + One(srv[s].out = F("push", m))
           + Times(down[s], F("push", m)) + Times(cli[s].left, F("push", m))
    BY DEF Going
  <2>2. Going(s, m)' = Times(waiting'[s], m) + One(srv'[s].out = F("push", m))
           + Times(down[s], F("push", m)) + Times(cli[s].left, F("push", m))
    BY DEF Going
  <2>3. One(srv[s].out = F("push", m)) \in Nat /\ One(srv'[s].out = F("push", m)) \in Nat
    BY DEF One
  <2> QED
    BY <1>3, <1>6, <2>1, <2>2, <2>3
<1> QED
  BY <1>2, <1>3, <1>4, <1>5, <1>6, <1>7

(* What is handed over, by a tick that has the queues q.                   *)
LEMMA PushAllHands ==
    ASSUME TypeOK, Acknowledgements, Handed, NEW q \in [Sub -> Seq(Msg)], PushAll(q),
           UNCHANGED <<cli, down, up>>
    PROVE  Acknowledgements' /\ Handed'
<1>1. Acknowledgements'
  <2>1. \A s \in Sub : srv'[s].left = srv[s].left
    <3> TAKE s \in Sub
    <3>1. srv[s] \in End /\ (srv'[s] = srv[s] \/ \E f : srv'[s] = Filled(srv[s], f))
      BY Ends DEF PushAll
    <3> QED
      BY <3>1 DEF Filled, End
  <2> QED
    BY <2>1 DEF Acknowledgements
<1>2. ASSUME NEW s \in Sub, NEW m \in Msg, m \notin pushed'[s]
      PROVE  ~(Owed(s, m)' > Times(waiting'[s], m))
  <2>1. /\ Times(q[s], m) \in Nat /\ Times(waiting'[s], m) = Times(q[s], m)
        /\ Going(s, m)' = (Going(s, m) - Times(waiting[s], m)) + Times(q[s], m)
        /\ Coming(s, m)' = Coming(s, m) /\ m \notin pushed[s]
    BY <1>2, PushAllMoves
  <2>2. /\ Going(s, m) \in Nat /\ Coming(s, m) \in Nat /\ Owed(s, m) \in Nat
        /\ Times(waiting[s], m) \in Nat
    BY Numbers
  <2>3. ~(Owed(s, m) > Times(waiting[s], m))
    BY <2>1 DEF Handed
  <2> QED
    BY <2>1, <2>2, <2>3 DEF Owed
<1> QED
  BY <1>1, <1>2 DEF Handed

(* The queues after a dispatch of m, before the push.                      *)
LEMMA ListingsCount ==
    ASSUME TypeOK, NEW m \in Msg, NEW s \in Sub, NEW x \in Msg
    PROVE  /\ waiting[s] \o Listings(s, m) \in Seq(Msg)
           /\ Times(waiting[s] \o Listings(s, m), x)
                 = Times(waiting[s], x) + (IF x = m THEN Copies[s] ELSE 0)
<1>1. waiting[s] \in Seq(Msg) /\ Copies[s] \in Nat
  BY CopiesAssumption DEF TypeOK
<1>2. /\ Listings(s, m) \in Seq(Msg) /\ Len(Listings(s, m)) = Copies[s]
      /\ \A i \in 1 .. Len(Listings(s, m)) : Listings(s, m)[i] = m
  BY <1>1 DEF Listings
<1>3. Times(waiting[s] \o Listings(s, m), x) = Times(waiting[s], x) + Times(Listings(s, m), x)
  BY <1>1, <1>2, TimesConcat
<1>4. Times(Listings(s, m), x) = IF x = m THEN Copies[s] ELSE 0
  BY <1>2, TimesSame
<1> QED
  BY <1>1, <1>2, <1>3, <1>4, ConcatProperties

(* A dispatch adds a copy for each listing.                                *)
LEMMA DispatchMoves ==
    ASSUME PushInv, NEW m \in Msg, stage[m] = "ready", Dispatched(m),
           PushAll([s \in Sub |-> waiting[s] \o Listings(s, m)]),
           UNCHANGED <<cli, down, up, seen>>
    PROVE  /\ Acknowledgements' /\ Handed'
           /\ \A s \in Sub, x \in Msg :
                 /\ Owed(s, x) \in Nat
                 /\ Going(s, x)' = Going(s, x) + (IF x = m THEN Copies[s] ELSE 0)
                 /\ Owed(s, x)' = Owed(s, x) + (IF x = m THEN Copies[s] ELSE 0)
           /\ stage' = [stage EXCEPT ![m] = "using"]
           /\ count' = [count EXCEPT ![m] = count[m] + Total(Copies)]
           /\ count \in [Msg -> Nat] /\ count[m] = 0
           /\ \A s \in Sub : Owed(s, m) = 0
<1>1. TypeOK /\ Acknowledgements /\ Handed /\ Settled /\ Tally /\ Accounted
  BY DEF PushInv
<1> DEFINE q == [s \in Sub |-> waiting[s] \o Listings(s, m)]
           add(s, x) == IF x = m THEN Copies[s] ELSE 0
<1>2. q \in [Sub -> Seq(Msg)]
  BY <1>1, ListingsCount
<1>3. \A s \in Sub, x \in Msg : Times(q[s], x) = Times(waiting[s], x) + add(s, x)
  BY <1>1, ListingsCount
<1>4. Acknowledgements' /\ Handed'
  <2> HIDE DEF q
  <2> QED
    BY <1>1, <1>2, PushAllHands DEF q
<1>5. \A s \in Sub, x \in Msg :
         /\ Going(s, x) \in Nat /\ Coming(s, x) \in Nat /\ Owed(s, x) \in Nat
         /\ add(s, x) \in Nat
         /\ Going(s, x)' = Going(s, x) + add(s, x)
         /\ Owed(s, x)' = Owed(s, x) + add(s, x)
  <2> TAKE s \in Sub, x \in Msg
  <2>1. /\ Going(s, x) \in Nat /\ Coming(s, x) \in Nat /\ Owed(s, x) \in Nat
        /\ Times(waiting[s], x) \in Nat
    BY <1>1, Numbers
  <2>2. add(s, x) \in Nat
    BY CopiesAssumption
  <2>3. /\ Going(s, x)' = (Going(s, x) - Times(waiting[s], x)) + Times(q[s], x)
        /\ Coming(s, x)' = Coming(s, x)
    <3> HIDE DEF q
    <3> QED
      BY <1>1, <1>2, PushAllMoves DEF q
  <2>4. Times(q[s], x) = Times(waiting[s], x) + add(s, x)
    BY <1>3
  <2> HIDE DEF q, add
  <2> QED
    BY <2>1, <2>2, <2>3, <2>4 DEF Owed
<1>6. /\ stage' = [stage EXCEPT ![m] = "using"]
      /\ count' = [count EXCEPT ![m] = count[m] + Total(Copies)]
      /\ count \in [Msg -> Nat] /\ count[m] = 0 /\ m \in DOMAIN stage
  BY <1>1 DEF Dispatched, Settled, TypeOK
<1>7. \A s \in Sub : Owed(s, m) = 0
  <2> DEFINE f == [s \in Sub |-> Owed(s, m)]
  <2>1. f \in [Sub -> Nat] /\ Total(f) = 0
    BY <1>1, <1>5, <1>6 DEF Accounted
  <2>2. \A s \in Sub : f[s] = 0
    <3> HIDE DEF f
    <3> QED
      BY <2>1, TotalZero
  <2> QED
    BY <2>2
<1> QED
  BY <1>4, <1>5, <1>6, <1>7

(* It counts them, too.                                                    *)
LEMMA DispatchCounts ==
    ASSUME PushInv, NEW m \in Msg, stage[m] = "ready", Dispatched(m),
           PushAll([s \in Sub |-> waiting[s] \o Listings(s, m)]),
           UNCHANGED <<cli, down, up, seen>>
    PROVE  (Acknowledgements /\ Handed /\ Settled /\ Tally /\ Accounted)'
<1>1. TypeOK /\ Settled /\ Tally /\ Accounted /\ m \in DOMAIN stage
  BY DEF PushInv, TypeOK
<1> DEFINE add(s, x) == IF x = m THEN Copies[s] ELSE 0
<1>4. Acknowledgements' /\ Handed'
  BY DispatchMoves
<1>5. \A s \in Sub, x \in Msg :
         /\ Going(s, x) \in Nat /\ Owed(s, x) \in Nat
         /\ Going(s, x)' = Going(s, x) + add(s, x)
         /\ Owed(s, x)' = Owed(s, x) + add(s, x)
  BY <1>1, DispatchMoves, Numbers
<1>6. /\ stage' = [stage EXCEPT ![m] = "using"]
      /\ count' = [count EXCEPT ![m] = count[m] + Total(Copies)]
      /\ count \in [Msg -> Nat] /\ count[m] = 0
  BY DispatchMoves
<1>7. \A s \in Sub : Owed(s, m) = 0
  BY DispatchMoves
<1>8. Total(Copies) \in Nat
  <2>1. Copies \in [Sub -> Nat]
    BY CopiesAssumption
  <2> QED
    BY <2>1, EachFinite
<1>9. Accounted'
  <2>1. ASSUME NEW x \in Msg, x # m
        PROVE  count'[x] = Total([s \in Sub |-> Owed(s, x)'])
    <3>1. [s \in Sub |-> Owed(s, x)'] = [s \in Sub |-> Owed(s, x)]
      BY <1>5, <2>1
    <3>2. count'[x] = count[x]
      BY <1>6, <2>1
    <3> QED
      BY <1>1, <3>1, <3>2 DEF Accounted
  <2>2. count'[m] = Total([s \in Sub |-> Owed(s, m)'])
    <3>1. [s \in Sub |-> Owed(s, m)'] = Copies
      <4>1. \A s \in Sub : Owed(s, m)' = Copies[s]
        BY <1>5, <1>7, CopiesAssumption
      <4> QED
        BY <4>1, CopiesAssumption
    <3>2. count'[m] = Total(Copies)
      BY <1>6, <1>8
    <3> QED
      BY <3>1, <3>2
  <2> QED
    BY <2>1, <2>2 DEF Accounted
<1>10. Settled'
  BY <1>1, <1>6, <1>8 DEF Settled
<1>11. Tally'
  <2>1. ASSUME NEW s \in Sub, NEW x \in Msg
        PROVE  Times(seen[s], x) + Going(s, x)' = IF Started(x)' THEN Copies[s] ELSE 0
    <3>1. Times(seen[s], x) + Going(s, x) = IF Started(x) THEN Copies[s] ELSE 0
      BY <1>1 DEF Tally
    <3>2. Times(seen[s], x) \in Nat /\ Copies[s] \in Nat
      BY <1>1, Numbers, CopiesAssumption
    <3>3. Started(x)' <=> (Started(x) \/ x = m)
      BY <1>1, <1>6 DEF Started, TypeOK
    <3>4. ~Started(m)
      BY DEF Started
    <3>5. CASE x = m
      BY <1>5, <3>1, <3>2, <3>3, <3>4, <3>5
    <3>6. CASE x # m
      BY <1>5, <3>1, <3>2, <3>3, <3>6
    <3> QED
      BY <3>5, <3>6
  <2> QED
    BY <2>1 DEF Tally
<1> QED
  BY <1>4, <1>9, <1>10, <1>11

(* A tick without a dispatch only moves copies.                            *)
LEMMA PushMoves ==
    ASSUME TypeOK, PushAll(waiting), UNCHANGED <<cli, down, up>>
    PROVE  \A s \in Sub, x \in Msg : Going(s, x)' = Going(s, x) /\ Owed(s, x)' = Owed(s, x)
<1> TAKE s \in Sub, x \in Msg
<1>1. waiting \in [Sub -> Seq(Msg)]
  BY DEF TypeOK
<1>2. /\ Going(s, x)' = (Going(s, x) - Times(waiting[s], x)) + Times(waiting[s], x)
      /\ Coming(s, x)' = Coming(s, x)
  BY <1>1, PushAllMoves
<1>3. Going(s, x) \in Nat /\ Times(waiting[s], x) \in Nat
  BY Numbers
<1> QED
  BY <1>2, <1>3 DEF Owed

LEMMA TickCounts ==
    ASSUME PushInv, Tick
    PROVE  (Acknowledgements /\ Handed /\ Settled /\ Tally /\ Accounted)'
<1>1. TypeOK /\ Acknowledgements /\ Handed /\ Settled /\ Tally /\ Accounted
  BY DEF PushInv
<1>2. UNCHANGED <<cli, down, up, seen>>
  BY DEF Tick
<1>3. ASSUME PushAll(waiting), UNCHANGED <<stage, count>>
      PROVE  (Acknowledgements /\ Handed /\ Settled /\ Tally /\ Accounted)'
  <2>1. waiting \in [Sub -> Seq(Msg)]
    BY <1>1 DEF TypeOK
  <2>2. Acknowledgements' /\ Handed'
    BY <1>1, <1>2, <1>3, <2>1, PushAllHands
  <2>3. \A s \in Sub, x \in Msg : Going(s, x)' = Going(s, x) /\ Owed(s, x)' = Owed(s, x)
    BY <1>1, <1>2, <1>3, PushMoves
  <2>4. Settled'
    BY <1>1, <1>3 DEF Settled
  <2>5. Tally'
    BY <1>1, <1>2, <1>3, <2>3 DEF Tally, Started
  <2>6. Accounted'
    <3>1. ASSUME NEW m \in Msg PROVE count'[m] = Total([s \in Sub |-> Owed(s, m)'])
      <4>1. [s \in Sub |-> Owed(s, m)'] = [s \in Sub |-> Owed(s, m)]
        BY <2>3
      <4> QED
        BY <1>1, <1>3, <4>1 DEF Accounted
    <3> QED
      BY <3>1 DEF Accounted
  <2> QED
    BY <2>2, <2>4, <2>5, <2>6
<1> QED
  BY <1>2, <1>3, DispatchCounts DEF Tick

LEMMA HandleCounts ==
    ASSUME PushInv, Handle
    PROVE  (Acknowledgements /\ Handed /\ Settled /\ Tally /\ Accounted)'
<1>1. TypeOK /\ Acknowledgements /\ UNCHANGED <<waiting, pushed>>
  BY DEF PushInv, Handle
<1>2. ASSUME NEW s \in Sub, ServerWrite(s)
      PROVE  (Acknowledgements /\ Handed /\ Settled /\ Tally /\ Accounted)'
  <2>1. UNCHANGED <<stage, count, up, cli, seen>>
    BY <1>2 DEF ServerWrite
  <2>2. \A t \in Sub, x \in Msg : Going(t, x)' = Going(t, x) /\ Coming(t, x)' = Coming(t, x)
    BY <1>1, <1>2, ServerWriteMoves
  <2>3. Acknowledgements'
    <3>1. \A t \in Sub : srv'[t].left = srv[t].left
      <4> TAKE t \in Sub
      <4>1. srv[t] \in End /\ (srv'[t] = srv[t] \/ srv'[t] = Written(srv[t]))
        BY <1>1, <1>2, Ends DEF ServerWrite, TypeOK
      <4> QED
        BY <4>1 DEF Written, End
    <3> QED
      BY <1>1, <2>1, <3>1 DEF Acknowledgements
  <2>4. \A x \in Msg : /\ stage'[x] = "using" <=> stage[x] = "using"
                       /\ Started(x)' <=> Started(x)
    BY <2>1 DEF Started
  <2>5. \A t \in Sub, x \in Msg :
           /\ Owed(t, x)' = Owed(t, x)
           /\ Times(seen[t], x)' + Going(t, x)' = Times(seen[t], x) + Going(t, x)
    BY <2>1, <2>2 DEF Owed
  <2> QED
    BY <1>1, <2>1, <2>3, <2>4, <2>5, BooksStay
<1>3. ASSUME NEW s \in Sub, srv[s].want = "r", ServerRead(s)
      PROVE  (Acknowledgements /\ Handed /\ Settled /\ Tally /\ Accounted)'
  BY <1>1, <1>3, ServerReadCounts
<1>4. CASE UNCHANGED <<stage, count, srv, cli, down, up, seen>>
  BY <1>1, <1>4, OthersCount
<1>5. event # NULL => event.sub \in Sub
  BY <1>1 DEF TypeOK
<1> QED
  BY <1>2, <1>3, <1>4, <1>5 DEF Handle

LEMMA ClientWriteCounts ==
    ASSUME PushInv, NEW s \in Sub, ClientWrite(s)
    PROVE  (Acknowledgements /\ Handed /\ Settled /\ Tally /\ Accounted)'
<1>1. TypeOK /\ Acknowledgements
  BY DEF PushInv
<1>2. UNCHANGED <<stage, count, waiting, pushed, srv, seen>>
  BY DEF ClientWrite
<1>3. \A t \in Sub, x \in Msg : Going(t, x)' = Going(t, x) /\ Coming(t, x)' = Coming(t, x)
  BY <1>1, ClientWriteMoves
<1>4. Acknowledgements'
  <2>1. \A t \in Sub : cli'[t].out \in {cli[t].out, NULL}
    BY <1>1, Ends DEF ClientWrite, Written, TypeOK, End
  <2>2. \A t \in Sub : up'[t] = up[t] \/ (cli[t].send = "wait" /\ up'[t] = Append(up[t], cli[t].out))
    BY <1>1 DEF ClientWrite, TypeOK
  <2>3. \A t \in Sub : up'[t] \in Seq(Acks)
    <3> TAKE t \in Sub
    <3>1. up[t] \in Seq(Acks) /\ cli[t].out \in Acks \cup {NULL}
      BY <1>1 DEF Acknowledgements
    <3>2. cli[t].send = "wait" => cli[t].out # NULL
      BY <1>1 DEF TypeOK
    <3> QED
      BY <2>2, <3>1, <3>2
  <2> QED
    BY <1>1, <1>2, <2>1, <2>3 DEF Acknowledgements
<1>5. \A x \in Msg : /\ stage'[x] = "using" <=> stage[x] = "using"
                     /\ Started(x)' <=> Started(x)
  BY <1>2 DEF Started
<1>6. \A t \in Sub, x \in Msg :
         /\ Owed(t, x)' = Owed(t, x)
         /\ Times(seen[t], x)' + Going(t, x)' = Times(seen[t], x) + Going(t, x)
  BY <1>2, <1>3 DEF Owed
<1> QED
  BY <1>2, <1>4, <1>5, <1>6, BooksStay

LEMMA InitCounts == Init => PushInv
<1> SUFFICES ASSUME Init PROVE PushInv
  OBVIOUS
<1>1. TypeOK
  BY InitType
<1>2. \A s \in Sub : /\ srv[s].out = NULL /\ srv[s].left = <<>>
                     /\ cli[s].out = NULL /\ cli[s].left = <<>>
                     /\ up[s] = <<>> /\ down[s] = <<>> /\ waiting[s] = <<>> /\ seen[s] = <<>>
  BY DEF Init, Idle
<1>3. \A s \in Sub, m \in Msg : Times(seen[s], m) = 0 /\ Going(s, m) = 0 /\ Coming(s, m) = 0
  <2> TAKE s \in Sub, m \in Msg
  <2>1. \A x : Times(<<>>, x) = 0
    BY TimesOne
  <2>2. /\ One(srv[s].out = F("push", m)) = 0 /\ One(cli[s].out = F("recived", m)) = 0
    BY <1>2, FrameIs, NullAssumption DEF One
  <2>3. /\ Times(waiting[s], m) = 0 /\ Times(down[s], F("push", m)) = 0
        /\ Times(cli[s].left, F("push", m)) = 0 /\ Times(up[s], F("recived", m)) = 0
        /\ Times(srv[s].left, F("recived", m)) = 0 /\ Times(seen[s], m) = 0
    BY <1>2, <2>1
  <2>4. Going(s, m) = 0
    BY <2>2, <2>3 DEF Going
  <2>5. Coming(s, m) = 0
    BY <2>2, <2>3 DEF Coming
  <2> QED
    BY <2>3, <2>4, <2>5
<1>4. \A s \in Sub, m \in Msg : Owed(s, m) = 0
  BY <1>3 DEF Owed
<1>5. Acknowledgements
  <2>1. <<>> \in Seq(Acks)
    OBVIOUS
  <2> QED
    BY <1>2, <2>1 DEF Acknowledgements
<1>6. Handed
  <2>1. \A s \in Sub, m \in Msg : Times(waiting[s], m) \in Nat
    BY <1>1, Numbers
  <2> QED
    BY <1>4, <2>1 DEF Handed
<1>7. Settled
  BY DEF Init, Settled
<1>8. Tally
  BY <1>3 DEF Tally, Init, Started
<1>9. Accounted
  <2>1. ASSUME NEW m \in Msg PROVE count[m] = Total([s \in Sub |-> Owed(s, m)])
    <3> DEFINE f == [s \in Sub |-> Owed(s, m)]
    <3>1. f \in [Sub -> Nat] /\ \A s \in Sub : f[s] = 0
      BY <1>4
    <3> HIDE DEF f
    <3>2. Total(f) = 0
      BY <3>1, TotalZero
    <3> QED
      BY <3>2 DEF Init, f
  <2> QED
    BY <2>1 DEF Accounted
<1> QED
  BY <1>1, <1>5, <1>6, <1>7, <1>8, <1>9 DEF PushInv

LEMMA NextCounts == PushInv /\ [Next]_vars => PushInv'
<1> SUFFICES ASSUME PushInv, [Next]_vars PROVE PushInv'
  OBVIOUS
<1>1. TypeOK'
  BY NextKeeps DEF PushInv
<1>2. ASSUME NEW s \in Sub, Poll(s)
      PROVE  (Acknowledgements /\ Handed /\ Settled /\ Tally /\ Accounted)'
  BY <1>2, OthersCount DEF Poll
<1>3. ASSUME PollOther
      PROVE  (Acknowledgements /\ Handed /\ Settled /\ Tally /\ Accounted)'
  BY <1>3, OthersCount DEF PollOther
<1>4. ASSUME NEW s \in Sub, Close(s)
      PROVE  (Acknowledgements /\ Handed /\ Settled /\ Tally /\ Accounted)'
  BY <1>4, OthersCount DEF Close
<1>5. ASSUME UNCHANGED vars
      PROVE  (Acknowledgements /\ Handed /\ Settled /\ Tally /\ Accounted)'
  BY <1>5, OthersCount DEF vars
<1>6. (Acknowledgements /\ Handed /\ Settled /\ Tally /\ Accounted)'
  BY <1>2, <1>3, <1>4, <1>5, AddCounts, TickCounts, HandleCounts,
     ClientReadCounts, ClientWriteCounts DEF Next
<1> QED
  BY <1>1, <1>6 DEF PushInv

(* The invariant of the pushers, for any messages, listings and reads.     *)
THEOREM PushInvariant == Spec => []PushInv
<1>1. Init => PushInv
  BY InitCounts
<1>2. PushInv /\ [Next]_vars => PushInv'
  BY NextCounts
<1> QED
  BY <1>1, <1>2, PTL DEF Spec

(* relateCount is the number of copies of a message that are in a queue,   *)
(* in a slot, on a connection or left over from a read, or whose           *)
(* acknowledgement is: the message is freed by the last one of them.       *)
THEOREM EveryCopyCounted == Spec => []Accounted
<1>1. PushInv => Accounted
  BY DEF PushInv
<1> QED
  BY <1>1, PushInvariant, PTL
-----------------------------------------------------------------------------
(* What Delivery's variables stand for.                                    *)
Got == [m \in Msg |-> [s \in Sub |-> Times(seen[s], m)]]
Acked == [m \in Msg |-> [s \in Sub |-> IF Started(m) THEN Copies[s] - Owed(s, m) ELSE 0]]

(* One number of one function changes, by one.                             *)
LEMMA PlusIs ==
    ASSUME NEW f, f \in [Msg -> [Sub -> Int]], NEW g, g \in [Msg -> [Sub -> Int]],
           NEW m \in Msg, NEW s \in Sub, g[m][s] = f[m][s] + 1,
           \A x \in Msg, t \in Sub : x # m \/ t # s => g[x][t] = f[x][t]
    PROVE  \E h : h = [f[m] EXCEPT ![s] = f[m][s] + 1] /\ g = [f EXCEPT ![m] = h]
<1>1. g[m] = [f[m] EXCEPT ![s] = f[m][s] + 1]
  <2>1. f[m] \in [Sub -> Int] /\ g[m] \in [Sub -> Int]
    OBVIOUS
  <2>2. \A t \in Sub : g[m][t] = IF t = s THEN f[m][s] + 1 ELSE f[m][t]
    OBVIOUS
  <2> QED
    BY <2>1, <2>2
<1>2. ASSUME NEW x \in Msg, x # m PROVE g[x] = f[x]
  <2>1. f[x] \in [Sub -> Int] /\ g[x] \in [Sub -> Int]
    OBVIOUS
  <2>2. \A t \in Sub : g[x][t] = f[x][t]
    BY <1>2
  <2> QED
    BY <2>1, <2>2
<1>3. PICK h : h = g[m]
  OBVIOUS
<1>4. \A x \in Msg : g[x] = IF x = m THEN h ELSE f[x]
  BY <1>2, <1>3
<1>5. g = [f EXCEPT ![m] = h]
  BY <1>4
<1> QED
  BY <1>1, <1>3, <1>5

LEMMA MapNumbers ==
    ASSUME TypeOK
    PROVE  Got \in [Msg -> [Sub -> Int]] /\ Acked \in [Msg -> [Sub -> Int]]
<1>1. \A m \in Msg, s \in Sub : /\ Times(seen[s], m) \in Int /\ Owed(s, m) \in Int
                                /\ Copies[s] \in Int
  BY Numbers, CopiesAssumption
<1>2. Got \in [Msg -> [Sub -> Int]]
  BY <1>1 DEF Got
<1>3. \A m \in Msg, s \in Sub : (IF Started(m) THEN Copies[s] - Owed(s, m) ELSE 0) \in Int
  BY <1>1
<1>4. Acked \in [Msg -> [Sub -> Int]]
  BY <1>3 DEF Acked
<1> QED
  BY <1>2, <1>4

LEMMA MapStays ==
    ASSUME \A m \in Msg, s \in Sub :
              /\ Times(seen[s], m)' = Times(seen[s], m)
              /\ Owed(s, m)' = Owed(s, m)
              /\ Started(m)' <=> Started(m)
    PROVE  Got' = Got /\ Acked' = Acked
BY DEF Got, Acked

LEMMA InitMaps == Init => Promise!Init
<1> SUFFICES ASSUME Init PROVE Promise!Init
  OBVIOUS
<1>1. stage = [m \in Msg |-> "fresh"]
  BY DEF Init
<1>2. Got = [m \in Msg |-> [s \in Sub |-> 0]]
  <2>1. \A m \in Msg, s \in Sub : Times(seen[s], m) = 0
    <3>1. \A s \in Sub : seen[s] = <<>>
      BY DEF Init
    <3>2. \A m : Times(<<>>, m) = 0
      BY TimesOne
    <3> QED
      BY <3>1, <3>2
  <2> QED
    BY <2>1 DEF Got
<1>3. Acked = [m \in Msg |-> [s \in Sub |-> 0]]
  <2>1. \A m \in Msg : ~Started(m)
    BY <1>1 DEF Started
  <2> QED
    BY <2>1 DEF Acked
<1> QED
  BY <1>1, <1>2, <1>3 DEF Promise!Init, Got, Acked

LEMMA AddMaps ==
    ASSUME TypeOK, NEW m \in Msg, Add(m)
    PROVE  Promise!Add(m)
<1>1. \A x \in Msg : Started(x)' <=> Started(x)
  BY DEF TypeOK, Add, Started
<1>2. \A x \in Msg, s \in Sub : /\ Times(seen[s], x)' = Times(seen[s], x)
                                /\ Owed(s, x)' = Owed(s, x)
  BY DEF Add, Owed, Going, Coming
<1>3. Got' = Got /\ Acked' = Acked
  BY <1>1, <1>2, MapStays
<1> QED
  BY <1>3 DEF Add, Promise!Add, Got, Acked

LEMMA DispatchMaps ==
    ASSUME PushInv, NEW m \in Msg, stage[m] = "ready", Dispatched(m),
           PushAll([s \in Sub |-> waiting[s] \o Listings(s, m)]),
           UNCHANGED <<cli, down, up, seen>>
    PROVE  Promise!Dispatch(m)
<1>1. TypeOK
  BY DEF PushInv
<1>2. stage' = [stage EXCEPT ![m] = "using"]
  BY DispatchMoves
<1>3. \A x \in Msg : (Started(x)' <=> (Started(x) \/ x = m))
  BY <1>1, <1>2 DEF Started, TypeOK
<1>4. ~Started(m)
  BY DEF Started
<1>5. \A s \in Sub, x \in Msg :
         /\ Owed(s, x) \in Nat
         /\ Owed(s, x)' = Owed(s, x) + (IF x = m THEN Copies[s] ELSE 0)
         /\ Owed(s, m) = 0 /\ Copies[s] \in Nat
  BY DispatchMoves, CopiesAssumption
<1>6. Got' = Got
  BY DEF Got
<1>7. Acked' = Acked
  <2>1. ASSUME NEW x \in Msg, NEW s \in Sub
        PROVE  (IF Started(x)' THEN Copies[s] - Owed(s, x)' ELSE 0)
                  = (IF Started(x) THEN Copies[s] - Owed(s, x) ELSE 0)
    <3>1. CASE x = m
      BY <1>3, <1>4, <1>5, <3>1
    <3>2. CASE x # m
      BY <1>3, <1>5, <3>2
    <3> QED
      BY <3>1, <3>2
  <2> QED
    BY <2>1 DEF Acked
<1> QED
  BY <1>2, <1>6, <1>7 DEF Promise!Dispatch, Got, Acked

(* A client that prints a push is handed a copy.                           *)
LEMMA ClientReadMaps ==
    ASSUME PushInv, NEW s \in Sub, ClientRead(s)
    PROVE  \/ UNCHANGED <<stage, Got, Acked>>
           \/ \E m \in Msg : Promise!Deliver(m, s)
<1>1. TypeOK /\ Acknowledgements /\ Settled /\ Tally /\ Accounted
  BY DEF PushInv
<1>2. UNCHANGED stage /\ \A m \in Msg : Started(m)' <=> Started(m)
  BY DEF ClientRead, Started
<1>3. \A t \in Sub, x \in Msg : /\ Going(t, x) \in Nat /\ Coming(t, x) \in Nat
                                /\ Times(seen[t], x) \in Nat /\ Owed(t, x) \in Nat
  BY <1>1, Numbers
<1>4. CASE /\ UNCHANGED seen
           /\ \A t \in Sub, x \in Msg :
                 /\ Going(t, x)' = Going(t, x)
                 /\ Coming(t, x)' = Coming(t, x)
  <2>1. Got' = Got /\ Acked' = Acked
    BY <1>2, <1>4, MapStays DEF Owed
  <2> QED
    BY <1>2, <2>1
<1>5. ASSUME NEW m \in Msg,
             seen' = [seen EXCEPT ![s] = Append(seen[s], m)],
             Going(s, m) >= 1,
             Going(s, m)' = Going(s, m) - 1,
             Coming(s, m)' = Coming(s, m) + 1,
             \A t \in Sub, x \in Msg : t # s \/ x # m =>
                /\ Going(t, x)' = Going(t, x)
                /\ Coming(t, x)' = Coming(t, x)
      PROVE  Promise!Deliver(m, s)
  <2>1. \A t \in Sub, x \in Msg : Owed(t, x)' = Owed(t, x)
    <3>1. Owed(s, m)' = Owed(s, m)
      BY <1>3, <1>5 DEF Owed
    <3>2. \A t \in Sub, x \in Msg : t # s \/ x # m => Owed(t, x)' = Owed(t, x)
      BY <1>5 DEF Owed
    <3> QED
      BY <3>1, <3>2
  <2>2. Acked' = Acked
    BY <1>2, <2>1 DEF Acked
  <2>3. Owed(s, m) >= 1 /\ count[m] # 0
    <3>1. Owed(s, m) >= 1
      BY <1>3, <1>5 DEF Owed
    <3> DEFINE f == [t \in Sub |-> Owed(t, m)]
    <3>2. f \in [Sub -> Nat] /\ count[m] = Total(f) /\ f[s] # 0
      BY <1>1, <1>3, <3>1 DEF Accounted
    <3> HIDE DEF f
    <3> QED
      BY <3>1, <3>2, TotalZero
  <2>4. stage[m] = "using"
    BY <1>1, <2>3 DEF Settled
  <2>5. Got[m][s] < Copies[s]
    <3>1. Times(seen[s], m) + Going(s, m) = Copies[s]
      BY <1>1, <2>4 DEF Tally, Started
    <3> QED
      BY <1>3, <1>5, <3>1 DEF Got
  <2>6. seen \in [Sub -> Seq(Msg)] /\ seen[s] \in Seq(Msg)
    BY <1>1 DEF TypeOK
  <2>7. \A x \in Msg : Times(seen'[s], x) = Times(seen[s], x) + One(m = x)
    <3>1. seen'[s] = Append(seen[s], m)
      BY <1>5, <2>6
    <3> QED
      BY <2>6, <3>1, TimesAppend
  <2>8. \A t \in Sub \ {s} : seen'[t] = seen[t]
    BY <1>5, <2>6
  <2>9. Got' = [Got EXCEPT ![m] = Promise!Plus(Got[m], s)]
    <3>1. Got \in [Msg -> [Sub -> Int]]
      BY <1>1, MapNumbers
    <3>2. Got' \in [Msg -> [Sub -> Int]]
      <4>1. \A x \in Msg, t \in Sub : Times(seen'[t], x) \in Int
        <5>1. \A x : One(m = x) \in Int
          BY DEF One
        <5> QED
          <6> TAKE x \in Msg, t \in Sub
          <6>1. Times(seen[t], x) \in Int /\ Times(seen[s], x) \in Int
            BY <1>3
          <6>2. CASE t = s
            BY <2>7, <5>1, <6>1, <6>2
          <6>3. CASE t # s
            BY <2>8, <6>1, <6>3
          <6> QED
            BY <6>2, <6>3
      <4> QED
        BY <4>1 DEF Got
    <3>3. Got'[m][s] = Got[m][s] + 1
      BY <2>7 DEF Got, One
    <3>4. \A x \in Msg, t \in Sub : x # m \/ t # s => Got'[x][t] = Got[x][t]
      <4> TAKE x \in Msg, t \in Sub
      <4>1. CASE t # s
        BY <2>8, <4>1 DEF Got
      <4>2. CASE t = s /\ x # m
        BY <1>3, <2>7, <4>2 DEF Got, One
      <4> QED
        BY <4>1, <4>2
    <3> HIDE DEF Got
    <3> QED
      <4>1. PICK h : /\ h = [Got[m] EXCEPT ![s] = Got[m][s] + 1]
                     /\ Got' = [Got EXCEPT ![m] = h]
        BY <3>1, <3>2, <3>3, <3>4, PlusIs
      <4> QED
        BY <4>1 DEF Promise!Plus
  <2> QED
    BY <1>2, <2>2, <2>4, <2>5, <2>9 DEF Promise!Deliver, Got, Acked
<1> QED
  BY <1>1, <1>4, <1>5, ClientReadMoves

(* The server counts an acknowledgement, and the last one frees.           *)
LEMMA ServerReadMaps ==
    ASSUME PushInv, NEW s \in Sub, srv[s].want = "r", ServerRead(s),
           UNCHANGED <<waiting, pushed>>, TypeOK'
    PROVE  \E m \in Msg : Promise!Acknowledge(m, s)
<1>1. TypeOK /\ Acknowledgements /\ Settled /\ Tally /\ Accounted
  BY DEF PushInv
<1>2. PICK m \in Msg :
         /\ Coming(s, m) >= 1
         /\ Owed(s, m) >= 1 /\ Owed(s, m)' = Owed(s, m) - 1
         /\ \A t \in Sub, x \in Msg :
               /\ Going(t, x)' = Going(t, x)
               /\ t # s \/ x # m => Owed(t, x)' = Owed(t, x)
         /\ count' = [count EXCEPT ![m] = count[m] - 1]
         /\ stage' = IF count[m] <= 1 THEN [stage EXCEPT ![m] = "freed"] ELSE stage
  BY ServerReadTakes
<1>3. UNCHANGED seen
  BY ServerReadTakes
<1>4. Accounted' /\ Settled'
  BY ServerReadCounts
<1>5. \A t \in Sub, x \in Msg : /\ Going(t, x) \in Nat /\ Coming(t, x) \in Nat
                                /\ Owed(t, x) \in Nat /\ Owed(t, x)' \in Nat
                                /\ Times(seen[t], x) \in Nat /\ Copies[t] \in Nat
  BY <1>1, <1>2, Numbers, CopiesAssumption
<1>6. count[m] # 0 /\ count[m] \in Nat /\ count'[m] = count[m] - 1
  <2> DEFINE f == [t \in Sub |-> Owed(t, m)]
  <2>1. f \in [Sub -> Nat] /\ count[m] = Total(f) /\ f[s] # 0
    BY <1>1, <1>2, <1>5 DEF Accounted
  <2>2. count[m] # 0
    <3> HIDE DEF f
    <3> QED
      BY <2>1, TotalZero
  <2> QED
    BY <1>1, <1>2, <2>2 DEF Settled
<1>7. count'[m] = 0 <=> \A t \in Sub : Owed(t, m)' = 0
  <2> DEFINE f == [t \in Sub |-> Owed(t, m)']
  <2>1. f \in [Sub -> Nat] /\ count'[m] = Total(f)
    BY <1>4, <1>5 DEF Accounted
  <2>2. Total(f) = 0 <=> \A t \in Sub : f[t] = 0
    <3> HIDE DEF f
    <3> QED
      BY <2>1, TotalZero
  <2> QED
    BY <2>1, <2>2
<1>8. stage[m] = "using"
  BY <1>1, <1>6 DEF Settled
<1>9. \A x \in Msg : Started(x)' <=> Started(x)
  BY <1>1, <1>2, <1>8 DEF Started, TypeOK
<1>10. Acked[m][s] < Got[m][s]
  <2>1. Times(seen[s], m) + Going(s, m) = Copies[s]
    BY <1>1, <1>8 DEF Tally, Started
  <2>2. Acked[m][s] = Copies[s] - Owed(s, m) /\ Got[m][s] = Times(seen[s], m)
    BY <1>8 DEF Acked, Got, Started
  <2> QED
    BY <1>2, <1>5, <2>1, <2>2 DEF Owed
<1>11. Got' = Got
  BY <1>3 DEF Got
<1>12. Acked' = [Acked EXCEPT ![m] = Promise!Plus(Acked[m], s)]
  <2>1. Acked \in [Msg -> [Sub -> Int]] /\ Acked' \in [Msg -> [Sub -> Int]]
    <3>1. \A x \in Msg, t \in Sub : Copies[t] - Owed(t, x)' \in Int
      BY <1>5
    <3>2. Acked' \in [Msg -> [Sub -> Int]]
      BY <3>1 DEF Acked
    <3> QED
      BY <1>1, <3>2, MapNumbers
  <2>2. Acked'[m][s] = Acked[m][s] + 1
    <3>1. Started(m) /\ Started(m)'
      BY <1>8, <1>9 DEF Started
    <3>2. Acked[m][s] = Copies[s] - Owed(s, m) /\ Acked'[m][s] = Copies[s] - Owed(s, m)'
      BY <3>1 DEF Acked
    <3> QED
      BY <1>2, <1>5, <3>2
  <2>3. \A x \in Msg, t \in Sub : x # m \/ t # s => Acked'[x][t] = Acked[x][t]
    BY <1>2, <1>9 DEF Acked
  <2> QED
    <3>1. PICK h : /\ h = [Acked[m] EXCEPT ![s] = Acked[m][s] + 1]
                   /\ Acked' = [Acked EXCEPT ![m] = h]
      BY <2>1, <2>2, <2>3, PlusIs
    <3> QED
      BY <3>1 DEF Promise!Plus
<1>13. Acked'[m] = Copies <=> count[m] <= 1
  <2>1. Acked'[m] = [t \in Sub |-> Copies[t] - Owed(t, m)']
    BY <1>8, <1>9 DEF Acked, Started
  <2>2. Acked'[m] = Copies <=> \A t \in Sub : Copies[t] - Owed(t, m)' = Copies[t]
    BY <2>1, CopiesAssumption
  <2>3. (\A t \in Sub : Copies[t] - Owed(t, m)' = Copies[t])
           <=> \A t \in Sub : Owed(t, m)' = 0
    BY <1>5
  <2>4. count'[m] = 0 <=> count[m] <= 1
    BY <1>6
  <2> QED
    BY <1>7, <2>2, <2>3, <2>4
<1> QED
  BY <1>2, <1>8, <1>10, <1>11, <1>12, <1>13 DEF Promise!Acknowledge, Got, Acked

(* Steps that Delivery does not see.                                       *)
LEMMA HiddenMaps ==
    ASSUME PushInv, UNCHANGED <<stage, seen>>,
           \A s \in Sub, m \in Msg : Owed(s, m)' = Owed(s, m)
    PROVE  UNCHANGED <<stage, Got, Acked>>
BY MapStays DEF Started

LEMMA StillMaps ==
    ASSUME PushInv, UNCHANGED <<stage, waiting, srv, cli, down, up, seen>>
    PROVE  UNCHANGED <<stage, Got, Acked>>
BY HiddenMaps DEF Owed, Going, Coming

LEMMA HandleMaps ==
    ASSUME PushInv, Handle
    PROVE  \/ UNCHANGED <<stage, Got, Acked>>
           \/ \E m \in Msg, s \in Sub : Promise!Acknowledge(m, s)
<1>1. TypeOK /\ UNCHANGED <<waiting, pushed>>
  BY DEF PushInv, Handle
<1>2. ASSUME NEW s \in Sub, ServerWrite(s)
      PROVE  UNCHANGED <<stage, Got, Acked>>
  <2>1. \A t \in Sub, x \in Msg : Owed(t, x)' = Owed(t, x)
    BY <1>1, <1>2, ServerWriteMoves DEF Owed
  <2> QED
    BY <1>2, <2>1, HiddenMaps DEF ServerWrite
<1>3. ASSUME NEW s \in Sub, srv[s].want = "r", ServerRead(s)
      PROVE  \E m \in Msg : Promise!Acknowledge(m, s)
  <2>1. TypeOK'
    BY <1>1, HandleKeeps
  <2> QED
    BY <1>1, <1>3, <2>1, ServerReadMaps
<1>4. CASE UNCHANGED <<stage, count, srv, cli, down, up, seen>>
  BY <1>1, <1>4, StillMaps
<1>5. event # NULL => event.sub \in Sub
  BY <1>1 DEF TypeOK
<1> QED
  BY <1>2, <1>3, <1>4, <1>5 DEF Handle

LEMMA TickMaps ==
    ASSUME PushInv, Tick
    PROVE  \/ UNCHANGED <<stage, Got, Acked>>
           \/ \E m \in Msg : Promise!Dispatch(m)
<1>1. TypeOK /\ UNCHANGED <<cli, down, up, seen>>
  BY DEF PushInv, Tick
<1>2. CASE PushAll(waiting) /\ UNCHANGED <<stage, count>>
  BY <1>1, <1>2, PushMoves, HiddenMaps
<1> QED
  BY <1>1, <1>2, DispatchMaps DEF Tick

LEMMA NextMaps == PushInv /\ [Next]_vars => [Promise!Next]_(Promise!vars)
<1> SUFFICES ASSUME PushInv, [Next]_vars PROVE [Promise!Next]_(Promise!vars)
  OBVIOUS
<1>1. TypeOK
  BY DEF PushInv
<1>2. UNCHANGED <<stage, Got, Acked>> => UNCHANGED (Promise!vars)
  BY DEF Promise!vars, Got, Acked
<1>3. ASSUME NEW m \in Msg, Add(m) PROVE Promise!Next
  BY <1>1, <1>3, AddMaps DEF Promise!Next
<1>4. ASSUME Tick PROVE [Promise!Next]_(Promise!vars)
  BY <1>2, <1>4, TickMaps DEF Promise!Next
<1>5. ASSUME Handle PROVE [Promise!Next]_(Promise!vars)
  BY <1>2, <1>5, HandleMaps DEF Promise!Next
<1>6. ASSUME NEW s \in Sub, ClientRead(s) PROVE [Promise!Next]_(Promise!vars)
  BY <1>2, <1>6, ClientReadMaps DEF Promise!Next
<1>7. ASSUME NEW s \in Sub, ClientWrite(s) PROVE UNCHANGED (Promise!vars)
  <2>1. \A t \in Sub, x \in Msg : Owed(t, x)' = Owed(t, x)
    BY <1>1, <1>7, ClientWriteMoves DEF Owed
  <2> QED
    BY <1>2, <1>7, <2>1, HiddenMaps DEF ClientWrite
<1>8. ASSUME NEW s \in Sub, Poll(s) PROVE UNCHANGED (Promise!vars)
  BY <1>2, <1>8, StillMaps DEF Poll
<1>9. ASSUME PollOther PROVE UNCHANGED (Promise!vars)
  BY <1>2, <1>9, StillMaps DEF PollOther
<1>10. ASSUME NEW s \in Sub, Close(s) PROVE UNCHANGED (Promise!vars)
  BY <1>2, <1>10, StillMaps DEF Close
<1>11. ASSUME UNCHANGED vars PROVE UNCHANGED (Promise!vars)
  BY <1>2, <1>11, StillMaps DEF vars
<1> QED
  BY <1>3, <1>4, <1>5, <1>6, <1>7, <1>8, <1>9, <1>10, <1>11 DEF Next

(* The pushers implement Delivery: with connections, slots, reads of       *)
(* several frames and clients that go away, a message still reaches each   *)
(* subscriber no more often than it is listed, is freed by the             *)
(* acknowledgement of the last copy, and by no other.                      *)
THEOREM PushDelivers == Spec => DeliverySpec
<1>1. Init => Promise!Init
  BY InitMaps
<1>2. PushInv /\ [Next]_vars => [Promise!Next]_(Promise!vars)
  BY NextMaps
<1> QED
  BY <1>1, <1>2, PushInvariant, PTL DEF Spec, DeliverySpec, Promise!Spec
-----------------------------------------------------------------------------
(* The order.  All that a subscriber has been told, is being told and will *)
(* be told is one sequence; its frames are in a pipe of three pieces.      *)
Slot(e) == IF e.out = NULL THEN <<>> ELSE <<e.out>>
Pipe(s) == (cli[s].left \o down[s]) \o Slot(srv[s])

(* f is what a client has seen after each frame of pipe q, when it has     *)
(* seen p.                                                                 *)
After(p, x) == IF x.kind = "push" THEN Append(p, x.msg) ELSE p
Trail(f, p, q) ==
    /\ f \in [0 .. Len(q) -> Seq(Msg)] /\ f[0] = p
    /\ \A i \in 1 .. Len(q) : f[i] = After(f[i - 1], q[i])
    /\ \A i, j \in 0 .. Len(q) : i <= j => IsPrefix(f[i], f[j])

(* With its pipe and its queue, subscriber s is told d.                    *)
Told(s, d) == \E f : /\ Trail(f, seen[s], Pipe(s))
                     /\ d = f[Len(Pipe(s))] \o waiting[s]

LEMMA PrefixIs ==
    ASSUME NEW S, NEW p \in Seq(S), NEW q \in Seq(S)
    PROVE  IsPrefix(p, q) <=> Len(p) <= Len(q) /\ \A i \in 1 .. Len(p) : p[i] = q[i]
<1>1. Len(p) \in Nat /\ Len(q) \in Nat /\ SubSeq(p, 1, Len(p)) = p
  BY SubSeqFull
<1>2. ASSUME Len(p) <= Len(q)
      PROVE  /\ SubSeq(q, 1, Len(p)) \in Seq(S) /\ Len(SubSeq(q, 1, Len(p))) = Len(p)
             /\ \A i \in 1 .. Len(p) : SubSeq(q, 1, Len(p))[i] = q[i]
  <2>1. \A i \in 1 .. Len(p) : q[i] \in S
    BY <1>1, <1>2
  <2>2. /\ SubSeq(q, 1, Len(p)) \in Seq(S)
        /\ Len(SubSeq(q, 1, Len(p))) = IF 1 <= Len(p) THEN Len(p) - 1 + 1 ELSE 0
        /\ \A i \in 1 .. Len(p) - 1 + 1 : SubSeq(q, 1, Len(p))[i] = q[1 + i - 1]
    BY <1>1, <2>1, SubSeqProperties
  <2> QED
    BY <1>1, <2>2
<1>3. ASSUME Len(p) <= Len(q), \A i \in 1 .. Len(p) : p[i] = q[i]
      PROVE  SubSeq(q, 1, Len(p)) = p
  BY <1>1, <1>2, <1>3
<1> QED
  BY <1>1, <1>2, <1>3 DEF IsPrefix

LEMMA PrefixTransitive ==
    ASSUME NEW S, NEW p \in Seq(S), NEW q \in Seq(S), NEW r \in Seq(S),
           IsPrefix(p, q), IsPrefix(q, r)
    PROVE  IsPrefix(p, r)
BY PrefixIs

LEMMA PrefixSelf ==
    ASSUME NEW S, NEW p \in Seq(S), NEW q \in Seq(S)
    PROVE  IsPrefix(p, p) /\ IsPrefix(p, p \o q)
<1>1. /\ p \o q \in Seq(S) /\ Len(p) <= Len(p \o q)
      /\ \A i \in 1 .. Len(p) : p[i] = (p \o q)[i]
  BY ConcatProperties
<1>2. IsPrefix(p, p \o q)
  BY <1>1, PrefixIs
<1>3. Len(p) <= Len(p) /\ \A i \in 1 .. Len(p) : p[i] = p[i]
  OBVIOUS
<1>4. IsPrefix(p, p)
  BY <1>3, PrefixIs
<1> QED
  BY <1>2, <1>4

(* Two prefixes of one sequence agree.                                     *)
LEMMA PrefixesAgree ==
    ASSUME NEW S, NEW p \in Seq(S), NEW q \in Seq(S), NEW r \in Seq(S),
           IsPrefix(p, r), IsPrefix(q, r)
    PROVE  IsPrefix(p, q) \/ IsPrefix(q, p)
BY PrefixIs

LEMMA AfterIs ==
    ASSUME NEW p \in Seq(Msg), NEW x \in Frame
    PROVE  After(p, x) \in Seq(Msg) /\ IsPrefix(p, After(p, x))
<1>1. x.msg \in Msg
  BY DEF Frame
<1>2. <<x.msg>> \in Seq(Msg) /\ Append(p, x.msg) = p \o <<x.msg>>
  BY <1>1
<1>3. IsPrefix(p, p) /\ IsPrefix(p, p \o <<x.msg>>)
  BY <1>2, PrefixSelf
<1> QED
  BY <1>1, <1>2, <1>3 DEF After

LEMMA TrailAppend ==
    ASSUME NEW f, NEW p, NEW q \in Seq(Frame), NEW x \in Frame, Trail(f, p, q)
    PROVE  \E g : /\ Trail(g, p, Append(q, x))
                  /\ g[Len(Append(q, x))] = After(f[Len(q)], x)
<1> DEFINE n == Len(q)
           r == Append(q, x)
           g == [i \in 0 .. n + 1 |-> IF i <= n THEN f[i] ELSE After(f[n], x)]
<1>1. n \in Nat /\ Len(r) = n + 1 /\ r[n + 1] = x /\ \A i \in 1 .. n : r[i] = q[i]
  OBVIOUS
<1>2. f \in [0 .. n -> Seq(Msg)] /\ f[n] \in Seq(Msg)
  BY <1>1 DEF Trail
<1>3. After(f[n], x) \in Seq(Msg) /\ IsPrefix(f[n], After(f[n], x))
  BY <1>2, AfterIs
<1>4. /\ g \in [0 .. n + 1 -> Seq(Msg)] /\ g[n + 1] = After(f[n], x)
      /\ \A i \in 0 .. n : g[i] = f[i]
  BY <1>1, <1>2, <1>3
<1>5. g[0] = p
  BY <1>1, <1>4 DEF Trail
<1> HIDE DEF r, n, g
<1>6. \A i \in 1 .. n + 1 : g[i] = After(g[i - 1], r[i])
  <2> TAKE i \in 1 .. n + 1
  <2>1. CASE i <= n
    <3>1. f[i] = After(f[i - 1], q[i])
      BY <1>1, <2>1 DEF Trail, n
    <3> QED
      BY <1>1, <1>4, <2>1, <3>1
  <2>2. CASE i = n + 1
    BY <1>1, <1>4, <2>2
  <2> QED
    BY <1>1, <2>1, <2>2
<1>7. \A i, j \in 0 .. n + 1 : i <= j => IsPrefix(g[i], g[j])
  <2> TAKE i, j \in 0 .. n + 1
  <2> HAVE i <= j
  <2>1. CASE j <= n
    BY <1>1, <1>4, <2>1 DEF Trail, n
  <2>2. CASE j = n + 1 /\ i <= n
    <3>1. IsPrefix(f[i], f[n]) /\ f[i] \in Seq(Msg)
      <4>1. i \in 0 .. n /\ n \in 0 .. n /\ i <= n
        BY <1>1, <2>2
      <4>2. \A k, l \in 0 .. n : k <= l => IsPrefix(f[k], f[l])
        BY DEF Trail, n
      <4> QED
        BY <1>2, <4>1, <4>2
    <3>2. IsPrefix(f[i], After(f[n], x))
      BY <1>2, <1>3, <3>1, PrefixTransitive
    <3> QED
      BY <1>1, <1>4, <2>2, <3>2
  <2>3. CASE i = n + 1 /\ j = n + 1
    BY <1>3, <1>4, <2>3, PrefixSelf
  <2> QED
    BY <1>1, <2>1, <2>2, <2>3
<1>8. Trail(g, p, r) /\ g[Len(r)] = After(f[n], x)
  BY <1>1, <1>4, <1>5, <1>6, <1>7 DEF Trail
<1> QED
  BY <1>8 DEF r, n

LEMMA TrailTail ==
    ASSUME NEW f, NEW p, NEW q \in Seq(Frame), q # <<>>, Trail(f, p, q)
    PROVE  \E g : /\ Trail(g, After(p, Head(q)), Tail(q))
                  /\ g[Len(Tail(q))] = f[Len(q)]
<1> DEFINE n == Len(Tail(q))
           g == [i \in 0 .. n |-> f[i + 1]]
<1>1. /\ n \in Nat /\ Len(q) = n + 1 /\ Head(q) = q[1] /\ Tail(q) \in Seq(Frame)
      /\ \A i \in 1 .. n : Tail(q)[i] = q[i + 1]
  BY HeadTailProperties
<1>2. f \in [0 .. n + 1 -> Seq(Msg)] /\ f[0] = p
  BY <1>1 DEF Trail
<1>3. g \in [0 .. n -> Seq(Msg)] /\ \A i \in 0 .. n : g[i] = f[i + 1]
  BY <1>1, <1>2
<1> HIDE DEF g, n
<1>4. g[0] = After(p, Head(q))
  <2>1. f[1] = After(f[1 - 1], q[1])
    BY <1>1 DEF Trail
  <2> QED
    BY <1>1, <1>2, <1>3, <2>1
<1>5. \A i \in 1 .. n : g[i] = After(g[i - 1], Tail(q)[i])
  <2> TAKE i \in 1 .. n
  <2>1. f[i + 1] = After(f[(i + 1) - 1], q[i + 1])
    BY <1>1 DEF Trail
  <2>2. (i + 1) - 1 = (i - 1) + 1 /\ i - 1 \in 0 .. n /\ i \in 0 .. n
    BY <1>1
  <2> QED
    BY <1>1, <1>3, <2>1, <2>2
<1>6. \A i, j \in 0 .. n : i <= j => IsPrefix(g[i], g[j])
  <2> TAKE i, j \in 0 .. n
  <2> HAVE i <= j
  <2>1. i + 1 \in 0 .. Len(q) /\ j + 1 \in 0 .. Len(q) /\ i + 1 <= j + 1
    BY <1>1
  <2> QED
    BY <1>3, <2>1 DEF Trail
<1>7. Trail(g, After(p, Head(q)), Tail(q)) /\ g[n] = f[Len(q)]
  BY <1>1, <1>3, <1>4, <1>5, <1>6 DEF Trail, n
<1> QED
  BY <1>7 DEF n

(* How a step changes what a subscriber is told: not at all, when its      *)
(* client has seen the same, and its pipe and its queue are the same; ...  *)
LEMMA ToldStays ==
    ASSUME NEW s \in Sub, NEW d, Told(s, d), seen'[s] = seen[s],
           Pipe(s)' = Pipe(s), waiting'[s] = waiting[s]
    PROVE  Told(s, d)'
BY DEF Told

(* ... when a frame is added to the pipe that is no push; ...              *)
LEMMA ToldAnswer ==
    ASSUME NEW s \in Sub, NEW d, Told(s, d), Pipe(s) \in Seq(Frame),
           NEW x \in Frame, x.kind # "push", seen'[s] = seen[s],
           Pipe(s)' = Append(Pipe(s), x), waiting'[s] = waiting[s]
    PROVE  Told(s, d)'
<1>1. PICK f : Trail(f, seen[s], Pipe(s)) /\ d = f[Len(Pipe(s))] \o waiting[s]
  BY DEF Told
<1>2. PICK g : /\ Trail(g, seen[s], Append(Pipe(s), x))
               /\ g[Len(Append(Pipe(s), x))] = After(f[Len(Pipe(s))], x)
  BY <1>1, TrailAppend
<1>3. After(f[Len(Pipe(s))], x) = f[Len(Pipe(s))]
  BY DEF After
<1> QED
  BY <1>1, <1>2, <1>3 DEF Told

(* ... when the first frame of the pipe is seen by the client; ...         *)
LEMMA ToldSeen ==
    ASSUME NEW s \in Sub, NEW d, Told(s, d), Pipe(s) \in Seq(Frame), Pipe(s) # <<>>,
           seen'[s] = After(seen[s], Head(Pipe(s))),
           Pipe(s)' = Tail(Pipe(s)), waiting'[s] = waiting[s]
    PROVE  Told(s, d)'
<1>1. PICK f : Trail(f, seen[s], Pipe(s)) /\ d = f[Len(Pipe(s))] \o waiting[s]
  BY DEF Told
<1>2. PICK g : /\ Trail(g, After(seen[s], Head(Pipe(s))), Tail(Pipe(s)))
               /\ g[Len(Tail(Pipe(s)))] = f[Len(Pipe(s))]
  BY <1>1, TrailTail
<1> QED
  BY <1>1, <1>2 DEF Told

LEMMA QueueMoves ==
    ASSUME NEW S, NEW e \in Seq(S), NEW q \in Seq(S), q # <<>>
    PROVE  Append(e, Head(q)) \o Tail(q) = e \o q
<1>1. Head(q) \in S /\ Tail(q) \in Seq(S)
  BY HeadTailProperties
<1>2. Append(e, Head(q)) = e \o <<Head(q)>> /\ <<Head(q)>> \in Seq(S)
  BY <1>1
<1>3. <<Head(q)>> \o Tail(q) = q
  OBVIOUS
<1>4. (e \o <<Head(q)>>) \o Tail(q) = e \o (<<Head(q)>> \o Tail(q))
  BY <1>1, <1>2, ConcatAssociative
<1> QED
  BY <1>2, <1>3, <1>4

(* ... and when the queue becomes q, whose first message may go.           *)
LEMMA ToldPushed ==
    ASSUME NEW s \in Sub, NEW d, Told(s, d), Pipe(s) \in Seq(Frame),
           waiting[s] \in Seq(Msg), NEW l \in Seq(Msg), NEW q, q = waiting[s] \o l,
           seen'[s] = seen[s],
           \/ Pipe(s)' = Pipe(s) /\ waiting'[s] = q
           \/ /\ q # <<>> /\ waiting'[s] = Tail(q)
              /\ Pipe(s)' = Append(Pipe(s), F("push", Head(q)))
    PROVE  Told(s, d \o l)'
<1>1. PICK f : Trail(f, seen[s], Pipe(s)) /\ d = f[Len(Pipe(s))] \o waiting[s]
  BY DEF Told
<1> DEFINE e == f[Len(Pipe(s))]
<1>2. e \in Seq(Msg) /\ q \in Seq(Msg)
  <2>1. Len(Pipe(s)) \in 0 .. Len(Pipe(s))
    OBVIOUS
  <2> QED
    BY <1>1, <2>1, ConcatProperties DEF Trail
<1>3. d = e \o waiting[s]
  BY <1>1
<1> HIDE DEF e
<1>6. d \o l = e \o q
  <2>1. PICK x : x = e
    OBVIOUS
  <2>2. PICK w : w = waiting[s]
    OBVIOUS
  <2>3. x \in Seq(Msg) /\ w \in Seq(Msg) /\ d = x \o w /\ q = w \o l
    BY <1>2, <1>3, <2>1, <2>2
  <2>4. d \o l = x \o q
    <3>1. x \in Seq(Msg) /\ w \in Seq(Msg) /\ l \in Seq(Msg)
      BY <2>3
    <3>2. (x \o w) \o l = x \o (w \o l)
      BY ONLY <3>1, ConcatAssociative
    <3> QED
      BY ONLY <2>3, <3>2
  <2> QED
    BY <2>1, <2>4
<1>4. CASE Pipe(s)' = Pipe(s) /\ waiting'[s] = q
  BY <1>1, <1>4, <1>6 DEF Told, e
<1>5. CASE /\ q # <<>> /\ waiting'[s] = Tail(q)
           /\ Pipe(s)' = Append(Pipe(s), F("push", Head(q)))
  <2>1. Head(q) \in Msg /\ Tail(q) \in Seq(Msg) /\ F("push", Head(q)) \in Frame
    <3>1. Head(q) \in Msg /\ Tail(q) \in Seq(Msg)
      BY <1>2, <1>5, HeadTailProperties
    <3> QED
      BY <3>1, FrameIs
  <2>2. PICK g : /\ Trail(g, seen[s], Append(Pipe(s), F("push", Head(q))))
                 /\ g[Len(Append(Pipe(s), F("push", Head(q))))] = After(e, F("push", Head(q)))
    BY <1>1, <2>1, TrailAppend DEF e
  <2>3. After(e, F("push", Head(q))) = Append(e, Head(q))
    BY DEF After, F
  <2>4. Append(e, Head(q)) \o Tail(q) = e \o q
    BY <1>2, <1>5, QueueMoves
  <2> QED
    BY <1>5, <1>6, <2>2, <2>3, <2>4 DEF Told
<1> QED
  BY <1>4, <1>5

(* Sequences put together in another way.                                  *)
LEMMA WriteMoves ==
    ASSUME NEW S, NEW l \in Seq(S), NEW d \in Seq(S), NEW x \in S
    PROVE  (l \o Append(d, x)) \o <<>> = (l \o d) \o <<x>>
<1>1. Append(d, x) = d \o <<x>> /\ <<x>> \in Seq(S)
  OBVIOUS
<1>2. (l \o d) \o <<x>> = l \o (d \o <<x>>)
  BY <1>1, ConcatAssociative
<1>3. l \o Append(d, x) \in Seq(S)
  OBVIOUS
<1>4. (l \o Append(d, x)) \o <<>> = l \o Append(d, x)
  BY <1>3
<1> QED
  BY <1>1, <1>2, <1>4

LEMMA FrontIs ==
    ASSUME NEW S, NEW b \in Seq(S), b # <<>>, NEW v \in Seq(S), NEW c, c = b \o v
    PROVE  c \in Seq(S) /\ c # <<>> /\ Head(c) = Head(b) /\ Tail(c) = Tail(b) \o v
OBVIOUS

LEMMA Regroup ==
    ASSUME NEW S, NEW l \in Seq(S), NEW u \in Seq(S), NEW v \in Seq(S),
           NEW b, b = l \o u, NEW w, w = u \o v
    PROVE  l \o w = b \o v
BY ConcatAssociative

LEMMA PipeIs ==
    ASSUME TypeOK, NEW s \in Sub
    PROVE  /\ Pipe(s) \in Seq(Frame) /\ cli[s].left \o down[s] \in Seq(Frame)
           /\ Slot(srv[s]) \in Seq(Frame)
<1>1. /\ cli[s].left \in Seq(Frame) /\ down[s] \in Seq(Frame)
      /\ srv[s].out \in Frame \cup {NULL}
  BY Ends DEF End
<1>2. Slot(srv[s]) \in Seq(Frame)
  BY <1>1 DEF Slot
<1> QED
  BY <1>1, <1>2, ConcatProperties DEF Pipe

(* A slot that is filled lengthens the pipe.                               *)
LEMMA SlotFills ==
    ASSUME TypeOK, NEW s \in Sub, srv[s].out = NULL, NEW x \in Frame, srv'[s].out = x,
           cli'[s].left = cli[s].left, down'[s] = down[s]
    PROVE  Pipe(s)' = Append(Pipe(s), x)
<1> DEFINE p == cli[s].left \o down[s]
<1>1. p \in Seq(Frame)
  BY PipeIs
<1>2. Slot(srv[s]) = <<>> /\ Slot(srv'[s]) = <<x>>
  BY NullAssumption DEF Slot
<1>3. Pipe(s) = p \o <<>> /\ Pipe(s)' = p \o <<x>>
  BY <1>2 DEF Pipe
<1> HIDE DEF p
<1>4. p \o <<>> = p /\ p \o <<x>> = Append(p, x)
  BY <1>1
<1> QED
  BY <1>3, <1>4

(* A frame that is written moves within the pipe.                          *)
LEMMA SlotEmpties ==
    ASSUME TypeOK, NEW s \in Sub, ServerWrite(s), NEW t \in Sub
    PROVE  Pipe(t)' = Pipe(t)
<1>1. /\ srv' = [srv EXCEPT ![s] = Written(srv[s])]
      /\ down' = IF srv[s].send = "wait"
                 THEN [down EXCEPT ![s] = Append(down[s], srv[s].out)] ELSE down
      /\ UNCHANGED cli
  BY DEF ServerWrite
<1>2. /\ Sound(srv[s]) /\ srv \in [Sub -> End] /\ down \in [Sub -> Seq(Frame)]
      /\ cli[s].left \in Seq(Frame) /\ down[s] \in Seq(Frame)
  BY Ends DEF TypeOK, End
<1>3. CASE t # s
  BY <1>1, <1>2, <1>3 DEF Pipe
<1>4. CASE t = s
  <2>1. srv'[s].out = NULL
    BY <1>1, <1>2 DEF Written
  <2>2. Slot(srv'[s]) = <<>>
    BY <2>1 DEF Slot
  <2>3. CASE srv[s].send = "wait"
    <3>1. srv[s].out \in Frame /\ srv[s].out # NULL
      BY <1>2, <2>3 DEF Sound, End
    <3>2. down'[s] = Append(down[s], srv[s].out) /\ Slot(srv[s]) = <<srv[s].out>>
      BY <1>1, <1>2, <2>3, <3>1 DEF Slot
    <3>3. PICK l, d, x : l = cli[s].left /\ d = down[s] /\ x = srv[s].out
      OBVIOUS
    <3>4. l \in Seq(Frame) /\ d \in Seq(Frame) /\ x \in Frame
      BY <1>2, <3>1, <3>3
    <3>5. (l \o Append(d, x)) \o <<>> = (l \o d) \o <<x>>
      BY <3>4, WriteMoves
    <3>6. Pipe(s)' = (l \o Append(d, x)) \o <<>> /\ Pipe(s) = (l \o d) \o <<x>>
      BY <1>1, <2>2, <3>2, <3>3 DEF Pipe
    <3> QED
      BY <1>4, <3>5, <3>6
  <2>4. CASE srv[s].send # "wait"
    <3>1. srv[s].out = NULL /\ down'[s] = down[s]
      BY <1>1, <1>2, <2>4 DEF Sound
    <3> QED
      BY <1>1, <1>4, <2>2, <3>1 DEF Pipe, Slot
  <2> QED
    BY <2>3, <2>4
<1> QED
  BY <1>3, <1>4

(* What a client reads is the front of its pipe.                           *)
LEMMA ReadTakesFront ==
    ASSUME TypeOK, NEW s \in Sub, NEW n \in Reads(down[s]), UNCHANGED srv,
           cli'[s].left = Tail(Bytes(cli[s], down[s], n)),
           down'[s] = SubSeq(down[s], n + 1, Len(down[s]))
    PROVE  /\ Pipe(s) # <<>> /\ Pipe(s)' = Tail(Pipe(s))
           /\ Head(Pipe(s)) = Head(Bytes(cli[s], down[s], n))
<1>1. PICK l, w, z : l = cli[s].left /\ w = down[s] /\ z = Slot(srv[s])
  OBVIOUS
<1>2. l \in Seq(Frame) /\ w \in Seq(Frame) /\ z \in Seq(Frame)
  BY <1>1, Ends, PipeIs DEF End
<1>3. PICK u, v, b : /\ u = SubSeq(w, 1, n) /\ v = SubSeq(w, n + 1, Len(w))
                     /\ b = l \o u
  OBVIOUS
<1>4. /\ u \in Seq(Frame) /\ v \in Seq(Frame) /\ b \in Seq(Frame) /\ b # <<>>
      /\ b = Bytes(cli[s], down[s], n) /\ n \in 0 .. Len(w)
  <2>1. cli[s].left \in Seq(Frame) /\ down[s] \in Seq(Frame)
    BY <1>1, <1>2
  <2>2. /\ n \in 0 .. Len(down[s])
        /\ SubSeq(down[s], 1, n) \in Seq(Frame)
        /\ SubSeq(down[s], n + 1, Len(down[s])) \in Seq(Frame)
        /\ Bytes(cli[s], down[s], n) \in Seq(Frame) /\ Bytes(cli[s], down[s], n) # <<>>
    BY <2>1, ReadIs
  <2>3. b = Bytes(cli[s], down[s], n)
    BY <1>1, <1>3 DEF Bytes
  <2> QED
    BY <1>1, <1>3, <2>2, <2>3
<1>5. w = u \o v
  BY <1>2, <1>3, <1>4, SplitIs
<1>6. PICK x : x = l \o w
  OBVIOUS
<1>7. PICK y : y = Tail(b) \o v
  OBVIOUS
<1>8. PICK q : q = x \o z
  OBVIOUS
<1>9. Pipe(s) = q /\ Pipe(s)' = y \o z
  BY <1>1, <1>3, <1>4, <1>6, <1>7, <1>8 DEF Pipe
<1>10. x = b \o v
  <2>1. b = l \o u
    BY <1>3
  <2>2. l \in Seq(Frame) /\ u \in Seq(Frame) /\ v \in Seq(Frame)
    BY <1>2, <1>4
  <2> QED
    BY ONLY <1>5, <1>6, <2>1, <2>2, Regroup
<1>11. x \in Seq(Frame) /\ x # <<>> /\ Head(x) = Head(b) /\ Tail(x) = y
  BY <1>4, <1>7, <1>10, FrontIs
<1>12. q # <<>> /\ Head(q) = Head(x) /\ Tail(q) = Tail(x) \o z
  <2>1. x \in Seq(Frame) /\ x # <<>> /\ z \in Seq(Frame)
    BY <1>2, <1>11
  <2> QED
    BY <1>8, <2>1, FrontIs
<1> QED
  BY <1>4, <1>9, <1>11, <1>12

LEMMA PipeStays ==
    ASSUME NEW s \in Sub, cli'[s].left = cli[s].left, down'[s] = down[s],
           srv'[s].out = srv[s].out
    PROVE  Pipe(s)' = Pipe(s)
BY DEF Pipe, Slot

LEMMA PushTells ==
    ASSUME TypeOK, NEW s \in Sub, NEW d, Told(s, d), NEW l \in Seq(Msg),
           NEW q \in [Sub -> Seq(Msg)], q[s] = waiting[s] \o l,
           PushAll(q), UNCHANGED <<cli, down, up, seen>>
    PROVE  Told(s, d \o l)'
<1>1. PICK w : w = q[s]
  OBVIOUS
<1>2. /\ Pipe(s) \in Seq(Frame) /\ waiting[s] \in Seq(Msg) /\ w \in Seq(Msg)
      /\ Sound(srv[s])
  BY <1>1, PipeIs, Ends DEF TypeOK
<1>3. /\ seen'[s] = seen[s] /\ cli'[s].left = cli[s].left /\ down'[s] = down[s]
      /\ w = waiting[s] \o l
  BY <1>1
<1>4. CASE MayPush(s) /\ w # <<>>
  <2>1. /\ waiting'[s] = Tail(w)
        /\ srv'[s] = Filled(srv[s], F("push", Head(w)))
    BY <1>1, <1>4 DEF PushAll
  <2>2. srv[s].out = NULL /\ srv[s] \in End
    BY <1>2, <1>4 DEF Sound, MayPush, End
  <2>3. Head(w) \in Msg
    BY <1>2, <1>4, HeadTailProperties
  <2>4. F("push", Head(w)) \in Frame /\ srv'[s].out = F("push", Head(w))
    BY <2>1, <2>2, <2>3, FrameIs DEF Filled, End
  <2>5. Pipe(s)' = Append(Pipe(s), F("push", Head(w)))
    BY <1>3, <2>2, <2>4, SlotFills
  <2> QED
    BY <1>2, <1>3, <1>4, <2>1, <2>5, ToldPushed
<1>5. CASE ~(MayPush(s) /\ w # <<>>)
  <2>1. waiting'[s] = w /\ srv'[s] = srv[s]
    BY <1>1, <1>5 DEF PushAll
  <2>2. Pipe(s)' = Pipe(s)
    BY <1>3, <2>1, PipeStays
  <2> QED
    BY <1>2, <1>3, <2>1, <2>2, ToldPushed
<1> QED
  BY <1>4, <1>5

(* When a message is listed as often for one subscribe as for another, a   *)
(* dispatch adds the same to what each of them is told.                    *)
Even == \A s, t \in Sub : Copies[s] = Copies[t]
Agreed == \E d \in Seq(Msg) : \A s \in Sub : Told(s, d)

LEMMA TickTells ==
    ASSUME Even, TypeOK, Agreed, Tick
    PROVE  Agreed'
<1>1. PICK d \in Seq(Msg) : \A s \in Sub : Told(s, d)
  BY DEF Agreed
<1>2. waiting \in [Sub -> Seq(Msg)] /\ UNCHANGED <<cli, down, up, seen>>
  BY DEF TypeOK, Tick
<1>3. ASSUME PushAll(waiting)
      PROVE  Agreed'
  <2>1. ASSUME NEW s \in Sub PROVE Told(s, d)'
    <3>1. waiting[s] = waiting[s] \o <<>> /\ d \o <<>> = d /\ <<>> \in Seq(Msg)
      BY <1>1, <1>2
    <3>2. Told(s, d \o <<>>)'
      BY <1>1, <1>2, <1>3, <3>1, PushTells
    <3> QED
      BY <3>1, <3>2
  <2> QED
    BY <2>1 DEF Agreed
<1>4. ASSUME NEW m \in Msg, PushAll([s \in Sub |-> waiting[s] \o Listings(s, m)])
      PROVE  Agreed'
  <2>1. PICK l \in Seq(Msg) : \A s \in Sub : Listings(s, m) = l
    <3>1. \A s \in Sub : Listings(s, m) \in Seq(Msg)
      BY CopiesAssumption DEF Listings
    <3>2. \A s, t \in Sub : Listings(s, m) = Listings(t, m)
      BY DEF Even, Listings
    <3>3. <<>> \in Seq(Msg)
      OBVIOUS
    <3> QED
      BY <3>1, <3>2, <3>3
  <2>2. PICK q : q = [s \in Sub |-> waiting[s] \o Listings(s, m)]
    OBVIOUS
  <2>3. \A s \in Sub : q[s] = waiting[s] \o l
    BY <2>1, <2>2
  <2>4. q \in [Sub -> Seq(Msg)] /\ PushAll(q)
    <3>1. \A s \in Sub : waiting[s] \o l \in Seq(Msg)
      BY <1>2, <2>1, ConcatProperties
    <3> QED
      BY <1>4, <2>2, <2>3, <3>1
  <2>5. \A s \in Sub : Told(s, d \o l)'
    BY <1>1, <1>2, <2>1, <2>3, <2>4, PushTells
  <2>6. d \o l \in Seq(Msg)
    BY <1>1, <2>1, ConcatProperties
  <2> QED
    BY <2>5, <2>6 DEF Agreed
<1> QED
  BY <1>3, <1>4 DEF Tick

LEMMA AgreedStays ==
    ASSUME Agreed, \A s \in Sub : \A d : Told(s, d) => Told(s, d)'
    PROVE  Agreed'
BY DEF Agreed

LEMMA ServerReadTells ==
    ASSUME TypeOK, NEW s \in Sub, srv[s].want = "r", ServerRead(s), UNCHANGED waiting,
           NEW t \in Sub, NEW d, Told(t, d)
    PROVE  Told(t, d)'
<1>1. PICK n, m :
          /\ n \in Reads(up[s])
          /\ m = Head(Bytes(srv[s], up[s], n)).msg
          /\ srv' = [srv EXCEPT ![s] = Left(Filled(srv[s], F(Answer(s, m), m)),
                                            Tail(Bytes(srv[s], up[s], n)))]
          /\ UNCHANGED <<down, cli, seen>>
  BY DEF ServerRead
<1>2. /\ Sound(srv[s]) /\ srv[s] \in End /\ up[s] \in Seq(Frame)
      /\ srv[s].out = NULL /\ srv \in [Sub -> End]
  BY Ends DEF Sound, TypeOK
<1>3. m \in Msg /\ Answer(s, m) \in {"finish", "error"}
  <2>1. Head(Bytes(srv[s], up[s], n)) \in Frame
    BY <1>1, <1>2, BytesIs
  <2>2. Head(Bytes(srv[s], up[s], n)).msg \in Msg
    BY <2>1 DEF Frame
  <2>3. Answer(s, m) \in {"finish", "error"}
    BY DEF Answer
  <2> QED
    BY <1>1, <2>2, <2>3
<1>4. CASE t # s
  BY <1>1, <1>2, <1>4, PipeStays, ToldStays
<1>5. CASE t = s
  <2>1. PICK x : x = F(Answer(s, m), m)
    OBVIOUS
  <2>2. x \in Frame /\ x.kind # "push"
    BY <1>3, <2>1, FrameIs DEF F
  <2>3. srv'[s].out = x
    BY <1>1, <1>2, <2>1 DEF Left, Filled, End
  <2>4. Pipe(s)' = Append(Pipe(s), x)
    BY <1>1, <1>2, <2>2, <2>3, SlotFills
  <2>5. Pipe(s) \in Seq(Frame)
    BY PipeIs
  <2> QED
    BY <1>1, <1>5, <2>2, <2>4, <2>5, ToldAnswer
<1> QED
  BY <1>4, <1>5

LEMMA ClientReadTells ==
    ASSUME TypeOK, NEW s \in Sub, ClientRead(s), NEW t \in Sub, NEW d, Told(t, d)
    PROVE  Told(t, d)'
<1>1. PICK n, b, f :
          /\ n \in Reads(down[s])
          /\ b = Bytes(cli[s], down[s], n) /\ f = Head(b)
          /\ \/ /\ f.kind = "push"
                /\ cli' = [cli EXCEPT ![s] =
                              Filled(Left(cli[s], Tail(b)), F("recived", f.msg))]
                /\ seen' = [seen EXCEPT ![s] = Append(seen[s], f.msg)]
             \/ /\ f.kind # "push"
                /\ cli' = [cli EXCEPT ![s] = Answering(Left(cli[s], Tail(b)))]
                /\ UNCHANGED seen
          /\ down' = [down EXCEPT ![s] = SubSeq(down[s], n + 1, Len(down[s]))]
          /\ UNCHANGED <<waiting, srv>>
  BY DEF ClientRead
<1>2. /\ cli[s] \in End /\ cli \in [Sub -> End] /\ down \in [Sub -> Seq(Frame)]
      /\ seen \in [Sub -> Seq(Msg)]
  BY Ends DEF TypeOK
<1>3. CASE t # s
  BY <1>1, <1>2, <1>3, PipeStays, ToldStays
<1>4. CASE t = s
  <2>1. /\ cli'[s].left = Tail(b) /\ down'[s] = SubSeq(down[s], n + 1, Len(down[s]))
        /\ UNCHANGED srv
    <3>1. PICK r : r = Tail(b)
      OBVIOUS
    <3>2. \/ cli'[s] = Filled(Left(cli[s], r), F("recived", f.msg))
          \/ cli'[s] = Answering(Left(cli[s], r))
      BY <1>1, <1>2, <3>1
    <3>3. cli'[s].left = r
      BY <1>2, <3>2 DEF Filled, Left, Answering, End
    <3> QED
      BY <1>1, <1>2, <3>1, <3>3
  <2>2. seen'[s] = After(seen[s], f)
    BY <1>1, <1>2 DEF After
  <2>3. /\ Pipe(s) # <<>> /\ Pipe(s)' = Tail(Pipe(s)) /\ Head(Pipe(s)) = f
    BY <1>1, <2>1, ReadTakesFront
  <2>4. Pipe(s) \in Seq(Frame)
    BY PipeIs
  <2> QED
    BY <1>1, <1>4, <2>2, <2>3, <2>4, ToldSeen
<1> QED
  BY <1>3, <1>4

LEMMA ClientWriteTells ==
    ASSUME TypeOK, NEW s \in Sub, ClientWrite(s), NEW t \in Sub, NEW d, Told(t, d)
    PROVE  Told(t, d)'
<1>1. cli \in [Sub -> End] /\ cli[s] \in End
  BY DEF TypeOK
<1>2. cli'[t].left = cli[t].left
  BY <1>1 DEF ClientWrite, Written, End
<1>3. Pipe(t)' = Pipe(t)
  BY <1>2, PipeStays DEF ClientWrite
<1> QED
  BY <1>3, ToldStays DEF ClientWrite

LEMMA InitTells == Init => Agreed
<1> SUFFICES ASSUME Init PROVE Agreed
  OBVIOUS
<1>1. ASSUME NEW s \in Sub PROVE Told(s, <<>>)
  <2>1. Pipe(s) = <<>> /\ seen[s] = <<>> /\ waiting[s] = <<>>
    <3>1. Slot(srv[s]) = <<>> /\ cli[s].left = <<>> /\ down[s] = <<>>
      BY DEF Init, Idle, Slot
    <3> QED
      BY <3>1 DEF Init, Pipe
  <2>2. PICK f : f = [i \in 0 .. 0 |-> <<>>]
    OBVIOUS
  <2>3. f \in [0 .. 0 -> Seq(Msg)] /\ f[0] = <<>> /\ IsPrefix(f[0], f[0])
    <3>1. <<>> \in Seq(Msg)
      OBVIOUS
    <3> QED
      BY <2>2, <3>1, PrefixSelf
  <2>4. Trail(f, <<>>, <<>>)
    BY <2>3 DEF Trail
  <2>5. f[Len(<<>>)] \o <<>> = <<>>
    BY <2>3
  <2> QED
    BY <2>1, <2>4, <2>5 DEF Told
<1>2. <<>> \in Seq(Msg)
  OBVIOUS
<1> QED
  BY <1>1, <1>2 DEF Agreed

LEMMA NextTells == Even /\ TypeOK /\ Agreed /\ [Next]_vars => Agreed'
<1> SUFFICES ASSUME Even, TypeOK, Agreed, [Next]_vars PROVE Agreed'
  OBVIOUS
<1>1. ASSUME UNCHANGED <<waiting, srv, cli, down, seen>> PROVE Agreed'
  BY <1>1, PipeStays, ToldStays, AgreedStays
<1>2. ASSUME NEW m \in Msg, Add(m) PROVE Agreed'
  BY <1>1, <1>2 DEF Add
<1>3. ASSUME Tick PROVE Agreed'
  BY <1>3, TickTells
<1>4. ASSUME Handle PROVE Agreed'
  <2>1. UNCHANGED waiting /\ (event # NULL => event.sub \in Sub)
    BY <1>4 DEF Handle, TypeOK
  <2>2. ASSUME NEW s \in Sub, ServerWrite(s) PROVE Agreed'
    <3>1. UNCHANGED <<waiting, seen>>
      BY <2>1, <2>2 DEF ServerWrite
    <3>2. \A t \in Sub : Pipe(t)' = Pipe(t)
      BY <2>2, SlotEmpties
    <3> QED
      BY <3>1, <3>2, ToldStays, AgreedStays
  <2>3. ASSUME NEW s \in Sub, srv[s].want = "r", ServerRead(s) PROVE Agreed'
    BY <2>1, <2>3, ServerReadTells, AgreedStays
  <2>4. CASE UNCHANGED <<stage, count, srv, cli, down, up, seen>>
    BY <1>1, <2>1, <2>4
  <2> QED
    BY <1>4, <2>1, <2>2, <2>3, <2>4 DEF Handle
<1>5. ASSUME NEW s \in Sub, ClientRead(s) PROVE Agreed'
  BY <1>5, ClientReadTells, AgreedStays
<1>6. ASSUME NEW s \in Sub, ClientWrite(s) PROVE Agreed'
  BY <1>6, ClientWriteTells, AgreedStays
<1>7. ASSUME NEW s \in Sub, Poll(s) PROVE Agreed'
  BY <1>1, <1>7 DEF Poll
<1>8. ASSUME PollOther PROVE Agreed'
  BY <1>1, <1>8 DEF PollOther
<1>9. ASSUME NEW s \in Sub, Close(s) PROVE Agreed'
  BY <1>1, <1>9 DEF Close
<1>10. CASE UNCHANGED vars
  BY <1>1, <1>10 DEF vars
<1> QED
  BY <1>2, <1>3, <1>4, <1>5, <1>6, <1>7, <1>8, <1>9, <1>10 DEF Next

LEMMA AgreedOrders == TypeOK /\ Agreed => AgreeOnOrder
<1> SUFFICES ASSUME TypeOK, Agreed
             PROVE  \A s, t \in Sub : IsPrefix(seen[s], seen[t]) \/ IsPrefix(seen[t], seen[s])
  BY DEF AgreeOnOrder
<1>1. PICK d \in Seq(Msg) : \A s \in Sub : Told(s, d)
  BY DEF Agreed
<1>2. ASSUME NEW s \in Sub PROVE seen[s] \in Seq(Msg) /\ IsPrefix(seen[s], d)
  <2>1. PICK f : Trail(f, seen[s], Pipe(s)) /\ d = f[Len(Pipe(s))] \o waiting[s]
    BY <1>1, <1>2 DEF Told
  <2>2. PICK k : k = Len(Pipe(s))
    OBVIOUS
  <2>3. k \in Nat /\ Pipe(s) \in Seq(Frame) /\ waiting[s] \in Seq(Msg) /\ seen[s] \in Seq(Msg)
    BY <1>2, <2>2, PipeIs DEF TypeOK
  <2>4. f[k] \in Seq(Msg) /\ IsPrefix(seen[s], f[k])
    BY <2>1, <2>2, <2>3 DEF Trail
  <2>5. IsPrefix(f[k], f[k] \o waiting[s]) /\ f[k] \o waiting[s] = d
    BY <2>1, <2>2, <2>3, <2>4, PrefixSelf
  <2> QED
    BY <1>1, <2>3, <2>4, <2>5, PrefixTransitive
<1> QED
  BY <1>1, <1>2, PrefixesAgree

(* Where the listings are even, all subscribers see the messages of the    *)
(* topic in one order, whatever the connections, the reads of several      *)
(* frames and the clients that go away do to the pace of each.             *)
THEOREM OneOrder == Even => (Spec => []AgreeOnOrder)
<1> SUFFICES ASSUME Even PROVE Spec => []AgreeOnOrder
  OBVIOUS
<1>1. Init => Agreed
  BY InitTells
<1>2. TypeOK /\ Agreed /\ [Next]_vars => Agreed'
  BY NextTells
<1>3. TypeOK /\ Agreed => AgreeOnOrder
  BY AgreedOrders
<1> QED
  BY <1>1, <1>2, <1>3, TypesCorrect, PTL DEF Spec
=============================================================================
