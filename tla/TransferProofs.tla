---------------------------- MODULE TransferProofs ----------------------------
(***************************************************************************)
(* Proofs about Transfer, for any number of descriptors, connections,      *)
(* addresses and failing calls.                                            *)
(***************************************************************************)
EXTENDS Transfer, TLAPS

Owner  == {None, Server} \cup Numbers
Wish   == {None, "r", "w"}
Entry  == [of : Owner, sock : Owner, want : Wish]
Record == [fd : Fd, kind : {"in", "push", "request"}, f : {"read", "write"},
           heard : BOOLEAN, half : BOOLEAN, bad : {None, "read", "write"}]

Listening == [of |-> Server, sock |-> None, want |-> None]

(* What start-up leaves: nothing but the listening socket is open, and no  *)
(* connection has its number.                                              *)
Phases ==
    /\ pc \notin {"loop", "stopped"} => conn = <<>>
    /\ pc = "socket" => \A fd \in Fd : table[fd] = Unused
    /\ pc = "option" => lfd # 0 /\ tries > 0
    /\ pc \in {"option", "start"} =>
          \A fd \in Fd : table[fd] = IF fd = lfd THEN Listening ELSE Unused
    /\ pc = "loop" => /\ lfd # 0 => table[lfd].of = Server
                      /\ \A k \in Conns : conn[k].fd # lfd

(* Who is held is open and was not accepted, and nobody gets the events of *)
(* somebody else.                                                          *)
Own ==
    pc = "loop" /\ NoError =>
       /\ \A k \in held : Open(k) /\ conn[k].kind # "in"
       /\ \A fd \in Fd : table[fd].sock \in {None, table[fd].of}

TransferInv == TypeOK /\ Phases /\ NoLeak /\ Own /\ Heard /\ AllClosed
-----------------------------------------------------------------------------
LEMMA Distinct ==
    /\ None # Server
    /\ \A n \in Nat : n # None /\ n # Server
BY TransferAssumption

(* conn as a function on its domain.                                       *)
LEMMA ConnShape ==
    ASSUME conn \in Seq(Record)
    PROVE  /\ Len(conn) \in Nat
           /\ Conns = 1 .. Len(conn)
           /\ \A k \in Conns : conn[k] \in Record
BY DEF Conns

(* Entries of the table after a descriptor is opened, closed, or wanted.   *)
LEMMA OpenedIs ==
    ASSUME table \in [Fd -> Entry], NEW fd \in Fd,
           NEW x \in Owner, NEW s \in Owner, NEW rw \in Wish
    PROVE  /\ Opened(fd, x, s, rw) \in [Fd -> Entry]
           /\ \A g \in Fd : Opened(fd, x, s, rw)[g] =
                 IF g = fd THEN [of |-> x, sock |-> s, want |-> rw] ELSE table[g]
BY DEF Opened, Entry

LEMMA DroppedIs ==
    ASSUME table \in [Fd -> Entry], NEW fd \in Fd
    PROVE  /\ Dropped(fd) \in [Fd -> Entry]
           /\ \A g \in Fd : Dropped(fd)[g] = IF g = fd THEN Unused ELSE table[g]
<1> DEFINE o == Opened(fd, Server, None, None)
<1>1. Server \in Owner /\ None \in Owner /\ None \in Wish /\ Unused \in Entry
  BY DEF Owner, Wish, Entry, Unused
<1>2. /\ o \in [Fd -> Entry]
      /\ \A g \in Fd : g # fd => o[g] = table[g]
  <2>1. /\ o \in [Fd -> Entry]
        /\ \A g \in Fd : o[g] = IF g = fd
               THEN [of |-> Server, sock |-> None, want |-> None] ELSE table[g]
    BY <1>1, OpenedIs
  <2> HIDE DEF o
  <2> QED
    BY <2>1
<1>3. Dropped(fd) = [o EXCEPT ![fd] = Unused]
  BY DEF Dropped
<1> HIDE DEF o
<1> QED
  BY <1>1, <1>2, <1>3

LEMMA ClosedIs ==
    ASSUME table \in [Fd -> Entry], NEW fd
    PROVE  /\ Closed(fd) \in [Fd -> Entry]
           /\ \A g \in Fd : Closed(fd)[g] = IF g = fd THEN Unused ELSE table[g]
BY DEF Closed, Entry, Unused, Owner, Wish

LEMMA WantedIs ==
    ASSUME table \in [Fd -> Entry], conn \in Seq(Record),
           NEW k \in Conns, NEW rw \in Wish, k \in Numbers
    PROVE  /\ Wanted(k, rw) \in [Fd -> Entry]
           /\ \A g \in Fd : Wanted(k, rw)[g] =
                 IF g = conn[k].fd /\ table[g].sock # None
                 THEN [of |-> table[g].of, sock |-> k, want |-> rw]
                 ELSE table[g]
<1>1. conn[k].fd \in Fd
  BY ConnShape DEF Record
<1> DEFINE fd == conn[k].fd
<1>2. table[fd] \in Entry
  BY <1>1
<1>4. [of |-> table[fd].of, sock |-> k, want |-> rw] \in Entry
  BY <1>2 DEF Entry, Owner
<1>5. CASE table[fd].sock # None
  <2>1. Wanted(k, rw) = [table EXCEPT ![fd] = [of |-> table[fd].of, sock |-> k, want |-> rw]]
    BY <1>5 DEF Wanted
  <2> QED
    BY <2>1, <1>1, <1>4, <1>5
<1>6. CASE table[fd].sock = None
  BY <1>6 DEF Wanted
<1> QED
  BY <1>5, <1>6

(* conn after one of its records is changed, or one is appended.           *)
LEMMA Changed ==
    ASSUME conn \in Seq(Record), NEW k \in Conns, NEW r \in Record
    PROVE  LET c == [conn EXCEPT ![k] = r]
           IN  /\ c \in Seq(Record) /\ Len(c) = Len(conn) /\ DOMAIN c = Conns
               /\ \A j \in Conns : c[j] = IF j = k THEN r ELSE conn[j]
BY DEF Conns

LEMMA Appended ==
    ASSUME conn \in Seq(Record), NEW r \in Record
    PROVE  LET c == Append(conn, r)
           IN  /\ c \in Seq(Record) /\ Len(c) = Len(conn) + 1
               /\ DOMAIN c = Conns \cup {Len(conn) + 1}
               /\ Len(conn) + 1 \notin Conns
               /\ c[Len(conn) + 1] = r
               /\ \A j \in Conns : c[j] = conn[j]
BY DEF Conns

LEMMA ChangedField ==
    ASSUME conn \in Seq(Record), NEW k \in Conns
    PROVE  /\ \A b \in {"read", "write"} :
                 /\ [conn EXCEPT ![k].f = b] = [conn EXCEPT ![k] = [conn[k] EXCEPT !.f = b]]
                 /\ [conn[k] EXCEPT !.f = b] \in Record
           /\ [conn EXCEPT ![k].bad = "read"] = [conn EXCEPT ![k] = [conn[k] EXCEPT !.bad = "read"]]
           /\ [conn[k] EXCEPT !.bad = "read"] \in Record
           /\ [conn EXCEPT ![k].half = TRUE] = [conn EXCEPT ![k] = [conn[k] EXCEPT !.half = TRUE]]
           /\ [conn[k] EXCEPT !.half = TRUE] \in Record
BY ConnShape DEF Record

LEMMA WrittenField ==
    ASSUME conn \in Seq(Record), NEW k \in Conns, NEW b \in {"read", "write"}
    PROVE  LET c == [conn EXCEPT ![k].bad = "write", ![k].f = b]
               r == [conn[k] EXCEPT !.bad = "write", !.f = b]
           IN  c = [conn EXCEPT ![k] = r] /\ r \in Record
BY ConnShape DEF Record
-----------------------------------------------------------------------------
LEMMA TypeParts ==
    ASSUME TypeOK
    PROVE  /\ table \in [Fd -> Entry] /\ conn \in Seq(Record)
           /\ Conns \subseteq Numbers
           /\ lfd \in 0 .. MaxFd
           /\ held \subseteq Conns /\ unread \subseteq Conns /\ gone \subseteq Conns
           /\ \A fd \in Fd : table[fd].of = None => table[fd] = Unused
<1>1. conn \in Seq(Record) /\ waiting \in 0 .. MaxConn - Len(conn)
  BY DEF TypeOK, Record
<1>2. Len(conn) <= MaxConn
  BY <1>1, TransferAssumption, ConnShape
<1>3. Conns \subseteq Numbers
  BY <1>1, <1>2, ConnShape, TransferAssumption DEF Numbers
<1> QED
  BY <1>1, <1>3 DEF TypeOK, Entry, Owner, Wish

LEMMA InitInv == Init => TransferInv
<1> SUFFICES ASSUME Init PROVE TransferInv
  OBVIOUS
<1>1. conn = <<>> /\ Conns = {} /\ Len(conn) = 0
  BY DEF Init, Conns
<1>2. Unused \in Entry /\ table \in [Fd -> Entry]
  BY DEF Init, Unused, Entry, Owner, Wish
<1>3. TypeOK
  BY <1>1, <1>2, TransferAssumption DEF Init, TypeOK, Entry, Owner, Wish, Unused
<1>4. Phases /\ NoLeak /\ Own /\ AllClosed
  BY <1>1 DEF Init, Phases, NoLeak, Own, AllClosed
<1>5. Heard
  BY <1>1 DEF Heard
<1> QED
  BY <1>3, <1>4, <1>5 DEF TransferInv
-----------------------------------------------------------------------------
(* Steps in the loop that change at most what the peers have done.         *)
LEMMA PeersKeep ==
    ASSUME TransferInv, UNCHANGED <<server, table, conn, held>>,
           waiting' \in 0 .. MaxConn - Len(conn),
           unread' \subseteq Conns, gone' \subseteq Conns
    PROVE  TransferInv'
<1>1. TypeOK'
  BY DEF TransferInv, TypeOK, server, Conns
<1>2. Phases' /\ NoLeak' /\ Own' /\ AllClosed'
  BY DEF TransferInv, Phases, NoLeak, Own, AllClosed, server, Conns, Open, NoError, Newest
<1>3. Heard'
  BY DEF TransferInv, Heard, server, Conns, Open, NoError
<1> QED
  BY <1>1, <1>2, <1>3 DEF TransferInv

(* NoError is never restored.                                              *)
LEMMA TurnKeeps ==
    ASSUME TransferInv, pc = "loop", NEW k \in Conns, NEW b \in {"read", "write"},
           NoError => Open(k),
           table' = Wanted(k, IF b = "read" THEN "r" ELSE "w"),
           conn' = [conn EXCEPT ![k].f = b],
           UNCHANGED <<server, held, waiting, gone>>, unread' \subseteq Conns
    PROVE  TransferInv'
<1> DEFINE rw == IF b = "read" THEN "r" ELSE "w"
           fd == conn[k].fd
           r  == [conn[k] EXCEPT !.f = b]
<1>1. /\ table \in [Fd -> Entry] /\ conn \in Seq(Record)
      /\ Conns \subseteq Numbers /\ rw \in Wish
      /\ \A g \in Fd : table[g].of = None => table[g] = Unused
  BY TypeParts DEF TransferInv, Wish
<1>2. /\ r \in Record /\ conn[k] \in Record
      /\ r.f = b /\ r.fd = fd /\ r.kind = conn[k].kind /\ r.bad = conn[k].bad
      /\ r.heard = conn[k].heard
      /\ conn' = [conn EXCEPT ![k] = r]
  <2>1. conn[k] \in Record
    BY <1>1, ConnShape
  <2>2. /\ r.f = b /\ r.fd = fd /\ r.kind = conn[k].kind /\ r.bad = conn[k].bad
        /\ r.heard = conn[k].heard
    BY <2>1 DEF Record
  <2>3. [conn EXCEPT ![k].f = b] = [conn EXCEPT ![k] = r] /\ r \in Record
    BY <1>1, ChangedField, Zenon
  <2> QED
    BY <2>1, <2>2, <2>3, Zenon
<1>3. /\ conn' \in Seq(Record) /\ Len(conn') = Len(conn) /\ Conns' = Conns
      /\ \A j \in Conns : conn'[j] = IF j = k THEN r ELSE conn[j]
  BY <1>1, <1>2, Changed DEF Conns
<1>4. /\ \A j \in Conns : conn'[j].fd = conn[j].fd /\ conn'[j].kind = conn[j].kind
                          /\ conn'[j].bad = conn[j].bad /\ conn'[j].heard = conn[j].heard
      /\ \A j \in Conns : conn[j].fd \in Fd
  BY <1>1, <1>2, <1>3, ConnShape DEF Record
<1>5. /\ table' \in [Fd -> Entry]
      /\ \A g \in Fd : table'[g] =
            IF g = fd /\ table[g].sock # None
            THEN [of |-> table[g].of, sock |-> k, want |-> rw] ELSE table[g]
  BY <1>1, WantedIs
<1> HIDE DEF rw, fd, r
<1>6. /\ \A g \in Fd : table'[g].of = table[g].of
      /\ \A g \in Fd : table'[g].of = None => table'[g] = Unused
  <2> SUFFICES ASSUME NEW g \in Fd
               PROVE  /\ table'[g].of = table[g].of
                      /\ table'[g].of = None => table'[g] = Unused
    OBVIOUS
  <2>1. CASE table[g].sock = None
    BY <1>1, <1>5, <2>1
  <2>2. CASE table[g].sock # None
    <3>1. table[g].of # None
      BY <1>1, <2>2 DEF Unused
    <3>2. table'[g] = table[g] \/ table'[g] = [of |-> table[g].of, sock |-> k, want |-> rw]
      BY <1>5
    <3> QED
      BY <3>1, <3>2
  <2> QED
    BY <2>1, <2>2
<1>7. TypeOK'
  <2>1. waiting' \in 0 .. MaxConn - Len(conn')
    BY <1>3 DEF TransferInv, TypeOK
  <2> QED
    BY <1>3, <1>5, <1>6, <2>1
    DEF TransferInv, TypeOK, server, Entry, Owner, Wish, Record, Conns
<1>8. Phases'
  BY <1>3, <1>4, <1>6, TypeParts DEF TransferInv, Phases, server, Fd
<1>9. NoLeak'
  BY <1>3, <1>4, <1>6 DEF TransferInv, NoLeak, server
<1>10. NoError' => NoError
  BY <1>3, <1>4 DEF NoError
<1>11. \A j \in Conns : Open(j)' <=> Open(j)
  BY <1>3, <1>4, <1>6 DEF Open
<1>12. ASSUME NoError'
       PROVE  /\ \A g \in Fd : table'[g].sock \in {None, table'[g].of}
              /\ Open(k)
  <2>1. NoError /\ Open(k)
    BY <1>10, <1>12
  <2>2. \A g \in Fd : table[g].sock \in {None, table[g].of}
    BY <2>1 DEF TransferInv, Own
  <2>3. table[fd].of = k
    BY <2>1 DEF Open, fd
  <2>4. ASSUME NEW g \in Fd
        PROVE  table'[g].sock \in {None, table'[g].of}
    <3>1. CASE table'[g] = table[g]
      BY <2>2, <3>1
    <3>2. CASE g = fd /\ table'[g] = [of |-> table[g].of, sock |-> k, want |-> rw]
      BY <2>3, <3>2
    <3> QED
      BY <1>5, <3>1, <3>2
  <2> QED
    BY <2>1, <2>4
<1>13. Own'
  BY <1>3, <1>4, <1>10, <1>11, <1>12, TypeParts DEF TransferInv, Own
<1>14. Heard'
  <2> SUFFICES ASSUME NoError', NEW j \in Conns, Open(j)'
               PROVE  LET t == table'[conn'[j].fd]
                      IN  IF conn'[j].heard
                          THEN /\ t.sock = j
                               /\ t.want = (IF conn'[j].f = "read" THEN "r" ELSE "w")
                          ELSE t.sock = None
    BY <1>3 DEF Heard
  <2>1. Open(j) /\ Open(k) /\ NoError
    BY <1>10, <1>11, <1>12
  <2>2. LET t == table[conn[j].fd]
        IN  IF conn[j].heard
            THEN /\ t.sock = j
                 /\ t.want = (IF conn[j].f = "read" THEN "r" ELSE "w")
            ELSE t.sock = None
    BY <2>1 DEF TransferInv, Heard
  <2>3. CASE j = k
    <3>1. fd = conn[j].fd /\ fd \in Fd /\ k # None /\ k \in Conns
      BY <2>3, <1>1, <1>4, Distinct DEF Numbers, fd
    <3>2. conn'[j].f = b /\ conn'[j].fd = fd /\ conn'[j].heard = conn[j].heard
      BY <2>3, <1>2, <1>3, <1>4, <3>1
    <3>3. CASE conn[j].heard
      <4>1. table[fd].sock = k
        BY <2>2, <2>3, <3>1, <3>3
      <4>2. table'[fd] = [of |-> table[fd].of, sock |-> k, want |-> rw]
        BY <1>5, <3>1, <4>1
      <4> QED
        BY <2>3, <3>2, <3>3, <4>2 DEF rw
    <3>4. CASE ~conn[j].heard
      BY <1>5, <2>2, <2>3, <3>1, <3>2, <3>4
    <3> QED
      BY <3>3, <3>4
  <2>4. CASE j # k
    <3>1. conn[j].fd # fd
      BY <2>1, <2>4 DEF Open, fd
    <3>2. table'[conn[j].fd] = table[conn[j].fd]
      BY <3>1, <1>4, <1>5
    <3> QED
      BY <2>2, <2>4, <3>2, <1>3, <1>4
  <2> QED
    BY <2>3, <2>4
<1>15. AllClosed'
  BY DEF AllClosed, server
<1> QED
  BY <1>7, <1>8, <1>9, <1>13, <1>14, <1>15 DEF TransferInv

(* A call on k fails, and k is closed.                                     *)
LEMMA FailureKeeps ==
    ASSUME TransferInv, pc = "loop", NEW k \in Conns, NEW r \in Record,
           r.fd = conn[k].fd, r.kind = conn[k].kind, r.heard = conn[k].heard,
           r.bad # None,
           NoError => Open(k),
           Close(k), conn' = [conn EXCEPT ![k] = r], UNCHANGED <<server, held>>
    PROVE  TransferInv'
<1>1. /\ table \in [Fd -> Entry] /\ conn \in Seq(Record)
      /\ Conns \subseteq Numbers
      /\ \A g \in Fd : table[g].of = None => table[g] = Unused
  BY TypeParts DEF TransferInv
<1>2. /\ conn' \in Seq(Record) /\ Len(conn') = Len(conn) /\ Conns' = Conns
      /\ \A j \in Conns : conn'[j] = IF j = k THEN r ELSE conn[j]
  BY <1>1, Changed DEF Conns
<1>3. /\ \A j \in Conns : conn'[j].fd = conn[j].fd /\ conn'[j].kind = conn[j].kind
      /\ \A j \in Conns : conn[j].fd \in Fd
  BY <1>1, <1>2, ConnShape DEF Record
<1>4. /\ table' \in [Fd -> Entry]
      /\ \A g \in Fd : table'[g] = IF g = conn[k].fd THEN Unused ELSE table[g]
  BY <1>1, ClosedIs DEF Close
<1>5. NoError' => NoError /\ conn[k].kind = "in"
  BY <1>2, <1>3 DEF NoError
<1>6. TypeOK'
  <2>1. waiting' \in 0 .. MaxConn - Len(conn')
    BY <1>2 DEF TransferInv, TypeOK, Close
  <2>2. unread' \subseteq Conns' /\ gone' \subseteq Conns' /\ held' \subseteq Conns'
    BY <1>2 DEF TransferInv, TypeOK, Close
  <2>3. \A g \in Fd : table'[g].of = None => table'[g] = Unused
    BY <1>1, <1>4
  <2> QED
    BY <1>2, <1>4, <2>1, <2>2, <2>3
    DEF TransferInv, TypeOK, server, Entry, Owner, Wish, Record
<1>7. Phases'
  <2>1. \A j \in Conns : conn[j].fd # lfd
    BY DEF TransferInv, Phases
  <2>2. lfd # 0 => lfd \in Fd
    BY DEF TransferInv, TypeOK, Fd
  <2> QED
    BY <1>2, <1>3, <1>4, <2>1, <2>2 DEF TransferInv, Phases, server
<1>8. NoLeak'
  BY <1>2, <1>3, <1>4 DEF TransferInv, NoLeak, server, Unused
<1>9. ASSUME NEW j \in Conns, NoError', j # k
      PROVE  /\ Open(j) => conn[j].fd # conn[k].fd
             /\ Open(j)' <=> Open(j)
  <2>1. Open(k) /\ j # None /\ j \in Nat
    BY <1>1, <1>5, <1>9, Distinct DEF Numbers
  <2>2. Open(j) => conn[j].fd # conn[k].fd
    BY <1>9, <2>1 DEF Open
  <2>3. Open(j)' => conn[j].fd # conn[k].fd
    BY <1>3, <1>4, <1>9, <2>1 DEF Open, Unused
  <2> QED
    BY <1>3, <1>4, <2>2, <2>3 DEF Open
<1>10. ~Open(k)'
  BY <1>1, <1>3, <1>4, Distinct DEF Open, Unused, Numbers
<1>11. Own'
  <2> SUFFICES ASSUME NoError'
               PROVE  /\ \A j \in held : Open(j)' /\ conn'[j].kind # "in"
                      /\ \A g \in Fd : table'[g].sock \in {None, table'[g].of}
    BY DEF Own
  <2>1. /\ \A j \in held : Open(j) /\ conn[j].kind # "in"
        /\ \A g \in Fd : table[g].sock \in {None, table[g].of}
    BY <1>5 DEF TransferInv, Own
  <2>2. ASSUME NEW j \in held PROVE Open(j)' /\ conn'[j].kind # "in"
    <3>1. j \in Conns /\ j # k
      BY <1>5, <2>1, TypeParts DEF TransferInv
    <3> QED
      BY <1>3, <1>9, <2>1, <3>1
  <2> QED
    BY <1>4, <2>1, <2>2 DEF Unused
<1>12. Heard'
  <2> SUFFICES ASSUME NoError', NEW j \in Conns, Open(j)'
               PROVE  LET t == table'[conn'[j].fd]
                      IN  IF conn'[j].heard
                          THEN /\ t.sock = j
                               /\ t.want = (IF conn'[j].f = "read" THEN "r" ELSE "w")
                          ELSE t.sock = None
    BY <1>2 DEF Heard
  <2>1. j # k
    BY <1>10
  <2>2. Open(j) /\ conn'[j] = conn[j] /\ table'[conn[j].fd] = table[conn[j].fd]
    BY <1>2, <1>3, <1>4, <1>9, <2>1
  <2> QED
    BY <1>5, <2>2 DEF TransferInv, Heard
<1>13. AllClosed'
  BY DEF AllClosed, server
<1> QED
  BY <1>6, <1>7, <1>8, <1>11, <1>12, <1>13 DEF TransferInv

(* A pusher or a requester is freed, and closes its connection.            *)
LEMMA ReleaseKeeps ==
    ASSUME TransferInv, NEW k \in Conns, Release(k)
    PROVE  TransferInv'
<1>1. /\ table \in [Fd -> Entry] /\ conn \in Seq(Record)
      /\ Conns \subseteq Numbers /\ pc = "loop" /\ k \in held
      /\ \A g \in Fd : table[g].of = None => table[g] = Unused
  BY TypeParts DEF TransferInv, Release
<1>2. conn' = conn /\ Conns' = Conns
  BY DEF Release, Conns
<1>3. \A j \in Conns : conn[j].fd \in Fd
  BY <1>1, ConnShape DEF Record
<1>4. /\ table' \in [Fd -> Entry]
      /\ \A g \in Fd : table'[g] = IF g = conn[k].fd THEN Unused ELSE table[g]
  BY <1>1, ClosedIs DEF Close, Release
<1>5. NoError' <=> NoError
  BY <1>2 DEF NoError
<1>6. TypeOK'
  <2>1. \A g \in Fd : table'[g].of = None => table'[g] = Unused
    BY <1>1, <1>4
  <2> QED
    BY <1>2, <1>4, <2>1 DEF TransferInv, TypeOK, Release, Close, server, Entry, Owner, Wish
<1>7. Phases'
  <2>1. \A j \in Conns : conn[j].fd # lfd
    BY <1>1 DEF TransferInv, Phases
  <2>2. lfd # 0 => lfd \in Fd
    BY DEF TransferInv, TypeOK, Fd
  <2> QED
    BY <1>1, <1>2, <1>3, <1>4, <2>1, <2>2 DEF TransferInv, Phases, server, Release
<1>8. NoLeak'
  BY <1>1, <1>2, <1>3, <1>4 DEF TransferInv, NoLeak, server, Unused, Release
<1>9. ASSUME NEW j \in Conns, NoError, j # k
      PROVE  /\ Open(j) => conn[j].fd # conn[k].fd
             /\ Open(j)' <=> Open(j)
  <2>1. Open(k) /\ j # None /\ j \in Nat
    BY <1>1, <1>9, Distinct DEF Numbers, TransferInv, Own
  <2>2. Open(j) => conn[j].fd # conn[k].fd
    BY <1>9, <2>1 DEF Open
  <2>3. Open(j)' => conn[j].fd # conn[k].fd
    BY <1>2, <1>3, <1>4, <1>9, <2>1 DEF Open, Unused
  <2> QED
    BY <1>2, <1>3, <1>4, <2>2, <2>3 DEF Open
<1>10. ~Open(k)'
  BY <1>1, <1>2, <1>3, <1>4, Distinct DEF Open, Unused, Numbers
<1>11. Own'
  <2> SUFFICES ASSUME NoError
               PROVE  /\ \A j \in held' : Open(j)' /\ conn'[j].kind # "in"
                      /\ \A g \in Fd : table'[g].sock \in {None, table'[g].of}
    BY <1>5 DEF Own
  <2>1. /\ \A j \in held : Open(j) /\ conn[j].kind # "in"
        /\ \A g \in Fd : table[g].sock \in {None, table[g].of}
    BY <1>1 DEF TransferInv, Own
  <2>2. ASSUME NEW j \in held' PROVE Open(j)' /\ conn'[j].kind # "in"
    <3>1. j \in Conns /\ j # k /\ j \in held
      BY TypeParts DEF TransferInv, Release
    <3> QED
      BY <1>2, <1>9, <2>1, <3>1
  <2> QED
    BY <1>4, <2>1, <2>2 DEF Unused
<1>12. Heard'
  <2> SUFFICES ASSUME NoError, NEW j \in Conns, Open(j)'
               PROVE  LET t == table'[conn'[j].fd]
                      IN  IF conn'[j].heard
                          THEN /\ t.sock = j
                               /\ t.want = (IF conn'[j].f = "read" THEN "r" ELSE "w")
                          ELSE t.sock = None
    BY <1>2, <1>5 DEF Heard
  <2>1. j # k
    BY <1>10
  <2>2. Open(j) /\ table'[conn[j].fd] = table[conn[j].fd]
    BY <1>3, <1>4, <1>9, <2>1
  <2> QED
    BY <1>2, <2>2 DEF TransferInv, Heard
<1>13. AllClosed'
  BY <1>1 DEF AllClosed, server, Release
<1> QED
  BY <1>6, <1>7, <1>8, <1>11, <1>12, <1>13 DEF TransferInv

(* A new connection on a descriptor that was free: open as s, or closed    *)
(* again when the caller gives up.                                         *)
LEMMA NewKeeps ==
    ASSUME TransferInv, pc = "loop", NEW fd \in Fd, Lowest(fd),
           NEW r \in Record, r.fd = fd, r.bad = None,
           Len(conn) < MaxConn,
           conn' = Append(conn, r),
           \/ /\ r.heard
              /\ table' = Opened(fd, Len(conn) + 1, Len(conn) + 1,
                                 IF r.f = "read" THEN "r" ELSE "w")
           \/ ~r.heard /\ table' = Opened(fd, Len(conn) + 1, None, None)
           \/ table' = Dropped(fd),
           \/ held' = held
           \/ /\ held' = held \cup {Len(conn) + 1}
              /\ r.kind # "in" /\ table' # Dropped(fd),
           waiting' \in 0 .. MaxConn - (Len(conn) + 1),
           UNCHANGED <<server, unread, gone>>
    PROVE  TransferInv'
<1>0. PICK k \in Nat : k = Len(conn) + 1
  BY TypeParts, ConnShape DEF TransferInv
<1>1. /\ table \in [Fd -> Entry] /\ conn \in Seq(Record)
      /\ Conns \subseteq Numbers /\ lfd \in 0 .. MaxFd
      /\ held \subseteq Conns /\ unread \subseteq Conns /\ gone \subseteq Conns
      /\ \A g \in Fd : table[g].of = None => table[g] = Unused
  BY TypeParts DEF TransferInv
<1>2. /\ conn' \in Seq(Record) /\ Len(conn') = k /\ Conns' = Conns \cup {k}
      /\ k \notin Conns /\ conn'[k] = r
      /\ \A j \in Conns : conn'[j] = conn[j]
  BY <1>0, <1>1, Appended DEF Conns
<1>3. k \in Numbers /\ k # None /\ k # Server /\ Len(conn) \in Nat
  BY <1>0, <1>1, ConnShape, Distinct, TransferAssumption DEF Numbers
<1>4. \A j \in Conns : conn[j].fd \in Fd /\ j # None /\ j # Server
  BY <1>1, ConnShape, Distinct DEF Record, Numbers
<1>5. table[fd] = Unused /\ table[fd].of = None
  BY <1>1 DEF Lowest
<1> DEFINE e == table'[fd]
<1>6. /\ table' \in [Fd -> Entry]
      /\ \A g \in Fd : g # fd => table'[g] = table[g]
      /\ \/ e = Unused /\ table' = Dropped(fd)
         \/ e = [of |-> k, sock |-> k, want |-> IF r.f = "read" THEN "r" ELSE "w"]
            /\ r.heard
         \/ e = [of |-> k, sock |-> None, want |-> None] /\ ~r.heard
  <2>1. k \in Owner /\ None \in Owner /\ Server \in Owner
        /\ "r" \in Wish /\ "w" \in Wish /\ None \in Wish /\ Unused \in Entry
    BY <1>3 DEF Owner, Wish, Entry, Unused
  <2>2. CASE r.heard /\ table' = Opened(fd, k, k, IF r.f = "read" THEN "r" ELSE "w")
    <3> DEFINE rw == IF r.f = "read" THEN "r" ELSE "w"
    <3>1. rw \in Wish
      BY <2>1
    <3> HIDE DEF rw
    <3>2. /\ Opened(fd, k, k, rw) \in [Fd -> Entry]
          /\ \A g \in Fd : Opened(fd, k, k, rw)[g] =
                IF g = fd THEN [of |-> k, sock |-> k, want |-> rw] ELSE table[g]
      BY <1>1, <2>1, <3>1, OpenedIs
    <3>3. /\ table' \in [Fd -> Entry]
          /\ \A g \in Fd : table'[g] =
                IF g = fd THEN [of |-> k, sock |-> k, want |-> rw] ELSE table[g]
      BY <2>2, <3>2 DEF rw
    <3> QED
      BY <2>2, <3>3 DEF rw
  <2>3. CASE ~r.heard /\ table' = Opened(fd, k, None, None)
    BY <1>0, <1>1, <2>1, <2>3, OpenedIs
  <2>4. CASE table' = Dropped(fd)
    BY <1>1, <2>4, DroppedIs
  <2> QED
    BY <1>0, <1>2, <2>2, <2>3, <2>4
<1> HIDE DEF e
<1>7. e.of \in {None, k} /\ (e.of = None => e = Unused) /\ e.sock \in {None, e.of}
  <2>1. CASE e = Unused
    BY <2>1 DEF Unused
  <2>2. CASE e = [of |-> k, sock |-> k, want |-> IF r.f = "read" THEN "r" ELSE "w"]
    BY <1>3, <2>2
  <2>3. CASE e = [of |-> k, sock |-> None, want |-> None]
    BY <1>3, <2>3
  <2> QED
    BY <1>6, <2>1, <2>2, <2>3
<1>8. NoError' => NoError
  BY <1>2 DEF NoError
<1>9. TypeOK'
  <2>1. waiting' \in 0 .. MaxConn - Len(conn')
    BY <1>0, <1>2
  <2>2. held' \subseteq Conns' /\ unread' \subseteq Conns' /\ gone' \subseteq Conns'
    BY <1>0, <1>1, <1>2
  <2>3. \A g \in Fd : table'[g].of = None => table'[g] = Unused
    BY <1>1, <1>6, <1>7 DEF e
  <2> QED
    BY <1>2, <1>6, <2>1, <2>2, <2>3
    DEF TransferInv, TypeOK, server, Entry, Owner, Wish, Record
<1>10. Phases'
  <2>1. /\ lfd # 0 => table[lfd].of = Server /\ lfd \in Fd
        /\ \A j \in Conns : conn[j].fd # lfd
    BY <1>1 DEF TransferInv, Phases, Fd
  <2>2. fd # lfd
    BY <1>5, <2>1, Distinct DEF Fd
  <2> QED
    BY <1>2, <1>6, <2>1, <2>2 DEF Phases, server
<1>11. NoLeak'
  <2> SUFFICES ASSUME NEW g \in Fd
               PROVE  \/ table'[g].of = None
                      \/ table'[g].of = Server /\ g = lfd
                      \/ table'[g].of \in Conns' /\ conn'[table'[g].of].fd = g
    BY DEF NoLeak, server
  <2>1. CASE g = fd
    BY <1>2, <1>7, <2>1 DEF e
  <2>2. CASE g # fd
    <3>1. \/ table[g].of = None
          \/ table[g].of = Server /\ g = lfd
          \/ table[g].of \in Conns /\ conn[table[g].of].fd = g
      BY DEF TransferInv, NoLeak
    <3> QED
      BY <1>2, <1>6, <2>2, <3>1
  <2> QED
    BY <2>1, <2>2
<1>12. \A j \in Conns : Open(j) => conn[j].fd # fd /\ Open(j)'
  BY <1>2, <1>4, <1>5, <1>6 DEF Open
<1>13. \A j \in Conns : Open(j)' => Open(j)
  <2> SUFFICES ASSUME NEW j \in Conns, Open(j)' PROVE Open(j)
    OBVIOUS
  <2>1. conn'[j].fd = conn[j].fd /\ j # k /\ j # None /\ table'[conn[j].fd].of = j
    BY <1>2, <1>4 DEF Open
  <2>2. conn[j].fd # fd
    BY <1>7, <2>1 DEF e
  <2> QED
    BY <1>4, <1>6, <2>1, <2>2 DEF Open
<1>14. Own'
  <2> SUFFICES ASSUME NoError
               PROVE  /\ \A j \in held' : Open(j)' /\ conn'[j].kind # "in"
                      /\ \A g \in Fd : table'[g].sock \in {None, table'[g].of}
    BY <1>8 DEF Own
  <2>1. /\ \A j \in held : Open(j) /\ conn[j].kind # "in"
        /\ \A g \in Fd : table[g].sock \in {None, table[g].of}
    BY DEF TransferInv, Own
  <2>2. \A g \in Fd : table'[g].sock \in {None, table'[g].of}
    BY <1>6, <1>7, <2>1 DEF e
  <2>3. \A j \in held : Open(j)' /\ conn'[j].kind # "in"
    BY <1>1, <1>2, <1>12, <2>1
  <2>4. k \in held' => Open(k)' /\ r.kind # "in"
    <3>1. k \in held' => table' # Dropped(fd) /\ r.kind # "in"
      BY <1>0, <1>1, <1>2
    <3>2. table' # Dropped(fd) => e.of = k
      BY <1>6
    <3> QED
      BY <1>2, <3>1, <3>2 DEF Open, e
  <2> QED
    BY <1>0, <1>2, <2>2, <2>3, <2>4
<1>15. Heard'
  <2> SUFFICES ASSUME NoError, NEW j \in Conns \cup {k}, Open(j)'
               PROVE  LET t == table'[conn'[j].fd]
                      IN  IF conn'[j].heard
                          THEN /\ t.sock = j
                               /\ t.want = (IF conn'[j].f = "read" THEN "r" ELSE "w")
                          ELSE t.sock = None
    BY <1>2, <1>8 DEF Heard
  <2>1. CASE j \in Conns
    <3>1. Open(j) /\ conn[j].fd # fd /\ conn'[j] = conn[j]
          /\ table'[conn[j].fd] = table[conn[j].fd]
      BY <1>2, <1>4, <1>6, <1>12, <1>13, <2>1
    <3> QED
      BY <2>1, <3>1 DEF TransferInv, Heard
  <2>2. CASE j = k
    <3>1. conn'[j] = r /\ table'[conn'[j].fd] = e /\ e.of = k
      BY <1>2, <2>2 DEF Open, e
    <3>2. e # Unused
      BY <1>3, <3>1 DEF Unused
    <3> QED
      BY <1>6, <2>2, <3>1, <3>2
  <2> QED
    BY <2>1, <2>2
<1>16. AllClosed'
  BY DEF AllClosed, server
<1> QED
  BY <1>9, <1>10, <1>11, <1>14, <1>15, <1>16 DEF TransferInv
-----------------------------------------------------------------------------
(* Start-up: no connection is made, and the table is known entry by entry. *)
LEMMA StartKeeps ==
    ASSUME TransferInv, UNCHANGED <<conn, held, peers>>, conn = <<>>,
           pc' \in {"socket", "option", "start", "loop", "exit"},
           tries' \in 0 .. Addresses, lfd' \in 0 .. MaxFd,
           table' \in [Fd -> Entry],
           \A fd \in Fd : table'[fd].of = None => table'[fd] = Unused,
           Phases',
           pc' = "loop" => \A fd \in Fd :
               \/ table'[fd] = Unused
               \/ fd = lfd' /\ table'[fd].of = Server
                            /\ table'[fd].sock \in {None, Server}
    PROVE  TransferInv'
<1>1. Conns = {} /\ Conns' = {} /\ Len(conn) = 0
  BY DEF Conns
<1>2. held = {} /\ held' = {}
  BY <1>1, TypeParts DEF TransferInv
<1>3. TypeOK'
  BY <1>1 DEF TransferInv, TypeOK, peers, Entry, Owner, Wish, Conns
<1>4. NoLeak' /\ AllClosed'
  BY DEF NoLeak, AllClosed, Unused
<1>5. Own'
  BY <1>2 DEF Own, Unused
<1>6. Heard'
  BY <1>1 DEF Heard
<1> QED
  BY <1>3, <1>4, <1>5, <1>6 DEF TransferInv

LEMMA StartUpKeeps ==
    ASSUME TransferInv,
           TrySocket \/ TryFails \/ Bound \/ NoAddress \/ Inherit \/ Start
    PROVE  TransferInv'
<1>1. /\ table \in [Fd -> Entry] /\ lfd \in 0 .. MaxFd /\ tries \in 0 .. Addresses
      /\ \A fd \in Fd : table[fd].of = None => table[fd] = Unused
  BY TypeParts DEF TransferInv, TypeOK
<1>2. /\ Unused \in Entry /\ Server \in Owner /\ None \in Owner
      /\ None \in Wish /\ "r" \in Wish /\ Server # None
  BY Distinct DEF Unused, Entry, Owner, Wish
<1>3. conn = <<>> /\ UNCHANGED <<conn, held, peers>>
  BY DEF TransferInv, Phases, TrySocket, TryFails, Bound, NoAddress, Inherit, Start
<1>4. Conns' = {}
  BY <1>3 DEF Conns
<1>5. Addresses \in Nat /\ MaxFd \in Nat
  BY TransferAssumption
<1>6. ASSUME NEW fd \in Fd
      PROVE  LET o == Opened(fd, Server, None, None)
             IN  /\ o \in [Fd -> Entry]
                 /\ \A g \in Fd : o[g] = IF g = fd THEN Listening ELSE table[g]
  BY <1>1, <1>2, <1>6, OpenedIs DEF Listening
<1>7. \A g : g \in Fd => g \in 0 .. MaxFd /\ g # 0
  BY <1>5 DEF Fd
<1>8. Listening.of = Server /\ Listening.sock = None /\ Unused.of = None
  BY DEF Listening, Unused
<1>9. CASE TrySocket
  <2>1. CASE tries' = tries - 1 /\ UNCHANGED <<pc, lfd, table>>
    <3>1. Phases'
      BY <1>3, <1>9, <2>1 DEF TransferInv, Phases, TrySocket
    <3>2. tries' \in 0 .. Addresses
      BY <1>1, <1>5, <1>9, <2>1 DEF TrySocket
    <3> QED
      BY <1>1, <1>3, <1>9, <2>1, <3>1, <3>2, StartKeeps DEF TrySocket
  <2>2. ASSUME NEW fd \in Fd, pc' = "option", lfd' = fd,
               table' = Opened(fd, Server, None, None), UNCHANGED tries
        PROVE  TransferInv'
    <3>1. /\ table' \in [Fd -> Entry]
          /\ \A g \in Fd : table'[g] = IF g = fd THEN Listening ELSE Unused
      BY <1>6, <1>9, <2>2 DEF TransferInv, Phases, TrySocket
    <3>2. Phases'
      BY <1>1, <1>3, <1>5, <1>7, <1>9, <2>2, <3>1 DEF Phases, TrySocket
    <3> QED
      BY <1>1, <1>2, <1>3, <1>7, <1>8, <2>2, <3>1, <3>2, StartKeeps
  <2> QED
    BY <1>9, <2>1, <2>2 DEF TrySocket
<1>10. CASE TryFails
  <2>1. /\ pc = "option" /\ lfd \in Fd
        /\ \A g \in Fd : table[g] = IF g = lfd THEN Listening ELSE Unused
    BY <1>1, <1>5, <1>10 DEF TransferInv, Phases, TryFails, Fd
  <2>2. /\ table' \in [Fd -> Entry]
        /\ \A g \in Fd : table'[g] = Unused
    BY <1>1, <1>10, <2>1, ClosedIs DEF TryFails
  <2>3. lfd' = lfd /\ pc' \in {"socket", "exit"}
    BY <1>10 DEF TryFails
  <2>4. Phases'
    BY <1>3, <2>2, <2>3 DEF Phases
  <2>5. tries' \in 0 .. Addresses
    BY <1>1, <1>5, <1>10 DEF TryFails, TransferInv, Phases
  <2> QED
    BY <1>1, <1>2, <1>3, <1>8, <2>2, <2>3, <2>4, <2>5, StartKeeps
<1>11. CASE Bound
  <2>1. /\ lfd \in Fd
        /\ \A g \in Fd : table[g] = IF g = lfd THEN Listening ELSE Unused
    BY <1>1, <1>5, <1>11 DEF TransferInv, Phases, Bound, Fd
  <2>2. lfd' = lfd /\ pc' = "start" /\ tries' = tries
        /\ table' = Opened(lfd, Server, None, None)
    BY <1>11 DEF Bound
  <2>3. /\ table' \in [Fd -> Entry]
        /\ \A g \in Fd : table'[g] = IF g = lfd THEN Listening ELSE Unused
    BY <1>6, <2>1, <2>2
  <2>4. Phases'
    BY <1>3, <2>2, <2>3 DEF Phases
  <2> QED
    BY <1>1, <1>2, <1>3, <1>8, <2>2, <2>3, <2>4, StartKeeps
<1>12. CASE NoAddress
  <2>1. /\ lfd' = 0 /\ pc' = "start" /\ tries' = tries /\ table' = table
        /\ \A g \in Fd : table[g] = Unused
    BY <1>12 DEF TransferInv, Phases, NoAddress
  <2>2. Phases'
    BY <1>3, <1>7, <2>1 DEF Phases
  <2> QED
    BY <1>1, <1>3, <1>5, <2>1, <2>2, StartKeeps
<1>13. CASE Inherit
  <2> PICK fd \in Fd : lfd' = fd /\ table' = Opened(fd, Server, None, None)
    BY <1>13 DEF Inherit
  <2>1. pc' = "start" /\ tries' = tries
    BY <1>13 DEF Inherit
  <2>2. /\ table' \in [Fd -> Entry]
        /\ \A g \in Fd : table'[g] = IF g = fd THEN Listening ELSE Unused
    BY <1>6, <1>13 DEF TransferInv, Phases, Inherit
  <2>3. Phases'
    BY <1>3, <1>7, <2>1, <2>2 DEF Phases
  <2> QED
    BY <1>1, <1>2, <1>3, <1>7, <1>8, <2>1, <2>2, <2>3, StartKeeps
<1>14. CASE Start
  <2>1. /\ \A g \in Fd : table[g] = IF g = lfd THEN Listening ELSE Unused
        /\ lfd' = lfd /\ tries' = 0 /\ pc' \in {"loop", "exit"}
        /\ lfd # 0 => lfd \in Fd
    BY <1>1, <1>5, <1>14 DEF TransferInv, Phases, Start, Fd
  <2>2. CASE table' = table
    <3>1. Phases'
      BY <1>3, <1>4, <1>8, <2>1, <2>2 DEF Phases
    <3> QED
      BY <1>1, <1>2, <1>3, <1>5, <1>8, <2>1, <2>2, <3>1, StartKeeps
  <2>3. CASE lfd \in Fd /\ pc' = "loop" /\ table' = Opened(lfd, Server, Server, "r")
    <3>1. /\ table' \in [Fd -> Entry]
          /\ \A g \in Fd : table'[g] =
                IF g = lfd THEN [of |-> Server, sock |-> Server, want |-> "r"]
                ELSE table[g]
      BY <1>1, <1>2, <2>3, OpenedIs
    <3>2. Phases'
      BY <1>3, <1>4, <2>1, <2>3, <3>1 DEF Phases
    <3> QED
      BY <1>1, <1>2, <1>3, <1>5, <1>8, <2>1, <2>3, <3>1, <3>2, StartKeeps
  <2>4. \/ table' = table
        \/ lfd # 0 /\ pc' = "loop" /\ table' = Opened(lfd, Server, Server, "r")
    BY <1>14, Zenon DEF Start
  <2> QED
    BY <2>1, <2>2, <2>3, <2>4, Zenon
<1> QED
  BY <1>9, <1>10, <1>11, <1>12, <1>13, <1>14

(* In the loop no descriptor is lost, so that what stopTransfarServer and  *)
(* the freeing of the pushers close is all but the newest.                 *)
LEMMA StopKeeps ==
    ASSUME TransferInv, Stop
    PROVE  TransferInv'
<1>1. /\ table \in [Fd -> Entry] /\ conn \in Seq(Record)
      /\ Conns \subseteq Numbers /\ pc = "loop" /\ pc' = "stopped"
      /\ \A g \in Fd : table[g].of = None => table[g] = Unused
  BY TypeParts DEF TransferInv, Stop
<1>2. conn' = conn /\ Conns' = Conns /\ Newest' = Newest
  BY DEF Stop, Conns, Newest
<1>3. \A g \in Fd : table'[g] = IF g \in Closing THEN Unused ELSE table[g]
  BY DEF Stop
<1>4. table' \in [Fd -> Entry]
  <2>1. Unused \in Entry
    BY DEF Unused, Entry, Owner, Wish
  <2> QED
    BY <1>1, <2>1 DEF Stop
<1>5. TypeOK'
  <2>1. waiting' \in 0 .. MaxConn - Len(conn')
    BY <1>2, TransferAssumption, ConnShape, <1>1 DEF TransferInv, TypeOK, Stop
  <2>2. \A g \in Fd : table'[g].of = None => table'[g] = Unused
    BY <1>1, <1>3
  <2> QED
    BY <1>1, <1>2, <1>4, <2>1, <2>2
    DEF TransferInv, TypeOK, Stop, Entry, Owner, Wish, Record
<1>6. Phases' /\ NoLeak' /\ Own'
  BY <1>1 DEF Phases, NoLeak, Own
<1>7. AllClosed'
  <2> SUFFICES ASSUME NEW g \in Fd, table'[g] # Unused
               PROVE  table'[g].of = Newest
    BY <1>2 DEF AllClosed
  <2>1. g \notin Closing /\ table'[g] = table[g] /\ table[g].of # None
    BY <1>1, <1>3
  <2>2. table[g].of \in Conns /\ conn[table[g].of].fd = g
    BY <1>1, <2>1 DEF TransferInv, NoLeak, Closing
  <2> QED
    BY <2>1, <2>2 DEF Closing
<1>8. Heard'
  <2> SUFFICES ASSUME NoError, NEW j \in Conns, Open(j)'
               PROVE  LET t == table'[conn'[j].fd]
                      IN  IF conn'[j].heard
                          THEN /\ t.sock = j
                               /\ t.want = (IF conn'[j].f = "read" THEN "r" ELSE "w")
                          ELSE t.sock = None
    BY <1>2 DEF Heard, NoError
  <2>1. conn[j].fd \in Fd /\ j # None
    BY <1>1, ConnShape, Distinct DEF Record, Numbers
  <2>2. table'[conn[j].fd] = table[conn[j].fd]
    BY <1>2, <1>3, <2>1 DEF Open, Unused
  <2> QED
    BY <1>2, <2>2 DEF TransferInv, Heard, Open
<1> QED
  BY <1>5, <1>6, <1>7, <1>8 DEF TransferInv
-----------------------------------------------------------------------------
(* Noting a hang-up changes nothing that matters to the others.            *)
LEMMA HangUpKeeps ==
    ASSUME TransferInv, NEW fd \in Fd, NEW k \in Conns, HangUp(fd, k)
    PROVE  TransferInv'
<1> DEFINE r == [conn[k] EXCEPT !.half = TRUE]
<1>1. /\ table \in [Fd -> Entry] /\ conn \in Seq(Record) /\ pc = "loop"
      /\ UNCHANGED <<server, table, held, peers>>
      /\ conn' = [conn EXCEPT ![k].half = TRUE]
  BY TypeParts DEF TransferInv, HangUp
<1>2. r \in Record /\ conn' = [conn EXCEPT ![k] = r]
  BY <1>1, ChangedField, Zenon
<1>3. /\ conn[k] \in Record
      /\ r.fd = conn[k].fd /\ r.kind = conn[k].kind /\ r.f = conn[k].f
      /\ r.heard = conn[k].heard /\ r.bad = conn[k].bad
  BY <1>1, ConnShape DEF Record
<1>4. /\ conn' \in Seq(Record) /\ Len(conn') = Len(conn) /\ Conns' = Conns
      /\ \A j \in Conns : conn'[j] = IF j = k THEN r ELSE conn[j]
  BY <1>1, <1>2, Changed DEF Conns
<1> HIDE DEF r
<1>5. \A j \in Conns :
         /\ conn'[j].fd = conn[j].fd /\ conn'[j].kind = conn[j].kind
         /\ conn'[j].f = conn[j].f
         /\ conn'[j].heard = conn[j].heard /\ conn'[j].bad = conn[j].bad
  BY <1>3, <1>4
<1>6. TypeOK'
  BY <1>1, <1>4 DEF TransferInv, TypeOK, server, peers, Record
<1>7. (NoError' <=> NoError) /\ \A j \in Conns : Open(j)' <=> Open(j)
  BY <1>1, <1>4, <1>5 DEF NoError, Open
<1>8. Phases' /\ NoLeak' /\ AllClosed'
  BY <1>1, <1>4, <1>5 DEF TransferInv, Phases, NoLeak, AllClosed, server
<1>9. Own'
  BY <1>1, <1>4, <1>5, <1>7, TypeParts DEF TransferInv, Own
<1>10. Heard'
  BY <1>1, <1>4, <1>5, <1>7 DEF TransferInv, Heard
<1> QED
  BY <1>6, <1>8, <1>9, <1>10 DEF TransferInv

(* An event is given to the connection that has the descriptor.            *)
LEMMA EventsOwn ==
    ASSUME TransferInv, pc = "loop", NoError,
           NEW fd \in Fd, NEW k \in Conns, table[fd].sock = k
    PROVE  Open(k)
<1>1. k # None /\ k # Server
  BY Distinct, TypeParts DEF TransferInv, Numbers
<1>2. table[fd].of = k
  BY <1>1 DEF TransferInv, Own
<1>3. conn[k].fd = fd
  BY <1>1, <1>2 DEF TransferInv, NoLeak
<1> QED
  BY <1>2, <1>3 DEF Open

LEMMA ReadKeeps ==
    ASSUME TransferInv, NEW fd \in Fd, NEW k \in Conns, Read(fd, k)
    PROVE  TransferInv'
<1>1. /\ pc = "loop" /\ (NoError => Open(k))
      /\ UNCHANGED <<server, held>>
      /\ conn \in Seq(Record) /\ unread \subseteq Conns /\ gone \subseteq Conns
      /\ waiting \in 0 .. MaxConn - Len(conn)
  BY EventsOwn, TypeParts DEF TransferInv, TypeOK, Read, Event
<1>2. CASE /\ SetWrite(k) /\ unread' = unread \ {table[fd].of}
           /\ UNCHANGED <<waiting, gone>>
  BY <1>1, <1>2, TurnKeeps DEF SetWrite
<1>3. CASE /\ UNCHANGED <<table, conn>> /\ unread' = unread \ {table[fd].of}
           /\ UNCHANGED <<waiting, gone>>
  BY <1>1, <1>3, PeersKeep
<1>4. CASE Close(k) /\ conn' = [conn EXCEPT ![k].bad = "read"]
  <2> DEFINE r == [conn[k] EXCEPT !.bad = "read"]
  <2>1. r \in Record /\ conn' = [conn EXCEPT ![k] = r]
    BY <1>1, <1>4, ChangedField, Zenon
  <2>2. /\ r.fd = conn[k].fd /\ r.kind = conn[k].kind
        /\ r.heard = conn[k].heard /\ r.bad = "read" /\ r.bad # None
    BY <1>1, ConnShape, Distinct, TransferAssumption DEF Record
  <2> HIDE DEF r
  <2> QED
    BY <1>1, <1>4, <2>1, <2>2, FailureKeeps
<1> QED
  BY <1>2, <1>3, <1>4 DEF Read

LEMMA WriteKeeps ==
    ASSUME TransferInv, NEW fd \in Fd, NEW k \in Conns, Write(fd, k)
    PROVE  TransferInv'
<1>1. /\ pc = "loop" /\ (NoError => Open(k))
      /\ UNCHANGED <<server, held>>
      /\ conn \in Seq(Record) /\ unread \subseteq Conns /\ gone \subseteq Conns
  BY EventsOwn, TypeParts DEF TransferInv, TypeOK, Write, Event
<1>2. CASE SetRead(k) /\ UNCHANGED peers
  BY <1>1, <1>2, TurnKeeps DEF SetRead, peers
<1>3. CASE /\ Close(k)
           /\ conn' = [conn EXCEPT ![k].bad = "write",
                          ![k].f = IF conn[k].kind = "push" THEN "read" ELSE @]
  <2> DEFINE b == IF conn[k].kind = "push" THEN "read" ELSE conn[k].f
             r == [conn[k] EXCEPT !.bad = "write", !.f = b]
  <2>1. conn[k] \in Record /\ b \in {"read", "write"}
    BY <1>1, ConnShape DEF Record
  <2>2. conn' = [conn EXCEPT ![k].bad = "write", ![k].f = b]
    BY <1>1, <1>3, <2>1 DEF Record
  <2>3. /\ r.fd = conn[k].fd /\ r.kind = conn[k].kind
        /\ r.heard = conn[k].heard /\ r.bad = "write" /\ r.bad # None
    BY <2>1, TransferAssumption DEF Record
  <2> HIDE DEF b
  <2>4. r \in Record /\ conn' = [conn EXCEPT ![k] = r]
    BY <1>1, <2>1, <2>2, WrittenField
  <2> HIDE DEF r
  <2> QED
    BY <1>1, <1>3, <2>3, <2>4, FailureKeeps
<1> QED
  BY <1>2, <1>3 DEF Write

LEMMA WakeKeeps ==
    ASSUME TransferInv, NEW k \in Conns, Wake(k)
    PROVE  TransferInv'
<1>1. /\ pc = "loop" /\ k \in held /\ unread \subseteq Conns
      /\ UNCHANGED <<server, held, peers>> /\ SetWrite(k)
  BY TypeParts DEF TransferInv, Wake, MayWake
<1>2. NoError => Open(k)
  BY <1>1 DEF TransferInv, Own
<1> QED
  BY <1>1, <1>2, TurnKeeps DEF SetWrite, peers

(* A descriptor opened by acceptConnect and closed again leaves no trace.  *)
LEMMA AcceptKeeps ==
    ASSUME TransferInv, Accept
    PROVE  TransferInv'
<1>1. PICK fd \in Fd, ok \in BOOLEAN :
          /\ Lowest(fd)
          /\ \/ table' = Dropped(fd) /\ UNCHANGED conn
             \/ /\ conn' = Append(conn, Connection(fd, "in", "read", ok))
                /\ table' = IF ok THEN Opened(fd, Len(conn) + 1, Len(conn) + 1, "r")
                                  ELSE Dropped(fd)
  BY DEF Accept
<1>2. /\ pc = "loop" /\ waiting > 0 /\ waiting' = waiting - 1
      /\ UNCHANGED <<server, held, unread, gone>>
  BY DEF Accept
<1>3. /\ table \in [Fd -> Entry] /\ conn \in Seq(Record)
      /\ unread \subseteq Conns /\ gone \subseteq Conns
      /\ waiting \in 0 .. MaxConn - Len(conn) /\ Len(conn) \in Nat /\ MaxConn \in Nat
      /\ \A g \in Fd : table[g].of = None => table[g] = Unused
  BY TypeParts, ConnShape, TransferAssumption DEF TransferInv, TypeOK
<1>4. /\ Len(conn) < MaxConn
      /\ waiting' \in 0 .. MaxConn - (Len(conn) + 1)
      /\ waiting' \in 0 .. MaxConn - Len(conn)
  BY <1>2, <1>3
<1>5. CASE table' = Dropped(fd) /\ UNCHANGED conn
  <2>1. table[fd] = Unused
    BY <1>1, <1>3 DEF Lowest
  <2>2. table' \in [Fd -> Entry] /\ \A g \in Fd : table'[g] = table[g]
    BY <1>3, <1>5, <2>1, DroppedIs
  <2>3. table' = table
    BY <1>3, <2>2
  <2> QED
    BY <1>2, <1>3, <1>4, <1>5, <2>3, PeersKeep
<1>6. CASE /\ conn' = Append(conn, Connection(fd, "in", "read", ok))
           /\ table' = IF ok THEN Opened(fd, Len(conn) + 1, Len(conn) + 1, "r")
                             ELSE Dropped(fd)
  <2> DEFINE r == Connection(fd, "in", "read", ok)
  <2>1. /\ r \in Record /\ r.fd = fd /\ r.bad = None /\ r.f = "read" /\ r.heard = ok
    BY DEF Connection, Record
  <2> HIDE DEF r
  <2>2. conn' = Append(conn, r)
    BY <1>6 DEF r
  <2>3. \/ r.heard /\ table' = Opened(fd, Len(conn) + 1, Len(conn) + 1,
                                      IF r.f = "read" THEN "r" ELSE "w")
        \/ table' = Dropped(fd)
    BY <1>6, <2>1
  <2> QED
    BY <1>1, <1>2, <1>4, <2>1, <2>2, <2>3, NewKeeps
<1> QED
  BY <1>1, <1>5, <1>6

LEMMA RequestKeeps ==
    ASSUME TransferInv, NEW kind \in {"push", "request"}, Request(kind)
    PROVE  TransferInv'
<1>1. PICK fd \in Fd, ok \in BOOLEAN :
          /\ Lowest(fd)
          /\ conn' = Append(conn, Connection(fd, kind, "write", ok))
          /\ held' = held \cup {Len(conn) + 1}
          /\ table' = IF ok THEN Opened(fd, Len(conn) + 1, Len(conn) + 1, "w")
                            ELSE Opened(fd, Len(conn) + 1, None, None)
  BY DEF Request
<1>2. /\ pc = "loop" /\ waiting + Len(conn) < MaxConn
      /\ UNCHANGED <<server, waiting, unread, gone>>
  BY DEF Request, peers
<1>3. /\ table \in [Fd -> Entry] /\ conn \in Seq(Record)
      /\ waiting \in 0 .. MaxConn - Len(conn) /\ Len(conn) \in Nat /\ MaxConn \in Nat
  BY TypeParts, ConnShape, TransferAssumption DEF TransferInv, TypeOK
<1>4. /\ Len(conn) < MaxConn
      /\ waiting' \in 0 .. MaxConn - (Len(conn) + 1)
  BY <1>2, <1>3
<1> DEFINE r == Connection(fd, kind, "write", ok)
<1>5. /\ r \in Record /\ r.fd = fd /\ r.bad = None /\ r.f = "write" /\ r.heard = ok
      /\ r.kind # "in"
  BY DEF Connection, Record
<1> HIDE DEF r
<1>6. conn' = Append(conn, r)
  BY <1>1 DEF r
<1>7. \/ r.heard /\ table' = Opened(fd, Len(conn) + 1, Len(conn) + 1,
                                    IF r.f = "read" THEN "r" ELSE "w")
      \/ ~r.heard /\ table' = Opened(fd, Len(conn) + 1, None, None)
  BY <1>1, <1>5
<1>8. table' # Dropped(fd)
  <2>1. /\ Len(conn) + 1 \in Owner /\ None \in Owner
        /\ "w" \in Wish /\ None \in Wish /\ Len(conn) + 1 # None
    BY <1>3, <1>4, Distinct DEF Owner, Wish, Numbers
  <2> PICK k \in Nat : k = Len(conn) + 1
    BY <1>3
  <2>2. table'[fd].of = k
    <3>1. CASE table' = Opened(fd, k, k, "w")
      <4>1. table'[fd] = [of |-> k, sock |-> k, want |-> "w"]
        BY <1>3, <2>1, <3>1, OpenedIs
      <4> QED
        BY <4>1
    <3>2. CASE table' = Opened(fd, k, None, None)
      <4>1. table'[fd] = [of |-> k, sock |-> None, want |-> None]
        BY <1>3, <2>1, <3>2, OpenedIs
      <4> QED
        BY <4>1
    <3> QED
      BY <1>1, <3>1, <3>2
  <2>3. Dropped(fd)[fd].of = None
    BY <1>3, DroppedIs DEF Unused
  <2> QED
    BY <2>1, <2>2, <2>3
<1> QED
  BY <1>1, <1>2, <1>4, <1>5, <1>6, <1>7, <1>8, NewKeeps
-----------------------------------------------------------------------------
LEMMA NextKeeps == TransferInv /\ [Next]_vars => TransferInv'
<1> SUFFICES ASSUME TransferInv, [Next]_vars PROVE TransferInv'
  OBVIOUS
<1>1. /\ waiting \in 0 .. MaxConn - Len(conn)
      /\ unread \subseteq Conns /\ gone \subseteq Conns
      /\ Len(conn) \in Nat /\ MaxConn \in Nat
  BY TypeParts, ConnShape, TransferAssumption DEF TransferInv, TypeOK
<1>2. CASE TrySocket \/ TryFails \/ Bound \/ NoAddress \/ Inherit \/ Start
  BY <1>2, StartUpKeeps
<1>3. CASE PeerConnect
  <2>1. waiting' \in 0 .. MaxConn - Len(conn)
    BY <1>1, <1>3 DEF PeerConnect
  <2> QED
    BY <1>1, <1>3, <2>1, PeersKeep DEF PeerConnect
<1>4. CASE Accept
  BY <1>4, AcceptKeeps
<1>5. CASE Stop
  BY <1>5, StopKeeps
<1>6. CASE UNCHANGED vars
  BY <1>1, <1>6, PeersKeep DEF vars, peers
<1>7. CASE \E kind \in {"push", "request"} : Request(kind)
  BY <1>7, RequestKeeps
<1>8. ASSUME NEW k \in Conns, PeerSend(k) \/ PeerHangUp(k)
      PROVE  TransferInv'
  BY <1>1, <1>8, PeersKeep DEF PeerSend, PeerHangUp
<1>9. ASSUME NEW k \in Conns, Wake(k) \/ Release(k)
      PROVE  TransferInv'
  BY <1>9, WakeKeeps, ReleaseKeeps
<1>10. ASSUME NEW fd \in Fd, Turn(fd)
       PROVE  TransferInv'
  BY <1>10, ReadKeeps, WriteKeeps, HangUpKeeps DEF Turn
<1> QED
  BY <1>2, <1>3, <1>4, <1>5, <1>6, <1>7, <1>8, <1>9, <1>10 DEF Next, Ended

(* TransferInv is an invariant of srvProcess and all it calls: besides the *)
(* invariants the runs check, it says what start-up leaves, and that no    *)
(* descriptor gives its events to a connection that is not its own.        *)
THEOREM TransferInvariant == Spec => []TransferInv
<1>1. Init => TransferInv
  BY InitInv
<1>2. TransferInv /\ [Next]_vars => TransferInv'
  BY NextKeeps
<1> QED
  BY <1>1, <1>2, PTL DEF Spec

(* As long as srvProcess is in its loop, every open descriptor is that of  *)
(* the listening socket or of the connection that has its number.          *)
THEOREM NoDescriptorLost == Spec => []NoLeak
<1>1. TransferInv => NoLeak
  BY DEF TransferInv
<1> QED
  BY <1>1, TransferInvariant, PTL

(* Until a call on a connection fails that a pusher or a requester holds,  *)
(* whatever setConnectRead, setConnectWrite and connectClose do by number  *)
(* is done to the connection they are called for.                          *)
THEOREM EventsReachTheirOwn == Spec => []Heard
<1>1. TransferInv => Heard
  BY DEF TransferInv
<1> QED
  BY <1>1, TransferInvariant, PTL

(* stopTransfarServer and the freeing of the pushers leave nothing open    *)
(* but what the newest connection has.                                     *)
THEOREM StopCloses == Spec => []AllClosed
<1>1. TransferInv => AllClosed
  BY DEF TransferInv
<1> QED
  BY <1>1, TransferInvariant, PTL
=============================================================================
