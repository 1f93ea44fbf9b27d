------------------------------ MODULE Transfer ------------------------------
(***************************************************************************)
(* transfar/: the listening socket, the connections and the descriptors    *)
(* behind them, what epoll watches each for (linux.c), and the turns of    *)
(* srvProcess, of which the tick of the application is a part.             *)
(*                                                                         *)
(* A connection keeps the number of its descriptor after it is closed, and *)
(* stays in conns; the number may belong to another one by then.  What is  *)
(* sent is left out: a peer has sent something, or has hung up.  That a    *)
(* call is to be tried again changes nothing and is no step.  The client's *)
(* console, and the memory of conns, are other modules' business.          *)
(***************************************************************************)
EXTENDS Integers, Sequences, FiniteSets

CONSTANTS MaxFd,     (* the descriptors a process may have                 *)
          MaxConn,   (* bound: the connections made, those waiting included*)
          MaxFault,  (* bound: the connections with a call that fails      *)
          Addresses, (* the answers of getaddrinfo                         *)
          Server,    (* the owner of a descriptor that is no connection's  *)
          None

ASSUME TransferAssumption ==
    /\ MaxFd \in Nat /\ MaxConn \in Nat /\ MaxFault \in Nat
    /\ Addresses \in Nat
    /\ Server \notin Nat /\ None \notin Nat \cup {Server, "read", "write"}

VARIABLES pc,        (* "socket", "option", "start", "loop", "stopped" or  *)
                     (* "exit"                                             *)
          tries,     (* addresses makeServerSocket has left                *)
          lfd,       (* the listening socket, 0 for -1                     *)
          table,     (* of a descriptor: whose it is, and the Socket epoll *)
                     (* gives with its events and the event that is wanted *)
          conn,      (* the connections made, those in conns               *)
          held,      (* those that a pusher or a requester points to       *)
          waiting,   (* peers whose connection is not yet accepted         *)
          unread,    (* connections whose peer has sent something          *)
          gone       (* connections whose peer has hung up                 *)

server == <<pc, tries, lfd>>
peers  == <<waiting, unread, gone>>
vars   == <<server, table, conn, held, peers>>
-----------------------------------------------------------------------------
Fd    == 1 .. MaxFd
Conns == DOMAIN conn
Unused == [of |-> None, sock |-> None, want |-> None]

(* bad: the call that failed and closed the connection.  heard: whether    *)
(* EPOLL_CTL_ADD was successful; sockwant notes it as added either way.    *)
Connection(fd, kind, f, ok) ==
    [fd |-> fd, kind |-> kind, f |-> f, heard |-> ok, half |-> FALSE,
     bad |-> None]

MayFail ==
    Cardinality({k \in Conns : ~conn[k].heard \/ conn[k].bad # None})
        < MaxFault

Init == /\ pc = "socket" /\ tries = Addresses /\ lfd = 0
        /\ table = [fd \in Fd |-> Unused]
        /\ conn = <<>> /\ held = {}
        /\ waiting = 0 /\ unread = {} /\ gone = {}

(* A new descriptor has the lowest number that is free.                    *)
Lowest(fd) == /\ table[fd].of = None
              /\ \A g \in Fd : g < fd => table[g].of # None

Opened(fd, k, s, rw) ==
    [table EXCEPT ![fd] = [of |-> k, sock |-> s, want |-> rw]]

(* Faults, here and below, that the properties must notice: a failure path *)
(* that forgets to close; a handler that is not changed with the event; a  *)
(* stop that forgets the connections; a hang-up that is not noted.         *)
FaultyDropped(fd) == Opened(fd, Server, None, None)

(* An error path that closes the descriptor it has just opened.            *)
Dropped(fd) == [Opened(fd, Server, None, None) EXCEPT ![fd] = Unused]

(* closeFd also takes the descriptor out of epoll.                         *)
Closed(fd) == [table EXCEPT ![fd] = Unused]

(* sockwant of a connection that was added before: EPOLL_CTL_MOD fails if  *)
(* the number is not open or not watched, and else succeeds, whoever the   *)
(* descriptor belongs to.                                                  *)
Wanted(k, rw) ==
    IF table[conn[k].fd].sock # None
    THEN [table EXCEPT ![conn[k].fd] =
                 [of |-> table[conn[k].fd].of, sock |-> k, want |-> rw]]
    ELSE table
-----------------------------------------------------------------------------
(* makeServerSocket: every address is tried, until one can be listened to. *)
TrySocket ==
    /\ pc = "socket" /\ tries > 0
    /\ \/ /\ tries' = tries - 1
          /\ UNCHANGED <<pc, lfd, table>>
       \/ \E fd \in Fd :
             /\ Lowest(fd)
             /\ pc' = "option" /\ lfd' = fd
             /\ table' = Opened(fd, Server, None, None)
             /\ UNCHANGED tries
    /\ UNCHANGED <<conn, held, peers>>

(* An option that cannot be set, or listen; bind ends the process.         *)
TryFails ==
    /\ pc = "option"
    /\ \/ pc' = "socket" /\ tries' = tries - 1
       \/ pc' = "exit" /\ UNCHANGED tries
    /\ table' = Closed(lfd)
    /\ UNCHANGED <<lfd, conn, held, peers>>

Bound ==
    /\ pc = "option"
    /\ pc' = "start"
    /\ table' = Opened(lfd, Server, None, None)
    /\ UNCHANGED <<tries, lfd, conn, held, peers>>

(* No address is left, or sd_listen_fds finds something it cannot use.     *)
NoAddress ==
    /\ pc = "socket" /\ tries \in {0, Addresses}
    /\ pc' = "start" /\ lfd' = 0
    /\ UNCHANGED <<tries, table, conn, held, peers>>

(* A socket that systemd made.                                             *)
Inherit ==
    /\ pc = "socket" /\ tries = Addresses
    /\ \E fd \in Fd :
          /\ Lowest(fd)
          /\ lfd' = fd
          /\ table' = Opened(fd, Server, None, None)
    /\ pc' = "start"
    /\ UNCHANGED <<tries, conn, held, peers>>

(* srvStart: without a listening socket the server runs on unheard.        *)
Start ==
    /\ pc = "start"
    /\ \/ pc' = "loop" /\ UNCHANGED table
       \/ /\ lfd # 0
          /\ \/ pc' = "loop" /\ table' = Opened(lfd, Server, Server, "r")
             \/ pc' = "exit" /\ UNCHANGED table
    /\ tries' = 0
    /\ UNCHANGED <<lfd, conn, held, peers>>
-----------------------------------------------------------------------------
(* What the peers do.  What one has sent just before it hangs up is never  *)
(* read: socknext gives 'h' for it from then on.                           *)
PeerConnect ==
    /\ pc = "loop" /\ lfd # 0 /\ waiting + Len(conn) < MaxConn
    /\ waiting' = waiting + 1
    /\ UNCHANGED <<server, table, conn, held, unread, gone>>

Open(k) == table[conn[k].fd].of = k

PeerSend(k) ==
    /\ pc = "loop" /\ Open(k) /\ k \notin gone
    /\ unread' = unread \cup {k}
    /\ UNCHANGED <<server, table, conn, held, waiting, gone>>

PeerHangUp(k) ==
    /\ pc = "loop" /\ Open(k)
    /\ gone' = gone \cup {k} /\ unread' = unread \ {k}
    /\ UNCHANGED <<server, table, conn, held, waiting>>
-----------------------------------------------------------------------------
(* acceptConnect, called for an event of the listening socket.             *)
Accept ==
    /\ pc = "loop" /\ waiting > 0
    /\ \E fd \in Fd :
          /\ fd = lfd /\ table[fd].sock = Server
    /\ waiting' = waiting - 1
    /\ \E fd \in Fd, ok \in BOOLEAN :
          /\ Lowest(fd) /\ (ok \/ MayFail)
          /\ \/ table' = Dropped(fd) /\ UNCHANGED conn
             \/ LET k == Len(conn) + 1
                IN  /\ conn' = Append(conn, Connection(fd, "in", "read", ok))
                    /\ table' = IF ok THEN Opened(fd, k, k, "r")
                                      ELSE Dropped(fd)
    /\ UNCHANGED <<server, held, unread, gone>>

(* connectClose.  Whoever the descriptor belongs to loses it.              *)
Close(k) ==
    /\ table' = Closed(conn[k].fd)
    /\ unread' = unread \ {table[conn[k].fd].of}
    /\ gone' = gone \ {table[conn[k].fd].of}
    /\ UNCHANGED waiting

(* An event is that of a descriptor, and given to the Socket in epoll.     *)
Event(fd, k, f, rw) ==
    /\ pc = "loop"
    /\ table[fd].sock = k /\ conn[k].f = f
    /\ table[fd].want = rw
    /\ table[fd].of \notin gone

FaultySetWrite(k) ==
    /\ table' = Wanted(k, "w")
    /\ UNCHANGED conn

(* setConnectWrite and setConnectRead                                      *)
SetWrite(k) ==
    /\ table' = Wanted(k, "w")
    /\ conn' = [conn EXCEPT ![k].f = "write"]

SetRead(k) ==
    /\ table' = Wanted(k, "r")
    /\ conn' = [conn EXCEPT ![k].f = "read"]

(* getRequestData: all there is has been read; a request is complete or in *)
(* error, or more is needed; or the read fails.                            *)
Read(fd, k) ==
    /\ Event(fd, k, "read", "r")
    /\ table[fd].of \in unread
    /\ \/ /\ SetWrite(k) \/ UNCHANGED <<table, conn>>
          /\ unread' = unread \ {table[fd].of}
          /\ UNCHANGED <<waiting, gone>>
       \/ /\ MayFail
          /\ Close(k)
          /\ conn' = [conn EXCEPT ![k].bad = "read"]
    /\ UNCHANGED <<server, held>>

(* sendResponseData: all is written, or the write fails.  The handler of a *)
(* pusher's connection reads on at once, also after a part, or an error.   *)
Write(fd, k) ==
    /\ Event(fd, k, "write", "w")
    /\ \/ SetRead(k) /\ UNCHANGED peers
       \/ /\ MayFail
          /\ Close(k)
          /\ conn' = [conn EXCEPT ![k].bad = "write",
                         ![k].f = IF conn[k].kind = "push"
                                  THEN "read" ELSE @]
    /\ UNCHANGED <<server, held>>

FaultyHangUp(fd, k) ==
    /\ pc = "loop"
    /\ table[fd].sock = k /\ table[fd].of \in gone
    /\ UNCHANGED vars

(* An event 'h' comes before all others; nothing is closed.                *)
HangUp(fd, k) ==
    /\ pc = "loop"
    /\ table[fd].sock = k /\ table[fd].of \in gone
    /\ conn' = [conn EXCEPT ![k].half = TRUE]
    /\ UNCHANGED <<server, table, held, peers>>

(* buildRequestConnect, for the tick of the pushers or of the requesters.  *)
(* makeClientSocket finds an address.                                      *)
Request(kind) ==
    /\ pc = "loop" /\ waiting + Len(conn) < MaxConn
    /\ \E fd \in Fd, ok \in BOOLEAN :
          LET k == Len(conn) + 1
          IN  /\ Lowest(fd) /\ (ok \/ MayFail)
              /\ conn' = Append(conn, Connection(fd, kind, "write", ok))
              /\ held' = held \cup {k}
              /\ table' = IF ok THEN Opened(fd, k, k, "w")
                                ELSE Opened(fd, k, None, None)
    /\ UNCHANGED <<server, peers>>

MayWake(k) == k \in held /\ conn[k].kind = "push" /\ conn[k].bad # "write"

(* pushToTarget, in the tick: what failed to be written stays WRITING, and *)
(* nothing more is sent.                                                   *)
Wake(k) ==
    /\ pc = "loop"
    /\ MayWake(k)
    /\ SetWrite(k)
    /\ UNCHANGED <<server, held, peers>>

(* freePusher and freeRequester                                            *)
Release(k) ==
    /\ pc = "loop" /\ k \in held
    /\ held' = held \ {k}
    /\ Close(k)
    /\ UNCHANGED <<server, conn>>

FaultyClosing == {lfd}

(* compareConnect is strict and the same for all, so that heapinsert moves *)
(* every new connection to the root of conns; getHeapDataByIndex refuses   *)
(* the index 0, and stopTransfarServer does not find the newest.           *)
(* freePusher closes those of the pushers, freeRequester none: the memory  *)
(* of conns is freed before.                                               *)
Newest == Len(conn)
Closing ==
    {lfd} \cup {conn[k].fd : k \in (Conns \ {Newest}) \cup
                                   {j \in held : conn[j].kind = "push"}}

(* stopTransfarServer, and the free of all.                                *)
Stop ==
    /\ pc = "loop"
    /\ pc' = "stopped"
    /\ table' = [fd \in Fd |-> IF fd \in Closing THEN Unused ELSE table[fd]]
    /\ waiting' = 0 /\ unread' = {} /\ gone' = {} /\ held' = {}
    /\ UNCHANGED <<tries, lfd, conn>>

Turn(fd) == \E k \in Conns : Read(fd, k) \/ Write(fd, k) \/ HangUp(fd, k)

Ended == pc \in {"exit", "stopped"} /\ UNCHANGED vars

Next == \/ TrySocket \/ TryFails \/ Bound \/ NoAddress \/ Inherit \/ Start
        \/ PeerConnect \/ Accept \/ Stop \/ Ended
        \/ \E kind \in {"push", "request"} : Request(kind)
        \/ \E k \in Conns : PeerSend(k) \/ PeerHangUp(k) \/ Wake(k)
                            \/ Release(k)
        \/ \E fd \in Fd : Turn(fd)

Spec == Init /\ [][Next]_vars

(* epoll_wait gives one event a turn, and goes round those that are ready. *)
FairSpec == Spec /\ \A fd \in Fd : WF_vars(Turn(fd))
-----------------------------------------------------------------------------
Numbers == 1 .. MaxConn

(* Types, and that a watched descriptor is open.                           *)
TypeOK ==
    /\ pc \in {"socket", "option", "start", "loop", "stopped", "exit"}
    /\ tries \in 0 .. Addresses /\ lfd \in 0 .. MaxFd
    /\ table \in [Fd -> [of : {None, Server} \cup Numbers,
                         sock : {None, Server} \cup Numbers,
                         want : {None, "r", "w"}]]
    /\ conn \in Seq([fd : Fd, kind : {"in", "push", "request"},
                     f : {"read", "write"}, heard : BOOLEAN,
                     half : BOOLEAN, bad : {None, "read", "write"}])
    /\ waiting \in 0 .. MaxConn - Len(conn)
    /\ held \subseteq Conns /\ unread \subseteq Conns /\ gone \subseteq Conns
    /\ \A fd \in Fd : table[fd].of = None => table[fd] = Unused

(* No descriptor is lost: in the loop each is that of the listening socket *)
(* or of the connection in conns that has its number; every path on which  *)
(* acceptConnect gives up has closed its own.                              *)
NoLeak ==
    pc = "loop" => \A fd \in Fd :
        \/ table[fd].of = None
        \/ table[fd].of = Server /\ fd = lfd
        \/ table[fd].of \in Conns /\ conn[table[fd].of].fd = fd

(* No connection that a pusher or a requester holds was closed by an error.*)
NoError == \A k \in Conns : conn[k].kind # "in" => conn[k].bad = None

(* As long as NoError, closing and waking by number hits nobody else: an   *)
(* open connection gets the events of its descriptor, nobody else does,    *)
(* and its handler is the one for the event it waits for; it goes unheard  *)
(* only if it could not be added.                                          *)
Heard ==
    NoError => \A k \in Conns : Open(k) =>
        LET t == table[conn[k].fd]
        IN  IF conn[k].heard
            THEN /\ t.sock = k
                 /\ t.want = (IF conn[k].f = "read" THEN "r" ELSE "w")
            ELSE t.sock = None

(* stopTransfarServer leaves nothing open but what the newest connection   *)
(* has, whatever was closed before and whoever got its number since.       *)
AllClosed ==
    pc = "stopped" => \A fd \in Fd :
        table[fd] # Unused => table[fd].of = Newest

(* A peer's hang-up is noted at its connection, and no stale Socket gets   *)
(* the event in its place (while NoError), although it stays ready from    *)
(* then on and other connections go on working.                            *)
HangUpSeen ==
    \A k \in Numbers :
        (/\ k \in gone /\ conn[k].heard)
        ~> (\/ k \notin gone \/ ~NoError \/ pc # "loop"
            \/ conn[k].half)
=============================================================================
