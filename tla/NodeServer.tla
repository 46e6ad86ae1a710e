----------------------------- MODULE NodeServer -----------------------------
(***************************************************************************)
(* A listening socket and the descriptors of its process: the Server of    *)
(* lib/net.js over Socket, Bind, Listen, Accept and Close of node_net.cc.  *)
(* A process has a limited number of descriptors.  The server keeps a      *)
(* dummy one; when accept finds none left (EMFILE) it gives the dummy up,  *)
(* rejects the clients that wait, and takes it back.  Files are opened and *)
(* closed meanwhile by the threads of the pool, also between two calls of  *)
(* one callback.                                                           *)
(***************************************************************************)
EXTENDS Naturals, FiniteSets

CONSTANTS
    MaxFds,         \* the limit of the process (ulimit -n)
    Client,         \* bound: the clients that connect
    MaxListens,     \* bound: calls of server.listen
    RejectLimit     \* rejected clients after which the server pauses (50)

ASSUME ServerAssumption ==
    MaxFds \in Nat /\ IsFiniteSet(Client) /\ MaxListens \in Nat /\ RejectLimit \in Nat

VARIABLES
    server,         \* the Server object
    used,           \* open descriptors of the process
    dummyFD,        \* the server has its spare descriptor
    files,          \* descriptors of pipes, socket pairs and files
    clients,        \* what became of each client
    call            \* the callback of the server's watcher, if it runs

serverVars == <<server, used, dummyFD, files, clients, call>>

-----------------------------------------------------------------------------
ServerType == {"unix", "tcp"}

\* Arguments of listen: a path, a path that is too long for a socket, a port, a port with an
\* address of either family, and with something that is no address.
Address == {"path", "longpath", "port", "port4", "port6", "portbad"}

ServerIdle == [at |-> "no", rescue |-> FALSE, count |-> 0]

NewServer(type, max) ==
    [type |-> type, max |-> max, fd |-> FALSE, bound |-> FALSE, listening |-> FALSE,
     watcher |-> FALSE, pauseTimer |-> FALSE, connections |-> 0, starts |-> 0, ticks |-> 0, listens |-> 0]

ServerInit ==
    /\ \E type \in ServerType, max \in 0..1 : server = NewServer(type, max)
    /\ used = 0 /\ dummyFD = FALSE /\ files = 0
    /\ clients = [c \in Client |-> "away"]
    /\ call = ServerIdle

ServerPending == {c \in Client : clients[c] = "waits"}

Live == {c \in Client : clients[c] = "live"}

-----------------------------------------------------------------------------
(* The calls of node_net.cc                                                *)

\* fcntl may fail for a new descriptor.
SetSockFlags == {TRUE, FALSE}

\* The descriptors that are open after a call that makes n of them: all or none, and none
\* when the flags of one cannot be set.
MakesFds(n, ok) == IF used + n <= MaxFds /\ ok THEN n ELSE 0

\* socket(type): the descriptor, or an exception.
Socket(ok) == [fd |-> used < MaxFds /\ ok, open |-> MakesFds(1, ok)]

\* The family of an address, or none for an exception.
ParseAddressArgs(a) ==
    CASE a = "path" -> "un"
      [] a \in {"port", "port4"} -> "in"
      [] a = "port6" -> "in6"
      [] OTHER -> "none"

\* bind fails on a bad address, a bad descriptor, a bound socket and an address in use.
Bind(a, free) == ParseAddressArgs(a) # "none" /\ server.fd /\ ~server.bound /\ free

\* listen fails on an address in use.
Listen(free) == free

\* What accept may do: return null, or throw for want of a descriptor, or take a client.
Accept ==
    CASE ServerPending = {} -> {"null"}
      [] ServerPending # {} /\ used = MaxFds -> {"emfile", "aborted"}
      [] OTHER -> {"aborted", "fcntl", "peer"}

\* A client whose connection was aborted is gone; a new descriptor that cannot be made
\* non-blocking is closed.
Gives(c, result, then) ==
    clients' = [clients EXCEPT ![c] = IF result = "peer" THEN then ELSE "gone"]

-----------------------------------------------------------------------------
(* Starting                                                                *)

\* A spare descriptor, if there is none and one can be had.
GetDummyFD(n) == IF ~dummyFD /\ n < MaxFds THEN 1 ELSE 0

\* server.listen: a UNIX socket is made at once, a TCP socket after the lookup.
ServerListen ==
    /\ call.at # "accept" /\ call.at # "reject"
    /\ ~server.fd /\ server.listens < MaxListens
    /\ server.type = "tcp" => server.starts = 0
    /\ \E ok \in SetSockFlags :
         IF server.type = "unix"
         THEN /\ used' = used + Socket(ok).open
              /\ server' = [server EXCEPT !.listens = @ + 1, !.fd = Socket(ok).fd,
                                          !.starts = IF Socket(ok).fd THEN @ + 1 ELSE @]
         ELSE server' = [server EXCEPT !.listens = @ + 1, !.starts = @ + 1] /\ UNCHANGED used
    /\ UNCHANGED <<dummyFD, files, clients, call>>

\* close(fd) of the server: the clients that wait are reset.
ServerCloses(s, n, w) ==
    /\ server' = [s EXCEPT !.fd = FALSE, !.bound = FALSE, !.listening = FALSE,
                            !.watcher = FALSE, !.pauseTimer = FALSE]
    /\ used' = n
    /\ clients' = [c \in Client |-> IF c \in w THEN "gone" ELSE clients[c]]

\* The lookup, or the stat and unlink of the path, is done: the socket is bound, and listens
\* in the next tick.  An error closes the server again; a server that was closed meanwhile has
\* no descriptor to bind and the close throws.
DoListen ==
    /\ call = ServerIdle /\ server.starts > 0
    /\ \E ok \in SetSockFlags, a \in Address, free \in BOOLEAN :
         LET makes == server.type = "tcp" /\ ~server.fd
             s == [server EXCEPT !.starts = @ - 1, !.fd = IF makes THEN Socket(ok).fd ELSE @]
             n == used + IF makes THEN Socket(ok).open ELSE 0
             d == GetDummyFD(n)
         IN
         /\ (a \in {"path", "longpath"}) = (server.type = "unix")
         /\ IF makes /\ ~s.fd THEN server' = s /\ used' = n /\ UNCHANGED <<dummyFD, clients>>
            ELSE /\ dummyFD' = (dummyFD \/ d = 1)
                 /\ \/ /\ ParseAddressArgs(a) # "none" /\ s.fd /\ ~s.bound /\ free
                       /\ server' = [s EXCEPT !.bound = TRUE, !.ticks = @ + 1]
                       /\ used' = n + d
                       /\ UNCHANGED clients
                    \/ /\ s.fd /\ ~(ParseAddressArgs(a) # "none" /\ ~s.bound /\ free)
                       /\ ServerCloses(s, n + d - 1, ServerPending)
                    \/ /\ ~s.fd
                       /\ server' = s /\ used' = n + d /\ UNCHANGED clients
    /\ UNCHANGED <<files, call>>

\* The tick after bind.  The server may have been closed, and opened again, meanwhile.
ListenTick ==
    /\ call = ServerIdle /\ server.ticks > 0
    /\ LET s == [server EXCEPT !.ticks = @ - 1] IN
       \E free \in BOOLEAN :
         IF ~server.fd THEN server' = s /\ UNCHANGED <<used, clients>>
         ELSE IF Listen(free)
         THEN server' = [s EXCEPT !.watcher = TRUE, !.bound = TRUE, !.listening = TRUE] /\ UNCHANGED <<used, clients>>
         ELSE ServerCloses(s, used - 1, ServerPending)
    /\ UNCHANGED <<dummyFD, files, call>>

\* Mutant: a closed server still waits for the end of its pause.
ServerClose_KeepsTimer ==
    /\ call.at \in {"no", "listener"} /\ server.fd
    /\ server' = [server EXCEPT !.fd = FALSE, !.bound = FALSE, !.listening = FALSE,
                                !.watcher = FALSE]
    /\ used' = used - 1
    /\ clients' = [c \in Client |-> IF c \in ServerPending THEN "gone" ELSE clients[c]]
    /\ UNCHANGED <<dummyFD, files, call>>

\* server.close, also by a listener in the midst of accepting.
ServerClose ==
    /\ call.at \in {"no", "listener"} /\ server.fd
    /\ ServerCloses(server, used - 1, ServerPending)
    /\ UNCHANGED <<dummyFD, files, call>>

-----------------------------------------------------------------------------
(* Accepting                                                               *)

\* A client connects to a socket that listens.
Arrive(c) ==
    /\ clients[c] = "away" /\ server.listening
    /\ clients' = [clients EXCEPT ![c] = "waits"]
    /\ UNCHANGED <<server, used, dummyFD, files, call>>

\* The server's descriptor is readable.  Ticks come first.
OnConnection ==
    /\ call = ServerIdle /\ server.ticks = 0 /\ server.watcher /\ ServerPending # {}
    /\ dummyFD' = (dummyFD \/ GetDummyFD(used) = 1)
    /\ used' = used + GetDummyFD(used)
    /\ server' = IF server.pauseTimer THEN [server EXCEPT !.watcher = FALSE] ELSE server
    /\ call' = [ServerIdle EXCEPT !.at = "accept"]
    /\ UNCHANGED <<files, clients>>

\* The server has all the connections it may have.
Full == server.max # 0 /\ server.connections >= server.max

\* One turn of the loop: a client becomes a connection, or it is closed when the server is
\* full, and those that wait are rejected; so they are, with the spare descriptor, if there
\* was none for it.
AcceptLoop ==
    /\ call.at = "accept"
    /\ \/ /\ ~server.fd
          /\ call' = ServerIdle /\ UNCHANGED <<server, used, dummyFD, clients>>
       \/ /\ server.fd /\ "null" \in Accept
          /\ call' = ServerIdle /\ UNCHANGED <<server, used, dummyFD, clients>>
       \/ /\ server.fd /\ "emfile" \in Accept
          /\ dummyFD' = FALSE
          /\ used' = IF dummyFD THEN used - 1 ELSE used
          /\ call' = IF dummyFD THEN [at |-> "reject", rescue |-> TRUE, count |-> 0] ELSE ServerIdle
          /\ UNCHANGED <<server, clients>>
       \/ /\ server.fd
          /\ \E c \in ServerPending, result \in Accept \ {"emfile", "null"} :
               LET taken == result = "peer" /\ ~Full IN
               /\ Gives(c, result, IF taken THEN "live" ELSE "gone")
               /\ used' = IF taken THEN used + 1 ELSE used
               /\ server' = IF taken THEN [server EXCEPT !.connections = @ + 1] ELSE server
               /\ call' = IF taken THEN [ServerIdle EXCEPT !.at = "listener"]
                          ELSE IF result = "peer" THEN [ServerIdle EXCEPT !.at = "reject"] ELSE ServerIdle
          /\ UNCHANGED dummyFD
    /\ UNCHANGED files

\* The connection listeners return, or one throws.
Listener ==
    /\ call.at = "listener"
    /\ call' \in {[ServerIdle EXCEPT !.at = "accept"], ServerIdle}
    /\ UNCHANGED <<server, used, dummyFD, files, clients>>

\* The loop is over: a rescue takes its spare descriptor back.
Rejected(s) ==
    /\ call' = ServerIdle /\ server' = s
    /\ dummyFD' = (dummyFD \/ (call.rescue /\ GetDummyFD(used) = 1))
    /\ used' = used + IF call.rescue THEN GetDummyFD(used) ELSE 0

\* server.pause.
PauseServer(s) == IF s.pauseTimer THEN s ELSE [s EXCEPT !.watcher = FALSE, !.pauseTimer = TRUE]

\* One turn of _rejectPending.  An exception leaves it without the spare descriptor.
RejectPending ==
    /\ call.at = "reject"
    /\ \/ /\ "null" \in Accept \/ (ServerPending # {} /\ "aborted" \in Accept)
          /\ IF ServerPending = {} THEN UNCHANGED clients
             ELSE \E c \in ServerPending : Gives(c, "aborted", "gone")
          /\ Rejected(server)
       \/ /\ "emfile" \in Accept
          /\ call' = ServerIdle /\ UNCHANGED <<server, used, dummyFD, clients>>
       \/ /\ \E c \in ServerPending : "fcntl" \in Accept /\ Gives(c, "fcntl", "gone")
          /\ call' = ServerIdle /\ UNCHANGED <<server, used, dummyFD>>
       \/ /\ \E c \in ServerPending : "peer" \in Accept /\ Gives(c, "peer", "gone")
          /\ IF call.count + 1 > RejectLimit THEN Rejected(PauseServer(server))
             ELSE call' = [call EXCEPT !.count = @ + 1] /\ UNCHANGED <<server, used, dummyFD>>
    /\ UNCHANGED files

\* The application pauses a server that has its descriptor.
ServerPause ==
    /\ call.at \in {"no", "listener"} /\ server.fd /\ ~server.pauseTimer
    /\ server' = PauseServer(server)
    /\ UNCHANGED <<used, dummyFD, files, clients, call>>

\* The pause is over.
PauseEnds ==
    /\ call = ServerIdle /\ server.pauseTimer
    /\ server' = [server EXCEPT !.pauseTimer = FALSE, !.watcher = TRUE]
    /\ UNCHANGED <<used, dummyFD, files, clients, call>>

\* socket.destroy of a connection; again, it does nothing.
DestroyConnection(c) ==
    /\ call.at \in {"no", "listener"} /\ clients[c] \in {"live", "destroyed"}
    /\ clients' = [clients EXCEPT ![c] = "destroyed"]
    /\ server' = IF clients[c] = "live" THEN [server EXCEPT !.connections = @ - 1] ELSE server
    /\ used' = IF clients[c] = "live" THEN used - 1 ELSE used
    /\ UNCHANGED <<dummyFD, files, call>>

-----------------------------------------------------------------------------
(* Other descriptors                                                       *)

\* binding.pipe and binding.socketpair: two descriptors.
Pipe ==
    /\ call.at \in {"no", "listener"}
    /\ \E ok \in SetSockFlags :
         /\ used' = used + MakesFds(2, ok)
         /\ files' = files + MakesFds(2, ok)
    /\ UNCHANGED <<server, dummyFD, clients, call>>

SocketPair == Pipe

\* A thread of the pool opens a file or closes one, at any time; Close does so for a pipe.
OpenFile ==
    /\ used < MaxFds
    /\ used' = used + 1 /\ files' = files + 1
    /\ UNCHANGED <<server, dummyFD, clients, call>>

CloseFile ==
    /\ files > 0
    /\ used' = used - 1 /\ files' = files - 1
    /\ UNCHANGED <<server, dummyFD, clients, call>>

-----------------------------------------------------------------------------
ServerNext ==
    \/ ServerListen \/ DoListen \/ ListenTick \/ ServerClose
    \/ OnConnection \/ AcceptLoop \/ Listener \/ RejectPending \/ ServerPause \/ PauseEnds
    \/ \E c \in Client : Arrive(c) \/ DestroyConnection(c)
    \/ Pipe \/ SocketPair \/ OpenFile \/ CloseFile

ServerSpec == ServerInit /\ [][ServerNext]_serverVars

-----------------------------------------------------------------------------
ServerTypeOK ==
    /\ used \in 0..MaxFds /\ files \in 0..MaxFds
    /\ server.connections \in 0..Cardinality(Client)
    /\ server.starts \in 0..MaxListens /\ server.ticks \in 0..MaxListens

\* Every open descriptor belongs to something that will close it: across failures of each
\* call, EMFILE, rejected clients and a server that is closed while it starts or accepts.
NoDescriptorLeak ==
    used = files + Cardinality(Live) + (IF server.fd THEN 1 ELSE 0) + (IF dummyFD THEN 1 ELSE 0)

\* The server counts the connections that are not destroyed, and no more than it may have.
ConnectionsCounted ==
    /\ server.connections = Cardinality(Live)
    /\ server.max # 0 => server.connections <= server.max

\* A paused server has its descriptor (the assertion in the timer's callback): whoever closes
\* it, while it starts, accepts or rejects, ends the pause.
PausedHasDescriptor == server.pauseTimer => server.fd

\* A client that connected is accepted, rejected or reset, through pauses and exceptions of
\* listeners, unless every descriptor is in use and the spare one is lost to another thread.
PendingAreServed ==
    \A c \in Client : clients[c] = "waits" ~>
        clients[c] # "waits" \/ (used = MaxFds /\ ~dummyFD /\ call = ServerIdle)

\* A server that runs out of descriptors: it leaks none, counts its connections, and waits
\* for the end of a pause only while it listens.
ServerSafe ==
    /\ ServerTypeOK
    /\ NoDescriptorLeak
    /\ ConnectionsCounted
    /\ PausedHasDescriptor
=============================================================================
