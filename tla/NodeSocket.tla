----------------------------- MODULE NodeSocket -----------------------------
(***************************************************************************)
(* The two ends of a stream socket: the Socket objects of lib/net.js over  *)
(* the calls of node_net.cc.  The client connects, after a lookup if it is *)
(* a TCP socket; each end writes (with a descriptor, on a UNIX socket),    *)
(* ends, pauses, resumes and destroys as it likes.  What does not go out   *)
(* at once waits in a queue for the write watcher.  The ends are two       *)
(* processes: a flush is one step for each system call.                    *)
(*                                                                         *)
(* The kernel is external: a buffer of Room bytes each way, partial        *)
(* writes, EOF, EPIPE, and resets when an end closes with unread data.     *)
(* Another process that shares the descriptor may make a read find nothing.*)
(***************************************************************************)
EXTENDS Naturals, Sequences

CONSTANTS
    MaxWrites,      \* bound: writes of the client's application
    MaxAnswers,     \* bound: writes of the server's application
    Pausing,        \* bound: the ends that pause
    Kinds,          \* the sockets: their type and whether writes are strings
    Room            \* bytes the kernel buffers in each direction

ASSUME SocketAssumption ==
    /\ MaxWrites \in Nat /\ MaxAnswers \in 0..MaxWrites /\ Room \in Nat \ {0}
    /\ Kinds \subseteq [type : {"unix", "tcp"}, strings : BOOLEAN]

VARIABLES
    sock,           \* the Socket of each end
    chan,           \* bytes in the kernel, from each end to the other
    link,           \* the connection: none, syn, established, refused
    resets,         \* ends whose connection was reset by the other
    app,            \* what each application did and saw
    sockKind            \* the socket's type and whether writes are strings

socketVars == <<sock, chan, link, resets, app, sockKind>>

-----------------------------------------------------------------------------
End == {"client", "server"}

Other(p) == IF p = "client" THEN "server" ELSE "client"

WriteSize == 2      \* bytes of a write

Bytes(k) == [i \in 1..WriteSize |-> <<k, i>>]

END_OF_FILE == [bytes |-> <<>>, str |-> FALSE]

\* initSocket and open.
OpenSocket ==
    [fd |-> "open", connecting |-> FALSE, readable |-> TRUE, writable |-> TRUE,
     readWatcher |-> TRUE, writeWatcher |-> FALSE, queue |-> <<>>, fds |-> <<>>, shut |-> FALSE,
     flushing |-> "no", destroyOnDrain |-> FALSE, destroyed |-> FALSE, recvFd |-> 0]

\* connect: a UNIX socket has a descriptor at once, a TCP socket after the lookup.
NewSocket(type) ==
    [OpenSocket EXCEPT !.fd = IF type = "unix" THEN "open" ELSE "none", !.connecting = TRUE,
                       !.readable = FALSE, !.readWatcher = FALSE, !.writeWatcher = (type = "unix")]

NoUse(halfOpen) ==
    [written |-> 0, sent |-> <<>>, ended |-> FALSE, aborted |-> FALSE, paused |-> FALSE,
     got |-> <<>>, fds |-> <<>>, sawEnd |-> FALSE, allowHalfOpen |-> halfOpen]

SocketInit ==
    /\ sockKind \in Kinds
    /\ sock = [p \in End |-> IF p = "client" THEN NewSocket(sockKind.type) ELSE OpenSocket]
    /\ chan = [p \in End |-> <<>>]
    /\ link = IF sockKind.type = "unix" THEN "syn" ELSE "none"
    /\ resets = {}
    /\ \E half \in BOOLEAN : app = [p \in End |-> NoUse(half)]

-----------------------------------------------------------------------------
(* The system calls                                                        *)

\* write ignores the descriptor.
Write(bytes, fd, n) == [i \in 1..n |-> <<bytes[i][1], bytes[i][2], 0>>]

\* sendmsg puts it with the first byte.
SendMsg(bytes, fd, n) == [i \in 1..n |-> <<bytes[i][1], bytes[i][2], IF i = 1 THEN fd ELSE 0>>]

\* What a read of n bytes makes of recvMsg.fd: read does not know it, recvmsg sets it,
\* and null if no descriptor came.
SocketRead(bytes, old) == old

RecvMsg(bytes, old) == LET with == {i \in DOMAIN bytes : bytes[i][3] # 0} IN
                       IF with = {} THEN 0 ELSE bytes[CHOOSE i \in with : TRUE][3]

\* shutdown(fd, 'write').
Shutdown(s) == [s EXCEPT !.shut = TRUE]

\* close.
SocketClose(s) == IF s.fd = "open" THEN [s EXCEPT !.fd = "closed"] ELSE s

Gone(p) == sock[p].fd = "closed"

\* What the kernel takes of m bytes now; none if it would block.
Takes(p, m) ==
    IF link # "established" \/ Len(chan[p]) >= Room THEN {0}
    ELSE 1..(IF m < Room - Len(chan[p]) THEN m ELSE Room - Len(chan[p]))

\* A write may fail: on a descriptor that is not there or not connected yet, and once the
\* other end has closed.
WriteFails(p) ==
    \/ sock[p].fd = "none"
    \/ link = "refused"
    \/ link = "syn" /\ sockKind.type = "unix"
    \/ Gone(Other(p)) \/ p \in resets

\* A write may be taken.
WriteWorks(p) == sock[p].fd = "open" /\ ~(link = "syn" /\ sockKind.type = "unix") /\ link # "refused"

\* The end p is left with s and has put out into the kernel.  A close drops what it has
\* not read and resets the other end then, and so does data for an end that is gone.
Becomes(p, s, out) ==
    /\ sock' = [sock EXCEPT ![p] = s]
    /\ chan' = [q \in End |-> IF q = p THEN (IF Gone(Other(p)) THEN chan[p] ELSE chan[p] \o out)
                              ELSE IF s.fd = "closed" THEN <<>> ELSE chan[q]]
    /\ resets' = resets \cup (IF s.fd = "closed" /\ chan[Other(p)] # <<>> THEN {Other(p)} ELSE {})
                        \cup (IF Gone(Other(p)) /\ out # <<>> THEN {p} ELSE {})

-----------------------------------------------------------------------------
(* Socket                                                                  *)

Destroy(s) ==
    [SocketClose(s) EXCEPT !.queue = <<>>, !.fds = <<>>, !.readable = FALSE, !.writable = FALSE,
                     !.readWatcher = FALSE, !.writeWatcher = FALSE, !.flushing = "no",
                     !.destroyed = TRUE]

\* Mutant: nobody waits for the socket to become writable.
WriteOut_NoWatcher(s, item, fd, n) ==
    IF n = Len(item.bytes) THEN s
    ELSE [s EXCEPT !.queue = <<[bytes |-> SubSeq(item.bytes, n + 1, Len(item.bytes)), str |-> FALSE]>> \o @,
                   !.fds = IF n = 0 THEN <<fd>> \o @ ELSE @]

\* The socket after n bytes of an item went out: the rest is the next thing to write, and
\* so is the descriptor if nothing went out.
WriteOut(s, item, fd, n) ==
    IF n = Len(item.bytes) THEN s
    ELSE [s EXCEPT !.writeWatcher = TRUE,
                   !.queue = <<[bytes |-> SubSeq(item.bytes, n + 1, Len(item.bytes)), str |-> FALSE]>> \o @,
                   !.fds = IF n = 0 THEN <<fd>> \o @ ELSE @]

WriteImpl(bytes, fd, n) == IF sockKind.type = "unix" THEN SendMsg(bytes, fd, n) ELSE Write(bytes, fd, n)

\* A write while something is queued: a string is joined to a string that waits.
Enqueue(s, item, fd) ==
    LET last == Len(s.queue) IN
    [s EXCEPT !.queue = IF s.queue # <<>> /\ item.str /\ s.queue[last].str
                        THEN [@ EXCEPT ![last] = [bytes |-> s.queue[last].bytes \o item.bytes, str |-> TRUE]]
                        ELSE Append(@, item),
              !.fds = IF fd = 0 THEN @ ELSE Append(@, fd)]

\* The end of the writes: of the connection, if the other side ended before.
ShutdownSocket(s) ==
    LET t == [s EXCEPT !.writable = FALSE] IN IF t.readable THEN Shutdown(t) ELSE Destroy(t)

\* What follows a flush that took all, or not: of the write watcher, of destroySoon, of end.
Flushed(s, all) ==
    LET t == [s EXCEPT !.flushing = "no"] IN
    IF all /\ (s.flushing = "soon" \/ (s.flushing = "writable" /\ s.destroyOnDrain)) THEN Destroy(t)
    ELSE IF s.flushing = "soon" THEN [t EXCEPT !.destroyOnDrain = TRUE]
    ELSE t

-----------------------------------------------------------------------------
(* The application                                                         *)

\* The JavaScript of p may run: no flush is under way, and the socket is there.
Runs(p) == sock[p].flushing = "no" /\ ~sock[p].destroyed /\ (p = "server" => link = "established")

\* The queue has END_OF_FILE, of end or of an end of the other side.
EndIsQueued(s) == s.queue # <<>> /\ s.queue[Len(s.queue)] = END_OF_FILE

\* socket.write: fd is 0 for none.  It throws after the end; an error destroys the socket.
SocketWrite(p, fd) ==
    LET k == app[p].written + 1
        item == [bytes |-> Bytes(k), str |-> sockKind.strings]
        s == sock[p]
    IN
    /\ Runs(p) /\ s.writable /\ ~app[p].ended /\ ~EndIsQueued(s)
    /\ k <= IF p = "client" THEN MaxWrites ELSE MaxAnswers
    /\ fd \in IF sockKind.type = "unix" THEN {0, k} ELSE {0}
    /\ \/ /\ s.connecting \/ s.queue # <<>>
          /\ Becomes(p, Enqueue(s, item, fd), <<>>)
          /\ app' = [app EXCEPT ![p].written = k, ![p].sent = IF fd = 0 THEN @ ELSE Append(@, fd)]
       \/ /\ ~s.connecting /\ s.queue = <<>> /\ WriteWorks(p)
          /\ \E n \in Takes(p, WriteSize) : Becomes(p, WriteOut(s, item, fd, n), WriteImpl(item.bytes, fd, n))
          /\ app' = [app EXCEPT ![p].written = k, ![p].sent = IF fd = 0 THEN @ ELSE Append(@, fd)]
       \/ /\ ~s.connecting /\ s.queue = <<>> /\ WriteFails(p)
          /\ Becomes(p, Destroy(s), <<>>)
          /\ app' = [app EXCEPT ![p].written = k, ![p].aborted = TRUE]
    /\ UNCHANGED <<link, sockKind>>

\* The queue with END_OF_FILE, and a flush unless the socket is connecting.
Ending(s) ==
    IF ~s.writable \/ EndIsQueued(s) THEN s
    ELSE [s EXCEPT !.queue = Append(@, END_OF_FILE), !.flushing = IF s.connecting THEN "no" ELSE "end"]

SocketEnd(p) ==
    /\ Runs(p) /\ sock[p].writable /\ ~app[p].ended
    /\ Becomes(p, Ending(sock[p]), <<>>)
    /\ app' = [app EXCEPT ![p].ended = TRUE]
    /\ UNCHANGED <<link, sockKind>>

\* destroySoon flushes first; what it cannot write yet it leaves to the write watcher.
DestroySoon(p) ==
    /\ Runs(p)
    /\ Becomes(p, [sock[p] EXCEPT !.flushing = "soon"], <<>>)
    /\ app' = [app EXCEPT ![p].ended = TRUE]
    /\ UNCHANGED <<link, sockKind>>

SocketDestroy(p) ==
    /\ Runs(p)
    /\ Becomes(p, Destroy(sock[p]), <<>>)
    /\ app' = [app EXCEPT ![p].aborted = TRUE]
    /\ UNCHANGED <<link, sockKind>>

\* pause and resume of an established connection.
Pause(p) ==
    /\ p \in Pausing /\ Runs(p) /\ ~sock[p].connecting /\ ~app[p].paused
    /\ Becomes(p, [sock[p] EXCEPT !.readWatcher = FALSE], <<>>)
    /\ app' = [app EXCEPT ![p].paused = TRUE]
    /\ UNCHANGED <<link, sockKind>>

Resume(p) ==
    /\ Runs(p) /\ app[p].paused /\ sock[p].readable
    /\ Becomes(p, [sock[p] EXCEPT !.readWatcher = TRUE], <<>>)
    /\ app' = [app EXCEPT ![p].paused = FALSE]
    /\ UNCHANGED <<link, sockKind>>

-----------------------------------------------------------------------------
(* Connecting                                                              *)

\* The lookup answers: the socket is made, and left alone if the Socket was destroyed.
Connect ==
    /\ link = "none" /\ sock["client"].fd = "none" /\ sock["client"].flushing = "no"
    /\ IF sock["client"].destroyed
       THEN sock' = [sock EXCEPT !["client"].fd = "open"] /\ UNCHANGED link
       ELSE /\ sock' = [sock EXCEPT !["client"].fd = "open", !["client"].writeWatcher = TRUE]
            /\ link' = "syn"
    /\ UNCHANGED <<chan, resets, app, sockKind>>

\* The server accepts or not.
Answer ==
    /\ link = "syn" /\ ~Gone("client")
    /\ link' \in {"established", "refused"}
    /\ UNCHANGED <<sock, chan, resets, app, sockKind>>

\* socketError(fd).
SocketError == link = "refused"

\* The descriptor became writable while connecting.  What was written meanwhile goes out now.
OnConnect ==
    LET s == sock["client"] IN
    /\ s.writeWatcher /\ s.connecting /\ s.flushing = "no" /\ link \in {"established", "refused"}
    /\ IF SocketError
       THEN Becomes("client", Destroy(s), <<>>) /\ app' = [app EXCEPT !["client"].aborted = TRUE]
       ELSE /\ Becomes("client", [s EXCEPT !.connecting = FALSE, !.readable = TRUE, !.readWatcher = TRUE,
                                           !.flushing = IF s.queue # <<>> THEN "writable" ELSE "no"], <<>>)
            /\ UNCHANGED app
    /\ UNCHANGED <<link, sockKind>>

-----------------------------------------------------------------------------
(* The watchers                                                            *)

\* The socket is writable.
OnWritable(p) ==
    /\ Runs(p) /\ sock[p].writeWatcher /\ ~sock[p].connecting
    /\ Len(chan[p]) < Room \/ WriteFails(p)
    /\ Becomes(p, [sock[p] EXCEPT !.flushing = "writable"], <<>>)
    /\ UNCHANGED <<link, app, sockKind>>

\* One turn of the loop of flush, on the socket s without the head of its queue.
FlushItem(p, item, s) ==
    LET fd == IF sock[p].fds = <<>> THEN 0 ELSE Head(sock[p].fds) IN
    \/ /\ item = END_OF_FILE
       /\ Becomes(p, Flushed(ShutdownSocket(s), TRUE), <<>>)
       /\ UNCHANGED app
    \/ /\ item # END_OF_FILE /\ WriteWorks(p)
       /\ \E n \in Takes(p, Len(item.bytes)) :
            LET t == WriteOut(s, item, fd, n) IN
            Becomes(p, IF n = Len(item.bytes) THEN t ELSE Flushed(t, FALSE), WriteImpl(item.bytes, fd, n))
       /\ UNCHANGED app
    \/ /\ item # END_OF_FILE /\ WriteFails(p)
       /\ Becomes(p, Destroy(s), <<>>)
       /\ app' = [app EXCEPT ![p].aborted = TRUE]

\* Until the queue is empty, the end is reached or something did not go out.
Flush(p) ==
    LET s == sock[p] IN
    /\ s.flushing # "no"
    /\ \/ /\ s.queue = <<>>
          /\ Becomes(p, Flushed([s EXCEPT !.writeWatcher = FALSE], TRUE), <<>>)
          /\ UNCHANGED app
       \/ /\ s.queue # <<>>
          /\ FlushItem(p, Head(s.queue),
                       [s EXCEPT !.queue = Tail(@), !.fds = IF @ = <<>> THEN @ ELSE Tail(@)])
    /\ UNCHANGED <<link, sockKind>>

Reads(p) == Runs(p) /\ sock[p].readWatcher /\ ~sock[p].connecting /\ link = "established"

\* A read returns some bytes, with at most one descriptor among them; one descriptor is told to
\* the application in the next tick.
OnData(p) ==
    LET from == chan[Other(p)]  s == sock[p] IN
    /\ Reads(p)
    /\ \E n \in 1..Len(from) :
         LET bytes == SubSeq(from, 1, n)
             fd == IF sockKind.type = "unix" THEN RecvMsg(bytes, s.recvFd) ELSE SocketRead(bytes, s.recvFd)
         IN
         /\ \A i, j \in 1..n : bytes[i][3] # 0 /\ bytes[j][3] # 0 => i = j
         /\ sock' = [sock EXCEPT ![p].recvFd = fd]
         /\ chan' = [chan EXCEPT ![Other(p)] = SubSeq(@, n + 1, Len(@))]
         /\ app' = [app EXCEPT ![p].got = @ \o [i \in 1..n |-> <<bytes[i][1], bytes[i][2]>>],
                               ![p].fds = IF fd = 0 THEN @ ELSE Append(@, fd)]
    /\ UNCHANGED <<link, resets, sockKind>>

\* A read finds nothing (EAGAIN): recvMsg.fd is what it was, and is told once more.  The list
\* of descriptors that came is cut at MaxWrites + 1.
OnNothing(p) ==
    /\ Reads(p) /\ sockKind.type = "unix"
    /\ sock[p].recvFd # 0 /\ Len(app[p].fds) <= MaxWrites
    /\ app' = [app EXCEPT ![p].fds = Append(@, sock[p].recvFd)]
    /\ UNCHANGED <<sock, chan, link, resets, sockKind>>

\* A read fails.
OnReset(p) ==
    /\ Reads(p) /\ p \in resets
    /\ Becomes(p, Destroy(sock[p]), <<>>)
    /\ app' = [app EXCEPT ![p].aborted = TRUE]
    /\ UNCHANGED <<link, sockKind>>

\* A read returns 0: the other side ended.
OnEnd(p) ==
    LET q == Other(p)
        s == [sock[p] EXCEPT !.readable = FALSE, !.readWatcher = FALSE]
        t == IF ~s.writable THEN Destroy(s) ELSE s
    IN
    /\ Reads(p) /\ chan[q] = <<>> /\ p \notin resets
    /\ sock[q].shut \/ Gone(q)
    /\ Becomes(p, IF app[p].allowHalfOpen THEN t ELSE Ending(t), <<>>)
    /\ app' = [app EXCEPT ![p].sawEnd = TRUE]
    /\ UNCHANGED <<link, sockKind>>

-----------------------------------------------------------------------------
Loop(p) == OnWritable(p) \/ Flush(p) \/ OnData(p) \/ OnReset(p) \/ OnEnd(p)

SocketNext ==
    \/ Connect \/ Answer \/ OnConnect
    \/ \E p \in End :
         \/ Loop(p) \/ OnNothing(p)
         \/ \E fd \in 0..MaxWrites : SocketWrite(p, fd)
         \/ SocketEnd(p) \/ DestroySoon(p) \/ SocketDestroy(p) \/ Pause(p) \/ Resume(p)

SocketSpec == SocketInit /\ [][SocketNext]_socketVars

-----------------------------------------------------------------------------
\* The nth byte that an application writes, and the place of a byte among them.
ByteAt(n) == <<((n - 1) \div WriteSize) + 1, ((n - 1) % WriteSize) + 1>>

PlaceOf(byte) == (byte[1] - 1) * WriteSize + byte[2]

\* The place of the last byte of the first i items of a queue, where n bytes come before it.
UpTo(queue, i, n) ==
    IF i = 0 THEN n ELSE LET bytes == queue[i].bytes IN PlaceOf(bytes[Len(bytes)])

\* The items of a queue that are data: only the last may be END_OF_FILE.
DataItems(queue) ==
    IF queue # <<>> /\ queue[Len(queue)] = END_OF_FILE THEN Len(queue) - 1 ELSE Len(queue)

\* The queue holds the bytes after the first n and up to the first m that were written, in
\* order and each once.
Holds(queue, n, m) ==
    /\ \A i \in 1..DataItems(queue) :
         /\ queue[i].bytes # <<>>
         /\ \A j \in DOMAIN queue[i].bytes : queue[i].bytes[j] = ByteAt(UpTo(queue, i - 1, n) + j)
    /\ UpTo(queue, DataItems(queue), n) = m

SocketTypeOK ==
    /\ \A p \in End :
         /\ sock[p].destroyed => sock[p].queue = <<>> /\ ~sock[p].readWatcher /\ ~sock[p].writeWatcher
         /\ Len(chan[p]) <= Room
         /\ app[p].written \in 0..MaxWrites
    /\ resets \subseteq End

\* What an application received, what the kernel has and what waits is what the other
\* application wrote, in order and each byte once: across partial writes, the queue, joined
\* strings and writes before the connection is there.
StreamIntact ==
    \A p \in End : LET q == Other(p)  got == app[q].got  n == Len(got) IN
        /\ n <= app[p].written * WriteSize
        /\ \A i \in 1..n : got[i] = ByteAt(i)
        /\ ~sock[p].destroyed /\ ~Gone(q) =>
             /\ \A i \in DOMAIN chan[p] : <<chan[p][i][1], chan[p][i][2]>> = ByteAt(n + i)
             /\ Holds(sock[p].queue, n + Len(chan[p]), app[p].written * WriteSize)

\* An end that was not forced, by destroy or by an error, comes after all data: of end and of
\* destroySoon.
EndMeansAll ==
    \A p \in End : app[Other(p)].sawEnd /\ ~app[p].aborted =>
        Len(app[Other(p)].got) = app[p].written * WriteSize

\* With writes of buffers the descriptors come in the order they were sent in, some told
\* more than once, and all of them before the end.
FdsInOrder ==
    ~sockKind.strings => \A p \in End : LET f == app[p].fds  q == Other(p) IN
        /\ \A i \in 1..(Len(f) - 1) : f[i] <= f[i + 1]
        /\ \A i \in DOMAIN f : \E j \in DOMAIN app[q].sent : app[q].sent[j] = f[i]
        /\ app[p].sawEnd /\ ~app[q].aborted =>
             \A j \in DOMAIN app[q].sent : \E i \in DOMAIN f : f[i] = app[q].sent[j]

\* What waits is waited for: the write watcher runs.
QueueIsWatched ==
    \A p \in End :
        sock[p].queue # <<>> /\ sock[p].flushing = "no" /\ sock[p].fd = "open" => sock[p].writeWatcher

\* A connection that one end ends is closed by both, if both read and the other side ends too
\* where it may stay half open.
EndCloses ==
    \A p \in End : app[p].ended ~>
        \/ sock[p].destroyed
        \/ app[p].paused \/ app[Other(p)].paused
        \/ app[Other(p)].allowHalfOpen /\ ~app[Other(p)].ended

\* Two connected sockets: bytes and descriptors arrive in order whatever the kernel takes of
\* a write, an end follows all of them, and what is queued has a watcher.
SocketSafe ==
    /\ SocketTypeOK
    /\ StreamIntact
    /\ EndMeansAll
    /\ FdsInOrder
    /\ QueueIsWatched
=============================================================================
