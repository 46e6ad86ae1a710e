------------------------------ MODULE NodeTls ------------------------------
(***************************************************************************)
(* Two Connection objects of node_crypto.cc, one at each end of a socket,  *)
(* driven by lib/tls.js.  A Connection is an SSL object between two memory *)
(* BIOs: encIn and encOut move encrypted bytes, clearIn and clearOut       *)
(* cleartext, and each of the last two first tries to go on with the       *)
(* handshake.  Records are cut anywhere on the way, so a call may find     *)
(* half a record.                                                          *)
(*                                                                         *)
(* OpenSSL is external: a handshake of four flights, a record for every    *)
(* write, close_notify, and a fatal alert of a server that wants a         *)
(* certificate and gets none.                                              *)
(***************************************************************************)
EXTENDS Naturals, Sequences

CONSTANT TlsMaxWrites      \* bound: writes of the application at each end

ASSUME TlsAssumption == TlsMaxWrites \in Nat

VARIABLES
    ssl,        \* the Connection at each end, and its stream pair in lib/tls.js
    wire,       \* fragments on their way from each end to the other
    tlsGot,        \* what each application received
    nocert      \* the server demands a certificate that the client has not

tlsVars == <<ssl, wire, tlsGot, nocert>>

-----------------------------------------------------------------------------
Peer == {"client", "server"}

TlsOther(p) == IF p = "client" THEN "server" ELSE "client"

Flights == 4

\* The end of a stream, in the queue of an application's writes or on the wire.
EndOfFile == <<"end", 0, 0>>

\* A record is on the wire in two fragments.
Record(kind, n) == <<<<kind, n, 1>>, <<kind, n, 2>>>>

\* Whether a whole record is at the head of the BIO.
HasRecord(bio) == Len(bio) >= 2

NewConnection ==
    [open |-> TRUE, started |-> FALSE, flight |-> 0, bio_read |-> <<>>, bio_write |-> <<>>,
     sentShutdown |-> FALSE, receivedShutdown |-> FALSE, error |-> FALSE,
     written |-> 0, pending |-> <<>>, ended |-> FALSE,
     cleartextDone |-> FALSE, encryptedDone |-> FALSE, destroyAfterPush |-> FALSE,
     encryptedEnded |-> FALSE]

TlsInit ==
    /\ ssl = [p \in Peer |-> NewConnection]
    /\ wire = [p \in Peer |-> <<>>]
    /\ tlsGot = [p \in Peer |-> <<>>]
    /\ nocert \in BOOLEAN

TlsTypeOK ==
    /\ \A p \in Peer :
         /\ ssl[p].flight \in 0..Flights
         /\ ssl[p].written \in 0..TlsMaxWrites
         /\ ssl[p].encryptedDone /\ ssl[p].cleartextDone => ~ssl[p].open
    /\ tlsGot \in [Peer -> Seq(1..TlsMaxWrites)]

-----------------------------------------------------------------------------
(* The handshake: flight n is sent by the client if n is odd.              *)

IsInitFinished(c) == c.flight = Flights

\* The flight of the other side, if a whole one is there.  The server refuses the third
\* one with an alert when it demands a certificate.
Received(p, c) ==
    LET rest == [c EXCEPT !.bio_read = SubSeq(@, 3, Len(@))] IN
    IF IsInitFinished(c) \/ ~HasRecord(c.bio_read) THEN c
    ELSE IF c.bio_read[1][1] = "alert" THEN [rest EXCEPT !.error = TRUE]
    ELSE IF p = "server" /\ c.flight = 2 /\ nocert
    THEN [rest EXCEPT !.error = TRUE, !.bio_write = @ \o Record("alert", 0)]
    ELSE [rest EXCEPT !.flight = @ + 1]

\* The flight of p, if it is its turn.
Sent(p, c) ==
    IF ~c.error /\ ~IsInitFinished(c) /\ (c.flight % 2 = 0) = (p = "client")
    THEN [c EXCEPT !.flight = @ + 1, !.bio_write = @ \o Record("handshake", c.flight + 1)]
    ELSE c

\* SSL_accept or SSL_connect, as far as it goes.
Handshake(p) == LET c == Received(p, ssl[p]) IN Sent(p, c)

\* SSL_get_shutdown, copied to the object.
SetShutdownFlags(c, sent, received) ==
    [c EXCEPT !.sentShutdown = @ \/ sent, !.receivedShutdown = @ \/ received]

\* An error is noted in the object; lib/tls.js then destroys a pair whose handshake
\* is not over, without writing what is left in bio_write.
HandleSSLError(c) ==
    IF c.error THEN [c EXCEPT !.open = FALSE, !.cleartextDone = TRUE, !.encryptedDone = TRUE] ELSE c

\* Both streams of a pair are done: it is destroyed, and Close frees the SSL object.
TlsClose(c) == IF c.cleartextDone /\ c.encryptedDone THEN [c EXCEPT !.open = FALSE] ELSE c

\* Step of the connection of p to c; a pair that is destroyed ends its socket.
TlsBecomes(p, c, out) ==
    /\ ssl' = [ssl EXCEPT ![p] = TlsClose(HandleSSLError(c))]
    /\ wire' = [wire EXCEPT ![p] = @ \o out \o (IF ssl'[p].open THEN <<>> ELSE <<EndOfFile>>)]

-----------------------------------------------------------------------------
(* The application                                                         *)

\* cleartext.write and cleartext.end: queued for the next cycle.
TlsWrite(p) ==
    /\ ssl[p].open /\ ~ssl[p].ended
    /\ ssl[p].written < TlsMaxWrites
    /\ ssl' = [ssl EXCEPT ![p].written = @ + 1,
                          ![p].pending = Append(@, <<"data", ssl[p].written + 1, 0>>)]
    /\ UNCHANGED <<wire, tlsGot, nocert>>

TlsEnd(p) ==
    /\ ssl[p].open /\ ssl[p].started /\ ~ssl[p].ended
    /\ ssl' = [ssl EXCEPT ![p].ended = TRUE, ![p].pending = Append(@, EndOfFile)]
    /\ UNCHANGED <<wire, tlsGot, nocert>>

-----------------------------------------------------------------------------
(* The calls of a cycle                                                    *)

\* Once, in the tick after the pair was made.
Start(p) ==
    /\ ssl[p].open /\ ~ssl[p].started
    /\ TlsBecomes(p, [Handshake(p) EXCEPT !.started = TRUE], <<>>)
    /\ UNCHANGED <<tlsGot, nocert>>

\* Mutant: the rest of the data that came with the last fragments is dropped.
EncIn_DropsRest(p, n) ==
    LET from == wire[TlsOther(p)] IN
    /\ ssl[p].open /\ n <= Len(from) /\ from[n] # EndOfFile
    /\ ssl' = [ssl EXCEPT ![p].bio_read = @ \o SubSeq(from, 1, n)]
    /\ wire' = [wire EXCEPT ![TlsOther(p)] = SelectSeq(SubSeq(from, n + 1, Len(from)),
                                                    LAMBDA f : f[1] # "data")]
    /\ UNCHANGED <<tlsGot, nocert>>

\* The socket delivers n fragments.
EncIn(p, n) ==
    LET from == wire[TlsOther(p)] IN
    /\ ssl[p].open /\ n <= Len(from) /\ from[n] # EndOfFile
    /\ ssl' = [ssl EXCEPT ![p].bio_read = @ \o SubSeq(from, 1, n)]
    /\ wire' = [wire EXCEPT ![TlsOther(p)] = SubSeq(@, n + 1, Len(@))]
    /\ UNCHANGED <<tlsGot, nocert>>

\* The socket has ended: the cleartext is done when no more can be read.
EncEnd(p) ==
    /\ ssl[p].open /\ ~ssl[p].encryptedEnded
    /\ wire[TlsOther(p)] = <<EndOfFile>>
    /\ TlsBecomes(p, [ssl[p] EXCEPT !.encryptedEnded = TRUE, !.encryptedDone = TRUE], <<>>)
    /\ UNCHANGED <<tlsGot, nocert>>

\* The next write of the application.  Before the handshake is over the call fails
\* and the data stay in the queue.
ClearIn(p) ==
    /\ ssl[p].open /\ ssl[p].pending # <<>> /\ Head(ssl[p].pending) # EndOfFile
    /\ LET c == Handshake(p) IN
       TlsBecomes(p, IF IsInitFinished(c) /\ ~c.error
                  THEN [c EXCEPT !.pending = Tail(@),
                                 !.bio_write = @ \o Record("data", Head(c.pending)[2])]
                  ELSE c, <<>>)
    /\ UNCHANGED <<tlsGot, nocert>>

\* The end of the application's writes: close_notify is written, but during the
\* handshake SSL_shutdown does nothing.
TlsShutdown(p) ==
    /\ ssl[p].open /\ ssl[p].pending # <<>> /\ Head(ssl[p].pending) = EndOfFile
    /\ LET c == [ssl[p] EXCEPT !.pending = Tail(@), !.destroyAfterPush = TRUE, !.cleartextDone = TRUE] IN
       TlsBecomes(p, IF IsInitFinished(c)
                  THEN SetShutdownFlags([c EXCEPT !.bio_write = @ \o Record("close", 0)], TRUE, FALSE)
                  ELSE c, <<>>)
    /\ UNCHANGED <<tlsGot, nocert>>

\* What SSL_read does with the next whole record: it gives out data, and notes
\* close_notify; a fatal alert is an error.
TlsRead(c) ==
    LET r == [c EXCEPT !.bio_read = SubSeq(@, 3, Len(@))] IN
    CASE c.bio_read[1][1] = "close" -> SetShutdownFlags(r, FALSE, TRUE)
      [] c.bio_read[1][1] = "alert" -> [r EXCEPT !.error = TRUE]
      [] OTHER -> r

\* A read.  When there is nothing to read and the socket has ended, the cleartext
\* stream is done.
ClearOut(p) ==
    /\ ssl[p].open
    /\ LET c == Handshake(p)
           whole == IsInitFinished(c) /\ ~c.error /\ HasRecord(c.bio_read) /\ ~c.receivedShutdown
           data == whole /\ c.bio_read[1][1] = "data"
       IN  /\ TlsBecomes(p, IF whole THEN TlsRead(c)
                         ELSE IF c.bio_read = <<>> /\ c.encryptedEnded THEN [c EXCEPT !.cleartextDone = TRUE]
                         ELSE c, <<>>)
           /\ tlsGot' = IF data THEN [tlsGot EXCEPT ![p] = Append(@, c.bio_read[1][2])] ELSE tlsGot
    /\ UNCHANGED nocert

\* Everything that is to be written goes to the socket, unless that has ended; when
\* nothing is left after the application's end, the encrypted stream is done.
EncOut(p) ==
    /\ ssl[p].open /\ ~ssl[p].encryptedEnded
    /\ ssl[p].bio_write # <<>> \/ ssl[p].destroyAfterPush
    /\ LET c == [ssl[p] EXCEPT !.bio_write = <<>>] IN
       TlsBecomes(p, IF c.destroyAfterPush THEN [c EXCEPT !.encryptedDone = TRUE] ELSE c,
               ssl[p].bio_write)
    /\ UNCHANGED <<tlsGot, nocert>>

-----------------------------------------------------------------------------
\* lib/tls.js cycles after every write, every delivery and in the first tick.
Cycle(p) == Start(p) \/ EncEnd(p) \/ ClearIn(p) \/ TlsShutdown(p) \/ ClearOut(p) \/ EncOut(p)

Deliver(p) == \E n \in 1..Len(wire[TlsOther(p)]) : EncIn(p, n)

TlsNext == \E p \in Peer : TlsWrite(p) \/ TlsEnd(p) \/ Deliver(p) \/ Cycle(p)

TlsSpec == TlsInit /\ [][TlsNext]_tlsVars

-----------------------------------------------------------------------------
\* The last fragment of a record of data, or a write that waits.
IsDatum(f) == f[1] = "data" /\ f[3] # 1

\* The data in s are the writes n + 1 to m, in order and each once.
Follows(s, n, m) ==
    /\ \A k \in n + 1..m : \E i \in 1..Len(s) : IsDatum(s[i]) /\ s[i][2] = k
    /\ \A i \in 1..Len(s) : IsDatum(s[i]) => s[i][2] \in n + 1..m
    /\ \A i, j \in 1..Len(s) : i < j /\ IsDatum(s[i]) /\ IsDatum(s[j]) => s[i][2] < s[j][2]

\* As long as both ends are open every write of one application is received by the
\* other, or on its way, in order and once: across failed calls, half records and the
\* handshake.
TlsKeepsData ==
    \A p \in Peer : ssl[p].open /\ ssl[TlsOther(p)].open =>
        LET got == tlsGot[TlsOther(p)] IN
        /\ got = [i \in 1..Len(got) |-> i]
        /\ Follows(ssl[TlsOther(p)].bio_read \o wire[p] \o ssl[p].bio_write \o ssl[p].pending,
                   Len(got), ssl[p].written)

\* close_notify comes after all that the other application wrote.
ShutdownMeansAll ==
    \A p \in Peer : ssl[p].receivedShutdown =>
        ssl[TlsOther(p)].ended /\ Len(tlsGot[p]) = ssl[TlsOther(p)].written

\* An end closes only after an error, when its application ended and all it wrote is
\* on the wire (or the socket is closed), or when the other end closed and all it sent
\* was read.
ClosedIsFinished ==
    \A p \in Peer : ~ssl[p].open =>
        \/ ssl[p].error
        \/ ssl[p].ended /\ ssl[p].pending = <<>> /\ (ssl[p].bio_write = <<>> \/ ssl[p].encryptedEnded)
        \/ ssl[p].encryptedEnded /\ ssl[p].bio_read = <<>>

\* What an application wrote arrives, unless the other end closes.
TlsDelivers ==
    \A p \in Peer : \A n \in 1..TlsMaxWrites :
        ssl[p].written >= n ~> Len(tlsGot[TlsOther(p)]) >= n \/ ~ssl[TlsOther(p)].open

\* A secure pair: data arrive whole and in order on the other side, close_notify follows all
\* of them, and a pair is destroyed only when it is done.
TlsSafe ==
    /\ TlsTypeOK
    /\ TlsKeepsData
    /\ ShutdownMeansAll
    /\ ClosedIsFinished
=============================================================================
