---------------------------- MODULE NodeDatagram ----------------------------
(***************************************************************************)
(* Datagram sockets: lib/dgram.js over SendTo, RecvFrom and the option     *)
(* calls of node_net.cc.  A send or a membership with a host name waits    *)
(* for a lookup, and a UNIX bind for an unlink, so the socket may be       *)
(* closed before it is used.  All sockets receive into one pool; a message *)
(* that was told to a listener is a slice of it.                           *)
(*                                                                         *)
(* The network is external: it loses and reorders datagrams.               *)
(***************************************************************************)
EXTENDS Naturals, Sequences, FiniteSets

CONSTANTS
    Dgram,          \* the sockets
    PoolSize,       \* messages that fit in a pool
    MaxSends,       \* bound: datagrams sent
    MaxOptions      \* bound: calls that set an option or a membership

ASSUME DatagramAssumption == PoolSize \in Nat \ {0} /\ MaxSends \in Nat /\ MaxOptions \in Nat

VARIABLES
    dgram,          \* the Socket objects
    waiting,        \* calls that wait for a lookup or an unlink
    net,            \* datagrams in the kernel, with the socket they are for
    pool,           \* the pool: what each place holds, and how much is used
    slices,         \* the messages in the pool that listeners were given
    answers,        \* how often each send called back
    options         \* calls that set an option

datagramVars == <<dgram, waiting, net, pool, slices, answers, options>>

-----------------------------------------------------------------------------
\* A new socket: an option of the kernel, and next to it what the application asked for.
\* UDP sockets are watched from the start, UNIX ones when they are bound.
NewDgram(type) ==
    [type |-> type, fd |-> TRUE, watcher |-> (type = "udp"),
     broadcast |-> FALSE, wantsBroadcast |-> FALSE, loopback |-> TRUE, wantsLoopback |-> TRUE,
     ttl |-> 64, multicastTTL |-> 1, groups |-> {}]

EmptyPool == [mem |-> [i \in 1..PoolSize |-> 0], used |-> 0]

DatagramInit ==
    /\ \E type \in [Dgram -> {"udp", "unix_dgram"}] : dgram = [s \in Dgram |-> NewDgram(type[s])]
    /\ waiting = {} /\ net = {}
    /\ pool = EmptyPool
    /\ slices = {}
    /\ answers = <<>>
    /\ options = 0

-----------------------------------------------------------------------------
(* Sending                                                                 *)

\* The kernel takes a datagram; for a socket that is gone it is lost.
Puts(n, to) == net' = IF dgram[to].fd THEN net \cup {<<n, to>>} ELSE net

\* sendto calls back once: with the size, with null if the kernel would block, or with the
\* error, as for a socket that was closed meanwhile.
SendTo(s, n, to) ==
    /\ \/ dgram[s].fd /\ Puts(n, to)
       \/ UNCHANGED net
    /\ answers' = [answers EXCEPT ![n] = @ + 1]

\* socket.send to an address.
Send(s, to) ==
    LET n == Len(answers) + 1 IN
    /\ n <= MaxSends /\ dgram[s].fd
    /\ Puts(n, to) \/ UNCHANGED net
    /\ answers' = Append(answers, 1)
    /\ UNCHANGED <<dgram, waiting, pool, slices, options>>

\* socket.send to a host name.
SendToHost(s, to) ==
    LET n == Len(answers) + 1 IN
    /\ n <= MaxSends /\ dgram[s].fd /\ dgram[s].type = "udp"
    /\ answers' = Append(answers, 0)
    /\ waiting' = waiting \cup {<<"send", s, n, to>>}
    /\ UNCHANGED <<dgram, net, pool, slices, options>>

\* The lookup of a send answers, with an error or not.
SendLookedUp(s, n, to) ==
    /\ <<"send", s, n, to>> \in waiting
    /\ waiting' = waiting \ {<<"send", s, n, to>>}
    /\ \/ SendTo(s, n, to)
       \/ answers' = [answers EXCEPT ![n] = @ + 1] /\ UNCHANGED net
    /\ UNCHANGED <<dgram, pool, slices, options>>

-----------------------------------------------------------------------------
(* Receiving                                                               *)

\* Mutant: the pool is used again from its start.
GetPool_Reuses == IF pool.used + 1 > PoolSize THEN [pool EXCEPT !.used = 0] ELSE pool

\* A pool with room for a message.  A new one leaves the slices of the old one alone.
GetPool == IF pool.used + 1 > PoolSize THEN EmptyPool ELSE pool

\* recvfrom writes a datagram for s into the pool; the listener is given a slice, and the
\* place counts as used when it returned.
RecvFrom(s, n, throws) ==
    LET p == GetPool
        at == p.used + 1
        kept == IF p.used < pool.used /\ p = EmptyPool THEN {} ELSE slices
    IN
    /\ dgram[s].fd /\ dgram[s].watcher /\ <<n, s>> \in net
    /\ net' = net \ {<<n, s>>}
    /\ pool' = [mem |-> [p.mem EXCEPT ![at] = n], used |-> IF throws THEN p.used ELSE p.used + 1]
    /\ slices' = kept \cup {[at |-> at, message |-> n, returned |-> ~throws]}
    /\ UNCHANGED <<dgram, waiting, answers, options>>

\* A datagram is lost.
Lose(n, s) ==
    /\ <<n, s>> \in net
    /\ net' = net \ {<<n, s>>}
    /\ UNCHANGED <<dgram, waiting, pool, slices, answers, options>>

-----------------------------------------------------------------------------
(* Binding and closing                                                     *)

\* A UNIX socket is bound after the old file was unlinked.
BindPath(s) ==
    /\ dgram[s].fd /\ dgram[s].type = "unix_dgram" /\ <<"bind", s>> \notin waiting
    /\ waiting' = waiting \cup {<<"bind", s>>}
    /\ UNCHANGED <<dgram, net, pool, slices, answers, options>>

\* The unlink is done; bind throws on a socket that was closed, or on an error.
Bound(s) ==
    /\ <<"bind", s>> \in waiting
    /\ waiting' = waiting \ {<<"bind", s>>}
    /\ \E ok \in BOOLEAN :
         dgram' = IF ok /\ dgram[s].fd THEN [dgram EXCEPT ![s].watcher = TRUE] ELSE dgram
    /\ UNCHANGED <<net, pool, slices, answers, options>>

DgramClose(s) ==
    /\ dgram[s].fd
    /\ dgram' = [dgram EXCEPT ![s].fd = FALSE, ![s].watcher = FALSE, ![s].groups = {}]
    /\ net' = {d \in net : d[2] # s}
    /\ UNCHANGED <<waiting, pool, slices, answers, options>>

-----------------------------------------------------------------------------
(* Options                                                                 *)

OptionCall(s) == dgram[s].fd /\ options < MaxOptions /\ options' = options + 1

\* lib/dgram.js passes 1 or 0; the binding takes everything but false for true.
Flag(arg) == IF arg = "false" THEN FALSE ELSE TRUE

SetBroadcast(s, v) ==
    /\ OptionCall(s)
    /\ dgram' = [dgram EXCEPT ![s].wantsBroadcast = v, ![s].broadcast = Flag(IF v THEN "1" ELSE "0")]
    /\ UNCHANGED <<waiting, net, pool, slices, answers>>

SetMulticastLoopback(s, v) ==
    /\ OptionCall(s)
    /\ dgram' = [dgram EXCEPT ![s].wantsLoopback = v, ![s].loopback = Flag(IF v THEN "1" ELSE "0")]
    /\ UNCHANGED <<waiting, net, pool, slices, answers>>

\* Values around the limits.
TTLs == {0, 1, 255, 256}

SetTTL(s, t) ==
    /\ OptionCall(s) /\ t \in TTLs
    /\ dgram' = IF t < 1 \/ t > 255 THEN dgram ELSE [dgram EXCEPT ![s].ttl = t]
    /\ UNCHANGED <<waiting, net, pool, slices, answers>>

SetMulticastTTL(s, t) ==
    /\ OptionCall(s) /\ t \in TTLs
    /\ dgram' = IF t < 0 \/ t > 255 THEN dgram ELSE [dgram EXCEPT ![s].multicastTTL = t]
    /\ UNCHANGED <<waiting, net, pool, slices, answers>>

\* addMembership and dropMembership look the group up, and give its name, not what the lookup
\* found, to the binding.
Membership(s, op, name) ==
    /\ OptionCall(s) /\ <<op, s, name>> \notin waiting
    /\ waiting' = waiting \cup {<<op, s, name>>}
    /\ UNCHANGED <<dgram, net, pool, slices, answers>>

\* SetMembership on a socket that is still open.  For a host name it returns the error that it
\* should throw, and nothing happens.
SetMembership(s, op, name) ==
    /\ <<op, s, name>> \in waiting /\ op \in {"add", "drop"}
    /\ waiting' = waiting \ {<<op, s, name>>}
    /\ dgram' = IF ~dgram[s].fd \/ name = "host" THEN dgram
                ELSE [dgram EXCEPT ![s].groups = IF op = "add" THEN @ \cup {name} ELSE @ \ {name}]
    /\ UNCHANGED <<net, pool, slices, answers, options>>

-----------------------------------------------------------------------------
DatagramNext ==
    \E s \in Dgram :
        \/ \E to \in Dgram : Send(s, to) \/ SendToHost(s, to)
        \/ \E to \in Dgram, n \in DOMAIN answers : SendLookedUp(s, n, to)
        \/ \E n \in DOMAIN answers : Lose(n, s) \/ \E throws \in BOOLEAN : RecvFrom(s, n, throws)
        \/ BindPath(s) \/ Bound(s) \/ DgramClose(s)
        \/ \E v \in BOOLEAN : SetBroadcast(s, v) \/ SetMulticastLoopback(s, v)
        \/ \E t \in TTLs : SetTTL(s, t) \/ SetMulticastTTL(s, t)
        \/ \E op \in {"add", "drop"}, name \in {"group", "host"} :
             Membership(s, op, name) \/ SetMembership(s, op, name)

DatagramSpec == DatagramInit /\ [][DatagramNext]_datagramVars

-----------------------------------------------------------------------------
DatagramTypeOK ==
    /\ \A s \in Dgram : dgram[s].ttl \in 1..255 /\ dgram[s].multicastTTL \in 0..255
    /\ pool.used \in 0..PoolSize

\* The slice that a listener was given and returned from is not written again, whichever
\* sockets share the pool.
SlicesIntact == \A m \in slices : m.returned => pool.mem[m.at] = m.message

\* Every send calls back once, when it is no longer waiting for its lookup: also one whose
\* socket was closed meanwhile.
SendAnswersOnce ==
    \A n \in DOMAIN answers :
        answers[n] = IF \E s, to \in Dgram : <<"send", s, n, to>> \in waiting THEN 0 ELSE 1

\* What was waiting when a socket was closed does not bring it to life: it is not watched, is
\* in no group and receives nothing.
ClosedIsDead ==
    \A s \in Dgram : ~dgram[s].fd =>
        ~dgram[s].watcher /\ dgram[s].groups = {} /\ \A d \in net : d[2] # s

\* Datagram sockets: messages that were given out keep their bytes although they share a
\* pool, send calls back once, and a closed socket does nothing.
DatagramSafe ==
    /\ DatagramTypeOK
    /\ SlicesIntact
    /\ SendAnswersOnce
    /\ ClosedIsDead
=============================================================================
