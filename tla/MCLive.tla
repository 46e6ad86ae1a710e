---------------------------------- MODULE MCLive ----------------------------------
(***************************************************************************)
(* The parts of the application and of node in which something must happen*)
(* in the end, for TLC.  A behaviour is one of a single component, chosen at*)
(* the start; only that one moves, and is fair.                           *)
(***************************************************************************)
EXTENDS PostBody, UberLogin, Reservation, NodeTls, NodeLoop, NodeProcess, NodeSocket, NodeServer, NodeDns,
        NodeChildProcess, NodeTty

\* Two parameters, the first of them empty.
TwoParts == <<2, 0, 1, 3, 2>>

TcpSocket == {[type |-> "tcp", strings |-> TRUE]}

OnlyStdout == {{1}}

VARIABLE part    \* the component that this behaviour is about

suiteVars == <<part, bodyVars, loginVars, reservationVars, tlsVars, loopVars, processVars, socketVars,
               serverVars, dnsVars, childVars, ttyVars>>

Part == {"body", "login", "reservation", "tls", "loop", "process", "socket", "server", "dns", "child", "tty"}

Init ==
    /\ part \in Part
    /\ BodyInit /\ LoginInit /\ ReservationInit /\ DnsInit
    /\ ChildInit /\ TtyInit
    /\ TlsInit /\ (part # "tls" => (~nocert))
    /\ LoopInit /\ (part # "loop" => (~listening))
    /\ ProcessInit /\ (part # "process" => (cmdline = <<>> /\ environ = <<>>))
    /\ SocketInit /\ (part # "socket" => (sockKind = (CHOOSE k \in Kinds : TRUE) /\ app = [p \in End |-> NoUse(FALSE)]))
    /\ ServerInit /\ (part # "server" => (server = NewServer("tcp", 0)))

BodyPart ==
    /\ part = "body" /\ BodyNext
    /\ UNCHANGED <<part, loginVars, reservationVars, tlsVars, loopVars, processVars, socketVars, serverVars,
                   dnsVars, childVars, ttyVars>>

LoginPart ==
    /\ part = "login" /\ LoginNext
    /\ UNCHANGED <<part, bodyVars, reservationVars, tlsVars, loopVars, processVars, socketVars, serverVars,
                   dnsVars, childVars, ttyVars>>

ReservationPart ==
    /\ part = "reservation" /\ ReservationNext
    /\ UNCHANGED <<part, bodyVars, loginVars, tlsVars, loopVars, processVars, socketVars, serverVars,
                   dnsVars, childVars, ttyVars>>

TlsPart ==
    /\ part = "tls" /\ TlsNext
    /\ UNCHANGED <<part, bodyVars, loginVars, reservationVars, loopVars, processVars, socketVars, serverVars,
                   dnsVars, childVars, ttyVars>>

LoopPart ==
    /\ part = "loop" /\ LoopNext
    /\ UNCHANGED <<part, bodyVars, loginVars, reservationVars, tlsVars, processVars, socketVars, serverVars,
                   dnsVars, childVars, ttyVars>>

ProcessPart ==
    /\ part = "process" /\ ProcessNext
    /\ UNCHANGED <<part, bodyVars, loginVars, reservationVars, tlsVars, loopVars, socketVars, serverVars,
                   dnsVars, childVars, ttyVars>>

SocketPart ==
    /\ part = "socket" /\ SocketNext
    /\ UNCHANGED <<part, bodyVars, loginVars, reservationVars, tlsVars, loopVars, processVars, serverVars,
                   dnsVars, childVars, ttyVars>>

ServerPart ==
    /\ part = "server" /\ ServerNext
    /\ UNCHANGED <<part, bodyVars, loginVars, reservationVars, tlsVars, loopVars, processVars, socketVars,
                   dnsVars, childVars, ttyVars>>

DnsPart ==
    /\ part = "dns" /\ DnsNext
    /\ UNCHANGED <<part, bodyVars, loginVars, reservationVars, tlsVars, loopVars, processVars, socketVars,
                   serverVars, childVars, ttyVars>>

ChildPart ==
    /\ part = "child" /\ ChildNext
    /\ UNCHANGED <<part, bodyVars, loginVars, reservationVars, tlsVars, loopVars, processVars, socketVars,
                   serverVars, dnsVars, ttyVars>>

TtyPart ==
    /\ part = "tty" /\ TtyNext
    /\ UNCHANGED <<part, bodyVars, loginVars, reservationVars, tlsVars, loopVars, processVars, socketVars,
                   serverVars, dnsVars, childVars>>

Next ==
    \/ BodyPart \/ LoginPart \/ ReservationPart \/ TlsPart \/ LoopPart \/ ProcessPart
    \/ SocketPart \/ ServerPart \/ DnsPart \/ ChildPart \/ TtyPart

\* NSURLConnection goes on reading a body that it has opened.
BodyFairness ==
    /\ WF_bodyVars(part = "body" /\ Read)

\* NSURLSession calls the completion handler of a task that was resumed.
LoginFairness ==
    /\ \A c \in Call : WF_loginVars(part = "login" /\ AnswerCall(c))

\* The dispatch queues run every block; the user need not do anything.
ReservationFairness ==
    /\ \A n \in Search : WF_reservationVars(part = "reservation" /\ (Found(n) \/ ToRide(n) \/ FromRide(n)))

\* The loop goes on with a pair that has something to do, and the network delivers.
TlsFairness ==
    /\ \A p \in Peer : WF_tlsVars(part = "tls" /\ Deliver(p))
    /\ \A p \in Peer : WF_tlsVars(part = "tls" /\ (Start(p) \/ EncEnd(p) \/ ClearIn(p) \/ TlsShutdown(p) \/ ClearOut(p) \/ EncOut(p)))

\* The main thread runs, a wait that may end ends, and the threads of the pool work.
LoopFairness ==
    /\ WF_loopVars(part = "loop" /\ MainNext)
    /\ SF_loopVars(part = "loop" /\ Wait({}))
    /\ \A r \in 1..MaxReqs : WF_loopVars(part = "loop" /\ LoopExecute(r))

\* libev calls the callbacks of the watchers that were woken.
ProcessFairness ==
    /\ WF_processVars(part = "process" /\ DebugSignalCB)
    /\ WF_processVars(part = "process" /\ DebugAsync)

\* A lookup and a connection attempt end, libev reports what is ready, and a flush goes on.
\* Neither application need do anything.
SocketFairness ==
    /\ WF_socketVars(part = "socket" /\ (Connect \/ Answer \/ OnConnect))
    /\ \A p \in End : WF_socketVars(part = "socket" /\ Loop(p))

\* libev reports connections again and again while they wait, also between exceptions; time passes.
ServerFairness ==
    /\ SF_serverVars(part = "server" /\ OnConnection)
    /\ WF_serverVars(part = "server" /\ (AcceptLoop \/ Listener \/ RejectPending))
    /\ WF_serverVars(part = "server" /\ PauseEnds)
    /\ WF_serverVars(part = "server" /\ ListenTick)

\* The timer of c-ares fires, and the threads of the pool work.
DnsFairness ==
    /\ WF_dnsVars(part = "dns" /\ TimerCallback)
    /\ \A i \in Req : WF_dnsVars(part = "dns" /\ (Resolve(i) \/ AfterResolve(i)))

\* SIGCHLD is handled and what the pipes have is reported.
ChildFairness ==
    /\ WF_childVars(part = "child" /\ Reap)
    /\ \A c \in Child : WF_childVars(part = "child" /\ (OnExit(c) \/ ExecTick(c)))
    /\ \A c \in Child : WF_childVars(part = "child" /\ (\E i \in {1, 2} : ChildOnData(c, i) \/ OnEndOfOutput(c, i) \/ OnStreamClose(c, i)))

\* The thread that waits for input runs, and the main thread calls its callbacks.
TtyFairness ==
    /\ WF_ttyVars(part = "tty" /\ WaitThread)
    /\ WF_ttyVars(part = "tty" /\ ReadConsoleInput)
    /\ WF_ttyVars(part = "tty" /\ (tty_want_poll \/ tty_poll \/ CallKeypress \/ CallbackReturns \/ RearmWatcher))

Spec ==
    /\ Init /\ [][Next]_suiteVars
    /\ BodyFairness /\ LoginFairness /\ ReservationFairness /\ TlsFairness
    /\ LoopFairness /\ ProcessFairness /\ SocketFairness /\ ServerFairness
    /\ DnsFairness /\ ChildFairness /\ TtyFairness

-----------------------------------------------------------------------------
\* The application goes on: a body that is read comes to its end, data calls are answered,
\* a search ends with its reservation, and a confirmed reservation gets its ride.
AppIsLive ==
    /\ BodyEnds
    /\ CallsAreAnswered
    /\ SearchIsAnswered
    /\ RideArrives

\* node goes on: written data arrive, requests to the pool are answered, the debugger is
\* heard, connections close, clients are served, names are resolved, the ends of children
\* are reported and keys are read.
NodeIsLive ==
    /\ TlsDelivers
    /\ LoopGoesOn
    /\ DebugIsHeard
    /\ EndCloses
    /\ PendingAreServed
    /\ DnsAnswers
    /\ EndIsReported
    /\ KeysAreRead
=============================================================================
