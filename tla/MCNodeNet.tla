--------------------------------- MODULE MCNodeNet ---------------------------------
(***************************************************************************)
(* Node's sockets, TLS, HTTP, datagrams and DNS, and flightscrape, the    *)
(* program that runs on them, for TLC.  A behaviour is one of a single    *)
(* component, chosen at the start; the others stay as they are.           *)
(***************************************************************************)
EXTENDS NodeSocket, NodeServer, NodeTls, NodeSecureContext, NodeHttp, NodeDatagram, NodeDns, FlightData

\* Two American zones and one whose abbreviation Date does not know.
Offsets == [z \in Zone |-> IF z = "EST" THEN -300 ELSE IF z = "PST" THEN -480 ELSE 60]

\* Sockets and what is written to them.
SomeKinds ==
    {[type |-> "unix", strings |-> FALSE], [type |-> "tcp", strings |-> TRUE]}

\* A GET request of the url u with the header lines ls.
Get(u, ls) ==
    [url |-> <<u>>, lines |-> ls, chunked |-> FALSE, body |-> <<>>, trailers |-> <<>>, upgrade |-> FALSE,
     last |-> FALSE, chunkedResponse |-> FALSE]

\* One chunked request with repeated headers and trailers; four that are pipelined, the
\* last of them an upgrade; and two connections that each end after a request.
SomeRequests ==
    [c \in HttpConn |->
        CASE c = "chunked" ->
               <<[url |-> <<"a", "b">>,
                  lines |-> << <<<<"h", "i">>, <<"1", "2">>>>, <<<<"k">>, <<>>>>, <<<<"h", "i">>, <<"3">>>>, <<<<"k">>, <<"4">>>> >>,
                  chunked |-> TRUE, body |-> <<"x", "y">>, trailers |-> << <<<<"t">>, <<"p">>>>, <<<<"u">>, <<"q">>>> >>,
                  upgrade |-> FALSE, last |-> FALSE, chunkedResponse |-> FALSE]>>
          [] c = "piped" ->
               <<[Get("c", <<>>) EXCEPT !.chunkedResponse = TRUE], Get("d", << <<<<"k">>, <<"v">>>> >>), Get("g", <<>>),
                 [Get("e", <<>>) EXCEPT !.body = <<"r", "s">>, !.upgrade = TRUE]>>
          [] c = "c1" -> <<[Get(c, << <<<<"k">>, <<"v">>>> >>) EXCEPT !.last = TRUE]>>
          [] OTHER -> <<[Get(c, <<>>) EXCEPT !.last = TRUE]>>]

\* One of the two that meet comes whole.
SomeCuts == [c \in HttpConn |-> IF c = "c2" THEN 1 ELSE 2]

SomeRepeatable == {<<"h", "i">>}

\* The connections of one behaviour.
SomeTogether == {{"chunked"}, {"piped"}, {"c1", "c2"}}

VARIABLE part    \* the component that this behaviour is about

suiteVars == <<part, socketVars, serverVars, tlsVars, contextVars, httpVars, datagramVars, dnsVars, flightVars>>

Part == {"socket", "server", "tls", "context", "http", "datagram", "dns", "flight"}

Init ==
    /\ part \in Part
    /\ ContextInit /\ DnsInit
    /\ SocketInit /\ (part # "socket" => (sockKind = (CHOOSE k \in Kinds : TRUE) /\ app = [p \in End |-> NoUse(FALSE)]))
    /\ ServerInit /\ (part # "server" => (server = NewServer("tcp", 0)))
    /\ TlsInit /\ (part # "tls" => (~nocert))
    /\ HttpInit /\ (part # "http" => (\A c \in {"c1", "c2"} : served[c] = NewServed))
    /\ DatagramInit /\ (part # "datagram" => (\A s \in Dgram : dgram[s] = NewDgram("udp")))
    /\ FlightInit /\ (part # "flight" => (page = {} /\ flight = CHOOSE f \in Flight : TRUE))

SocketPart ==
    /\ part = "socket" /\ SocketNext
    /\ UNCHANGED <<part, serverVars, tlsVars, contextVars, httpVars, datagramVars, dnsVars, flightVars>>

ServerPart ==
    /\ part = "server" /\ ServerNext
    /\ UNCHANGED <<part, socketVars, tlsVars, contextVars, httpVars, datagramVars, dnsVars, flightVars>>

TlsPart ==
    /\ part = "tls" /\ TlsNext
    /\ UNCHANGED <<part, socketVars, serverVars, contextVars, httpVars, datagramVars, dnsVars, flightVars>>

ContextPart ==
    /\ part = "context" /\ ContextNext
    /\ UNCHANGED <<part, socketVars, serverVars, tlsVars, httpVars, datagramVars, dnsVars, flightVars>>

HttpPart ==
    /\ part = "http" /\ HttpNext
    /\ UNCHANGED <<part, socketVars, serverVars, tlsVars, contextVars, datagramVars, dnsVars, flightVars>>

DatagramPart ==
    /\ part = "datagram" /\ DatagramNext
    /\ UNCHANGED <<part, socketVars, serverVars, tlsVars, contextVars, httpVars, dnsVars, flightVars>>

DnsPart ==
    /\ part = "dns" /\ DnsNext
    /\ UNCHANGED <<part, socketVars, serverVars, tlsVars, contextVars, httpVars, datagramVars, flightVars>>

FlightPart ==
    /\ part = "flight" /\ FlightNext
    /\ UNCHANGED <<part, socketVars, serverVars, tlsVars, contextVars, httpVars, datagramVars, dnsVars>>

Next ==
    \/ SocketPart \/ ServerPart \/ TlsPart \/ ContextPart \/ HttpPart \/ DatagramPart
    \/ DnsPart \/ FlightPart

Spec == Init /\ [][Next]_suiteVars
=============================================================================
