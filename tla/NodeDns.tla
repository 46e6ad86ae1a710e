------------------------------- MODULE NodeDns -------------------------------
(***************************************************************************)
(* Name resolution: the Channel of node_cares.cc and GetAddrInfo of        *)
(* node_net.cc under lib/dns.js.  A request is a query of one record type, *)
(* or a lookup, which asks for IPv4 and then for IPv6 unless it was told   *)
(* the family, or a lookup of a .local name in the thread pool.            *)
(*                                                                         *)
(* c-ares is external: it opens a UDP socket for the first query and a TCP *)
(* socket for a truncated answer, tells lib/dns.js which sockets to watch, *)
(* sends again after a timeout, and closes the sockets with the last       *)
(* query.  It has no clock of its own: without the timer of lib/dns.js a   *)
(* lost datagram is never sent again.                                      *)
(***************************************************************************)
EXTENDS Naturals, Sequences, FiniteSets

CONSTANTS
    Req,            \* the requests
    Tries           \* times a query is sent

ASSUME DnsAssumption == Tries \in Nat \ {0}

VARIABLES
    req,            \* the requests
    active,         \* activeWatchers: the sockets of c-ares that are watched
    open,           \* the sockets of c-ares that are open
    timer,          \* the timer of lib/dns.js runs
    refs            \* references of GetAddrInfo that keep the loop

dnsVars == <<req, active, open, timer, refs>>

-----------------------------------------------------------------------------
(* Requests and answers                                                    *)

RecordType == {"A", "AAAA", "CNAME", "MX", "NS", "SRV", "TXT", "PTR"}

LookupKind == {"lookup", "lookup4", "lookup6", "local"}

\* A record of a reply.  Its host stands for an address where the type has one.
ARecord == [host |-> "h1", priority |-> 1, weight |-> 2, port |-> 3]

\* The replies: malformed, with no records, with some.
Reply == {[ok |-> FALSE, rr |-> <<>>]} \cup [ok : {TRUE}, rr : {<<>>, <<ARecord>>, <<ARecord, ARecord>>}]

Error(e) == [error |-> e, list |-> <<>>]

Fine(list) == [error |-> "none", list |-> list]

\* The first argument of the callback is an error with its code.
ResolveError(status) == Error(status)

HostEntToAddresses(r) == [i \in DOMAIN r.rr |-> r.rr[i].host]

HostEntToNames(r) == [i \in DOMAIN r.rr |-> r.rr[i].host]

ParseAnswerA(r) == IF ~r.ok \/ r.rr = <<>> THEN ResolveError("EBADRESP") ELSE Fine(HostEntToAddresses(r))

ParseAnswerAAAA(r) == IF ~r.ok \/ r.rr = <<>> THEN ResolveError("EBADRESP") ELSE Fine(HostEntToAddresses(r))

\* One name, whatever the reply holds.
ParseAnswerCNAME(r) == IF ~r.ok \/ r.rr = <<>> THEN ResolveError("EBADRESP") ELSE Fine(<<r.rr[1].host>>)

ParseAnswerMX(r) ==
    IF ~r.ok THEN ResolveError("EBADRESP")
    ELSE Fine([i \in DOMAIN r.rr |-> [priority |-> r.rr[i].priority, exchange |-> r.rr[i].host]])

ParseAnswerNS(r) == IF ~r.ok \/ r.rr = <<>> THEN ResolveError("EBADRESP") ELSE Fine(HostEntToNames(r))

ParseAnswerSRV(r) ==
    IF ~r.ok THEN ResolveError("EBADRESP")
    ELSE Fine([i \in DOMAIN r.rr |-> [priority |-> r.rr[i].priority, weight |-> r.rr[i].weight,
                                   port |-> r.rr[i].port, name |-> r.rr[i].host]])

ParseAnswerTXT(r) ==
    IF ~r.ok THEN ResolveError("EBADRESP") ELSE Fine([i \in DOMAIN r.rr |-> r.rr[i].host])

\* ares_gethostbyname and ares_gethostbyaddr parse the reply themselves.
HostByNameCb(r) == IF ~r.ok \/ r.rr = <<>> THEN ResolveError("ENODATA") ELSE Fine(HostEntToAddresses(r))

HostByAddrCb(r) == IF ~r.ok \/ r.rr = <<>> THEN ResolveError("ENOTFOUND") ELSE Fine(HostEntToNames(r))

\* The callback that Channel::Query chose for the type.
QueryCb(kind, r) ==
    CASE kind = "A" -> ParseAnswerA(r)
      [] kind = "AAAA" -> ParseAnswerAAAA(r)
      [] kind = "CNAME" -> ParseAnswerCNAME(r)
      [] kind = "MX" -> ParseAnswerMX(r)
      [] kind = "NS" -> ParseAnswerNS(r)
      [] kind = "SRV" -> ParseAnswerSRV(r)
      [] kind = "TXT" -> ParseAnswerTXT(r)
      [] kind = "PTR" -> HostByAddrCb(r)
      [] OTHER -> HostByNameCb(r)

-----------------------------------------------------------------------------
\* A request: its query is sent, on a socket, for the n-th time; stage is the family that a
\* lookup asks for.
NewReq == [kind |-> "none", state |-> "new", stage |-> 0, sock |-> "udp", sent |-> 0,
           calls |-> 0, result |-> Fine(<<>>), family |-> 0]

DnsInit ==
    /\ req = [i \in Req |-> NewReq]
    /\ active = {} /\ open = {} /\ timer = FALSE /\ refs = 0

DnsPending(r) == {i \in Req : r[i].state = "sent"}

\* The callback of JavaScript.
DnsCall(r, i, res, family) ==
    [r EXCEPT ![i].state = "done", ![i].calls = @ + 1, ![i].result = res, ![i].family = family]

\* The answer of a lookup's query: no IPv4 address is followed by a query for IPv6.  The
\* address of a lookup for one family is looked at once more.
AfterLookup(r, i, res) ==
    LET k == r[i].kind IN
    IF k = "lookup4" THEN DnsCall(r, i, res, IF res.error = "none" THEN 4 ELSE 0)
    ELSE IF k = "lookup6" THEN DnsCall(r, i, res, IF res.error = "none" THEN 6 ELSE 0)
    ELSE IF res.error = "none" THEN DnsCall(r, i, res, r[i].stage)
    ELSE IF r[i].stage = 4 THEN [r EXCEPT ![i].stage = 6, ![i].sent = 1, ![i].sock = "udp"]
    ELSE DnsCall(r, i, res, 0)

\* c-ares is done with a query: cb_call, and the argument is deleted.
Finish(r, i, res) == IF r[i].kind \in LookupKind THEN AfterLookup(r, i, res) ELSE DnsCall(r, i, res, 0)

-----------------------------------------------------------------------------
(* c-ares and the watchers                                                 *)

\* The sockets that c-ares has open for the queries of r.
Sockets(r) == {r[i].sock : i \in DnsPending(r)} \cup (IF DnsPending(r) # {} THEN {"udp"} ELSE {})

\* c-ares tells which sockets to read; one that is closed is not watched any more.
SockStateCb(r) == active' = Sockets(r)

\* Mutant: a timer that has fired is not started again.
UpdateTimer_NotAgain == timer' = (active' # {} /\ ~timer)

\* The timer runs as long as a socket is watched.
UpdateTimer == timer' = (active' # {})

\* c-ares is left with the queries of r.
Channel(r) == req' = r /\ open' = Sockets(r) /\ SockStateCb(r)

\* Channel::Query, from JavaScript: a socket that was not open starts the timer, too.  The
\* name, the address of a PTR query or the query itself may be refused at once.
Query(i, kind) ==
    LET s == [req EXCEPT ![i].kind = kind, ![i].state = "sent", ![i].sent = 1] IN
    /\ req[i].state = "new" /\ kind \in RecordType
    /\ \/ Channel(s) /\ (IF "udp" \in open THEN UNCHANGED timer ELSE UpdateTimer)
       \/ req' = DnsCall(s, i, ResolveError("EBADNAME"), 0) /\ UNCHANGED <<active, open, timer>>
    /\ UNCHANGED refs

\* dns.lookup of a name, with or without a family.
GetHostByName(i, kind) ==
    LET s == [req EXCEPT ![i].kind = kind, ![i].state = "sent", ![i].sent = 1,
                         ![i].stage = IF kind = "lookup6" THEN 6 ELSE 4] IN
    /\ req[i].state = "new" /\ kind \in {"lookup", "lookup4", "lookup6"}
    /\ Channel(s) /\ (IF "udp" \in open THEN UNCHANGED timer ELSE UpdateTimer)
    /\ UNCHANGED refs

\* dns.getHostByAddr: an address of the right family.
GetHostByAddr(i) ==
    /\ req[i].state = "new"
    /\ Channel([req EXCEPT ![i].kind = "PTR", ![i].state = "sent", ![i].sent = 1])
    /\ (IF "udp" \in open THEN UNCHANGED timer ELSE UpdateTimer)
    /\ UNCHANGED refs

\* dns.lookup of an address.
IsIP(i) ==
    /\ req[i].state = "new"
    /\ \E f \in {4, 6} : req' = DnsCall([req EXCEPT ![i].kind = "lookup"], i, Fine(<<"h1">>), f)
    /\ UNCHANGED <<active, open, timer, refs>>

\* Mutant: a query whose answer came is asked again.
ProcessFD_Repeats(s) ==
    \E i \in DnsPending(req), r \in Reply :
        /\ req[i].sock = s
        /\ Channel([Finish(req, i, QueryCb(req[i].kind, r)) EXCEPT ![i].state = "sent"])

\* A datagram or a stream has come: an answer, or one that is truncated and asked for again
\* over TCP.
ProcessFD(s) ==
    \E i \in DnsPending(req) :
        /\ req[i].sock = s
        /\ \/ \E r \in Reply : Channel(Finish(req, i, QueryCb(req[i].kind, r)))
           \/ s = "udp" /\ Channel([req EXCEPT ![i].sock = "tcp"])

OnReadable(s) ==
    /\ s \in active
    /\ ProcessFD(s)
    /\ UpdateTimer
    /\ UNCHANGED refs

\* What c-ares does with a query whose time is over: it sends it again, or gives up.
TimedOut(r, i) ==
    IF r[i].sent < Tries THEN [r EXCEPT ![i].sent = @ + 1] ELSE Finish(r, i, ResolveError("ETIMEOUT"))

\* The time that Timeout gave is over for some query.
TimerCallback ==
    /\ timer
    /\ \E i \in DnsPending(req) : Channel(TimedOut(req, i))
    /\ UpdateTimer
    /\ UNCHANGED refs

-----------------------------------------------------------------------------
(* getaddrinfo                                                             *)

\* dns.lookup of a .local name: a request to the pool, and a reference for the loop.
GetAddrInfo(i) ==
    /\ req[i].state = "new"
    /\ req' = [req EXCEPT ![i].kind = "local", ![i].state = "pool"]
    /\ refs' = refs + 1
    /\ UNCHANGED <<active, open, timer>>

\* The thread calls getaddrinfo.
Resolve(i) ==
    /\ req[i].state = "pool"
    /\ \E r \in {Error("NODATA"), Error("FAIL"), Fine(<<"h1">>)} :
         req' = [req EXCEPT ![i].state = "resolved", ![i].result = r]
    /\ UNCHANGED <<active, open, timer, refs>>

\* In the main thread again.  A name without data is no error: the callback gets null and
\* no address.
AfterResolve(i) ==
    LET r == req[i].result IN
    /\ req[i].state = "resolved"
    /\ refs' = refs - 1
    /\ req' = DnsCall(req, i, IF r.error = "NODATA" THEN Fine(<<>>) ELSE r, 4)
    /\ UNCHANGED <<active, open, timer>>

-----------------------------------------------------------------------------
DnsNext ==
    \/ \E i \in Req :
         \/ \E k \in RecordType : Query(i, k)
         \/ \E k \in LookupKind : GetHostByName(i, k)
         \/ GetHostByAddr(i) \/ IsIP(i) \/ GetAddrInfo(i) \/ Resolve(i) \/ AfterResolve(i)
    \/ \E s \in {"udp", "tcp"} : OnReadable(s)
    \/ TimerCallback

DnsSpec == DnsInit /\ [][DnsNext]_dnsVars

-----------------------------------------------------------------------------
DnsTypeOK ==
    /\ active \subseteq {"udp", "tcp"} /\ open \subseteq {"udp", "tcp"}
    /\ \A i \in Req : req[i].sent \in 0..Tries

\* A request calls back once, when it is done: not for each of the queries of a lookup, nor
\* for an answer after a timeout.
CalledOnce == \A i \in Req : req[i].calls = IF req[i].state = "done" THEN 1 ELSE 0

\* While a query waits its socket is watched and the timer runs; when none waits, neither
\* keeps the loop.
QueriesAreTimed == timer = (DnsPending(req) # {}) /\ active = open

\* A lookup that succeeded tells the family it asked for last, and one that failed asked for
\* each family it may.
LookupTellsFamily ==
    \A i \in Req : req[i].state = "done" /\ req[i].kind = "lookup" =>
        \/ req[i].result.error = "none" /\ req[i].family \in {4, 6}
        \/ req[i].result.error # "none" /\ req[i].stage = 6

\* The loop is kept for each request that is in the pool.
PoolKeepsLoop == refs = Cardinality({i \in Req : req[i].state \in {"pool", "resolved"}})

\* Every request is answered, whatever the network loses.
DnsAnswers == \A i \in Req : req[i].state # "new" ~> req[i].state = "done"

\* The resolver: every query calls back at most once, with the family of its address, and
\* the timer and the loop wait exactly as long as a query is out.
DnsSafe ==
    /\ DnsTypeOK
    /\ CalledOnce
    /\ QueriesAreTimed
    /\ LookupTellsFamily
    /\ PoolKeepsLoop
=============================================================================
