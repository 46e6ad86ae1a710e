--------------------------- MODULE NodeNetProofs ---------------------------
(***************************************************************************)
(* Node's resolver, datagram sockets, listening sockets, secure contexts,  *)
(* digests and secure pairs, for any number of requests, sockets, clients, *)
(* calls and writes.                                                       *)
(***************************************************************************)
EXTENDS NodeDns, NodeDatagram, NodeServer, NodeSecureContext, NodeDigests, NodeTls,
        FiniteSetTheorems, SequenceTheorems, TLAPS

-----------------------------------------------------------------------------
(* Names                                                                   *)

RequestKind == RecordType \cup LookupKind \cup {"none"}

\* What a callback may be told: what the parsers make of a reply, an address, nothing, or
\* an error.
DnsResult ==
    {QueryCb(k, r) : k \in RequestKind, r \in Reply} \cup {Fine(<<>>), Fine(<<"h1">>)}
      \cup {Error(e) : e \in {"EBADNAME", "ETIMEOUT", "NODATA", "FAIL"}}

DnsRequest ==
    [kind : RequestKind, state : {"new", "sent", "pool", "resolved", "done"}, stage : {0, 4, 6},
     sock : {"udp", "tcp"}, sent : 0..Tries, calls : 0..1, result : DnsResult, family : {0, 4, 6}]

\* A request in the pool is the lookup of a .local name; a lookup that is out asks for a
\* family.
RequestOK(q) ==
    /\ q.calls = IF q.state = "done" THEN 1 ELSE 0
    /\ q.state = "sent" /\ q.kind = "lookup" => q.stage \in {4, 6}
    /\ q.state \in {"pool", "resolved"} => q.kind = "local"
    /\ q.state = "done" /\ q.kind = "lookup" =>
         \/ q.result.error = "none" /\ q.family \in {4, 6}
         \/ q.result.error # "none" /\ q.stage = 6

InPool == {i \in Req : req[i].state \in {"pool", "resolved"}}

\* The inductive invariant: the sockets that are open and watched are those of the
\* queries that are out, and finitely many requests are in the pool.
DnsInv ==
    /\ req \in [Req -> DnsRequest]
    /\ \A i \in Req : RequestOK(req[i])
    /\ open = Sockets(req) /\ active = Sockets(req)
    /\ timer = (DnsPending(req) # {})
    /\ IsFiniteSet(InPool) /\ refs = Cardinality(InPool)

\* A query that is out has a socket.
LEMMA SocketsOfPending ==
    ASSUME NEW r PROVE Sockets(r) # {} <=> DnsPending(r) # {}
BY DEF Sockets

\* The sockets depend on the queries that are out only.
LEMMA SameSockets ==
    ASSUME NEW r, NEW s,
           \A i \in Req : /\ (r[i].state = "sent") <=> (s[i].state = "sent")
                          /\ r[i].state = "sent" => r[i].sock = s[i].sock
    PROVE  Sockets(s) = Sockets(r) /\ DnsPending(s) = DnsPending(r)
<1>1. DnsPending(s) = DnsPending(r)
  BY DEF DnsPending
<1>2. \A i \in DnsPending(r) : r[i].sock = s[i].sock
  BY DEF DnsPending
<1> QED BY <1>1, <1>2 DEF Sockets

\* A step of c-ares: request i becomes q, the sockets follow, and the timer with them.
LEMMA ChannelKeeps ==
    ASSUME DnsInv, NEW i \in Req, NEW q \in DnsRequest, RequestOK(q),
           q.state \notin {"pool", "resolved"}, req[i].state \notin {"pool", "resolved"},
           Channel([req EXCEPT ![i] = q]), UpdateTimer, UNCHANGED refs
    PROVE  DnsInv'
<1>1. req' = [req EXCEPT ![i] = q] /\ open' = Sockets(req') /\ active' = Sockets(req')
  BY DEF Channel, SockStateCb
<1>2. req' \in [Req -> DnsRequest] /\ \A j \in Req : RequestOK(req'[j])
  BY <1>1 DEF DnsInv
<1>3. InPool' = InPool
  BY <1>1 DEF InPool, DnsInv
<1>4. timer' = (DnsPending(req') # {})
  BY <1>1, SocketsOfPending DEF UpdateTimer
<1> QED BY <1>1, <1>2, <1>3, <1>4 DEF DnsInv

\* A step that c-ares has no part in.
LEMMA NoChannelKeeps ==
    ASSUME DnsInv, NEW i \in Req, NEW q \in DnsRequest, RequestOK(q),
           q.state # "sent", req[i].state # "sent",
           req' = [req EXCEPT ![i] = q], UNCHANGED <<active, open, timer>>,
           IsFiniteSet(InPool'), refs' = Cardinality(InPool')
    PROVE  DnsInv'
<1>1. req' \in [Req -> DnsRequest] /\ \A j \in Req : RequestOK(req'[j])
  BY DEF DnsInv
<1>2. \A j \in Req : /\ (req[j].state = "sent") <=> (req'[j].state = "sent")
                     /\ req[j].state = "sent" => req[j].sock = req'[j].sock
  BY DEF DnsInv
<1>3. Sockets(req') = Sockets(req) /\ DnsPending(req') = DnsPending(req)
  BY <1>2, SameSockets
<1> QED BY <1>1, <1>3 DEF DnsInv

\* The callback of JavaScript changes one request.
Called(p, res, f) == [p EXCEPT !.state = "done", !.calls = @ + 1, !.result = res, !.family = f]

\* DnsCall changes the request it answers to that and no other.
LEMMA DnsCallEffect ==
    ASSUME NEW r \in [Req -> DnsRequest], NEW i \in Req, NEW res, NEW f
    PROVE  DnsCall(r, i, res, f) = [r EXCEPT ![i] = Called(r[i], res, f)]
<1>1. PICK s : s = DnsCall(r, i, res, f)
  OBVIOUS
<1>2. s = [r EXCEPT ![i] = Called(r[i], res, f)]
  BY <1>1 DEF DnsCall, DnsRequest, Called
<1> QED BY <1>1, <1>2

\* A called request is well-formed if it had not been called and a lookup tells what it
\* must.
LEMMA CalledIsOK ==
    ASSUME NEW p \in DnsRequest, p.calls = 0, NEW res \in DnsResult, NEW f \in {0, 4, 6},
           p.kind = "lookup" => \/ res.error = "none" /\ f \in {4, 6}
                                \/ res.error # "none" /\ p.stage = 6
    PROVE  /\ Called(p, res, f) \in DnsRequest /\ RequestOK(Called(p, res, f))
           /\ Called(p, res, f).state = "done"
<1> DEFINE q == Called(p, res, f)
<1>1. p.calls + 1 = 1 /\ 1 \in 0..1
  OBVIOUS
<1>2. q = [p EXCEPT !.state = "done", !.calls = 1, !.result = res, !.family = f]
  BY <1>1 DEF Called
<1>3. q \in DnsRequest
  BY <1>1, <1>2 DEF DnsRequest
<1>4. /\ q.calls = 1 /\ q.state = "done" /\ q.result = res /\ q.family = f
      /\ q.kind = p.kind /\ q.stage = p.stage
  BY <1>2 DEF DnsRequest
<1>5. RequestOK(q)
  <2> HIDE DEF q
  <2> QED BY <1>4 DEF RequestOK
<1> QED BY <1>3, <1>4, <1>5

\* When c-ares is done with a query, the request is done, or a lookup asks for IPv6.
LEMMA FinishEffect ==
    ASSUME DnsInv, NEW i \in DnsPending(req), NEW res \in DnsResult
    PROVE  \E q \in DnsRequest : /\ RequestOK(q) /\ q.state \in {"sent", "done"}
                                 /\ Finish(req, i, res) = [req EXCEPT ![i] = q]
<1> DEFINE p == req[i]
           done(f) == Called(p, res, f)
           again == [p EXCEPT !.stage = 6, !.sent = 1, !.sock = "udp"]
<1>1. i \in Req /\ p \in DnsRequest /\ p.state = "sent" /\ RequestOK(p)
      /\ req \in [Req -> DnsRequest]
  BY DEF DnsInv, DnsPending
<1>2. p.calls = 0 /\ (p.kind = "lookup" => p.stage \in {4, 6}) /\ p.stage \in {0, 4, 6}
  BY <1>1 DEF RequestOK, DnsRequest
<1>3. \A f : DnsCall(req, i, res, f) = [req EXCEPT ![i] = done(f)]
  BY <1>1, DnsCallEffect
<1>4. ASSUME NEW f \in {0, 4, 6}, Finish(req, i, res) = DnsCall(req, i, res, f),
             p.kind = "lookup" => \/ res.error = "none" /\ f \in {4, 6}
                                  \/ res.error # "none" /\ p.stage = 6
      PROVE  \E q \in DnsRequest : /\ RequestOK(q) /\ q.state \in {"sent", "done"}
                                   /\ Finish(req, i, res) = [req EXCEPT ![i] = q]
  <2>1. done(f) \in DnsRequest /\ RequestOK(done(f)) /\ done(f).state = "done"
    BY <1>1, <1>2, <1>4, CalledIsOK
  <2> HIDE DEF done
  <2> QED BY <1>3, <1>4, <2>1
<1>5. CASE p.kind \notin LookupKind
  <2>1. Finish(req, i, res) = DnsCall(req, i, res, 0) /\ p.kind # "lookup"
    BY <1>5 DEF Finish, LookupKind
  <2> QED BY <1>4, <2>1
<1>6. CASE p.kind \in LookupKind
  <2>1. Finish(req, i, res) = AfterLookup(req, i, res)
    BY <1>6 DEF Finish
  <2>2. CASE p.kind \in {"lookup4", "lookup6"}
    <3>1. \E f \in {0, 4, 6} : Finish(req, i, res) = DnsCall(req, i, res, f)
      BY <2>1, <2>2 DEF AfterLookup
    <3> QED BY <1>4, <2>2, <3>1
  <2>3. CASE p.kind \notin {"lookup4", "lookup6"} /\ res.error = "none"
    <3>1. Finish(req, i, res) = DnsCall(req, i, res, p.stage)
      BY <2>1, <2>3 DEF AfterLookup
    <3> QED BY <1>2, <1>4, <2>3, <3>1
  <2>4. CASE p.kind \notin {"lookup4", "lookup6"} /\ res.error # "none" /\ p.stage # 4
    <3>1. Finish(req, i, res) = DnsCall(req, i, res, 0)
      BY <2>1, <2>4 DEF AfterLookup
    <3> QED BY <1>2, <1>4, <2>4, <3>1
  <2>5. CASE p.kind \notin {"lookup4", "lookup6"} /\ res.error # "none" /\ p.stage = 4
    <3>1. Finish(req, i, res) = [req EXCEPT ![i].stage = 6, ![i].sent = 1, ![i].sock = "udp"]
      BY <2>1, <2>5 DEF AfterLookup
    <3>2. Finish(req, i, res) = [req EXCEPT ![i] = again]
      BY <1>1, <3>1 DEF DnsRequest
    <3>3. again \in DnsRequest /\ RequestOK(again) /\ again.state = "sent"
      <4>1. 1 \in 0..Tries
        BY DnsAssumption
      <4>2. again \in DnsRequest
        BY <1>1, <4>1 DEF DnsRequest
      <4>3. again.calls = 0 /\ again.state = "sent" /\ again.stage = 6
        BY <1>1, <1>2 DEF DnsRequest
      <4> HIDE DEF again
      <4> QED BY <4>2, <4>3 DEF RequestOK
    <3> HIDE DEF again
    <3> QED BY <3>2, <3>3
  <2> QED BY <2>2, <2>3, <2>4, <2>5
<1> QED BY <1>5, <1>6

\* A new query, which starts the timer unless a socket is watched already.
LEMMA QueryKeeps ==
    ASSUME DnsInv, NEW i \in Req, req[i].state = "new",
           NEW q \in DnsRequest, RequestOK(q), q.state = "sent",
           Channel([req EXCEPT ![i] = q]),
           IF "udp" \in open THEN UNCHANGED timer ELSE UpdateTimer,
           UNCHANGED refs
    PROVE  DnsInv'
<1>2. req' = [req EXCEPT ![i] = q] /\ active' = Sockets(req')
  BY DEF Channel, SockStateCb
<1>3. UpdateTimer
  <2>1. CASE "udp" \notin open
    BY <2>1
  <2>2. CASE "udp" \in open
    <3>1. Sockets(req) # {}
      BY <2>2 DEF DnsInv
    <3>2. timer = TRUE
      BY <3>1, SocketsOfPending DEF DnsInv
    <3>3. i \in DnsPending(req')
      BY <1>2 DEF DnsPending, DnsInv
    <3>4. Sockets(req') # {}
      BY <3>3, SocketsOfPending
    <3> QED BY <1>2, <2>2, <3>2, <3>4 DEF UpdateTimer
  <2> QED BY <2>1, <2>2
<1> QED BY <1>3, ChannelKeeps

\* A request leaves the pool or enters it.
LEMMA PoolChanges ==
    ASSUME DnsInv, NEW i \in Req, NEW q, req' = [req EXCEPT ![i] = q]
    PROVE  /\ q.state \in {"pool", "resolved"} => InPool' = InPool \cup {i}
           /\ q.state \notin {"pool", "resolved"} => InPool' = InPool \ {i}
BY DEF InPool, DnsInv

\* Every step keeps DnsInv.
LEMMA DnsStep == DnsInv /\ [DnsNext]_dnsVars => DnsInv'
<1> SUFFICES ASSUME DnsInv, [DnsNext]_dnsVars PROVE DnsInv'
  OBVIOUS
<1>0. /\ req \in [Req -> DnsRequest] /\ \A i \in Req : req[i] \in DnsRequest /\ RequestOK(req[i])
      /\ IsFiniteSet(InPool) /\ refs = Cardinality(InPool)
  BY DEF DnsInv
<1>1. ASSUME NEW i \in Req, NEW kind \in RecordType, Query(i, kind) PROVE DnsInv'
  <2> DEFINE s == [req EXCEPT ![i].kind = kind, ![i].state = "sent", ![i].sent = 1]
             p == req[i]
             q == [p EXCEPT !.kind = kind, !.state = "sent", !.sent = 1]
  <2>1. /\ p.state = "new" /\ p.calls = 0 /\ p \in DnsRequest /\ kind \in RequestKind
        /\ kind # "lookup" /\ p.stage \in {0, 4, 6} /\ UNCHANGED refs
    BY <1>0, <1>1 DEF Query, RequestOK, DnsRequest, RequestKind, RecordType
  <2>2. s = [req EXCEPT ![i] = q]
    BY <1>0 DEF DnsRequest
  <2>3. q \in DnsRequest /\ RequestOK(q) /\ q.calls = 0 /\ q.kind # "lookup" /\ q.state = "sent"
    <3>1. 1 \in 0..Tries
      BY DnsAssumption
    <3>2. q \in DnsRequest
      BY <2>1, <3>1 DEF DnsRequest
    <3>3. q.calls = 0 /\ q.state = "sent" /\ q.kind = kind
      BY <2>1 DEF DnsRequest
    <3> HIDE DEF q
    <3> QED BY <2>1, <3>2, <3>3 DEF RequestOK
  <2>4. CASE Channel(s) /\ IF "udp" \in open THEN UNCHANGED timer ELSE UpdateTimer
    <3> HIDE DEF s, q
    <3>1. Channel([req EXCEPT ![i] = q])
      BY <2>2, <2>4
    <3> QED BY <2>1, <2>3, <2>4, <3>1, QueryKeeps
  <2>5. CASE req' = DnsCall(s, i, ResolveError("EBADNAME"), 0) /\ UNCHANGED <<active, open, timer>>
    <3> HIDE DEF s, q
    <3>1. s \in [Req -> DnsRequest] /\ s[i] = q
      BY <1>0, <2>2, <2>3
    <3>2. ResolveError("EBADNAME") \in DnsResult
      BY DEF ResolveError, DnsResult
    <3> DEFINE d == Called(q, ResolveError("EBADNAME"), 0)
    <3>3. req' = [s EXCEPT ![i] = d]
      BY <2>5, <3>1, DnsCallEffect
    <3>4. d \in DnsRequest /\ RequestOK(d) /\ d.state = "done"
      BY <2>3, <3>2, CalledIsOK
    <3> HIDE DEF d
    <3>5. req' = [req EXCEPT ![i] = d]
      BY <1>0, <2>2, <3>3
    <3>6. InPool' = InPool
      BY <2>1, <3>4, <3>5, PoolChanges DEF InPool
    <3> QED BY <1>0, <2>1, <2>5, <3>4, <3>5, <3>6, NoChannelKeeps
  <2> QED BY <1>1, <2>4, <2>5 DEF Query
<1>2. ASSUME NEW i \in Req, NEW kind, GetHostByName(i, kind) PROVE DnsInv'
  <2> DEFINE stage == IF kind = "lookup6" THEN 6 ELSE 4
             s == [req EXCEPT ![i].kind = kind, ![i].state = "sent", ![i].sent = 1,
                              ![i].stage = stage]
             p == req[i]
             q == [p EXCEPT !.kind = kind, !.state = "sent", !.sent = 1, !.stage = stage]
  <2>1. /\ p.state = "new" /\ p.calls = 0 /\ p \in DnsRequest /\ kind \in RequestKind
        /\ stage \in {0, 4, 6} /\ stage \in {4, 6} /\ UNCHANGED refs
    BY <1>0, <1>2 DEF GetHostByName, RequestOK, RequestKind, LookupKind
  <2>2. Channel(s) /\ IF "udp" \in open THEN UNCHANGED timer ELSE UpdateTimer
    BY <1>2 DEF GetHostByName
  <2> HIDE DEF stage
  <2>3. s = [req EXCEPT ![i] = q]
    BY <1>0 DEF DnsRequest
  <2>4. q \in DnsRequest /\ RequestOK(q) /\ q.state = "sent"
    <3>1. 1 \in 0..Tries
      BY DnsAssumption
    <3>2. q \in DnsRequest
      BY <2>1, <3>1 DEF DnsRequest
    <3>3. q.calls = 0 /\ q.state = "sent" /\ q.kind = kind /\ q.stage = stage
      BY <2>1 DEF DnsRequest
    <3> HIDE DEF q
    <3> QED BY <2>1, <3>2, <3>3 DEF RequestOK
  <2> HIDE DEF s, q
  <2>5. Channel([req EXCEPT ![i] = q])
    BY <2>2, <2>3
  <2> QED BY <2>1, <2>2, <2>4, <2>5, QueryKeeps
<1>3. ASSUME NEW i \in Req, GetHostByAddr(i) PROVE DnsInv'
  <2> DEFINE s == [req EXCEPT ![i].kind = "PTR", ![i].state = "sent", ![i].sent = 1]
             p == req[i]
             q == [p EXCEPT !.kind = "PTR", !.state = "sent", !.sent = 1]
  <2>1. /\ p.state = "new" /\ p.calls = 0 /\ p \in DnsRequest /\ "PTR" \in RequestKind
        /\ UNCHANGED refs
        /\ Channel(s) /\ IF "udp" \in open THEN UNCHANGED timer ELSE UpdateTimer
    BY <1>0, <1>3 DEF GetHostByAddr, RequestOK, RequestKind, RecordType, DnsRequest
  <2>2. s = [req EXCEPT ![i] = q]
    BY <1>0 DEF DnsRequest
  <2>3. q \in DnsRequest /\ RequestOK(q) /\ q.state = "sent"
    <3>1. 1 \in 0..Tries
      BY DnsAssumption
    <3>2. q \in DnsRequest
      BY <2>1, <3>1 DEF DnsRequest
    <3>3. q.calls = 0 /\ q.state = "sent" /\ q.kind = "PTR"
      BY <2>1 DEF DnsRequest
    <3> HIDE DEF q
    <3> QED BY <2>1, <3>2, <3>3 DEF RequestOK
  <2> HIDE DEF s, q
  <2>4. Channel([req EXCEPT ![i] = q])
    BY <2>1, <2>2
  <2> QED BY <2>1, <2>3, <2>4, QueryKeeps
<1>4. ASSUME NEW i \in Req, IsIP(i) PROVE DnsInv'
  <2> DEFINE s == [req EXCEPT ![i].kind = "lookup"]
             p == req[i]
             q == [p EXCEPT !.kind = "lookup"]
             d(f) == Called(q, Fine(<<"h1">>), f)
  <2>1. p.state = "new" /\ p.calls = 0 /\ p \in DnsRequest /\ UNCHANGED <<active, open, timer, refs>>
    BY <1>0, <1>4 DEF IsIP, RequestOK
  <2>2. PICK f \in {4, 6} : req' = DnsCall(s, i, Fine(<<"h1">>), f)
    BY <1>4 DEF IsIP
  <2>3. s = [req EXCEPT ![i] = q]
    BY <1>0 DEF DnsRequest
  <2>4. q \in DnsRequest /\ q.calls = 0
    BY <2>1 DEF DnsRequest, RequestKind, LookupKind
  <2> HIDE DEF s, q
  <2>5. s \in [Req -> DnsRequest] /\ s[i] = q
    BY <1>0, <2>3, <2>4
  <2>6. Fine(<<"h1">>) \in DnsResult /\ Fine(<<"h1">>).error = "none" /\ f \in {0, 4, 6}
    BY DEF DnsResult, Fine
  <2>7. req' = [s EXCEPT ![i] = d(f)]
    <3>1. \A res : DnsCall(s, i, res, f) = [s EXCEPT ![i] = Called(s[i], res, f)]
      BY <2>5, DnsCallEffect
    <3> QED BY <2>2, <2>5, <3>1
  <2>8. d(f) \in DnsRequest /\ RequestOK(d(f)) /\ d(f).state = "done"
    BY <2>4, <2>6, CalledIsOK
  <2> HIDE DEF d
  <2>9. req' = [req EXCEPT ![i] = d(f)]
    BY <1>0, <2>3, <2>7
  <2>10. InPool' = InPool
    BY <2>1, <2>8, <2>9, PoolChanges DEF InPool
  <2> QED BY <1>0, <2>1, <2>8, <2>9, <2>10, NoChannelKeeps
<1>5. ASSUME NEW i \in Req, GetAddrInfo(i) PROVE DnsInv'
  <2> DEFINE p == req[i]
             q == [p EXCEPT !.kind = "local", !.state = "pool"]
  <2>1. p.state = "new" /\ p.calls = 0 /\ p \in DnsRequest
        /\ UNCHANGED <<active, open, timer>> /\ refs' = refs + 1
    BY <1>0, <1>5 DEF GetAddrInfo, RequestOK
  <2>2. req' = [req EXCEPT ![i] = q]
    BY <1>0, <1>5 DEF GetAddrInfo, DnsRequest
  <2>3. q \in DnsRequest /\ RequestOK(q) /\ q.state = "pool"
    BY <2>1 DEF DnsRequest, RequestOK, RequestKind, LookupKind
  <2> HIDE DEF q
  <2>4. InPool' = InPool \cup {i} /\ i \notin InPool
    BY <2>1, <2>2, <2>3, PoolChanges DEF InPool
  <2>5. IsFiniteSet(InPool') /\ Cardinality(InPool') = Cardinality(InPool) + 1
    BY <1>0, <2>4, FS_AddElement
  <2> QED BY <1>0, <2>1, <2>2, <2>3, <2>5, NoChannelKeeps
<1>6. ASSUME NEW i \in Req, Resolve(i) PROVE DnsInv'
  <2> DEFINE p == req[i]
             q(r) == [p EXCEPT !.state = "resolved", !.result = r]
  <2>1. p.state = "pool" /\ p \in DnsRequest /\ RequestOK(p) /\ UNCHANGED <<active, open, timer, refs>>
    BY <1>0, <1>6 DEF Resolve
  <2>2. PICK r \in {Error("NODATA"), Error("FAIL"), Fine(<<"h1">>)} :
          req' = [req EXCEPT ![i].state = "resolved", ![i].result = r]
    BY <1>6 DEF Resolve
  <2>3. r \in DnsResult
    BY <2>2 DEF DnsResult
  <2>4. req' = [req EXCEPT ![i] = q(r)]
    BY <1>0, <2>2 DEF DnsRequest
  <2>5. q(r) \in DnsRequest /\ RequestOK(q(r)) /\ q(r).state = "resolved"
    BY <2>1, <2>3 DEF DnsRequest, RequestOK
  <2> HIDE DEF q
  <2>6. InPool' = InPool
    BY <2>1, <2>4, <2>5, PoolChanges DEF InPool
  <2> QED BY <1>0, <2>1, <2>4, <2>5, <2>6, NoChannelKeeps
<1>7. ASSUME NEW i \in Req, AfterResolve(i) PROVE DnsInv'
  <2> DEFINE p == req[i]
             res == IF p.result.error = "NODATA" THEN Fine(<<>>) ELSE p.result
             q == Called(p, res, 4)
  <2>1. /\ p.state = "resolved" /\ p \in DnsRequest /\ p.calls = 0 /\ p.kind # "lookup"
        /\ UNCHANGED <<active, open, timer>> /\ refs' = refs - 1
    BY <1>0, <1>7 DEF AfterResolve, RequestOK
  <2>2. res \in DnsResult
    BY <2>1 DEF DnsResult, DnsRequest
  <2>3. req' = DnsCall(req, i, res, 4)
    BY <1>7 DEF AfterResolve
  <2> HIDE DEF res
  <2>4. req' = [req EXCEPT ![i] = q]
    BY <1>0, <2>3, DnsCallEffect
  <2>5. q \in DnsRequest /\ RequestOK(q) /\ q.state = "done"
    BY <2>1, <2>2, CalledIsOK
  <2> HIDE DEF q
  <2>6. InPool' = InPool \ {i} /\ i \in InPool
    BY <2>1, <2>4, <2>5, PoolChanges DEF InPool
  <2>7. IsFiniteSet(InPool') /\ Cardinality(InPool') = Cardinality(InPool) - 1
    BY <1>0, <2>6, FS_RemoveElement
  <2> QED BY <1>0, <2>1, <2>4, <2>5, <2>7, NoChannelKeeps
<1>8. ASSUME NEW s \in {"udp", "tcp"}, OnReadable(s) PROVE DnsInv'
  <2>1. UpdateTimer /\ UNCHANGED refs
    BY <1>8 DEF OnReadable
  <2>2. PICK i \in DnsPending(req) :
          \/ \E r \in Reply : Channel(Finish(req, i, QueryCb(req[i].kind, r)))
          \/ s = "udp" /\ Channel([req EXCEPT ![i].sock = "tcp"])
    BY <1>8 DEF OnReadable, ProcessFD
  <2>3. i \in Req /\ req[i].state = "sent" /\ req[i] \in DnsRequest /\ RequestOK(req[i])
    BY <1>0 DEF DnsPending
  <2>4. ASSUME NEW r \in Reply, Channel(Finish(req, i, QueryCb(req[i].kind, r))) PROVE DnsInv'
    <3>1. QueryCb(req[i].kind, r) \in DnsResult
      BY <2>3 DEF DnsResult, DnsRequest
    <3>2. PICK q \in DnsRequest : /\ RequestOK(q) /\ q.state \in {"sent", "done"}
                                  /\ Finish(req, i, QueryCb(req[i].kind, r)) = [req EXCEPT ![i] = q]
      BY <3>1, FinishEffect
    <3>3. Channel([req EXCEPT ![i] = q])
      BY <2>4, <3>2
    <3> QED BY <2>1, <2>3, <3>2, <3>3, ChannelKeeps
  <2>5. ASSUME Channel([req EXCEPT ![i].sock = "tcp"]) PROVE DnsInv'
    <3> DEFINE p == req[i]
               q == [p EXCEPT !.sock = "tcp"]
    <3>1. PICK x : x = [req EXCEPT ![i].sock = "tcp"]
      OBVIOUS
    <3>2. x = [req EXCEPT ![i] = q]
      BY <1>0, <2>3, <3>1 DEF DnsRequest
    <3>3. q \in DnsRequest /\ RequestOK(q) /\ q.state = "sent"
      BY <2>3 DEF DnsRequest, RequestOK
    <3> HIDE DEF q
    <3>4. Channel([req EXCEPT ![i] = q])
      BY <2>5, <3>1, <3>2
    <3> QED BY <2>1, <2>3, <3>3, <3>4, ChannelKeeps
  <2> QED BY <2>2, <2>4, <2>5
<1>9. CASE TimerCallback
  <2>1. UpdateTimer /\ UNCHANGED refs
    BY <1>9 DEF TimerCallback
  <2>2. PICK i \in DnsPending(req) : Channel(TimedOut(req, i))
    BY <1>9 DEF TimerCallback
  <2>3. i \in Req /\ req[i].state = "sent" /\ req[i] \in DnsRequest /\ RequestOK(req[i])
    BY <1>0 DEF DnsPending
  <2>4. \E q \in DnsRequest : /\ RequestOK(q) /\ q.state \in {"sent", "done"}
                              /\ TimedOut(req, i) = [req EXCEPT ![i] = q]
    <3>1. CASE req[i].sent < Tries
      <4> DEFINE p == req[i]
                 q == [p EXCEPT !.sent = p.sent + 1]
      <4>1. PICK x : x = TimedOut(req, i)
        OBVIOUS
      <4>2. x = [req EXCEPT ![i].sent = p.sent + 1]
        BY <1>0, <2>3, <3>1, <4>1 DEF TimedOut
      <4>3. x = [req EXCEPT ![i] = q]
        BY <1>0, <2>3, <4>2 DEF DnsRequest
      <4>4. q \in DnsRequest /\ RequestOK(q) /\ q.state = "sent"
        BY <2>3, <3>1, DnsAssumption DEF DnsRequest, RequestOK
      <4> HIDE DEF q
      <4> QED BY <4>1, <4>3, <4>4
    <3>2. CASE ~(req[i].sent < Tries)
      <4>1. TimedOut(req, i) = Finish(req, i, ResolveError("ETIMEOUT"))
        BY <3>2 DEF TimedOut
      <4>2. ResolveError("ETIMEOUT") \in DnsResult
        BY DEF ResolveError, DnsResult
      <4> QED BY <4>1, <4>2, FinishEffect
    <3> QED BY <3>1, <3>2
  <2>5. PICK q \in DnsRequest : /\ RequestOK(q) /\ q.state \in {"sent", "done"}
                                /\ TimedOut(req, i) = [req EXCEPT ![i] = q]
    BY <2>4
  <2>6. Channel([req EXCEPT ![i] = q])
    BY <2>2, <2>5
  <2> QED BY <2>1, <2>3, <2>5, <2>6, ChannelKeeps
<1>10. CASE UNCHANGED dnsVars
  BY <1>10 DEF dnsVars, DnsInv, InPool, Sockets, DnsPending
<1> QED
  BY <1>1, <1>2, <1>3, <1>4, <1>5, <1>6, <1>7, <1>8, <1>9, <1>10 DEF DnsNext

\* For any requests, answers, truncations and timeouts: each request calls back once, a
\* lookup tells the family of its address, and the timer, the watched sockets and the
\* references of the loop are there exactly as long as a query is out.
THEOREM DnsIsSafe == DnsSpec => []DnsSafe
<1>1. DnsInit => DnsInv
  <2> SUFFICES ASSUME DnsInit PROVE DnsInv
    OBVIOUS
  <2>1. NewReq \in DnsRequest /\ RequestOK(NewReq) /\ NewReq.state = "new"
    BY DnsAssumption DEF NewReq, DnsRequest, RequestOK, RequestKind, DnsResult
  <2>2. DnsPending(req) = {} /\ InPool = {}
    BY <2>1 DEF DnsInit, DnsPending, InPool
  <2>3. Sockets(req) = {}
    BY <2>2 DEF Sockets
  <2> QED BY <2>1, <2>2, <2>3, FS_EmptySet DEF DnsInit, DnsInv
<1>2. DnsInv => DnsSafe
  <2> SUFFICES ASSUME DnsInv PROVE DnsSafe
    OBVIOUS
  <2>1. Sockets(req) \subseteq {"udp", "tcp"}
    BY DEF DnsInv, Sockets, DnsPending, DnsRequest
  <2>2. \A i \in Req : req[i].sent \in 0..Tries /\ RequestOK(req[i])
    BY DEF DnsInv, DnsRequest
  <2> QED
    BY <2>1, <2>2
    DEF DnsInv, DnsSafe, DnsTypeOK, CalledOnce, QueriesAreTimed, LookupTellsFamily,
        PoolKeepsLoop, RequestOK, InPool
<1> QED BY <1>1, <1>2, DnsStep, PTL DEF DnsSpec

-----------------------------------------------------------------------------
(* Datagrams                                                               *)

DgramRecord ==
    [type : {"udp", "unix_dgram"}, fd : BOOLEAN, watcher : BOOLEAN,
     broadcast : BOOLEAN, wantsBroadcast : BOOLEAN, loopback : BOOLEAN, wantsLoopback : BOOLEAN,
     ttl : 1..255, multicastTTL : 0..255, groups : SUBSET {"group", "host"}]

SocketsOK ==
    /\ dgram \in [Dgram -> DgramRecord]
    /\ \A s \in Dgram : ~dgram[s].fd => ~dgram[s].watcher /\ dgram[s].groups = {}

\* Datagrams are numbered sends to sockets that are open.
NetOK ==
    /\ net \subseteq Nat \X Dgram
    /\ \A d \in net : dgram[d[2]].fd

\* The slices that count as used lie below the mark, and so below the next write.
PoolOK ==
    /\ pool \in [mem : [1..PoolSize -> Nat], used : 0..PoolSize]
    /\ slices \subseteq [at : 1..PoolSize, message : Nat, returned : BOOLEAN]
    /\ \A m \in slices : m.returned => m.at <= pool.used /\ pool.mem[m.at] = m.message

Waits(w, n) == \E s, to \in Dgram : <<"send", s, n, to>> \in w

\* A send waits for one lookup only, and has not called back then.
SendsOK ==
    /\ answers \in Seq({0, 1})
    /\ \A n \in DOMAIN answers : answers[n] = IF Waits(waiting, n) THEN 0 ELSE 1
    /\ \A n \in Nat : Waits(waiting, n) => n \in DOMAIN answers
    /\ \A n \in Nat, s, to, s2, to2 \in Dgram :
         <<"send", s, n, to>> \in waiting /\ <<"send", s2, n, to2>> \in waiting => s = s2 /\ to = to2

DatagramInv == SocketsOK /\ NetOK /\ PoolOK /\ SendsOK

\* What does not touch the sends leaves them as they are.
LEMMA OtherWaits ==
    ASSUME SendsOK, UNCHANGED answers,
           \A s, n, to : <<"send", s, n, to>> \in waiting' <=> <<"send", s, n, to>> \in waiting
    PROVE  SendsOK'
<1>1. \A n : Waits(waiting', n) <=> Waits(waiting, n)
  BY DEF Waits
<1> QED BY <1>1 DEF SendsOK

\* A send is not one of the other calls that wait.
LEMMA NotASend ==
    ASSUME NEW s, NEW n, NEW to, NEW a, NEW b
    PROVE  <<"send", s, n, to>> # <<"bind", a>> /\ <<"send", s, n, to>> # <<"add", a, b>>
           /\ <<"send", s, n, to>> # <<"drop", a, b>>
OBVIOUS

\* A datagram reaches an open socket only.
LEMMA PutsKeeps ==
    ASSUME SocketsOK, NetOK, NEW n \in Nat, NEW to \in Dgram, Puts(n, to), UNCHANGED dgram
    PROVE  NetOK'
BY DEF NetOK, Puts, SocketsOK

\* A new send that called back, or waits.
LEMMA NewSend ==
    ASSUME SendsOK, NEW s \in Dgram, NEW to \in Dgram, NEW n, n = Len(answers) + 1,
           \/ answers' = Append(answers, 1) /\ UNCHANGED waiting
           \/ answers' = Append(answers, 0) /\ waiting' = waiting \cup {<<"send", s, n, to>>}
    PROVE  SendsOK'
<1>1. answers \in Seq({0, 1}) /\ Len(answers) \in Nat /\ DOMAIN answers = 1..Len(answers) /\ n \in Nat
  BY DEF SendsOK
<1>2. n \notin DOMAIN answers /\ ~Waits(waiting, n)
  BY <1>1 DEF SendsOK
<1>3. /\ answers' \in Seq({0, 1}) /\ DOMAIN answers' = DOMAIN answers \cup {n}
      /\ \A m \in DOMAIN answers : answers'[m] = answers[m]
  <2>1. PICK v \in {0, 1} : answers' = Append(answers, v)
    OBVIOUS
  <2>2. answers' \in Seq({0, 1}) /\ Len(answers') = Len(answers) + 1
    BY <1>1, <2>1
  <2>3. DOMAIN answers' = 1..(Len(answers) + 1)
    BY <2>2
  <2>4. \A m \in 1..Len(answers) : answers'[m] = answers[m]
    BY <1>1, <2>1
  <2> QED BY <1>1, <2>2, <2>3, <2>4
<1>4. CASE answers' = Append(answers, 1) /\ UNCHANGED waiting
  <2>1. answers'[n] = 1
    BY <1>1, <1>4
  <2> QED BY <1>2, <1>3, <1>4, <2>1 DEF SendsOK
<1>5. CASE answers' = Append(answers, 0) /\ waiting' = waiting \cup {<<"send", s, n, to>>}
  <2>1. answers'[n] = 0 /\ Waits(waiting', n)
    BY <1>1, <1>5 DEF Waits
  <2>2. \A m : m # n => (Waits(waiting', m) <=> Waits(waiting, m))
    BY <1>5 DEF Waits
  <2>3. ASSUME NEW m \in Nat, NEW a \in Dgram, NEW b \in Dgram, NEW c \in Dgram, NEW d \in Dgram,
               <<"send", a, m, b>> \in waiting', <<"send", c, m, d>> \in waiting'
        PROVE  a = c /\ b = d
    <3>1. CASE m = n
      <4>1. <<"send", a, m, b>> \notin waiting /\ <<"send", c, m, d>> \notin waiting
        BY <1>2, <3>1 DEF Waits
      <4> QED BY <1>5, <2>3, <4>1
    <3>2. CASE m # n
      BY <1>5, <2>3, <3>2 DEF SendsOK
    <3> QED BY <3>1, <3>2
  <2> QED BY <1>2, <1>3, <2>1, <2>2, <2>3 DEF SendsOK
<1> QED BY <1>4, <1>5

\* A send that waited calls back.
LEMMA SendAnswers ==
    ASSUME SendsOK, NEW s \in Dgram, NEW to \in Dgram, NEW n \in DOMAIN answers,
           <<"send", s, n, to>> \in waiting, waiting' = waiting \ {<<"send", s, n, to>>},
           answers' = [answers EXCEPT ![n] = @ + 1]
    PROVE  SendsOK'
<1>1. answers \in Seq({0, 1}) /\ DOMAIN answers = 1..Len(answers) /\ n \in Nat
  BY DEF SendsOK
<1>2. Waits(waiting, n) /\ answers[n] = 0
  BY DEF Waits, SendsOK
<1>3. /\ answers' \in Seq({0, 1}) /\ DOMAIN answers' = DOMAIN answers /\ answers'[n] = 1
      /\ \A m \in DOMAIN answers : m # n => answers'[m] = answers[m]
  BY <1>1, <1>2
<1>4. ~Waits(waiting', n)
  BY <1>1 DEF Waits, SendsOK
<1>5. \A m : m # n => (Waits(waiting', m) <=> Waits(waiting, m))
  BY DEF Waits
<1> QED BY <1>3, <1>4, <1>5 DEF SendsOK

\* A change of one open socket's record.
LEMMA SocketChanges ==
    ASSUME SocketsOK, NetOK, NEW s \in Dgram, NEW q \in DgramRecord,
           dgram' = [dgram EXCEPT ![s] = q], q.fd = dgram[s].fd,
           ~q.fd => ~q.watcher /\ q.groups = {}, UNCHANGED net
    PROVE  SocketsOK' /\ NetOK'
<1>1. SocketsOK'
  BY DEF SocketsOK
<1>2. \A x \in Dgram : dgram'[x].fd = dgram[x].fd
  BY DEF SocketsOK
<1>3. NetOK'
  BY <1>2 DEF NetOK
<1> QED BY <1>1, <1>3

\* A message is written above the slices that listeners returned from.
LEMMA RecvKeeps ==
    ASSUME PoolOK, NEW s, NEW n \in Nat, NEW throws \in BOOLEAN, RecvFrom(s, n, throws)
    PROVE  PoolOK'
<1> DEFINE p == GetPool
           at == p.used + 1
           kept == IF p.used < pool.used /\ p = EmptyPool THEN {} ELSE slices
           u == IF throws THEN p.used ELSE p.used + 1
           x == [at |-> at, message |-> n, returned |-> ~throws]
<1>1. PoolSize \in Nat /\ PoolSize >= 1
  BY DatagramAssumption
<1>2. /\ pool.used \in 0..PoolSize /\ pool.mem \in [1..PoolSize -> Nat]
      /\ slices \subseteq [at : 1..PoolSize, message : Nat, returned : BOOLEAN]
      /\ \A m \in slices : m.returned => m.at <= pool.used /\ pool.mem[m.at] = m.message
  BY DEF PoolOK
<1>3. p.mem \in [1..PoolSize -> Nat] /\ p.used \in 0..PoolSize /\ p.used + 1 <= PoolSize
  BY <1>1, <1>2 DEF GetPool, EmptyPool
<1>4. kept \subseteq slices /\ \A m \in kept : m.returned => m.at <= p.used /\ p.mem[m.at] = m.message
  <2>1. CASE pool.used + 1 > PoolSize
    <3>1. p = EmptyPool /\ p.used = 0 /\ pool.used > 0
      BY <1>1, <1>2, <2>1 DEF GetPool, EmptyPool
    <3> QED BY <3>1
  <2>2. CASE ~(pool.used + 1 > PoolSize)
    <3>1. p = pool
      BY <2>2 DEF GetPool
    <3> QED BY <1>2, <3>1
  <2> QED BY <2>1, <2>2
<1>5. pool' = [mem |-> [p.mem EXCEPT ![at] = n], used |-> u] /\ slices' = kept \cup {x}
  BY DEF RecvFrom
<1> HIDE DEF p, kept
<1>6. /\ pool'.mem = [p.mem EXCEPT ![at] = n] /\ pool'.used = u
      /\ u \in 0..PoolSize /\ p.used <= u /\ (~throws => u = at) /\ at \in 1..PoolSize
  BY <1>3, <1>5
<1>7. pool' \in [mem : [1..PoolSize -> Nat], used : 0..PoolSize]
  BY <1>3, <1>5, <1>6
<1>8. x \in [at : 1..PoolSize, message : Nat, returned : BOOLEAN]
  BY <1>6
<1>9. ASSUME NEW m \in kept, m.returned PROVE m.at <= pool'.used /\ pool'.mem[m.at] = m.message
  <2>1. m.at \in 1..PoolSize /\ m.at <= p.used /\ p.mem[m.at] = m.message
    BY <1>2, <1>4, <1>9
  <2>2. m.at # at
    BY <1>3, <2>1
  <2> QED BY <1>3, <1>6, <2>1, <2>2
<1>10. ASSUME x.returned PROVE x.at <= pool'.used /\ pool'.mem[x.at] = x.message
  <2>1. x.at = at /\ x.message = n /\ ~throws
    BY <1>10
  <2>2. pool'.mem[at] = n /\ pool'.used = at
    BY <1>3, <1>6, <2>1
  <2>3. at <= at
    BY <1>6
  <2> QED BY <2>1, <2>2, <2>3
<1>11. slices' \subseteq [at : 1..PoolSize, message : Nat, returned : BOOLEAN]
  BY <1>2, <1>4, <1>5, <1>8
<1> HIDE DEF x
<1>12. \A m \in slices' : m.returned => m.at <= pool'.used /\ pool'.mem[m.at] = m.message
  BY <1>5, <1>9, <1>10
<1> QED BY <1>7, <1>11, <1>12 DEF PoolOK

\* Every step keeps DatagramInv.
LEMMA DatagramStep == DatagramInv /\ [DatagramNext]_datagramVars => DatagramInv'
<1> SUFFICES ASSUME DatagramInv, [DatagramNext]_datagramVars PROVE DatagramInv'
  OBVIOUS
<1>0. /\ SocketsOK /\ NetOK /\ PoolOK /\ SendsOK
      /\ dgram \in [Dgram -> DgramRecord] /\ \A s \in Dgram : dgram[s] \in DgramRecord
      /\ DOMAIN answers \subseteq Nat /\ Len(answers) + 1 \in Nat
  <2>1. /\ SocketsOK /\ NetOK /\ PoolOK /\ SendsOK
        /\ dgram \in [Dgram -> DgramRecord] /\ \A s \in Dgram : dgram[s] \in DgramRecord
        /\ answers \in Seq({0, 1})
    BY DEF DatagramInv, SocketsOK, SendsOK
  <2>2. DOMAIN answers = 1..Len(answers) /\ Len(answers) \in Nat
    BY <2>1
  <2> QED BY <2>1, <2>2
<1>1. ASSUME NEW s \in Dgram, NEW to \in Dgram, Send(s, to) PROVE DatagramInv'
  <2>1. NetOK'
    BY <1>0, <1>1, PutsKeeps DEF Send, NetOK
  <2>2. SendsOK'
    BY <1>0, <1>1, NewSend DEF Send
  <2> QED BY <1>0, <1>1, <2>1, <2>2 DEF Send, DatagramInv, SocketsOK, PoolOK
<1>2. ASSUME NEW s \in Dgram, NEW to \in Dgram, SendToHost(s, to) PROVE DatagramInv'
  <2>1. SendsOK'
    BY <1>0, <1>2, NewSend DEF SendToHost
  <2> QED BY <1>0, <1>2, <2>1 DEF SendToHost, DatagramInv, SocketsOK, PoolOK, NetOK
<1>3. ASSUME NEW s \in Dgram, NEW to \in Dgram, NEW n \in DOMAIN answers, SendLookedUp(s, n, to)
      PROVE  DatagramInv'
  <2>1. NetOK'
    BY <1>0, <1>3, PutsKeeps DEF SendLookedUp, SendTo, NetOK
  <2>2. SendsOK'
    BY <1>0, <1>3, SendAnswers DEF SendLookedUp, SendTo
  <2> QED BY <1>0, <1>3, <2>1, <2>2 DEF SendLookedUp, DatagramInv, SocketsOK, PoolOK
<1>4. ASSUME NEW s \in Dgram, NEW n \in DOMAIN answers, Lose(n, s) PROVE DatagramInv'
  <2>1. NetOK'
    BY <1>0, <1>4 DEF Lose, NetOK
  <2> QED BY <1>0, <1>4, <2>1 DEF Lose, DatagramInv, SocketsOK, PoolOK, SendsOK
<1>5. ASSUME NEW s \in Dgram, NEW n \in DOMAIN answers, NEW throws \in BOOLEAN, RecvFrom(s, n, throws)
      PROVE  DatagramInv'
  <2>1. NetOK' /\ SocketsOK' /\ SendsOK'
    BY <1>0, <1>5 DEF RecvFrom, NetOK, SocketsOK, SendsOK
  <2> QED BY <1>0, <1>5, <2>1, RecvKeeps DEF DatagramInv
<1>6. ASSUME NEW s \in Dgram, BindPath(s) PROVE DatagramInv'
  <2>1. SendsOK'
    BY <1>0, <1>6, OtherWaits, NotASend DEF BindPath
  <2> QED BY <1>0, <1>6, <2>1 DEF BindPath, DatagramInv, SocketsOK, PoolOK, NetOK
<1>7. ASSUME NEW s \in Dgram, Bound(s) PROVE DatagramInv'
  <2>1. SendsOK'
    BY <1>0, <1>7, OtherWaits, NotASend DEF Bound
  <2>2. PoolOK'
    BY <1>0, <1>7 DEF Bound, PoolOK
  <2>3. CASE UNCHANGED dgram
    BY <1>0, <1>7, <2>1, <2>2, <2>3 DEF Bound, DatagramInv, SocketsOK, NetOK
  <2>4. CASE dgram[s].fd /\ dgram' = [dgram EXCEPT ![s].watcher = TRUE]
    <3>0. PICK p \in DgramRecord : p = dgram[s]
      BY <1>0
    <3> DEFINE q == [p EXCEPT !.watcher = TRUE]
    <3>1. q \in DgramRecord /\ q.fd = p.fd
      BY DEF DgramRecord
    <3>2. dgram' = [dgram EXCEPT ![s] = q] /\ UNCHANGED net
      BY <1>0, <1>7, <2>4, <3>0 DEF DgramRecord, Bound
    <3> HIDE DEF q
    <3> QED BY <1>0, <2>1, <2>2, <2>4, <3>0, <3>1, <3>2, SocketChanges DEF DatagramInv
  <2> QED BY <1>7, <2>3, <2>4 DEF Bound
<1>8. ASSUME NEW s \in Dgram, DgramClose(s) PROVE DatagramInv'
  <2>0. PICK p \in DgramRecord : p = dgram[s]
    BY <1>0
  <2> DEFINE q == [p EXCEPT !.fd = FALSE, !.watcher = FALSE, !.groups = {}]
  <2>1. q \in DgramRecord /\ ~q.fd /\ ~q.watcher /\ q.groups = {}
    BY DEF DgramRecord
  <2>2. dgram' = [dgram EXCEPT ![s] = q] /\ net' = {d \in net : d[2] # s}
    BY <1>0, <1>8, <2>0 DEF DgramRecord, DgramClose
  <2> HIDE DEF q
  <2>3. SocketsOK'
    BY <1>0, <2>1, <2>2 DEF SocketsOK
  <2>4. NetOK'
    BY <1>0, <2>2 DEF NetOK
  <2> QED BY <1>0, <1>8, <2>3, <2>4 DEF DgramClose, DatagramInv, PoolOK, SendsOK
<1>9. ASSUME NEW s \in Dgram, NEW q \in DgramRecord, dgram' = [dgram EXCEPT ![s] = q],
             q.fd = dgram[s].fd, q.watcher = dgram[s].watcher, q.groups = dgram[s].groups,
             UNCHANGED <<waiting, net, pool, slices, answers>>
      PROVE  DatagramInv'
  <2>1. ~q.fd => ~q.watcher /\ q.groups = {}
    BY <1>0, <1>9 DEF SocketsOK
  <2>2. SocketsOK' /\ NetOK'
    BY <1>0, <1>9, <2>1, SocketChanges
  <2> QED BY <1>0, <1>9, <2>2 DEF DatagramInv, PoolOK, SendsOK
<1>10. ASSUME NEW s \in Dgram, NEW v \in BOOLEAN, SetBroadcast(s, v) PROVE DatagramInv'
  <2> DEFINE f == Flag(IF v THEN "1" ELSE "0")
  <2>1. f \in BOOLEAN
    BY DEF Flag
  <2> HIDE DEF f
  <2>0. PICK p \in DgramRecord : p = dgram[s]
    BY <1>0
  <2> DEFINE q == [p EXCEPT !.wantsBroadcast = v, !.broadcast = f]
  <2>2. q \in DgramRecord /\ q.fd = p.fd /\ q.watcher = p.watcher /\ q.groups = p.groups
    BY <2>1 DEF DgramRecord
  <2>3. dgram' = [dgram EXCEPT ![s].wantsBroadcast = v, ![s].broadcast = f]
        /\ UNCHANGED <<waiting, net, pool, slices, answers>>
    BY <1>10 DEF SetBroadcast, f
  <2>4. dgram' = [dgram EXCEPT ![s] = q]
    BY <1>0, <2>0, <2>3 DEF DgramRecord
  <2> HIDE DEF q
  <2> QED BY <1>9, <2>0, <2>2, <2>3, <2>4
<1>11. ASSUME NEW s \in Dgram, NEW v \in BOOLEAN, SetMulticastLoopback(s, v) PROVE DatagramInv'
  <2> DEFINE f == Flag(IF v THEN "1" ELSE "0")
  <2>1. f \in BOOLEAN
    BY DEF Flag
  <2> HIDE DEF f
  <2>0. PICK p \in DgramRecord : p = dgram[s]
    BY <1>0
  <2> DEFINE q == [p EXCEPT !.wantsLoopback = v, !.loopback = f]
  <2>2. q \in DgramRecord /\ q.fd = p.fd /\ q.watcher = p.watcher /\ q.groups = p.groups
    BY <2>1 DEF DgramRecord
  <2>3. dgram' = [dgram EXCEPT ![s].wantsLoopback = v, ![s].loopback = f]
        /\ UNCHANGED <<waiting, net, pool, slices, answers>>
    BY <1>11 DEF SetMulticastLoopback, f
  <2>4. dgram' = [dgram EXCEPT ![s] = q]
    BY <1>0, <2>0, <2>3 DEF DgramRecord
  <2> HIDE DEF q
  <2> QED BY <1>9, <2>0, <2>2, <2>3, <2>4
<1>12. ASSUME UNCHANGED <<dgram, waiting, net, pool, slices, answers>> PROVE DatagramInv'
  BY <1>0, <1>12 DEF DatagramInv, SocketsOK, NetOK, PoolOK, SendsOK
<1>13. ASSUME NEW s \in Dgram, NEW t \in TTLs, SetTTL(s, t) PROVE DatagramInv'
  <2>1. CASE t < 1 \/ t > 255
    BY <1>12, <1>13, <2>1 DEF SetTTL
  <2>2. CASE ~(t < 1 \/ t > 255)
    <3>0. PICK p \in DgramRecord : p = dgram[s]
      BY <1>0
    <3> DEFINE q == [p EXCEPT !.ttl = t]
    <3>1. t \in 1..255
      BY <2>2 DEF TTLs
    <3>2. q \in DgramRecord /\ q.fd = p.fd /\ q.watcher = p.watcher /\ q.groups = p.groups
      BY <3>1 DEF DgramRecord
    <3>3. dgram' = [dgram EXCEPT ![s] = q] /\ UNCHANGED <<waiting, net, pool, slices, answers>>
      BY <1>0, <1>13, <2>2, <3>0 DEF DgramRecord, SetTTL
    <3> HIDE DEF q
    <3> QED BY <1>9, <3>0, <3>2, <3>3
  <2> QED BY <2>1, <2>2
<1>14. ASSUME NEW s \in Dgram, NEW t \in TTLs, SetMulticastTTL(s, t) PROVE DatagramInv'
  <2>1. CASE t < 0 \/ t > 255
    BY <1>12, <1>14, <2>1 DEF SetMulticastTTL
  <2>2. CASE ~(t < 0 \/ t > 255)
    <3>0. PICK p \in DgramRecord : p = dgram[s]
      BY <1>0
    <3> DEFINE q == [p EXCEPT !.multicastTTL = t]
    <3>1. t \in 0..255
      BY <2>2 DEF TTLs
    <3>2. q \in DgramRecord /\ q.fd = p.fd /\ q.watcher = p.watcher /\ q.groups = p.groups
      BY <3>1 DEF DgramRecord
    <3>3. dgram' = [dgram EXCEPT ![s] = q] /\ UNCHANGED <<waiting, net, pool, slices, answers>>
      BY <1>0, <1>14, <2>2, <3>0 DEF DgramRecord, SetMulticastTTL
    <3> HIDE DEF q
    <3> QED BY <1>9, <3>0, <3>2, <3>3
  <2> QED BY <2>1, <2>2
<1>15. ASSUME NEW s \in Dgram, NEW op \in {"add", "drop"}, NEW name \in {"group", "host"},
              Membership(s, op, name)
       PROVE  DatagramInv'
  <2>1. SendsOK'
    BY <1>0, <1>15, OtherWaits, NotASend DEF Membership
  <2> QED BY <1>0, <1>15, <2>1 DEF Membership, DatagramInv, SocketsOK, PoolOK, NetOK
<1>16. ASSUME NEW s \in Dgram, NEW op \in {"add", "drop"}, NEW name \in {"group", "host"},
              SetMembership(s, op, name)
       PROVE  DatagramInv'
  <2>1. SendsOK'
    BY <1>0, <1>16, OtherWaits, NotASend DEF SetMembership
  <2>2. PoolOK' /\ UNCHANGED net
    BY <1>0, <1>16 DEF SetMembership, PoolOK
  <2>3. CASE UNCHANGED dgram
    BY <1>0, <2>1, <2>2, <2>3 DEF DatagramInv, SocketsOK, NetOK
  <2>4. CASE ~UNCHANGED dgram
    <3> DEFINE g == IF op = "add" THEN dgram[s].groups \cup {name} ELSE dgram[s].groups \ {name}
    <3>1. dgram[s].fd /\ dgram' = [dgram EXCEPT ![s].groups = g]
      BY <1>16, <2>4 DEF SetMembership
    <3>2. g \in SUBSET {"group", "host"}
      BY <1>0 DEF DgramRecord
    <3> HIDE DEF g
    <3>0. PICK p \in DgramRecord : p = dgram[s]
      BY <1>0
    <3> DEFINE q == [p EXCEPT !.groups = g]
    <3>3. q \in DgramRecord /\ q.fd = p.fd
      BY <3>2 DEF DgramRecord
    <3>4. dgram' = [dgram EXCEPT ![s] = q]
      BY <1>0, <3>0, <3>1 DEF DgramRecord
    <3> HIDE DEF q
    <3> QED BY <1>0, <2>1, <2>2, <3>0, <3>1, <3>3, <3>4, SocketChanges DEF DatagramInv
  <2> QED BY <2>3, <2>4
<1>17. CASE UNCHANGED datagramVars
  BY <1>12, <1>17 DEF datagramVars
<1> QED
  BY <1>1, <1>2, <1>3, <1>4, <1>5, <1>6, <1>7, <1>8, <1>10, <1>11, <1>13, <1>14, <1>15, <1>16, <1>17
  DEF DatagramNext

\* For any sockets, sends and size of the pool: a listener's slice keeps its bytes, every
\* send calls back once, and a closed socket is not watched, in no group, and receives
\* nothing.
THEOREM DatagramIsSafe == DatagramSpec => []DatagramSafe
<1>1. DatagramInit => DatagramInv
  <2> SUFFICES ASSUME DatagramInit PROVE DatagramInv
    OBVIOUS
  <2>1. PICK type \in [Dgram -> {"udp", "unix_dgram"}] : dgram = [s \in Dgram |-> NewDgram(type[s])]
    BY DEF DatagramInit
  <2>2. \A s \in Dgram : dgram[s] \in DgramRecord /\ dgram[s].fd
    BY <2>1 DEF NewDgram, DgramRecord
  <2>3. SocketsOK
    BY <2>1, <2>2 DEF SocketsOK
  <2>4. NetOK /\ SendsOK
    BY DEF DatagramInit, NetOK, SendsOK, Waits
  <2>5. PoolOK
    BY DatagramAssumption DEF DatagramInit, PoolOK, EmptyPool
  <2> QED BY <2>3, <2>4, <2>5 DEF DatagramInv
<1>2. DatagramInv => DatagramSafe
  <2> SUFFICES ASSUME DatagramInv PROVE DatagramSafe
    OBVIOUS
  <2>1. DatagramTypeOK
    BY DEF DatagramInv, SocketsOK, DgramRecord, PoolOK, DatagramTypeOK
  <2>2. SlicesIntact /\ ClosedIsDead
    BY DEF DatagramInv, SocketsOK, NetOK, PoolOK, SlicesIntact, ClosedIsDead
  <2>3. SendAnswersOnce
    BY DEF DatagramInv, SendsOK, Waits, SendAnswersOnce
  <2> QED BY <2>1, <2>2, <2>3 DEF DatagramSafe
<1> QED BY <1>1, <1>2, DatagramStep, PTL DEF DatagramSpec

-----------------------------------------------------------------------------
(* Servers                                                                 *)

ServerRecord ==
    [type : ServerType, max : 0..1, fd : BOOLEAN, bound : BOOLEAN, listening : BOOLEAN,
     watcher : BOOLEAN, pauseTimer : BOOLEAN, connections : Nat, starts : Nat, ticks : Nat, listens : Nat]

CallRecord == [at : {"no", "accept", "listener", "reject"}, rescue : BOOLEAN, count : Nat]

ServerVarsOK ==
    /\ server \in ServerRecord
    /\ used \in 0..MaxFds /\ dummyFD \in BOOLEAN /\ files \in Nat
    /\ clients \in [Client -> {"away", "waits", "live", "gone", "destroyed"}]
    /\ call \in CallRecord

\* Each start and each tick that is to come is of a call of listen, and while clients are
\* rejected nobody closes the server.
StartsOK ==
    /\ server.starts + server.ticks <= server.listens /\ server.listens <= MaxListens
    /\ call.at = "reject" => server.fd

ServerInv ==
    /\ ServerVarsOK /\ StartsOK
    /\ NoDescriptorLeak /\ ConnectionsCounted /\ PausedHasDescriptor

\* The live connections are finitely many.
LEMMA LiveFinite == IsFiniteSet(Live) /\ Cardinality(Live) \in Nat /\ Cardinality(Live) <= Cardinality(Client)
<1>1. Live \subseteq Client /\ IsFiniteSet(Client)
  BY ServerAssumption DEF Live
<1> QED BY <1>1, FS_Subset, FS_CardinalityType

\* The connections are the same while clients wait, go or come.
LEMMA SameLive ==
    ASSUME \A c \in Client : clients'[c] = "live" <=> clients[c] = "live"
    PROVE  Live' = Live
BY DEF Live

\* What accept gives makes c live only if it is taken.
LEMMA GivesKeeps ==
    ASSUME ServerVarsOK, NEW c \in ServerPending, NEW r, NEW then \in {"live", "gone"}, Gives(c, r, then)
    PROVE  /\ clients' \in [Client -> {"away", "waits", "live", "gone", "destroyed"}]
           /\ r = "peer" /\ then = "live" => Live' = Live \cup {c} /\ c \notin Live
           /\ ~(r = "peer" /\ then = "live") => Live' = Live
BY DEF ServerVarsOK, Gives, ServerPending, Live

\* close of the server.
LEMMA ClosesKeeps ==
    ASSUME ServerVarsOK, NEW s \in ServerRecord, NEW n, ServerCloses(s, n, ServerPending)
    PROVE  /\ server' \in ServerRecord /\ used' = n
           /\ ~server'.fd /\ ~server'.pauseTimer /\ server'.connections = s.connections
           /\ server'.starts = s.starts /\ server'.ticks = s.ticks /\ server'.listens = s.listens
           /\ server'.max = s.max
           /\ clients' \in [Client -> {"away", "waits", "live", "gone", "destroyed"}]
           /\ Live' = Live
<1>1. server' = [s EXCEPT !.fd = FALSE, !.bound = FALSE, !.listening = FALSE,
                          !.watcher = FALSE, !.pauseTimer = FALSE]
      /\ used' = n
  BY DEF ServerCloses
<1>2. server' \in ServerRecord
  BY <1>1 DEF ServerRecord
<1>3. /\ ~server'.fd /\ ~server'.pauseTimer /\ server'.connections = s.connections
      /\ server'.starts = s.starts /\ server'.ticks = s.ticks /\ server'.listens = s.listens
      /\ server'.max = s.max
  BY <1>1 DEF ServerRecord
<1>4. clients' \in [Client -> {"away", "waits", "live", "gone", "destroyed"}]
      /\ \A c \in Client : clients'[c] = "live" <=> clients[c] = "live"
  BY DEF ServerCloses, ServerPending, ServerVarsOK
<1> QED BY <1>1, <1>2, <1>3, <1>4, SameLive

\* The arithmetic of descriptors: what a step opens or closes is what it accounts for.
LEMMA Balance ==
    ASSUME ServerInv, UNCHANGED files, Live' = Live, call' \in CallRecord,
           server' \in ServerRecord, dummyFD' \in BOOLEAN, used' \in 0..MaxFds,
           clients' \in [Client -> {"away", "waits", "live", "gone", "destroyed"}],
           server'.connections = server.connections, server'.max = server.max,
           server'.starts + server'.ticks <= server'.listens, server'.listens <= MaxListens,
           server'.pauseTimer => server'.fd, call'.at = "reject" => server'.fd,
           used' - used = (IF server'.fd THEN 1 ELSE 0) - (IF server.fd THEN 1 ELSE 0)
                            + (IF dummyFD' THEN 1 ELSE 0) - (IF dummyFD THEN 1 ELSE 0)
    PROVE  ServerInv'
<1>1. ServerVarsOK' /\ StartsOK' /\ PausedHasDescriptor'
  BY DEF ServerInv, ServerVarsOK, StartsOK, PausedHasDescriptor
<1>2. ConnectionsCounted'
  BY DEF ServerInv, ConnectionsCounted
<1>3. PICK n : n = Cardinality(Live)
  OBVIOUS
<1>4. n \in Nat /\ n = Cardinality(Live')
  BY <1>3, LiveFinite
<1>5. used = files + n + (IF server.fd THEN 1 ELSE 0) + (IF dummyFD THEN 1 ELSE 0)
      /\ used \in Nat /\ files \in Nat
  BY <1>3, ServerAssumption DEF ServerInv, NoDescriptorLeak, ServerVarsOK
<1>6. used' \in Nat
  BY ServerAssumption
<1>7. used' = files + n + (IF server'.fd THEN 1 ELSE 0) + (IF dummyFD' THEN 1 ELSE 0)
  BY <1>4, <1>5, <1>6
<1>8. NoDescriptorLeak'
  BY <1>4, <1>7 DEF NoDescriptorLeak
<1> QED BY <1>1, <1>2, <1>8 DEF ServerInv

\* socket makes a descriptor if there is room for one.
LEMMA SocketMakes ==
    ASSUME used \in Nat, NEW ok \in BOOLEAN
    PROVE  /\ Socket(ok).fd \in BOOLEAN /\ Socket(ok).open \in {0, 1}
           /\ (Socket(ok).fd => used < MaxFds /\ Socket(ok).open = 1) /\ (~Socket(ok).fd => Socket(ok).open = 0)
<1>1. (used < MaxFds) <=> (used + 1 <= MaxFds)
  BY ServerAssumption
<1>2. Socket(ok).fd = (used < MaxFds /\ ok) /\ Socket(ok).open = IF used + 1 <= MaxFds /\ ok THEN 1 ELSE 0
  BY DEF Socket, MakesFds
<1> QED BY <1>1, <1>2

\* Every step keeps ServerInv.
LEMMA ServerStep == ServerInv /\ [ServerNext]_serverVars => ServerInv'
<1> SUFFICES ASSUME ServerInv, [ServerNext]_serverVars PROVE ServerInv'
  OBVIOUS
<1> USE ServerAssumption
<1>0. /\ ServerVarsOK /\ StartsOK /\ PausedHasDescriptor
      /\ server \in ServerRecord /\ used \in 0..MaxFds /\ used \in Nat /\ dummyFD \in BOOLEAN /\ files \in Nat
      /\ clients \in [Client -> {"away", "waits", "live", "gone", "destroyed"}]
      /\ call \in CallRecord
      /\ server.starts \in Nat /\ server.ticks \in Nat /\ server.listens \in Nat /\ server.connections \in Nat
      /\ server.fd \in BOOLEAN /\ server.pauseTimer \in BOOLEAN /\ server.max \in 0..1
      /\ server.starts + server.ticks <= server.listens /\ server.listens <= MaxListens
      /\ (server.pauseTimer => server.fd) /\ (call.at = "reject" => server.fd)
  BY DEF ServerInv, ServerVarsOK, StartsOK, PausedHasDescriptor, ServerRecord
<1>1. ServerIdle \in CallRecord /\ ServerIdle.at = "no"
  BY DEF ServerIdle, CallRecord
<1>2. UNCHANGED clients => Live' = Live
  BY DEF Live
<1>3. CASE ServerListen
  <2>0. UNCHANGED <<dummyFD, files, clients, call>> /\ ~server.fd /\ call.at # "reject"
        /\ server.listens < MaxListens
    BY <1>3 DEF ServerListen
  <2>1. PICK ok \in BOOLEAN :
          IF server.type = "unix"
          THEN /\ used' = used + Socket(ok).open
               /\ server' = [server EXCEPT !.listens = @ + 1, !.fd = Socket(ok).fd,
                                           !.starts = IF Socket(ok).fd THEN @ + 1 ELSE @]
          ELSE server' = [server EXCEPT !.listens = @ + 1, !.starts = @ + 1] /\ UNCHANGED used
    BY <1>3 DEF ServerListen, SetSockFlags
  <2>2. PICK fd \in BOOLEAN, n \in {0, 1} :
          /\ fd = Socket(ok).fd /\ n = Socket(ok).open
          /\ (fd => used < MaxFds /\ n = 1) /\ (~fd => n = 0)
    BY <1>0, SocketMakes
  <2>3. PICK f \in BOOLEAN, k \in {0, 1}, u \in {0, 1} :
          /\ server' = [server EXCEPT !.listens = @ + 1, !.fd = f, !.starts = @ + k]
          /\ used' = used + u /\ (f => used < MaxFds /\ u = 1) /\ (~f => u = 0)
    <3>1. CASE server.type = "unix" /\ fd
      <4>1. server' = [server EXCEPT !.listens = @ + 1, !.fd = TRUE, !.starts = @ + 1] /\ used' = used + 1
        BY <2>1, <2>2, <3>1
      <4> QED BY <2>2, <3>1, <4>1
    <3>2. CASE server.type = "unix" /\ ~fd
      <4>1. server' = [server EXCEPT !.listens = @ + 1, !.fd = FALSE, !.starts = @] /\ used' = used + 0
        BY <2>1, <2>2, <3>2
      <4>2. server.starts + 0 = server.starts
        BY <1>0
      <4>3. server' = [server EXCEPT !.listens = @ + 1, !.fd = FALSE, !.starts = @ + 0]
        BY <4>1, <4>2
      <4> QED BY <4>1, <4>3
    <3>3. CASE server.type # "unix"
      <4>1. server' = [server EXCEPT !.listens = @ + 1, !.starts = @ + 1] /\ used' = used + 0
        BY <1>0, <2>1, <3>3
      <4>2. server' = [server EXCEPT !.listens = @ + 1, !.fd = FALSE, !.starts = @ + 1]
        BY <1>0, <2>0, <4>1 DEF ServerRecord
      <4> QED BY <4>1, <4>2
    <3> QED BY <3>1, <3>2, <3>3
  <2>4. /\ server' \in ServerRecord /\ server'.connections = server.connections
        /\ server'.max = server.max /\ server'.pauseTimer = server.pauseTimer
        /\ server'.listens = server.listens + 1 /\ server'.ticks = server.ticks
        /\ server'.starts = server.starts + k /\ server'.fd = f
    <3>1. server \in ServerRecord /\ server.listens + 1 \in Nat /\ server.starts + k \in Nat
      BY <1>0
    <3>2. server' \in ServerRecord
      BY <2>3, <3>1 DEF ServerRecord
    <3> QED BY <2>3, <3>1, <3>2 DEF ServerRecord
  <2>5. server'.starts + server'.ticks <= server'.listens /\ server'.listens <= MaxListens
    BY <1>0, <2>0, <2>4
  <2>6. used' \in 0..MaxFds
        /\ used' - used = (IF server'.fd THEN 1 ELSE 0) - (IF server.fd THEN 1 ELSE 0)
                            + (IF dummyFD' THEN 1 ELSE 0) - (IF dummyFD THEN 1 ELSE 0)
    BY <1>0, <2>0, <2>3, <2>4
  <2>7. (server'.pauseTimer => server'.fd) /\ (call'.at = "reject" => server'.fd)
    BY <1>0, <2>0, <2>4
  <2> QED BY <1>0, <1>2, <2>0, <2>4, <2>5, <2>6, <2>7, Balance
<1>4. CASE ServerClose
  <2>0. UNCHANGED <<dummyFD, files, call>> /\ server.fd /\ call.at # "reject"
        /\ ServerCloses(server, used - 1, ServerPending)
    BY <1>4 DEF ServerClose
  <2>1. used - 1 \in 0..MaxFds
    <3>1. Cardinality(Live) \in Nat
      BY LiveFinite
    <3> QED BY <1>0, <2>0, <3>1 DEF ServerInv, NoDescriptorLeak
  <2>2. used' = used - 1 /\ ~server'.fd
    BY <1>0, <2>0, ClosesKeeps
  <2>3. used' - used = (IF server'.fd THEN 1 ELSE 0) - (IF server.fd THEN 1 ELSE 0)
                         + (IF dummyFD' THEN 1 ELSE 0) - (IF dummyFD THEN 1 ELSE 0)
    BY <1>0, <2>0, <2>2
  <2> QED BY <1>0, <2>0, <2>1, <2>3, ClosesKeeps, Balance
<1>5. ASSUME NEW c \in Client, Arrive(c) PROVE ServerInv'
  <2>1. /\ clients' \in [Client -> {"away", "waits", "live", "gone", "destroyed"}]
        /\ \A x \in Client : clients'[x] = "live" <=> clients[x] = "live"
        /\ UNCHANGED <<server, used, dummyFD, files, call>>
    BY <1>0, <1>5 DEF Arrive
  <2>2. used' - used = (IF server'.fd THEN 1 ELSE 0) - (IF server.fd THEN 1 ELSE 0)
                         + (IF dummyFD' THEN 1 ELSE 0) - (IF dummyFD THEN 1 ELSE 0)
    BY <1>0, <2>1
  <2> QED BY <1>0, <2>1, <2>2, SameLive, Balance
<1>6. CASE Listener
  <2>1. UNCHANGED <<server, used, dummyFD, files, clients>> /\ call' \in CallRecord /\ call'.at # "reject"
    <3>1. [ServerIdle EXCEPT !.at = "accept"] \in CallRecord /\ [ServerIdle EXCEPT !.at = "accept"].at = "accept"
      BY DEF ServerIdle, CallRecord
    <3> QED BY <1>1, <1>6, <3>1 DEF Listener
  <2>2. used' - used = (IF server'.fd THEN 1 ELSE 0) - (IF server.fd THEN 1 ELSE 0)
                         + (IF dummyFD' THEN 1 ELSE 0) - (IF dummyFD THEN 1 ELSE 0)
    BY <1>0, <2>1
  <2> QED BY <1>0, <1>2, <2>1, <2>2, Balance
<1>7. ASSUME server' \in {PauseServer(server), [server EXCEPT !.pauseTimer = FALSE, !.watcher = TRUE]},
             server.fd, UNCHANGED <<used, dummyFD, files, clients, call>>
      PROVE  ServerInv'
  <2>1. /\ server' \in ServerRecord /\ server'.fd = server.fd /\ server'.connections = server.connections
        /\ server'.starts = server.starts /\ server'.ticks = server.ticks
        /\ server'.listens = server.listens /\ server'.max = server.max
    BY <1>0, <1>7 DEF PauseServer, ServerRecord
  <2>2. used' - used = (IF server'.fd THEN 1 ELSE 0) - (IF server.fd THEN 1 ELSE 0)
                         + (IF dummyFD' THEN 1 ELSE 0) - (IF dummyFD THEN 1 ELSE 0)
    BY <1>0, <1>7, <2>1
  <2> QED BY <1>0, <1>2, <1>7, <2>1, <2>2, Balance
<1>8. CASE ServerPause
  BY <1>7, <1>8 DEF ServerPause
<1>9. CASE PauseEnds
  BY <1>0, <1>7, <1>9 DEF PauseEnds
<1>10. CASE UNCHANGED serverVars
  BY <1>10 DEF serverVars, ServerInv, ServerVarsOK, StartsOK, NoDescriptorLeak, ConnectionsCounted,
               PausedHasDescriptor, Live
<1>11. CASE DoListen
  <2>0. UNCHANGED <<files, call>> /\ call = ServerIdle /\ server.starts > 0
    BY <1>11 DEF DoListen
  <2>1. PICK ok \in BOOLEAN, a \in Address, free \in BOOLEAN :
         LET makes == server.type = "tcp" /\ ~server.fd
             s == [server EXCEPT !.starts = @ - 1, !.fd = IF makes THEN Socket(ok).fd ELSE @]
             n == used + IF makes THEN Socket(ok).open ELSE 0
             d == GetDummyFD(n)
         IN
         /\ (a \in {"path", "longpath"}) = (server.type = "unix")
         /\ IF makes /\ ~s.fd THEN server' = s /\ used' = n /\ UNCHANGED <<dummyFD, clients>>
            ELSE /\ dummyFD' = (dummyFD \/ d = 1)
                 /\ \/ /\ ParseAddressArgs(a) # "none" /\ s.fd /\ ~s.bound /\ free
                       /\ server' = [s EXCEPT !.bound = TRUE, !.ticks = @ + 1]
                       /\ used' = n + d
                       /\ UNCHANGED clients
                    \/ /\ s.fd /\ ~(ParseAddressArgs(a) # "none" /\ ~s.bound /\ free)
                       /\ ServerCloses(s, n + d - 1, ServerPending)
                    \/ /\ ~s.fd
                       /\ server' = s /\ used' = n + d /\ UNCHANGED clients
    BY <1>11, Zenon DEF DoListen, SetSockFlags
  <2> DEFINE makes == server.type = "tcp" /\ ~server.fd
             sfd == IF makes THEN Socket(ok).fd ELSE server.fd
             s == [server EXCEPT !.starts = @ - 1, !.fd = sfd]
             m == IF makes THEN Socket(ok).open ELSE 0
             n == used + m
             d == GetDummyFD(n)
  <2>2. /\ sfd \in BOOLEAN /\ m \in {0, 1} /\ (server.fd => sfd)
        /\ m = (IF sfd THEN 1 ELSE 0) - (IF server.fd THEN 1 ELSE 0) /\ (m = 1 => used < MaxFds)
    <3>1. CASE makes
      BY <1>0, <3>1, SocketMakes
    <3>2. CASE ~makes
      BY <1>0, <3>2
    <3> QED BY <3>1, <3>2
  <2>3. /\ IF makes /\ ~s.fd THEN server' = s /\ used' = n /\ UNCHANGED <<dummyFD, clients>>
           ELSE /\ dummyFD' = (dummyFD \/ d = 1)
                /\ \/ /\ server' = [s EXCEPT !.bound = TRUE, !.ticks = @ + 1] /\ s.fd
                      /\ used' = n + d
                      /\ UNCHANGED clients
                   \/ /\ s.fd
                      /\ ServerCloses(s, n + d - 1, ServerPending)
                   \/ /\ ~s.fd
                      /\ server' = s /\ used' = n + d /\ UNCHANGED clients
    BY <2>1
  <2> HIDE DEF makes, sfd, m
  <2>4. n \in 0..MaxFds /\ d \in {0, 1} /\ n + d \in 0..MaxFds /\ (d = 1 => ~dummyFD)
    BY <1>0, <2>2 DEF GetDummyFD
  <2> HIDE DEF d
  <2>5. /\ s \in ServerRecord /\ s.starts = server.starts - 1 /\ s.fd = sfd
        /\ s.ticks = server.ticks /\ s.listens = server.listens /\ s.connections = server.connections
        /\ s.max = server.max /\ s.pauseTimer = server.pauseTimer
    <3>1. server \in ServerRecord /\ server.starts - 1 \in Nat
      BY <1>0, <2>0
    <3>2. s \in ServerRecord
      BY <2>2, <3>1 DEF ServerRecord
    <3> QED BY <3>1, <3>2 DEF ServerRecord
  <2>6. n - used = (IF s.fd THEN 1 ELSE 0) - (IF server.fd THEN 1 ELSE 0)
    BY <1>0, <2>2, <2>5
  <2>7. call'.at # "reject" /\ call' \in CallRecord
    BY <1>0, <1>1, <2>0
  <2> HIDE DEF s, n
  <2>8. s.starts + s.ticks + 1 <= s.listens /\ s.listens <= MaxListens /\ (s.pauseTimer => s.fd)
        /\ s.ticks \in Nat /\ s.starts \in Nat /\ s.listens \in Nat
    BY <1>0, <2>0, <2>2, <2>5
  <2>9. CASE server' = s /\ used' = n /\ UNCHANGED <<dummyFD, clients>>
    <3>1. used' - used = (IF server'.fd THEN 1 ELSE 0) - (IF server.fd THEN 1 ELSE 0)
                           + (IF dummyFD' THEN 1 ELSE 0) - (IF dummyFD THEN 1 ELSE 0)
      BY <1>0, <2>4, <2>5, <2>6, <2>9
    <3>2. server'.starts + server'.ticks <= server'.listens
      BY <2>8, <2>9
    <3> QED BY <1>0, <1>2, <2>0, <2>4, <2>5, <2>7, <2>8, <2>9, <3>1, <3>2, Balance
  <2>10. ASSUME dummyFD' = (dummyFD \/ d = 1)
         PROVE  /\ dummyFD' \in BOOLEAN
                /\ d = (IF dummyFD' THEN 1 ELSE 0) - (IF dummyFD THEN 1 ELSE 0)
    <3>1. dummyFD' \in BOOLEAN
      BY <2>10
    <3>2. CASE d = 1
      <4>1. dummyFD' = TRUE /\ dummyFD = FALSE
        BY <1>0, <2>4, <2>10, <3>2
      <4> QED BY <3>2, <4>1
    <3>3. CASE d = 0
      <4>1. dummyFD' = dummyFD
        BY <1>0, <2>10, <3>3
      <4> QED BY <1>0, <3>3, <4>1
    <3> QED BY <2>4, <3>1, <3>2, <3>3
  <2>11. CASE /\ server' = [s EXCEPT !.bound = TRUE, !.ticks = @ + 1] /\ s.fd
              /\ used' = n + d /\ dummyFD' = (dummyFD \/ d = 1)
              /\ UNCHANGED clients
    <3>1. s.ticks + 1 \in Nat
      BY <2>8
    <3>2. server' \in ServerRecord
      BY <2>5, <2>11, <3>1 DEF ServerRecord
    <3>3. /\ server'.fd = s.fd /\ server'.starts = s.starts /\ server'.ticks = s.ticks + 1
          /\ server'.listens = s.listens /\ server'.connections = s.connections
          /\ server'.max = s.max /\ server'.pauseTimer = s.pauseTimer
      BY <2>5, <2>11 DEF ServerRecord
    <3>4. used' - used = (IF server'.fd THEN 1 ELSE 0) - (IF server.fd THEN 1 ELSE 0)
                           + (IF dummyFD' THEN 1 ELSE 0) - (IF dummyFD THEN 1 ELSE 0)
      BY <1>0, <2>4, <2>6, <2>10, <2>11, <3>3
    <3>5. server'.starts + server'.ticks <= server'.listens
      BY <2>8, <3>3
    <3> QED BY <1>0, <1>2, <2>0, <2>4, <2>5, <2>7, <2>8, <2>10, <2>11, <3>2, <3>3, <3>4, <3>5, Balance
  <2>12. CASE /\ s.fd /\ dummyFD' = (dummyFD \/ d = 1)
              /\ ServerCloses(s, n + d - 1, ServerPending)
    <3>1. Cardinality(Live) \in Nat
      BY LiveFinite
    <3>2. n + d - 1 \in 0..MaxFds
      BY <1>0, <2>4, <2>6, <2>12, <3>1 DEF ServerInv, NoDescriptorLeak
    <3>3. used' = n + d - 1 /\ ~server'.fd
      BY <1>0, <2>5, <2>12, ClosesKeeps
    <3>4. used' - used = (IF server'.fd THEN 1 ELSE 0) - (IF server.fd THEN 1 ELSE 0)
                           + (IF dummyFD' THEN 1 ELSE 0) - (IF dummyFD THEN 1 ELSE 0)
      BY <1>0, <2>4, <2>6, <2>10, <2>12, <3>3
    <3>5. /\ server' \in ServerRecord /\ ~server'.pauseTimer
          /\ server'.starts + server'.ticks <= server'.listens /\ server'.listens <= MaxListens
          /\ server'.connections = server.connections /\ server'.max = server.max
          /\ clients' \in [Client -> {"away", "waits", "live", "gone", "destroyed"}]
          /\ Live' = Live
      BY <1>0, <2>5, <2>8, <2>12, ClosesKeeps
    <3> QED BY <2>0, <2>7, <2>10, <2>12, <3>2, <3>3, <3>4, <3>5, Balance
  <2>13. CASE /\ ~s.fd /\ dummyFD' = (dummyFD \/ d = 1)
              /\ server' = s /\ used' = n + d /\ UNCHANGED clients
    <3>1. used' - used = (IF server'.fd THEN 1 ELSE 0) - (IF server.fd THEN 1 ELSE 0)
                           + (IF dummyFD' THEN 1 ELSE 0) - (IF dummyFD THEN 1 ELSE 0)
      BY <1>0, <2>4, <2>6, <2>10, <2>13
    <3>2. server'.starts + server'.ticks <= server'.listens
      BY <2>8, <2>13
    <3> QED BY <1>0, <1>2, <2>0, <2>4, <2>5, <2>7, <2>8, <2>10, <2>13, <3>1, <3>2, Balance
  <2> QED BY <2>3, <2>9, <2>11, <2>12, <2>13
<1>12. CASE ListenTick
  <2> DEFINE s == [server EXCEPT !.ticks = @ - 1]
  <2>0. UNCHANGED <<dummyFD, files, call>> /\ call = ServerIdle /\ server.ticks > 0
    BY <1>12 DEF ListenTick
  <2>1. \/ server' = s /\ UNCHANGED <<used, clients>>
        \/ server.fd /\ server' = [s EXCEPT !.watcher = TRUE, !.bound = TRUE, !.listening = TRUE]
                     /\ UNCHANGED <<used, clients>>
        \/ server.fd /\ ServerCloses(s, used - 1, ServerPending)
    BY <1>12 DEF ListenTick, Listen
  <2>2. /\ s \in ServerRecord /\ s.ticks = server.ticks - 1 /\ s.fd = server.fd
        /\ s.starts = server.starts /\ s.listens = server.listens /\ s.connections = server.connections
        /\ s.max = server.max /\ s.pauseTimer = server.pauseTimer
    <3>1. server \in ServerRecord /\ server.ticks - 1 \in Nat
      BY <1>0, <2>0
    <3>2. s \in ServerRecord
      BY <3>1 DEF ServerRecord
    <3> QED BY <3>1, <3>2 DEF ServerRecord
  <2> HIDE DEF s
  <2>3. s.starts + s.ticks <= s.listens /\ s.listens <= MaxListens /\ (s.pauseTimer => s.fd)
    BY <1>0, <2>0, <2>2
  <2>4. call'.at # "reject" /\ call' \in CallRecord
    BY <1>0, <1>1, <2>0
  <2>5. CASE \/ server' = s /\ UNCHANGED <<used, clients>>
             \/ server.fd /\ server' = [s EXCEPT !.watcher = TRUE, !.bound = TRUE, !.listening = TRUE]
                          /\ UNCHANGED <<used, clients>>
    <3>1. server' \in ServerRecord
      BY <2>2, <2>5 DEF ServerRecord
    <3>2. /\ server'.fd = s.fd /\ server'.starts = s.starts /\ server'.ticks = s.ticks
          /\ server'.listens = s.listens /\ server'.connections = s.connections
          /\ server'.max = s.max /\ server'.pauseTimer = s.pauseTimer
      BY <2>2, <2>5 DEF ServerRecord
    <3>3. used' - used = (IF server'.fd THEN 1 ELSE 0) - (IF server.fd THEN 1 ELSE 0)
                           + (IF dummyFD' THEN 1 ELSE 0) - (IF dummyFD THEN 1 ELSE 0)
      BY <1>0, <2>0, <2>2, <2>5, <3>2
    <3> QED BY <1>0, <1>2, <2>0, <2>2, <2>3, <2>4, <2>5, <3>1, <3>2, <3>3, Balance
  <2>6. CASE server.fd /\ ServerCloses(s, used - 1, ServerPending)
    <3>1. Cardinality(Live) \in Nat
      BY LiveFinite
    <3>2. used - 1 \in 0..MaxFds
      BY <1>0, <2>6, <3>1 DEF ServerInv, NoDescriptorLeak
    <3>3. used' = used - 1 /\ ~server'.fd
      BY <1>0, <2>2, <2>6, ClosesKeeps
    <3>4. used' - used = (IF server'.fd THEN 1 ELSE 0) - (IF server.fd THEN 1 ELSE 0)
                           + (IF dummyFD' THEN 1 ELSE 0) - (IF dummyFD THEN 1 ELSE 0)
      BY <1>0, <2>0, <2>6, <3>3
    <3> QED BY <1>0, <2>0, <2>2, <2>3, <2>4, <2>6, <3>2, <3>3, <3>4, ClosesKeeps, Balance
  <2> QED BY <2>1, <2>5, <2>6
<1>13. ASSUME NEW g \in BOOLEAN, NEW d, d = (IF g THEN GetDummyFD(used) ELSE 0), used' = used + d,
              dummyFD' = (dummyFD \/ (g /\ GetDummyFD(used) = 1)), server'.fd = server.fd
       PROVE  /\ used' \in 0..MaxFds /\ dummyFD' \in BOOLEAN
              /\ used' - used = (IF server'.fd THEN 1 ELSE 0) - (IF server.fd THEN 1 ELSE 0)
                                  + (IF dummyFD' THEN 1 ELSE 0) - (IF dummyFD THEN 1 ELSE 0)
  <2>1. CASE g /\ ~dummyFD /\ used < MaxFds
    <3>1. d = 1 /\ GetDummyFD(used) = 1
      BY <1>13, <2>1 DEF GetDummyFD
    <3>2. dummyFD' = TRUE /\ dummyFD = FALSE /\ used' = used + 1
      BY <1>0, <1>13, <2>1, <3>1
    <3> QED BY <1>0, <1>13, <2>1, <3>2
  <2>2. CASE ~(g /\ ~dummyFD /\ used < MaxFds)
    <3>1. d = 0 /\ ~(g /\ GetDummyFD(used) = 1)
      BY <1>13, <2>2 DEF GetDummyFD
    <3>2. dummyFD' = dummyFD /\ used' = used
      BY <1>0, <1>13, <3>1
    <3> QED BY <1>0, <1>13, <3>2
  <2> QED BY <2>1, <2>2
<1>14. CASE OnConnection
  <2>1. /\ used' = used + GetDummyFD(used) /\ dummyFD' = (dummyFD \/ GetDummyFD(used) = 1)
        /\ UNCHANGED <<files, clients>>
        /\ server' = (IF server.pauseTimer THEN [server EXCEPT !.watcher = FALSE] ELSE server)
        /\ call' = [ServerIdle EXCEPT !.at = "accept"]
    BY <1>14 DEF OnConnection
  <2>2. call' \in CallRecord /\ call'.at # "reject"
    BY <2>1 DEF ServerIdle, CallRecord
  <2>3. /\ server' \in ServerRecord /\ server'.fd = server.fd /\ server'.connections = server.connections
        /\ server'.starts = server.starts /\ server'.ticks = server.ticks
        /\ server'.listens = server.listens /\ server'.max = server.max
        /\ server'.pauseTimer = server.pauseTimer
    BY <1>0, <2>1 DEF ServerRecord
  <2>4. /\ used' \in 0..MaxFds /\ dummyFD' \in BOOLEAN
        /\ used' - used = (IF server'.fd THEN 1 ELSE 0) - (IF server.fd THEN 1 ELSE 0)
                            + (IF dummyFD' THEN 1 ELSE 0) - (IF dummyFD THEN 1 ELSE 0)
    <3>1. GetDummyFD(used) = (IF TRUE THEN GetDummyFD(used) ELSE 0)
      OBVIOUS
    <3> QED BY <1>13, <2>1, <2>3, <3>1
  <2> QED BY <1>0, <1>2, <2>1, <2>2, <2>3, <2>4, Balance
<1>15. ASSUME UNCHANGED <<server, used, dummyFD, files>>, Live' = Live, call' \in CallRecord,
              call'.at = "reject" => server.fd,
              clients' \in [Client -> {"away", "waits", "live", "gone", "destroyed"}]
       PROVE  ServerInv'
  <2>1. used' - used = (IF server'.fd THEN 1 ELSE 0) - (IF server.fd THEN 1 ELSE 0)
                         + (IF dummyFD' THEN 1 ELSE 0) - (IF dummyFD THEN 1 ELSE 0)
    BY <1>0, <1>15
  <2> QED BY <1>0, <1>15, <2>1, Balance
<1>16. CASE AcceptLoop
  <2>0. call.at = "accept" /\ UNCHANGED files
    BY <1>16 DEF AcceptLoop
  <2>1. CASE call' = ServerIdle /\ UNCHANGED <<server, used, dummyFD, clients>>
    BY <1>0, <1>1, <1>2, <1>15, <2>0, <2>1
  <2>2. CASE /\ server.fd /\ dummyFD' = FALSE
             /\ used' = (IF dummyFD THEN used - 1 ELSE used)
             /\ call' = (IF dummyFD THEN [at |-> "reject", rescue |-> TRUE, count |-> 0] ELSE ServerIdle)
             /\ UNCHANGED <<server, clients>>
    <3>1. Cardinality(Live) \in Nat
      BY LiveFinite
    <3>2. used' \in 0..MaxFds
      BY <1>0, <2>2, <3>1 DEF ServerInv, NoDescriptorLeak
    <3>3. used' - used = (IF server'.fd THEN 1 ELSE 0) - (IF server.fd THEN 1 ELSE 0)
                           + (IF dummyFD' THEN 1 ELSE 0) - (IF dummyFD THEN 1 ELSE 0)
      BY <1>0, <2>2
    <3>4. call' \in CallRecord
      BY <1>1, <2>2 DEF CallRecord
    <3> QED BY <1>0, <1>2, <2>0, <2>2, <3>2, <3>3, <3>4, Balance
  <2>3. ASSUME server.fd, NEW c \in ServerPending, NEW result \in Accept \ {"emfile", "null"},
               LET taken == result = "peer" /\ ~Full IN
               /\ Gives(c, result, IF taken THEN "live" ELSE "gone")
               /\ used' = IF taken THEN used + 1 ELSE used
               /\ server' = IF taken THEN [server EXCEPT !.connections = @ + 1] ELSE server
               /\ call' = IF taken THEN [ServerIdle EXCEPT !.at = "listener"]
                          ELSE IF result = "peer" THEN [ServerIdle EXCEPT !.at = "reject"] ELSE ServerIdle,
               UNCHANGED dummyFD
        PROVE  ServerInv'
    <3>1. [ServerIdle EXCEPT !.at = "listener"] \in CallRecord /\ [ServerIdle EXCEPT !.at = "reject"] \in CallRecord
          /\ [ServerIdle EXCEPT !.at = "listener"].at = "listener"
      BY DEF ServerIdle, CallRecord
    <3>2. CASE ~(result = "peer" /\ ~Full)
      <4>1. Gives(c, result, "gone") /\ UNCHANGED <<server, used, dummyFD, files>> /\ call' \in CallRecord
        BY <1>1, <2>0, <2>3, <3>1, <3>2
      <4>2. Live' = Live /\ clients' \in [Client -> {"away", "waits", "live", "gone", "destroyed"}]
        BY <1>0, <4>1, GivesKeeps
      <4> QED BY <1>15, <2>3, <4>1, <4>2
    <3>3. CASE result = "peer" /\ ~Full
      <4>1. /\ Gives(c, result, "live") /\ used' = used + 1 /\ call' = [ServerIdle EXCEPT !.at = "listener"]
            /\ server' = [server EXCEPT !.connections = @ + 1]
        BY <2>3, <3>3
      <4>2. Live' = Live \cup {c} /\ c \notin Live
            /\ clients' \in [Client -> {"away", "waits", "live", "gone", "destroyed"}]
        BY <1>0, <3>3, <4>1, GivesKeeps
      <4>3. Cardinality(Live') = Cardinality(Live) + 1
        BY <4>2, LiveFinite, FS_AddElement
      <4>4. used # MaxFds
        BY <2>3, <3>3 DEF Accept
      <4>5. used' \in 0..MaxFds
        BY <1>0, <4>1, <4>4
      <4>6. server.connections + 1 \in Nat
        BY <1>0
      <4>7. server' \in ServerRecord
        BY <1>0, <4>1, <4>6 DEF ServerRecord
      <4>8. /\ server'.fd = server.fd /\ server'.connections = server.connections + 1
            /\ server'.starts = server.starts /\ server'.ticks = server.ticks
            /\ server'.listens = server.listens /\ server'.max = server.max
            /\ server'.pauseTimer = server.pauseTimer
        BY <1>0, <4>1 DEF ServerRecord
      <4>9. ServerVarsOK'
        BY <1>0, <2>0, <2>3, <3>1, <4>1, <4>2, <4>5, <4>7 DEF ServerVarsOK
      <4>10. StartsOK' /\ PausedHasDescriptor'
        BY <1>0, <3>1, <4>1, <4>8 DEF StartsOK, PausedHasDescriptor
      <4>11. ConnectionsCounted'
        BY <1>0, <3>3, <4>3, <4>8 DEF ServerInv, ConnectionsCounted, Full
      <4>12. Cardinality(Live) \in Nat
        BY LiveFinite
      <4>13. NoDescriptorLeak'
        BY <1>0, <2>0, <2>3, <4>1, <4>3, <4>8, <4>12 DEF ServerInv, NoDescriptorLeak
      <4> QED BY <4>9, <4>10, <4>11, <4>13 DEF ServerInv
    <3> QED BY <3>2, <3>3
  <2> QED BY <1>16, <2>1, <2>2, <2>3 DEF AcceptLoop
<1>17. ASSUME NEW s \in {server, PauseServer(server)}, server.fd, Rejected(s), UNCHANGED files,
              Live' = Live,
              clients' \in [Client -> {"away", "waits", "live", "gone", "destroyed"}]
       PROVE  ServerInv'
  <2>1. /\ s \in ServerRecord /\ s.fd = server.fd /\ s.connections = server.connections
        /\ s.starts = server.starts /\ s.ticks = server.ticks
        /\ s.listens = server.listens /\ s.max = server.max
    <3>1. CASE s = server
      BY <1>0, <3>1
    <3>2. CASE s = [server EXCEPT !.watcher = FALSE, !.pauseTimer = TRUE]
      <4>1. s \in ServerRecord
        BY <1>0, <3>2 DEF ServerRecord
      <4> QED BY <1>0, <3>2, <4>1 DEF ServerRecord
    <3> QED BY <3>1, <3>2 DEF PauseServer
  <2>2. /\ server' = s /\ call' = ServerIdle
        /\ used' = used + (IF call.rescue THEN GetDummyFD(used) ELSE 0)
        /\ dummyFD' = (dummyFD \/ (call.rescue /\ GetDummyFD(used) = 1))
    BY <1>17 DEF Rejected
  <2>3. call.rescue \in BOOLEAN
    BY <1>0 DEF CallRecord
  <2>4. /\ used' \in 0..MaxFds /\ dummyFD' \in BOOLEAN
        /\ used' - used = (IF server'.fd THEN 1 ELSE 0) - (IF server.fd THEN 1 ELSE 0)
                            + (IF dummyFD' THEN 1 ELSE 0) - (IF dummyFD THEN 1 ELSE 0)
    BY <1>13, <2>1, <2>2, <2>3
  <2> QED BY <1>0, <1>1, <1>17, <2>1, <2>2, <2>4, Balance
<1>18. CASE RejectPending
  <2>0. call.at = "reject" /\ UNCHANGED files /\ server.fd
    BY <1>0, <1>18 DEF RejectPending
  <2>1. ASSUME NEW c \in ServerPending, NEW r, Gives(c, r, "gone")
        PROVE  Live' = Live /\ clients' \in [Client -> {"away", "waits", "live", "gone", "destroyed"}]
    BY <1>0, <2>1, GivesKeeps
  <2>2. CASE /\ IF ServerPending = {} THEN UNCHANGED clients
                ELSE \E c \in ServerPending : Gives(c, "aborted", "gone")
             /\ Rejected(server)
    <3>1. Live' = Live /\ clients' \in [Client -> {"away", "waits", "live", "gone", "destroyed"}]
      BY <1>0, <1>2, <2>1, <2>2
    <3> QED BY <1>17, <2>0, <2>2, <3>1
  <2>3. CASE call' = ServerIdle /\ UNCHANGED <<server, used, dummyFD, clients>>
    BY <1>0, <1>1, <1>2, <1>15, <2>0, <2>3
  <2>4. CASE /\ \E c \in ServerPending : "fcntl" \in Accept /\ Gives(c, "fcntl", "gone")
             /\ call' = ServerIdle /\ UNCHANGED <<server, used, dummyFD>>
    BY <1>1, <1>15, <2>0, <2>1, <2>4
  <2>5. CASE /\ \E c \in ServerPending : "peer" \in Accept /\ Gives(c, "peer", "gone")
             /\ IF call.count + 1 > RejectLimit THEN Rejected(PauseServer(server))
                ELSE call' = [call EXCEPT !.count = @ + 1] /\ UNCHANGED <<server, used, dummyFD>>
    <3>1. Live' = Live /\ clients' \in [Client -> {"away", "waits", "live", "gone", "destroyed"}]
      BY <2>1, <2>5
    <3>2. CASE Rejected(PauseServer(server))
      BY <1>17, <2>0, <3>1, <3>2
    <3>3. CASE call' = [call EXCEPT !.count = @ + 1] /\ UNCHANGED <<server, used, dummyFD>>
      <4>1. call' \in CallRecord
        BY <1>0, <3>3 DEF CallRecord
      <4> QED BY <1>15, <2>0, <3>1, <3>3, <4>1
    <3> QED BY <2>5, <3>2, <3>3
  <2> QED BY <1>18, <2>2, <2>3, <2>4, <2>5 DEF RejectPending
<1>19. ASSUME NEW c \in Client, DestroyConnection(c) PROVE ServerInv'
  <2>0. /\ clients' = [clients EXCEPT ![c] = "destroyed"] /\ UNCHANGED <<dummyFD, files, call>>
        /\ server' = (IF clients[c] = "live" THEN [server EXCEPT !.connections = @ - 1] ELSE server)
        /\ used' = (IF clients[c] = "live" THEN used - 1 ELSE used)
    BY <1>19 DEF DestroyConnection
  <2>1. clients' \in [Client -> {"away", "waits", "live", "gone", "destroyed"}]
    BY <1>0, <2>0
  <2>2. CASE clients[c] # "live"
    <3>1. Live' = Live
      BY <1>0, <2>0, <2>2 DEF Live
    <3> QED BY <1>0, <1>15, <2>0, <2>1, <2>2, <3>1
  <2>3. CASE clients[c] = "live"
    <3>1. Live' = Live \ {c} /\ c \in Live
      BY <1>0, <2>0, <2>3 DEF Live
    <3>2. Cardinality(Live') = Cardinality(Live) - 1 /\ Cardinality(Live) \in Nat /\ Cardinality(Live') \in Nat
      <4>1. IsFiniteSet(Live')
        BY <3>1, LiveFinite, FS_RemoveElement
      <4> QED BY <3>1, <4>1, LiveFinite, FS_RemoveElement, FS_CardinalityType
    <3>3. server.connections - 1 \in Nat
      BY <1>0, <3>2 DEF ServerInv, ConnectionsCounted
    <3>4. server' = [server EXCEPT !.connections = @ - 1] /\ used' = used - 1
      BY <2>0, <2>3
    <3>5. server' \in ServerRecord
      BY <1>0, <3>3, <3>4 DEF ServerRecord
    <3>6. /\ server'.fd = server.fd /\ server'.connections = server.connections - 1
          /\ server'.starts = server.starts /\ server'.ticks = server.ticks
          /\ server'.listens = server.listens /\ server'.max = server.max
          /\ server'.pauseTimer = server.pauseTimer
      BY <1>0, <3>4 DEF ServerRecord
    <3>7. NoDescriptorLeak'
      BY <1>0, <2>0, <3>2, <3>4, <3>6 DEF ServerInv, NoDescriptorLeak
    <3>8. used' \in 0..MaxFds
      BY <1>0, <3>2, <3>4 DEF ServerInv, NoDescriptorLeak
    <3>9. ServerVarsOK'
      BY <1>0, <2>0, <2>1, <3>5, <3>8 DEF ServerVarsOK
    <3>10. StartsOK' /\ PausedHasDescriptor'
      BY <1>0, <2>0, <3>6 DEF StartsOK, PausedHasDescriptor
    <3>11. ConnectionsCounted'
      BY <1>0, <3>2, <3>6 DEF ServerInv, ConnectionsCounted
    <3> QED BY <3>7, <3>9, <3>10, <3>11 DEF ServerInv
  <2> QED BY <2>2, <2>3
<1>20. ASSUME NEW k \in Int, used' = used + k, files' = files + k, files' >= 0, used + k <= MaxFds,
              UNCHANGED <<server, dummyFD, clients, call>>
       PROVE  ServerInv'
  <2>1. Live' = Live /\ Cardinality(Live) \in Nat
    BY <1>2, <1>20, LiveFinite
  <2>2. NoDescriptorLeak'
    BY <1>0, <1>20, <2>1 DEF ServerInv, NoDescriptorLeak
  <2>3. files' \in Nat /\ used' \in 0..MaxFds
    BY <1>0, <1>20, <2>1 DEF ServerInv, NoDescriptorLeak
  <2> QED BY <1>20, <2>1, <2>2, <2>3
          DEF ServerInv, ServerVarsOK, StartsOK, ConnectionsCounted, PausedHasDescriptor
<1>21. CASE Pipe
  <2>1. PICK ok \in BOOLEAN : used' = used + MakesFds(2, ok) /\ files' = files + MakesFds(2, ok)
    BY <1>21 DEF Pipe, SetSockFlags
  <2>2. MakesFds(2, ok) \in {0, 2} /\ used + MakesFds(2, ok) <= MaxFds
    BY <1>0 DEF MakesFds
  <2>3. PICK k \in {0, 2} : k = MakesFds(2, ok)
    BY <2>2
  <2> QED BY <1>0, <1>20, <1>21, <2>1, <2>2, <2>3 DEF Pipe
<1>22. CASE OpenFile
  BY <1>0, <1>20, <1>22 DEF OpenFile
<1>23. CASE CloseFile
  <2>1. used' = used + (-1) /\ files' = files + (-1) /\ files' >= 0 /\ used + (-1) <= MaxFds
    BY <1>0, <1>23 DEF CloseFile
  <2> QED BY <1>20, <1>23, <2>1 DEF CloseFile
<1> QED
  BY <1>3, <1>4, <1>5, <1>6, <1>8, <1>9, <1>10, <1>11, <1>12, <1>14, <1>16, <1>18, <1>19, <1>21, <1>22, <1>23
  DEF ServerNext, SocketPair

\* For any limit of descriptors, clients and calls of listen: every open descriptor has an
\* owner that will close it, the connections are counted and within their limit, and a
\* paused server has its descriptor.
THEOREM ServerIsSafe == ServerSpec => []ServerSafe
<1>1. ServerInit => ServerInv
  <2> SUFFICES ASSUME ServerInit PROVE ServerInv
    OBVIOUS
  <2>1. PICK type \in ServerType, max \in 0..1 : server = NewServer(type, max)
    BY DEF ServerInit
  <2>2. server \in ServerRecord
    BY <2>1 DEF NewServer, ServerRecord
  <2>3. /\ server.starts = 0 /\ server.ticks = 0 /\ server.listens = 0 /\ server.connections = 0
        /\ ~server.fd /\ ~server.pauseTimer /\ server.max = max
    BY <2>1 DEF NewServer
  <2>4. Live = {}
    BY DEF ServerInit, Live
  <2>5. Cardinality(Live) = 0
    BY <2>4, FS_EmptySet
  <2>6. ServerVarsOK
    <3>1. call \in CallRecord
      BY DEF ServerInit, ServerIdle, CallRecord
    <3>2. clients \in [Client -> {"away", "waits", "live", "gone", "destroyed"}]
      BY DEF ServerInit
    <3>3. used = 0 /\ files = 0 /\ dummyFD = FALSE
      BY DEF ServerInit
    <3>4. used \in 0..MaxFds /\ files \in Nat
      BY <3>3, ServerAssumption
    <3> QED BY <2>2, <3>1, <3>2, <3>3, <3>4 DEF ServerVarsOK
  <2>7. StartsOK /\ PausedHasDescriptor
    BY <2>3, ServerAssumption DEF ServerInit, StartsOK, PausedHasDescriptor, ServerIdle
  <2>8. NoDescriptorLeak /\ ConnectionsCounted
    BY <2>3, <2>5 DEF ServerInit, NoDescriptorLeak, ConnectionsCounted
  <2> QED BY <2>6, <2>7, <2>8 DEF ServerInv
<1>2. ServerInv => ServerSafe
  <2> SUFFICES ASSUME ServerInv PROVE ServerSafe
    OBVIOUS
  <2>1. /\ server.starts \in Nat /\ server.ticks \in Nat /\ server.listens \in Nat
        /\ server.connections \in Nat /\ used \in 0..MaxFds /\ files \in Nat
    BY DEF ServerInv, ServerVarsOK, ServerRecord
  <2>2. Cardinality(Live) \in Nat /\ Cardinality(Live) <= Cardinality(Client) /\ Cardinality(Client) \in Nat
    BY LiveFinite, ServerAssumption, FS_CardinalityType
  <2>3. files \in 0..MaxFds
    BY <2>1, <2>2, ServerAssumption DEF ServerInv, NoDescriptorLeak
  <2>4. server.connections \in 0..Cardinality(Client)
    BY <2>1, <2>2 DEF ServerInv, ConnectionsCounted
  <2>5. server.starts \in 0..MaxListens /\ server.ticks \in 0..MaxListens
    BY <2>1, ServerAssumption DEF ServerInv, StartsOK
  <2> QED BY <2>1, <2>3, <2>4, <2>5 DEF ServerInv, ServerSafe, ServerTypeOK
<1> QED BY <1>1, <1>2, ServerStep, PTL DEF ServerSpec

-----------------------------------------------------------------------------
(* Secure contexts                                                         *)

Revocations == [by : CA, revoked : SUBSET PeerCert]

ContextRecord ==
    [handle : BOOLEAN, refs : Nat, key : OwnKey \cup {None}, cert : OwnKey \cup {None}, ca : SUBSET CA,
     crls : Seq(Revocations), thrown : {None, "earlier", "own"}]

ConnRecord ==
    [open : BOOLEAN, was : BOOLEAN, server : BOOLEAN, mode : SUBSET {"peer", "insist"},
     peer : PeerCert \cup {None},
     result : {"OK", "UNABLE_TO_GET_ISSUER_CERT_LOCALLY", "CERT_HAS_EXPIRED", "UNABLE_TO_GET_CRL", "CERT_REVOKED"},
     crls : Nat, secure : BOOLEAN, state : {"none", "failed", "unasked", "authorized", "rejected", "unauthorized"}]

OpenConns == {c \in Conn : conns[c].open}

\* The key is that of the certificate, and an authority's lists revoke its own certificates.
KeysOK(x) ==
    /\ x \in ContextRecord
    /\ x.key # None /\ x.cert # None => x.key = x.cert
    /\ Len(x.crls) <= MaxCRLs
    /\ \A i \in DOMAIN x.crls : \A p \in x.crls[i].revoked : Issuer(p) = x.crls[i].by

\* What the handshake found out still holds: a context loses no authority and no list.
Verified(h, x) ==
    h.peer # None /\ h.result = "OK" =>
        /\ h.peer # "expired" /\ Issuer(h.peer) \in x.ca
        /\ h.crls <= Len(x.crls) /\ \A i \in 1..h.crls : h.peer \notin x.crls[i].revoked

\* A connection: what it is before the handshake, after it, and after the 'secure' event.
ConnOK(h) ==
    /\ h \in ConnRecord
    /\ h.open => h.was
    /\ ~h.was => h.state = "none" /\ ~h.secure
    /\ ~h.secure => h.peer = None /\ h.state \in {"none", "failed"}
    /\ h.open /\ ~h.secure => h.state = "none"
    /\ h.state = "failed" => "insist" \in h.mode /\ h.peer = None
    /\ h.state = "unauthorized" => "insist" \notin h.mode
    /\ h.state = "authorized" => h.peer # None /\ h.result = "OK"

References == ctx.refs = Cardinality(OpenConns) + (IF ctx.handle THEN 1 ELSE 0)

ContextInv ==
    /\ KeysOK(ctx) /\ References /\ errors \in BOOLEAN
    /\ conns \in [Conn -> ConnRecord]
    /\ \A c \in Conn : ConnOK(conns[c]) /\ Verified(conns[c], ctx)

\* The open connections are finitely many.
LEMMA OpenFinite ==
    /\ IsFiniteSet(OpenConns) /\ Cardinality(OpenConns) \in Nat
    /\ Cardinality(OpenConns) <= Cardinality(Conn) /\ Cardinality(Conn) \in Nat
<1>1. OpenConns \subseteq Conn /\ IsFiniteSet(Conn)
  BY ContextAssumption DEF OpenConns
<1> QED BY <1>1, FS_Subset, FS_CardinalityType

\* The context changes and its connections do not.
LEMMA ContextChanges ==
    ASSUME ContextInv, UNCHANGED conns, errors' \in BOOLEAN, KeysOK(ctx'),
           ctx.ca \subseteq ctx'.ca, Len(ctx.crls) <= Len(ctx'.crls),
           \A i \in 1..Len(ctx.crls) : ctx'.crls[i] = ctx.crls[i],
           ctx'.refs - ctx.refs = (IF ctx'.handle THEN 1 ELSE 0) - (IF ctx.handle THEN 1 ELSE 0)
    PROVE  ContextInv'
<1>1. OpenConns' = OpenConns /\ Cardinality(OpenConns) \in Nat
  BY OpenFinite DEF OpenConns
<1>2. ctx.refs \in Nat /\ ctx'.refs \in Nat /\ ctx.handle \in BOOLEAN /\ ctx'.handle \in BOOLEAN
      /\ ctx.crls \in Seq(Revocations) /\ ctx'.crls \in Seq(Revocations)
  BY DEF ContextInv, KeysOK, ContextRecord
<1>3. References'
  BY <1>1, <1>2 DEF ContextInv, References
<1>4. ASSUME NEW c \in Conn PROVE Verified(conns[c], ctx')
  <2>1. Verified(conns[c], ctx) /\ conns[c].crls \in Nat
    BY DEF ContextInv, ConnRecord
  <2> QED BY <1>2, <2>1 DEF Verified
<1> QED BY <1>3, <1>4 DEF ContextInv

\* One connection becomes h, and the context's references follow.
LEMMA ConnChanges ==
    ASSUME ContextInv, NEW c \in Conn, NEW h, ConnOK(h), Verified(h, ctx),
           conns' = [conns EXCEPT ![c] = h], errors' \in BOOLEAN, NEW n \in Nat, ctx' = [ctx EXCEPT !.refs = n],
           n - ctx.refs = (IF h.open THEN 1 ELSE 0) - (IF conns[c].open THEN 1 ELSE 0)
    PROVE  ContextInv'
<1>1. KeysOK(ctx) /\ ctx \in ContextRecord
  BY DEF ContextInv, KeysOK
<1>2. /\ ctx' \in ContextRecord /\ ctx'.refs = n /\ ctx'.handle = ctx.handle /\ ctx'.key = ctx.key
      /\ ctx'.cert = ctx.cert /\ ctx'.ca = ctx.ca /\ ctx'.crls = ctx.crls
  BY <1>1 DEF ContextRecord
<1>3. KeysOK(ctx')
  BY <1>1, <1>2 DEF KeysOK
<1>4. conns' \in [Conn -> ConnRecord] /\ conns'[c] = h /\ \A x \in Conn \ {c} : conns'[x] = conns[x]
  BY DEF ContextInv, ConnOK
<1>5. \A x \in Conn : ConnOK(conns'[x]) /\ Verified(conns'[x], ctx')
  BY <1>2, <1>4 DEF ContextInv, Verified
<1>6. /\ h.open => OpenConns' = OpenConns \cup {c}
      /\ ~h.open => OpenConns' = OpenConns \ {c}
      /\ conns[c].open <=> c \in OpenConns
  BY <1>4 DEF OpenConns
<1>7. PICK k \in Nat : k = Cardinality(OpenConns)
  BY OpenFinite
<1>8. Cardinality(OpenConns') = k + (IF h.open THEN 1 ELSE 0) - (IF conns[c].open THEN 1 ELSE 0)
  <2>1. CASE h.open /\ c \notin OpenConns
    <3>1. Cardinality(OpenConns') = k + 1
      BY <1>6, <1>7, <2>1, OpenFinite, FS_AddElement
    <3> QED BY <1>6, <2>1, <3>1
  <2>2. CASE h.open /\ c \in OpenConns
    <3>1. OpenConns' = OpenConns
      BY <1>6, <2>2
    <3> QED BY <1>6, <1>7, <2>2, <3>1
  <2>3. CASE ~h.open /\ c \notin OpenConns
    <3>1. OpenConns' = OpenConns
      BY <1>6, <2>3
    <3> QED BY <1>6, <1>7, <2>3, <3>1
  <2>4. CASE ~h.open /\ c \in OpenConns
    <3>1. Cardinality(OpenConns') = k - 1
      BY <1>6, <1>7, <2>4, OpenFinite, FS_RemoveElement
    <3> QED BY <1>6, <2>4, <3>1
  <2> QED BY <2>1, <2>2, <2>3, <2>4
<1>9. ctx.refs \in Nat /\ ctx.refs = k + (IF ctx.handle THEN 1 ELSE 0)
  BY <1>1, <1>7 DEF ContextInv, References, ContextRecord
<1>10. References'
  BY <1>2, <1>8, <1>9 DEF References
<1> QED BY <1>3, <1>4, <1>5, <1>10 DEF ContextInv

\* What OpenSSL accepts is of an authority, in time and not revoked.
LEMMA VerifyAccepts ==
    ASSUME KeysOK(ctx), NEW cert \in PeerCert \cup {None}
    PROVE  /\ VerifyResult(cert) \in {"OK", "UNABLE_TO_GET_ISSUER_CERT_LOCALLY", "CERT_HAS_EXPIRED",
                                      "UNABLE_TO_GET_CRL", "CERT_REVOKED"}
           /\ cert # None /\ VerifyResult(cert) = "OK" =>
                /\ cert # "expired" /\ Issuer(cert) \in ctx.ca
                /\ \A i \in 1..Len(ctx.crls) : cert \notin ctx.crls[i].revoked
<1>1. ctx.crls \in Seq(Revocations) /\ DOMAIN ctx.crls = 1..Len(ctx.crls)
  BY DEF KeysOK, ContextRecord
<1>2. CASE cert = None
  BY <1>2 DEF VerifyResult
<1>3. CASE cert # None /\ Issuer(cert) \notin ctx.ca
  BY <1>3 DEF VerifyResult
<1>4. CASE cert # None /\ Issuer(cert) \in ctx.ca
  <2>1. VerifyResult(cert) =
           IF cert = "expired" THEN "CERT_HAS_EXPIRED"
           ELSE IF ctx.crls = <<>> THEN "OK"
           ELSE IF \A i \in DOMAIN ctx.crls : ctx.crls[i].by # Issuer(cert) THEN "UNABLE_TO_GET_CRL"
           ELSE IF \E i \in DOMAIN ctx.crls : ctx.crls[i].by = Issuer(cert) /\ cert \in ctx.crls[i].revoked
           THEN "CERT_REVOKED" ELSE "OK"
    BY <1>4 DEF VerifyResult
  <2>2. ASSUME VerifyResult(cert) = "OK", NEW i \in 1..Len(ctx.crls) PROVE cert \notin ctx.crls[i].revoked
    <3>1. ctx.crls # <<>> /\ i \in DOMAIN ctx.crls
      BY <1>1, <2>2
    <3>2. ~(ctx.crls[i].by = Issuer(cert) /\ cert \in ctx.crls[i].revoked)
      BY <2>1, <2>2, <3>1
    <3>3. cert \in ctx.crls[i].revoked => Issuer(cert) = ctx.crls[i].by
      BY <3>1 DEF KeysOK
    <3> QED BY <3>2, <3>3
  <2> QED BY <1>4, <2>1, <2>2
<1> QED BY <1>2, <1>3, <1>4

\* Every step keeps ContextInv.
LEMMA ContextStep == ContextInv /\ [ContextNext]_contextVars => ContextInv'
<1> SUFFICES ASSUME ContextInv, [ContextNext]_contextVars PROVE ContextInv'
  OBVIOUS
<1>0. /\ KeysOK(ctx) /\ ctx \in ContextRecord /\ References /\ errors \in BOOLEAN
      /\ conns \in [Conn -> ConnRecord]
      /\ \A c \in Conn : ConnOK(conns[c]) /\ conns[c] \in ConnRecord /\ Verified(conns[c], ctx)
      /\ ctx.refs \in Nat /\ ctx.crls \in Seq(Revocations) /\ Len(ctx.crls) \in Nat
      /\ ctx.handle \in BOOLEAN
  BY DEF ContextInv, KeysOK, ContextRecord
<1>1. ASSUME UNCHANGED conns, errors' \in BOOLEAN, KeysOK(ctx'), ctx.ca \subseteq ctx'.ca,
             ctx'.crls = ctx.crls, ctx'.refs = ctx.refs, ctx'.handle = ctx.handle
      PROVE  ContextInv'
  BY <1>0, <1>1, ContextChanges
<1>2. CASE InitContext
  <2>1. ctx = NewContext /\ ctx' = [ctx EXCEPT !.handle = TRUE, !.refs = 1] /\ UNCHANGED <<conns, errors>>
    BY <1>2 DEF InitContext
  <2>2. /\ ctx' \in ContextRecord /\ ctx'.handle = TRUE /\ ctx'.refs = 1 /\ ctx'.ca = ctx.ca
        /\ ctx'.crls = ctx.crls /\ ctx'.key = ctx.key /\ ctx'.cert = ctx.cert
    BY <1>0, <2>1 DEF ContextRecord
  <2>3. ctx.handle = FALSE /\ ctx.refs = 0
    BY <2>1 DEF NewContext
  <2>4. KeysOK(ctx')
    BY <1>0, <2>2 DEF KeysOK
  <2> QED BY <1>0, <2>1, <2>2, <2>3, <2>4, ContextChanges
<1>3. CASE BadPEM
  <2>1. errors' = TRUE /\ UNCHANGED <<ctx, conns>>
    BY <1>3 DEF BadPEM, LoadBIO
  <2> QED BY <1>0, <1>1, <2>1
<1>4. ASSUME NEW a \in CA, LoadBIO(TRUE, [ctx EXCEPT !.ca = @ \cup {a}]) PROVE ContextInv'
  <2>1. ctx' = [ctx EXCEPT !.ca = @ \cup {a}] /\ UNCHANGED <<conns, errors>>
    BY <1>4 DEF LoadBIO
  <2>2. /\ ctx' \in ContextRecord /\ ctx'.handle = ctx.handle /\ ctx'.refs = ctx.refs
        /\ ctx'.ca = ctx.ca \cup {a}
        /\ ctx'.crls = ctx.crls /\ ctx'.key = ctx.key /\ ctx'.cert = ctx.cert
    BY <1>0, <2>1 DEF ContextRecord
  <2>3. KeysOK(ctx')
    BY <1>0, <2>2 DEF KeysOK
  <2> QED BY <1>0, <1>1, <2>1, <2>2, <2>3
<1>5. CASE AddRootCerts
  BY <1>4, <1>5 DEF AddRootCerts, CA
<1>6. ASSUME NEW a \in CA, AddCACert(a) PROVE ContextInv'
  BY <1>4, <1>6 DEF AddCACert
<1>7. CASE CloseContext
  <2>1. ctx.handle /\ ctx' = [ctx EXCEPT !.handle = FALSE, !.refs = @ - 1] /\ UNCHANGED <<conns, errors>>
    BY <1>7 DEF CloseContext
  <2>2. ctx.refs - 1 \in Nat
    BY <1>0, <2>1, OpenFinite DEF References
  <2>3. /\ ctx' \in ContextRecord /\ ctx'.handle = FALSE /\ ctx'.refs = ctx.refs - 1 /\ ctx'.ca = ctx.ca
        /\ ctx'.crls = ctx.crls /\ ctx'.key = ctx.key /\ ctx'.cert = ctx.cert
    BY <1>0, <2>1, <2>2 DEF ContextRecord
  <2>4. KeysOK(ctx')
    BY <1>0, <2>3 DEF KeysOK
  <2> QED BY <1>0, <2>1, <2>3, <2>4, ContextChanges
<1>8. ASSUME NEW k \in OwnKey, SetKey(k) PROVE ContextInv'
  <2>1. CASE ctx.cert \in {None, k} /\ ctx' = [ctx EXCEPT !.key = k] /\ UNCHANGED <<conns, errors>>
    <3>1. /\ ctx' \in ContextRecord /\ ctx'.handle = ctx.handle /\ ctx'.refs = ctx.refs /\ ctx'.ca = ctx.ca
          /\ ctx'.crls = ctx.crls /\ ctx'.key = k /\ ctx'.cert = ctx.cert
      BY <1>0, <2>1 DEF ContextRecord
    <3>2. KeysOK(ctx')
      BY <1>0, <2>1, <3>1 DEF KeysOK
    <3> QED BY <1>0, <1>1, <2>1, <3>1, <3>2
  <2>2. CASE ctx' = [ctx EXCEPT !.cert = None] /\ errors' = TRUE /\ UNCHANGED conns
    <3>1. /\ ctx' \in ContextRecord /\ ctx'.handle = ctx.handle /\ ctx'.refs = ctx.refs /\ ctx'.ca = ctx.ca
          /\ ctx'.crls = ctx.crls /\ ctx'.key = ctx.key /\ ctx'.cert = None
      BY <1>0, <2>2 DEF ContextRecord
    <3>2. KeysOK(ctx')
      BY <1>0, <3>1 DEF KeysOK
    <3> QED BY <1>0, <1>1, <2>2, <3>1, <3>2
  <2> QED BY <1>8, <2>1, <2>2 DEF SetKey
<1>9. ASSUME NEW k \in OwnKey, SetCert(k) PROVE ContextInv'
  <2> DEFINE fits == ctx.key \in {None, k}
             ok == fits /\ ~errors
             key == IF fits THEN ctx.key ELSE None
             thrown == IF ok THEN None ELSE IF fits THEN "earlier" ELSE "own"
  <2>1. ctx' = [ctx EXCEPT !.cert = k, !.key = key, !.thrown = thrown] /\ UNCHANGED conns
        /\ errors' \in BOOLEAN
    BY <1>9 DEF SetCert
  <2>2. key \in OwnKey \cup {None} /\ key \in {None, k} /\ thrown \in {None, "earlier", "own"}
    BY <1>0
  <2> HIDE DEF key, thrown
  <2>3. /\ ctx' \in ContextRecord /\ ctx'.handle = ctx.handle /\ ctx'.refs = ctx.refs /\ ctx'.ca = ctx.ca
        /\ ctx'.crls = ctx.crls /\ ctx'.key = key /\ ctx'.cert = k
    BY <1>0, <2>1, <2>2 DEF ContextRecord
  <2>4. KeysOK(ctx')
    BY <1>0, <2>2, <2>3 DEF KeysOK
  <2> QED BY <1>0, <1>1, <2>1, <2>3, <2>4
<1>10. ASSUME NEW revoked \in {{}, {"a1"}}, AddCRL("A", revoked) PROVE ContextInv'
  <2> DEFINE list == [by |-> "A", revoked |-> revoked]
  <2>1. /\ ctx' = [ctx EXCEPT !.crls = Append(@, list)] /\ UNCHANGED <<conns, errors>>
        /\ Len(ctx.crls) < MaxCRLs
    BY <1>10 DEF AddCRL, LoadBIO
  <2>2. list \in Revocations /\ list.by = "A" /\ \A p \in list.revoked : Issuer(p) = "A"
    BY DEF Revocations, CA, PeerCert, Issuer
  <2> HIDE DEF list
  <2>3. PICK l \in Seq(Revocations) : l = Append(ctx.crls, list)
    BY <1>0, <2>2, AppendProperties
  <2>4. /\ Len(l) = Len(ctx.crls) + 1 /\ l[Len(ctx.crls) + 1] = list
        /\ \A i \in 1..Len(ctx.crls) : l[i] = ctx.crls[i]
        /\ DOMAIN l = 1..(Len(ctx.crls) + 1) /\ DOMAIN ctx.crls = 1..Len(ctx.crls)
    <3>1. Len(l) = Len(ctx.crls) + 1 /\ DOMAIN l = 1..Len(l) /\ DOMAIN ctx.crls = 1..Len(ctx.crls)
      BY <1>0, <2>2, <2>3
    <3>2. l[Len(ctx.crls) + 1] = list /\ \A i \in 1..Len(ctx.crls) : l[i] = ctx.crls[i]
      BY <1>0, <2>2, <2>3
    <3> QED BY <3>1, <3>2
  <2>5. ctx' = [ctx EXCEPT !.crls = l]
    BY <2>1, <2>3
  <2>6. /\ ctx' \in ContextRecord /\ ctx'.handle = ctx.handle /\ ctx'.refs = ctx.refs /\ ctx'.ca = ctx.ca
        /\ ctx'.crls = l /\ ctx'.key = ctx.key /\ ctx'.cert = ctx.cert
    BY <1>0, <2>5 DEF ContextRecord
  <2>7. Len(l) <= MaxCRLs
    BY <1>0, <2>1, <2>4, ContextAssumption
  <2>8. \A i \in DOMAIN l : \A p \in l[i].revoked : Issuer(p) = l[i].by
    <3> SUFFICES ASSUME NEW i \in DOMAIN l PROVE \A p \in l[i].revoked : Issuer(p) = l[i].by
      OBVIOUS
    <3>1. CASE i \in 1..Len(ctx.crls)
      BY <1>0, <2>4, <3>1 DEF KeysOK
    <3>2. CASE i = Len(ctx.crls) + 1
      BY <2>2, <2>4, <3>2
    <3> QED BY <1>0, <2>4, <3>1, <3>2
  <2>9. KeysOK(ctx')
    BY <1>0, <2>6, <2>7, <2>8 DEF KeysOK
  <2> QED BY <1>0, <2>1, <2>4, <2>6, <2>9, ContextChanges
<1>11. CASE UNCHANGED contextVars
  BY <1>0, <1>1, <1>11 DEF contextVars
<1>12. ASSUME NEW c \in Conn, NEW isServer \in BOOLEAN, NEW request \in BOOLEAN, NEW reject \in BOOLEAN,
              NewConnectionOf(c, isServer, request, reject)
       PROVE  ContextInv'
  <2>0. PICK p \in ConnRecord : p = conns[c] /\ ConnOK(p) /\ Verified(p, ctx)
    BY <1>0
  <2>1. PICK mode \in SUBSET {"peer", "insist"} : mode = VerifyMode(isServer, request, reject)
    BY DEF VerifyMode
  <2> DEFINE h == [p EXCEPT !.open = TRUE, !.was = TRUE, !.server = isServer, !.mode = mode]
  <2>2. /\ ~p.was /\ ctx' = [ctx EXCEPT !.refs = ctx.refs + 1] /\ conns' = [conns EXCEPT ![c] = h]
        /\ UNCHANGED errors
    BY <1>0, <1>12, <2>0, <2>1 DEF NewConnectionOf
  <2>3. /\ h \in ConnRecord /\ h.open /\ h.was /\ h.secure = p.secure /\ h.peer = p.peer
        /\ h.state = p.state /\ h.result = p.result /\ h.crls = p.crls
    BY DEF ConnRecord
  <2> HIDE DEF h
  <2>4. ConnOK(h)
    BY <2>0, <2>2, <2>3 DEF ConnOK
  <2>5. Verified(h, ctx)
    BY <2>0, <2>3 DEF Verified
  <2>6. ~p.open /\ ctx.refs + 1 \in Nat
    BY <1>0, <2>0, <2>2 DEF ConnOK
  <2>7. ctx.refs + 1 - ctx.refs = (IF h.open THEN 1 ELSE 0) - (IF conns[c].open THEN 1 ELSE 0)
    BY <1>0, <2>0, <2>3, <2>6
  <2>8. PICK n \in Nat : n = ctx.refs + 1
    BY <2>6
  <2>9. /\ ctx' = [ctx EXCEPT !.refs = n] /\ errors' \in BOOLEAN
        /\ n - ctx.refs = (IF h.open THEN 1 ELSE 0) - (IF conns[c].open THEN 1 ELSE 0)
    BY <1>0, <2>2, <2>7, <2>8
  <2>10. conns' = [conns EXCEPT ![c] = h]
    BY <2>2
  <2> QED BY <2>4, <2>5, <2>9, <2>10, ConnChanges
<1>13. ASSUME NEW c \in Conn, NEW cert \in PeerCert \cup {None}, Handshakes(c, cert) PROVE ContextInv'
  <2>0. PICK p \in ConnRecord : p = conns[c] /\ ConnOK(p) /\ Verified(p, ctx)
    BY <1>0
  <2>1. PICK sees \in PeerCert \cup {None} : sees = IF p.server /\ "peer" \notin p.mode THEN None ELSE cert
    OBVIOUS
  <2>2. PICK result : result = VerifyResult(sees)
    OBVIOUS
  <2>3. /\ result \in {"OK", "UNABLE_TO_GET_ISSUER_CERT_LOCALLY", "CERT_HAS_EXPIRED",
                       "UNABLE_TO_GET_CRL", "CERT_REVOKED"}
        /\ sees # None /\ result = "OK" =>
             /\ sees # "expired" /\ Issuer(sees) \in ctx.ca
             /\ \A i \in 1..Len(ctx.crls) : sees \notin ctx.crls[i].revoked
    BY <1>0, <2>2, VerifyAccepts
  <2> DEFINE f == [p EXCEPT !.open = FALSE, !.state = "failed"]
             h == [p EXCEPT !.secure = TRUE, !.peer = sees, !.result = result, !.crls = Len(ctx.crls)]
  <2>4. p.open /\ ~p.secure
    BY <1>13, <2>0 DEF Handshakes
  <2>5. \/ /\ sees = None /\ "insist" \in p.mode /\ errors' = TRUE
           /\ conns' = [conns EXCEPT ![c] = f] /\ ctx' = [ctx EXCEPT !.refs = ctx.refs - 1]
        \/ errors' = FALSE /\ conns' = [conns EXCEPT ![c] = h] /\ UNCHANGED ctx
    BY <1>0, <1>13, <2>0, <2>1, <2>2 DEF Handshakes, VerifyCallback
  <2>6. /\ f \in ConnRecord /\ ~f.open /\ f.was = p.was /\ f.secure = p.secure /\ f.peer = p.peer
        /\ f.state = "failed" /\ f.result = p.result /\ f.crls = p.crls /\ f.mode = p.mode
    BY DEF ConnRecord
  <2>7. /\ h \in ConnRecord /\ h.open = p.open /\ h.was = p.was /\ h.secure /\ h.peer = sees
        /\ h.state = p.state /\ h.result = result /\ h.crls = Len(ctx.crls) /\ h.mode = p.mode
    BY <1>0, <2>3 DEF ConnRecord
  <2> HIDE DEF f, h
  <2>8. CASE /\ sees = None /\ "insist" \in p.mode /\ errors' = TRUE
             /\ conns' = [conns EXCEPT ![c] = f] /\ ctx' = [ctx EXCEPT !.refs = ctx.refs - 1]
    <3>1. ConnOK(f)
      BY <2>0, <2>4, <2>6, <2>8 DEF ConnOK
    <3>2. Verified(f, ctx)
      BY <2>0, <2>6 DEF Verified
    <3>3. ctx.refs - 1 \in Nat
      <4>1. c \in OpenConns
        BY <2>0, <2>4 DEF OpenConns
      <4>2. Cardinality(OpenConns) # 0
        BY <4>1, OpenFinite, FS_EmptySet
      <4> QED BY <1>0, <4>2, OpenFinite DEF References
    <3>4. ctx.refs - 1 - ctx.refs = (IF f.open THEN 1 ELSE 0) - (IF conns[c].open THEN 1 ELSE 0)
      BY <1>0, <2>0, <2>4, <2>6
    <3> QED BY <1>0, <2>8, <3>1, <3>2, <3>3, <3>4, ConnChanges
  <2>9. CASE errors' = FALSE /\ conns' = [conns EXCEPT ![c] = h] /\ UNCHANGED ctx
    <3>1. ConnOK(h)
      BY <2>0, <2>4, <2>7 DEF ConnOK
    <3>2. Verified(h, ctx)
      BY <1>0, <2>3, <2>7 DEF Verified
    <3>3. ctx' = [ctx EXCEPT !.refs = ctx.refs]
      BY <1>0, <2>9 DEF ContextRecord
    <3>4. ctx.refs - ctx.refs = (IF h.open THEN 1 ELSE 0) - (IF conns[c].open THEN 1 ELSE 0)
      BY <1>0, <2>0, <2>4, <2>7
    <3> QED BY <1>0, <2>9, <3>1, <3>2, <3>3, <3>4, ConnChanges
  <2> QED BY <2>5, <2>8, <2>9
<1>14. ASSUME NEW c \in Conn, Secure(c) PROVE ContextInv'
  <2>0. PICK p \in ConnRecord : p = conns[c] /\ ConnOK(p) /\ Verified(p, ctx)
    BY <1>0
  <2>1. PICK state : state = IF p.server /\ "peer" \notin p.mode THEN "unasked"
                             ELSE IF VerifyError(p) = "null" THEN "authorized"
                             ELSE IF "insist" \in p.mode THEN "rejected" ELSE "unauthorized"
    OBVIOUS
  <2> DEFINE n == IF state = "rejected" THEN ctx.refs - 1 ELSE ctx.refs
             o == (state # "rejected")
             h == [p EXCEPT !.state = state, !.open = o]
  <2>2. /\ p.open /\ p.secure
        /\ conns' = [conns EXCEPT ![c].state = state, ![c].open = o] /\ ctx' = [ctx EXCEPT !.refs = n]
        /\ UNCHANGED errors
    BY <1>14, <2>0, <2>1 DEF Secure
  <2>3. state = "authorized" => p.peer # None /\ p.result = "OK"
    <3>1. p.result # "null"
      BY DEF ConnRecord
    <3> QED BY <2>1, <2>2, <3>1 DEF VerifyError
  <2>4. state = "unauthorized" => "insist" \notin p.mode
    BY <2>1
  <2>5. state \in {"unasked", "authorized", "rejected", "unauthorized"} /\ o \in BOOLEAN
    BY <2>1
  <2> HIDE DEF n, o
  <2>6. /\ h \in ConnRecord /\ h.open = o /\ h.was = p.was /\ h.secure = p.secure /\ h.peer = p.peer
        /\ h.state = state /\ h.result = p.result /\ h.crls = p.crls /\ h.mode = p.mode
    BY <2>5 DEF ConnRecord
  <2>7. conns' = [conns EXCEPT ![c] = h]
    BY <1>0, <2>0, <2>2 DEF ConnRecord
  <2> HIDE DEF h
  <2>8. ConnOK(h)
    BY <2>0, <2>2, <2>3, <2>4, <2>5, <2>6 DEF ConnOK
  <2>9. Verified(h, ctx)
    BY <2>0, <2>6 DEF Verified
  <2>10. Cardinality(OpenConns) # 0
    <3>1. c \in OpenConns
      BY <2>0, <2>2 DEF OpenConns
    <3> QED BY <3>1, OpenFinite, FS_EmptySet
  <2>11. n \in Nat /\ n - ctx.refs = (IF h.open THEN 1 ELSE 0) - (IF conns[c].open THEN 1 ELSE 0)
    <3>1. ctx.refs \in Nat /\ ctx.refs # 0
      BY <1>0, <2>10, OpenFinite DEF References
    <3>2. CASE state = "rejected"
      <4>1. n = ctx.refs - 1 /\ ~h.open
        BY <2>6, <3>2 DEF n, o
      <4> QED BY <2>0, <2>2, <3>1, <4>1
    <3>3. CASE state # "rejected"
      <4>1. n = ctx.refs /\ h.open
        BY <2>6, <3>3 DEF n, o
      <4> QED BY <2>0, <2>2, <3>1, <4>1
    <3> QED BY <3>2, <3>3
  <2> QED BY <1>0, <2>2, <2>7, <2>8, <2>9, <2>11, ConnChanges
<1>15. ASSUME NEW c \in Conn, CloseConnection(c) PROVE ContextInv'
  <2> DEFINE h == [NewConn EXCEPT !.was = TRUE]
  <2>1. /\ conns[c].open /\ conns' = [conns EXCEPT ![c] = h] /\ ctx' = [ctx EXCEPT !.refs = ctx.refs - 1]
        /\ UNCHANGED errors
    BY <1>0, <1>15 DEF CloseConnection
  <2>2. h \in ConnRecord /\ ~h.open /\ h.was /\ ~h.secure /\ h.peer = None /\ h.state = "none"
    BY DEF NewConn, ConnRecord
  <2> HIDE DEF h
  <2>3. ConnOK(h)
    BY <2>2 DEF ConnOK
  <2>4. Verified(h, ctx)
    BY <2>2 DEF Verified
  <2>5. Cardinality(OpenConns) # 0
    <3>1. c \in OpenConns
      BY <2>1 DEF OpenConns
    <3> QED BY <3>1, OpenFinite, FS_EmptySet
  <2>6. ctx.refs - 1 \in Nat
        /\ ctx.refs - 1 - ctx.refs = (IF h.open THEN 1 ELSE 0) - (IF conns[c].open THEN 1 ELSE 0)
    BY <1>0, <2>1, <2>2, <2>5, OpenFinite DEF References
  <2> QED BY <1>0, <2>1, <2>3, <2>4, <2>6, ConnChanges
<1> QED
  BY <1>2, <1>3, <1>5, <1>6, <1>7, <1>8, <1>9, <1>10, <1>11, <1>12, <1>13, <1>14, <1>15
  DEF ContextNext, SecureContextNext, ConnectionNext

\* For any connections and revocation lists: the context is referenced exactly while it or a
\* connection is open, an authorized peer was verified, and a handshake fails only for want
\* of a certificate.
THEOREM ContextIsSafe == ContextSpec => []ContextSafe
<1>1. ContextInit => ContextInv
  <2> SUFFICES ASSUME ContextInit PROVE ContextInv
    OBVIOUS
  <2>1. ctx = NewContext /\ conns = [c \in Conn |-> NewConn] /\ errors = FALSE
    BY DEF ContextInit
  <2>2. /\ ctx \in ContextRecord /\ ctx.key = None /\ ctx.crls = <<>> /\ ctx.refs = 0 /\ ~ctx.handle
    BY <2>1 DEF NewContext, ContextRecord
  <2>3. KeysOK(ctx)
    BY <2>2, ContextAssumption DEF KeysOK
  <2>4. /\ NewConn \in ConnRecord /\ ~NewConn.open /\ ~NewConn.was /\ ~NewConn.secure
        /\ NewConn.peer = None /\ NewConn.state = "none"
    BY DEF NewConn, ConnRecord
  <2>5. ConnOK(NewConn) /\ Verified(NewConn, ctx)
    BY <2>4 DEF ConnOK, Verified
  <2>6. OpenConns = {}
    BY <2>1, <2>4 DEF OpenConns
  <2>7. Cardinality(OpenConns) = 0
    BY <2>6, FS_EmptySet
  <2>8. References
    BY <2>2, <2>7 DEF References
  <2> QED BY <2>1, <2>3, <2>4, <2>5, <2>8 DEF ContextInv
<1>2. ContextInv => ContextSafe
  <2> SUFFICES ASSUME ContextInv PROVE ContextSafe
    OBVIOUS
  <2>1. /\ ctx \in ContextRecord /\ KeysOK(ctx) /\ errors \in BOOLEAN
        /\ \A c \in Conn : ConnOK(conns[c]) /\ conns[c] \in ConnRecord /\ Verified(conns[c], ctx)
    BY DEF ContextInv, KeysOK
  <2>2. ctx.refs \in 0..(Cardinality(Conn) + 1)
    BY <2>1, OpenFinite DEF ContextInv, References, ContextRecord
  <2>3. ContextTypeOK
    BY <2>1, <2>2 DEF ContextTypeOK, KeysOK, ContextRecord
  <2>4. ContextOutlivesConnections
    BY DEF ContextInv, References, OpenConns, ContextOutlivesConnections
  <2>5. AuthorizedIsVerified
    BY <2>1 DEF AuthorizedIsVerified, ConnOK, Verified, ConnRecord
  <2>6. OnlyMissingCertFails
    BY <2>1 DEF OnlyMissingCertFails, ConnOK
  <2> QED BY <2>3, <2>4, <2>5, <2>6 DEF ContextSafe
<1> QED BY <1>1, <1>2, ContextStep, PTL DEF ContextSpec

-----------------------------------------------------------------------------
(* Digests and signatures. *)

DigestRecs == [initialised : BOOLEAN, key : Key \cup {NoKey}, data : Seq(Chunk)]

CallRecs ==
    [do : {"init"}] \cup [do : {"update"}, data : Chunk]
    \cup [do : {"digest"}, is : {"none", "value", "1", "0", "-1"}, of : Seq(Chunk), key : Key \cup {NoKey}]

SignatureRecs == [of : Seq(Chunk), key : Key]

\* After the calls h an object that is initialised holds what it was given since its last
\* init, from which nothing was taken yet; what was taken earlier was of its own data.
ObjectFits(o, h) ==
    /\ o.initialised => IsGivenBy(o.data, h, Len(h)) /\ \A m \in Taken(h) : \E i \in m..Len(h) : h[i].do = "init"
    /\ \A n \in Taken(h) : IsGivenBy(h[n].of, h, n)
    /\ \A m, n \in Taken(h) : m < n => \E i \in m..n : h[i].do = "init"

WasSigned(sigs, h) == \A n \in Taken(h) : [of |-> h[n].of, key |-> h[n].key] \in sigs

DigestsInv ==
    /\ inUse \in {{"Hmac"}, {"Hash"}, {"Sign", "Verify"}}
    /\ digests \in [DigestClass -> DigestRecs]
    /\ history \in [DigestClass -> Seq(CallRecs)]
    /\ signatures \subseteq SignatureRecs
    /\ \A k \in DigestClass : ObjectFits(digests[k], history[k])
    /\ WasSigned(signatures, history["Verify"])

\* The updates are finitely many, and each has a rank among them.
LEMMA RankOfUpdate ==
    ASSUME NEW h, NEW n \in Nat
    PROVE  /\ IsFiniteSet(UpdatesSince(h, n)) /\ Cardinality(UpdatesSince(h, n)) \in Nat
           /\ \A i \in UpdatesSince(h, n) :
                Cardinality({j \in UpdatesSince(h, n) : j <= i}) \in 1..Cardinality(UpdatesSince(h, n))
<1>1. UpdatesSince(h, n) \subseteq 1..n /\ IsFiniteSet(1..n)
  BY FS_Interval DEF UpdatesSince
<1>2. PICK ups : ups = UpdatesSince(h, n)
  OBVIOUS
<1>3. IsFiniteSet(ups) /\ ups \subseteq 1..n
  BY <1>1, <1>2, FS_Subset
<1>4. PICK c \in Nat : c = Cardinality(ups)
  BY <1>3, FS_CardinalityType
<1>5. ASSUME NEW i \in ups PROVE Cardinality({j \in ups : j <= i}) \in 1..c
  <2>1. PICK low : low = {j \in ups : j <= i}
    OBVIOUS
  <2>2. low \subseteq ups /\ i \in low
    BY <1>3, <1>5, <2>1
  <2>3. PICK r \in Nat : r = Cardinality(low) /\ r <= c
    BY <1>3, <1>4, <2>2, FS_Subset, FS_CardinalityType
  <2>4. r # 0
    BY <1>3, <2>2, <2>3, FS_Subset, FS_EmptySet
  <2> QED
    BY <2>1, <2>3, <2>4
<1> QED
  BY <1>2, <1>3, <1>4, <1>5

\* One more call, as it shows.
LEMMA OneMoreCall ==
    ASSUME NEW h \in Seq(CallRecs), NEW cl \in CallRecs, NEW len \in Nat, len = Len(h)
    PROVE  /\ Append(h, cl) \in Seq(CallRecs) /\ Len(Append(h, cl)) = len + 1
           /\ DOMAIN h = 1..len /\ DOMAIN Append(h, cl) = 1..(len + 1)
           /\ Append(h, cl)[len + 1] = cl
           /\ \A i \in 1..len : Append(h, cl)[i] = h[i]
BY AppendProperties, LenProperties

\* What was given before a call does not depend on later ones.
LEMMA GivenStays ==
    ASSUME NEW h, NEW h2, NEW len \in Nat, \A i \in 1..len : h2[i] = h[i], NEW n \in 0..len, NEW data, IsGivenBy(data, h, n)
    PROVE  IsGivenBy(data, h2, n)
<1>1. UpdatesSince(h2, n) = UpdatesSince(h, n)
  BY DEF UpdatesSince
<1>2. \A i \in UpdatesSince(h, n) : h2[i] = h[i]
  BY DEF UpdatesSince
<1> QED
  BY <1>1, <1>2 DEF IsGivenBy

\* A call that takes a result gives nothing.
LEMMA TakingGivesNothing ==
    ASSUME NEW h, NEW h2, NEW len \in Nat, \A i \in 1..len : h2[i] = h[i], h2[len + 1].do = "digest",
           NEW data, IsGivenBy(data, h, len)
    PROVE  IsGivenBy(data, h2, len + 1)
<1>1. UpdatesSince(h2, len + 1) = UpdatesSince(h, len)
  <2>1. ASSUME NEW i \in 1..len PROVE i \in UpdatesSince(h2, len + 1) <=> i \in UpdatesSince(h, len)
    <3>1. \A j \in i..(len + 1) : j = len + 1 \/ (j \in 1..len /\ j \in i..len)
      OBVIOUS
    <3>2. \A j \in i..len : j \in i..(len + 1) /\ j \in 1..len
      OBVIOUS
    <3> QED
      BY <3>1, <3>2 DEF UpdatesSince
  <2>2. len + 1 \notin UpdatesSince(h2, len + 1)
    BY DEF UpdatesSince
  <2>3. UpdatesSince(h, len) \subseteq 1..len /\ UpdatesSince(h2, len + 1) \subseteq 1..(len + 1)
    BY DEF UpdatesSince
  <2>4. \A i \in 1..(len + 1) : i \in 1..len \/ i = len + 1
    OBVIOUS
  <2> QED
    BY <2>1, <2>2, <2>3, <2>4
<1>2. \A i \in UpdatesSince(h, len) : h2[i] = h[i]
  BY DEF UpdatesSince
<1> QED
  BY <1>1, <1>2 DEF IsGivenBy

\* After init nothing was given.
LEMMA NothingGivenAtInit ==
    ASSUME NEW h2, NEW len \in Nat, h2[len + 1].do = "init"
    PROVE  IsGivenBy(<<>>, h2, len + 1)
<1>1. UpdatesSince(h2, len + 1) = {}
  <2>1. \A i \in 1..(len + 1) : len + 1 \in i..(len + 1)
    OBVIOUS
  <2> QED
    BY <2>1 DEF UpdatesSince
<1>2. Len(<<>>) = 0
  OBVIOUS
<1> QED
  BY <1>1, <1>2, FS_EmptySet DEF IsGivenBy

\* An update gives its data, after all that was given.
LEMMA UpdateGives ==
    ASSUME NEW h, NEW h2, NEW len \in Nat, \A i \in 1..len : h2[i] = h[i], h2[len + 1].do = "update",
           NEW data \in Seq(Chunk), IsGivenBy(data, h, len), NEW d \in Chunk, h2[len + 1].data = d
    PROVE  IsGivenBy(Append(data, d), h2, len + 1)
<1>1. PICK ups : ups = UpdatesSince(h, len)
  OBVIOUS
<1>2. UpdatesSince(h2, len + 1) = ups \cup {len + 1}
  <2>1. ASSUME NEW i \in 1..len PROVE i \in UpdatesSince(h2, len + 1) <=> i \in UpdatesSince(h, len)
    <3>1. \A j \in i..(len + 1) : j = len + 1 \/ (j \in 1..len /\ j \in i..len)
      OBVIOUS
    <3>2. \A j \in i..len : j \in i..(len + 1) /\ j \in 1..len
      OBVIOUS
    <3> QED
      BY <3>1, <3>2 DEF UpdatesSince
  <2>2. len + 1 \in UpdatesSince(h2, len + 1)
    <3>1. \A j \in (len + 1)..(len + 1) : j = len + 1
      OBVIOUS
    <3> QED
      BY <3>1 DEF UpdatesSince
  <2>3. ups \subseteq 1..len /\ UpdatesSince(h2, len + 1) \subseteq 1..(len + 1)
    BY <1>1 DEF UpdatesSince
  <2>4. \A i \in 1..(len + 1) : i \in 1..len \/ i = len + 1
    OBVIOUS
  <2> QED
    BY <1>1, <2>1, <2>2, <2>3, <2>4
<1>3. ups \subseteq 1..len /\ IsFiniteSet(ups) /\ len + 1 \notin ups
  BY <1>1, RankOfUpdate DEF UpdatesSince
<1>4. PICK c \in Nat : c = Cardinality(ups) /\ c = Len(data)
  BY <1>1, RankOfUpdate DEF IsGivenBy
<1>5. Cardinality(ups \cup {len + 1}) = c + 1
  BY <1>3, <1>4, FS_AddElement
<1>6. PICK more : more = Append(data, d)
  OBVIOUS
<1>7. Len(more) = c + 1 /\ more[c + 1] = d /\ \A i \in 1..c : more[i] = data[i]
  BY <1>4, <1>6, AppendProperties
<1>8. ASSUME NEW i \in ups PROVE more[Cardinality({j \in ups \cup {len + 1} : j <= i})] = h2[i].data
  <2>1. {j \in ups \cup {len + 1} : j <= i} = {j \in ups : j <= i}
    BY <1>3, <1>8
  <2>2. PICK r \in 1..c : r = Cardinality({j \in ups : j <= i})
    BY <1>1, <1>4, <1>8, RankOfUpdate
  <2>3. data[r] = h[i].data
    BY <1>1, <1>8, <2>2 DEF IsGivenBy
  <2>4. h2[i] = h[i]
    BY <1>3, <1>8
  <2> QED
    BY <1>7, <2>1, <2>2, <2>3, <2>4
<1>9. more[Cardinality({j \in ups \cup {len + 1} : j <= len + 1})] = h2[len + 1].data
  <2>1. {j \in ups \cup {len + 1} : j <= len + 1} = ups \cup {len + 1}
    <3>1. \A j \in 1..len : j <= len + 1
      OBVIOUS
    <3>2. len + 1 <= len + 1
      OBVIOUS
    <3> QED
      BY <1>3, <3>1, <3>2
  <2> QED
    BY <1>5, <1>7, <2>1
<1>10. \A i \in ups \cup {len + 1} : more[Cardinality({j \in ups \cup {len + 1} : j <= i})] = h2[i].data
  BY <1>8, <1>9
<1> QED
  BY <1>2, <1>5, <1>6, <1>7, <1>10 DEF IsGivenBy

\* A step of one object.
LEMMA ObjectMoves ==
    ASSUME DigestsInv, NEW k \in DigestClass, NEW cl \in CallRecs, NEW o \in DigestRecs,
           DigestCalled(k, cl), digests' = [digests EXCEPT ![k] = o],
           signatures \subseteq signatures', signatures' \subseteq SignatureRecs,
           ObjectFits(o, Append(history[k], cl)),
           k = "Verify" => WasSigned(signatures', Append(history[k], cl))
    PROVE  DigestsInv'
<1>1. inUse' = inUse /\ history' = [history EXCEPT ![k] = Append(history[k], cl)]
  BY DEF DigestCalled
<1>2. Append(history[k], cl) \in Seq(CallRecs)
  BY AppendProperties DEF DigestsInv
<1>3. history' \in [DigestClass -> Seq(CallRecs)] /\ digests' \in [DigestClass -> DigestRecs]
  BY <1>1, <1>2 DEF DigestsInv
<1>4. ASSUME NEW j \in DigestClass PROVE ObjectFits(digests'[j], history'[j])
  <2>1. CASE j = k
    BY <1>1, <2>1 DEF DigestsInv
  <2>2. CASE j # k
    <3>1. digests'[j] = digests[j] /\ history'[j] = history[j]
      BY <1>1, <2>2 DEF DigestsInv
    <3> QED
      BY <3>1 DEF DigestsInv
  <2> QED
    BY <2>1, <2>2
<1>5. WasSigned(signatures', history'["Verify"])
  <2>1. CASE k = "Verify"
    BY <1>1, <2>1 DEF DigestsInv, DigestClass
  <2>2. CASE k # "Verify"
    <3>1. history'["Verify"] = history["Verify"]
      BY <1>1, <2>2 DEF DigestsInv, DigestClass
    <3> QED
      BY <3>1 DEF DigestsInv, WasSigned
  <2> QED
    BY <2>1, <2>2
<1> QED
  BY <1>1, <1>3, <1>4, <1>5 DEF DigestsInv

TakesNothing(cl) == cl.do # "digest" \/ cl.is \notin {"value", "1"}

\* With one more call the results that were taken, and what they are of, are the same.
SameTaken(h, h2, len, sigs) ==
    /\ Taken(h2) = Taken(h)
    /\ WasSigned(sigs, h) => WasSigned(sigs, h2)
    /\ \A n \in Taken(h) : IsGivenBy(h2[n].of, h2, n)
    /\ \A m, n \in Taken(h) : m < n => \E i \in m..n : h2[i].do = "init"
    /\ \A m \in Taken(h) : \A i \in m..len : i \in m..(len + 1) /\ h2[i] = h[i]
    /\ \A m \in Taken(h) : len + 1 \in m..(len + 1)

\* A call that takes no result.
LEMMA TakenStays ==
    ASSUME NEW h \in Seq(CallRecs), NEW cl \in CallRecs, TakesNothing(cl),
           NEW len \in Nat, len = Len(h), NEW h2, h2 = Append(h, cl),
           NEW sigs, NEW o, ObjectFits(o, h)
    PROVE  SameTaken(h, h2, len, sigs)
<1>3. /\ Len(h2) = len + 1 /\ DOMAIN h = 1..len /\ DOMAIN h2 = 1..(len + 1)
      /\ h2[len + 1] = cl /\ \A i \in 1..len : h2[i] = h[i]
  BY OneMoreCall
<1>4. Taken(h) \subseteq 1..len
  BY <1>3 DEF Taken
<1>5. Taken(h2) = Taken(h)
  <2>1. \A n \in 1..(len + 1) : n \in 1..len \/ n = len + 1
    OBVIOUS
  <2>2. len + 1 \notin Taken(h2) /\ len + 1 \notin Taken(h)
    BY <1>3, <1>4 DEF Taken, TakesNothing
  <2>3. \A n \in 1..len : n \in 1..(len + 1)
    OBVIOUS
  <2>4. \A n \in 1..len : n \in Taken(h2) <=> n \in Taken(h)
    BY <1>3, <2>3 DEF Taken
  <2>5. Taken(h2) \subseteq 1..(len + 1)
    BY <1>3 DEF Taken
  <2> QED
    BY <1>4, <2>1, <2>2, <2>4, <2>5
<1>6. ASSUME WasSigned(sigs, h) PROVE WasSigned(sigs, h2)
  BY <1>3, <1>4, <1>5, <1>6 DEF WasSigned
<1>7. ASSUME NEW n \in Taken(h) PROVE IsGivenBy(h2[n].of, h2, n)
  <2>1. n \in 1..len /\ n \in 0..len /\ h2[n] = h[n] /\ IsGivenBy(h[n].of, h, n)
    BY <1>3, <1>4, <1>7 DEF ObjectFits
  <2> QED
    BY <1>3, <2>1, GivenStays
<1>8. ASSUME NEW m \in Taken(h), NEW n \in Taken(h), m < n PROVE \E i \in m..n : h2[i].do = "init"
  <2>1. PICK i \in m..n : h[i].do = "init"
    BY <1>8 DEF ObjectFits
  <2>2. i \in 1..len
    BY <1>4, <1>8
  <2> QED
    BY <1>3, <2>1, <2>2
<1>9. ASSUME NEW m \in Taken(h), NEW i \in m..len PROVE i \in m..(len + 1) /\ h2[i] = h[i]
  <2>1. i \in 1..len /\ i \in m..(len + 1)
    BY <1>4, <1>9
  <2> QED
    BY <1>3, <2>1
<1>10. \A m \in Taken(h) : len + 1 \in m..(len + 1)
  BY <1>4
<1> QED
  BY <1>5, <1>6, <1>7, <1>8, <1>9, <1>10 DEF SameTaken

\* A result is taken: what was in the object, which is then closed.
LEMMA ResultTaken ==
    ASSUME NEW h \in Seq(CallRecs), NEW cl \in CallRecs, cl.do = "digest", NEW sigs,
           NEW o \in DigestRecs, ObjectFits(o, h), o.initialised, cl.of = o.data, NEW q, ~q.initialised
    PROVE  /\ ObjectFits(q, Append(h, cl))
           /\ WasSigned(sigs, h) /\ [of |-> cl.of, key |-> cl.key] \in sigs => WasSigned(sigs, Append(h, cl))
<1>1. PICK len \in Nat : len = Len(h)
  BY LenProperties
<1>2. PICK h2 : h2 = Append(h, cl)
  OBVIOUS
<1>3. /\ Len(h2) = len + 1 /\ DOMAIN h = 1..len /\ DOMAIN h2 = 1..(len + 1)
      /\ h2[len + 1] = cl /\ \A i \in 1..len : h2[i] = h[i]
  BY <1>1, <1>2, OneMoreCall
<1>4. Taken(h) \subseteq 1..len
  BY <1>3 DEF Taken
<1>5. \A n \in Taken(h2) : (n \in 1..len /\ n \in Taken(h)) \/ n = len + 1
  <2>1. \A n \in 1..(len + 1) : n \in 1..len \/ n = len + 1
    OBVIOUS
  <2> QED
    BY <1>3, <2>1 DEF Taken
<1>6. IsGivenBy(o.data, h, len) /\ \A m \in Taken(h) : \E i \in m..len : h[i].do = "init"
  BY <1>1 DEF ObjectFits
<1>7. ASSUME NEW n \in Taken(h2) PROVE IsGivenBy(h2[n].of, h2, n)
  <2>1. CASE n = len + 1
    <3>1. IsGivenBy(o.data, h2, len + 1)
      BY <1>3, <1>6, TakingGivesNothing
    <3> QED
      BY <1>3, <2>1, <3>1
  <2>2. CASE n \in 1..len /\ n \in Taken(h)
    <3>1. n \in 0..len /\ h2[n] = h[n] /\ IsGivenBy(h[n].of, h, n)
      BY <1>3, <2>2 DEF ObjectFits
    <3> QED
      BY <1>3, <3>1, GivenStays
  <2> QED
    BY <1>5, <1>7, <2>1, <2>2
<1>8. ASSUME NEW m \in Taken(h2), NEW n \in Taken(h2), m < n PROVE \E i \in m..n : h2[i].do = "init"
  <2>1. m \in 1..len /\ m \in Taken(h)
    BY <1>5, <1>8
  <2>2. CASE n = len + 1
    <3>1. PICK i \in m..len : h[i].do = "init"
      BY <1>6, <2>1
    <3>2. i \in m..n /\ i \in 1..len
      BY <2>1, <2>2
    <3> QED
      BY <1>3, <3>1, <3>2
  <2>3. CASE n \in 1..len /\ n \in Taken(h)
    <3>1. PICK i \in m..n : h[i].do = "init"
      BY <1>8, <2>1, <2>3 DEF ObjectFits
    <3>2. i \in 1..len
      BY <2>1, <2>3
    <3> QED
      BY <1>3, <3>1, <3>2
  <2> QED
    BY <1>5, <1>8, <2>2, <2>3
<1>9. ASSUME WasSigned(sigs, h), [of |-> cl.of, key |-> cl.key] \in sigs PROVE WasSigned(sigs, h2)
  BY <1>3, <1>5, <1>9 DEF WasSigned
<1> QED
  BY <1>2, <1>7, <1>8, <1>9 DEF ObjectFits

\* A call that takes no result and leaves the object as it is, or closes it.
LEMMA NothingTaken ==
    ASSUME NEW h \in Seq(CallRecs), NEW cl \in CallRecs, cl.do = "digest", cl.is \notin {"value", "1"}, NEW sigs,
           NEW o \in DigestRecs, ObjectFits(o, h), NEW q \in DigestRecs, q.initialised => q.data = o.data /\ o.initialised
    PROVE  /\ ObjectFits(q, Append(h, cl))
           /\ WasSigned(sigs, h) => WasSigned(sigs, Append(h, cl))
<1>1. PICK len \in Nat : len = Len(h)
  BY LenProperties
<1>2. PICK h2 : h2 = Append(h, cl)
  OBVIOUS
<1>3. /\ Len(h2) = len + 1 /\ h2[len + 1] = cl /\ \A i \in 1..len : h2[i] = h[i]
  BY <1>1, <1>2, OneMoreCall
<1>4. SameTaken(h, h2, len, sigs)
  <2>1. TakesNothing(cl)
    BY DEF TakesNothing
  <2> QED
    BY <1>1, <1>2, <2>1, TakenStays
<1>5. ASSUME q.initialised
      PROVE  IsGivenBy(q.data, h2, len + 1) /\ \A m \in Taken(h2) : \E i \in m..(len + 1) : h2[i].do = "init"
  <2>1. IsGivenBy(o.data, h, len) /\ \A m \in Taken(h) : \E i \in m..len : h[i].do = "init"
    BY <1>1, <1>5 DEF ObjectFits
  <2>2. IsGivenBy(o.data, h2, len + 1)
    BY <1>3, <2>1, TakingGivesNothing
  <2>3. ASSUME NEW m \in Taken(h) PROVE \E i \in m..(len + 1) : h2[i].do = "init"
    <3>1. PICK i \in m..len : h[i].do = "init"
      BY <2>1, <2>3
    <3> QED
      BY <1>4, <2>3, <3>1 DEF SameTaken
  <2> QED
    BY <1>4, <1>5, <2>2, <2>3 DEF SameTaken
<1>6. ObjectFits(q, h2)
  BY <1>3, <1>4, <1>5 DEF ObjectFits, SameTaken
<1> QED
  BY <1>2, <1>4, <1>6 DEF SameTaken

\* No object was used.
LEMMA DigestsStart == DigestsInit => DigestsInv
<1>1. SUFFICES ASSUME DigestsInit PROVE DigestsInv
  OBVIOUS
<1>2. PICK none : none = <<>>
  OBVIOUS
<1>3. none \in Seq(CallRecs) /\ none \in Seq(Chunk) /\ Len(none) = 0 /\ DOMAIN none = {}
  <2>1. none \in Seq(CallRecs) /\ none \in Seq(Chunk) /\ Len(none) = 0
    BY <1>2
  <2>2. DOMAIN none = 1..0
    BY <2>1, LenProperties
  <2> QED
    BY <2>1, <2>2
<1>4. history = [k \in DigestClass |-> none] /\ signatures = {} /\ inUse \in {{"Hmac"}, {"Hash"}, {"Sign", "Verify"}}
  BY <1>1, <1>2 DEF DigestsInit
<1>5. PICK known \in BOOLEAN : digests = [k \in DigestClass |-> [NewDigest EXCEPT !.initialised = (k = "Hash" /\ known)]]
  BY <1>1 DEF DigestsInit
<1>6. PICK fresh \in DigestRecs : fresh = NewDigest /\ fresh.data = none
  <2>1. NewDigest = [initialised |-> FALSE, key |-> NoKey, data |-> none]
    BY <1>2 DEF NewDigest
  <2>2. PICK fresh : fresh = [initialised |-> FALSE, key |-> NoKey, data |-> none]
    OBVIOUS
  <2>3. fresh \in DigestRecs /\ fresh.data = none
    BY <1>3, <2>2 DEF DigestRecs
  <2> QED
    BY <2>1, <2>2, <2>3
<1>7. ASSUME NEW k \in DigestClass PROVE digests[k] \in DigestRecs /\ digests[k].data = none
  <2>1. PICK b \in BOOLEAN : b = (k = "Hash" /\ known)
    OBVIOUS
  <2>2. digests[k] = [fresh EXCEPT !.initialised = b]
    BY <1>5, <1>6, <1>7, <2>1
  <2> QED
    BY <1>6, <2>2 DEF DigestRecs
<1>8. digests \in [DigestClass -> DigestRecs]
  BY <1>5, <1>7
<1>9. Taken(none) = {} /\ IsGivenBy(none, none, 0)
  <2>1. UpdatesSince(none, 0) = {}
    BY DEF UpdatesSince
  <2> QED
    BY <1>3, <2>1, FS_EmptySet DEF Taken, IsGivenBy
<1>10. ASSUME NEW k \in DigestClass PROVE ObjectFits(digests[k], history[k])
  BY <1>3, <1>4, <1>7, <1>9 DEF ObjectFits
<1>11. WasSigned(signatures, history["Verify"])
  BY <1>4, <1>9 DEF WasSigned, DigestClass
<1> QED
  BY <1>3, <1>4, <1>8, <1>10, <1>11 DEF DigestsInv

\* What the invariant says of one object.
LEMMA ObjectNamed ==
    ASSUME DigestsInv, NEW k \in DigestClass
    PROVE  \E o \in DigestRecs, h \in Seq(CallRecs) : o = digests[k] /\ h = history[k] /\ ObjectFits(o, h)
BY DEF DigestsInv

\* init: a new context.
LEMMA StartedKeeps ==
    ASSUME DigestsInv, NEW k \in DigestClass, NEW key \in Key \cup {NoKey},
           DigestCalled(k, [do |-> "init"]), Started(k, key), UNCHANGED signatures
    PROVE  DigestsInv'
<1>1. PICK o \in DigestRecs, h \in Seq(CallRecs) : o = digests[k] /\ h = history[k] /\ ObjectFits(o, h)
  BY ObjectNamed
<1>2. PICK cl : cl = [do |-> "init"]
  OBVIOUS
<1>3. cl \in CallRecs /\ cl.do = "init"
  BY <1>2 DEF CallRecs
<1>4. PICK none : none = <<>>
  OBVIOUS
<1>5. PICK q : q = [initialised |-> TRUE, key |-> key, data |-> none]
  OBVIOUS
<1>6. q \in DigestRecs /\ q.data = none
  BY <1>4, <1>5 DEF DigestRecs
<1>7. digests' = [digests EXCEPT ![k] = q]
  BY <1>4, <1>5 DEF Started
<1>8. PICK len \in Nat : len = Len(h)
  BY LenProperties
<1>9. PICK h2 : h2 = Append(h, cl)
  OBVIOUS
<1>10. /\ Len(h2) = len + 1 /\ h2[len + 1] = cl /\ \A i \in 1..len : h2[i] = h[i]
  BY <1>3, <1>8, <1>9, OneMoreCall
<1>11. SameTaken(h, h2, len, signatures)
  <2>1. TakesNothing(cl)
    BY <1>3 DEF TakesNothing
  <2> QED
    BY <1>1, <1>3, <1>8, <1>9, <2>1, TakenStays
<1>12. IsGivenBy(none, h2, len + 1)
  BY <1>3, <1>4, <1>10, NothingGivenAtInit
<1>13. ObjectFits(q, h2)
  BY <1>3, <1>6, <1>10, <1>11, <1>12 DEF ObjectFits, SameTaken
<1>14. k = "Verify" => WasSigned(signatures', h2)
  BY <1>1, <1>11 DEF DigestsInv, SameTaken
<1>15. DigestCalled(k, cl)
  BY <1>2
<1>16. signatures \subseteq signatures' /\ signatures' \subseteq SignatureRecs
  BY DEF DigestsInv
<1> QED
  BY <1>1, <1>3, <1>6, <1>7, <1>9, <1>13, <1>14, <1>15, <1>16, ObjectMoves

\* update: one more piece of data.
LEMMA UpdateKeeps == ASSUME DigestsInv, NEW k \in DigestClass, NEW d \in Chunk, Update(k, d) PROVE DigestsInv'
<1>1. PICK o \in DigestRecs, h \in Seq(CallRecs) : o = digests[k] /\ h = history[k] /\ ObjectFits(o, h)
  BY ObjectNamed
<1>2. PICK cl : cl = [do |-> "update", data |-> d]
  OBVIOUS
<1>3. cl \in CallRecs /\ cl.do = "update" /\ cl.data = d
  BY <1>2 DEF CallRecs
<1>4. PICK more \in Seq(Chunk) : more = Append(o.data, d)
  BY AppendProperties DEF DigestRecs
<1>5. PICK q : q = [o EXCEPT !.data = more]
  OBVIOUS
<1>6. q \in DigestRecs /\ q.data = more
  BY <1>5 DEF DigestRecs
<1>7. digests' = [digests EXCEPT ![k] = q] /\ o.initialised /\ signatures' = signatures /\ DigestCalled(k, cl)
  BY <1>1, <1>2, <1>4, <1>5 DEF Update
<1>8. PICK len \in Nat : len = Len(h)
  BY LenProperties
<1>9. PICK h2 : h2 = Append(h, cl)
  OBVIOUS
<1>10. /\ Len(h2) = len + 1 /\ h2[len + 1] = cl /\ \A i \in 1..len : h2[i] = h[i]
  BY <1>3, <1>8, <1>9, OneMoreCall
<1>11. SameTaken(h, h2, len, signatures)
  <2>1. TakesNothing(cl)
    BY <1>3 DEF TakesNothing
  <2> QED
    BY <1>1, <1>3, <1>8, <1>9, <2>1, TakenStays
<1>12. IsGivenBy(o.data, h, len) /\ \A m \in Taken(h) : \E i \in m..len : h[i].do = "init"
  BY <1>1, <1>7, <1>8 DEF ObjectFits
<1>13. IsGivenBy(more, h2, len + 1)
  <2>1. o.data \in Seq(Chunk)
    BY DEF DigestRecs
  <2>2. h2[len + 1].do = "update" /\ h2[len + 1].data = d
    BY <1>3, <1>10
  <2>3. IsGivenBy(Append(o.data, d), h2, len + 1)
    BY <1>10, <1>12, <2>1, <2>2, UpdateGives
  <2> QED
    BY <1>4, <2>3
<1>14. ASSUME NEW m \in Taken(h) PROVE \E i \in m..(len + 1) : h2[i].do = "init"
  <2>1. PICK i \in m..len : h[i].do = "init"
    BY <1>12, <1>14
  <2> QED
    BY <1>11, <1>14, <2>1 DEF SameTaken
<1>15. ObjectFits(q, h2)
  BY <1>6, <1>10, <1>11, <1>13, <1>14 DEF ObjectFits, SameTaken
<1>16. k = "Verify" => WasSigned(signatures', h2)
  BY <1>1, <1>7, <1>11 DEF DigestsInv, SameTaken
<1>17. signatures \subseteq signatures' /\ signatures' \subseteq SignatureRecs
  BY <1>7 DEF DigestsInv
<1> QED
  BY <1>1, <1>3, <1>6, <1>7, <1>9, <1>15, <1>16, <1>17, ObjectMoves

\* A result is taken out of an initialised object.
LEMMA ResultKeeps ==
    ASSUME DigestsInv, NEW k \in DigestClass, NEW is \in {"none", "value", "1", "0", "-1"}, NEW key \in Key \cup {NoKey},
           NEW of, of = digests[k].data, digests[k].initialised,
           DigestCalled(k, Result(is, of, key)), Finished(k),
           signatures \subseteq signatures', signatures' \subseteq SignatureRecs,
           k = "Verify" => [of |-> of, key |-> key] \in signatures'
    PROVE  DigestsInv'
<1>1. PICK o \in DigestRecs, h \in Seq(CallRecs) : o = digests[k] /\ h = history[k] /\ ObjectFits(o, h)
  BY ObjectNamed
<1>2. PICK cl : cl = Result(is, of, key)
  OBVIOUS
<1>3. cl \in CallRecs /\ cl.do = "digest" /\ cl.of = o.data /\ cl.key = key /\ of \in Seq(Chunk)
  BY <1>1, <1>2 DEF CallRecs, Result, DigestRecs
<1>4. PICK q : q = [o EXCEPT !.initialised = FALSE]
  OBVIOUS
<1>5. q \in DigestRecs /\ ~q.initialised
  BY <1>4 DEF DigestRecs
<1>6. digests' = [digests EXCEPT ![k] = q]
  BY <1>1, <1>4 DEF Finished
<1>7. /\ ObjectFits(q, Append(h, cl))
      /\ WasSigned(signatures', h) /\ [of |-> cl.of, key |-> cl.key] \in signatures' => WasSigned(signatures', Append(h, cl))
  BY <1>1, <1>3, <1>5, ResultTaken
<1>8. k = "Verify" => WasSigned(signatures', h) /\ [of |-> cl.of, key |-> cl.key] \in signatures'
  BY <1>1, <1>3 DEF DigestsInv, WasSigned
<1>9. DigestCalled(k, cl)
  BY <1>2
<1> QED
  BY <1>1, <1>3, <1>5, <1>6, <1>7, <1>8, <1>9, ObjectMoves

\* A call takes no result, and closes the object or leaves it open.
LEMMA NoResultKeeps ==
    ASSUME DigestsInv, NEW k \in DigestClass, NEW is \in {"none", "0", "-1"}, NEW key \in Key \cup {NoKey},
           NEW of \in Seq(Chunk), DigestCalled(k, Result(is, of, key)), Finished(k) \/ UNCHANGED digests,
           UNCHANGED signatures
    PROVE  DigestsInv'
<1>1. PICK o \in DigestRecs, h \in Seq(CallRecs) : o = digests[k] /\ h = history[k] /\ ObjectFits(o, h)
  BY ObjectNamed
<1>2. PICK cl : cl = Result(is, of, key)
  OBVIOUS
<1>3. cl \in CallRecs /\ cl.do = "digest" /\ cl.is \notin {"value", "1"}
  BY <1>2 DEF CallRecs, Result
<1>4. PICK q \in DigestRecs : /\ digests' = [digests EXCEPT ![k] = q]
                              /\ q.initialised => q.data = o.data /\ o.initialised
  <2>1. CASE Finished(k)
    <3>1. PICK q : q = [o EXCEPT !.initialised = FALSE]
      OBVIOUS
    <3>2. q \in DigestRecs /\ ~q.initialised
      BY <3>1 DEF DigestRecs
    <3>3. digests' = [digests EXCEPT ![k] = q]
      BY <1>1, <2>1, <3>1 DEF Finished
    <3> QED
      BY <3>2, <3>3
  <2>2. CASE UNCHANGED digests
    BY <1>1, <2>2 DEF DigestsInv
  <2> QED
    BY <2>1, <2>2
<1>5. /\ ObjectFits(q, Append(h, cl))
      /\ WasSigned(signatures, h) => WasSigned(signatures, Append(h, cl))
  BY <1>1, <1>3, <1>4, NothingTaken
<1>6. k = "Verify" => WasSigned(signatures', Append(h, cl))
  BY <1>1, <1>5 DEF DigestsInv
<1>7. signatures \subseteq signatures' /\ signatures' \subseteq SignatureRecs
  BY DEF DigestsInv
<1>8. DigestCalled(k, cl)
  BY <1>2
<1> QED
  BY <1>1, <1>3, <1>4, <1>5, <1>6, <1>7, <1>8, ObjectMoves

\* The calls that have no result to give.
LEMMA NoResultIs == NoResult = Result("none", <<>>, NoKey) /\ <<>> \in Seq(Chunk)
BY DEF NoResult

\* digest of Hmac.
LEMMA HmacDigestKeeps == ASSUME DigestsInv, NEW known \in BOOLEAN, HmacDigest(known) PROVE DigestsInv'
<1>0. "Hmac" \in DigestClass /\ "Hmac" # "Verify"
  BY DEF DigestClass
<1>1. PICK o \in DigestRecs, h \in Seq(CallRecs) : o = digests["Hmac"] /\ h = history["Hmac"] /\ ObjectFits(o, h)
  BY <1>0, ObjectNamed
<1>2. /\ IF o.initialised THEN Finished("Hmac") ELSE UNCHANGED digests
      /\ DigestCalled("Hmac", IF o.initialised /\ known THEN Result("value", o.data, o.key) ELSE NoResult)
      /\ UNCHANGED signatures
  BY <1>1 DEF HmacDigest
<1>3. CASE o.initialised /\ known
  <2>1. DigestCalled("Hmac", Result("value", o.data, o.key)) /\ Finished("Hmac") /\ digests["Hmac"].initialised
    BY <1>1, <1>2, <1>3
  <2>2. o.key \in Key \cup {NoKey} /\ o.data = digests["Hmac"].data
    BY <1>1 DEF DigestRecs
  <2>3. signatures \subseteq signatures' /\ signatures' \subseteq SignatureRecs
    BY <1>2 DEF DigestsInv
  <2> QED
    BY <1>0, <2>1, <2>2, <2>3, ResultKeeps
<1>4. CASE ~(o.initialised /\ known)
  <2>1. DigestCalled("Hmac", Result("none", <<>>, NoKey)) /\ (Finished("Hmac") \/ UNCHANGED digests)
    BY <1>2, <1>4, NoResultIs
  <2> QED
    BY <1>0, <1>2, <2>1, NoResultIs, NoResultKeeps
<1> QED
  BY <1>3, <1>4

\* digest of Hash.
LEMMA HashDigestKeeps == ASSUME DigestsInv, NEW known \in BOOLEAN, HashDigest(known) PROVE DigestsInv'
<1>0. "Hash" \in DigestClass /\ "Hash" # "Verify"
  BY DEF DigestClass
<1>1. PICK o \in DigestRecs, h \in Seq(CallRecs) : o = digests["Hash"] /\ h = history["Hash"] /\ ObjectFits(o, h)
  BY <1>0, ObjectNamed
<1>2. /\ o.initialised /\ Finished("Hash") /\ UNCHANGED signatures
      /\ DigestCalled("Hash", IF known THEN Result("value", o.data, NoKey) ELSE NoResult)
  BY <1>1 DEF HashDigest
<1>3. CASE known
  <2>1. DigestCalled("Hash", Result("value", o.data, NoKey)) /\ digests["Hash"].initialised /\ o.data = digests["Hash"].data
    BY <1>1, <1>2, <1>3
  <2>2. signatures \subseteq signatures' /\ signatures' \subseteq SignatureRecs
    BY <1>2 DEF DigestsInv
  <2> QED
    BY <1>0, <1>2, <2>1, <2>2, ResultKeeps
<1>4. CASE ~known
  <2>1. DigestCalled("Hash", Result("none", <<>>, NoKey))
    BY <1>2, <1>4, NoResultIs
  <2> QED
    BY <1>0, <1>2, <2>1, NoResultIs, NoResultKeeps
<1> QED
  BY <1>3, <1>4

\* sign.
LEMMA SignFinalKeeps ==
    ASSUME DigestsInv, NEW key \in Key \cup {NoKey}, NEW known \in BOOLEAN, SignFinal(key, known) PROVE DigestsInv'
<1>0. "Sign" \in DigestClass /\ "Sign" # "Verify"
  BY DEF DigestClass
<1>1. PICK o \in DigestRecs, h \in Seq(CallRecs) : o = digests["Sign"] /\ h = history["Sign"] /\ ObjectFits(o, h)
  BY <1>0, ObjectNamed
<1>2. CASE o.initialised /\ key # NoKey /\ known
  <2>1. /\ Finished("Sign") /\ DigestCalled("Sign", Result("value", o.data, key))
        /\ signatures' = signatures \cup {[of |-> o.data, key |-> key]}
    BY <1>1, <1>2 DEF SignFinal
  <2>2. [of |-> o.data, key |-> key] \in SignatureRecs
    BY <1>2 DEF SignatureRecs, DigestRecs
  <2>3. signatures \subseteq signatures' /\ signatures' \subseteq SignatureRecs
    BY <2>1, <2>2 DEF DigestsInv
  <2>4. digests["Sign"].initialised /\ o.data = digests["Sign"].data
    BY <1>1, <1>2
  <2> QED
    BY <1>0, <2>1, <2>3, <2>4, ResultKeeps
<1>3. CASE o.initialised /\ key # NoKey /\ ~known
  <2>1. Finished("Sign") /\ DigestCalled("Sign", Result("none", <<>>, NoKey)) /\ signatures' = signatures
    BY <1>1, <1>3, NoResultIs DEF SignFinal
  <2> QED
    BY <1>0, <2>1, NoResultIs, NoResultKeeps
<1>4. CASE ~(o.initialised /\ key # NoKey)
  <2>1. DigestCalled("Sign", Result("none", <<>>, NoKey)) /\ UNCHANGED <<digests, signatures>>
    BY <1>1, <1>4, NoResultIs DEF SignFinal
  <2> QED
    BY <1>0, <2>1, NoResultIs, NoResultKeeps
<1> QED
  BY <1>2, <1>3, <1>4

\* verify.
LEMMA VerifyFinalKeeps ==
    ASSUME DigestsInv, NEW key \in Key \cup {NoKey}, NEW s \in signatures, NEW e \in {"same", "other", "unknown"},
           VerifyFinal(key, s, e)
    PROVE  DigestsInv'
<1>0. "Verify" \in DigestClass
  BY DEF DigestClass
<1>1. PICK o \in DigestRecs, h \in Seq(CallRecs) : o = digests["Verify"] /\ h = history["Verify"] /\ ObjectFits(o, h)
  BY <1>0, ObjectNamed
<1>2. s \in SignatureRecs /\ s.of \in Seq(Chunk) /\ signatures' = signatures /\ signatures \subseteq SignatureRecs
  BY DEF DigestsInv, SignatureRecs, VerifyFinal
<1>3. CASE \E r \in {"0", "-1"} : DigestCalled("Verify", Result(r, s.of, key)) /\ (Finished("Verify") \/ UNCHANGED digests)
  BY <1>0, <1>2, <1>3, NoResultKeeps
<1>4. CASE Verifies(key, s) /\ o.initialised /\ DigestCalled("Verify", Result("1", s.of, key)) /\ Finished("Verify")
  <2>1. s = [of |-> o.data, key |-> key]
    BY <1>1, <1>4 DEF Verifies
  <2>2. s.of = o.data /\ s.of = digests["Verify"].data /\ digests["Verify"].initialised
    BY <1>1, <1>4, <2>1
  <2>3. [of |-> s.of, key |-> key] \in signatures'
    BY <1>2, <2>1, <2>2
  <2>4. signatures \subseteq signatures' /\ signatures' \subseteq SignatureRecs
    BY <1>2
  <2> QED
    BY <1>0, <1>4, <2>2, <2>3, <2>4, ResultKeeps
<1> QED
  BY <1>1, <1>3, <1>4 DEF VerifyFinal

\* Hash, Hmac, Sign and Verify, for any data, keys and number of calls: a result is of the data
\* since the last init, in order and complete, verify agrees only with what Sign signed with the
\* key of the certificate, and at most one result is taken between two inits.
THEOREM DigestsAreSafe == DigestsSpec => []DigestsSafe
<1>1. DigestsInit => DigestsInv
  BY DigestsStart
<1>2. DigestsInv /\ [DigestsNext]_digestVars => DigestsInv'
  <2>1. SUFFICES ASSUME DigestsInv, [DigestsNext]_digestVars PROVE DigestsInv'
    OBVIOUS
  <2>2. "Hmac" \in DigestClass /\ "Hash" \in DigestClass /\ "Sign" \in DigestClass /\ "Verify" \in DigestClass
    BY DEF DigestClass
  <2>3. CASE (\E key \in Key : HmacInit(key)) \/ SignInit \/ VerifyInit
    BY <2>1, <2>2, <2>3, StartedKeeps DEF HmacInit, SignInit, VerifyInit
  <2>4. CASE \E d \in Chunk : HmacUpdate(d) \/ HashUpdate(d) \/ SignUpdate(d) \/ VerifyUpdate(d)
    BY <2>1, <2>2, <2>4, UpdateKeeps DEF HmacUpdate, HashUpdate, SignUpdate, VerifyUpdate
  <2>5. CASE \E known \in BOOLEAN : HmacDigest(known) \/ HashDigest(known)
    BY <2>1, <2>5, HmacDigestKeeps, HashDigestKeeps
  <2>6. CASE \E key \in Key \cup {NoKey}, known \in BOOLEAN : SignFinal(key, known)
    BY <2>1, <2>6, SignFinalKeeps
  <2>7. CASE \E key \in Key \cup {NoKey}, s \in signatures, e \in {"same", "other", "unknown"} : VerifyFinal(key, s, e)
    BY <2>1, <2>7, VerifyFinalKeeps
  <2>8. CASE UNCHANGED digestVars
    BY <2>1, <2>8 DEF digestVars, DigestsInv
  <2> QED
    BY <2>1, <2>3, <2>4, <2>5, <2>6, <2>7, <2>8 DEF DigestsNext, HmacNext, HashNext, SignNext, VerifyNext
<1>3. DigestsInv => DigestsSafe
  <2>1. SUFFICES ASSUME DigestsInv PROVE DigestsSafe
    OBVIOUS
  <2>2. DigestsTypeOK
    BY <2>1 DEF DigestsInv, DigestsTypeOK, DigestRecs, SignatureRecs
  <2>3. DigestOfItsData
    BY <2>1 DEF DigestsInv, DigestOfItsData, ObjectFits, DigestClass
  <2>4. VerifiedWasSigned
    BY <2>1 DEF DigestsInv, VerifiedWasSigned, ObjectFits, WasSigned, DigestClass
  <2>5. OneResultPerInit
    BY <2>1 DEF DigestsInv, OneResultPerInit, ObjectFits
  <2> QED
    BY <2>2, <2>3, <2>4, <2>5 DEF DigestsSafe
<1> QED
  BY <1>1, <1>2, <1>3, PTL DEF DigestsSpec

-----------------------------------------------------------------------------
(* Secure pairs.                                                           *)
(*                                                                         *)
(* A secure pair is safe for any number of writes and wherever the records *)
(* are cut on the wire: TlsIsSafe.                                         *)
(*                                                                         *)
(* The argument counts.  Each end writes its records in one order: two of  *)
(* the handshake, the writes of its application, close_notify.  The other  *)
(* end has taken so many of them, and what it has in its BIO, what is on   *)
(* the wire and what waits in the BIO of the sender are, fragment for      *)
(* fragment, those that come next (Carries).  Every call is then one of a  *)
(* few things in each direction: a record is put, taken, moved on or lost  *)
(* with an end that closes.                                                *)

-----------------------------------------------------------------------------
(* What holds between the calls.                                           *)

\* A fragment, a write that waits, or the end.
Fragment == {"handshake", "data", "close", "alert", "end"} \X Nat \X Nat

\* A Connection and its stream pair.
TlsConnection ==
    [open : BOOLEAN, started : BOOLEAN, flight : Nat, bio_read : Seq(Fragment), bio_write : Seq(Fragment),
     sentShutdown : BOOLEAN, receivedShutdown : BOOLEAN, error : BOOLEAN,
     written : Nat, pending : Seq(Fragment), ended : BOOLEAN,
     cleartextDone : BOOLEAN, encryptedDone : BOOLEAN, destroyAfterPush : BOOLEAN,
     encryptedEnded : BOOLEAN]

\* One, if it is so.
OneIf(b) == IF b THEN 1 ELSE 0

\* Fragment h of the n-th record that p sends, when its application has written so many
\* times: two of the handshake, then the writes, then close_notify.
Piece(p, written, n, h) ==
    IF n <= 2 THEN <<"handshake", IF p = "client" THEN 2 * n - 1 ELSE 2 * n, h>>
    ELSE IF n - 2 <= written THEN <<"data", n - 2, h>>
    ELSE <<"close", 0, h>>

\* The first l fragments of s are those of p from the one after the k-th.
Runs(p, written, s, l, k) ==
    \A i \in 1..l : \A n \in Nat \ {0} :
        /\ k + i = 2 * n - 1 => s[i] = Piece(p, written, n, 1)
        /\ k + i = 2 * n => s[i] = Piece(p, written, n, 2)

\* The writes of the application that wait.
EndWaits(c) == c.ended /\ ~c.destroyAfterPush

\* How many writes wait: all in the queue but its end.
WritesWait(c) == Len(c.pending) - OneIf(EndWaits(c))

\* The records of the handshake that p has sent after a flight.
FlightsPut(p, f) ==
    IF p = "client" THEN (IF f = 0 THEN 0 ELSE IF f = 1 THEN 1 ELSE 2)
    ELSE (IF f = 0 THEN 0 ELSE IF f = 2 THEN 1 ELSE 2)

\* The same of the records of the handshake that p has taken.
FlightsTaken(p, f) ==
    IF p = "client" THEN (IF f \in {0, 1} THEN 0 ELSE IF f = 3 THEN 1 ELSE 2)
    ELSE (IF f = 0 THEN 0 ELSE IF f = 2 THEN 1 ELSE 2)

\* The records p has written to its BIO: of the handshake, the writes that no longer wait,
\* and close_notify.
PutBy(p, c) == FlightsPut(p, c.flight) + (c.written - WritesWait(c)) + OneIf(c.sentShutdown)

\* The records p has taken: of the handshake, the writes it got, and close_notify.
TakenBy(p, c, got) == FlightsTaken(p, c.flight) + Len(got) + OneIf(c.receivedShutdown)

\* One direction: the sender p with what it wrote (bw) and has put on the wire (w), the
\* reader with what it was given (br) and has taken of that.
Carries(p, sopen, written, put, bw, w, ropen, br, taken) ==
    /\ taken <= put
    /\ ~sopen => Len(w) >= 1 /\ w[Len(w)] = EndOfFile
    /\ ropen =>
         /\ Runs(p, written, br, Len(br), 2 * taken)
         /\ Runs(p, written, w, Len(w) - OneIf(~sopen), 2 * taken + Len(br))
         /\ 2 * taken + Len(br) + Len(w) - OneIf(~sopen) <= 2 * put
         /\ sopen =>
              /\ Runs(p, written, bw, Len(bw), 2 * taken + Len(br) + Len(w))
              /\ 2 * taken + Len(br) + Len(w) + Len(bw) = 2 * put

\* One connection, also in the middle of a call.
SideShape(p, c, got) ==
    /\ c.flight \in (IF p = "client" THEN {0, 1, 3, 4} ELSE {0, 2, 4})
    /\ c.written <= TlsMaxWrites
    /\ got = [i \in 1..Len(got) |-> i]
    /\ Len(got) <= TlsMaxWrites
    /\ WritesWait(c) \in 0..c.written
    /\ \A i \in 1..WritesWait(c) : c.pending[i] = <<"data", c.written - WritesWait(c) + i, 0>>
    /\ EndWaits(c) => c.pending[Len(c.pending)] = EndOfFile
    /\ c.destroyAfterPush => c.ended /\ c.pending = <<>>
    /\ c.sentShutdown => c.destroyAfterPush
    /\ c.flight # Flights =>
         /\ got = <<>> /\ ~c.receivedShutdown
         /\ WritesWait(c) = c.written /\ ~c.sentShutdown

\* An open pair between two calls: one of its streams is not done, and what is done has
\* its reason.
AtRest(c) ==
    /\ ~c.error
    /\ ~(c.cleartextDone /\ c.encryptedDone)
    /\ c.encryptedDone = c.encryptedEnded
    /\ c.cleartextDone = c.destroyAfterPush

\* What a closed pair was closed for.
PairFinished(c) ==
    \/ c.error
    \/ c.ended /\ c.pending = <<>> /\ (c.bio_write = <<>> \/ c.encryptedEnded)
    \/ c.encryptedEnded /\ c.bio_read = <<>>

\* One connection between two calls.
SideOK(p, c, got) ==
    /\ SideShape(p, c, got)
    /\ IF c.open THEN AtRest(c) ELSE PairFinished(c)

\* An end received no more than the other end s wrote, and all of it when s told it so.
ToldAll(c, got, s) ==
    /\ Len(got) <= s.written
    /\ c.receivedShutdown => s.ended /\ Len(got) = s.written

\* What goes from p, with the connection s, over the wire w to the connection r.
DirectionOK(p, s, w, r, got) ==
    Carries(p, s.open, s.written, PutBy(p, s), s.bio_write, w,
            r.open, r.bio_read, TakenBy(TlsOther(p), r, got))

\* The types of the variables; TlsTypeOK says less of them.
TlsTypes ==
    /\ ssl \in [Peer -> TlsConnection]
    /\ wire \in [Peer -> Seq(Fragment)]
    /\ tlsGot \in [Peer -> Seq(Nat)]
    /\ nocert \in BOOLEAN

\* The inductive invariant: TlsSafe speaks of what was sent and not received, which needs
\* to know of every fragment which one of its sender's it is, and how many have gone by.
TlsInv ==
    /\ TlsTypes
    /\ \A p \in Peer :
         /\ SideOK(p, ssl[p], tlsGot[p])
         /\ ToldAll(ssl[p], tlsGot[p], ssl[TlsOther(p)])
         /\ DirectionOK(p, ssl[p], wire[p], ssl[TlsOther(p)], tlsGot[TlsOther(p)])

-----------------------------------------------------------------------------
(* Fragments in one direction                                              *)

\* A sequence with some more of its kind appended.
LEMMA JoinedSeq ==
    ASSUME NEW S, NEW s \in Seq(S), NEW t \in Seq(S)
    PROVE  /\ s \o t \in Seq(S) /\ Len(s \o t) = Len(s) + Len(t)
           /\ \A i \in 1..Len(s) : (s \o t)[i] = s[i]
           /\ \A i \in 1..Len(t) : (s \o t)[Len(s) + i] = t[i]
           /\ \A i \in 1..Len(s) + Len(t) : i > Len(s) => (s \o t)[i] = t[i - Len(s)]
<1>1. Len(s) \in Nat /\ Len(t) \in Nat OBVIOUS
<1>2. s \o t \in Seq(S) /\ Len(s \o t) = Len(s) + Len(t) BY ConcatProperties
<1>3. \A i \in 1..Len(s) + Len(t) : (s \o t)[i] = IF i <= Len(s) THEN s[i] ELSE t[i - Len(s)] BY ConcatProperties
<1>4. \A i \in 1..Len(s) : i \in 1..Len(s) + Len(t) /\ i <= Len(s) BY <1>1
<1>5. \A i \in 1..Len(t) : Len(s) + i \in 1..Len(s) + Len(t) /\ ~(Len(s) + i <= Len(s)) /\ (Len(s) + i) - Len(s) = i BY <1>1
<1>6. \A i \in 1..Len(t) : (s \o t)[Len(s) + i] = t[i] BY <1>3, <1>5
<1>7. \A i \in 1..Len(s) : (s \o t)[i] = s[i] BY <1>3, <1>4
<1>8. \A i \in 1..Len(s) + Len(t) : i > Len(s) => (s \o t)[i] = t[i - Len(s)]
  <2>1. \A i \in 1..Len(s) + Len(t) : i > Len(s) => ~(i <= Len(s)) BY <1>1
  <2> QED BY <1>3, <2>1
<1> QED BY <1>2, <1>6, <1>7, <1>8

\* A sequence without its first elements, and those.
LEMMA RestSeq ==
    ASSUME NEW S, NEW s \in Seq(S), NEW n \in Nat, n <= Len(s)
    PROVE  /\ SubSeq(s, n + 1, Len(s)) \in Seq(S) /\ Len(SubSeq(s, n + 1, Len(s))) = Len(s) - n
           /\ \A i \in 1..Len(s) - n : SubSeq(s, n + 1, Len(s))[i] = s[n + i]
           /\ SubSeq(s, 1, n) \in Seq(S) /\ Len(SubSeq(s, 1, n)) = n
           /\ \A i \in 1..n : SubSeq(s, 1, n)[i] = s[i]
OBVIOUS

\* A sequence without its first two elements.
LEMMA TwoOff ==
    ASSUME NEW S, NEW s \in Seq(S), Len(s) >= 2
    PROVE  SubSeq(s, 3, Len(s)) \in Seq(S) /\ Len(SubSeq(s, 3, Len(s))) = Len(s) - 2
<1>1. 3 \in Int /\ Len(s) \in Int /\ \A i \in 3..Len(s) : s[i] \in S
  OBVIOUS
<1>2. /\ SubSeq(s, 3, Len(s)) \in Seq(S)
      /\ Len(SubSeq(s, 3, Len(s))) = IF 3 <= Len(s) THEN Len(s) - 3 + 1 ELSE 0
  BY <1>1, SubSeqProperties
<1>3. ASSUME NEW l \in Nat, l >= 2
      PROVE  (IF 3 <= l THEN l - 3 + 1 ELSE 0) = l - 2
  <2>1. CASE l = 2
    BY <2>1
  <2>2. CASE 3 <= l
    BY <2>2
  <2> QED BY <1>3, <2>1, <2>2
<1>4. Len(s) \in Nat
  OBVIOUS
<1>5. (IF 3 <= Len(s) THEN Len(s) - 3 + 1 ELSE 0) = Len(s) - 2
  BY <1>3, <1>4
<1> QED BY <1>2, <1>5

\* Any number of fragments is a number of records, or one more.
LEMMA Halves ==
    ASSUME NEW i \in Nat \ {0}
    PROVE  \E n \in Nat \ {0} : i = 2 * n - 1 \/ i = 2 * n
<1>1. i = 2 * ((i + 1) \div 2) - 1 \/ i = 2 * ((i + 1) \div 2)
  OBVIOUS
<1>2. (i + 1) \div 2 \in Nat \ {0}
  OBVIOUS
<1> QED BY <1>1, <1>2

\* The pieces are fragments, and none is the end of the stream or an alert.
LEMMA PieceKinds ==
    ASSUME NEW p \in Peer, NEW written \in Nat, NEW n \in Nat \ {0}, NEW h \in {1, 2}
    PROVE  /\ Piece(p, written, n, h) \in Fragment
           /\ Piece(p, written, n, h) # EndOfFile
           /\ Piece(p, written, n, h)[1] # "alert"
           /\ Piece(p, written, n, h)[1] = "data" => n - 2 \in 1..written /\ Piece(p, written, n, h)[2] = n - 2
           /\ Piece(p, written, n, h)[1] = "close" => n - 2 > written
           /\ n > 2 => Piece(p, written, n, h)[1] \in {"data", "close"}
           /\ n > 2 /\ n - 2 <= written => Piece(p, written, n, h)[1] = "data"
           /\ Piece(p, written, n, h)[3] = h
<1>1. CASE n <= 2
  BY <1>1 DEF Piece, Fragment, EndOfFile
<1>2. CASE n > 2 /\ n - 2 <= written
  BY <1>2 DEF Piece, Fragment, EndOfFile
<1>3. CASE n > 2 /\ n - 2 > written
  BY <1>3 DEF Piece, Fragment, EndOfFile
<1> QED BY <1>1, <1>2, <1>3

\* A piece of data.
LEMMA PieceOfData ==
    ASSUME NEW p \in Peer, NEW written \in Nat, NEW n \in Nat \ {0}, NEW h \in {1, 2},
           Piece(p, written, n, h)[1] = "data"
    PROVE  n - 2 \in 1..written /\ Piece(p, written, n, h)[2] = n - 2
BY PieceKinds

\* What the sequences and the numbers of a direction are.
Direction(written, put, bw, w, br, taken) ==
    /\ written \in Nat /\ put \in Nat /\ taken \in Nat
    /\ bw \in Seq(Fragment) /\ w \in Seq(Fragment) /\ br \in Seq(Fragment)

\* Every fragment of a run is a piece.
LEMMA RunHasPieces ==
    ASSUME NEW p, NEW written, NEW s, NEW l \in Nat, NEW k \in Nat, Runs(p, written, s, l, k), NEW i \in 1..l
    PROVE  \E n \in Nat \ {0} : \E h \in {1, 2} : k + i = 2 * n - 2 + h /\ s[i] = Piece(p, written, n, h)
<1>1. k + i \in Nat \ {0}
  OBVIOUS
<1>2. PICK n \in Nat \ {0} : k + i = 2 * n - 1 \/ k + i = 2 * n
  BY <1>1, Halves
<1>3. CASE k + i = 2 * n - 1
  <2>1. s[i] = Piece(p, written, n, 1)
    BY <1>3 DEF Runs
  <2>2. k + i = 2 * n - 2 + 1
    BY <1>3
  <2> QED BY <2>1, <2>2
<1>4. CASE k + i = 2 * n
  <2>1. s[i] = Piece(p, written, n, 2)
    BY <1>4 DEF Runs
  <2>2. k + i = 2 * n - 2 + 2
    BY <1>4
  <2> QED BY <2>1, <2>2
<1> QED BY <1>2, <1>3, <1>4

\* A run without its first n fragments, and the first n of it, are runs.
LEMMA RunCut ==
    ASSUME NEW p, NEW written, NEW s \in Seq(Fragment), NEW l \in 0..Len(s), NEW k \in Nat,
           Runs(p, written, s, l, k), NEW n \in 0..l
    PROVE  /\ Runs(p, written, SubSeq(s, n + 1, Len(s)), l - n, k + n)
           /\ Runs(p, written, SubSeq(s, 1, n), n, k)
<1>1. /\ \A i \in 1..Len(s) - n : SubSeq(s, n + 1, Len(s))[i] = s[n + i]
      /\ \A i \in 1..n : SubSeq(s, 1, n)[i] = s[i]
  BY RestSeq
<1>2. ASSUME NEW i \in 1..l - n, NEW m \in Nat \ {0}
      PROVE  /\ k + n + i = 2 * m - 1 => SubSeq(s, n + 1, Len(s))[i] = Piece(p, written, m, 1)
             /\ k + n + i = 2 * m => SubSeq(s, n + 1, Len(s))[i] = Piece(p, written, m, 2)
  <2>1. n + i \in 1..l /\ i \in 1..Len(s) - n /\ k + n + i = k + (n + i)
    OBVIOUS
  <2>2. /\ k + (n + i) = 2 * m - 1 => s[n + i] = Piece(p, written, m, 1)
        /\ k + (n + i) = 2 * m => s[n + i] = Piece(p, written, m, 2)
    BY <2>1 DEF Runs
  <2> QED BY <1>1, <2>1, <2>2
<1>3. Runs(p, written, SubSeq(s, n + 1, Len(s)), l - n, k + n)
  BY <1>2 DEF Runs
<1>4. Runs(p, written, SubSeq(s, 1, n), n, k)
  BY <1>1 DEF Runs
<1> QED BY <1>3, <1>4

\* A run, followed by the run that goes on with it, is one.
LEMMA RunJoined ==
    ASSUME NEW p, NEW written, NEW s \in Seq(Fragment), NEW t \in Seq(Fragment), NEW l \in 0..Len(t), NEW k \in Nat,
           Runs(p, written, s, Len(s), k), Runs(p, written, t, l, k + Len(s))
    PROVE  Runs(p, written, s \o t, Len(s) + l, k)
<1>1. /\ \A i \in 1..Len(s) : (s \o t)[i] = s[i]
      /\ \A i \in 1..Len(s) + Len(t) : i > Len(s) => (s \o t)[i] = t[i - Len(s)]
  BY JoinedSeq
<1>2. ASSUME NEW i \in 1..Len(s) + l, NEW m \in Nat \ {0}
      PROVE  /\ k + i = 2 * m - 1 => (s \o t)[i] = Piece(p, written, m, 1)
             /\ k + i = 2 * m => (s \o t)[i] = Piece(p, written, m, 2)
  <2>1. CASE i <= Len(s)
    <3>1. i \in 1..Len(s)
      BY <2>1
    <3> QED BY <1>1, <3>1 DEF Runs
  <2>2. CASE i > Len(s)
    <3>1. i - Len(s) \in 1..l /\ k + i = (k + Len(s)) + (i - Len(s)) /\ i \in 1..Len(s) + Len(t)
      BY <2>2
    <3>2. /\ (k + Len(s)) + (i - Len(s)) = 2 * m - 1 => t[i - Len(s)] = Piece(p, written, m, 1)
          /\ (k + Len(s)) + (i - Len(s)) = 2 * m => t[i - Len(s)] = Piece(p, written, m, 2)
      BY <3>1 DEF Runs
    <3> QED BY <1>1, <2>2, <3>1, <3>2
  <2> QED BY <2>1, <2>2
<1> QED BY <1>2 DEF Runs

\* A record is a run of two.
LEMMA RecordRuns ==
    ASSUME NEW p, NEW written \in Nat, NEW n \in Nat \ {0}, NEW kind, NEW m,
           \A h \in {1, 2} : Piece(p, written, n, h) = <<kind, m, h>>
    PROVE  Runs(p, written, Record(kind, m), 2, 2 * (n - 1))
<1> SUFFICES ASSUME NEW i \in 1..2, NEW j \in Nat \ {0}
             PROVE  /\ 2 * (n - 1) + i = 2 * j - 1 => Record(kind, m)[i] = Piece(p, written, j, 1)
                    /\ 2 * (n - 1) + i = 2 * j => Record(kind, m)[i] = Piece(p, written, j, 2)
  BY DEF Runs
<1>1. Record(kind, m)[1] = Piece(p, written, n, 1) /\ Record(kind, m)[2] = Piece(p, written, n, 2)
  BY DEF Record
<1>2. 2 * (n - 1) + i = 2 * j - 1 => i = 1 /\ j = n
  OBVIOUS
<1>3. 2 * (n - 1) + i = 2 * j => i = 2 /\ j = n
  OBVIOUS
<1> QED BY <1>1, <1>2, <1>3

\* The reader takes a record: its two fragments are those of the next one.
LEMMA CarriesTaken ==
    ASSUME NEW p \in Peer, NEW so \in BOOLEAN, NEW written, NEW put, NEW bw, NEW w, NEW br, NEW taken,
           Direction(written, put, bw, w, br, taken),
           Carries(p, so, written, put, bw, w, TRUE, br, taken), Len(br) >= 2
    PROVE  /\ Carries(p, so, written, put, bw, w, TRUE, SubSeq(br, 3, Len(br)), taken + 1)
           /\ SubSeq(br, 3, Len(br)) \in Seq(Fragment)
           /\ taken + 1 <= put
           /\ br[1] = Piece(p, written, taken + 1, 1)
<1> DEFINE rest == SubSeq(br, 3, Len(br))
<1>00. written \in Nat /\ bw \in Seq(Fragment) /\ w \in Seq(Fragment) /\ br \in Seq(Fragment)
  BY DEF Direction
<1>0. Len(w) \in Nat /\ Len(bw) \in Nat /\ Len(br) \in Nat /\ taken \in Nat /\ put \in Nat
  BY <1>00 DEF Direction
<1>1. Len(rest) = Len(br) - 2 /\ rest \in Seq(Fragment)
  BY <1>00, TwoOff
<1>2. OneIf(~so) \in {0, 1} /\ (~so => OneIf(~so) = 1) /\ (so => OneIf(~so) = 0)
  BY DEF OneIf
<1>3. so \/ Len(w) >= 1
  BY DEF Carries
<1>4. 2 * taken + Len(br) + Len(w) - OneIf(~so) <= 2 * put
  BY DEF Carries
<1>5. taken + 1 <= put
  BY <1>0, <1>2, <1>3, <1>4
<1>6. Runs(p, written, br, Len(br), 2 * taken)
  BY DEF Carries
<1>7. Runs(p, written, rest, Len(rest), 2 * (taken + 1))
  <2>1. Runs(p, written, SubSeq(br, 2 + 1, Len(br)), Len(br) - 2, 2 * taken + 2)
    <3>1. 2 \in 0..Len(br) /\ Len(br) \in 0..Len(br) /\ 2 * taken \in Nat
      BY <1>0
    <3> QED BY <1>00, <1>6, <3>1, RunCut
  <2>2. 2 * taken + 2 = 2 * (taken + 1) /\ 2 + 1 = 3
    BY <1>0
  <2> QED BY <2>1, <2>2, <1>1
<1>8. 2 * taken + Len(br) = 2 * (taken + 1) + Len(rest)
  <2> HIDE DEF rest
  <2> QED BY <1>0, <1>1
<1>9. br[1] = Piece(p, written, taken + 1, 1)
  <2>1. 2 * taken + 1 = 2 * (taken + 1) - 1 /\ 1 \in 1..Len(br) /\ taken + 1 \in Nat \ {0}
    BY <1>0
  <2> QED BY <2>1, <1>6 DEF Runs
<1> HIDE DEF rest
<1>10. Carries(p, so, written, put, bw, w, TRUE, rest, taken + 1)
  <2>1. Runs(p, written, w, Len(w) - OneIf(~so), 2 * (taken + 1) + Len(rest))
    BY <1>8 DEF Carries
  <2>2. 2 * (taken + 1) + Len(rest) + Len(w) - OneIf(~so) <= 2 * put
    BY <1>8, <1>4
  <2>3. so => /\ Runs(p, written, bw, Len(bw), 2 * (taken + 1) + Len(rest) + Len(w))
              /\ 2 * (taken + 1) + Len(rest) + Len(w) + Len(bw) = 2 * put
    BY <1>8 DEF Carries
  <2>4. ~so => Len(w) >= 1 /\ w[Len(w)] = EndOfFile
    BY DEF Carries
  <2> QED BY <1>5, <1>7, <2>1, <2>2, <2>3, <2>4 DEF Carries
<1> QED BY <1>1, <1>5, <1>9, <1>10 DEF rest

\* The sender writes the next record to its BIO.
LEMMA CarriesPut ==
    ASSUME NEW p \in Peer, NEW ro \in BOOLEAN, NEW written, NEW put, NEW bw, NEW w, NEW br, NEW taken,
           Direction(written, put, bw, w, br, taken),
           Carries(p, TRUE, written, put, bw, w, ro, br, taken),
           NEW kind, NEW m, \A h \in {1, 2} : Piece(p, written, put + 1, h) = <<kind, m, h>>
    PROVE  /\ Carries(p, TRUE, written, put + 1, bw \o Record(kind, m), w, ro, br, taken)
           /\ bw \o Record(kind, m) \in Seq(Fragment)
<1> DEFINE more == bw \o Record(kind, m)
<1>00. written \in Nat /\ bw \in Seq(Fragment) /\ w \in Seq(Fragment) /\ br \in Seq(Fragment)
  BY DEF Direction
<1>0. Len(w) \in Nat /\ Len(bw) \in Nat /\ Len(br) \in Nat /\ taken \in Nat /\ put \in Nat
  BY <1>00 DEF Direction
<1>1. Record(kind, m) \in Seq(Fragment) /\ Len(Record(kind, m)) = 2
  <2>1. put + 1 \in Nat \ {0}
    BY <1>0
  <2>2. <<kind, m, 1>> \in Fragment /\ <<kind, m, 2>> \in Fragment
    <3>1. Piece(p, written, put + 1, 1) \in Fragment /\ Piece(p, written, put + 1, 2) \in Fragment
      BY <1>00, <2>1, PieceKinds
    <3> QED BY <3>1
  <2> QED BY <2>2 DEF Record
<1>2. more \in Seq(Fragment) /\ Len(more) = Len(bw) + 2
  <2>1. bw \o Record(kind, m) \in Seq(Fragment) /\ Len(bw \o Record(kind, m)) = Len(bw) + Len(Record(kind, m))
    BY <1>00, <1>1, JoinedSeq
  <2> QED BY <1>1, <2>1
<1>3. OneIf(~TRUE) = 0
  BY DEF OneIf
<1>4. ASSUME ro
      PROVE  /\ Runs(p, written, more, Len(more), 2 * taken + Len(br) + Len(w))
             /\ 2 * taken + Len(br) + Len(w) + Len(more) = 2 * (put + 1)
  <2>1. /\ Runs(p, written, bw, Len(bw), 2 * taken + Len(br) + Len(w))
        /\ 2 * taken + Len(br) + Len(w) + Len(bw) = 2 * put
    BY <1>4 DEF Carries
  <2>2. Runs(p, written, Record(kind, m), 2, 2 * (put + 1 - 1))
    <3>1. put + 1 \in Nat \ {0}
      BY <1>0
    <3>2. DEFINE n == put + 1
    <3>3. n \in Nat \ {0} /\ \A h \in {1, 2} : Piece(p, written, n, h) = <<kind, m, h>>
      BY <3>1
    <3> HIDE DEF n
    <3>4. Runs(p, written, Record(kind, m), 2, 2 * (n - 1))
      BY <1>00, <3>3, RecordRuns
    <3> QED BY <1>0, <3>4 DEF n
  <2>3. 2 * (put + 1 - 1) = (2 * taken + Len(br) + Len(w)) + Len(bw)
    BY <1>0, <2>1
  <2>4. Runs(p, written, more, Len(bw) + 2, 2 * taken + Len(br) + Len(w))
    <3>1. Runs(p, written, Record(kind, m), 2, (2 * taken + Len(br) + Len(w)) + Len(bw))
      BY <2>2, <2>3
    <3>2. 2 \in 0..Len(Record(kind, m)) /\ 2 * taken + Len(br) + Len(w) \in Nat
      BY <1>0, <1>1
    <3> QED BY <1>00, <1>1, <2>1, <3>1, <3>2, RunJoined
  <2> HIDE DEF more
  <2>5. Len(more) = Len(bw) + 2
    BY <1>2
  <2>6. 2 * taken + Len(br) + Len(w) + Len(more) = 2 * (put + 1)
    BY <1>0, <2>5, <2>1
  <2> QED BY <2>4, <2>5, <2>6
<1> HIDE DEF more
<1>5. Carries(p, TRUE, written, put + 1, more, w, ro, br, taken)
  <2>1. taken <= put + 1
    BY <1>0 DEF Carries
  <2>2. ro => /\ Runs(p, written, br, Len(br), 2 * taken)
              /\ Runs(p, written, w, Len(w) - OneIf(~TRUE), 2 * taken + Len(br))
              /\ 2 * taken + Len(br) + Len(w) - OneIf(~TRUE) <= 2 * put
    BY DEF Carries
  <2>3. ro => 2 * taken + Len(br) + Len(w) - OneIf(~TRUE) <= 2 * (put + 1)
    BY <2>2, <1>0, <1>3
  <2> QED BY <1>4, <2>1, <2>2, <2>3 DEF Carries
<1> QED BY <1>2, <1>5 DEF more

\* All that the sender wrote goes to the wire.
LEMMA CarriesOut ==
    ASSUME NEW p \in Peer, NEW ro \in BOOLEAN, NEW written, NEW put, NEW bw, NEW w, NEW br, NEW taken,
           Direction(written, put, bw, w, br, taken),
           Carries(p, TRUE, written, put, bw, w, ro, br, taken)
    PROVE  /\ Carries(p, TRUE, written, put, <<>>, w \o bw, ro, br, taken)
           /\ w \o bw \in Seq(Fragment)
<1>00. written \in Nat /\ bw \in Seq(Fragment) /\ w \in Seq(Fragment) /\ br \in Seq(Fragment)
  BY DEF Direction
<1>0. Len(w) \in Nat /\ Len(bw) \in Nat /\ Len(br) \in Nat /\ taken \in Nat /\ put \in Nat
  BY <1>00 DEF Direction
<1>1. w \o bw \in Seq(Fragment) /\ Len(w \o bw) = Len(w) + Len(bw)
  BY <1>00, JoinedSeq
<1>2. OneIf(~TRUE) = 0 /\ Len(<<>>) = 0
  BY DEF OneIf
<1>3. ASSUME ro
      PROVE  /\ Runs(p, written, w \o bw, Len(w \o bw), 2 * taken + Len(br))
             /\ 2 * taken + Len(br) + Len(w \o bw) = 2 * put
  <2>1. /\ Runs(p, written, w, Len(w), 2 * taken + Len(br))
        /\ Runs(p, written, bw, Len(bw), (2 * taken + Len(br)) + Len(w))
        /\ 2 * taken + Len(br) + Len(w) + Len(bw) = 2 * put
    BY <1>0, <1>2, <1>3 DEF Carries
  <2>2. Len(bw) \in 0..Len(bw) /\ 2 * taken + Len(br) \in Nat
    BY <1>0
  <2>3. Runs(p, written, w \o bw, Len(w) + Len(bw), 2 * taken + Len(br))
    BY <1>00, <2>1, <2>2, RunJoined
  <2> QED BY <1>0, <1>1, <2>1, <2>3
<1>4. Runs(p, written, <<>>, 0, 2 * taken + Len(br) + Len(w \o bw))
  BY DEF Runs
<1>5. Carries(p, TRUE, written, put, <<>>, w \o bw, ro, br, taken)
  <2>1. taken <= put /\ (ro => Runs(p, written, br, Len(br), 2 * taken))
    BY DEF Carries
  <2>2. Len(w \o bw) - OneIf(~TRUE) = Len(w \o bw)
    BY <1>0, <1>1, <1>2
  <2>3. ro => 2 * taken + Len(br) + Len(w \o bw) - OneIf(~TRUE) <= 2 * put
    BY <1>0, <1>1, <1>2, <1>3
  <2>4. ro => 2 * taken + Len(br) + Len(w \o bw) + Len(<<>>) = 2 * put
    BY <1>0, <1>1, <1>2, <1>3
  <2> QED BY <1>2, <1>3, <1>4, <2>1, <2>2, <2>3, <2>4 DEF Carries
<1> QED BY <1>1, <1>5

\* The socket delivers the first n fragments.
LEMMA CarriesDelivered ==
    ASSUME NEW p \in Peer, NEW so \in BOOLEAN, NEW written, NEW put, NEW bw, NEW w, NEW br, NEW taken,
           Direction(written, put, bw, w, br, taken),
           Carries(p, so, written, put, bw, w, TRUE, br, taken),
           NEW n \in 1..Len(w), w[n] # EndOfFile
    PROVE  /\ Carries(p, so, written, put, bw, SubSeq(w, n + 1, Len(w)), TRUE, br \o SubSeq(w, 1, n), taken)
           /\ br \o SubSeq(w, 1, n) \in Seq(Fragment)
           /\ SubSeq(w, n + 1, Len(w)) \in Seq(Fragment)
<1> DEFINE rest == SubSeq(w, n + 1, Len(w))
           first == SubSeq(w, 1, n)
           all == br \o first
<1>00. written \in Nat /\ bw \in Seq(Fragment) /\ w \in Seq(Fragment) /\ br \in Seq(Fragment)
  BY DEF Direction
<1>0. Len(w) \in Nat /\ Len(bw) \in Nat /\ Len(br) \in Nat /\ taken \in Nat /\ put \in Nat /\ n \in Nat /\ n <= Len(w)
  BY <1>00 DEF Direction
<1>1. /\ rest \in Seq(Fragment) /\ Len(rest) = Len(w) - n
      /\ first \in Seq(Fragment) /\ Len(first) = n
      /\ \A i \in 1..Len(w) - n : rest[i] = w[n + i]
  BY <1>00, <1>0, RestSeq
<1> HIDE DEF rest, first
<1>2. all \in Seq(Fragment) /\ Len(all) = Len(br) + n
  <2>1. br \o first \in Seq(Fragment) /\ Len(br \o first) = Len(br) + Len(first)
    BY <1>00, <1>1, JoinedSeq
  <2> QED BY <1>1, <2>1
<1> HIDE DEF all
<1>3. OneIf(~so) \in {0, 1} /\ (~so => OneIf(~so) = 1) /\ (so => OneIf(~so) = 0)
  BY DEF OneIf
<1>4. /\ Runs(p, written, br, Len(br), 2 * taken)
      /\ Runs(p, written, w, Len(w) - OneIf(~so), 2 * taken + Len(br))
      /\ 2 * taken + Len(br) + Len(w) - OneIf(~so) <= 2 * put
      /\ ~so => Len(w) >= 1 /\ w[Len(w)] = EndOfFile
      /\ taken <= put
  BY DEF Carries
<1>5. n \in 0..Len(w) - OneIf(~so) /\ Len(w) - OneIf(~so) \in 0..Len(w)
  <2>1. CASE so
    BY <2>1, <1>0, <1>3
  <2>2. CASE ~so
    <3>1. n # Len(w)
      BY <2>2, <1>4
    <3> QED BY <3>1, <2>2, <1>0, <1>3
  <2> QED BY <2>1, <2>2
<1>6. /\ Runs(p, written, rest, Len(w) - OneIf(~so) - n, 2 * taken + Len(br) + n)
      /\ Runs(p, written, first, n, 2 * taken + Len(br))
  <2>1. 2 * taken + Len(br) \in Nat
    BY <1>0
  <2> QED BY <1>00, <1>4, <1>5, <2>1, RunCut DEF rest, first
<1>7. Runs(p, written, all, Len(all), 2 * taken)
  <2>1. 2 * taken \in Nat /\ n \in 0..Len(first)
    BY <1>0, <1>1
  <2>2. Runs(p, written, br \o first, Len(br) + n, 2 * taken)
    BY <1>00, <1>1, <1>4, <1>6, <2>1, RunJoined
  <2> QED BY <2>2, <1>2 DEF all
<1>8. Runs(p, written, rest, Len(rest) - OneIf(~so), 2 * taken + Len(all))
  <2>1. Len(w) - OneIf(~so) - n = Len(rest) - OneIf(~so) /\ 2 * taken + Len(br) + n = 2 * taken + Len(all)
    BY <1>0, <1>1, <1>2, <1>3
  <2> QED BY <2>1, <1>6
<1>9. 2 * taken + Len(all) + Len(rest) = 2 * taken + Len(br) + Len(w)
  BY <1>0, <1>1, <1>2
<1>10. ~so => Len(rest) >= 1 /\ rest[Len(rest)] = EndOfFile
  <2> SUFFICES ASSUME ~so PROVE Len(rest) >= 1 /\ rest[Len(rest)] = EndOfFile
    OBVIOUS
  <2>1. n < Len(w)
    BY <1>0, <1>3, <1>5
  <2>2. Len(w) - n \in 1..Len(w) - n /\ n + (Len(w) - n) = Len(w)
    BY <1>0, <2>1
  <2>3. rest[Len(w) - n] = w[Len(w)]
    BY <1>1, <2>2
  <2> QED BY <1>0, <1>1, <1>4, <2>1, <2>3
<1>11. so => /\ Runs(p, written, bw, Len(bw), 2 * taken + Len(all) + Len(rest))
             /\ 2 * taken + Len(all) + Len(rest) + Len(bw) = 2 * put
  BY <1>9 DEF Carries
<1>12. 2 * taken + Len(all) + Len(rest) - OneIf(~so) <= 2 * put
  BY <1>0, <1>1, <1>2, <1>3, <1>4
<1>13. Carries(p, so, written, put, bw, rest, TRUE, all, taken)
  BY <1>4, <1>7, <1>8, <1>10, <1>11, <1>12 DEF Carries
<1> QED BY <1>1, <1>2, <1>13 DEF rest, first, all

\* The sender closes: the end of the stream follows what is on the wire, and what it had
\* written to its BIO goes nowhere.
LEMMA CarriesClosed ==
    ASSUME NEW p \in Peer, NEW ro \in BOOLEAN, NEW written, NEW put, NEW bw, NEW w, NEW br, NEW taken,
           Direction(written, put, bw, w, br, taken),
           Carries(p, TRUE, written, put, bw, w, ro, br, taken), NEW bw2
    PROVE  /\ Carries(p, FALSE, written, put, bw2, w \o <<EndOfFile>>, ro, br, taken)
           /\ w \o <<EndOfFile>> \in Seq(Fragment)
<1> DEFINE more == w \o <<EndOfFile>>
<1>00. written \in Nat /\ bw \in Seq(Fragment) /\ w \in Seq(Fragment) /\ br \in Seq(Fragment)
  BY DEF Direction
<1>0. Len(w) \in Nat /\ Len(bw) \in Nat /\ Len(br) \in Nat /\ taken \in Nat /\ put \in Nat
  BY <1>00 DEF Direction
<1>1. <<EndOfFile>> \in Seq(Fragment) /\ Len(<<EndOfFile>>) = 1 /\ <<EndOfFile>>[1] = EndOfFile
  BY DEF EndOfFile, Fragment
<1>2. /\ more \in Seq(Fragment) /\ Len(more) = Len(w) + 1
      /\ \A i \in 1..Len(w) : more[i] = w[i]
      /\ more[Len(w) + 1] = EndOfFile
  <2>1. /\ more \in Seq(Fragment) /\ Len(more) = Len(w) + Len(<<EndOfFile>>)
        /\ \A i \in 1..Len(w) : more[i] = w[i]
        /\ \A i \in 1..Len(<<EndOfFile>>) : more[Len(w) + i] = <<EndOfFile>>[i]
    BY <1>00, <1>1, JoinedSeq
  <2> QED BY <1>1, <2>1
<1> HIDE DEF more
<1>3. OneIf(~TRUE) = 0 /\ OneIf(~FALSE) = 1
  BY DEF OneIf
<1>4. Len(more) >= 1 /\ more[Len(more)] = EndOfFile /\ Len(more) - OneIf(~FALSE) = Len(w)
  BY <1>0, <1>2, <1>3
<1>5. ASSUME ro
      PROVE  /\ Runs(p, written, br, Len(br), 2 * taken)
             /\ Runs(p, written, more, Len(w), 2 * taken + Len(br))
             /\ 2 * taken + Len(br) + Len(w) <= 2 * put
  <2>1. /\ Runs(p, written, br, Len(br), 2 * taken)
        /\ Runs(p, written, w, Len(w) - OneIf(~TRUE), 2 * taken + Len(br))
        /\ 2 * taken + Len(br) + Len(w) - OneIf(~TRUE) <= 2 * put
    BY <1>5 DEF Carries
  <2>2. Len(w) - OneIf(~TRUE) = Len(w)
    BY <1>0, <1>3
  <2>3. Runs(p, written, w, Len(w), 2 * taken + Len(br))
    BY <2>1, <2>2
  <2>4. Runs(p, written, more, Len(w), 2 * taken + Len(br))
    BY <1>2, <2>3 DEF Runs
  <2>5. 2 * taken + Len(br) + Len(w) <= 2 * put
    BY <1>0, <1>3, <2>1
  <2> QED BY <2>1, <2>4, <2>5
<1>6. taken <= put
  BY DEF Carries
<1>7. Carries(p, FALSE, written, put, bw2, more, ro, br, taken)
  <2>1. ro => Runs(p, written, more, Len(more) - OneIf(~FALSE), 2 * taken + Len(br))
    BY <1>4, <1>5
  <2>2. ro => 2 * taken + Len(br) + Len(more) - OneIf(~FALSE) <= 2 * put
    BY <1>0, <1>2, <1>3, <1>5
  <2> QED BY <1>4, <1>5, <1>6, <2>1, <2>2 DEF Carries
<1> QED BY <1>2, <1>7 DEF more

\* The reader closes.
LEMMA CarriesUnread ==
    ASSUME NEW p, NEW so, NEW written, NEW put, NEW bw, NEW w, NEW ro, NEW br, NEW taken,
           Carries(p, so, written, put, bw, w, ro, br, taken), NEW br2
    PROVE  Carries(p, so, written, put, bw, w, FALSE, br2, taken)
BY DEF Carries

\* The application writes once more.
LEMMA CarriesWritten ==
    ASSUME NEW p \in Peer, NEW so \in BOOLEAN, NEW written, NEW put, NEW bw, NEW w, NEW ro \in BOOLEAN, NEW br, NEW taken,
           Direction(written, put, bw, w, br, taken), put <= written + 2,
           Carries(p, so, written, put, bw, w, ro, br, taken)
    PROVE  Carries(p, so, written + 1, put, bw, w, ro, br, taken)
<1>00. written \in Nat /\ bw \in Seq(Fragment) /\ w \in Seq(Fragment) /\ br \in Seq(Fragment)
  BY DEF Direction
<1>0. Len(w) \in Nat /\ Len(bw) \in Nat /\ Len(br) \in Nat /\ taken \in Nat /\ put \in Nat
  BY <1>00 DEF Direction
<1>1. ASSUME NEW s, NEW l \in Int, NEW k \in Nat, Runs(p, written, s, l, k), k + l <= 2 * put
      PROVE  Runs(p, written + 1, s, l, k)
  <2> SUFFICES ASSUME NEW i \in 1..l, NEW n \in Nat \ {0}
               PROVE  /\ k + i = 2 * n - 1 => s[i] = Piece(p, written + 1, n, 1)
                      /\ k + i = 2 * n => s[i] = Piece(p, written + 1, n, 2)
    BY DEF Runs
  <2>1. /\ k + i = 2 * n - 1 => s[i] = Piece(p, written, n, 1)
        /\ k + i = 2 * n => s[i] = Piece(p, written, n, 2)
    BY <1>1 DEF Runs
  <2>2. k + i = 2 * n - 1 \/ k + i = 2 * n => n <= put
    BY <1>0, <1>1
  <2>3. n <= put => n - 2 <= written /\ n - 2 <= written + 1
    BY <1>0, <1>00
  <2>4. n <= put => \A h \in {1, 2} : Piece(p, written, n, h) = Piece(p, written + 1, n, h)
    BY <2>3 DEF Piece
  <2> QED BY <2>1, <2>2, <2>4
<1>2. OneIf(~so) \in {0, 1} /\ (~so => OneIf(~so) = 1) /\ (so => OneIf(~so) = 0)
  BY DEF OneIf
<1>3. ASSUME ro
      PROVE  /\ Runs(p, written + 1, br, Len(br), 2 * taken)
             /\ Runs(p, written + 1, w, Len(w) - OneIf(~so), 2 * taken + Len(br))
             /\ so => Runs(p, written + 1, bw, Len(bw), 2 * taken + Len(br) + Len(w))
  <2>1. /\ Runs(p, written, br, Len(br), 2 * taken)
        /\ Runs(p, written, w, Len(w) - OneIf(~so), 2 * taken + Len(br))
        /\ 2 * taken + Len(br) + Len(w) - OneIf(~so) <= 2 * put
        /\ ~so => Len(w) >= 1
    BY <1>3 DEF Carries
  <2>2. /\ 2 * taken \in Nat /\ 2 * taken + Len(br) <= 2 * put
        /\ 2 * taken + Len(br) \in Nat /\ Len(w) - OneIf(~so) \in Int
        /\ 2 * taken + Len(br) + (Len(w) - OneIf(~so)) <= 2 * put
    BY <1>0, <1>2, <2>1
  <2>3. Runs(p, written + 1, br, Len(br), 2 * taken)
    BY <1>0, <1>1, <2>1, <2>2
  <2>4. Runs(p, written + 1, w, Len(w) - OneIf(~so), 2 * taken + Len(br))
    BY <1>0, <1>1, <2>1, <2>2
  <2>5. ASSUME so PROVE Runs(p, written + 1, bw, Len(bw), 2 * taken + Len(br) + Len(w))
    <3>1. /\ Runs(p, written, bw, Len(bw), 2 * taken + Len(br) + Len(w))
          /\ 2 * taken + Len(br) + Len(w) + Len(bw) = 2 * put
      BY <1>3, <2>5 DEF Carries
    <3>2. 2 * taken + Len(br) + Len(w) \in Nat /\ (2 * taken + Len(br) + Len(w)) + Len(bw) <= 2 * put
      BY <1>0, <3>1
    <3> QED BY <1>0, <1>1, <3>1, <3>2
  <2> QED BY <2>3, <2>4, <2>5
<1> QED BY <1>3 DEF Carries

\* What was sent of one direction and not taken, as one run.
LEMMA CarriedRun ==
    ASSUME NEW p \in Peer, NEW written, NEW put, NEW bw, NEW w, NEW br, NEW taken,
           Direction(written, put, bw, w, br, taken),
           Carries(p, TRUE, written, put, bw, w, TRUE, br, taken)
    PROVE  /\ br \o w \o bw \in Seq(Fragment)
           /\ 2 * taken + Len(br \o w \o bw) = 2 * put
           /\ Runs(p, written, br \o w \o bw, Len(br \o w \o bw), 2 * taken)
<1>00. written \in Nat /\ bw \in Seq(Fragment) /\ w \in Seq(Fragment) /\ br \in Seq(Fragment)
  BY DEF Direction
<1>0. Len(w) \in Nat /\ Len(bw) \in Nat /\ Len(br) \in Nat /\ taken \in Nat /\ put \in Nat
  BY <1>00 DEF Direction
<1>1. OneIf(~TRUE) = 0
  BY DEF OneIf
<1>2. /\ Runs(p, written, br, Len(br), 2 * taken)
      /\ Runs(p, written, w, Len(w), 2 * taken + Len(br))
      /\ Runs(p, written, bw, Len(bw), 2 * taken + Len(br) + Len(w))
      /\ 2 * taken + Len(br) + Len(w) + Len(bw) = 2 * put
  <2>1. Len(w) - OneIf(~TRUE) = Len(w)
    BY <1>0, <1>1
  <2> QED BY <2>1 DEF Carries
<1>3. PICK front \in Seq(Fragment) : front = br \o w
  BY <1>00, JoinedSeq
<1>4. Len(front) = Len(br) + Len(w)
  BY <1>00, <1>3, JoinedSeq
<1>5. Runs(p, written, front, Len(front), 2 * taken)
  <2>1. 2 * taken \in Nat /\ Len(w) \in 0..Len(w)
    BY <1>0
  <2>2. Runs(p, written, br \o w, Len(br) + Len(w), 2 * taken)
    BY <1>00, <1>2, <2>1, RunJoined
  <2> QED BY <1>3, <1>4, <2>2
<1>6. front \o bw \in Seq(Fragment) /\ Len(front \o bw) = Len(front) + Len(bw)
  BY <1>00, JoinedSeq
<1>7. Runs(p, written, front \o bw, Len(front) + Len(bw), 2 * taken)
  <2>1. 2 * taken \in Nat /\ Len(bw) \in 0..Len(bw) /\ 2 * taken + Len(br) + Len(w) = 2 * taken + Len(front)
    BY <1>0, <1>4
  <2>2. Runs(p, written, bw, Len(bw), 2 * taken + Len(front))
    BY <1>2, <2>1
  <2> QED BY <1>00, <1>5, <2>1, <2>2, RunJoined
<1>8. 2 * taken + Len(front \o bw) = 2 * put
  BY <1>0, <1>2, <1>4, <1>6
<1> QED BY <1>3, <1>6, <1>7, <1>8

\* The data among what was sent and not taken, and what waits, when the reader has got so
\* many writes.
LEMMA CarriedData ==
    ASSUME NEW p \in Peer, NEW written \in Nat, NEW put \in Nat, NEW taken \in Nat,
           NEW s \in Seq(Fragment), NEW pending \in Seq(Fragment),
           Runs(p, written, s, Len(s), 2 * taken), 2 * taken + Len(s) = 2 * put,
           NEW waits \in 0..written,
           \A i \in 1..waits : pending[i] = <<"data", written - waits + i, 0>>,
           waits <= Len(pending), \A i \in waits + 1..Len(pending) : pending[i] = EndOfFile,
           NEW got \in 0..written,
           waits < written => put >= 2 + written - waits,
           got > 0 => taken >= 2 + got,
           got < written => taken <= 2 + got,
           waits > 0 => got <= written - waits /\ put <= 2 + written - waits
    PROVE  Follows(s \o pending, got, written)
<1> DEFINE all == s \o pending
<1>0. Len(s) \in Nat /\ Len(pending) \in Nat /\ waits \in Nat /\ got \in Nat
  OBVIOUS
<1>1. /\ all \in Seq(Fragment) /\ Len(all) = Len(s) + Len(pending)
      /\ \A i \in 1..Len(s) : all[i] = s[i]
      /\ \A i \in 1..Len(pending) : all[Len(s) + i] = pending[i]
      /\ \A i \in 1..Len(s) + Len(pending) : i > Len(s) => all[i] = pending[i - Len(s)]
  BY JoinedSeq
<1> HIDE DEF all
\* Where a datum is, there is its number.
<1>2. ASSUME NEW i \in 1..Len(s), IsDatum(s[i])
      PROVE  s[i][2] \in Nat /\ 2 * taken + i = 2 * (s[i][2] + 2) /\ s[i][2] \in got + 1..written
  <2>0. 2 * taken \in Nat
    BY <1>0
  <2>1. PICK n \in Nat \ {0} : \E h \in {1, 2} : 2 * taken + i = 2 * n - 2 + h /\ s[i] = Piece(p, written, n, h)
    BY <1>0, <2>0, RunHasPieces
  <2>2. PICK h \in {1, 2} : 2 * taken + i = 2 * n - 2 + h /\ s[i] = Piece(p, written, n, h)
    BY <2>1
  <2>3. h = 2
    <3>1. s[i][3] # 1
      BY <1>2 DEF IsDatum
    <3> QED BY <2>2, <3>1, PieceKinds
  <2>4. n - 2 \in 1..written /\ s[i][2] = n - 2
    <3>1. s[i][1] = "data"
      BY <1>2 DEF IsDatum
    <3>2. Piece(p, written, n, h)[1] = "data"
      BY <2>2, <3>1
    <3>3. n - 2 \in 1..written /\ Piece(p, written, n, h)[2] = n - 2
      BY <3>2, PieceOfData
    <3> QED BY <2>2, <3>3
  <2>5. n > taken
    BY <2>2, <2>3
  <2>6. n - 2 >= got + 1
    <3>1. CASE got > 0
      BY <3>1, <2>5, <1>0
    <3>2. CASE got = 0
      BY <3>2, <2>4
    <3> QED BY <3>1, <3>2, <1>0
  <2>7. n - 2 \in Nat /\ n - 2 \in got + 1..written /\ 2 * taken + i = 2 * ((n - 2) + 2)
    BY <2>2, <2>3, <2>4, <2>6, <1>0
  <2> QED BY <2>4, <2>7
<1>3. ASSUME NEW i \in 1..Len(pending), IsDatum(pending[i])
      PROVE  i \in 1..waits /\ pending[i][2] = written - waits + i /\ pending[i][2] \in got + 1..written
  <2>1. i \in 1..waits
    <3>1. EndOfFile[1] # "data"
      BY DEF EndOfFile
    <3>2. i \in waits + 1..Len(pending) => pending[i][1] # "data"
      BY <3>1
    <3> QED BY <1>3, <3>2, <1>0 DEF IsDatum
  <2>2. pending[i] = <<"data", written - waits + i, 0>>
    BY <2>1
  <2>3. written - waits + i \in got + 1..written
    BY <2>1, <1>0
  <2> QED BY <2>1, <2>2, <2>3
<1>4. ASSUME NEW k \in got + 1..written
      PROVE  \E i \in 1..Len(all) : IsDatum(all[i]) /\ all[i][2] = k
  <2>1. CASE k <= written - waits
    <3>1. put >= k + 2 /\ taken <= 2 + got
      BY <2>1, <1>0
    <3>2. PICK i \in Int : 2 * taken + i = 2 * (k + 2)
      <4>1. 2 * taken + (2 * (k + 2) - 2 * taken) = 2 * (k + 2) /\ 2 * (k + 2) - 2 * taken \in Int
        BY <1>0
      <4> QED BY <4>1
    <3>3. i \in 1..Len(s) /\ k + 2 \in Nat \ {0}
      BY <3>1, <3>2, <1>0
    <3>4. s[i] = Piece(p, written, k + 2, 2)
      BY <3>2, <3>3 DEF Runs
    <3>5. Piece(p, written, k + 2, 2) = <<"data", k, 2>>
      <4>1. ~(k + 2 <= 2) /\ (k + 2) - 2 = k /\ k <= written
        BY <1>0
      <4> QED BY <4>1 DEF Piece
    <3>6. IsDatum(s[i]) /\ s[i][2] = k
      BY <3>4, <3>5 DEF IsDatum
    <3>7. all[i] = s[i] /\ i \in 1..Len(all)
      BY <1>0, <1>1, <3>3
    <3> QED BY <3>6, <3>7
  <2>2. CASE k > written - waits
    <3>1. PICK i \in 1..waits : written - waits + i = k
      <4>1. k - (written - waits) \in 1..waits /\ written - waits + (k - (written - waits)) = k
        BY <2>2, <1>0
      <4> QED BY <4>1
    <3>2. pending[i] = <<"data", k, 0>>
      BY <3>1
    <3>3. IsDatum(pending[i]) /\ pending[i][2] = k
      BY <3>2 DEF IsDatum
    <3>4. all[Len(s) + i] = pending[i] /\ Len(s) + i \in 1..Len(all)
      BY <1>0, <1>1
    <3> QED BY <3>3, <3>4
  <2> QED BY <2>1, <2>2, <1>0
<1>5. ASSUME NEW i \in 1..Len(all), IsDatum(all[i])
      PROVE  \/ i \in 1..Len(s) /\ all[i] = s[i] /\ IsDatum(s[i])
             \/ i - Len(s) \in 1..Len(pending) /\ all[i] = pending[i - Len(s)] /\ IsDatum(pending[i - Len(s)])
  <2>1. CASE i <= Len(s)
    <3>1. i \in 1..Len(s)
      BY <2>1, <1>0
    <3> QED BY <1>1, <1>5, <3>1
  <2>2. CASE i > Len(s)
    <3>1. i - Len(s) \in 1..Len(pending) /\ i \in 1..Len(s) + Len(pending)
      BY <2>2, <1>0, <1>1
    <3> QED BY <1>1, <1>5, <2>2, <3>1
  <2> QED BY <2>1, <2>2, <1>0
<1>6. ASSUME NEW i \in 1..Len(all), IsDatum(all[i]) PROVE all[i][2] \in got + 1..written
  BY <1>2, <1>3, <1>5, <1>6
<1>7. ASSUME NEW i \in 1..Len(all), NEW j \in 1..Len(all), i < j, IsDatum(all[i]), IsDatum(all[j])
      PROVE  all[i][2] < all[j][2]
  <2>0. i \in Nat /\ j \in Nat
    BY <1>0, <1>1
  <2>1. CASE i \in 1..Len(s) /\ all[i] = s[i] /\ IsDatum(s[i]) /\ j \in 1..Len(s) /\ all[j] = s[j] /\ IsDatum(s[j])
    <3>1. s[i][2] \in Nat /\ 2 * taken + i = 2 * (s[i][2] + 2) /\ s[j][2] \in Nat /\ 2 * taken + j = 2 * (s[j][2] + 2)
      BY <2>1, <1>2
    <3>2. PICK a \in Nat : a = s[i][2]
      BY <3>1
    <3>3. PICK b \in Nat : b = s[j][2]
      BY <3>1
    <3>4. a < b
      <4>1. 2 * taken + i = 2 * (a + 2) /\ 2 * taken + j = 2 * (b + 2)
        BY <3>1, <3>2, <3>3
      <4> QED BY <4>1, <1>7, <2>0
    <3> QED BY <3>2, <3>3, <3>4, <2>1
  <2>2. CASE i \in 1..Len(s) /\ all[i] = s[i] /\ IsDatum(s[i])
             /\ j - Len(s) \in 1..Len(pending) /\ all[j] = pending[j - Len(s)] /\ IsDatum(pending[j - Len(s)])
    <3>1. s[i][2] \in Nat /\ 2 * taken + i = 2 * (s[i][2] + 2)
      BY <2>2, <1>2
    <3>2. PICK a \in Nat : a = s[i][2]
      BY <3>1
    <3>3. PICK m \in 1..Len(pending) : m = j - Len(s)
      BY <2>2
    <3>4. m \in 1..waits /\ pending[m][2] = written - waits + m
      BY <2>2, <3>3, <1>3
    <3>5. 2 * taken + i = 2 * (a + 2)
      BY <3>1, <3>2
    <3>6. a <= put - 2
      BY <3>5, <2>2, <1>0
    <3>7. a <= written
      BY <2>2, <1>2, <3>2
    <3>8. a < written - waits + m
      <4>1. waits > 0 /\ m >= 1
        BY <3>4, <1>0
      <4>2. put <= 2 + written - waits
        BY <4>1
      <4> QED BY <4>1, <4>2, <3>4, <3>6, <1>0
    <3> QED BY <3>2, <3>3, <3>4, <3>8, <2>2
  <2>3. CASE i - Len(s) \in 1..Len(pending) /\ j \in 1..Len(s)
    BY <2>3, <1>7, <1>0, <2>0
  <2>4. CASE i - Len(s) \in 1..Len(pending) /\ all[i] = pending[i - Len(s)] /\ IsDatum(pending[i - Len(s)])
             /\ j - Len(s) \in 1..Len(pending) /\ all[j] = pending[j - Len(s)] /\ IsDatum(pending[j - Len(s)])
    <3>1. PICK k \in 1..Len(pending) : k = i - Len(s)
      BY <2>4
    <3>2. PICK m \in 1..Len(pending) : m = j - Len(s)
      BY <2>4
    <3>3. pending[k][2] = written - waits + k /\ pending[m][2] = written - waits + m
      BY <2>4, <3>1, <3>2, <1>3
    <3>4. k < m
      BY <3>1, <3>2, <1>7, <1>0, <2>0
    <3>5. written - waits + k < written - waits + m
      BY <3>4, <1>0
    <3> QED BY <3>1, <3>2, <3>3, <3>5, <2>4
  <2> QED BY <1>5, <1>7, <2>1, <2>2, <2>3, <2>4
<1>8. Follows(all, got, written)
  BY <1>4, <1>6, <1>7 DEF Follows
<1> QED BY <1>8 DEF all

-----------------------------------------------------------------------------
(* Steps of one end                                                        *)

\* The end p with the connection c, the wires and what its application got, beside the
\* other end as it is.
Good(p, c, w, wq, got) ==
    /\ c \in TlsConnection /\ w \in Seq(Fragment) /\ wq \in Seq(Fragment) /\ got \in Seq(Nat)
    /\ SideShape(p, c, got)
    /\ ToldAll(c, got, ssl[TlsOther(p)])
    /\ ToldAll(ssl[TlsOther(p)], tlsGot[TlsOther(p)], c)
    /\ DirectionOK(p, c, w, ssl[TlsOther(p)], tlsGot[TlsOther(p)])
    /\ DirectionOK(TlsOther(p), ssl[TlsOther(p)], wq, c, got)

\* There are two ends.
LEMMA TwoPeers ==
    ASSUME NEW p \in Peer
    PROVE  /\ TlsOther(p) \in Peer /\ TlsOther(p) # p /\ TlsOther(TlsOther(p)) = p
           /\ \A q \in Peer : q = p \/ q = TlsOther(p)
BY DEF Peer, TlsOther

\* The invariant says it of each end.
LEMMA InvGood ==
    ASSUME TlsInv, NEW p \in Peer
    PROVE  /\ Good(p, ssl[p], wire[p], wire[TlsOther(p)], tlsGot[p])
           /\ SideOK(p, ssl[p], tlsGot[p])
<1>1. TlsOther(p) \in Peer /\ TlsOther(TlsOther(p)) = p
  BY TwoPeers
<1>2. ssl[p] \in TlsConnection /\ wire[p] \in Seq(Fragment) /\ wire[TlsOther(p)] \in Seq(Fragment) /\ tlsGot[p] \in Seq(Nat)
  BY <1>1 DEF TlsInv, TlsTypes
<1>3. /\ SideOK(p, ssl[p], tlsGot[p])
      /\ ToldAll(ssl[p], tlsGot[p], ssl[TlsOther(p)])
      /\ DirectionOK(p, ssl[p], wire[p], ssl[TlsOther(p)], tlsGot[TlsOther(p)])
  BY DEF TlsInv
<1>4. /\ ToldAll(ssl[TlsOther(p)], tlsGot[TlsOther(p)], ssl[p])
      /\ DirectionOK(TlsOther(p), ssl[TlsOther(p)], wire[TlsOther(p)], ssl[p], tlsGot[p])
  BY <1>1 DEF TlsInv
<1>5. SideShape(p, ssl[p], tlsGot[p])
  BY <1>3 DEF SideOK
<1> QED BY <1>2, <1>3, <1>4, <1>5 DEF Good

\* A step that changes one end and the wires.
LEMMA StepKeeps ==
    ASSUME TlsInv, NEW p \in Peer, NEW c, NEW w, NEW wq, NEW got, Good(p, c, w, wq, got),
           IF c.open THEN AtRest(c) ELSE PairFinished(c),
           ssl' = [ssl EXCEPT ![p] = c], tlsGot' = [tlsGot EXCEPT ![p] = got],
           wire' \in [Peer -> Seq(Fragment)], wire'[p] = w, wire'[TlsOther(p)] = wq,
           nocert' = nocert
    PROVE  TlsInv'
<1> DEFINE q == TlsOther(p)
<1>1. q \in Peer /\ q # p /\ TlsOther(q) = p /\ \A x \in Peer : x = p \/ x = q
  BY TwoPeers
<1> HIDE DEF q
<1>2. /\ ssl'[p] = c /\ ssl'[q] = ssl[q] /\ tlsGot'[p] = got /\ tlsGot'[q] = tlsGot[q]
      /\ wire'[p] = w /\ wire'[q] = wq
  <2>1. ssl \in [Peer -> TlsConnection] /\ tlsGot \in [Peer -> Seq(Nat)]
    BY DEF TlsInv, TlsTypes
  <2> QED BY <1>1, <2>1 DEF q
<1>3. TlsTypes'
  <2>1. c \in TlsConnection /\ got \in Seq(Nat)
    BY DEF Good
  <2>2. ssl' \in [Peer -> TlsConnection]
    BY <2>1 DEF TlsInv, TlsTypes
  <2>3. tlsGot' \in [Peer -> Seq(Nat)]
    BY <2>1 DEF TlsInv, TlsTypes
  <2> QED BY <2>2, <2>3 DEF TlsInv, TlsTypes
<1>4. TlsOther(p) = q
  BY DEF q
<1>5. /\ SideOK(p, c, got)
      /\ ToldAll(c, got, ssl[q]) /\ ToldAll(ssl[q], tlsGot[q], c)
      /\ DirectionOK(p, c, w, ssl[q], tlsGot[q])
      /\ DirectionOK(q, ssl[q], wq, c, got)
  BY <1>4 DEF Good, SideOK
<1>6. SideOK(q, ssl[q], tlsGot[q])
  BY <1>1 DEF TlsInv
<1>7. /\ SideOK(p, ssl'[p], tlsGot'[p])
      /\ ToldAll(ssl'[p], tlsGot'[p], ssl'[TlsOther(p)])
      /\ DirectionOK(p, ssl'[p], wire'[p], ssl'[TlsOther(p)], tlsGot'[TlsOther(p)])
  BY <1>2, <1>4, <1>5
<1>8. /\ SideOK(q, ssl'[q], tlsGot'[q])
      /\ ToldAll(ssl'[q], tlsGot'[q], ssl'[TlsOther(q)])
      /\ DirectionOK(q, ssl'[q], wire'[q], ssl'[TlsOther(q)], tlsGot'[TlsOther(q)])
  BY <1>1, <1>2, <1>5, <1>6
<1>9. \A x \in Peer :
         /\ SideOK(x, ssl'[x], tlsGot'[x])
         /\ ToldAll(ssl'[x], tlsGot'[x], ssl'[TlsOther(x)])
         /\ DirectionOK(x, ssl'[x], wire'[x], ssl'[TlsOther(x)], tlsGot'[TlsOther(x)])
  BY <1>1, <1>7, <1>8
<1> QED BY <1>3, <1>9 DEF TlsInv, SideOK, ToldAll, DirectionOK, SideShape, AtRest, PairFinished, WritesWait, EndWaits, TakenBy, PutBy

\* The numbers of an end.
LEMMA Numbers ==
    ASSUME NEW p \in Peer, NEW c \in TlsConnection, NEW got \in Seq(Nat), SideShape(p, c, got)
    PROVE  /\ PutBy(p, c) \in Nat /\ TakenBy(p, c, got) \in Nat
           /\ Len(got) \in Nat /\ c.written \in Nat /\ WritesWait(c) \in Nat /\ c.flight \in {0, 1, 2, 3, 4}
           /\ FlightsPut(p, c.flight) \in 0..2 /\ FlightsTaken(p, c.flight) \in 0..2
           /\ OneIf(c.sentShutdown) \in {0, 1} /\ OneIf(c.receivedShutdown) \in {0, 1}
           /\ PutBy(p, c) = FlightsPut(p, c.flight) + (c.written - WritesWait(c)) + OneIf(c.sentShutdown)
           /\ TakenBy(p, c, got) = FlightsTaken(p, c.flight) + Len(got) + OneIf(c.receivedShutdown)
<1>1. Len(got) \in Nat /\ c.written \in Nat
  BY DEF TlsConnection
<1>2. WritesWait(c) \in 0..c.written
  BY DEF SideShape
<1>3. c.flight \in {0, 1, 2, 3, 4}
  BY DEF SideShape
<1>4. FlightsPut(p, c.flight) \in 0..2 /\ FlightsTaken(p, c.flight) \in 0..2
  BY DEF FlightsPut, FlightsTaken
<1>5. OneIf(c.sentShutdown) \in {0, 1} /\ OneIf(c.receivedShutdown) \in {0, 1}
  BY DEF OneIf
<1>6. /\ PutBy(p, c) = FlightsPut(p, c.flight) + (c.written - WritesWait(c)) + OneIf(c.sentShutdown)
      /\ TakenBy(p, c, got) = FlightsTaken(p, c.flight) + Len(got) + OneIf(c.receivedShutdown)
  BY DEF PutBy, TakenBy
<1> QED BY <1>1, <1>2, <1>3, <1>4, <1>5, <1>6

\* The types of the two directions.
LEMMA Directions ==
    ASSUME TlsInv, NEW p \in Peer, NEW c, NEW w, NEW wq, NEW got, Good(p, c, w, wq, got)
    PROVE  /\ Direction(c.written, PutBy(p, c), c.bio_write, w, ssl[TlsOther(p)].bio_read,
                        TakenBy(TlsOther(p), ssl[TlsOther(p)], tlsGot[TlsOther(p)]))
           /\ Direction(ssl[TlsOther(p)].written, PutBy(TlsOther(p), ssl[TlsOther(p)]), ssl[TlsOther(p)].bio_write, wq,
                        c.bio_read, TakenBy(p, c, got))
           /\ Carries(p, c.open, c.written, PutBy(p, c), c.bio_write, w, ssl[TlsOther(p)].open,
                      ssl[TlsOther(p)].bio_read, TakenBy(TlsOther(p), ssl[TlsOther(p)], tlsGot[TlsOther(p)]))
           /\ Carries(TlsOther(p), ssl[TlsOther(p)].open, ssl[TlsOther(p)].written, PutBy(TlsOther(p), ssl[TlsOther(p)]),
                      ssl[TlsOther(p)].bio_write, wq, c.open, c.bio_read, TakenBy(p, c, got))
           /\ c.open \in BOOLEAN /\ ssl[TlsOther(p)].open \in BOOLEAN
<1> DEFINE q == TlsOther(p)
<1>1. q \in Peer /\ TlsOther(q) = p
  BY TwoPeers
<1>2. ssl[q] \in TlsConnection /\ tlsGot[q] \in Seq(Nat) /\ SideShape(q, ssl[q], tlsGot[q])
  BY <1>1 DEF TlsInv, TlsTypes, SideOK
<1>3. c \in TlsConnection /\ w \in Seq(Fragment) /\ wq \in Seq(Fragment) /\ got \in Seq(Nat) /\ SideShape(p, c, got)
  BY DEF Good
<1>4. PutBy(p, c) \in Nat /\ TakenBy(p, c, got) \in Nat /\ PutBy(q, ssl[q]) \in Nat /\ TakenBy(q, ssl[q], tlsGot[q]) \in Nat
  BY <1>1, <1>2, <1>3, Numbers
<1>5. /\ c.bio_write \in Seq(Fragment) /\ c.bio_read \in Seq(Fragment) /\ c.written \in Nat /\ c.open \in BOOLEAN
      /\ ssl[q].bio_write \in Seq(Fragment) /\ ssl[q].bio_read \in Seq(Fragment) /\ ssl[q].written \in Nat
      /\ ssl[q].open \in BOOLEAN
  BY <1>2, <1>3 DEF TlsConnection
<1>6. /\ DirectionOK(p, c, w, ssl[q], tlsGot[q])
      /\ DirectionOK(q, ssl[q], wq, c, got)
  BY DEF Good
<1> QED BY <1>1, <1>3, <1>4, <1>5, <1>6 DEF Direction, DirectionOK

\* A pair is closed: what it had in its BIOs does not matter any more.
LEMMA ClosedKeeps ==
    ASSUME TlsInv, NEW p \in Peer, NEW c, NEW w, NEW wq, NEW got, Good(p, c, w, wq, got), c.open,
           NEW d \in TlsConnection, ~d.open, d.flight = c.flight, d.written = c.written, d.pending = c.pending,
           d.ended = c.ended, d.destroyAfterPush = c.destroyAfterPush, d.sentShutdown = c.sentShutdown,
           d.receivedShutdown = c.receivedShutdown
    PROVE  Good(p, d, w \o <<EndOfFile>>, wq, got)
<1> DEFINE q == TlsOther(p)
<1>1. q \in Peer /\ TlsOther(q) = p
  BY TwoPeers
<1>2. /\ Direction(c.written, PutBy(p, c), c.bio_write, w, ssl[q].bio_read, TakenBy(q, ssl[q], tlsGot[q]))
      /\ Carries(p, c.open, c.written, PutBy(p, c), c.bio_write, w, ssl[q].open,
                 ssl[q].bio_read, TakenBy(q, ssl[q], tlsGot[q]))
      /\ Carries(q, ssl[q].open, ssl[q].written, PutBy(q, ssl[q]),
                 ssl[q].bio_write, wq, c.open, c.bio_read, TakenBy(p, c, got))
      /\ ssl[q].open \in BOOLEAN
  BY Directions
<1>3. EndWaits(d) = EndWaits(c) /\ WritesWait(d) = WritesWait(c)
  BY DEF EndWaits, WritesWait
<1>4. PutBy(p, d) = PutBy(p, c) /\ TakenBy(p, d, got) = TakenBy(p, c, got)
  BY <1>3 DEF PutBy, TakenBy
<1>5. SideShape(p, d, got)
  <2>1. SideShape(p, c, got)
    BY DEF Good
  <2> QED BY <1>3, <2>1 DEF SideShape
<1>6. ToldAll(d, got, ssl[q]) /\ ToldAll(ssl[q], tlsGot[q], d)
  BY DEF Good, ToldAll
<1>7. c.open = TRUE /\ d.open = FALSE
  <2>1. c.open \in BOOLEAN /\ d.open \in BOOLEAN
    BY DEF Good, TlsConnection
  <2> QED BY <2>1
<1>8. /\ Carries(p, FALSE, c.written, PutBy(p, c), d.bio_write, w \o <<EndOfFile>>, ssl[q].open,
                 ssl[q].bio_read, TakenBy(q, ssl[q], tlsGot[q]))
      /\ w \o <<EndOfFile>> \in Seq(Fragment)
  <2>1. Carries(p, TRUE, c.written, PutBy(p, c), c.bio_write, w, ssl[q].open,
                ssl[q].bio_read, TakenBy(q, ssl[q], tlsGot[q]))
    BY <1>2, <1>7
  <2> HIDE DEF q
  <2> QED BY <1>2, <2>1, CarriesClosed
<1>9. Carries(q, ssl[q].open, ssl[q].written, PutBy(q, ssl[q]),
              ssl[q].bio_write, wq, FALSE, d.bio_read, TakenBy(p, c, got))
  BY <1>2, CarriesUnread
<1>10. DirectionOK(p, d, w \o <<EndOfFile>>, ssl[q], tlsGot[q])
  BY <1>4, <1>7, <1>8 DEF DirectionOK
<1>11. DirectionOK(q, ssl[q], wq, d, got)
  BY <1>1, <1>4, <1>7, <1>9 DEF DirectionOK
<1> QED BY <1>5, <1>6, <1>8, <1>10, <1>11 DEF Good

\* A step that leaves the connection c, and perhaps puts something on the wire.
LEMMA BecomesKeeps ==
    ASSUME TlsInv, NEW p \in Peer, NEW c, NEW out \in Seq(Fragment), NEW got,
           Good(p, c, wire[p] \o out, wire[TlsOther(p)], got),
           c.open, ~c.error,
           IF c.cleartextDone /\ c.encryptedDone THEN PairFinished(c)
           ELSE c.encryptedDone = c.encryptedEnded /\ c.cleartextDone = c.destroyAfterPush,
           TlsBecomes(p, c, out), tlsGot' = [tlsGot EXCEPT ![p] = got], nocert' = nocert
    PROVE  TlsInv'
<1> DEFINE q == TlsOther(p)
<1>1. q \in Peer /\ q # p
  BY TwoPeers
<1>2. c \in TlsConnection /\ wire[p] \in Seq(Fragment) /\ wire[q] \in Seq(Fragment)
      /\ wire[p] \o out \in Seq(Fragment) /\ ssl \in [Peer -> TlsConnection] /\ wire \in [Peer -> Seq(Fragment)]
  BY <1>1 DEF Good, TlsInv, TlsTypes
<1>3. ssl' = [ssl EXCEPT ![p] = TlsClose(c)]
  BY DEF TlsBecomes, HandleSSLError
<1>4. CASE c.cleartextDone /\ c.encryptedDone
  <2>1. PICK d : d = [c EXCEPT !.open = FALSE]
    OBVIOUS
  <2>2. /\ d \in TlsConnection /\ ~d.open /\ d.flight = c.flight /\ d.written = c.written /\ d.pending = c.pending
        /\ d.ended = c.ended /\ d.destroyAfterPush = c.destroyAfterPush /\ d.sentShutdown = c.sentShutdown
        /\ d.receivedShutdown = c.receivedShutdown /\ d.bio_read = c.bio_read /\ d.bio_write = c.bio_write
        /\ d.error = c.error /\ d.encryptedEnded = c.encryptedEnded
    BY <1>2, <2>1 DEF TlsConnection
  <2>3. ssl' = [ssl EXCEPT ![p] = d] /\ ssl'[p] = d
    BY <1>2, <1>3, <1>4, <2>1 DEF TlsClose
  <2>4. wire' = [wire EXCEPT ![p] = @ \o out \o <<EndOfFile>>]
    BY <2>2, <2>3 DEF TlsBecomes
  <2>5. Good(p, d, wire[p] \o out \o <<EndOfFile>>, wire[q], got)
    BY <2>2, ClosedKeeps
  <2>6. wire[p] \o out \o <<EndOfFile>> \in Seq(Fragment)
    BY <2>5 DEF Good
  <2>7. wire' \in [Peer -> Seq(Fragment)] /\ wire'[p] = wire[p] \o out \o <<EndOfFile>> /\ wire'[q] = wire[q]
    BY <1>1, <1>2, <2>4, <2>6
  <2>8. PairFinished(d)
    BY <1>4, <2>2 DEF PairFinished
  <2> HIDE DEF q
  <2>9. TlsOther(p) = q
    BY DEF q
  <2> QED BY <2>2, <2>3, <2>5, <2>7, <2>8, <2>9, StepKeeps
<1>5. CASE ~(c.cleartextDone /\ c.encryptedDone)
  <2>1. ssl' = [ssl EXCEPT ![p] = c] /\ ssl'[p] = c
    BY <1>2, <1>3, <1>5 DEF TlsClose
  <2>2. wire' = [wire EXCEPT ![p] = @ \o out \o <<>>]
    BY <2>1 DEF TlsBecomes
  <2>3. wire[p] \o out \o <<>> = wire[p] \o out
    BY <1>2
  <2>4. wire' \in [Peer -> Seq(Fragment)] /\ wire'[p] = wire[p] \o out /\ wire'[q] = wire[q]
    BY <1>1, <1>2, <2>2, <2>3
  <2>5. AtRest(c)
    BY <1>5 DEF AtRest
  <2> QED BY <2>1, <2>4, <2>5, StepKeeps
<1> QED BY <1>4, <1>5

\* A step that finds an error: the pair is destroyed.
LEMMA FailedKeeps ==
    ASSUME TlsInv, NEW p \in Peer, ssl[p].open, NEW c \in TlsConnection, c.error,
           c.flight = ssl[p].flight, c.written = ssl[p].written, c.pending = ssl[p].pending,
           c.ended = ssl[p].ended, c.destroyAfterPush = ssl[p].destroyAfterPush,
           c.sentShutdown = ssl[p].sentShutdown, c.receivedShutdown = ssl[p].receivedShutdown,
           TlsBecomes(p, c, <<>>), tlsGot' = tlsGot, nocert' = nocert
    PROVE  TlsInv'
<1> DEFINE q == TlsOther(p)
<1>1. q \in Peer /\ q # p
  BY TwoPeers
<1>2. wire[p] \in Seq(Fragment) /\ wire[q] \in Seq(Fragment) /\ tlsGot \in [Peer -> Seq(Nat)]
      /\ ssl \in [Peer -> TlsConnection] /\ wire \in [Peer -> Seq(Fragment)]
  BY <1>1 DEF TlsInv, TlsTypes
<1>3. PICK d : d = [c EXCEPT !.open = FALSE, !.cleartextDone = TRUE, !.encryptedDone = TRUE]
  OBVIOUS
<1>4. /\ d \in TlsConnection /\ ~d.open /\ d.error /\ d.cleartextDone /\ d.encryptedDone
      /\ d.flight = c.flight /\ d.written = c.written /\ d.pending = c.pending
      /\ d.ended = c.ended /\ d.destroyAfterPush = c.destroyAfterPush /\ d.sentShutdown = c.sentShutdown
      /\ d.receivedShutdown = c.receivedShutdown
  BY <1>3 DEF TlsConnection
<1>5. [d EXCEPT !.open = FALSE] = d
  BY <1>4 DEF TlsConnection
<1>6. ssl' = [ssl EXCEPT ![p] = d] /\ ssl'[p] = d
  <2>1. HandleSSLError(c) = d
    BY <1>3 DEF HandleSSLError
  <2>2. TlsClose(HandleSSLError(c)) = d
    BY <1>5, <2>1 DEF TlsClose
  <2> QED BY <1>2, <2>2 DEF TlsBecomes
<1>7. wire' = [wire EXCEPT ![p] = @ \o <<>> \o <<EndOfFile>>]
  BY <1>4, <1>6 DEF TlsBecomes
<1>8. wire[p] \o <<>> = wire[p]
  BY <1>2
<1>9. Good(p, d, wire[p] \o <<EndOfFile>>, wire[q], tlsGot[p])
  <2>1. Good(p, ssl[p], wire[p], wire[q], tlsGot[p])
    BY InvGood
  <2> QED BY <1>4, <2>1, ClosedKeeps
<1>10. wire' \in [Peer -> Seq(Fragment)] /\ wire'[p] = wire[p] \o <<EndOfFile>> /\ wire'[q] = wire[q]
  <2>1. wire[p] \o <<EndOfFile>> \in Seq(Fragment)
    BY <1>9 DEF Good
  <2> QED BY <1>1, <1>2, <1>7, <1>8, <2>1
<1>11. PairFinished(d) /\ tlsGot' = [tlsGot EXCEPT ![p] = tlsGot[p]]
  BY <1>2, <1>4 DEF PairFinished
<1> HIDE DEF q
<1>12. TlsOther(p) = q
  BY DEF q
<1> QED BY <1>4, <1>6, <1>9, <1>10, <1>11, <1>12, StepKeeps

\* The end takes a record: it is the next one of the other end.
LEMMA TakesRecord ==
    ASSUME TlsInv, NEW p \in Peer, NEW c, NEW w, NEW wq, NEW got, Good(p, c, w, wq, got),
           c.open, HasRecord(c.bio_read)
    PROVE  /\ SubSeq(c.bio_read, 3, Len(c.bio_read)) \in Seq(Fragment)
           /\ TakenBy(p, c, got) + 1 <= PutBy(TlsOther(p), ssl[TlsOther(p)])
           /\ c.bio_read[1] = Piece(TlsOther(p), ssl[TlsOther(p)].written, TakenBy(p, c, got) + 1, 1)
           /\ \A d, got2 : /\ d.open = TRUE /\ d.bio_read = SubSeq(c.bio_read, 3, Len(c.bio_read))
                           /\ TakenBy(p, d, got2) = TakenBy(p, c, got) + 1
                           => DirectionOK(TlsOther(p), ssl[TlsOther(p)], wq, d, got2)
<1> DEFINE q == TlsOther(p)
<1>1. q \in Peer /\ TlsOther(q) = p
  BY TwoPeers
<1>2. /\ Direction(ssl[q].written, PutBy(q, ssl[q]), ssl[q].bio_write, wq, c.bio_read, TakenBy(p, c, got))
      /\ Carries(q, ssl[q].open, ssl[q].written, PutBy(q, ssl[q]),
                 ssl[q].bio_write, wq, c.open, c.bio_read, TakenBy(p, c, got))
      /\ ssl[q].open \in BOOLEAN /\ c.open \in BOOLEAN
  BY Directions
<1>3. c.open = TRUE /\ Len(c.bio_read) >= 2
  BY <1>2 DEF HasRecord
<1>4. Carries(q, ssl[q].open, ssl[q].written, PutBy(q, ssl[q]),
              ssl[q].bio_write, wq, TRUE, c.bio_read, TakenBy(p, c, got))
  BY <1>2, <1>3
<1> HIDE DEF q
<1>5. /\ Carries(q, ssl[q].open, ssl[q].written, PutBy(q, ssl[q]), ssl[q].bio_write, wq, TRUE,
                 SubSeq(c.bio_read, 3, Len(c.bio_read)), TakenBy(p, c, got) + 1)
      /\ SubSeq(c.bio_read, 3, Len(c.bio_read)) \in Seq(Fragment)
      /\ TakenBy(p, c, got) + 1 <= PutBy(q, ssl[q])
      /\ c.bio_read[1] = Piece(q, ssl[q].written, TakenBy(p, c, got) + 1, 1)
  <2>1. PICK br : br = c.bio_read
    OBVIOUS
  <2>2. PICK bw : bw = ssl[q].bio_write
    OBVIOUS
  <2>3. PICK written : written = ssl[q].written
    OBVIOUS
  <2>4. PICK put : put = PutBy(q, ssl[q])
    OBVIOUS
  <2>5. PICK taken : taken = TakenBy(p, c, got)
    OBVIOUS
  <2>6. PICK so \in BOOLEAN : so = ssl[q].open
    BY <1>2
  <2>7. Direction(written, put, bw, wq, br, taken) /\ Carries(q, so, written, put, bw, wq, TRUE, br, taken) /\ Len(br) >= 2
    BY <1>2, <1>3, <1>4, <2>1, <2>2, <2>3, <2>4, <2>5, <2>6
  <2>8. /\ Carries(q, so, written, put, bw, wq, TRUE, SubSeq(br, 3, Len(br)), taken + 1)
        /\ SubSeq(br, 3, Len(br)) \in Seq(Fragment)
        /\ taken + 1 <= put
        /\ br[1] = Piece(q, written, taken + 1, 1)
    BY <1>1, <2>7, CarriesTaken
  <2> QED BY <2>1, <2>2, <2>3, <2>4, <2>5, <2>6, <2>8
<1>6. ASSUME NEW d, NEW got2, d.open = TRUE, d.bio_read = SubSeq(c.bio_read, 3, Len(c.bio_read)),
             TakenBy(p, d, got2) = TakenBy(p, c, got) + 1
      PROVE  DirectionOK(q, ssl[q], wq, d, got2)
  BY <1>1, <1>5, <1>6 DEF DirectionOK
<1> QED BY <1>5, <1>6 DEF q

\* The end writes a record to its BIO.
LEMMA PutsRecord ==
    ASSUME TlsInv, NEW p \in Peer, NEW c, NEW w, NEW wq, NEW got, Good(p, c, w, wq, got), c.open,
           NEW kind, NEW m, \A h \in {1, 2} : Piece(p, c.written, PutBy(p, c) + 1, h) = <<kind, m, h>>
    PROVE  /\ c.bio_write \o Record(kind, m) \in Seq(Fragment)
           /\ \A d : /\ d.open = TRUE /\ d.bio_write = c.bio_write \o Record(kind, m) /\ d.written = c.written
                     /\ PutBy(p, d) = PutBy(p, c) + 1
                     => DirectionOK(p, d, w, ssl[TlsOther(p)], tlsGot[TlsOther(p)])
<1> DEFINE q == TlsOther(p)
<1>1. q \in Peer /\ TlsOther(q) = p
  BY TwoPeers
<1>2. /\ Direction(c.written, PutBy(p, c), c.bio_write, w, ssl[q].bio_read, TakenBy(q, ssl[q], tlsGot[q]))
      /\ Carries(p, c.open, c.written, PutBy(p, c), c.bio_write, w, ssl[q].open,
                 ssl[q].bio_read, TakenBy(q, ssl[q], tlsGot[q]))
      /\ ssl[q].open \in BOOLEAN /\ c.open \in BOOLEAN
  BY Directions
<1> HIDE DEF q
<1>3. Carries(p, TRUE, c.written, PutBy(p, c), c.bio_write, w, ssl[q].open,
              ssl[q].bio_read, TakenBy(q, ssl[q], tlsGot[q]))
  <2>1. c.open = TRUE
    BY <1>2
  <2> QED BY <1>2, <2>1
<1>4. /\ Carries(p, TRUE, c.written, PutBy(p, c) + 1, c.bio_write \o Record(kind, m), w, ssl[q].open,
                 ssl[q].bio_read, TakenBy(q, ssl[q], tlsGot[q]))
      /\ c.bio_write \o Record(kind, m) \in Seq(Fragment)
  BY <1>2, <1>3, CarriesPut
<1>5. ASSUME NEW d, d.open = TRUE, d.bio_write = c.bio_write \o Record(kind, m), d.written = c.written,
             PutBy(p, d) = PutBy(p, c) + 1
      PROVE  DirectionOK(p, d, w, ssl[q], tlsGot[q])
  <2>1. TlsOther(p) = q
    BY DEF q
  <2> QED BY <1>4, <1>5, <2>1 DEF DirectionOK
<1> QED BY <1>4, <1>5 DEF q

-----------------------------------------------------------------------------
(* The handshake                                                           *)

\* The pieces of a handshake.
LEMMA FlightPieces ==
    ASSUME NEW p \in Peer, NEW written, NEW n \in {1, 2}, NEW h \in {1, 2}
    PROVE  Piece(p, written, n, h) = <<"handshake", IF p = "client" THEN 2 * n - 1 ELSE 2 * n, h>>
<1>1. n <= 2
  OBVIOUS
<1> QED BY <1>1 DEF Piece

\* All that a call of the handshake leaves alone.
KeepsRest(d, c) ==
    /\ d.open = c.open /\ d.started = c.started /\ d.written = c.written /\ d.pending = c.pending
    /\ d.ended = c.ended /\ d.destroyAfterPush = c.destroyAfterPush /\ d.sentShutdown = c.sentShutdown
    /\ d.receivedShutdown = c.receivedShutdown /\ d.cleartextDone = c.cleartextDone
    /\ d.encryptedDone = c.encryptedDone /\ d.encryptedEnded = c.encryptedEnded

\* With a flight that changed, the rest of an end is in order.
LEMMA FlightChanges ==
    ASSUME NEW p \in Peer, NEW c \in TlsConnection, NEW d \in TlsConnection, NEW got, SideShape(p, c, got),
           KeepsRest(d, c), c.flight # Flights, d.flight \in (IF p = "client" THEN {1, 3, 4} ELSE {2, 4})
    PROVE  /\ SideShape(p, d, got)
           /\ PutBy(p, d) = FlightsPut(p, d.flight) /\ PutBy(p, c) = FlightsPut(p, c.flight)
           /\ TakenBy(p, d, got) = FlightsTaken(p, d.flight) /\ TakenBy(p, c, got) = FlightsTaken(p, c.flight)
<1>1. EndWaits(d) = EndWaits(c) /\ WritesWait(d) = WritesWait(c)
  BY DEF EndWaits, WritesWait, KeepsRest
<1>2. got = <<>> /\ ~c.receivedShutdown /\ WritesWait(c) = c.written /\ ~c.sentShutdown
  BY DEF SideShape
<1>3. SideShape(p, d, got)
  <2>1. d.flight \in (IF p = "client" THEN {0, 1, 3, 4} ELSE {0, 2, 4})
    OBVIOUS
  <2> QED BY <1>1, <1>2, <2>1 DEF SideShape, KeepsRest
<1>4. OneIf(c.sentShutdown) = 0 /\ OneIf(c.receivedShutdown) = 0 /\ Len(got) = 0 /\ c.written - WritesWait(c) = 0
  <2>1. c.written \in Nat
    BY DEF TlsConnection
  <2> QED BY <1>2, <2>1 DEF OneIf
<1>5. OneIf(d.sentShutdown) = 0 /\ OneIf(d.receivedShutdown) = 0 /\ d.written - WritesWait(d) = 0
  BY <1>1, <1>4 DEF KeepsRest
<1>6. FlightsPut(p, d.flight) \in Nat /\ FlightsPut(p, c.flight) \in Nat
      /\ FlightsTaken(p, d.flight) \in Nat /\ FlightsTaken(p, c.flight) \in Nat
  BY DEF FlightsPut, FlightsTaken
<1>7. /\ PutBy(p, d) = FlightsPut(p, d.flight) + 0 + 0 /\ PutBy(p, c) = FlightsPut(p, c.flight) + 0 + 0
      /\ TakenBy(p, d, got) = FlightsTaken(p, d.flight) + 0 + 0 /\ TakenBy(p, c, got) = FlightsTaken(p, c.flight) + 0 + 0
  BY <1>4, <1>5 DEF PutBy, TakenBy
<1> QED BY <1>3, <1>6, <1>7

\* An end that has not begun finds nothing: the server sends only what it was asked for.
LEMMA ClientBegins ==
    ASSUME TlsInv, ssl["client"].open, ssl["client"].flight = 0
    PROVE  ~HasRecord(ssl["client"].bio_read)
<1> SUFFICES ASSUME HasRecord(ssl["client"].bio_read) PROVE FALSE
  OBVIOUS
<1>1. "client" \in Peer /\ "server" \in Peer /\ TlsOther("client") = "server" /\ TlsOther("server") = "client"
  BY DEF Peer, TlsOther
<1>2. /\ Good("client", ssl["client"], wire["client"], wire["server"], tlsGot["client"])
      /\ Good("server", ssl["server"], wire["server"], wire["client"], tlsGot["server"])
  BY <1>1, InvGood
<1>3. /\ ssl["client"] \in TlsConnection /\ tlsGot["client"] \in Seq(Nat) /\ SideShape("client", ssl["client"], tlsGot["client"])
      /\ ssl["server"] \in TlsConnection /\ tlsGot["server"] \in Seq(Nat) /\ SideShape("server", ssl["server"], tlsGot["server"])
  BY <1>2 DEF Good
<1>4. TakenBy("client", ssl["client"], tlsGot["client"]) + 1 <= PutBy("server", ssl["server"])
  BY <1>1, <1>2, TakesRecord
<1>5. PutBy("server", ssl["server"]) >= 1
  BY <1>1, <1>3, <1>4, Numbers
<1>6. TakenBy("server", ssl["server"], tlsGot["server"]) <= PutBy("client", ssl["client"])
  BY <1>1, <1>2 DEF Good, DirectionOK, Carries
<1>7. PutBy("client", ssl["client"]) = 0
  <2>1. ~ssl["client"].sentShutdown /\ WritesWait(ssl["client"]) = ssl["client"].written
    BY <1>3 DEF SideShape, Flights
  <2>2. FlightsPut("client", ssl["client"].flight) = 0
    BY DEF FlightsPut
  <2>3. ssl["client"].written \in Nat
    BY <1>3 DEF TlsConnection
  <2> QED BY <2>1, <2>2, <2>3 DEF PutBy, OneIf
<1>8. TakenBy("server", ssl["server"], tlsGot["server"]) >= 1
  <2>1. CASE ssl["server"].flight = 0
    <3>1. ~ssl["server"].sentShutdown /\ WritesWait(ssl["server"]) = ssl["server"].written
      BY <1>3, <2>1 DEF SideShape, Flights
    <3>2. FlightsPut("server", ssl["server"].flight) = 0
      BY <2>1 DEF FlightsPut
    <3>3. ssl["server"].written \in Nat
      BY <1>3 DEF TlsConnection
    <3>4. PutBy("server", ssl["server"]) = 0
      BY <3>1, <3>2, <3>3 DEF PutBy, OneIf
    <3> QED BY <1>5, <3>4
  <2>2. CASE ssl["server"].flight # 0
    <3>1. FlightsTaken("server", ssl["server"].flight) >= 1
      BY <2>2 DEF FlightsTaken
    <3>2. /\ TakenBy("server", ssl["server"], tlsGot["server"])
               = FlightsTaken("server", ssl["server"].flight) + Len(tlsGot["server"]) + OneIf(ssl["server"].receivedShutdown)
          /\ Len(tlsGot["server"]) \in Nat /\ OneIf(ssl["server"].receivedShutdown) \in {0, 1}
          /\ FlightsTaken("server", ssl["server"].flight) \in 0..2
      BY <1>1, <1>3, Numbers
    <3>3. PICK f \in 0..2 : f = FlightsTaken("server", ssl["server"].flight)
      BY <3>2
    <3>4. PICK o \in {0, 1} : o = OneIf(ssl["server"].receivedShutdown)
      BY <3>2
    <3>5. f + Len(tlsGot["server"]) + o >= 1
      BY <3>1, <3>2, <3>3
    <3> QED BY <3>2, <3>3, <3>4, <3>5
  <2> QED BY <2>1, <2>2
<1>9. TakenBy("server", ssl["server"], tlsGot["server"]) \in Nat
  BY <1>1, <1>3, Numbers
<1> QED BY <1>6, <1>7, <1>8, <1>9

\* What Sent makes of a connection whose turn it is, and of another one.
LEMMA SentEffect ==
    ASSUME NEW p, NEW c \in TlsConnection, ~c.error,
           c.bio_write \o Record("handshake", c.flight + 1) \in Seq(Fragment)
    PROVE  /\ c.flight # Flights /\ (c.flight % 2 = 0) = (p = "client") =>
                /\ Sent(p, c) \in TlsConnection /\ KeepsRest(Sent(p, c), c) /\ ~Sent(p, c).error
                /\ Sent(p, c).flight = c.flight + 1 /\ Sent(p, c).bio_read = c.bio_read
                /\ Sent(p, c).bio_write = c.bio_write \o Record("handshake", c.flight + 1)
           /\ c.flight = Flights \/ ~((c.flight % 2 = 0) = (p = "client")) => Sent(p, c) = c
<1>1. ASSUME c.flight # Flights, (c.flight % 2 = 0) = (p = "client")
      PROVE  /\ Sent(p, c) \in TlsConnection /\ KeepsRest(Sent(p, c), c) /\ ~Sent(p, c).error
             /\ Sent(p, c).flight = c.flight + 1 /\ Sent(p, c).bio_read = c.bio_read
             /\ Sent(p, c).bio_write = c.bio_write \o Record("handshake", c.flight + 1)
  <2>1. PICK more \in Seq(Fragment) : more = c.bio_write \o Record("handshake", c.flight + 1)
    OBVIOUS
  <2>0. PICK f \in Nat : f = c.flight + 1
    <3>1. c.flight \in Nat
      BY DEF TlsConnection
    <3> QED BY <3>1
  <2>2. PICK d : d = [c EXCEPT !.flight = f, !.bio_write = more]
    OBVIOUS
  <2>3. Sent(p, c) = d
    BY <1>1, <2>0, <2>1, <2>2 DEF Sent, IsInitFinished
  <2>4. /\ d \in TlsConnection /\ d.flight = f /\ d.bio_read = c.bio_read /\ d.bio_write = more
        /\ d.error = c.error
    BY <2>2 DEF TlsConnection
  <2>5. KeepsRest(d, c)
    BY <2>2 DEF TlsConnection, KeepsRest
  <2> QED BY <2>0, <2>1, <2>3, <2>4, <2>5
<1>2. ASSUME c.flight = Flights \/ ~((c.flight % 2 = 0) = (p = "client"))
      PROVE  Sent(p, c) = c
  BY <1>2 DEF Sent, IsInitFinished
<1> QED BY <1>1, <1>2

\* A call of the handshake finds an error, or leaves all in order.
LEMMA HandshakeKeeps ==
    ASSUME TlsInv, NEW p \in Peer, ssl[p].open
    PROVE  /\ Handshake(p) \in TlsConnection /\ KeepsRest(Handshake(p), ssl[p])
           /\ \/ Handshake(p).error /\ Handshake(p).flight = ssl[p].flight /\ Handshake(p).flight # Flights
              \/ ~Handshake(p).error /\ Good(p, Handshake(p), wire[p], wire[TlsOther(p)], tlsGot[p])
<1> DEFINE q == TlsOther(p)
<1>1. q \in Peer /\ TlsOther(q) = p
  BY TwoPeers
<1> HIDE DEF q
<1>2. PICK c : c = ssl[p]
  OBVIOUS
<1>3. Good(p, c, wire[p], wire[q], tlsGot[p]) /\ SideOK(p, c, tlsGot[p])
  BY <1>2, InvGood DEF q
<1>4. /\ c \in TlsConnection /\ tlsGot[p] \in Seq(Nat) /\ SideShape(p, c, tlsGot[p])
      /\ wire[p] \in Seq(Fragment) /\ wire[q] \in Seq(Fragment)
  BY <1>3 DEF Good
<1>5. c.open /\ ~c.error /\ c.flight \in Nat /\ c.bio_read \in Seq(Fragment) /\ c.bio_write \in Seq(Fragment)
  BY <1>2, <1>3, <1>4 DEF SideOK, AtRest, TlsConnection
<1>6. c.flight \in (IF p = "client" THEN {0, 1, 3, 4} ELSE {0, 2, 4})
  BY <1>4 DEF SideShape
<1>7. p = "client" \/ p = "server"
  BY DEF Peer
<1>8. KeepsRest(c, c)
  BY DEF KeepsRest
<1>9. Handshake(p) = Sent(p, Received(p, c))
  BY <1>2 DEF Handshake
<1>10. /\ ToldAll(c, tlsGot[p], ssl[q]) /\ ToldAll(ssl[q], tlsGot[q], c)
       /\ DirectionOK(p, c, wire[p], ssl[q], tlsGot[q])
       /\ DirectionOK(q, ssl[q], wire[q], c, tlsGot[p])
  BY <1>3 DEF Good, q
\* What is to be shown of a new connection whose flight changed.
<1>11. ASSUME NEW d \in TlsConnection, KeepsRest(d, c), c.flight # Flights,
              d.flight \in (IF p = "client" THEN {1, 3, 4} ELSE {2, 4}),
              DirectionOK(p, d, wire[p], ssl[q], tlsGot[q]), DirectionOK(q, ssl[q], wire[q], d, tlsGot[p])
       PROVE  Good(p, d, wire[p], wire[q], tlsGot[p])
  <2>1. SideShape(p, d, tlsGot[p])
    BY <1>4, <1>11, FlightChanges
  <2>2. ToldAll(d, tlsGot[p], ssl[q]) /\ ToldAll(ssl[q], tlsGot[q], d)
    BY <1>10, <1>11 DEF ToldAll, KeepsRest
  <2> QED BY <1>4, <1>11, <2>1, <2>2 DEF Good, q
\* The records that a flight takes and puts.
<1>12. ASSUME NEW d \in TlsConnection, KeepsRest(d, c), c.flight # Flights,
              d.flight \in (IF p = "client" THEN {1, 3, 4} ELSE {2, 4})
       PROVE  /\ PutBy(p, d) = FlightsPut(p, d.flight) /\ PutBy(p, c) = FlightsPut(p, c.flight)
              /\ TakenBy(p, d, tlsGot[p]) = FlightsTaken(p, d.flight)
              /\ TakenBy(p, c, tlsGot[p]) = FlightsTaken(p, c.flight)
  BY <1>4, <1>12, FlightChanges
<1>13. CASE c.flight = Flights
  <2>1. Received(p, c) = c
    BY <1>13 DEF Received, IsInitFinished
  <2>2. Sent(p, c) = c
    BY <1>13 DEF Sent, IsInitFinished
  <2> QED BY <1>2, <1>3, <1>4, <1>5, <1>8, <1>9, <2>1, <2>2 DEF q
<1>14. CASE c.flight # Flights /\ ~HasRecord(c.bio_read)
  <2>1. Received(p, c) = c
    BY <1>14 DEF Received
  <2>2. CASE p = "client" /\ c.flight = 0
    <3>1. c.flight + 1 = 1 /\ c.flight % 2 = 0
      BY <2>2
    <3>2. \A h \in {1, 2} : Piece(p, c.written, 1, h) = <<"handshake", 1, h>>
      BY <2>2, FlightPieces
    <3>3. PutBy(p, c) = 0
      <4>1. PICK e : e = [c EXCEPT !.flight = 1]
        OBVIOUS
      <4>2. e \in TlsConnection /\ e.flight = 1 /\ KeepsRest(e, c)
        BY <1>4, <4>1 DEF TlsConnection, KeepsRest
      <4>3. PutBy(p, c) = FlightsPut(p, c.flight)
        BY <1>12, <1>14, <2>2, <4>2
      <4> QED BY <2>2, <4>3 DEF FlightsPut
    <3>4. \A h \in {1, 2} : Piece(p, c.written, PutBy(p, c) + 1, h) = <<"handshake", 1, h>>
      <4>1. PutBy(p, c) + 1 = 1
        BY <3>3
      <4> QED BY <3>2, <4>1
    <3>5. /\ c.bio_write \o Record("handshake", 1) \in Seq(Fragment)
          /\ \A d : /\ d.open = TRUE /\ d.bio_write = c.bio_write \o Record("handshake", 1) /\ d.written = c.written
                    /\ PutBy(p, d) = PutBy(p, c) + 1
                    => DirectionOK(p, d, wire[p], ssl[q], tlsGot[q])
      BY <1>3, <1>5, <3>4, PutsRecord DEF q
    <3>6. PICK d : d = Sent(p, c)
      OBVIOUS
    <3>7. /\ d \in TlsConnection /\ KeepsRest(d, c) /\ ~d.error /\ d.flight = 1 /\ d.bio_read = c.bio_read
          /\ d.bio_write = c.bio_write \o Record("handshake", 1)
      <4>1. c.bio_write \o Record("handshake", c.flight + 1) \in Seq(Fragment)
        BY <3>1, <3>5
      <4>2. c.flight # Flights /\ (c.flight % 2 = 0) = (p = "client")
        BY <1>14, <2>2, <3>1
      <4>3. /\ d \in TlsConnection /\ KeepsRest(d, c) /\ ~d.error
            /\ d.flight = c.flight + 1 /\ d.bio_read = c.bio_read
            /\ d.bio_write = c.bio_write \o Record("handshake", c.flight + 1)
        BY <1>4, <1>5, <3>6, <4>1, <4>2, SentEffect
      <4> QED BY <3>1, <4>3
    <3>8. PutBy(p, d) = 1 /\ TakenBy(p, d, tlsGot[p]) = TakenBy(p, c, tlsGot[p])
      BY <1>12, <1>14, <2>2, <3>7 DEF FlightsPut, FlightsTaken
    <3>9. DirectionOK(p, d, wire[p], ssl[q], tlsGot[q])
      <4>1. d.open = TRUE /\ d.written = c.written
        BY <1>5, <3>7 DEF KeepsRest, TlsConnection
      <4> QED BY <3>3, <3>5, <3>7, <3>8, <4>1
    <3>10. DirectionOK(q, ssl[q], wire[q], d, tlsGot[p])
      <4>1. d.open = c.open
        BY <3>7 DEF KeepsRest
      <4> QED BY <1>1, <1>10, <3>7, <3>8, <4>1 DEF DirectionOK
    <3>11. Good(p, d, wire[p], wire[q], tlsGot[p])
      BY <1>11, <1>14, <2>2, <3>7, <3>9, <3>10
    <3> QED BY <1>2, <1>9, <2>1, <3>6, <3>7, <3>11 DEF q
  <2>3. CASE ~(p = "client" /\ c.flight = 0)
    <3>1. Sent(p, c) = c
      <4>1. ~((c.flight % 2 = 0) = (p = "client"))
        <5>1. CASE p = "client"
          <6>1. c.flight \in {1, 3}
            BY <1>6, <1>14, <2>3, <5>1 DEF Flights
          <6> QED BY <5>1, <6>1
        <5>2. CASE p = "server"
          <6>1. c.flight \in {0, 2}
            BY <1>6, <1>14, <5>2 DEF Flights
          <6> QED BY <5>2, <6>1
        <5> QED BY <1>7, <5>1, <5>2
      <4> QED BY <4>1 DEF Sent
    <3> QED BY <1>2, <1>3, <1>4, <1>5, <1>8, <1>9, <2>1, <3>1 DEF q
  <2> QED BY <2>2, <2>3
<1>15. CASE c.flight # Flights /\ HasRecord(c.bio_read)
  <2> DEFINE br == SubSeq(c.bio_read, 3, Len(c.bio_read))
  <2>1. /\ br \in Seq(Fragment)
        /\ c.bio_read[1] = Piece(q, ssl[q].written, TakenBy(p, c, tlsGot[p]) + 1, 1)
        /\ \A d, got2 : /\ d.open = TRUE /\ d.bio_read = br
                        /\ TakenBy(p, d, got2) = TakenBy(p, c, tlsGot[p]) + 1
                        => DirectionOK(q, ssl[q], wire[q], d, got2)
    BY <1>3, <1>5, <1>15, TakesRecord DEF q
  <2> HIDE DEF br
  <2>2. c.bio_read[1][1] # "alert"
    <3>1. TakenBy(p, c, tlsGot[p]) + 1 \in Nat \ {0}
      <4>1. TakenBy(p, c, tlsGot[p]) \in Nat
        BY <1>4, Numbers
      <4> QED BY <4>1
    <3>2. ssl[q].written \in Nat
      BY <1>1 DEF TlsInv, TlsTypes, TlsConnection
    <3> QED BY <1>1, <2>1, <3>1, <3>2, PieceKinds
  <2>3. PICK rest : rest = [c EXCEPT !.bio_read = br]
    OBVIOUS
  <2>4. /\ rest \in TlsConnection /\ KeepsRest(rest, c) /\ rest.bio_read = br /\ rest.bio_write = c.bio_write
        /\ rest.flight = c.flight /\ rest.error = c.error
    BY <1>4, <2>1, <2>3 DEF TlsConnection, KeepsRest
  <2>5. ~(p = "client" /\ c.flight = 0)
    BY <1>2, <1>5, <1>15, ClientBegins
  <2>6. CASE p = "server" /\ c.flight = 2 /\ nocert
    <3>1. PICK more \in Seq(Fragment) : more = rest.bio_write \o Record("alert", 0)
      <4>1. Record("alert", 0) \in Seq(Fragment)
        BY DEF Record, Fragment
      <4>2. c.bio_write \o Record("alert", 0) \in Seq(Fragment)
        BY <1>5, <4>1, JoinedSeq
      <4> QED BY <2>4, <4>2
    <3>2. PICK d : d = [rest EXCEPT !.error = TRUE, !.bio_write = more]
      OBVIOUS
    <3>3. Received(p, c) = d
      BY <1>15, <2>2, <2>3, <2>6, <3>1, <3>2 DEF Received, IsInitFinished, br
    <3>4. d \in TlsConnection /\ d.error /\ d.flight = c.flight
      BY <2>4, <3>2 DEF TlsConnection
    <3>5. KeepsRest(d, c)
      BY <2>4, <3>2 DEF TlsConnection, KeepsRest
    <3>6. Sent(p, d) = d
      BY <3>4 DEF Sent
    <3> QED BY <1>2, <1>9, <1>15, <3>3, <3>4, <3>5, <3>6
  <2>7. CASE ~(p = "server" /\ c.flight = 2 /\ nocert)
    <3>0. PICK next \in Nat : next = c.flight + 1
      BY <1>5
    <3>1. PICK r : r = [rest EXCEPT !.flight = next]
      OBVIOUS
    <3>2. Received(p, c) = r
      BY <1>15, <2>2, <2>3, <2>4, <2>7, <3>0, <3>1 DEF Received, IsInitFinished, br
    <3>3. /\ r \in TlsConnection /\ r.flight = c.flight + 1 /\ r.bio_read = br /\ r.bio_write = c.bio_write /\ ~r.error
      <4>1. /\ r \in TlsConnection /\ r.flight = next /\ r.bio_read = rest.bio_read /\ r.bio_write = rest.bio_write
            /\ r.error = rest.error
        BY <2>4, <3>1 DEF TlsConnection
      <4> QED BY <1>5, <2>4, <3>0, <4>1
    <3>4. KeepsRest(r, c)
      BY <2>4, <3>1 DEF TlsConnection, KeepsRest
    <3>5. CASE p = "client" /\ c.flight = 3
      <4>1. r.flight = Flights
        BY <3>3, <3>5 DEF Flights
      <4>2. Sent(p, r) = r
        BY <4>1 DEF Sent, IsInitFinished
      <4>3. /\ PutBy(p, r) = PutBy(p, c)
            /\ TakenBy(p, r, tlsGot[p]) = TakenBy(p, c, tlsGot[p]) + 1
        <5>1. r.flight = 4
          BY <4>1 DEF Flights
        <5>2. /\ PutBy(p, r) = FlightsPut(p, r.flight) /\ PutBy(p, c) = FlightsPut(p, c.flight)
              /\ TakenBy(p, r, tlsGot[p]) = FlightsTaken(p, r.flight)
              /\ TakenBy(p, c, tlsGot[p]) = FlightsTaken(p, c.flight)
          BY <1>12, <1>15, <3>3, <3>4, <3>5, <5>1
        <5> QED BY <3>5, <5>1, <5>2 DEF FlightsPut, FlightsTaken
      <4>4. r.open = TRUE /\ r.written = c.written /\ c.open = TRUE
        BY <1>4, <1>5, <3>4 DEF KeepsRest, TlsConnection
      <4>5. DirectionOK(q, ssl[q], wire[q], r, tlsGot[p])
        BY <2>1, <3>3, <4>3, <4>4
      <4>6. DirectionOK(p, r, wire[p], ssl[q], tlsGot[q])
        BY <1>10, <3>3, <4>3, <4>4 DEF DirectionOK
      <4>7. Good(p, r, wire[p], wire[q], tlsGot[p])
        <5>1. r.flight \in (IF p = "client" THEN {1, 3, 4} ELSE {2, 4})
          BY <3>5, <4>1 DEF Flights
        <5> QED BY <1>11, <1>15, <3>3, <3>4, <4>5, <4>6, <5>1
      <4> QED BY <1>2, <1>9, <3>2, <3>3, <3>4, <4>2, <4>7 DEF q
    <3>6. ASSUME NEW f \in Nat, NEW n \in {1, 2}, c.flight = f, r.flight # Flights,
                 (r.flight % 2 = 0) = (p = "client"),
                 f + 2 \in (IF p = "client" THEN {1, 3, 4} ELSE {2, 4}),
                 f + 2 = (IF p = "client" THEN 2 * n - 1 ELSE 2 * n),
                 FlightsPut(p, f) + 1 = n, FlightsPut(p, f + 2) = n, FlightsTaken(p, f + 2) = FlightsTaken(p, f) + 1
          PROVE  /\ Sent(p, r) \in TlsConnection /\ KeepsRest(Sent(p, r), c) /\ ~Sent(p, r).error
                 /\ Good(p, Sent(p, r), wire[p], wire[q], tlsGot[p])
      <4>1. r.flight + 1 = f + 2
        BY <3>3, <3>6
      <4>2. \A h \in {1, 2} : Piece(p, c.written, n, h) = <<"handshake", f + 2, h>>
        BY <3>6, FlightPieces
      <4>3. PutBy(p, c) + 1 = n
        <5>0. PICK f2 \in Nat : f2 = f + 2
          OBVIOUS
        <5>1. PICK e : e = [c EXCEPT !.flight = f2]
          OBVIOUS
        <5>2. e \in TlsConnection /\ e.flight = f + 2 /\ KeepsRest(e, c)
          BY <1>4, <5>0, <5>1 DEF TlsConnection, KeepsRest
        <5>3. PutBy(p, c) = FlightsPut(p, f)
          BY <1>12, <1>15, <3>6, <5>2
        <5> QED BY <3>6, <5>3
      <4>4. /\ c.bio_write \o Record("handshake", f + 2) \in Seq(Fragment)
            /\ \A d : /\ d.open = TRUE /\ d.bio_write = c.bio_write \o Record("handshake", f + 2) /\ d.written = c.written
                      /\ PutBy(p, d) = PutBy(p, c) + 1
                      => DirectionOK(p, d, wire[p], ssl[q], tlsGot[q])
        <5>1. \A h \in {1, 2} : Piece(p, c.written, PutBy(p, c) + 1, h) = <<"handshake", f + 2, h>>
          BY <4>2, <4>3
        <5> QED BY <1>3, <1>5, <5>1, PutsRecord DEF q
      <4>5. PICK d : d = Sent(p, r)
        OBVIOUS
      <4>6. /\ d \in TlsConnection /\ KeepsRest(d, r) /\ ~d.error /\ d.flight = f + 2 /\ d.bio_read = br
            /\ d.bio_write = c.bio_write \o Record("handshake", f + 2)
        <5>1. r.bio_write \o Record("handshake", r.flight + 1) \in Seq(Fragment)
          BY <3>3, <4>1, <4>4
        <5>2. /\ d \in TlsConnection /\ KeepsRest(d, r) /\ ~d.error
              /\ d.flight = r.flight + 1 /\ d.bio_read = r.bio_read
              /\ d.bio_write = r.bio_write \o Record("handshake", r.flight + 1)
          <6>1. r \in TlsConnection /\ ~r.error
            BY <3>3
          <6>2. r.flight # Flights /\ (r.flight % 2 = 0) = (p = "client")
            BY <3>6
          <6>3. /\ Sent(p, r) \in TlsConnection /\ KeepsRest(Sent(p, r), r) /\ ~Sent(p, r).error
                /\ Sent(p, r).flight = r.flight + 1 /\ Sent(p, r).bio_read = r.bio_read
                /\ Sent(p, r).bio_write = r.bio_write \o Record("handshake", r.flight + 1)
            BY <5>1, <6>1, <6>2, SentEffect
          <6> QED BY <4>5, <6>3
        <5> QED BY <3>3, <4>1, <5>2
      <4>7. KeepsRest(d, c)
        BY <3>4, <4>6 DEF KeepsRest
      <4>8. PutBy(p, d) = PutBy(p, c) + 1 /\ TakenBy(p, d, tlsGot[p]) = TakenBy(p, c, tlsGot[p]) + 1
        BY <1>12, <1>15, <3>6, <4>3, <4>6, <4>7
      <4>9. d.open = TRUE /\ d.written = c.written
        BY <1>5, <4>6, <4>7 DEF KeepsRest, TlsConnection
      <4>10. DirectionOK(p, d, wire[p], ssl[q], tlsGot[q])
        BY <4>4, <4>6, <4>8, <4>9
      <4>11. DirectionOK(q, ssl[q], wire[q], d, tlsGot[p])
        BY <2>1, <4>6, <4>8, <4>9
      <4>12. Good(p, d, wire[p], wire[q], tlsGot[p])
        BY <1>11, <1>15, <3>6, <4>6, <4>7, <4>10, <4>11
      <4> QED BY <4>5, <4>6, <4>7, <4>12
    <3>7. CASE p = "client" /\ c.flight = 1
      <4>1. FlightsPut(p, 1) + 1 = 2 /\ FlightsPut(p, 1 + 2) = 2 /\ FlightsTaken(p, 1 + 2) = FlightsTaken(p, 1) + 1
        BY <3>7 DEF FlightsPut, FlightsTaken
      <4>2. r.flight # Flights /\ (r.flight % 2 = 0) = (p = "client")
        BY <3>3, <3>7 DEF Flights
      <4> QED BY <1>2, <1>9, <3>2, <3>6, <3>7, <4>1, <4>2 DEF q
    <3>8. CASE p = "server" /\ c.flight = 0
      <4>1. FlightsPut(p, 0) + 1 = 1 /\ FlightsPut(p, 0 + 2) = 1 /\ FlightsTaken(p, 0 + 2) = FlightsTaken(p, 0) + 1
        BY <3>8 DEF FlightsPut, FlightsTaken
      <4>2. r.flight # Flights /\ (r.flight % 2 = 0) = (p = "client")
        BY <3>3, <3>8 DEF Flights
      <4> QED BY <1>2, <1>9, <3>2, <3>6, <3>8, <4>1, <4>2 DEF q
    <3>9. CASE p = "server" /\ c.flight = 2
      <4>1. FlightsPut(p, 2) + 1 = 2 /\ FlightsPut(p, 2 + 2) = 2 /\ FlightsTaken(p, 2 + 2) = FlightsTaken(p, 2) + 1
        BY <3>9 DEF FlightsPut, FlightsTaken
      <4>2. r.flight # Flights /\ (r.flight % 2 = 0) = (p = "client")
        BY <3>3, <3>9 DEF Flights
      <4> QED BY <1>2, <1>9, <3>2, <3>6, <3>9, <4>1, <4>2 DEF q
    <3> QED BY <1>6, <1>7, <1>15, <2>5, <3>5, <3>7, <3>8, <3>9 DEF Flights
  <2> QED BY <2>6, <2>7
<1> QED BY <1>13, <1>14, <1>15

-----------------------------------------------------------------------------
(* The application and the wire                                            *)

\* What a step needs to know of an open end.
LEMMA OpenEnd ==
    ASSUME TlsInv, NEW p \in Peer, ssl[p].open
    PROVE  /\ Good(p, ssl[p], wire[p], wire[TlsOther(p)], tlsGot[p])
           /\ AtRest(ssl[p])
           /\ ssl \in [Peer -> TlsConnection] /\ wire \in [Peer -> Seq(Fragment)] /\ tlsGot \in [Peer -> Seq(Nat)]
           /\ tlsGot = [tlsGot EXCEPT ![p] = tlsGot[p]]
<1>1. ssl \in [Peer -> TlsConnection] /\ wire \in [Peer -> Seq(Fragment)] /\ tlsGot \in [Peer -> Seq(Nat)]
  BY DEF TlsInv, TlsTypes
<1>2. tlsGot = [tlsGot EXCEPT ![p] = tlsGot[p]]
  BY <1>1
<1>3. Good(p, ssl[p], wire[p], wire[TlsOther(p)], tlsGot[p]) /\ SideOK(p, ssl[p], tlsGot[p])
  BY InvGood
<1>4. AtRest(ssl[p])
  BY <1>3 DEF SideOK
<1> QED BY <1>1, <1>2, <1>3, <1>4

\* What does not matter to the other end.
LEMMA GoodSame ==
    ASSUME NEW p \in Peer, NEW c, NEW w, NEW wq, NEW got, Good(p, c, w, wq, got),
           NEW d \in TlsConnection, d.open = c.open, d.flight = c.flight, d.bio_read = c.bio_read,
           d.bio_write = c.bio_write, d.written = c.written, d.pending = c.pending,
           d.ended = c.ended, d.destroyAfterPush = c.destroyAfterPush, d.sentShutdown = c.sentShutdown,
           d.receivedShutdown = c.receivedShutdown
    PROVE  Good(p, d, w, wq, got)
<1> DEFINE q == TlsOther(p)
<1>1. TlsOther(q) = p
  BY TwoPeers
<1>2. EndWaits(d) = EndWaits(c) /\ WritesWait(d) = WritesWait(c)
  BY DEF EndWaits, WritesWait
<1>3. PutBy(p, d) = PutBy(p, c) /\ TakenBy(p, d, got) = TakenBy(p, c, got)
  BY <1>2 DEF PutBy, TakenBy
<1>4. SideShape(p, d, got)
  <2>1. SideShape(p, c, got)
    BY DEF Good
  <2> QED BY <1>2, <2>1 DEF SideShape
<1>5. ToldAll(d, got, ssl[q]) /\ ToldAll(ssl[q], tlsGot[q], d)
  BY DEF Good, ToldAll
<1>6. DirectionOK(p, d, w, ssl[q], tlsGot[q]) /\ DirectionOK(q, ssl[q], wq, d, got)
  BY <1>1, <1>3 DEF Good, DirectionOK
<1> QED BY <1>4, <1>5, <1>6 DEF Good

\* A sequence with one more element.
LEMMA AppendedSeq ==
    ASSUME NEW S, NEW s \in Seq(S), NEW e \in S
    PROVE  /\ Append(s, e) \in Seq(S) /\ Len(Append(s, e)) = Len(s) + 1
           /\ \A i \in 1..Len(s) : Append(s, e)[i] = s[i]
           /\ Append(s, e)[Len(s) + 1] = e
OBVIOUS

\* A write of the application waits behind the others.
LEMMA TlsWriteKeeps ==
    ASSUME TlsInv, NEW p \in Peer, TlsWrite(p)
    PROVE  TlsInv'
<1> DEFINE q == TlsOther(p)
<1>1. q \in Peer /\ q # p /\ TlsOther(q) = p
  BY TwoPeers
<1>2. PICK c : c = ssl[p]
  OBVIOUS
<1>3. /\ Good(p, c, wire[p], wire[q], tlsGot[p]) /\ AtRest(c) /\ ssl \in [Peer -> TlsConnection]
      /\ wire \in [Peer -> Seq(Fragment)] /\ tlsGot = [tlsGot EXCEPT ![p] = tlsGot[p]]
  BY <1>2, OpenEnd DEF TlsWrite
<1>4. /\ c \in TlsConnection /\ tlsGot[p] \in Seq(Nat) /\ SideShape(p, c, tlsGot[p])
      /\ wire[p] \in Seq(Fragment) /\ wire[q] \in Seq(Fragment)
  BY <1>3 DEF Good
<1>5. c.open /\ ~c.ended /\ c.written < TlsMaxWrites /\ c.written \in Nat /\ c.pending \in Seq(Fragment)
  BY <1>2, <1>4 DEF TlsWrite, TlsConnection
<1>6. PICK written \in Nat : written = c.written + 1
  BY <1>5
<1>7. PICK e \in Fragment : e = <<"data", written, 0>>
  BY DEF Fragment
<1>8. PICK pending \in Seq(Fragment) : pending = Append(c.pending, e)
  BY <1>5, AppendedSeq
<1>9. /\ Len(pending) = Len(c.pending) + 1
      /\ \A i \in 1..Len(c.pending) : pending[i] = c.pending[i]
      /\ pending[Len(c.pending) + 1] = e
  BY <1>5, <1>8, AppendedSeq
<1>10. PICK d : d = [c EXCEPT !.written = written, !.pending = pending]
  OBVIOUS
<1>11. /\ d \in TlsConnection /\ d.open = c.open /\ d.flight = c.flight /\ d.bio_read = c.bio_read
       /\ d.bio_write = c.bio_write /\ d.written = written /\ d.pending = pending
       /\ d.ended = c.ended /\ d.destroyAfterPush = c.destroyAfterPush /\ d.sentShutdown = c.sentShutdown
       /\ d.receivedShutdown = c.receivedShutdown /\ d.error = c.error
  BY <1>4, <1>10 DEF TlsConnection
<1>12. AtRest(d) /\ d.open
  <2>1. d.cleartextDone = c.cleartextDone /\ d.encryptedDone = c.encryptedDone /\ d.encryptedEnded = c.encryptedEnded
    BY <1>4, <1>10 DEF TlsConnection
  <2> QED BY <1>3, <1>5, <1>11, <2>1 DEF AtRest
<1>13. ssl' = [ssl EXCEPT ![p] = d]
  BY <1>2, <1>3, <1>6, <1>7, <1>8, <1>10 DEF TlsWrite
<1>14. ~EndWaits(c) /\ ~EndWaits(d) /\ ~c.destroyAfterPush /\ ~c.sentShutdown
  BY <1>4, <1>5, <1>11 DEF EndWaits, SideShape
<1>15. WritesWait(c) = Len(c.pending) /\ WritesWait(d) = Len(c.pending) + 1 /\ Len(c.pending) \in Nat
  BY <1>5, <1>9, <1>11, <1>14 DEF WritesWait, OneIf
<1>16. WritesWait(c) \in 0..c.written /\ \A i \in 1..WritesWait(c) : c.pending[i] = <<"data", c.written - WritesWait(c) + i, 0>>
  BY <1>4 DEF SideShape
<1>17. WritesWait(d) \in 0..d.written /\ d.written - WritesWait(d) = c.written - WritesWait(c)
  <2>1. PICK l \in Nat : l = Len(c.pending)
    BY <1>15
  <2>2. PICK a \in Nat : a = c.written
    BY <1>5
  <2>3. l <= a /\ l + 1 \in 0..a + 1 /\ (a + 1) - (l + 1) = a - l
    BY <1>15, <1>16, <2>1, <2>2
  <2> QED BY <1>6, <1>11, <1>15, <2>1, <2>2, <2>3
<1>18. \A i \in 1..WritesWait(d) : d.pending[i] = <<"data", d.written - WritesWait(d) + i, 0>>
  <2>1. ASSUME NEW i \in 1..Len(c.pending) PROVE d.pending[i] = <<"data", d.written - WritesWait(d) + i, 0>>
    BY <1>9, <1>11, <1>15, <1>16, <1>17
  <2>2. d.pending[Len(c.pending) + 1] = <<"data", d.written - WritesWait(d) + (Len(c.pending) + 1), 0>>
    <3>1. d.written - WritesWait(d) + (Len(c.pending) + 1) = written
      BY <1>5, <1>6, <1>11, <1>15
    <3> QED BY <1>7, <1>9, <1>11, <3>1
  <2>3. \A i \in 1..Len(c.pending) + 1 : i \in 1..Len(c.pending) \/ i = Len(c.pending) + 1
    BY <1>15
  <2> QED BY <1>15, <2>1, <2>2, <2>3
<1>19. SideShape(p, d, tlsGot[p])
  <2>1. d.written <= TlsMaxWrites
    BY <1>5, <1>6, <1>11, TlsAssumption
  <2>2. c.flight # Flights => WritesWait(d) = d.written
    <3>1. c.flight # Flights => WritesWait(c) = c.written
      BY <1>4 DEF SideShape
    <3> QED BY <1>5, <1>6, <1>11, <1>15, <3>1
  <2>3. /\ c.flight \in (IF p = "client" THEN {0, 1, 3, 4} ELSE {0, 2, 4})
        /\ tlsGot[p] = [i \in 1..Len(tlsGot[p]) |-> i] /\ Len(tlsGot[p]) <= TlsMaxWrites
        /\ c.flight # Flights => tlsGot[p] = <<>> /\ ~c.receivedShutdown
    BY <1>4 DEF SideShape
  <2> QED BY <1>11, <1>14, <1>17, <1>18, <2>1, <2>2, <2>3 DEF SideShape
<1>20. PutBy(p, d) = PutBy(p, c) /\ TakenBy(p, d, tlsGot[p]) = TakenBy(p, c, tlsGot[p])
  BY <1>11, <1>17 DEF PutBy, TakenBy
<1>21. PutBy(p, c) <= c.written + 2
  <2>1. /\ FlightsPut(p, c.flight) \in 0..2 /\ WritesWait(c) \in Nat
        /\ PutBy(p, c) = FlightsPut(p, c.flight) + (c.written - WritesWait(c)) + OneIf(c.sentShutdown)
    BY <1>4, Numbers
  <2>2. OneIf(c.sentShutdown) = 0
    BY <1>14 DEF OneIf
  <2>3. PICK f \in 0..2 : f = FlightsPut(p, c.flight)
    BY <2>1
  <2>4. f + (c.written - WritesWait(c)) + 0 <= c.written + 2
    BY <1>5, <2>1, <2>3
  <2> QED BY <2>1, <2>2, <2>3, <2>4
<1>22. DirectionOK(p, d, wire[p], ssl[q], tlsGot[q])
  <2>1. /\ Direction(c.written, PutBy(p, c), c.bio_write, wire[p], ssl[q].bio_read, TakenBy(q, ssl[q], tlsGot[q]))
        /\ Carries(p, c.open, c.written, PutBy(p, c), c.bio_write, wire[p], ssl[q].open,
                   ssl[q].bio_read, TakenBy(q, ssl[q], tlsGot[q]))
        /\ ssl[q].open \in BOOLEAN /\ c.open \in BOOLEAN
    BY <1>3, Directions
  <2> HIDE DEF q
  <2>2. Carries(p, c.open, c.written + 1, PutBy(p, c), c.bio_write, wire[p], ssl[q].open,
                ssl[q].bio_read, TakenBy(q, ssl[q], tlsGot[q]))
    BY <1>21, <2>1, CarriesWritten
  <2>3. TlsOther(p) = q
    BY DEF q
  <2> QED BY <1>6, <1>11, <1>20, <2>2, <2>3 DEF DirectionOK
<1>23. DirectionOK(q, ssl[q], wire[q], d, tlsGot[p])
  BY <1>1, <1>3, <1>11, <1>20 DEF Good, DirectionOK
<1>24. ToldAll(d, tlsGot[p], ssl[q]) /\ ToldAll(ssl[q], tlsGot[q], d)
  <2>1. ToldAll(c, tlsGot[p], ssl[q]) /\ ToldAll(ssl[q], tlsGot[q], c)
    BY <1>3 DEF Good
  <2>2. PICK g \in Nat : g = Len(tlsGot[q])
    BY <1>1 DEF TlsInv, TlsTypes
  <2>3. g <= c.written => g <= written
    BY <1>5, <1>6
  <2> QED BY <1>5, <1>11, <2>1, <2>2, <2>3 DEF ToldAll
<1>25. Good(p, d, wire[p], wire[q], tlsGot[p])
  BY <1>4, <1>11, <1>19, <1>22, <1>23, <1>24 DEF Good
<1>26. wire' = wire /\ tlsGot' = tlsGot /\ nocert' = nocert
  BY DEF TlsWrite
<1> QED BY <1>3, <1>12, <1>13, <1>25, <1>26, StepKeeps

\* The end of the writes waits behind them.
LEMMA TlsEndKeeps ==
    ASSUME TlsInv, NEW p \in Peer, TlsEnd(p)
    PROVE  TlsInv'
<1> DEFINE q == TlsOther(p)
<1>1. q \in Peer /\ q # p /\ TlsOther(q) = p
  BY TwoPeers
<1>2. PICK c : c = ssl[p]
  OBVIOUS
<1>3. /\ Good(p, c, wire[p], wire[q], tlsGot[p]) /\ AtRest(c) /\ ssl \in [Peer -> TlsConnection]
      /\ wire \in [Peer -> Seq(Fragment)] /\ tlsGot = [tlsGot EXCEPT ![p] = tlsGot[p]]
  BY <1>2, OpenEnd DEF TlsEnd
<1>4. /\ c \in TlsConnection /\ tlsGot[p] \in Seq(Nat) /\ SideShape(p, c, tlsGot[p])
      /\ wire[p] \in Seq(Fragment) /\ wire[q] \in Seq(Fragment)
  BY <1>3 DEF Good
<1>5. c.open /\ ~c.ended /\ c.written \in Nat /\ c.pending \in Seq(Fragment)
  BY <1>2, <1>4 DEF TlsEnd, TlsConnection
<1>6. EndOfFile \in Fragment
  BY DEF EndOfFile, Fragment
<1>7. PICK pending \in Seq(Fragment) : pending = Append(c.pending, EndOfFile)
  BY <1>5, <1>6, AppendedSeq
<1>8. /\ Len(pending) = Len(c.pending) + 1
      /\ \A i \in 1..Len(c.pending) : pending[i] = c.pending[i]
      /\ pending[Len(c.pending) + 1] = EndOfFile
  BY <1>5, <1>6, <1>7, AppendedSeq
<1>9. PICK d : d = [c EXCEPT !.ended = TRUE, !.pending = pending]
  OBVIOUS
<1>10. /\ d \in TlsConnection /\ d.open = c.open /\ d.flight = c.flight /\ d.bio_read = c.bio_read
       /\ d.bio_write = c.bio_write /\ d.written = c.written /\ d.pending = pending
       /\ d.ended /\ d.destroyAfterPush = c.destroyAfterPush /\ d.sentShutdown = c.sentShutdown
       /\ d.receivedShutdown = c.receivedShutdown /\ d.error = c.error
  BY <1>4, <1>9 DEF TlsConnection
<1>11. AtRest(d) /\ d.open
  <2>1. d.cleartextDone = c.cleartextDone /\ d.encryptedDone = c.encryptedDone /\ d.encryptedEnded = c.encryptedEnded
    BY <1>4, <1>9 DEF TlsConnection
  <2> QED BY <1>3, <1>5, <1>10, <2>1 DEF AtRest
<1>12. ssl' = [ssl EXCEPT ![p] = d]
  BY <1>2, <1>3, <1>7, <1>9 DEF TlsEnd
<1>13. ~EndWaits(c) /\ EndWaits(d) /\ ~c.destroyAfterPush /\ ~c.sentShutdown
  BY <1>4, <1>5, <1>10 DEF EndWaits, SideShape
<1>14. WritesWait(c) = Len(c.pending) /\ WritesWait(d) = WritesWait(c) /\ Len(c.pending) \in Nat
  BY <1>5, <1>8, <1>10, <1>13 DEF WritesWait, OneIf
<1>15. SideShape(p, d, tlsGot[p])
  <2>1. SideShape(p, c, tlsGot[p])
    BY <1>4
  <2>2. \A i \in 1..WritesWait(d) : d.pending[i] = c.pending[i]
    BY <1>8, <1>10, <1>14
  <2>3. \A i \in 1..WritesWait(d) : d.pending[i] = <<"data", d.written - WritesWait(d) + i, 0>>
    BY <1>10, <1>14, <2>1, <2>2 DEF SideShape
  <2>4. d.pending[Len(d.pending)] = EndOfFile
    BY <1>8, <1>10
  <2> QED BY <1>10, <1>13, <1>14, <2>1, <2>3, <2>4 DEF SideShape
<1>16. PutBy(p, d) = PutBy(p, c) /\ TakenBy(p, d, tlsGot[p]) = TakenBy(p, c, tlsGot[p])
  BY <1>10, <1>14 DEF PutBy, TakenBy
<1>17. /\ DirectionOK(p, d, wire[p], ssl[q], tlsGot[q])
       /\ DirectionOK(q, ssl[q], wire[q], d, tlsGot[p])
  BY <1>1, <1>3, <1>10, <1>16 DEF Good, DirectionOK
<1>18. ToldAll(d, tlsGot[p], ssl[q]) /\ ToldAll(ssl[q], tlsGot[q], d)
  BY <1>3, <1>5, <1>10 DEF Good, ToldAll
<1>19. Good(p, d, wire[p], wire[q], tlsGot[p])
  BY <1>4, <1>10, <1>15, <1>17, <1>18 DEF Good
<1>20. wire' = wire /\ tlsGot' = tlsGot /\ nocert' = nocert
  BY DEF TlsEnd
<1> QED BY <1>3, <1>11, <1>12, <1>19, <1>20, StepKeeps

\* The socket delivers some fragments.
LEMMA EncInKeeps ==
    ASSUME TlsInv, NEW p \in Peer, NEW n \in 1..Len(wire[TlsOther(p)]), EncIn(p, n)
    PROVE  TlsInv'
<1> DEFINE q == TlsOther(p)
<1>1. q \in Peer /\ q # p /\ TlsOther(q) = p
  BY TwoPeers
<1>2. PICK c : c = ssl[p]
  OBVIOUS
<1>3. /\ Good(p, c, wire[p], wire[q], tlsGot[p]) /\ AtRest(c) /\ ssl \in [Peer -> TlsConnection]
      /\ wire \in [Peer -> Seq(Fragment)] /\ tlsGot = [tlsGot EXCEPT ![p] = tlsGot[p]]
  BY <1>2, OpenEnd DEF EncIn
<1>4. /\ c \in TlsConnection /\ tlsGot[p] \in Seq(Nat) /\ SideShape(p, c, tlsGot[p])
      /\ wire[p] \in Seq(Fragment) /\ wire[q] \in Seq(Fragment)
  BY <1>3 DEF Good
<1>5. PICK w : w = wire[q]
  OBVIOUS
<1>6. /\ Direction(ssl[q].written, PutBy(q, ssl[q]), ssl[q].bio_write, w, c.bio_read, TakenBy(p, c, tlsGot[p]))
      /\ Carries(q, ssl[q].open, ssl[q].written, PutBy(q, ssl[q]), ssl[q].bio_write, w, c.open, c.bio_read,
                 TakenBy(p, c, tlsGot[p]))
      /\ ssl[q].open \in BOOLEAN /\ c.open \in BOOLEAN
  BY <1>3, <1>5, Directions
<1>7. c.open = TRUE /\ n \in 1..Len(w) /\ w[n] # EndOfFile
  BY <1>2, <1>5, <1>6 DEF EncIn
<1> HIDE DEF q
<1>8. /\ Carries(q, ssl[q].open, ssl[q].written, PutBy(q, ssl[q]), ssl[q].bio_write, SubSeq(w, n + 1, Len(w)), TRUE,
                 c.bio_read \o SubSeq(w, 1, n), TakenBy(p, c, tlsGot[p]))
      /\ c.bio_read \o SubSeq(w, 1, n) \in Seq(Fragment)
      /\ SubSeq(w, n + 1, Len(w)) \in Seq(Fragment)
  <2>1. Carries(q, ssl[q].open, ssl[q].written, PutBy(q, ssl[q]), ssl[q].bio_write, w, TRUE, c.bio_read,
                TakenBy(p, c, tlsGot[p]))
    BY <1>6, <1>7
  <2> QED BY <1>1, <1>6, <1>7, <2>1, CarriesDelivered
<1>9. PICK br \in Seq(Fragment) : br = c.bio_read \o SubSeq(w, 1, n)
  BY <1>8
<1>10. PICK d : d = [c EXCEPT !.bio_read = br]
  OBVIOUS
<1>11. /\ d \in TlsConnection /\ d.open = c.open /\ d.flight = c.flight /\ d.bio_read = br
       /\ d.bio_write = c.bio_write /\ d.written = c.written /\ d.pending = c.pending
       /\ d.ended = c.ended /\ d.destroyAfterPush = c.destroyAfterPush /\ d.sentShutdown = c.sentShutdown
       /\ d.receivedShutdown = c.receivedShutdown /\ d.error = c.error
  BY <1>4, <1>10 DEF TlsConnection
<1>12. AtRest(d) /\ d.open
  <2>1. d.cleartextDone = c.cleartextDone /\ d.encryptedDone = c.encryptedDone /\ d.encryptedEnded = c.encryptedEnded
    BY <1>4, <1>10 DEF TlsConnection
  <2> QED BY <1>3, <1>7, <1>11, <2>1 DEF AtRest
<1>13. ssl' = [ssl EXCEPT ![p] = d] /\ wire' = [wire EXCEPT ![q] = SubSeq(w, n + 1, Len(w))]
  BY <1>2, <1>3, <1>5, <1>9, <1>10 DEF EncIn, q
<1>14. EndWaits(d) = EndWaits(c) /\ WritesWait(d) = WritesWait(c)
  BY <1>11 DEF EndWaits, WritesWait
<1>15. SideShape(p, d, tlsGot[p])
  BY <1>4, <1>11, <1>14 DEF SideShape
<1>16. PutBy(p, d) = PutBy(p, c) /\ TakenBy(p, d, tlsGot[p]) = TakenBy(p, c, tlsGot[p])
  BY <1>11, <1>14 DEF PutBy, TakenBy
<1>17. DirectionOK(p, d, wire[p], ssl[q], tlsGot[q])
  BY <1>3, <1>11, <1>16 DEF Good, DirectionOK, q
<1>18. DirectionOK(q, ssl[q], SubSeq(w, n + 1, Len(w)), d, tlsGot[p])
  BY <1>1, <1>7, <1>8, <1>9, <1>11, <1>16 DEF DirectionOK
<1>19. ToldAll(d, tlsGot[p], ssl[q]) /\ ToldAll(ssl[q], tlsGot[q], d)
  BY <1>3, <1>11 DEF Good, ToldAll, q
<1>20. Good(p, d, wire[p], SubSeq(w, n + 1, Len(w)), tlsGot[p])
  BY <1>4, <1>8, <1>11, <1>15, <1>17, <1>18, <1>19 DEF Good, q
<1>21. wire' \in [Peer -> Seq(Fragment)] /\ wire'[p] = wire[p] /\ wire'[q] = SubSeq(w, n + 1, Len(w))
  BY <1>1, <1>3, <1>8, <1>13
<1>22. tlsGot' = tlsGot /\ nocert' = nocert /\ TlsOther(p) = q
  BY DEF EncIn, q
<1> QED BY <1>3, <1>12, <1>13, <1>20, <1>21, <1>22, StepKeeps

-----------------------------------------------------------------------------
(* The calls of a cycle                                                    *)

\* A step that puts nothing on the wire.
LEMMA QuietlyBecomes ==
    ASSUME TlsInv, NEW p \in Peer, NEW c, NEW got,
           Good(p, c, wire[p], wire[TlsOther(p)], got), c.open, ~c.error,
           IF c.cleartextDone /\ c.encryptedDone THEN PairFinished(c)
           ELSE c.encryptedDone = c.encryptedEnded /\ c.cleartextDone = c.destroyAfterPush,
           TlsBecomes(p, c, <<>>), tlsGot' = [tlsGot EXCEPT ![p] = got], nocert' = nocert
    PROVE  TlsInv'
<1>1. wire[p] \o <<>> = wire[p] /\ <<>> \in Seq(Fragment)
  BY DEF TlsInv, TlsTypes
<1>2. Good(p, c, wire[p] \o <<>>, wire[TlsOther(p)], got)
  BY <1>1
<1> QED BY <1>1, <1>2, BecomesKeeps

\* A call that only goes on with the handshake.
LEMMA OnlyHandshake ==
    ASSUME TlsInv, NEW p \in Peer, ssl[p].open, NEW e \in TlsConnection,
           KeepsRest([e EXCEPT !.started = ssl[p].started], ssl[p]),
           e.flight = Handshake(p).flight, e.bio_read = Handshake(p).bio_read,
           e.bio_write = Handshake(p).bio_write, e.error = Handshake(p).error,
           TlsBecomes(p, e, <<>>), tlsGot' = tlsGot, nocert' = nocert
    PROVE  TlsInv'
<1>1. PICK c : c = ssl[p]
  OBVIOUS
<1>2. PICK d : d = Handshake(p)
  OBVIOUS
<1>3. /\ d \in TlsConnection /\ KeepsRest(d, c)
      /\ \/ d.error /\ d.flight = c.flight /\ d.flight # Flights
         \/ ~d.error /\ Good(p, d, wire[p], wire[TlsOther(p)], tlsGot[p])
  BY <1>1, <1>2, HandshakeKeeps
<1>4. AtRest(c) /\ c.open /\ c \in TlsConnection /\ tlsGot = [tlsGot EXCEPT ![p] = tlsGot[p]]
  BY <1>1, OpenEnd
<1>5. /\ e.open = c.open /\ e.written = c.written /\ e.pending = c.pending
      /\ e.ended = c.ended /\ e.destroyAfterPush = c.destroyAfterPush /\ e.sentShutdown = c.sentShutdown
      /\ e.receivedShutdown = c.receivedShutdown /\ e.cleartextDone = c.cleartextDone
      /\ e.encryptedDone = c.encryptedDone /\ e.encryptedEnded = c.encryptedEnded
  BY <1>1, <1>4 DEF KeepsRest, TlsConnection
<1>6. CASE d.error
  <2>1. e.error /\ e.flight = c.flight
    BY <1>2, <1>3, <1>6
  <2> QED BY <1>1, <1>5, <2>1, FailedKeeps
<1>7. CASE ~d.error
  <2>1. Good(p, d, wire[p], wire[TlsOther(p)], tlsGot[p])
    BY <1>3, <1>7
  <2>2. /\ e.open = d.open /\ e.flight = d.flight /\ e.bio_read = d.bio_read
        /\ e.bio_write = d.bio_write /\ e.written = d.written /\ e.pending = d.pending
        /\ e.ended = d.ended /\ e.destroyAfterPush = d.destroyAfterPush /\ e.sentShutdown = d.sentShutdown
        /\ e.receivedShutdown = d.receivedShutdown
    BY <1>2, <1>3, <1>5 DEF KeepsRest
  <2>3. Good(p, e, wire[p], wire[TlsOther(p)], tlsGot[p])
    BY <2>1, <2>2, GoodSame
  <2>4. e.open /\ ~e.error /\ ~(e.cleartextDone /\ e.encryptedDone)
        /\ e.encryptedDone = e.encryptedEnded /\ e.cleartextDone = e.destroyAfterPush
    BY <1>2, <1>4, <1>5, <1>7 DEF AtRest
  <2> QED BY <1>4, <2>3, <2>4, QuietlyBecomes
<1> QED BY <1>6, <1>7

\* The first tick.
LEMMA TlsStartKeeps ==
    ASSUME TlsInv, NEW p \in Peer, Start(p)
    PROVE  TlsInv'
<1>1. PICK d : d = Handshake(p)
  OBVIOUS
<1>2. ssl[p].open /\ d \in TlsConnection /\ KeepsRest(d, ssl[p])
  BY <1>1, HandshakeKeeps DEF Start
<1>3. PICK e : e = [d EXCEPT !.started = TRUE]
  OBVIOUS
<1>4. /\ e \in TlsConnection /\ e.flight = d.flight /\ e.bio_read = d.bio_read /\ e.bio_write = d.bio_write
      /\ e.error = d.error
  BY <1>2, <1>3 DEF TlsConnection
<1>5. KeepsRest([e EXCEPT !.started = ssl[p].started], ssl[p])
  BY <1>2, <1>3 DEF TlsConnection, KeepsRest
<1>6. TlsBecomes(p, e, <<>>) /\ tlsGot' = tlsGot /\ nocert' = nocert
  BY <1>1, <1>3 DEF Start
<1> QED BY <1>1, <1>2, <1>4, <1>5, <1>6, OnlyHandshake

\* The socket has ended.
LEMMA EncEndKeeps ==
    ASSUME TlsInv, NEW p \in Peer, EncEnd(p)
    PROVE  TlsInv'
<1>1. PICK c : c = ssl[p]
  OBVIOUS
<1>2. /\ Good(p, c, wire[p], wire[TlsOther(p)], tlsGot[p]) /\ AtRest(c) /\ c.open
      /\ tlsGot = [tlsGot EXCEPT ![p] = tlsGot[p]]
  BY <1>1, OpenEnd DEF EncEnd
<1>3. c \in TlsConnection /\ SideShape(p, c, tlsGot[p])
  BY <1>2 DEF Good
<1>4. PICK e : e = [c EXCEPT !.encryptedEnded = TRUE, !.encryptedDone = TRUE]
  OBVIOUS
<1>5. /\ e \in TlsConnection /\ e.open = c.open /\ e.flight = c.flight /\ e.bio_read = c.bio_read
      /\ e.bio_write = c.bio_write /\ e.written = c.written /\ e.pending = c.pending
      /\ e.ended = c.ended /\ e.destroyAfterPush = c.destroyAfterPush /\ e.sentShutdown = c.sentShutdown
      /\ e.receivedShutdown = c.receivedShutdown
  BY <1>3, <1>4 DEF TlsConnection
<1>6. /\ e.error = c.error /\ e.cleartextDone = c.cleartextDone
      /\ e.encryptedEnded = TRUE /\ e.encryptedDone = TRUE
  BY <1>3, <1>4 DEF TlsConnection
<1>7. Good(p, e, wire[p], wire[TlsOther(p)], tlsGot[p])
  BY <1>2, <1>5, GoodSame
<1>8. e.cleartextDone => PairFinished(e)
  BY <1>2, <1>3, <1>5, <1>6 DEF AtRest, SideShape, PairFinished
<1>9. TlsBecomes(p, e, <<>>) /\ tlsGot' = tlsGot /\ nocert' = nocert
  BY <1>1, <1>4 DEF EncEnd
<1>10. IF e.cleartextDone /\ e.encryptedDone THEN PairFinished(e)
       ELSE e.encryptedDone = e.encryptedEnded /\ e.cleartextDone = e.destroyAfterPush
  BY <1>2, <1>5, <1>6, <1>8 DEF AtRest
<1>11. e.open /\ ~e.error
  BY <1>2, <1>5, <1>6 DEF AtRest
<1> QED BY <1>2, <1>7, <1>9, <1>10, <1>11, QuietlyBecomes

\* What is at the head of the queue.
LEMMA HeadOfPending ==
    ASSUME NEW p, NEW c \in TlsConnection, NEW got, SideShape(p, c, got), c.pending # <<>>
    PROVE  /\ Head(c.pending) # EndOfFile =>
                /\ WritesWait(c) >= 1 /\ Head(c.pending) = <<"data", c.written - WritesWait(c) + 1, 0>>
           /\ Head(c.pending) = EndOfFile =>
                WritesWait(c) = 0 /\ Len(c.pending) = 1 /\ EndWaits(c)
           /\ Tail(c.pending) \in Seq(Fragment) /\ Len(Tail(c.pending)) = Len(c.pending) - 1
           /\ \A i \in 1..Len(c.pending) - 1 : Tail(c.pending)[i] = c.pending[i + 1]
           /\ ~c.destroyAfterPush /\ ~c.sentShutdown /\ Len(c.pending) >= 1
<1>1. c.pending \in Seq(Fragment)
  BY DEF TlsConnection
<1>2. Head(c.pending) = c.pending[1] /\ Len(c.pending) \in Nat /\ Len(c.pending) >= 1
  BY <1>1
<1>3. /\ WritesWait(c) \in 0..c.written
      /\ \A i \in 1..WritesWait(c) : c.pending[i] = <<"data", c.written - WritesWait(c) + i, 0>>
      /\ EndWaits(c) => c.pending[Len(c.pending)] = EndOfFile
      /\ ~c.destroyAfterPush /\ ~c.sentShutdown
  BY DEF SideShape
<1>4. WritesWait(c) = Len(c.pending) - OneIf(EndWaits(c)) /\ OneIf(EndWaits(c)) \in {0, 1}
      /\ (OneIf(EndWaits(c)) = 1 => EndWaits(c))
  BY DEF WritesWait, OneIf
<1>5. WritesWait(c) >= 1 => c.pending[1] = <<"data", c.written - WritesWait(c) + 1, 0>>
  BY <1>3
<1>6. WritesWait(c) = 0 => Len(c.pending) = 1 /\ EndWaits(c) /\ c.pending[1] = EndOfFile
  <2> SUFFICES ASSUME WritesWait(c) = 0 PROVE Len(c.pending) = 1 /\ EndWaits(c) /\ c.pending[1] = EndOfFile
    OBVIOUS
  <2>1. PICK o \in {0, 1} : o = OneIf(EndWaits(c))
    BY <1>4
  <2>2. PICK l \in Nat : l = Len(c.pending)
    BY <1>2
  <2>3. 0 = l - o /\ l >= 1
    BY <1>2, <1>4, <2>1, <2>2
  <2>4. l = 1 /\ o = 1
    BY <2>3
  <2>5. EndWaits(c)
    BY <1>4, <2>1, <2>4
  <2> QED BY <1>3, <2>2, <2>4, <2>5
<1>7. WritesWait(c) >= 1 \/ WritesWait(c) = 0
  <2>1. c.written \in Nat
    BY DEF TlsConnection
  <2> QED BY <1>3, <2>1
<1>8. WritesWait(c) >= 1 => c.pending[1] # EndOfFile
  BY <1>5 DEF EndOfFile
<1>9. /\ Tail(c.pending) \in Seq(Fragment) /\ Len(Tail(c.pending)) = Len(c.pending) - 1
      /\ \A i \in 1..Len(c.pending) - 1 : Tail(c.pending)[i] = c.pending[i + 1]
  BY <1>1, HeadTailProperties
<1> QED BY <1>2, <1>3, <1>5, <1>6, <1>7, <1>8, <1>9

\* The next write of the application becomes a record.
LEMMA ClearInKeeps ==
    ASSUME TlsInv, NEW p \in Peer, ClearIn(p)
    PROVE  TlsInv'
<1> DEFINE q == TlsOther(p)
<1>1. q \in Peer /\ q # p /\ TlsOther(q) = p
  BY TwoPeers
<1>2. PICK c : c = ssl[p]
  OBVIOUS
<1>3. PICK d : d = Handshake(p)
  OBVIOUS
<1>4. AtRest(c) /\ c.open /\ c \in TlsConnection /\ tlsGot = [tlsGot EXCEPT ![p] = tlsGot[p]]
      /\ c.pending # <<>> /\ Head(c.pending) # EndOfFile
  BY <1>2, OpenEnd DEF ClearIn
<1>5. /\ d \in TlsConnection /\ KeepsRest(d, c)
      /\ \/ d.error /\ d.flight = c.flight /\ d.flight # Flights
         \/ ~d.error /\ Good(p, d, wire[p], wire[q], tlsGot[p])
  BY <1>2, <1>3, <1>4, HandshakeKeeps
<1>6. tlsGot' = tlsGot /\ nocert' = nocert
  BY DEF ClearIn
<1>7. CASE ~(IsInitFinished(d) /\ ~d.error)
  <2>1. TlsBecomes(p, d, <<>>)
    BY <1>3, <1>7 DEF ClearIn
  <2>2. KeepsRest([d EXCEPT !.started = c.started], c)
    BY <1>5 DEF KeepsRest, TlsConnection
  <2> QED BY <1>2, <1>3, <1>4, <1>5, <1>6, <2>1, <2>2, OnlyHandshake
<1>8. CASE IsInitFinished(d) /\ ~d.error
  <2>1. Good(p, d, wire[p], wire[q], tlsGot[p]) /\ d.flight = Flights
    BY <1>5, <1>8 DEF IsInitFinished
  <2>2. /\ SideShape(p, d, tlsGot[p]) /\ tlsGot[p] \in Seq(Nat)
        /\ wire[p] \in Seq(Fragment) /\ wire[q] \in Seq(Fragment)
    BY <2>1 DEF Good
  <2>3. d.open = TRUE /\ d.pending = c.pending
    BY <1>4, <1>5 DEF KeepsRest, TlsConnection
  <2>4. /\ WritesWait(d) >= 1 /\ Head(d.pending) = <<"data", d.written - WritesWait(d) + 1, 0>>
        /\ Tail(d.pending) \in Seq(Fragment) /\ Len(Tail(d.pending)) = Len(d.pending) - 1
        /\ \A i \in 1..Len(d.pending) - 1 : Tail(d.pending)[i] = d.pending[i + 1]
        /\ ~d.destroyAfterPush /\ ~d.sentShutdown /\ Len(d.pending) >= 1
    <3>1. d.pending # <<>> /\ Head(d.pending) # EndOfFile
      BY <1>4, <2>3
    <3>2. d \in TlsConnection
      BY <1>5
    <3> QED BY <2>2, <3>1, <3>2, HeadOfPending
  <2>5. /\ d.written \in Nat /\ WritesWait(d) \in 0..d.written /\ d.pending \in Seq(Fragment) /\ d.bio_write \in Seq(Fragment)
        /\ Len(d.pending) \in Nat
    BY <1>5, <2>2 DEF SideShape, TlsConnection
  <2>6. PICK m \in Nat : m = d.written - WritesWait(d) + 1
    BY <2>4, <2>5
  <2>7. PutBy(p, d) = 2 + (d.written - WritesWait(d)) /\ PutBy(p, d) \in Nat
    <3>1. FlightsPut(p, d.flight) = 2
      BY <2>1 DEF FlightsPut, Flights
    <3>2. OneIf(d.sentShutdown) = 0
      BY <2>4 DEF OneIf
    <3> QED BY <2>5, <3>1, <3>2 DEF PutBy
  <2>8. \A h \in {1, 2} : Piece(p, d.written, PutBy(p, d) + 1, h) = <<"data", m, h>>
    <3>1. PICK n \in Nat : n = PutBy(p, d) + 1
      BY <2>7
    <3>2. ~(n <= 2) /\ n - 2 <= d.written /\ n - 2 = m
      BY <2>4, <2>5, <2>6, <2>7, <3>1
    <3> QED BY <3>1, <3>2 DEF Piece
  <2>9. /\ d.bio_write \o Record("data", m) \in Seq(Fragment)
        /\ \A x : /\ x.open = TRUE /\ x.bio_write = d.bio_write \o Record("data", m) /\ x.written = d.written
                  /\ PutBy(p, x) = PutBy(p, d) + 1
                  => DirectionOK(p, x, wire[p], ssl[q], tlsGot[q])
    BY <2>1, <2>3, <2>8, PutsRecord
  <2>10. PICK bw \in Seq(Fragment) : bw = d.bio_write \o Record("data", m)
    BY <2>9
  <2>11. PICK pending \in Seq(Fragment) : pending = Tail(d.pending)
    BY <2>4
  <2>12. PICK e : e = [d EXCEPT !.pending = pending, !.bio_write = bw]
    OBVIOUS
  <2>13. /\ e \in TlsConnection /\ e.open = d.open /\ e.flight = d.flight /\ e.bio_read = d.bio_read
         /\ e.bio_write = bw /\ e.written = d.written /\ e.pending = pending
         /\ e.ended = d.ended /\ e.destroyAfterPush = d.destroyAfterPush /\ e.sentShutdown = d.sentShutdown
         /\ e.receivedShutdown = d.receivedShutdown
    BY <1>5, <2>12 DEF TlsConnection
  <2>14. /\ e.error = d.error /\ e.cleartextDone = d.cleartextDone /\ e.encryptedDone = d.encryptedDone
         /\ e.encryptedEnded = d.encryptedEnded
    BY <1>5, <2>12 DEF TlsConnection
  <2>15. TlsBecomes(p, e, <<>>)
    <3>1. Head(d.pending)[2] = m
      BY <2>4, <2>6
    <3>2. e = [d EXCEPT !.pending = Tail(@), !.bio_write = @ \o Record("data", Head(d.pending)[2])]
      BY <2>10, <2>11, <2>12, <3>1
    <3> QED BY <1>3, <1>8, <3>2 DEF ClearIn
  <2>16. EndWaits(e) = EndWaits(d) /\ WritesWait(e) = WritesWait(d) - 1
    <3>1. EndWaits(e) = EndWaits(d) /\ OneIf(EndWaits(d)) \in {0, 1}
      BY <2>13 DEF EndWaits, OneIf
    <3>2. WritesWait(d) = Len(d.pending) - OneIf(EndWaits(d)) /\ WritesWait(e) = Len(pending) - OneIf(EndWaits(d))
      BY <2>13, <3>1 DEF WritesWait
    <3> QED BY <2>4, <2>5, <2>11, <3>1, <3>2
  <2>17. SideShape(p, e, tlsGot[p])
    <3>1. /\ d.flight \in (IF p = "client" THEN {0, 1, 3, 4} ELSE {0, 2, 4})
          /\ d.written <= TlsMaxWrites
          /\ tlsGot[p] = [i \in 1..Len(tlsGot[p]) |-> i] /\ Len(tlsGot[p]) <= TlsMaxWrites
          /\ \A i \in 1..WritesWait(d) : d.pending[i] = <<"data", d.written - WritesWait(d) + i, 0>>
          /\ EndWaits(d) => d.pending[Len(d.pending)] = EndOfFile
      BY <2>2 DEF SideShape
    <3>2. WritesWait(e) \in 0..e.written
      BY <2>4, <2>5, <2>13, <2>16
    <3>3. \A i \in 1..WritesWait(e) : e.pending[i] = <<"data", e.written - WritesWait(e) + i, 0>>
      <4> SUFFICES ASSUME NEW i \in 1..WritesWait(e)
                   PROVE  e.pending[i] = <<"data", e.written - WritesWait(e) + i, 0>>
        OBVIOUS
      <4>0. WritesWait(d) = Len(d.pending) - OneIf(EndWaits(d)) /\ OneIf(EndWaits(d)) \in {0, 1}
        BY DEF WritesWait, OneIf
      <4>1. i + 1 \in 1..WritesWait(d) /\ i \in 1..Len(d.pending) - 1
        BY <2>4, <2>5, <2>16, <4>0
      <4>2. e.pending[i] = d.pending[i + 1]
        BY <2>4, <2>11, <2>13, <4>1
      <4>3. d.pending[i + 1] = <<"data", d.written - WritesWait(d) + (i + 1), 0>>
        BY <3>1, <4>1
      <4>4. d.written - WritesWait(d) + (i + 1) = e.written - WritesWait(e) + i
        <5>1. PICK a \in Nat : a = d.written
          BY <2>5
        <5>2. PICK b \in Nat : b = WritesWait(d)
          BY <2>5
        <5>3. i \in Int /\ a - b + (i + 1) = a - (b - 1) + i
          BY <4>1
        <5> QED BY <2>13, <2>16, <5>1, <5>2, <5>3
      <4> QED BY <4>2, <4>3, <4>4
    <3>4. EndWaits(e) => e.pending[Len(e.pending)] = EndOfFile
      <4> SUFFICES ASSUME EndWaits(e) PROVE e.pending[Len(e.pending)] = EndOfFile
        OBVIOUS
      <4>1. WritesWait(d) = Len(d.pending) - 1
        BY <2>16 DEF WritesWait, OneIf
      <4>2. Len(d.pending) - 1 \in 1..Len(d.pending) - 1 /\ (Len(d.pending) - 1) + 1 = Len(d.pending)
        BY <2>4, <2>5, <4>1
      <4>3. pending[Len(d.pending) - 1] = d.pending[Len(d.pending)]
        BY <2>4, <2>11, <4>2
      <4> QED BY <2>4, <2>11, <2>13, <2>16, <3>1, <4>3
    <3> QED BY <2>1, <2>4, <2>13, <3>1, <3>2, <3>3, <3>4 DEF SideShape
  <2>18. PutBy(p, e) = PutBy(p, d) + 1 /\ TakenBy(p, e, tlsGot[p]) = TakenBy(p, d, tlsGot[p])
    <3>1. FlightsPut(p, d.flight) = 2 /\ OneIf(d.sentShutdown) = 0
      BY <2>1, <2>4 DEF FlightsPut, Flights, OneIf
    <3>2. PutBy(p, e) = 2 + (d.written - (WritesWait(d) - 1)) + 0
      BY <2>13, <2>16, <3>1 DEF PutBy
    <3>3. PutBy(p, e) = PutBy(p, d) + 1
      <4>1. PICK a \in Nat : a = d.written
        BY <2>5
      <4>2. PICK b \in Nat : b = WritesWait(d)
        BY <2>5
      <4>3. 2 + (a - (b - 1)) + 0 = 2 + (a - b) + 1
        OBVIOUS
      <4> QED BY <2>7, <3>2, <4>1, <4>2, <4>3
    <3> QED BY <2>13, <3>3 DEF TakenBy
  <2>19. DirectionOK(p, e, wire[p], ssl[q], tlsGot[q])
    BY <2>3, <2>9, <2>10, <2>13, <2>18
  <2>20. DirectionOK(q, ssl[q], wire[q], e, tlsGot[p])
    BY <1>1, <2>1, <2>13, <2>18 DEF Good, DirectionOK
  <2>21. ToldAll(e, tlsGot[p], ssl[q]) /\ ToldAll(ssl[q], tlsGot[q], e)
    BY <2>1, <2>13 DEF Good, ToldAll
  <2>22. Good(p, e, wire[p], wire[q], tlsGot[p])
    BY <2>2, <2>13, <2>17, <2>19, <2>20, <2>21 DEF Good
  <2>23. e.open /\ ~e.error /\ ~(e.cleartextDone /\ e.encryptedDone)
         /\ e.encryptedDone = e.encryptedEnded /\ e.cleartextDone = e.destroyAfterPush
    BY <1>4, <1>5, <1>8, <2>3, <2>13, <2>14 DEF AtRest, KeepsRest
  <2> QED BY <1>4, <1>6, <2>15, <2>22, <2>23, QuietlyBecomes
<1> QED BY <1>7, <1>8

\* The end of the application's writes: close_notify follows all of them.
LEMMA TlsShutdownKeeps ==
    ASSUME TlsInv, NEW p \in Peer, TlsShutdown(p)
    PROVE  TlsInv'
<1> DEFINE q == TlsOther(p)
<1>1. q \in Peer /\ q # p /\ TlsOther(q) = p
  BY TwoPeers
<1>2. PICK c : c = ssl[p]
  OBVIOUS
<1>3. /\ Good(p, c, wire[p], wire[q], tlsGot[p]) /\ AtRest(c) /\ c.open
      /\ tlsGot = [tlsGot EXCEPT ![p] = tlsGot[p]]
      /\ c.pending # <<>> /\ Head(c.pending) = EndOfFile
  BY <1>2, OpenEnd DEF TlsShutdown
<1>4. /\ c \in TlsConnection /\ tlsGot[p] \in Seq(Nat) /\ SideShape(p, c, tlsGot[p])
      /\ wire[p] \in Seq(Fragment) /\ wire[q] \in Seq(Fragment)
  BY <1>3 DEF Good
<1>5. /\ WritesWait(c) = 0 /\ Len(c.pending) = 1 /\ EndWaits(c)
      /\ Tail(c.pending) \in Seq(Fragment) /\ Len(Tail(c.pending)) = Len(c.pending) - 1
      /\ ~c.destroyAfterPush /\ ~c.sentShutdown
  BY <1>3, <1>4, HeadOfPending
<1>6. PICK pending \in Seq(Fragment) : pending = Tail(c.pending)
  BY <1>5
<1>7. pending = <<>> /\ Len(pending) = 0
  <2>1. Len(pending) = 0
    BY <1>5, <1>6
  <2> QED BY <2>1
<1>8. PICK d : d = [c EXCEPT !.pending = pending, !.destroyAfterPush = TRUE, !.cleartextDone = TRUE]
  OBVIOUS
<1>9. /\ d \in TlsConnection /\ d.open = c.open /\ d.flight = c.flight /\ d.bio_read = c.bio_read
      /\ d.bio_write = c.bio_write /\ d.written = c.written /\ d.pending = <<>>
      /\ d.ended = c.ended /\ d.destroyAfterPush /\ d.sentShutdown = c.sentShutdown
      /\ d.receivedShutdown = c.receivedShutdown
  BY <1>4, <1>7, <1>8 DEF TlsConnection
<1>10. /\ d.error = c.error /\ d.cleartextDone /\ d.encryptedDone = c.encryptedDone
       /\ d.encryptedEnded = c.encryptedEnded
  BY <1>4, <1>8 DEF TlsConnection
<1>11. ~EndWaits(d) /\ WritesWait(d) = 0 /\ d.ended
  <2>1. ~EndWaits(d) /\ d.ended
    BY <1>5, <1>9 DEF EndWaits
  <2>2. Len(d.pending) = 0
    BY <1>9
  <2>3. OneIf(EndWaits(d)) = 0
    BY <2>1 DEF OneIf
  <2>4. WritesWait(d) = Len(d.pending) - OneIf(EndWaits(d))
    BY DEF WritesWait
  <2>5. WritesWait(d) = 0
    BY <2>2, <2>3, <2>4
  <2> QED BY <2>1, <2>5
<1>12. SideShape(p, d, tlsGot[p])
  <2>1. /\ c.flight \in (IF p = "client" THEN {0, 1, 3, 4} ELSE {0, 2, 4})
        /\ c.written <= TlsMaxWrites
        /\ tlsGot[p] = [i \in 1..Len(tlsGot[p]) |-> i] /\ Len(tlsGot[p]) <= TlsMaxWrites
        /\ c.flight # Flights => tlsGot[p] = <<>> /\ ~c.receivedShutdown /\ WritesWait(c) = c.written
    BY <1>4 DEF SideShape
  <2>2. WritesWait(d) \in 0..d.written
    BY <1>9, <1>11 DEF TlsConnection
  <2>3. \A i \in 1..WritesWait(d) : d.pending[i] = <<"data", d.written - WritesWait(d) + i, 0>>
    BY <1>11
  <2> QED BY <1>5, <1>9, <1>11, <2>1, <2>2, <2>3 DEF SideShape
<1>13. PutBy(p, d) = PutBy(p, c) /\ TakenBy(p, d, tlsGot[p]) = TakenBy(p, c, tlsGot[p])
  BY <1>5, <1>9, <1>11 DEF PutBy, TakenBy
<1>14. /\ DirectionOK(p, d, wire[p], ssl[q], tlsGot[q])
       /\ DirectionOK(q, ssl[q], wire[q], d, tlsGot[p])
  BY <1>1, <1>3, <1>9, <1>13 DEF Good, DirectionOK
<1>15. ToldAll(d, tlsGot[p], ssl[q]) /\ ToldAll(ssl[q], tlsGot[q], d)
  BY <1>3, <1>9 DEF Good, ToldAll
<1>16. Good(p, d, wire[p], wire[q], tlsGot[p])
  BY <1>4, <1>9, <1>12, <1>14, <1>15 DEF Good
<1>17. tlsGot' = tlsGot /\ nocert' = nocert
  BY DEF TlsShutdown
<1>18. CASE ~IsInitFinished(d)
  <2>1. TlsBecomes(p, d, <<>>)
    BY <1>2, <1>6, <1>8, <1>18 DEF TlsShutdown
  <2>2. IF d.cleartextDone /\ d.encryptedDone THEN PairFinished(d)
        ELSE d.encryptedDone = d.encryptedEnded /\ d.cleartextDone = d.destroyAfterPush
    BY <1>3, <1>9, <1>10, <1>11 DEF AtRest, PairFinished
  <2>3. d.open /\ ~d.error
    BY <1>3, <1>9, <1>10 DEF AtRest
  <2> QED BY <1>3, <1>16, <1>17, <2>1, <2>2, <2>3, QuietlyBecomes
<1>19. CASE IsInitFinished(d)
  <2>1. d.flight = Flights /\ d.open = TRUE
    BY <1>3, <1>9, <1>19 DEF IsInitFinished, TlsConnection
  <2>2. PutBy(p, d) = d.written + 2 /\ d.written \in Nat
    <3>1. FlightsPut(p, d.flight) = 2 /\ OneIf(d.sentShutdown) = 0
      BY <1>5, <1>9, <2>1 DEF FlightsPut, Flights, OneIf
    <3>2. d.written \in Nat
      BY <1>9 DEF TlsConnection
    <3>3. PutBy(p, d) = 2 + (d.written - 0) + 0
      BY <1>11, <3>1 DEF PutBy
    <3> QED BY <3>2, <3>3
  <2>3. \A h \in {1, 2} : Piece(p, d.written, PutBy(p, d) + 1, h) = <<"close", 0, h>>
    <3>1. PICK n \in Nat : n = PutBy(p, d) + 1
      BY <2>2
    <3>2. ~(n <= 2) /\ ~(n - 2 <= d.written)
      BY <2>2, <3>1
    <3> QED BY <3>1, <3>2 DEF Piece
  <2>4. /\ d.bio_write \o Record("close", 0) \in Seq(Fragment)
        /\ \A x : /\ x.open = TRUE /\ x.bio_write = d.bio_write \o Record("close", 0) /\ x.written = d.written
                  /\ PutBy(p, x) = PutBy(p, d) + 1
                  => DirectionOK(p, x, wire[p], ssl[q], tlsGot[q])
    BY <1>16, <2>1, <2>3, PutsRecord
  <2>5. PICK bw \in Seq(Fragment) : bw = d.bio_write \o Record("close", 0)
    BY <2>4
  <2>6. PICK e : e = [d EXCEPT !.bio_write = bw, !.sentShutdown = TRUE]
    OBVIOUS
  <2>7. /\ e \in TlsConnection /\ e.open = d.open /\ e.flight = d.flight /\ e.bio_read = d.bio_read
        /\ e.bio_write = bw /\ e.written = d.written /\ e.pending = d.pending
        /\ e.ended = d.ended /\ e.destroyAfterPush = d.destroyAfterPush /\ e.sentShutdown
        /\ e.receivedShutdown = d.receivedShutdown
    BY <1>9, <2>6 DEF TlsConnection
  <2>8. /\ e.error = d.error /\ e.cleartextDone = d.cleartextDone /\ e.encryptedDone = d.encryptedDone
        /\ e.encryptedEnded = d.encryptedEnded
    BY <1>9, <2>6 DEF TlsConnection
  <2>9. TlsBecomes(p, e, <<>>)
    <3>1. PICK x : x = [d EXCEPT !.bio_write = bw]
      OBVIOUS
    <3>2. x \in TlsConnection /\ x.receivedShutdown \in BOOLEAN /\ x.sentShutdown \in BOOLEAN
      BY <1>9, <3>1 DEF TlsConnection
    <3>3. (x.receivedShutdown \/ FALSE) = x.receivedShutdown /\ (x.sentShutdown \/ TRUE) = TRUE
      BY <3>2
    <3>4. [x EXCEPT !.sentShutdown = TRUE, !.receivedShutdown = x.receivedShutdown] = e
      BY <1>9, <2>6, <3>1 DEF TlsConnection
    <3>5. SetShutdownFlags(x, TRUE, FALSE) = e
      BY <3>3, <3>4 DEF SetShutdownFlags
    <3>6. TlsBecomes(p, SetShutdownFlags([d EXCEPT !.bio_write = @ \o Record("close", 0)], TRUE, FALSE), <<>>)
      BY <1>2, <1>6, <1>8, <1>19 DEF TlsShutdown
    <3> QED BY <2>5, <3>1, <3>5, <3>6
  <2>10. EndWaits(e) = EndWaits(d) /\ WritesWait(e) = WritesWait(d)
    BY <2>7 DEF EndWaits, WritesWait
  <2>11. SideShape(p, e, tlsGot[p])
    BY <1>9, <1>12, <2>1, <2>7, <2>10 DEF SideShape
  <2>12. PutBy(p, e) = PutBy(p, d) + 1 /\ TakenBy(p, e, tlsGot[p]) = TakenBy(p, d, tlsGot[p])
    <3>1. FlightsPut(p, e.flight) = 2 /\ OneIf(e.sentShutdown) = 1
      BY <2>1, <2>7 DEF FlightsPut, Flights, OneIf
    <3>2. PutBy(p, e) = 2 + (d.written - 0) + 1
      BY <1>11, <2>7, <2>10, <3>1 DEF PutBy
    <3>3. PutBy(p, e) = PutBy(p, d) + 1
      BY <2>2, <3>2
    <3> QED BY <2>7, <3>3 DEF TakenBy
  <2>13. DirectionOK(p, e, wire[p], ssl[q], tlsGot[q])
    BY <2>1, <2>4, <2>5, <2>7, <2>12
  <2>14. DirectionOK(q, ssl[q], wire[q], e, tlsGot[p])
    BY <1>1, <1>14, <2>7, <2>12 DEF DirectionOK
  <2>15. ToldAll(e, tlsGot[p], ssl[q]) /\ ToldAll(ssl[q], tlsGot[q], e)
    BY <1>15, <2>7 DEF ToldAll
  <2>16. Good(p, e, wire[p], wire[q], tlsGot[p])
    BY <1>4, <2>7, <2>11, <2>13, <2>14, <2>15 DEF Good
  <2>17. IF e.cleartextDone /\ e.encryptedDone THEN PairFinished(e)
         ELSE e.encryptedDone = e.encryptedEnded /\ e.cleartextDone = e.destroyAfterPush
    BY <1>3, <1>9, <1>10, <1>11, <2>7, <2>8 DEF AtRest, PairFinished
  <2>18. e.open /\ ~e.error
    BY <1>3, <1>10, <2>1, <2>7, <2>8 DEF AtRest
  <2> QED BY <1>3, <1>17, <2>9, <2>16, <2>17, <2>18, QuietlyBecomes
<1> QED BY <1>18, <1>19

\* Everything that is to be written goes to the socket.
LEMMA EncOutKeeps ==
    ASSUME TlsInv, NEW p \in Peer, EncOut(p)
    PROVE  TlsInv'
<1> DEFINE q == TlsOther(p)
<1>1. q \in Peer /\ q # p /\ TlsOther(q) = p
  BY TwoPeers
<1>2. PICK c : c = ssl[p]
  OBVIOUS
<1>3. /\ Good(p, c, wire[p], wire[q], tlsGot[p]) /\ AtRest(c) /\ c.open /\ ~c.encryptedEnded
      /\ tlsGot = [tlsGot EXCEPT ![p] = tlsGot[p]]
  BY <1>2, OpenEnd DEF EncOut
<1>4. /\ c \in TlsConnection /\ tlsGot[p] \in Seq(Nat) /\ SideShape(p, c, tlsGot[p])
      /\ wire[p] \in Seq(Fragment) /\ wire[q] \in Seq(Fragment)
  BY <1>3 DEF Good
<1>5. c.open = TRUE /\ c.bio_write \in Seq(Fragment) /\ c.destroyAfterPush \in BOOLEAN
  BY <1>3, <1>4 DEF TlsConnection
<1>6. /\ Direction(c.written, PutBy(p, c), c.bio_write, wire[p], ssl[q].bio_read, TakenBy(q, ssl[q], tlsGot[q]))
      /\ Carries(p, c.open, c.written, PutBy(p, c), c.bio_write, wire[p], ssl[q].open,
                 ssl[q].bio_read, TakenBy(q, ssl[q], tlsGot[q]))
      /\ ssl[q].open \in BOOLEAN
  BY <1>3, Directions
<1> HIDE DEF q
<1>7. /\ Carries(p, TRUE, c.written, PutBy(p, c), <<>>, wire[p] \o c.bio_write, ssl[q].open,
                 ssl[q].bio_read, TakenBy(q, ssl[q], tlsGot[q]))
      /\ wire[p] \o c.bio_write \in Seq(Fragment)
  <2>1. Carries(p, TRUE, c.written, PutBy(p, c), c.bio_write, wire[p], ssl[q].open,
                ssl[q].bio_read, TakenBy(q, ssl[q], tlsGot[q]))
    BY <1>5, <1>6
  <2> QED BY <1>6, <2>1, CarriesOut
<1>8. PICK none \in Seq(Fragment) : none = <<>>
  <2>1. <<>> \in Seq(Fragment)
    BY EmptySeq
  <2> QED BY <2>1
<1>9. PICK done \in BOOLEAN : done = IF c.destroyAfterPush THEN TRUE ELSE c.encryptedDone
  BY <1>4 DEF TlsConnection
<1>10. PICK e : e = [c EXCEPT !.bio_write = none, !.encryptedDone = done]
  OBVIOUS
<1>11. /\ e \in TlsConnection /\ e.open = c.open /\ e.flight = c.flight /\ e.bio_read = c.bio_read
       /\ e.bio_write = none /\ e.written = c.written /\ e.pending = c.pending
       /\ e.ended = c.ended /\ e.destroyAfterPush = c.destroyAfterPush /\ e.sentShutdown = c.sentShutdown
       /\ e.receivedShutdown = c.receivedShutdown
  BY <1>4, <1>10 DEF TlsConnection
<1>12. /\ e.error = c.error /\ e.cleartextDone = c.cleartextDone /\ e.encryptedDone = done
       /\ e.encryptedEnded = c.encryptedEnded
  BY <1>4, <1>10 DEF TlsConnection
<1>13. EndWaits(e) = EndWaits(c) /\ WritesWait(e) = WritesWait(c)
  BY <1>11 DEF EndWaits, WritesWait
<1>14. SideShape(p, e, tlsGot[p])
  BY <1>4, <1>11, <1>13 DEF SideShape
<1>15. PutBy(p, e) = PutBy(p, c) /\ TakenBy(p, e, tlsGot[p]) = TakenBy(p, c, tlsGot[p])
  BY <1>11, <1>13 DEF PutBy, TakenBy
<1>16. TlsOther(p) = q
  BY DEF q
<1>17. DirectionOK(p, e, wire[p] \o c.bio_write, ssl[q], tlsGot[q])
  BY <1>5, <1>7, <1>8, <1>11, <1>15, <1>16 DEF DirectionOK
<1>18. DirectionOK(q, ssl[q], wire[q], e, tlsGot[p])
  BY <1>1, <1>3, <1>11, <1>15, <1>16 DEF Good, DirectionOK
<1>19. ToldAll(e, tlsGot[p], ssl[q]) /\ ToldAll(ssl[q], tlsGot[q], e)
  BY <1>3, <1>11, <1>16 DEF Good, ToldAll
<1>20. Good(p, e, wire[p] \o c.bio_write, wire[q], tlsGot[p])
  BY <1>4, <1>7, <1>11, <1>14, <1>16, <1>17, <1>18, <1>19 DEF Good
<1>21. TlsBecomes(p, e, c.bio_write)
  <2>1. PICK x : x = [c EXCEPT !.bio_write = <<>>]
    OBVIOUS
  <2>2. x \in TlsConnection /\ x.destroyAfterPush = c.destroyAfterPush /\ x.encryptedDone = c.encryptedDone
    BY <1>4, <1>8, <2>1 DEF TlsConnection
  <2>3. TlsBecomes(p, IF x.destroyAfterPush THEN [x EXCEPT !.encryptedDone = TRUE] ELSE x, c.bio_write)
    BY <1>2, <2>1 DEF EncOut
  <2>4. CASE c.destroyAfterPush
    <3>1. done = TRUE
      BY <1>9, <2>4
    <3>2. e = [x EXCEPT !.encryptedDone = TRUE]
      BY <1>8, <1>10, <2>1, <3>1
    <3> QED BY <2>2, <2>3, <2>4, <3>2
  <2>5. CASE ~c.destroyAfterPush
    <3>1. done = c.encryptedDone
      BY <1>4, <1>9, <2>5 DEF TlsConnection
    <3>2. e = x
      BY <1>4, <1>8, <1>10, <2>1, <3>1 DEF TlsConnection
    <3> QED BY <2>2, <2>3, <2>5, <3>2
  <2> QED BY <2>4, <2>5
<1>22. IF e.cleartextDone /\ e.encryptedDone THEN PairFinished(e)
       ELSE e.encryptedDone = e.encryptedEnded /\ e.cleartextDone = e.destroyAfterPush
  <2>1. ~c.encryptedDone /\ c.cleartextDone = c.destroyAfterPush
    BY <1>3, <1>4 DEF AtRest, TlsConnection
  <2>2. CASE c.destroyAfterPush
    <3>1. c.ended /\ c.pending = <<>>
      BY <1>4, <2>2 DEF SideShape
    <3>2. PairFinished(e)
      BY <1>8, <1>11, <3>1 DEF PairFinished
    <3> QED BY <1>9, <1>12, <2>1, <2>2, <3>2
  <2>3. CASE ~c.destroyAfterPush
    <3>1. ~done /\ ~e.cleartextDone
      BY <1>9, <1>12, <2>1, <2>3
    <3>2. e.encryptedDone = FALSE /\ e.encryptedEnded = FALSE
      BY <1>3, <1>4, <1>9, <1>12, <3>1 DEF TlsConnection
    <3> QED BY <1>11, <1>12, <2>1, <3>1, <3>2
  <2> QED BY <2>2, <2>3
<1>23. e.open /\ ~e.error
  BY <1>3, <1>11, <1>12 DEF AtRest
<1>24. tlsGot' = tlsGot /\ nocert' = nocert
  BY DEF EncOut
<1> QED BY <1>3, <1>5, <1>16, <1>20, <1>21, <1>22, <1>23, <1>24, BecomesKeeps


\* The numbers of what was got, with one more.
LEMMA GotOneMore ==
    ASSUME NEW got \in Seq(Nat), got = [i \in 1..Len(got) |-> i], NEW m \in Nat, m = Len(got) + 1
    PROVE  /\ Append(got, m) \in Seq(Nat) /\ Len(Append(got, m)) = m
           /\ Append(got, m) = [i \in 1..Len(Append(got, m)) |-> i]
<1>1. PICK more \in Seq(Nat) : more = Append(got, m)
  BY AppendedSeq
<1>2. /\ Len(more) = Len(got) + 1 /\ more[Len(got) + 1] = m
      /\ \A i \in 1..Len(got) : more[i] = got[i]
  BY <1>1, AppendedSeq
<1>3. DOMAIN more = 1..m /\ Len(more) = m
  BY <1>2
<1>4. \A i \in 1..m : more[i] = i
  <2>1. \A i \in 1..Len(got) : got[i] = i
    BY DOMAIN got = 1..Len(got)
  <2>2. \A i \in 1..m : i \in 1..Len(got) \/ i = m
    OBVIOUS
  <2> QED BY <1>2, <2>1, <2>2
<1>5. more = [i \in 1..m |-> i]
  BY <1>3, <1>4
<1> QED BY <1>1, <1>3, <1>5

\* What a read finds: the next write, or that there are no more.
LEMMA ReadFinds ==
    ASSUME TlsInv, NEW p \in Peer, NEW d, Good(p, d, wire[p], wire[TlsOther(p)], tlsGot[p]),
           d.open, d.flight = Flights, HasRecord(d.bio_read), ~d.receivedShutdown
    PROVE  /\ Len(tlsGot[p]) + 1 \in Nat
           /\ TakenBy(p, d, tlsGot[p]) = 2 + Len(tlsGot[p]) /\ d.bio_read[1][1] \in {"data", "close"}
           /\ d.bio_read[1][1] = "data" => /\ d.bio_read[1][2] = Len(tlsGot[p]) + 1
                                            /\ Len(tlsGot[p]) + 1 <= ssl[TlsOther(p)].written
                                            /\ Len(tlsGot[p]) + 1 <= TlsMaxWrites
           /\ d.bio_read[1][1] = "close" => ssl[TlsOther(p)].ended /\ Len(tlsGot[p]) = ssl[TlsOther(p)].written
<1> DEFINE q == TlsOther(p)
<1>1. q \in Peer /\ TlsOther(q) = p
  BY TwoPeers
<1>2. /\ d \in TlsConnection /\ tlsGot[p] \in Seq(Nat) /\ SideShape(p, d, tlsGot[p])
  BY DEF Good
<1>3. /\ ssl[q] \in TlsConnection /\ tlsGot[q] \in Seq(Nat) /\ SideShape(q, ssl[q], tlsGot[q])
  BY <1>1 DEF TlsInv, TlsTypes, SideOK
<1>4. /\ TakenBy(p, d, tlsGot[p]) + 1 <= PutBy(q, ssl[q])
      /\ d.bio_read[1] = Piece(q, ssl[q].written, TakenBy(p, d, tlsGot[p]) + 1, 1)
  BY TakesRecord
<1> HIDE DEF q
<1>5. PICK g \in Nat : g = Len(tlsGot[p])
  BY <1>2
<1>6. TakenBy(p, d, tlsGot[p]) = 2 + g
  <2>1. FlightsTaken(p, d.flight) = 2 /\ OneIf(d.receivedShutdown) = 0
    BY DEF FlightsTaken, Flights, OneIf
  <2>2. TakenBy(p, d, tlsGot[p]) = 2 + g + 0
    BY <1>5, <2>1 DEF TakenBy
  <2> QED BY <2>2
<1>7. PICK n \in Nat \ {0} : n = g + 3
  OBVIOUS
<1>8. d.bio_read[1] = Piece(q, ssl[q].written, n, 1) /\ n <= PutBy(q, ssl[q])
  <2>1. TakenBy(p, d, tlsGot[p]) + 1 = n
    BY <1>6, <1>7
  <2> QED BY <1>4, <2>1
<1>9. PICK written \in Nat : written = ssl[q].written
  BY <1>3 DEF TlsConnection
<1>10. /\ n > 2 => Piece(q, written, n, 1)[1] \in {"data", "close"}
       /\ Piece(q, written, n, 1)[1] = "data" => n - 2 \in 1..written /\ Piece(q, written, n, 1)[2] = n - 2
       /\ Piece(q, written, n, 1)[1] = "close" => n - 2 > written
  BY <1>1, PieceKinds
<1>11. d.bio_read[1][1] \in {"data", "close"}
  BY <1>7, <1>8, <1>9, <1>10
<1>12. ASSUME d.bio_read[1][1] = "data"
       PROVE  d.bio_read[1][2] = g + 1 /\ g + 1 <= written /\ g + 1 <= TlsMaxWrites
  <2>1. n - 2 \in 1..written /\ d.bio_read[1][2] = n - 2
    BY <1>8, <1>9, <1>10, <1>12
  <2>2. written <= TlsMaxWrites
    BY <1>3, <1>9 DEF SideShape
  <2>3. n - 2 = g + 1
    BY <1>7
  <2> QED BY <2>1, <2>2, <2>3, TlsAssumption
<1>13. ASSUME d.bio_read[1][1] = "close"
       PROVE  ssl[q].ended /\ g = written
  <2>1. n - 2 > written
    BY <1>8, <1>9, <1>10, <1>13
  <2>2. /\ PutBy(q, ssl[q]) = FlightsPut(q, ssl[q].flight) + (written - WritesWait(ssl[q])) + OneIf(ssl[q].sentShutdown)
        /\ FlightsPut(q, ssl[q].flight) \in 0..2 /\ OneIf(ssl[q].sentShutdown) \in {0, 1} /\ WritesWait(ssl[q]) \in Nat
    BY <1>1, <1>3, <1>9, Numbers
  <2>3. PICK f \in 0..2 : f = FlightsPut(q, ssl[q].flight)
    BY <2>2
  <2>4. PICK o \in {0, 1} : o = OneIf(ssl[q].sentShutdown)
    BY <2>2
  <2>5. PICK v \in Nat : v = WritesWait(ssl[q])
    BY <2>2
  <2>6. n <= f + (written - v) + o
    BY <1>8, <2>2, <2>3, <2>4, <2>5
  <2>7. o = 1 /\ g = written
    BY <1>7, <2>1, <2>6
  <2>8. ssl[q].sentShutdown
    BY <2>4, <2>7 DEF OneIf
  <2>9. ssl[q].ended
    BY <1>3, <2>8 DEF SideShape
  <2> QED BY <2>7, <2>9
<1>14. Len(tlsGot[p]) + 1 \in Nat
  BY <1>5
<1> QED BY <1>5, <1>6, <1>9, <1>11, <1>12, <1>13, <1>14 DEF q

\* A read: it goes on with the handshake, takes the next record, or finds that there is
\* no more.
LEMMA ClearOutKeeps ==
    ASSUME TlsInv, NEW p \in Peer, ClearOut(p)
    PROVE  TlsInv'
<1> DEFINE q == TlsOther(p)
<1>1. q \in Peer /\ q # p /\ TlsOther(q) = p
  BY TwoPeers
<1>2. PICK c : c = ssl[p]
  OBVIOUS
<1>3. PICK d : d = Handshake(p)
  OBVIOUS
<1>4. AtRest(c) /\ c.open /\ c \in TlsConnection /\ tlsGot \in [Peer -> Seq(Nat)]
      /\ tlsGot = [tlsGot EXCEPT ![p] = tlsGot[p]]
  BY <1>2, OpenEnd DEF ClearOut
<1>5. /\ d \in TlsConnection /\ KeepsRest(d, c)
      /\ \/ d.error /\ d.flight = c.flight /\ d.flight # Flights
         \/ ~d.error /\ Good(p, d, wire[p], wire[q], tlsGot[p])
  BY <1>2, <1>3, <1>4, HandshakeKeeps
<1> DEFINE whole == IsInitFinished(d) /\ ~d.error /\ HasRecord(d.bio_read) /\ ~d.receivedShutdown
           data == whole /\ d.bio_read[1][1] = "data"
<1>6. /\ TlsBecomes(p, IF whole THEN TlsRead(d)
                       ELSE IF d.bio_read = <<>> /\ d.encryptedEnded THEN [d EXCEPT !.cleartextDone = TRUE]
                       ELSE d, <<>>)
      /\ tlsGot' = IF data THEN [tlsGot EXCEPT ![p] = Append(@, d.bio_read[1][2])] ELSE tlsGot
      /\ nocert' = nocert
  BY <1>3 DEF ClearOut
<1>7. CASE ~whole /\ d.bio_read = <<>> /\ d.encryptedEnded
  <2>1. PICK e : e = [d EXCEPT !.cleartextDone = TRUE]
    OBVIOUS
  <2>2. TlsBecomes(p, e, <<>>) /\ tlsGot' = tlsGot
    BY <1>6, <1>7, <2>1
  <2>3. /\ e \in TlsConnection /\ e.open = d.open /\ e.flight = d.flight /\ e.bio_read = d.bio_read
        /\ e.bio_write = d.bio_write /\ e.written = d.written /\ e.pending = d.pending
        /\ e.ended = d.ended /\ e.destroyAfterPush = d.destroyAfterPush /\ e.sentShutdown = d.sentShutdown
        /\ e.receivedShutdown = d.receivedShutdown
    BY <1>5, <2>1 DEF TlsConnection
  <2>4. e.error = d.error /\ e.encryptedDone = d.encryptedDone /\ e.encryptedEnded = d.encryptedEnded
    BY <1>5, <2>1 DEF TlsConnection
  <2>5. CASE d.error
    <3>1. /\ e.error /\ e.flight = c.flight /\ e.written = c.written /\ e.pending = c.pending
          /\ e.ended = c.ended /\ e.destroyAfterPush = c.destroyAfterPush /\ e.sentShutdown = c.sentShutdown
          /\ e.receivedShutdown = c.receivedShutdown
      BY <1>5, <2>3, <2>4, <2>5 DEF KeepsRest
    <3> QED BY <1>2, <1>4, <1>6, <2>2, <2>3, <3>1, FailedKeeps
  <2>6. CASE ~d.error
    <3>1. Good(p, d, wire[p], wire[q], tlsGot[p])
      BY <1>5, <2>6
    <3>2. Good(p, e, wire[p], wire[q], tlsGot[p])
      BY <2>3, <3>1, GoodSame
    <3>3. PairFinished(e)
      BY <1>7, <2>3, <2>4 DEF PairFinished
    <3>4. e.cleartextDone /\ e.encryptedDone /\ e.open /\ ~e.error
      <4>1. e.cleartextDone
        BY <1>5, <2>1 DEF TlsConnection
      <4>2. d.encryptedDone = c.encryptedDone /\ d.encryptedEnded = c.encryptedEnded /\ d.open = c.open
        BY <1>5 DEF KeepsRest
      <4>3. e.encryptedDone
        BY <1>4, <1>7, <2>4, <4>2 DEF AtRest
      <4> QED BY <1>4, <2>3, <2>4, <2>6, <4>1, <4>2, <4>3
    <3> QED BY <1>4, <1>6, <2>2, <3>2, <3>3, <3>4, QuietlyBecomes
  <2> QED BY <2>5, <2>6
<1>8. CASE ~whole /\ ~(d.bio_read = <<>> /\ d.encryptedEnded)
  <2>1. TlsBecomes(p, d, <<>>) /\ tlsGot' = tlsGot
    BY <1>6, <1>8
  <2>2. KeepsRest([d EXCEPT !.started = c.started], c)
    BY <1>5 DEF KeepsRest, TlsConnection
  <2> QED BY <1>2, <1>3, <1>4, <1>5, <1>6, <2>1, <2>2, OnlyHandshake
<1>9. CASE whole
  <2>1. /\ Good(p, d, wire[p], wire[q], tlsGot[p]) /\ d.flight = Flights
        /\ HasRecord(d.bio_read) /\ ~d.receivedShutdown /\ ~d.error
    BY <1>5, <1>9 DEF IsInitFinished
  <2> HIDE DEF whole
  <2>2. /\ SideShape(p, d, tlsGot[p]) /\ tlsGot[p] \in Seq(Nat)
        /\ wire[p] \in Seq(Fragment) /\ wire[q] \in Seq(Fragment)
        /\ ToldAll(d, tlsGot[p], ssl[q]) /\ ToldAll(ssl[q], tlsGot[q], d)
        /\ DirectionOK(p, d, wire[p], ssl[q], tlsGot[q])
    BY <2>1 DEF Good
  <2>3. /\ d.open = TRUE /\ d.cleartextDone = c.cleartextDone /\ d.encryptedDone = c.encryptedDone
        /\ d.encryptedEnded = c.encryptedEnded /\ d.destroyAfterPush = c.destroyAfterPush
    BY <1>4, <1>5 DEF KeepsRest, TlsConnection
  <2>4. PICK br : br = SubSeq(d.bio_read, 3, Len(d.bio_read))
    OBVIOUS
  <2>5. /\ br \in Seq(Fragment)
        /\ \A x, got2 : /\ x.open = TRUE /\ x.bio_read = br
                        /\ TakenBy(p, x, got2) = TakenBy(p, d, tlsGot[p]) + 1
                        => DirectionOK(q, ssl[q], wire[q], x, got2)
    <3>0. Good(p, d, wire[p], wire[q], tlsGot[p]) /\ d.open /\ HasRecord(d.bio_read)
      BY <2>1, <2>3
    <3> HIDE DEF q
    <3>1. /\ SubSeq(d.bio_read, 3, Len(d.bio_read)) \in Seq(Fragment)
          /\ \A x, got2 : /\ x.open = TRUE /\ x.bio_read = SubSeq(d.bio_read, 3, Len(d.bio_read))
                          /\ TakenBy(p, x, got2) = TakenBy(p, d, tlsGot[p]) + 1
                          => DirectionOK(TlsOther(p), ssl[TlsOther(p)], wire[q], x, got2)
      BY <3>0, TakesRecord
    <3> QED BY <2>4, <3>1 DEF q
  <2>6. /\ Len(tlsGot[p]) + 1 \in Nat
        /\ TakenBy(p, d, tlsGot[p]) = 2 + Len(tlsGot[p]) /\ d.bio_read[1][1] \in {"data", "close"}
        /\ d.bio_read[1][1] = "data" => /\ d.bio_read[1][2] = Len(tlsGot[p]) + 1
                                         /\ Len(tlsGot[p]) + 1 <= ssl[q].written
                                         /\ Len(tlsGot[p]) + 1 <= TlsMaxWrites
        /\ d.bio_read[1][1] = "close" => ssl[q].ended /\ Len(tlsGot[p]) = ssl[q].written
    BY <2>1, <2>3, ReadFinds
  <2>7. PICK r : r = [d EXCEPT !.bio_read = br]
    OBVIOUS
  <2>8. /\ r \in TlsConnection /\ r.open = d.open /\ r.flight = d.flight /\ r.bio_read = br
        /\ r.bio_write = d.bio_write /\ r.written = d.written /\ r.pending = d.pending
        /\ r.ended = d.ended /\ r.destroyAfterPush = d.destroyAfterPush /\ r.sentShutdown = d.sentShutdown
        /\ r.receivedShutdown = d.receivedShutdown
    BY <1>5, <2>5, <2>7 DEF TlsConnection
  <2>9. /\ r.error = d.error /\ r.cleartextDone = d.cleartextDone /\ r.encryptedDone = d.encryptedDone
        /\ r.encryptedEnded = d.encryptedEnded
    BY <1>5, <2>7 DEF TlsConnection
  <2>10. EndWaits(r) = EndWaits(d) /\ WritesWait(r) = WritesWait(d)
    BY <2>8 DEF EndWaits, WritesWait
  <2>11. TlsBecomes(p, TlsRead(d), <<>>)
    BY <1>6, <1>9
  <2>12. ~(c.cleartextDone /\ c.encryptedDone) /\ c.encryptedDone = c.encryptedEnded /\ c.cleartextDone = c.destroyAfterPush
    BY <1>4 DEF AtRest
  <2>13. CASE d.bio_read[1][1] = "data"
    <3>1. TlsRead(d) = r
      BY <2>4, <2>7, <2>13 DEF TlsRead
    <3>2. PICK m \in Nat : m = Len(tlsGot[p]) + 1
      BY <2>6
    <3>3. PICK got \in Seq(Nat) : got = Append(tlsGot[p], m)
      BY <2>2, <3>2, AppendedSeq
    <3>4. tlsGot' = [tlsGot EXCEPT ![p] = got]
      BY <1>6, <1>9, <2>6, <2>13, <3>2, <3>3 DEF whole
    <3>5. Len(got) = m /\ got = [i \in 1..Len(got) |-> i]
      <4>1. tlsGot[p] = [i \in 1..Len(tlsGot[p]) |-> i]
        BY <2>2 DEF SideShape
      <4> QED BY <2>2, <3>2, <3>3, <4>1, GotOneMore
    <3>6. SideShape(p, r, got)
      BY <2>1, <2>2, <2>6, <2>8, <2>10, <2>13, <3>2, <3>5 DEF SideShape
    <3>7. PutBy(p, r) = PutBy(p, d)
      BY <2>8, <2>10 DEF PutBy
    <3>8. TakenBy(p, r, got) = TakenBy(p, d, tlsGot[p]) + 1
      <4>1. FlightsTaken(p, r.flight) = 2 /\ OneIf(r.receivedShutdown) = 0
        BY <2>1, <2>8 DEF FlightsTaken, Flights, OneIf
      <4>2. TakenBy(p, r, got) = 2 + m + 0
        BY <3>5, <4>1 DEF TakenBy
      <4>3. Len(tlsGot[p]) \in Nat
        BY <2>2
      <4> QED BY <2>6, <3>2, <4>2, <4>3
    <3>9. DirectionOK(p, r, wire[p], ssl[q], tlsGot[q])
      BY <2>2, <2>8, <3>7 DEF DirectionOK
    <3>10. DirectionOK(q, ssl[q], wire[q], r, got)
      BY <2>3, <2>5, <2>8, <3>8
    <3>11. ToldAll(r, got, ssl[q]) /\ ToldAll(ssl[q], tlsGot[q], r)
      BY <2>1, <2>2, <2>6, <2>8, <2>13, <3>2, <3>5 DEF ToldAll
    <3>12. Good(p, r, wire[p], wire[q], got)
      BY <2>2, <2>8, <3>6, <3>9, <3>10, <3>11 DEF Good
    <3>13. r.open /\ ~r.error /\ ~(r.cleartextDone /\ r.encryptedDone)
           /\ r.encryptedDone = r.encryptedEnded /\ r.cleartextDone = r.destroyAfterPush
      BY <2>1, <2>3, <2>8, <2>9, <2>12
    <3> QED BY <1>6, <2>11, <3>1, <3>4, <3>12, <3>13, QuietlyBecomes
  <2>14. CASE d.bio_read[1][1] = "close"
    <3>1. PICK e : e = [r EXCEPT !.receivedShutdown = TRUE]
      OBVIOUS
    <3>2. /\ e \in TlsConnection /\ e.open = r.open /\ e.flight = r.flight /\ e.bio_read = br
          /\ e.bio_write = r.bio_write /\ e.written = r.written /\ e.pending = r.pending
          /\ e.ended = r.ended /\ e.destroyAfterPush = r.destroyAfterPush /\ e.sentShutdown = r.sentShutdown
          /\ e.receivedShutdown
      BY <2>8, <3>1 DEF TlsConnection
    <3>3. /\ e.error = r.error /\ e.cleartextDone = r.cleartextDone /\ e.encryptedDone = r.encryptedDone
          /\ e.encryptedEnded = r.encryptedEnded
      BY <2>8, <3>1 DEF TlsConnection
    <3>4. TlsRead(d) = e
      <4>1. (r.sentShutdown \/ FALSE) = r.sentShutdown /\ (r.receivedShutdown \/ TRUE) = TRUE
        BY <2>8 DEF TlsConnection
      <4>2. [r EXCEPT !.sentShutdown = r.sentShutdown, !.receivedShutdown = TRUE] = e
        BY <2>8, <3>1 DEF TlsConnection
      <4>3. SetShutdownFlags(r, FALSE, TRUE) = e
        BY <4>1, <4>2 DEF SetShutdownFlags
      <4>4. TlsRead(d) = SetShutdownFlags(r, FALSE, TRUE)
        BY <2>4, <2>7, <2>14 DEF TlsRead
      <4> QED BY <4>3, <4>4
    <3>5. tlsGot' = tlsGot
      BY <1>6, <2>14
    <3>6. EndWaits(e) = EndWaits(r) /\ WritesWait(e) = WritesWait(r)
      BY <3>2 DEF EndWaits, WritesWait
    <3>7. SideShape(p, e, tlsGot[p])
      BY <2>1, <2>2, <2>8, <2>10, <3>2, <3>6 DEF SideShape
    <3>8. PutBy(p, e) = PutBy(p, d)
      BY <2>8, <2>10, <3>2, <3>6 DEF PutBy
    <3>9. TakenBy(p, e, tlsGot[p]) = TakenBy(p, d, tlsGot[p]) + 1
      <4>1. FlightsTaken(p, e.flight) = 2 /\ OneIf(e.receivedShutdown) = 1
        BY <2>1, <2>8, <3>2 DEF FlightsTaken, Flights, OneIf
      <4>2. TakenBy(p, e, tlsGot[p]) = 2 + Len(tlsGot[p]) + 1
        BY <4>1 DEF TakenBy
      <4>3. Len(tlsGot[p]) \in Nat
        BY <2>2
      <4> QED BY <2>6, <4>2, <4>3
    <3>10. DirectionOK(p, e, wire[p], ssl[q], tlsGot[q])
      BY <2>2, <2>8, <3>2, <3>8 DEF DirectionOK
    <3>11. DirectionOK(q, ssl[q], wire[q], e, tlsGot[p])
      BY <2>3, <2>5, <2>8, <3>2, <3>9
    <3>12. ToldAll(e, tlsGot[p], ssl[q]) /\ ToldAll(ssl[q], tlsGot[q], e)
      BY <2>2, <2>6, <2>8, <2>14, <3>2 DEF ToldAll
    <3>13. Good(p, e, wire[p], wire[q], tlsGot[p])
      BY <2>2, <3>2, <3>7, <3>10, <3>11, <3>12 DEF Good
    <3>14. e.open /\ ~e.error /\ ~(e.cleartextDone /\ e.encryptedDone)
           /\ e.encryptedDone = e.encryptedEnded /\ e.cleartextDone = e.destroyAfterPush
      BY <2>1, <2>3, <2>8, <2>9, <2>12, <3>2, <3>3
    <3> QED BY <1>4, <1>6, <2>11, <3>4, <3>5, <3>13, <3>14, QuietlyBecomes
  <2> QED BY <2>6, <2>13, <2>14
<1> QED BY <1>7, <1>8, <1>9


-----------------------------------------------------------------------------
(* What the invariant says                                                 *)

\* At the beginning nothing was sent, taken or written.
LEMMA TlsInitKeeps ==
    ASSUME TlsInit
    PROVE  TlsInv
<1>1. PICK c : c = NewConnection
  OBVIOUS
<1>2. /\ c \in TlsConnection /\ c.open /\ c.flight = 0 /\ c.bio_read = <<>> /\ c.bio_write = <<>>
      /\ ~c.sentShutdown /\ ~c.receivedShutdown /\ ~c.error /\ c.written = 0 /\ c.pending = <<>> /\ ~c.ended
      /\ ~c.cleartextDone /\ ~c.encryptedDone /\ ~c.destroyAfterPush /\ ~c.encryptedEnded
  <2>1. <<>> \in Seq(Fragment)
    BY EmptySeq
  <2> QED BY <1>1, <2>1 DEF NewConnection, TlsConnection
<1>3. /\ ssl = [p \in Peer |-> c] /\ wire = [p \in Peer |-> <<>>] /\ tlsGot = [p \in Peer |-> <<>>]
      /\ nocert \in BOOLEAN
  BY <1>1 DEF TlsInit
<1>4. TlsTypes
  <2>1. <<>> \in Seq(Fragment) /\ <<>> \in Seq(Nat)
    BY EmptySeq
  <2> QED BY <1>2, <1>3, <2>1 DEF TlsTypes
<1>5. ~EndWaits(c) /\ WritesWait(c) = 0
  <2>1. ~EndWaits(c)
    BY <1>2 DEF EndWaits
  <2>2. OneIf(EndWaits(c)) = 0 /\ Len(c.pending) = 0
    BY <1>2, <2>1 DEF OneIf
  <2>3. WritesWait(c) = Len(c.pending) - OneIf(EndWaits(c))
    BY DEF WritesWait
  <2>4. WritesWait(c) = 0
    BY <2>2, <2>3
  <2> QED BY <2>1, <2>4
<1>6. ASSUME NEW p \in Peer PROVE PutBy(p, c) = 0 /\ TakenBy(p, c, <<>>) = 0
  <2>1. FlightsPut(p, c.flight) = 0 /\ FlightsTaken(p, c.flight) = 0
    BY <1>2 DEF FlightsPut, FlightsTaken
  <2>2. OneIf(c.sentShutdown) = 0 /\ OneIf(c.receivedShutdown) = 0 /\ Len(<<>>) = 0
    BY <1>2 DEF OneIf
  <2>3. PutBy(p, c) = 0 + (0 - 0) + 0
    BY <1>2, <1>5, <2>1, <2>2 DEF PutBy
  <2>4. TakenBy(p, c, <<>>) = 0 + 0 + 0
    BY <2>1, <2>2 DEF TakenBy
  <2> QED BY <2>3, <2>4
<1>7. ASSUME NEW p \in Peer PROVE SideOK(p, c, <<>>)
  <2>1. 0 <= TlsMaxWrites /\ Len(<<>>) = 0 /\ <<>> = [i \in 1..Len(<<>>) |-> i]
    BY TlsAssumption
  <2>2. SideShape(p, c, <<>>)
    BY <1>2, <1>5, <2>1 DEF SideShape, Flights
  <2>3. AtRest(c)
    BY <1>2 DEF AtRest, TlsConnection
  <2> QED BY <1>2, <2>2, <2>3 DEF SideOK
<1>8. ToldAll(c, <<>>, c)
  BY <1>2 DEF ToldAll
<1>9. ASSUME NEW p \in Peer, NEW q \in Peer, TlsOther(p) = q PROVE DirectionOK(p, c, <<>>, c, <<>>)
  <2>1. Len(<<>>) = 0 /\ OneIf(~TRUE) = 0 /\ c.open = TRUE
    BY <1>2 DEF OneIf, TlsConnection
  <2>2. \A k : Runs(p, 0, <<>>, 0, k)
    BY DEF Runs
  <2>3. Carries(p, TRUE, 0, 0, <<>>, <<>>, TRUE, <<>>, 0)
    BY <2>1, <2>2 DEF Carries
  <2> QED BY <1>2, <1>6, <1>9, <2>1, <2>3 DEF DirectionOK
<1>10. ASSUME NEW p \in Peer
       PROVE  /\ SideOK(p, ssl[p], tlsGot[p])
              /\ ToldAll(ssl[p], tlsGot[p], ssl[TlsOther(p)])
              /\ DirectionOK(p, ssl[p], wire[p], ssl[TlsOther(p)], tlsGot[TlsOther(p)])
  <2>1. PICK q \in Peer : q = TlsOther(p)
    BY TwoPeers
  <2>2. /\ ssl[p] = c /\ ssl[q] = c /\ wire[p] = <<>> /\ tlsGot[p] = <<>> /\ tlsGot[q] = <<>>
    BY <1>3
  <2> QED BY <1>7, <1>8, <1>9, <2>1, <2>2
<1> QED BY <1>4, <1>10 DEF TlsInv

\* Every step keeps it.
LEMMA TlsNextKeeps ==
    ASSUME TlsInv, [TlsNext]_tlsVars
    PROVE  TlsInv'
<1>1. CASE TlsNext
  <2>1. PICK p \in Peer : TlsWrite(p) \/ TlsEnd(p) \/ Deliver(p) \/ Cycle(p)
    BY <1>1 DEF TlsNext
  <2>2. CASE TlsWrite(p)
    BY <2>2, TlsWriteKeeps
  <2>3. CASE TlsEnd(p)
    BY <2>3, TlsEndKeeps
  <2>4. CASE Deliver(p)
    BY <2>4, EncInKeeps DEF Deliver
  <2>5. CASE Start(p)
    BY <2>5, TlsStartKeeps
  <2>6. CASE EncEnd(p)
    BY <2>6, EncEndKeeps
  <2>7. CASE ClearIn(p)
    BY <2>7, ClearInKeeps
  <2>8. CASE TlsShutdown(p)
    BY <2>8, TlsShutdownKeeps
  <2>9. CASE ClearOut(p)
    BY <2>9, ClearOutKeeps
  <2>10. CASE EncOut(p)
    BY <2>10, EncOutKeeps
  <2> QED BY <2>1, <2>2, <2>3, <2>4, <2>5, <2>6, <2>7, <2>8, <2>9, <2>10 DEF Cycle
<1>2. CASE UNCHANGED tlsVars
  BY <1>2 DEF tlsVars, TlsInv, TlsTypes, SideOK, ToldAll, DirectionOK, Carries, SideShape, AtRest, PairFinished,
              WritesWait, EndWaits, TakenBy, PutBy
<1> QED BY <1>1, <1>2

\* What is on its way from one end to the other is what one wrote and the other did not
\* receive.
LEMMA TlsKeepsAll ==
    ASSUME TlsInv
    PROVE  TlsKeepsData
<1> SUFFICES ASSUME NEW p \in Peer, ssl[p].open, ssl[TlsOther(p)].open
             PROVE  /\ tlsGot[TlsOther(p)] = [i \in 1..Len(tlsGot[TlsOther(p)]) |-> i]
                    /\ Follows(ssl[TlsOther(p)].bio_read \o wire[p] \o ssl[p].bio_write \o ssl[p].pending,
                               Len(tlsGot[TlsOther(p)]), ssl[p].written)
  BY DEF TlsKeepsData
<1>1. PICK q \in Peer : q = TlsOther(p) /\ TlsOther(q) = p
  BY TwoPeers
<1>2. PICK s : s = ssl[p]
  OBVIOUS
<1>3. PICK r : r = ssl[q]
  OBVIOUS
<1>4. PICK got : got = tlsGot[q]
  OBVIOUS
<1>5. /\ s \in TlsConnection /\ r \in TlsConnection /\ got \in Seq(Nat) /\ tlsGot[p] \in Seq(Nat)
      /\ SideShape(p, s, tlsGot[p]) /\ SideShape(q, r, got) /\ ToldAll(r, got, s)
      /\ Good(p, s, wire[p], wire[TlsOther(p)], tlsGot[p])
  BY <1>1, <1>2, <1>3, <1>4, InvGood DEF TlsInv, TlsTypes, SideOK
<1>6. PICK put \in Nat : put = PutBy(p, s)
  BY <1>5, Numbers
<1>7. PICK taken \in Nat : taken = TakenBy(q, r, got)
  BY <1>5, Numbers
<1>8. PICK g \in Nat : g = Len(got)
  BY <1>5
<1>9. PICK written \in Nat : written = s.written
  BY <1>5, Numbers
<1>10. PICK waits \in Nat : waits = WritesWait(s)
  BY <1>5, Numbers
<1>11. s.open = TRUE /\ r.open = TRUE
  BY <1>1, <1>2, <1>3, <1>5 DEF TlsConnection
<1>12. /\ Direction(written, put, s.bio_write, wire[p], r.bio_read, taken)
       /\ Carries(p, TRUE, written, put, s.bio_write, wire[p], TRUE, r.bio_read, taken)
  <2>1. /\ Direction(s.written, PutBy(p, s), s.bio_write, wire[p], ssl[TlsOther(p)].bio_read,
                     TakenBy(TlsOther(p), ssl[TlsOther(p)], tlsGot[TlsOther(p)]))
        /\ Carries(p, s.open, s.written, PutBy(p, s), s.bio_write, wire[p], ssl[TlsOther(p)].open,
                   ssl[TlsOther(p)].bio_read, TakenBy(TlsOther(p), ssl[TlsOther(p)], tlsGot[TlsOther(p)]))
    BY <1>5, Directions
  <2>2. /\ Direction(s.written, PutBy(p, s), s.bio_write, wire[p], r.bio_read, TakenBy(q, r, got))
        /\ Carries(p, s.open, s.written, PutBy(p, s), s.bio_write, wire[p], r.open, r.bio_read, TakenBy(q, r, got))
    BY <1>1, <1>3, <1>4, <2>1
  <2> QED BY <1>6, <1>7, <1>9, <1>11, <2>2
<1>13. PICK all : all = r.bio_read \o wire[p] \o s.bio_write
  OBVIOUS
<1>14. all \in Seq(Fragment) /\ 2 * taken + Len(all) = 2 * put /\ Runs(p, written, all, Len(all), 2 * taken)
  <2>1. PICK br \in Seq(Fragment) : br = r.bio_read
    BY <1>12 DEF Direction
  <2>2. PICK w \in Seq(Fragment) : w = wire[p]
    BY <1>12 DEF Direction
  <2>3. PICK bw \in Seq(Fragment) : bw = s.bio_write
    BY <1>12 DEF Direction
  <2>4. Direction(written, put, bw, w, br, taken) /\ Carries(p, TRUE, written, put, bw, w, TRUE, br, taken)
    BY <1>12, <2>1, <2>2, <2>3
  <2>5. all = br \o w \o bw
    BY <1>13, <2>1, <2>2, <2>3
  <2>6. /\ br \o w \o bw \in Seq(Fragment)
        /\ 2 * taken + Len(br \o w \o bw) = 2 * put
        /\ Runs(p, written, br \o w \o bw, Len(br \o w \o bw), 2 * taken)
    BY <2>4, CarriedRun
  <2> QED BY <2>5, <2>6
<1>15. taken <= put
  BY <1>12 DEF Carries
<1>16. PICK fp \in 0..2 : fp = FlightsPut(p, s.flight)
  BY <1>5, Numbers
<1>17. PICK ft \in 0..2 : ft = FlightsTaken(q, r.flight)
  BY <1>5, Numbers
<1>18. PICK so \in {0, 1} : so = OneIf(s.sentShutdown)
  BY DEF OneIf
<1>19. PICK ro \in {0, 1} : ro = OneIf(r.receivedShutdown)
  BY DEF OneIf
<1>20. put = fp + (written - waits) + so /\ taken = ft + g + ro
  BY <1>6, <1>7, <1>8, <1>9, <1>10, <1>16, <1>17, <1>18, <1>19 DEF PutBy, TakenBy
<1>21. g <= written /\ waits <= written
  BY <1>5, <1>8, <1>9, <1>10 DEF ToldAll, SideShape
<1>22. waits < written => fp = 2
  <2>1. s.flight # Flights => waits = written
    BY <1>5, <1>9, <1>10 DEF SideShape
  <2>2. s.flight = Flights => fp = 2
    BY <1>16 DEF FlightsPut, Flights
  <2> QED BY <2>1, <2>2
<1>23. g > 0 => ft = 2
  <2>1. r.flight # Flights => got = <<>>
    BY <1>5 DEF SideShape
  <2>2. got = <<>> => g = 0
    BY <1>8
  <2>3. r.flight = Flights => ft = 2
    BY <1>17 DEF FlightsTaken, Flights
  <2> QED BY <2>1, <2>2, <2>3
<1>24. g < written => ro = 0
  BY <1>5, <1>8, <1>9, <1>19 DEF ToldAll, OneIf
<1>25. s.pending \in Seq(Fragment) /\ Len(s.pending) \in Nat
  BY <1>5 DEF TlsConnection
<1>26. PICK eo \in {0, 1} : eo = OneIf(EndWaits(s))
  BY DEF OneIf
<1>27. waits = Len(s.pending) - eo
  BY <1>10, <1>26 DEF WritesWait
<1>28. waits > 0 => so = 0
  <2>1. s.pending = <<>> => Len(s.pending) = 0
    OBVIOUS
  <2>2. s.sentShutdown => s.pending = <<>>
    BY <1>5 DEF SideShape
  <2>3. s.sentShutdown => waits = 0
    BY <1>25, <1>27, <2>1, <2>2
  <2> QED BY <1>18, <2>3 DEF OneIf
<1>29. \A i \in 1..waits : s.pending[i] = <<"data", written - waits + i, 0>>
  BY <1>5, <1>9, <1>10 DEF SideShape
<1>30. waits <= Len(s.pending) /\ \A i \in waits + 1..Len(s.pending) : s.pending[i] = EndOfFile
  <2>1. waits <= Len(s.pending)
    BY <1>25, <1>26, <1>27
  <2>2. ASSUME NEW i \in waits + 1..Len(s.pending) PROVE s.pending[i] = EndOfFile
    <3>1. eo = 1 /\ i = Len(s.pending)
      BY <1>25, <1>26, <1>27
    <3>2. EndWaits(s)
      BY <1>26, <3>1 DEF OneIf
    <3> QED BY <1>5, <3>1, <3>2 DEF SideShape
  <2> QED BY <2>1, <2>2
<1>31. waits < written => put >= 2 + written - waits
  BY <1>20, <1>21, <1>22
<1>32. g > 0 => taken >= 2 + g
  BY <1>20, <1>23
<1>33. g < written => taken <= 2 + g
  BY <1>20, <1>24
<1>34. waits > 0 => g <= written - waits /\ put <= 2 + written - waits
  <2>1. ASSUME waits > 0 PROVE put <= 2 + written - waits
    BY <1>20, <1>28, <2>1
  <2>2. ASSUME waits > 0 PROVE g <= written - waits
    <3>1. CASE g = 0
      BY <1>21, <3>1
    <3>2. CASE g > 0
      BY <1>15, <1>32, <2>1, <2>2, <3>2
    <3> QED BY <3>1, <3>2
  <2> QED BY <2>1, <2>2
<1>35. PICK pending \in Seq(Fragment) : pending = s.pending
  BY <1>25
<1>36. Follows(all \o pending, g, written)
  <2>1. waits \in 0..written /\ g \in 0..written
    BY <1>21
  <2> QED BY <1>14, <1>29, <1>30, <1>31, <1>32, <1>33, <1>34, <1>35, <2>1, CarriedData
<1>37. got = [i \in 1..Len(got) |-> i]
  BY <1>5 DEF SideShape
<1> QED BY <1>1, <1>2, <1>3, <1>4, <1>8, <1>9, <1>13, <1>35, <1>36, <1>37

\* The rest of what is promised.
LEMMA TlsInvSafe ==
    ASSUME TlsInv
    PROVE  TlsSafe
<1>1. TlsTypeOK
  <2>1. ASSUME NEW p \in Peer
        PROVE  /\ ssl[p].flight \in 0..Flights
               /\ ssl[p].written \in 0..TlsMaxWrites
               /\ ssl[p].encryptedDone /\ ssl[p].cleartextDone => ~ssl[p].open
    <3>1. ssl[p] \in TlsConnection /\ SideOK(p, ssl[p], tlsGot[p])
      BY DEF TlsInv, TlsTypes
    <3>2. ssl[p].flight \in 0..Flights
      BY <3>1 DEF SideOK, SideShape, Flights
    <3>3. ssl[p].written \in Nat /\ ssl[p].written <= TlsMaxWrites
      BY <3>1 DEF SideOK, SideShape, TlsConnection
    <3>4. ssl[p].encryptedDone /\ ssl[p].cleartextDone => ~ssl[p].open
      BY <3>1 DEF SideOK, AtRest
    <3> QED BY <3>2, <3>3, <3>4, TlsAssumption
  <2>2. ASSUME NEW p \in Peer PROVE tlsGot[p] \in Seq(1..TlsMaxWrites)
    <3>1. PICK got : got = tlsGot[p]
      OBVIOUS
    <3>2. got \in Seq(Nat) /\ got = [i \in 1..Len(got) |-> i] /\ Len(got) <= TlsMaxWrites
      BY <3>1 DEF TlsInv, TlsTypes, SideOK, SideShape
    <3>20. Len(got) \in Nat
      BY <3>2, LenProperties
    <3>3. PICK l \in Nat : l = Len(got)
      BY <3>20
    <3>4. got = [i \in 1..l |-> i] /\ l <= TlsMaxWrites
      BY <3>2, <3>3
    <3>5. \A i \in 1..l : i \in 1..TlsMaxWrites
      BY <3>4, TlsAssumption
    <3>6. got \in [1..l -> 1..TlsMaxWrites]
      BY <3>4, <3>5
    <3>7. got \in Seq(1..TlsMaxWrites)
      BY <3>6, SeqDef
    <3> QED BY <3>1, <3>7
  <2>3. tlsGot \in [Peer -> Seq(1..TlsMaxWrites)]
    BY <2>2 DEF TlsInv, TlsTypes
  <2> QED BY <2>1, <2>3 DEF TlsTypeOK
<1>2. TlsKeepsData
  BY TlsKeepsAll
<1>3. ShutdownMeansAll
  BY DEF ShutdownMeansAll, TlsInv, ToldAll
<1>4. ClosedIsFinished
  <2> SUFFICES ASSUME NEW p \in Peer, ~ssl[p].open
               PROVE  \/ ssl[p].error
                      \/ ssl[p].ended /\ ssl[p].pending = <<>> /\ (ssl[p].bio_write = <<>> \/ ssl[p].encryptedEnded)
                      \/ ssl[p].encryptedEnded /\ ssl[p].bio_read = <<>>
    BY DEF ClosedIsFinished
  <2>1. SideOK(p, ssl[p], tlsGot[p])
    BY DEF TlsInv
  <2> QED BY <2>1 DEF SideOK, PairFinished
<1> QED BY <1>1, <1>2, <1>3, <1>4 DEF TlsSafe

\* A secure pair is safe whatever the applications write and wherever the wire cuts the
\* records: with both ends open, what an application wrote is received by the other one or
\* on its way, in order and once; close_notify follows all of it; a pair is closed only
\* when it failed or is done.
THEOREM TlsIsSafe == TlsSpec => []TlsSafe
<1>1. TlsInit => TlsInv
  BY TlsInitKeeps
<1>2. TlsInv /\ [TlsNext]_tlsVars => TlsInv'
  BY TlsNextKeeps
<1>3. TlsInv => TlsSafe
  BY TlsInvSafe
<1> QED BY <1>1, <1>2, <1>3, PTL DEF TlsSpec


=============================================================================
