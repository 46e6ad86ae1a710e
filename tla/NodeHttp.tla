------------------------------ MODULE NodeHttp ------------------------------
(***************************************************************************)
(* The HTTP server of node v0.4.4: the binding of http_parser              *)
(* (src/node_http_parser.cc), and the part of lib/http.js that feeds it,   *)
(* keeps its parsers in a free list and queues the responses.              *)
(*                                                                         *)
(* A connection carries a sequence of requests.  Its bytes arrive in       *)
(* buffers cut anywhere, and http_parser (external) reports each run of    *)
(* bytes of one kind by one callback per buffer, so that a header may take *)
(* several.  Between two callbacks of one buffer the listeners of the      *)
(* application run: they answer requests, throw, or destroy the socket.    *)
(***************************************************************************)
EXTENDS Naturals, Sequences, SequencesExt, FiniteSetsExt, TLC

CONSTANTS
    HttpConn,     \* the connections of the server
    Together,     \* the sets of connections that come in one behaviour
    Requests,     \* the requests each of them carries
    HttpParser,   \* the HTTPParser objects that may be made
    FreeMax,      \* capacity of the free list (1000 in lib/http.js)
    Repeatable,   \* the header fields whose values are joined
    MaxCuts,      \* bound: buffers a connection's bytes are cut into
    NoParser      \* a connection that has none

\* What http_parser takes for a request: only a chunked one has trailers.  What
\* follows the headers of an upgraded one is no request.
HttpChar == STRING \ {"null"}

HttpText == Seq(HttpChar)

HttpLine == (HttpText \ {<<>>}) \X HttpText

HttpRequest ==
    {r \in [url : HttpText, lines : Seq(HttpLine), chunked : BOOLEAN, body : HttpText, trailers : Seq(HttpLine),
            upgrade : BOOLEAN, last : BOOLEAN, chunkedResponse : BOOLEAN] :
        (r.chunked => ~r.upgrade) /\ (~r.chunked => r.trailers = <<>>)}

ASSUME HttpAssumption ==
    /\ Requests \in [HttpConn -> Seq(HttpRequest)]
    /\ \A c \in HttpConn : \A i \in 1..Len(Requests[c]) : Requests[c][i].upgrade => i = Len(Requests[c])
    /\ FreeMax \in Nat /\ MaxCuts \in [HttpConn -> Nat \ {0}]
    /\ NoParser \notin HttpParser /\ Together \subseteq SUBSET HttpConn
    /\ \A come \in Together : Cardinality(HttpParser) >= Cardinality(come)

VARIABLES
    parsers,   \* the Parser objects and the fields lib/http.js hangs on them
    freeList,  \* parsers.list: the parsers nobody uses
    served,    \* the connections
    executing  \* the buffer http_parser_execute works on, if any

httpVars == <<parsers, freeList, served, executing>>

-----------------------------------------------------------------------------
(* The bytes of a connection. *)

HttpBytes(kind, text) == [i \in 1..Len(text) |-> [kind |-> kind, text |-> <<text[i]>>]]

\* A value of no characters still gets its callback, with length 0.
LineBytes(line) ==
    HttpBytes("field", line[1]) \o
    (IF line[2] = <<>> THEN <<[kind |-> "value", text |-> <<>>]>> ELSE HttpBytes("value", line[2]))

RequestBytes(r) ==
    <<[kind |-> "begin", text |-> <<>>]>>
    \o HttpBytes("url", r.url)
    \o FlattenSeq([i \in 1..Len(r.lines) |-> LineBytes(r.lines[i])])
    \o <<[kind |-> "headers", text |-> <<>>]>>
    \o (IF r.chunked
        THEN HttpBytes("body", r.body)
             \o FlattenSeq([i \in 1..Len(r.trailers) |-> LineBytes(r.trailers[i])])
             \o <<[kind |-> "complete", text |-> <<>>]>>
        ELSE <<>>)
    \o (IF r.upgrade THEN HttpBytes("raw", r.body) ELSE <<>>)

WireOf == [c \in HttpConn |-> FlattenSeq([i \in 1..Len(Requests[c]) |-> RequestBytes(Requests[c][i])])]

\* The number of the request the byte at i belongs to.
NumberAt(c, i) == Cardinality({j \in 1..i : WireOf[c][j].kind = "begin"})

\* What http_parser remembers between two buffers: all starts are alike.
StateAt(c, i) ==
    IF i > Len(WireOf[c]) \/ WireOf[c][i].kind = "begin" THEN 0 ELSE i

\* The end of the run of bytes that one callback reports.
RunEnd(c, i, lim) ==
    Max({j \in i..lim : \A k \in i..j : WireOf[c][k].kind = WireOf[c][i].kind})

-----------------------------------------------------------------------------
(* The objects. *)

NoMessage == [no |-> 0, url |-> <<>>, headers |-> <<>>, trailers |-> <<>>, body |-> <<>>, complete |-> FALSE, upgrade |-> FALSE]

NewParser == [state |-> 0, got_exception |-> FALSE, field |-> <<>>, value |-> <<"null">>, incoming |-> NoMessage]

NewServed ==
    [st |-> "new", parser |-> NoParser, pos |-> 1, cuts |-> 0, lost |-> "no", writable |-> FALSE,
     incoming |-> <<>>, outgoing |-> <<>>, message |-> 0, done |-> <<>>, rest |-> <<>>,
     response |-> <<>>, sent |-> <<>>, failed |-> FALSE]

Nothing == [conn |-> "none"]

\* Parser::Init: http_parser_init.
ParserInit(p) == [parsers EXCEPT ![p].state = 0]

HttpInit ==
    /\ parsers = [p \in HttpParser |-> NewParser]
    /\ freeList = <<>>
    /\ \E come \in Together :
         served = [c \in HttpConn |-> IF c \in come THEN NewServed ELSE [NewServed EXCEPT !.st = "closed"]]
    /\ executing = Nothing

-----------------------------------------------------------------------------
(* Connections and their parsers. *)

InUse == {served[c].parser : c \in HttpConn} \cup Range(freeList)

\* parsers.alloc(): the oldest free parser, or a new one.
Alloc(p) ==
    IF freeList # <<>>
    THEN p = Head(freeList) /\ freeList' = Tail(freeList)
    ELSE p \in HttpParser \ InUse /\ UNCHANGED freeList

Connection(c) ==
    /\ served[c].st = "new" /\ executing = Nothing
    /\ \E p \in HttpParser :
         /\ Alloc(p)
         /\ parsers' = [ParserInit(p) EXCEPT ![p].incoming = NoMessage]
         /\ served' = [served EXCEPT ![c].st = "open", ![c].parser = p, ![c].writable = TRUE]
    /\ UNCHANGED executing

\* socket.destroy(): 'close' follows in a later tick.
Destroyed(sv, c) == [sv EXCEPT ![c].st = "destroyed", ![c].writable = FALSE]

FreeList(p) == IF Len(freeList) < FreeMax THEN Append(freeList, p) ELSE freeList

\* The 'close' listener: parsers.free and abortIncoming.
OnClose(c) ==
    /\ served[c].st = "destroyed" /\ executing = Nothing
    /\ freeList' = FreeList(served[c].parser)
    /\ served' = [served EXCEPT ![c].st = "closed", ![c].parser = NoParser, ![c].incoming = <<>>]
    /\ UNCHANGED <<parsers, executing>>

\* The application, a time-out or an error of the socket destroys it, also
\* from a listener that a callback of the parser calls.
DestroySocket(c) ==
    /\ served[c].st \in {"open", "upgraded"}
    /\ served' = Destroyed(served, c)
    /\ UNCHANGED <<parsers, freeList, executing>>

-----------------------------------------------------------------------------
(* Header lines. *)

\* _addHeaderLine: repeated fields are joined, or the first one wins.
AddHeaderLine(dest, line) ==
    LET at == SelectInSeq(dest, LAMBDA l : l[1] = line[1])
    IN  IF at = 0 THEN Append(dest, <<line[1], <<line[2]>>>>)
        ELSE IF line[1] \in Repeatable
             THEN [dest EXCEPT ![at][2] = Append(@, line[2])]
             ELSE dest

\* The pending line goes to the trailers once the message is complete.
HttpFlush(q) ==
    [q EXCEPT !.incoming =
        IF @.complete THEN [@ EXCEPT !.trailers = AddHeaderLine(@, <<q.field, q.value>>)]
                      ELSE [@ EXCEPT !.headers = AddHeaderLine(@, <<q.field, q.value>>)]]

HasValue(q) == q.value # <<"null">>

NoLine(q) == [q EXCEPT !.field = <<>>, !.value = <<"null">>]

OnMessageBegin(q, no) == NoLine([q EXCEPT !.incoming = [NoMessage EXCEPT !.no = no]])

OnURL(q, text) == [q EXCEPT !.incoming.url = @ \o text]

OnHeaderField(q, text) ==
    LET r == IF HasValue(q) THEN NoLine(HttpFlush(q)) ELSE q
    IN  [r EXCEPT !.field = @ \o text]

OnHeaderValue(q, text) == [q EXCEPT !.value = IF HasValue(q) THEN @ \o text ELSE text]

OnHeadersComplete(q, upgrade) ==
    LET r == IF q.field # <<>> /\ HasValue(q) THEN NoLine(HttpFlush(q)) ELSE q
    IN  [r EXCEPT !.incoming.upgrade = upgrade]

OnBody(q, text) == [q EXCEPT !.incoming.body = @ \o text]

OnMessageComplete(q) ==
    LET r == [q EXCEPT !.incoming.complete = TRUE]
    IN  IF r.field # <<>> /\ HasValue(r) THEN HttpFlush(r) ELSE r

-----------------------------------------------------------------------------
(* Responses. *)

\* The responses of a connection, by the numbers of their requests, with a new one.
NewResponse == [wrote |-> FALSE, buffered |-> FALSE, finished |-> FALSE]

WithResponse(response, no) ==
    [k \in DOMAIN response \cup {no} |-> IF k = no THEN NewResponse ELSE response[k]]

OnIncoming_Assigns(s, no) ==
    [s EXCEPT !.incoming = Append(@, no), !.message = no, !.response = WithResponse(@, no)]

\* parser.onIncoming: a response is made, and waits for the ones before it.
OnIncoming(s, no) ==
    [s EXCEPT !.incoming = Append(@, no),
              !.response = WithResponse(@, no),
              !.outgoing = IF s.message # 0 THEN Append(@, no) ELSE @,
              !.message = IF s.message # 0 THEN @ ELSE no]

IsLast(c, no) == Requests[c][no].last

\* The responses that assignSocket, _flush and 'finish' send one after the
\* other: the assigned one, and then each that was finished while it waited.
Chain(c, s) ==
    LET all == <<s.message>> \o s.outgoing
        n == Max({0} \cup {i \in 1..Len(all) :
                 /\ \A k \in 1..i : s.response[all[k]].finished
                 /\ \A k \in 1..(i - 1) : ~IsLast(c, all[k])
                 /\ \A k \in 2..i : s.writable \/ ~s.response[all[k]].buffered})
    IN  SubSeq(all, 1, n)

\* The listener of 'finish': its request leaves the queue (an assertion says
\* that it is the first one), and the next response gets the socket or, after
\* the last one, the socket is destroyed once it is drained.
OnFinish(c, s) ==
    LET gone == Chain(c, s)
        all == <<s.message>> \o s.outgoing
        left == SubSeq(all, Len(gone) + 1, Len(all))
        ends == gone # <<>> /\ IsLast(c, Last(gone))
    IN  IF gone = <<>> THEN s
        ELSE IF ~IsPrefix(gone, s.incoming)
        THEN [s EXCEPT !.failed = TRUE]
        ELSE [s EXCEPT !.sent = @ \o gone,
                       !.incoming = SubSeq(@, Len(gone) + 1, Len(@)),
                       !.message = IF ends \/ left = <<>> THEN 0 ELSE Head(left),
                       !.outgoing = IF ends THEN left ELSE IF left = <<>> THEN <<>> ELSE Tail(left),
                       !.response = [no \in DOMAIN @ |->
                           [@[no] EXCEPT !.buffered = @ /\ ~(s.writable /\ ~ends /\ left # <<>> /\ no = Head(left))]],
                       !.writable = @ /\ ~ends,
                       !.st = IF ends THEN "destroyed" ELSE @]

\* _writeRaw: to the socket, or into the response's own buffer.
Buffers(s, no) == ~(s.message = no /\ s.writable)

\* res.writeHead() and res.write().
WriteResponse(c, no) ==
    /\ no \in DOMAIN served[c].response
    /\ ~served[c].response[no].wrote /\ ~served[c].response[no].finished
    /\ served' = [served EXCEPT ![c].response[no].wrote = TRUE,
                                ![c].response[no].buffered = Buffers(served[c], no)]
    /\ UNCHANGED <<parsers, freeList, executing>>

\* res.end(): the last bytes are an empty chunk, or nothing at all when the
\* headers are out and the length was given.
EndResponse(c, no) ==
    /\ no \in DOMAIN served[c].response
    /\ ~served[c].response[no].finished
    /\ LET res == served[c].response[no]
           empty == res.wrote /\ ~Requests[c][no].chunkedResponse
           buffered == Buffers(served[c], no) /\ (res.buffered \/ ~empty)
           ended == [served[c] EXCEPT !.response[no] =
                        [wrote |-> TRUE, buffered |-> buffered, finished |-> TRUE]]
       IN  served' = [served EXCEPT ![c] =
               IF ~buffered /\ served[c].message = no THEN OnFinish(c, ended) ELSE ended]
    /\ UNCHANGED <<parsers, freeList, executing>>

-----------------------------------------------------------------------------
(* Parser::Execute and its callbacks. *)

\* The socket has read some bytes: Parser::Execute begins.
HttpExecute(c, n) ==
    LET s == served[c] IN
    /\ s.st = "open" /\ s.writable /\ executing = Nothing
    /\ s.pos + n - 1 <= Len(WireOf[c])
    /\ s.cuts < MaxCuts[c] /\ (s.cuts = MaxCuts[c] - 1 => s.pos + n - 1 = Len(WireOf[c]))
    /\ executing' = [conn |-> c, at |-> s.pos, from |-> s.pos, lim |-> s.pos + n - 1, completes |-> FALSE, stopped |-> FALSE]
    /\ served' = [served EXCEPT ![c].cuts = @ + 1, ![c].pos = s.pos + n]
    /\ parsers' = [parsers EXCEPT ![s.parser].got_exception = FALSE]
    /\ UNCHANGED freeList

\* http_parser understands the bytes only in the state their connection is in.
Understands(e, q) == e.at > e.from \/ q.state = StateAt(e.conn, e.at)

HttpRunning == executing # Nothing /\ ~executing.stopped

\* The callbacks that only collect: the strings of a request.
OnString ==
    /\ HttpRunning /\ ~executing.completes /\ executing.at <= executing.lim
    /\ LET e == executing
           c == e.conn
           p == served[c].parser
           byte == WireOf[c][e.at]
           end == RunEnd(c, e.at, e.lim)
           text == FlattenSeq([i \in 1..(end - e.at + 1) |-> WireOf[c][e.at + i - 1].text])
       IN  /\ Understands(e, parsers[p])
           /\ byte.kind \in {"begin", "url", "field", "value"}
           /\ parsers' = [parsers EXCEPT ![p] =
                 CASE byte.kind = "begin" -> OnMessageBegin(@, NumberAt(c, e.at))
                   [] byte.kind = "url" -> OnURL(@, text)
                   [] byte.kind = "field" -> OnHeaderField(@, text)
                   [] byte.kind = "value" -> OnHeaderValue(@, text)]
           /\ executing' = [e EXCEPT !.at = end + 1]
    /\ UNCHANGED <<freeList, served>>

\* A listener that throws makes http_parser give up the buffer, without
\* keeping the state it had reached.
OnHeaders(throws) ==
    /\ HttpRunning /\ ~executing.completes /\ executing.at <= executing.lim
    /\ LET e == executing
           c == e.conn
           p == served[c].parser
           no == NumberAt(c, e.at)
           r == Requests[c][no]
           q == OnHeadersComplete(parsers[p], r.upgrade)
       IN  /\ Understands(e, parsers[p])
           /\ WireOf[c][e.at].kind = "headers"
           /\ throws => ~r.upgrade
           /\ parsers' = [parsers EXCEPT ![p] = [q EXCEPT !.got_exception = throws]]
           /\ served' = IF r.upgrade THEN served ELSE [served EXCEPT ![c] = OnIncoming(@, no)]
           /\ executing' = [e EXCEPT !.stopped = throws, !.completes = ~r.chunked /\ ~throws,
                                     !.at = IF r.chunked /\ ~throws THEN @ + 1 ELSE @]
    /\ UNCHANGED freeList

\* http_parser ignores what on_body returns: a listener that throws does not
\* stop it.
OnBodyBytes(throws) ==
    /\ HttpRunning /\ ~executing.completes /\ executing.at <= executing.lim
    /\ LET e == executing
           c == e.conn
           p == served[c].parser
           end == RunEnd(c, e.at, e.lim)
           text == FlattenSeq([i \in 1..(end - e.at + 1) |-> WireOf[c][e.at + i - 1].text])
       IN  /\ Understands(e, parsers[p])
           /\ WireOf[c][e.at].kind = "body"
           /\ parsers' = [parsers EXCEPT ![p] =
                 [OnBody(@, text) EXCEPT !.got_exception = @ \/ throws]]
           /\ executing' = [e EXCEPT !.at = end + 1]
    /\ UNCHANGED <<freeList, served>>

\* An upgraded request ends the parsing at the last byte of its headers,
\* which http_parser does not count.
OnComplete(throws) ==
    /\ HttpRunning
    /\ LET e == executing
           c == e.conn
           p == served[c].parser
           q == OnMessageComplete(parsers[p])
       IN  /\ e.completes \/ (e.at <= e.lim /\ Understands(e, parsers[p]) /\ WireOf[c][e.at].kind = "complete")
           /\ throws => ~q.incoming.upgrade
           /\ parsers' = [parsers EXCEPT ![p] = [q EXCEPT !.got_exception = @ \/ throws]]
           /\ served' = [served EXCEPT ![c].done = Append(@, q.incoming)]
           /\ executing' = [e EXCEPT !.completes = FALSE, !.stopped = throws \/ q.incoming.upgrade,
                                     !.at = IF throws \/ q.incoming.upgrade THEN @ ELSE @ + 1]
    /\ UNCHANGED freeList

\* The slice of the buffer that follows the headers of an upgraded request.
UpgradeHead(c, from, nparsed, lim) == SubSeq(WireOf[c], from + nparsed + 1, lim)

\* socket.ondata, with what Parser::Execute returned.
Executed(c, e, nparsed, exception, upgrade) ==
    LET s == served[c] IN
    IF exception THEN [s EXCEPT !.lost = IF e.stopped THEN "threw" ELSE @]
    ELSE IF ~upgrade /\ nparsed # e.lim - e.from + 1
         THEN [s EXCEPT !.st = IF @ = "open" THEN "destroyed" ELSE @, !.writable = FALSE]
         ELSE IF upgrade
              THEN [s EXCEPT !.rest = UpgradeHead(c, e.from, nparsed, e.lim),
                             !.st = IF @ = "open" THEN "upgraded" ELSE @]
              ELSE s

\* http_parser_execute has returned.
Returns ==
    /\ executing # Nothing
    /\ LET e == executing
           c == e.conn
           p == served[c].parser
           q == parsers[p]
           upgrade == q.incoming.upgrade /\ e.stopped
       IN  /\ e.stopped \/ (e.at > e.lim /\ ~e.completes)
           /\ parsers' = [parsers EXCEPT ![p].state =
                 IF e.stopped THEN @ ELSE StateAt(c, e.at)]
           /\ served' = [served EXCEPT ![c] =
                 Executed(c, e, e.at - e.from, q.got_exception, upgrade)]
           /\ executing' = Nothing
    /\ UNCHANGED freeList

\* Bytes that do not fit the parser's state: Parse Error, or, by chance,
\* something http_parser takes without reporting it.
Misreads(fails) ==
    /\ HttpRunning /\ ~executing.completes /\ executing.at <= executing.lim
    /\ ~Understands(executing, parsers[served[executing.conn].parser])
    /\ LET c == executing.conn
           lost == [served EXCEPT ![c].lost = IF @ = "no" THEN "misread" ELSE @]
       IN  served' = IF fails /\ served[c].st = "open" THEN Destroyed(lost, c) ELSE lost
    /\ executing' = Nothing
    /\ UNCHANGED <<parsers, freeList>>

\* An upgraded connection goes on without the parser.
RawData(c) ==
    /\ served[c].st = "upgraded" /\ served[c].pos <= Len(WireOf[c])
    /\ served' = [served EXCEPT ![c].rest = Append(@, WireOf[c][served[c].pos]), ![c].pos = @ + 1]
    /\ UNCHANGED <<parsers, freeList, executing>>

\* socket.onend: Parser::Finish; between two requests that is fine, and the
\* socket is ended once its requests are aborted.
ParserFinish(c) ==
    LET s == served[c] IN
    /\ s.st = "open" /\ s.writable /\ executing = Nothing
    /\ parsers' = [parsers EXCEPT ![s.parser].got_exception = FALSE]
    /\ served' = IF parsers[s.parser].state # 0 THEN Destroyed(served, c)
                 ELSE [served EXCEPT ![c].writable = FALSE, ![c].incoming = <<>>]
    /\ UNCHANGED <<freeList, executing>>

HttpNext ==
    \/ \E c \in HttpConn :
         \/ Connection(c)
         \/ \E n \in 1..Len(WireOf[c]) : HttpExecute(c, n)
         \/ RawData(c)
         \/ ParserFinish(c)
         \/ DestroySocket(c)
         \/ OnClose(c)
         \/ \E no \in 1..Len(Requests[c]) : WriteResponse(c, no) \/ EndResponse(c, no)
    \/ OnString
    \/ \E throws \in BOOLEAN : OnHeaders(throws) \/ OnBodyBytes(throws) \/ OnComplete(throws)
    \/ Returns
    \/ \E fails \in BOOLEAN : Misreads(fails)

-----------------------------------------------------------------------------
(* Properties. *)

\* Types.
HttpTypeOK ==
    /\ \A p \in HttpParser : parsers[p].got_exception \in BOOLEAN /\ parsers[p].state \in Nat
    /\ freeList \in Seq(HttpParser) /\ Len(freeList) <= FreeMax
    /\ \A c \in HttpConn :
         /\ served[c].st \in {"new", "open", "upgraded", "destroyed", "closed"}
         /\ served[c].parser \in HttpParser \cup {NoParser}
         /\ served[c].parser = NoParser <=> served[c].st \in {"new", "closed"}
         /\ served[c].pos \in 1..(Len(WireOf[c]) + 1)
         /\ \A k \in DOMAIN served[c].done : served[c].done[k].no \in 1..Len(Requests[c])

\* The lines of a message as one reading of the whole of it collects them.
Collected(lines) == FoldLeft(AddHeaderLine, <<>>, lines)

\* However its bytes were cut into buffers, and whatever its parser did for an
\* earlier connection, a request is reported with its own url, header lines
\* and body; a parser never meets bytes in another state than theirs.  The last trailer is among the trailers; the callbacks put the
\* ones before it among the headers.  Only a listener that threw out of the
\* parser spoils what follows.
RequestsIntact ==
    \A c \in HttpConn :
        /\ served[c].lost # "misread"
        /\ served[c].lost = "no" => \A k \in DOMAIN served[c].done :
            LET r == Requests[c][k]
                got == served[c].done[k]
            IN  /\ got.no = k /\ got.url = r.url
                /\ r.trailers # <<>> =>
                     /\ got.headers = Collected(r.lines \o Front(r.trailers))
                     /\ got.trailers = Collected(<<Last(r.trailers)>>)
                /\ r.trailers = <<>> => got.headers = Collected(r.lines) /\ got.trailers = <<>>
                /\ r.chunked => got.body = r.body

\* No parser serves two connections, or is in the free list while it serves
\* one, or twice: a parser is given back once, by 'close'.
ParserIsOwned ==
    /\ \A c, d \in HttpConn : c # d /\ served[c].parser = served[d].parser => served[c].parser = NoParser
    /\ \A c \in HttpConn : served[c].parser \notin Range(freeList)
    /\ IsInjective(freeList)

\* Responses go out in the order of their requests, each after it was ended,
\* and unless a listener threw out of the parser none is left out; an ended
\* response that has the socket is not left waiting: the queue of the requests
\* and that of the responses stay in step.
ResponsesInOrder ==
    \A c \in HttpConn :
        LET s == served[c] IN
        /\ \A i, j \in 1..Len(s.sent) : i < j => s.sent[i] < s.sent[j]
        /\ s.lost = "no" => s.sent = [i \in 1..Len(s.sent) |-> i]
        /\ \A k \in Range(s.sent) : s.response[k].finished
        /\ s.st = "open" /\ s.writable =>
             /\ s.incoming = (IF s.message = 0 THEN <<>> ELSE <<s.message>>) \o s.outgoing
             /\ s.message # 0 => ~s.response[s.message].finished

\* The bytes after the headers of an upgraded request reach the application,
\* from the first one on: none is taken for the request, none is lost.
UpgradeKeepsBytes ==
    \A c \in HttpConn : served[c].rest # <<>> /\ served[c].st = "upgraded" =>
        LET raw == HttpBytes("raw", Last(Requests[c]).body)
        IN  IsPrefix(served[c].rest, raw) /\ served[c].pos = Len(WireOf[c]) - Len(raw) + Len(served[c].rest) + 1

\* assert(incoming[0] === req) in the listener of 'finish'.
FinishedIsFirst == \A c \in HttpConn : ~served[c].failed

\* The HTTP server: requests are reported whole however their bytes are cut, a parser belongs
\* to one connection, and responses go out in the order of the requests.
HttpSafe ==
    /\ HttpTypeOK
    /\ RequestsIntact
    /\ ParserIsOwned
    /\ ResponsesInOrder
    /\ UpgradeKeepsBytes
=============================================================================
