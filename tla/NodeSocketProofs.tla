-------------------------- MODULE NodeSocketProofs --------------------------
(***************************************************************************)
(* The sockets keep the order of what is written: for any number of        *)
(* writes, of any bytes that the kernel takes of each, with any room in    *)
(* the kernel, and whatever the two ends do.  The invariant relates, in    *)
(* each direction, the bytes and the descriptors that wait at one end,     *)
(* those in the kernel and those that the other end has received.          *)
(***************************************************************************)
EXTENDS NodeSocket, SequenceTheorems, TLAPS

-----------------------------------------------------------------------------
(* The invariant                                                           *)

\* The types: a byte is the number of its write and its place in it.
Positive == Nat \ {0}

QueueItem == [bytes : Seq(Positive \X Positive), str : BOOLEAN]

\* A Socket.
SocketRecord ==
    [fd : {"none", "open", "closed"}, connecting : BOOLEAN, readable : BOOLEAN, writable : BOOLEAN,
     readWatcher : BOOLEAN, writeWatcher : BOOLEAN, queue : Seq(QueueItem), fds : Seq(Nat), shut : BOOLEAN,
     flushing : {"no", "writable", "soon", "end"}, destroyOnDrain : BOOLEAN, destroyed : BOOLEAN, recvFd : Nat]

\* An application.
AppRecord ==
    [written : 0..MaxWrites, sent : Seq(Nat), ended : BOOLEAN, aborted : BOOLEAN, paused : BOOLEAN,
     got : Seq(Positive \X Positive), fds : Seq(Nat), sawEnd : BOOLEAN, allowHalfOpen : BOOLEAN]

\* The types of the variables.
SocketTypes ==
    /\ sockKind \in [type : {"unix", "tcp"}, strings : BOOLEAN]
    /\ sock \in [End -> SocketRecord]
    /\ chan \in [End -> Seq(Positive \X Positive \X Nat)]
    /\ app \in [End -> AppRecord]
    /\ resets \subseteq End
    /\ link \in {"none", "syn", "established", "refused"}

\* A socket by itself.  Only END_OF_FILE is empty, and it is the last of the queue; nothing is
\* queued after a shutdown or a destroy; what is queued and a connection that is being made
\* have the write watcher; only destroySoon flushes while the socket is connecting.
QueueShape(queue) ==
    \A i \in 1..Len(queue) : queue[i].bytes # <<>> \/ (i = Len(queue) /\ queue[i] = END_OF_FILE)

SockOK(s) ==
    /\ QueueShape(s.queue)
    /\ s.fd = "closed" => s.destroyed
    /\ s.destroyed => /\ s.queue = <<>> /\ s.fds = <<>> /\ s.flushing = "no"
                      /\ ~s.readWatcher /\ ~s.writeWatcher /\ ~s.writable
    /\ s.shut => s.queue = <<>> /\ ~s.writable
    /\ ~s.writable => s.shut \/ s.destroyed
    /\ s.connecting => s.flushing \in {"no", "soon"}
    /\ s.connecting /\ s.fd = "open" /\ ~s.destroyed => s.writeWatcher
    /\ s.queue # <<>> /\ s.flushing = "no" /\ s.fd = "open" => s.writeWatcher

\* With buffers there are no more descriptors than items of data.
KindOK(strings, s) ==
    ~strings => Len(s.fds) <= DataItems(s.queue) /\ \A i \in DOMAIN s.queue : ~s.queue[i].str

\* x is an element of the sequence s.
In(x, s) == \E i \in DOMAIN s : s[i] = x

\* The descriptors with the bytes of the kernel.
FdsOf(c) == [i \in DOMAIN c |-> c[i][3]]

\* A descriptor comes before another one; 0 is none.
Before(x, y) == x # 0 /\ y # 0 => x < y

\* The descriptors that were sent, those that wait, in the kernel and at the other end.
FdOrder(fds, c, f, last, sent, k) ==
    /\ \A i \in DOMAIN sent : sent[i] \in 1..k
    /\ \A x \in Nat \ {0} : In(x, fds) \/ In(x, c) \/ In(x, f) => In(x, sent)
    /\ ~In(0, f)
    /\ last # 0 => In(last, f) /\ \A i \in DOMAIN f : f[i] <= last
    /\ \A i, j \in DOMAIN f : i < j => f[i] <= f[j]
    /\ \A i, j \in DOMAIN c : i < j => Before(c[i], c[j])
    /\ \A i, j \in DOMAIN fds : i < j => Before(fds[i], fds[j])
    /\ \A x, y \in Nat : In(x, c) /\ In(y, fds) => Before(x, y)
    /\ \A x, y \in Nat : In(x, f) /\ In(y, c) => Before(x, y)
    /\ \A x, y \in Nat : In(x, f) /\ In(y, fds) => Before(x, y)

\* Every descriptor that was sent waits, is in the kernel or is at the other end.
FdAll(fds, c, f, sent) == \A x \in Nat : In(x, sent) => In(x, f) \/ In(x, c) \/ In(x, fds)

\* What was received, and what is in the kernel after it, are the first bytes of k writes.
Arrived(c, got, k) ==
    /\ Len(got) + Len(c) <= k * WriteSize
    /\ \A i \in 1..Len(got) : got[i] = ByteAt(i)
    /\ \A i \in 1..Len(c) : <<c[i][1], c[i][2]>> = ByteAt(Len(got) + i)

\* No item of the queue goes beyond the first m bytes.
Within(queue, n, m) == \A i \in 0..DataItems(queue) : UpTo(queue, i, n) <= m

\* What a queue holds, with what a step needs of it.
Waits(queue, n, m) == Holds(queue, n, m) /\ Within(queue, n, m)

\* The bytes of one direction: from the socket s of the application a, through c, to the
\* application b whose socket is r.
BytesOK(s, a, c, r, b) ==
    /\ Arrived(c, b.got, a.written)
    /\ r.fd = "closed" => c = <<>>
    /\ ~s.destroyed /\ r.fd # "closed" => Waits(s.queue, Len(b.got) + Len(c), a.written * WriteSize)
    /\ (s.shut \/ s.destroyed) /\ ~a.aborted /\ r.fd # "closed" => Len(b.got) + Len(c) = a.written * WriteSize
    /\ b.sawEnd => ~s.writable /\ (~a.aborted => Len(b.got) = a.written * WriteSize)

\* The descriptors of one direction, with writes of buffers.
FdsOK(type, s, a, c, r, b) ==
    /\ type # "unix" => a.sent = <<>>
    /\ FdOrder(s.fds, FdsOf(c), b.fds, r.recvFd, a.sent, a.written)
    /\ ~s.destroyed /\ r.fd # "closed" => FdAll(s.fds, FdsOf(c), b.fds, a.sent)
    /\ (s.shut \/ s.destroyed) /\ ~a.aborted /\ r.fd # "closed" => FdAll(<<>>, FdsOf(c), b.fds, a.sent)
    /\ b.sawEnd /\ ~a.aborted => FdAll(<<>>, <<>>, b.fds, a.sent)

\* From the end p to the other one.
OneWay(p) ==
    LET q == Other(p) IN
    /\ BytesOK(sock[p], app[p], chan[p], sock[q], app[q])
    /\ ~sockKind.strings => FdsOK(sockKind.type, sock[p], app[p], chan[p], sock[q], app[q])

\* The inductive invariant: the types, each socket by itself, and both directions.
SocketInv ==
    /\ SocketTypes
    /\ \A p \in End : SockOK(sock[p]) /\ KindOK(sockKind.strings, sock[p]) /\ Len(chan[p]) <= Room
    /\ \A p \in End : OneWay(p)

\* A byte has a place, and the place a byte.
LEMMA PlaceOfByte ==
    /\ \A n \in Nat \ {0} : PlaceOf(ByteAt(n)) = n
    /\ \A byte \in Positive \X Positive : PlaceOf(byte) \in Nat \ {0}
<1>1. ASSUME NEW n \in Nat \ {0} PROVE PlaceOf(ByteAt(n)) = n
  BY DEF PlaceOf, ByteAt, WriteSize
<1>2. ASSUME NEW byte \in Positive \X Positive PROVE PlaceOf(byte) \in Nat \ {0}
  BY DEF PlaceOf, WriteSize, Positive
<1> QED BY <1>1, <1>2

\* A function on 1..n is a sequence.
LEMMA SequenceOf ==
    ASSUME NEW T, NEW n \in Nat, NEW f \in [1..n -> T]
    PROVE  f \in Seq(T) /\ Len(f) = n /\ DOMAIN f = 1..n
OBVIOUS

\* What is left of a sequence after its first k elements.
LEMMA SuffixFacts ==
    ASSUME NEW T, NEW s \in Seq(T), NEW k \in 0..Len(s)
    PROVE  /\ SubSeq(s, k + 1, Len(s)) \in Seq(T) /\ Len(SubSeq(s, k + 1, Len(s))) = Len(s) - k
           /\ \A j \in 1..(Len(s) - k) : SubSeq(s, k + 1, Len(s))[j] = s[k + j]
<1>1. \A i \in (k + 1)..Len(s) : s[i] \in T
  OBVIOUS
<1>2. k + 1 \in Int /\ Len(s) \in Int
  OBVIOUS
<1>3. /\ SubSeq(s, k + 1, Len(s)) \in Seq(T)
      /\ Len(SubSeq(s, k + 1, Len(s))) = IF k + 1 <= Len(s) THEN Len(s) - (k + 1) + 1 ELSE 0
      /\ \A i \in 1..(Len(s) - (k + 1) + 1) : SubSeq(s, k + 1, Len(s))[i] = s[(k + 1) + i - 1]
  BY <1>1, <1>2, SubSeqProperties
<1>4. Len(s) - (k + 1) + 1 = Len(s) - k /\ \A i \in 1..(Len(s) - k) : (k + 1) + i - 1 = k + i
  OBVIOUS
<1>5. Len(SubSeq(s, k + 1, Len(s))) = Len(s) - k
  BY <1>3
<1>6. \A j \in 1..(Len(s) - k) : SubSeq(s, k + 1, Len(s))[j] = s[k + j]
  BY <1>3, <1>4
<1> QED BY <1>3, <1>5, <1>6

\* A sequence that has a length is not empty.
LEMMA NotEmpty ==
    ASSUME NEW T, NEW s \in Seq(T) PROVE Len(s) \in Nat /\ (Len(s) # 0 <=> s # <<>>)
OBVIOUS

\* The last element is replaced.
LEMMA LastReplaced ==
    ASSUME NEW T, NEW s \in Seq(T), s # <<>>, NEW v \in Seq(T), NEW x, v = [s EXCEPT ![Len(s)] = x]
    PROVE  /\ Len(v) = Len(s) /\ Len(s) \in Nat \ {0} /\ v[Len(s)] = x
           /\ \A i \in 1..(Len(s) - 1) : v[i] = s[i]
OBVIOUS

\* A sequence with one element more.
LEMMA Appended ==
    ASSUME NEW T, NEW s \in Seq(T), NEW x \in T
    PROVE  /\ Append(s, x) \in Seq(T) /\ Len(Append(s, x)) = Len(s) + 1 /\ Append(s, x)[Len(s) + 1] = x
           /\ \A i \in 1..Len(s) : Append(s, x)[i] = s[i]
OBVIOUS

\* END_OF_FILE is an item.
LEMMA EndIsItem == END_OF_FILE \in QueueItem /\ END_OF_FILE.bytes = <<>> /\ ~END_OF_FILE.str
BY DEF END_OF_FILE, QueueItem

\* The bytes of a write are the next of the stream.
LEMMA BytesOfWrite ==
    ASSUME NEW k \in Nat
    PROVE  /\ Bytes(k + 1) \in Seq(Positive \X Positive) /\ Len(Bytes(k + 1)) = WriteSize
           /\ \A j \in 1..WriteSize : Bytes(k + 1)[j] = ByteAt(k * WriteSize + j)
<1>1. Bytes(k + 1) \in [1..2 -> Positive \X Positive]
  BY DEF Bytes, WriteSize, Positive
<1>2. Bytes(k + 1) \in Seq(Positive \X Positive) /\ Len(Bytes(k + 1)) = WriteSize
  BY <1>1, SequenceOf DEF WriteSize
<1>3. ASSUME NEW j \in 1..WriteSize PROVE Bytes(k + 1)[j] = ByteAt(k * WriteSize + j)
  <2>1. Bytes(k + 1)[j] = <<k + 1, j>>
    BY DEF Bytes
  <2>2. j \in 1..2
    BY DEF WriteSize
  <2>3. ((k * 2 + j - 1) \div 2) + 1 = k + 1 /\ ((k * 2 + j - 1) % 2) + 1 = j
    BY <2>2
  <2> QED BY <2>1, <2>3 DEF ByteAt, WriteSize
<1> QED BY <1>2, <1>3

\* The items of data: all of the queue, without END_OF_FILE at its end.
LEMMA DataItemsFacts ==
    ASSUME NEW queue \in Seq(QueueItem), QueueShape(queue)
    PROVE  /\ DataItems(queue) \in 0..Len(queue)
           /\ \A i \in 1..Len(queue) : i <= DataItems(queue) <=> queue[i].bytes # <<>>
           /\ queue # <<>> => (queue[1].bytes = <<>> <=> queue[1] = END_OF_FILE)
           /\ queue # <<>> /\ queue[1] = END_OF_FILE => Len(queue) = 1 /\ DataItems(queue) = 0
<1>1. \A i \in 1..Len(queue) : queue[i] \in QueueItem
  OBVIOUS
<1>2. END_OF_FILE.bytes = <<>>
  BY DEF END_OF_FILE
<1>3. \A i \in 1..Len(queue) : queue[i].bytes # <<>> \/ (i = Len(queue) /\ queue[i] = END_OF_FILE)
  BY DEF QueueShape
<1>4. Len(queue) \in Nat /\ (queue = <<>> <=> Len(queue) = 0)
  OBVIOUS
<1>5. CASE queue # <<>> /\ queue[Len(queue)] = END_OF_FILE
  <2>1. DataItems(queue) = Len(queue) - 1
    BY <1>5 DEF DataItems
  <2>2. \A i \in 1..Len(queue) : i <= DataItems(queue) <=> queue[i].bytes # <<>>
    BY <1>2, <1>3, <1>4, <1>5, <2>1
  <2>3. 1 \in 1..Len(queue) /\ (queue[1].bytes = <<>> <=> queue[1] = END_OF_FILE)
    BY <1>2, <1>3, <1>4, <1>5
  <2>4. queue[1] = END_OF_FILE => Len(queue) = 1
    BY <1>2, <1>3, <1>4, <1>5, <2>3
  <2>5. DataItems(queue) \in 0..Len(queue)
    BY <1>4, <1>5, <2>1
  <2> QED BY <2>1, <2>2, <2>3, <2>4, <2>5
<1>6. CASE ~(queue # <<>> /\ queue[Len(queue)] = END_OF_FILE)
  <2>1. DataItems(queue) = Len(queue)
    BY <1>6 DEF DataItems
  <2>2. \A i \in 1..Len(queue) : i <= DataItems(queue) <=> queue[i].bytes # <<>>
    BY <1>2, <1>3, <1>4, <1>6, <2>1
  <2> QED BY <1>2, <1>3, <1>4, <1>6, <2>1, <2>2
<1> QED BY <1>5, <1>6

\* The places go up by the lengths of the items.
LEMMA UpToFacts ==
    ASSUME NEW queue \in Seq(QueueItem), QueueShape(queue), NEW n \in Nat, NEW m \in Nat, Holds(queue, n, m)
    PROVE  /\ \A i \in 0..DataItems(queue) : UpTo(queue, i, n) \in Nat
           /\ \A i \in 1..DataItems(queue) : UpTo(queue, i, n) = UpTo(queue, i - 1, n) + Len(queue[i].bytes)
<1> DEFINE D == DataItems(queue)
<1>1. D \in 0..Len(queue)
  BY DataItemsFacts
<1>2. ASSUME NEW i \in 0..D PROVE UpTo(queue, i, n) \in Nat
  <2>1. CASE i = 0
    BY <2>1 DEF UpTo
  <2>2. CASE i # 0
    <3>0. i \in 1..Len(queue) /\ queue[i] \in QueueItem
      BY <1>1, <2>2
    <3>1. queue[i].bytes # <<>> /\ queue[i].bytes \in Seq(Positive \X Positive)
      BY <1>1, <2>2, <3>0 DEF Holds, QueueItem
    <3>2. queue[i].bytes[Len(queue[i].bytes)] \in Positive \X Positive
      BY <3>1
    <3> QED BY <2>2, <3>2, PlaceOfByte DEF UpTo
  <2> QED BY <2>1, <2>2
<1>3. ASSUME NEW i \in 1..D PROVE UpTo(queue, i, n) = UpTo(queue, i - 1, n) + Len(queue[i].bytes)
  <2>1. PICK u \in Nat : u = UpTo(queue, i - 1, n)
    BY <1>1, <1>2
  <2>0. queue[i] \in QueueItem
    BY <1>1
  <2>2. PICK bytes \in Seq(Positive \X Positive) : bytes = queue[i].bytes
    BY <2>0 DEF QueueItem
  <2>3. bytes # <<>> /\ \A j \in DOMAIN bytes : bytes[j] = ByteAt(u + j)
    BY <2>1, <2>2 DEF Holds
  <2>4. bytes[Len(bytes)] = ByteAt(u + Len(bytes)) /\ Len(bytes) \in Nat \ {0}
    BY <2>3
  <2>5. PlaceOf(bytes[Len(bytes)]) = u + Len(bytes)
    BY <2>4, PlaceOfByte
  <2>6. UpTo(queue, i, n) = PlaceOf(bytes[Len(bytes)])
    BY <1>1, <2>2 DEF UpTo
  <2> QED BY <2>1, <2>2, <2>5, <2>6
<1> QED BY <1>2, <1>3
\* The whole head was written.
LEMMA WaitsTail ==
    ASSUME NEW q \in Seq(QueueItem), NEW r \in Seq(QueueItem), QueueShape(q), q # <<>>, q[1] # END_OF_FILE,
           Len(r) = Len(q) - 1, \A i \in 1..Len(r) : r[i] = q[i + 1]
    PROVE  /\ QueueShape(r) /\ DataItems(r) = DataItems(q) - 1
           /\ \A n, m \in Nat : Waits(q, n, m) => Waits(r, n + Len(q[1].bytes), m)
<1> DEFINE D == DataItems(q)
<1>1. Len(q) \in Nat \ {0} /\ Len(r) \in Nat
  OBVIOUS
<1>2. QueueShape(r)
  BY <1>1 DEF QueueShape
<1>3. D \in 1..Len(q) /\ q[1] \in QueueItem
  BY <1>1, DataItemsFacts
<1>4. DataItems(r) = D - 1
  <2>1. CASE r = <<>>
    <3>1. DataItems(r) = 0 /\ Len(r) = 0
      BY <2>1 DEF DataItems
    <3>2. Len(q) = 1
      BY <1>1, <3>1
    <3>3. D = 1
      BY <1>3, <3>2
    <3> QED BY <3>1, <3>3
  <2>2. CASE r # <<>>
    <3>1. r[Len(r)] = q[Len(q)]
      BY <1>1, <2>2
    <3> QED BY <1>1, <2>2, <3>1 DEF DataItems
  <2> QED BY <2>1, <2>2
<1>5. ASSUME NEW n \in Nat, NEW m \in Nat, Waits(q, n, m) PROVE Waits(r, n + Len(q[1].bytes), m)
  <2>0. q[1].bytes \in Seq(Positive \X Positive)
    BY <1>3 DEF QueueItem
  <2>1. PICK l \in Nat : l = n + Len(q[1].bytes)
    BY <2>0
  <2>2. UpTo(q, 0, n) = n /\ UpTo(r, 0, l) = l
    BY DEF UpTo
  <2>3. UpTo(q, 1, n) = l
    BY <1>3, <1>5, <2>1, <2>2, UpToFacts DEF Waits
  <2>4. \A i \in 0..(D - 1) : UpTo(r, i, l) = UpTo(q, i + 1, n)
    <3>1. \A i \in 1..(D - 1) : UpTo(r, i, l) = UpTo(q, i + 1, n)
      BY <1>1, <1>3 DEF UpTo
    <3> QED BY <1>3, <2>2, <2>3, <3>1
  <2>5. ASSUME NEW i \in 1..(D - 1)
        PROVE  /\ r[i].bytes # <<>>
               /\ \A j \in DOMAIN r[i].bytes : r[i].bytes[j] = ByteAt(UpTo(r, i - 1, l) + j)
    <3>1. i + 1 \in 1..D /\ r[i] = q[i + 1] /\ i - 1 \in 0..(D - 1)
      BY <1>1, <1>3
    <3>2. UpTo(r, i - 1, l) = UpTo(q, i, n) /\ (i + 1) - 1 = i
      BY <2>4, <3>1
    <3>3. /\ q[i + 1].bytes # <<>>
          /\ \A j \in DOMAIN q[i + 1].bytes : q[i + 1].bytes[j] = ByteAt(UpTo(q, (i + 1) - 1, n) + j)
      BY <1>5, <3>1 DEF Waits, Holds
    <3> QED BY <3>1, <3>2, <3>3
  <2>6. UpTo(r, D - 1, l) = m
    BY <1>3, <1>5, <2>4 DEF Waits, Holds
  <2>7. \A i \in 0..(D - 1) : UpTo(r, i, l) <= m
    BY <1>3, <1>5, <2>4 DEF Waits, Within
  <2> QED BY <1>4, <2>1, <2>5, <2>6, <2>7 DEF Waits, Holds, Within
<1> QED BY <1>2, <1>4, <1>5

\* k bytes of the head were written.
LEMMA WaitsRest ==
    ASSUME NEW q \in Seq(QueueItem), NEW r \in Seq(QueueItem), QueueShape(q), q # <<>>, q[1] # END_OF_FILE,
           NEW k \in Nat, k < Len(q[1].bytes),
           Len(r) = Len(q), \A i \in 2..Len(r) : r[i] = q[i],
           r[1].bytes = SubSeq(q[1].bytes, k + 1, Len(q[1].bytes))
    PROVE  /\ QueueShape(r) /\ DataItems(r) = DataItems(q)
           /\ \A n, m \in Nat : Waits(q, n, m) => Waits(r, n + k, m)
<1> DEFINE D == DataItems(q)
<1>1. Len(q) \in Nat \ {0}
  OBVIOUS
<1>2. D \in 1..Len(q) /\ q[1] \in QueueItem
  BY <1>1, DataItemsFacts
<1>3. PICK bytes \in Seq(Positive \X Positive) : bytes = q[1].bytes
  BY <1>2 DEF QueueItem
<1>r. r[1] \in QueueItem
  BY <1>1
<1>4. PICK rest \in Seq(Positive \X Positive) : rest = r[1].bytes
  BY <1>r DEF QueueItem
<1>5. /\ Len(bytes) \in Nat /\ Len(rest) = Len(bytes) - k /\ Len(rest) \in Nat \ {0} /\ rest # <<>>
      /\ \A j \in 1..Len(rest) : rest[j] = bytes[k + j]
  <2>1. Len(bytes) \in Nat /\ k < Len(bytes) /\ rest = SubSeq(bytes, k + 1, Len(bytes))
    BY <1>3, <1>4
  <2>2. /\ Len(rest) = Len(bytes) - k
        /\ \A j \in 1..(Len(bytes) - k) : rest[j] = bytes[k + j]
    BY <2>1, SuffixFacts
  <2>3. Len(rest) \in Nat \ {0}
    BY <2>1, <2>2
  <2>4. rest # <<>>
    BY <2>3
  <2> QED BY <2>1, <2>2, <2>3, <2>4
<1>6. QueueShape(r)
  BY <1>1, <1>4, <1>5 DEF QueueShape
<1>7. DataItems(r) = D
  <2>1. CASE Len(q) = 1
    <3>1. q[Len(q)] # END_OF_FILE /\ r[Len(r)] # END_OF_FILE
      BY <1>4, <1>5, <2>1 DEF END_OF_FILE
    <3> QED BY <1>1, <3>1 DEF DataItems
  <2>2. CASE Len(q) # 1
    <3>1. r[Len(r)] = q[Len(q)] /\ r # <<>>
      BY <1>1, <2>2
    <3> QED BY <1>1, <3>1 DEF DataItems
  <2> QED BY <2>1, <2>2
<1>8. ASSUME NEW n \in Nat, NEW m \in Nat, Waits(q, n, m) PROVE Waits(r, n + k, m)
  <2>1. UpTo(q, 0, n) = n /\ UpTo(r, 0, n + k) = n + k
    BY DEF UpTo
  <2>2. UpTo(r, 1, n + k) = UpTo(q, 1, n)
    <3>1. rest[Len(rest)] = bytes[Len(bytes)]
      BY <1>5
    <3>2. UpTo(r, 1, n + k) = PlaceOf(rest[Len(rest)])
      BY <1>4 DEF UpTo
    <3>3. UpTo(q, 1, n) = PlaceOf(bytes[Len(bytes)])
      BY <1>3 DEF UpTo
    <3> QED BY <3>1, <3>2, <3>3
  <2>3. \A i \in 1..D : UpTo(r, i, n + k) = UpTo(q, i, n)
    <3>1. \A i \in 2..D : UpTo(r, i, n + k) = UpTo(q, i, n)
      BY <1>1, <1>2 DEF UpTo
    <3> QED BY <1>2, <2>2, <3>1
  <2>4. UpTo(q, 1, n) = n + Len(bytes) /\ UpTo(q, 1, n) <= m
    <3>1. UpTo(q, 1, n) = UpTo(q, 1 - 1, n) + Len(q[1].bytes)
      BY <1>2, <1>8, UpToFacts DEF Waits
    <3>2. UpTo(q, 1, n) <= m
      BY <1>2, <1>8 DEF Waits, Within
    <3> QED BY <1>3, <2>1, <3>1, <3>2
  <2>5. ASSUME NEW i \in 1..D
        PROVE  /\ r[i].bytes # <<>>
               /\ \A j \in DOMAIN r[i].bytes : r[i].bytes[j] = ByteAt(UpTo(r, i - 1, n + k) + j)
    <3>0. /\ q[i].bytes # <<>>
          /\ \A j \in DOMAIN q[i].bytes : q[i].bytes[j] = ByteAt(UpTo(q, i - 1, n) + j)
      BY <1>8 DEF Waits, Holds
    <3>1. CASE i = 1
      <4>1. \A j \in 1..Len(bytes) : bytes[j] = ByteAt(n + j)
        BY <1>3, <2>1, <3>0, <3>1
      <4>2. \A j \in 1..Len(rest) : rest[j] = ByteAt((n + k) + j)
        <5>1. ASSUME NEW j \in 1..Len(rest) PROVE rest[j] = ByteAt((n + k) + j)
          <6>1. rest[j] = bytes[k + j] /\ k + j \in 1..Len(bytes)
            BY <1>5
          <6>2. bytes[k + j] = ByteAt(n + (k + j)) /\ n + (k + j) = (n + k) + j
            BY <4>1, <6>1
          <6> QED BY <6>1, <6>2
        <5> QED BY <5>1
      <4>3. UpTo(r, i - 1, n + k) = n + k /\ DOMAIN rest = 1..Len(rest) /\ r[i].bytes = rest
        BY <1>4, <2>1, <3>1
      <4> QED BY <1>5, <4>2, <4>3
    <3>2. CASE i # 1
      <4>1. r[i] = q[i] /\ i - 1 \in 1..D
        BY <1>1, <1>2, <3>2
      <4> QED BY <2>3, <3>0, <4>1
    <3> QED BY <3>1, <3>2
  <2>6. UpTo(r, D, n + k) = m
    BY <1>2, <1>8, <2>3 DEF Waits, Holds
  <2>7. \A i \in 0..D : UpTo(r, i, n + k) <= m
    <3>1. \A i \in 1..D : UpTo(r, i, n + k) <= m
      BY <1>2, <1>8, <2>3 DEF Waits, Within
    <3>2. n + k <= m
      BY <1>3, <1>5, <2>4
    <3> QED BY <1>2, <2>1, <3>1, <3>2
  <2> QED BY <1>7, <2>5, <2>6, <2>7 DEF Waits, Holds, Within
<1> QED BY <1>6, <1>7, <1>8

\* An item was added at the end.
LEMMA WaitsAppend ==
    ASSUME NEW q \in Seq(QueueItem), NEW r \in Seq(QueueItem), QueueShape(q), DataItems(q) = Len(q),
           Len(r) = Len(q) + 1, \A i \in 1..Len(q) : r[i] = q[i], r[Len(r)].bytes # <<>>
    PROVE  /\ QueueShape(r) /\ DataItems(r) = Len(q) + 1
           /\ \A n, m \in Nat :
                Waits(q, n, m) /\ (\A j \in 1..Len(r[Len(r)].bytes) : r[Len(r)].bytes[j] = ByteAt(m + j))
                  => Waits(r, n, m + Len(r[Len(r)].bytes))
<1> DEFINE D == Len(q)
<1>1. D \in Nat /\ Len(r) \in Nat /\ Len(r) = D + 1 /\ r # <<>>
  OBVIOUS
<1>2. QueueShape(r)
  <2>1. \A i \in 1..D : q[i].bytes # <<>>
    BY <1>1, DataItemsFacts
  <2> QED BY <1>1, <2>1 DEF QueueShape
<1>3. r[D + 1] # END_OF_FILE
  BY <1>1 DEF END_OF_FILE
<1>4. DataItems(r) = D + 1
  BY <1>1, <1>3 DEF DataItems
<1>r. r[D + 1] \in QueueItem
  BY <1>1
<1>5. PICK bytes \in Seq(Positive \X Positive) : bytes = r[D + 1].bytes
  BY <1>r DEF QueueItem
<1>6. ASSUME NEW n \in Nat, NEW m \in Nat, Waits(q, n, m), \A j \in 1..Len(bytes) : bytes[j] = ByteAt(m + j)
      PROVE  Waits(r, n, m + Len(bytes))
  <2>1. \A i \in 0..D : UpTo(r, i, n) = UpTo(q, i, n)
    BY <1>1 DEF UpTo
  <2>2. UpTo(r, D, n) = m
    BY <1>1, <1>6, <2>1 DEF Waits, Holds
  <2>3. Len(bytes) \in Nat \ {0} /\ bytes # <<>>
    BY <1>1, <1>5
  <2>4. UpTo(r, D + 1, n) = m + Len(bytes)
    <3>1. UpTo(r, D + 1, n) = PlaceOf(bytes[Len(bytes)])
      BY <1>1, <1>5 DEF UpTo
    <3>2. bytes[Len(bytes)] = ByteAt(m + Len(bytes))
      BY <1>6, <2>3
    <3>3. m + Len(bytes) \in Nat \ {0}
      BY <2>3
    <3> QED BY <3>1, <3>2, <3>3, PlaceOfByte
  <2>5. ASSUME NEW i \in 1..(D + 1)
        PROVE  /\ r[i].bytes # <<>>
               /\ \A j \in DOMAIN r[i].bytes : r[i].bytes[j] = ByteAt(UpTo(r, i - 1, n) + j)
    <3>1. CASE i = D + 1
      <4>1. r[i].bytes = bytes /\ UpTo(r, i - 1, n) = m /\ DOMAIN bytes = 1..Len(bytes)
        BY <1>1, <1>5, <2>2, <3>1
      <4> QED BY <1>6, <2>3, <4>1
    <3>2. CASE i # D + 1
      <4>1. i \in 1..D /\ r[i] = q[i] /\ UpTo(r, i - 1, n) = UpTo(q, i - 1, n)
        BY <1>1, <2>1, <3>2
      <4>2. /\ q[i].bytes # <<>>
            /\ \A j \in DOMAIN q[i].bytes : q[i].bytes[j] = ByteAt(UpTo(q, i - 1, n) + j)
        BY <1>6, <4>1 DEF Waits, Holds
      <4> QED BY <4>1, <4>2
    <3> QED BY <3>1, <3>2
  <2>6. \A i \in 0..(D + 1) : UpTo(r, i, n) <= m + Len(bytes)
    <3>1. \A i \in 0..D : UpTo(q, i, n) <= m /\ UpTo(q, i, n) \in Nat
      BY <1>6, UpToFacts DEF Waits, Within
    <3>2. ASSUME NEW i \in 0..(D + 1) PROVE UpTo(r, i, n) <= m + Len(bytes)
      <4>1. CASE i = D + 1
        BY <2>3, <2>4, <4>1
      <4>2. CASE i # D + 1
        <5>1. i \in 0..D
          BY <1>1, <4>2
        <5> QED BY <2>1, <2>3, <3>1, <5>1
      <4> QED BY <4>1, <4>2
    <3> QED BY <3>2
  <2> QED BY <1>4, <2>4, <2>5, <2>6 DEF Waits, Holds, Within
<1> QED BY <1>1, <1>2, <1>4, <1>5, <1>6

\* END_OF_FILE was added at the end.
LEMMA WaitsEnd ==
    ASSUME NEW q \in Seq(QueueItem), NEW r \in Seq(QueueItem), QueueShape(q), DataItems(q) = Len(q),
           Len(r) = Len(q) + 1, \A i \in 1..Len(q) : r[i] = q[i], r[Len(r)] = END_OF_FILE
    PROVE  /\ QueueShape(r) /\ DataItems(r) = Len(q)
           /\ \A n, m \in Nat : Waits(q, n, m) => Waits(r, n, m)
<1> DEFINE D == Len(q)
<1>1. D \in Nat /\ Len(r) \in Nat /\ Len(r) = D + 1 /\ r # <<>>
  OBVIOUS
<1>2. QueueShape(r)
  <2>1. \A i \in 1..D : q[i].bytes # <<>>
    BY <1>1, DataItemsFacts
  <2> QED BY <1>1, <2>1 DEF QueueShape
<1>3. DataItems(r) = D
  BY <1>1 DEF DataItems
<1>4. ASSUME NEW n \in Nat, NEW m \in Nat, Waits(q, n, m) PROVE Waits(r, n, m)
  <2>1. \A i \in 0..D : UpTo(r, i, n) = UpTo(q, i, n)
    BY <1>1 DEF UpTo
  <2>2. \A i \in 1..D : r[i] = q[i] /\ i - 1 \in 0..D
    BY <1>1
  <2> QED BY <1>1, <1>3, <1>4, <2>1, <2>2 DEF Waits, Holds, Within
<1> QED BY <1>2, <1>3, <1>4

\* A string was joined to the last item.
LEMMA WaitsJoin ==
    ASSUME NEW q \in Seq(QueueItem), NEW r \in Seq(QueueItem), QueueShape(q), DataItems(q) = Len(q), q # <<>>,
           Len(r) = Len(q), \A i \in 1..(Len(q) - 1) : r[i] = q[i],
           NEW more \in Seq(Positive \X Positive), more # <<>>,
           r[Len(q)].bytes = q[Len(q)].bytes \o more
    PROVE  /\ QueueShape(r) /\ DataItems(r) = Len(q)
           /\ \A n, m \in Nat :
                Waits(q, n, m) /\ (\A j \in 1..Len(more) : more[j] = ByteAt(m + j)) => Waits(r, n, m + Len(more))
<1> DEFINE D == Len(q)
<1>1. D \in Nat \ {0} /\ r # <<>> /\ q[D] \in QueueItem /\ r[D] \in QueueItem
  OBVIOUS
<1>2. PICK old \in Seq(Positive \X Positive) : old = q[D].bytes
  BY <1>1 DEF QueueItem
<1>3. PICK bytes \in Seq(Positive \X Positive) : bytes = r[D].bytes
  BY <1>1 DEF QueueItem
<1>l. PICK x \in Nat, y \in Nat \ {0} : x = Len(old) /\ y = Len(more)
  OBVIOUS
<1>4. /\ Len(old) \in Nat /\ Len(more) \in Nat \ {0} /\ Len(bytes) = Len(old) + Len(more)
      /\ \A j \in 1..Len(old) : bytes[j] = old[j]
      /\ \A j \in 1..Len(more) : bytes[Len(old) + j] = more[j]
  BY <1>2, <1>3
<1>5. bytes # <<>> /\ Len(bytes) \in Nat \ {0}
  BY <1>4
<1>6. \A i \in 1..D : q[i].bytes # <<>> /\ r[i].bytes # <<>>
  <2>1. \A i \in 1..D : q[i].bytes # <<>>
    BY DataItemsFacts
  <2>2. ASSUME NEW i \in 1..D PROVE r[i].bytes # <<>>
    <3>1. CASE i = D
      BY <1>3, <1>5, <3>1
    <3>2. CASE i # D
      <4>1. r[i] = q[i]
        BY <1>1, <3>2
      <4>2. q[i].bytes # <<>>
        BY <2>1
      <4> QED BY <4>1, <4>2
    <3> QED BY <3>1, <3>2
  <2> QED BY <2>1, <2>2
<1>7. QueueShape(r)
  BY <1>6 DEF QueueShape
<1>8. DataItems(r) = D
  <2>1. r[D] # END_OF_FILE
    BY <1>3, <1>5 DEF END_OF_FILE
  <2> QED BY <1>1, <2>1 DEF DataItems
<1>9. ASSUME NEW n \in Nat, NEW m \in Nat, Waits(q, n, m), \A j \in 1..Len(more) : more[j] = ByteAt(m + j)
      PROVE  Waits(r, n, m + Len(more))
  <2>1. \A i \in 0..(D - 1) : UpTo(r, i, n) = UpTo(q, i, n) /\ UpTo(q, i, n) \in Nat /\ UpTo(q, i, n) <= m
    <3>1. \A i \in 0..(D - 1) : UpTo(r, i, n) = UpTo(q, i, n)
      BY <1>1 DEF UpTo
    <3>2. \A i \in 0..D : UpTo(q, i, n) \in Nat /\ UpTo(q, i, n) <= m
      BY <1>9, UpToFacts DEF Waits, Within
    <3> QED BY <1>1, <3>1, <3>2
  <2>2. PICK u \in Nat : u = UpTo(q, D - 1, n)
    BY <1>1, <2>1
  <2>3. u + Len(old) = m
    <3>1. UpTo(q, D, n) = u + Len(q[D].bytes)
      BY <1>1, <1>9, <2>2, UpToFacts DEF Waits
    <3>2. UpTo(q, D, n) = m
      BY <1>9 DEF Waits, Holds
    <3> QED BY <1>2, <3>1, <3>2
  <2>4. \A j \in 1..Len(old) : old[j] = ByteAt(u + j)
    BY <1>1, <1>2, <1>9, <2>2 DEF Waits, Holds
  <2>5. ASSUME NEW j \in 1..Len(bytes) PROVE bytes[j] = ByteAt(u + j)
    <3>1. CASE j <= Len(old)
      BY <1>4, <2>4, <3>1
    <3>2. CASE j > Len(old)
      <4>1. j \in 1..(x + y) /\ j > x /\ u + x = m
        BY <1>l, <1>4, <2>3, <3>2
      <4>2. PICK z \in 1..y : z = j - x
        BY <4>1
      <4>3. x + z = j /\ m + z = u + j
        BY <4>1, <4>2
      <4>4. bytes[x + z] = ByteAt(m + z)
        BY <1>l, <1>4, <1>9
      <4> QED BY <4>3, <4>4
    <3> QED BY <1>4, <3>1, <3>2
  <2>6. UpTo(r, D, n) = m + Len(more)
    <3>1. UpTo(r, D, n) = PlaceOf(bytes[Len(bytes)])
      BY <1>1, <1>3 DEF UpTo
    <3>2. PICK l \in Nat \ {0} : l = Len(bytes)
      BY <1>5
    <3>3. bytes[l] = ByteAt(u + l) /\ u + l \in Nat \ {0}
      BY <2>5, <3>2
    <3>4. l = x + y /\ u + x = m
      BY <1>l, <1>4, <2>3, <3>2
    <3>5. u + l = m + y
      BY <3>4
    <3>6. PlaceOf(bytes[l]) = m + y
      BY <3>3, <3>5, PlaceOfByte
    <3> QED BY <1>l, <3>1, <3>2, <3>6
  <2>7. ASSUME NEW i \in 1..D
        PROVE  /\ r[i].bytes # <<>>
               /\ \A j \in DOMAIN r[i].bytes : r[i].bytes[j] = ByteAt(UpTo(r, i - 1, n) + j)
    <3>1. CASE i = D
      <4>1. r[i].bytes = bytes /\ UpTo(r, i - 1, n) = u /\ DOMAIN bytes = 1..Len(bytes)
        BY <1>1, <1>3, <2>1, <2>2, <3>1
      <4> QED BY <1>5, <2>5, <4>1
    <3>2. CASE i # D
      <4>1. r[i] = q[i] /\ UpTo(r, i - 1, n) = UpTo(q, i - 1, n)
        BY <1>1, <2>1, <3>2
      <4>2. /\ q[i].bytes # <<>>
            /\ \A j \in DOMAIN q[i].bytes : q[i].bytes[j] = ByteAt(UpTo(q, i - 1, n) + j)
        BY <1>9 DEF Waits, Holds
      <4> QED BY <4>1, <4>2
    <3> QED BY <3>1, <3>2
  <2>8. \A i \in 0..D : UpTo(r, i, n) <= m + Len(more)
    <3>1. ASSUME NEW i \in 0..D PROVE UpTo(r, i, n) <= m + y
      <4>1. CASE i = D
        BY <1>l, <2>6, <4>1
      <4>2. CASE i # D
        <5>1. i \in 0..(D - 1)
          BY <1>1, <4>2
        <5> QED BY <2>1, <5>1
      <4> QED BY <4>1, <4>2
    <3> QED BY <1>l, <3>1
  <2> QED BY <1>8, <2>6, <2>7, <2>8 DEF Waits, Holds, Within
<1> QED BY <1>7, <1>8, <1>9

-----------------------------------------------------------------------------
\* The bytes that are in the kernel, in a direction.
Segment == Positive \X Positive \X Nat

\* A sender whose queue is as it was.
LEMMA QuietBytes ==
    ASSUME NEW s, NEW t, NEW a, NEW d, NEW c, NEW r, NEW b, BytesOK(s, a, c, r, b),
           t.queue = s.queue, t.destroyed = s.destroyed, t.shut = s.shut, t.writable = s.writable,
           d.written = a.written, d.aborted = a.aborted
    PROVE  BytesOK(t, d, c, r, b)
BY DEF BytesOK

\* A sender that is destroyed by its application or by an error.
LEMMA AbortBytes ==
    ASSUME NEW s, NEW t, NEW a \in AppRecord, NEW d \in AppRecord, NEW c \in Seq(Segment), NEW r,
           NEW b \in AppRecord, BytesOK(s, a, c, r, b),
           t.destroyed, ~t.writable, d.written >= a.written, d.aborted
    PROVE  BytesOK(t, d, c, r, b)
<1>1. PICK x \in Nat, y \in Nat, z \in Nat : x = a.written /\ y = d.written /\ z = Len(b.got) + Len(c)
  BY SocketAssumption DEF AppRecord
<1>2. x * WriteSize <= y * WriteSize
  BY <1>1 DEF WriteSize
<1>3. z <= x * WriteSize
  BY <1>1 DEF BytesOK, Arrived
<1>4. z <= y * WriteSize
  BY <1>2, <1>3 DEF WriteSize
<1>5. Arrived(c, b.got, d.written)
  BY <1>1, <1>4 DEF BytesOK, Arrived
<1> QED BY <1>5 DEF BytesOK

\* A sender that has sent all: it is shut down or destroyed.
LEMMA DrainBytes ==
    ASSUME NEW s, NEW t, NEW a, NEW d, NEW c, NEW r, NEW b, BytesOK(s, a, c, r, b),
           ~s.destroyed, DataItems(s.queue) = 0, t.queue = <<>>, ~t.writable,
           d.written = a.written, d.aborted = a.aborted
    PROVE  BytesOK(t, d, c, r, b)
<1>1. ASSUME r.fd # "closed"
      PROVE  Len(b.got) + Len(c) = a.written * WriteSize
  <2>1. Waits(s.queue, Len(b.got) + Len(c), a.written * WriteSize)
    BY <1>1 DEF BytesOK
  <2> QED BY <2>1 DEF Waits, Holds, UpTo
<1>2. DataItems(<<>>) = 0
  BY DEF DataItems
<1>3. \A n : n <= n => Waits(<<>>, n, n)
  BY <1>2 DEF Waits, Holds, Within, UpTo
<1>4. Len(b.got) + Len(c) <= a.written * WriteSize
  BY DEF BytesOK, Arrived
<1> QED BY <1>1, <1>3, <1>4 DEF BytesOK

\* An item is put at the end of a queue, or a string is joined to its last item.
Enqueued(old, new, item) ==
    \/ new = Append(old, item)
    \/ /\ old # <<>>
       /\ new = [old EXCEPT ![Len(old)] = [bytes |-> old[Len(old)].bytes \o item.bytes, str |-> TRUE]]

\* The queue with one write more.
LEMMA EnqueueWaits ==
    ASSUME NEW q \in Seq(QueueItem), NEW v \in Seq(QueueItem), QueueShape(q), DataItems(q) = Len(q),
           NEW item \in QueueItem, NEW k \in Nat, item.bytes = Bytes(k + 1), Enqueued(q, v, item)
    PROVE  /\ QueueShape(v) /\ DataItems(v) >= DataItems(q)
           /\ DataItems(v) = Len(v)
           /\ (v = Append(q, item) => DataItems(v) = DataItems(q) + 1)
           /\ \A n \in Nat : Waits(q, n, k * WriteSize) => Waits(v, n, (k + 1) * WriteSize)
<1>o2. DataItems(q) = Len(q) /\ Len(q) \in Nat /\ QueueShape(q)
  OBVIOUS
<1>o4. PICK bytes \in Seq(Positive \X Positive) : bytes = item.bytes
  BY DEF QueueItem
<1>o5. /\ Len(bytes) = 2 /\ bytes # <<>>
       /\ \A j \in 1..Len(bytes) : bytes[j] = ByteAt(k * WriteSize + j)
  <2>1. bytes = Bytes(k + 1)
    BY <1>o4
  <2>2. Len(bytes) = 2
    BY <2>1, BytesOfWrite DEF WriteSize
  <2>e. Len(bytes) \in Nat \ {0}
    BY <2>2
  <2>3. bytes # <<>>
    BY <2>e
  <2> QED BY <2>1, <2>2, <2>3, BytesOfWrite DEF WriteSize
<1>0. k * WriteSize \in Nat /\ k * WriteSize + Len(bytes) = (k + 1) * WriteSize
  BY <1>o5 DEF WriteSize
<1>1. CASE v = Append(q, item)
  <2>1. Len(v) = Len(q) + 1 /\ (\A i \in 1..Len(q) : v[i] = q[i]) /\ v[Len(v)] = item
    BY <1>1
  <2>2. v[Len(v)].bytes = bytes /\ v[Len(v)].bytes # <<>>
    BY <1>o4, <1>o5, <2>1
  <2>3. /\ QueueShape(v) /\ DataItems(v) = Len(q) + 1
        /\ \A n, m \in Nat :
             Waits(q, n, m) /\ (\A j \in 1..Len(v[Len(v)].bytes) : v[Len(v)].bytes[j] = ByteAt(m + j))
               => Waits(v, n, m + Len(v[Len(v)].bytes))
    BY <1>o2, <2>1, <2>2, WaitsAppend
  <2>4. \A n, m \in Nat :
             Waits(q, n, m) /\ (\A j \in 1..Len(bytes) : bytes[j] = ByteAt(m + j)) => Waits(v, n, m + Len(bytes))
    BY <2>2, <2>3
  <2>5. \A n \in Nat : Waits(q, n, k * WriteSize) => Waits(v, n, (k + 1) * WriteSize)
    BY <1>o5, <1>0, <2>4
  <2> QED BY <1>o2, <2>1, <2>3, <2>5
<1>2. CASE /\ q # <<>>
           /\ v = [q EXCEPT ![Len(q)] = [bytes |-> q[Len(q)].bytes \o item.bytes, str |-> TRUE]]
  <2>0. PICK x : x = [bytes |-> q[Len(q)].bytes \o item.bytes, str |-> TRUE]
    OBVIOUS
  <2>x. x.bytes = q[Len(q)].bytes \o bytes
    BY <1>o4, <2>0
  <2>1. /\ Len(v) = Len(q) /\ (\A i \in 1..(Len(q) - 1) : v[i] = q[i]) /\ Len(q) \in Nat \ {0}
        /\ v[Len(q)] = x
    <3>1. v = [q EXCEPT ![Len(q)] = x] /\ q # <<>>
      BY <1>2, <2>0
    <3> QED BY <3>1, LastReplaced
  <2>2. v[Len(q)].bytes = q[Len(q)].bytes \o bytes
    BY <2>x, <2>1
  <2>3. /\ QueueShape(v) /\ DataItems(v) = Len(q)
        /\ \A n, m \in Nat :
             Waits(q, n, m) /\ (\A j \in 1..Len(bytes) : bytes[j] = ByteAt(m + j)) => Waits(v, n, m + Len(bytes))
    BY <1>o2, <1>o5, <1>2, <2>1, <2>2, WaitsJoin
  <2>4. \A n \in Nat : Waits(q, n, k * WriteSize) => Waits(v, n, (k + 1) * WriteSize)
    BY <1>o5, <1>0, <2>3
  <2>5. v # Append(q, item)
    BY <2>1
  <2> QED BY <1>o2, <2>1, <2>3, <2>4, <2>5
<1> QED BY <1>1, <1>2 DEF Enqueued

\* A write waits in the queue.
LEMMA EnqueueBytes ==
    ASSUME NEW s \in SocketRecord, NEW t \in SocketRecord, NEW a \in AppRecord, NEW d \in AppRecord,
           NEW c \in Seq(Segment), NEW r, NEW b \in AppRecord, BytesOK(s, a, c, r, b),
           QueueShape(s.queue), ~EndIsQueued(s), s.writable, ~s.shut, ~s.destroyed,
           t.writable, ~t.shut, ~t.destroyed,
           d.written = a.written + 1, d.aborted = a.aborted,
           NEW item \in QueueItem, item.bytes = Bytes(d.written),
           Enqueued(s.queue, t.queue, item)
    PROVE  BytesOK(t, d, c, r, b) /\ QueueShape(t.queue) /\ DataItems(t.queue) >= DataItems(s.queue)
             /\ DataItems(t.queue) = Len(t.queue)
             /\ (t.queue = Append(s.queue, item) => DataItems(t.queue) = DataItems(s.queue) + 1)
<1>1. PICK q \in Seq(QueueItem), v \in Seq(QueueItem) : q = s.queue /\ v = t.queue
  BY DEF SocketRecord
<1>2. DataItems(q) = Len(q) /\ Len(q) \in Nat /\ QueueShape(q)
  BY <1>1 DEF DataItems, EndIsQueued
<1>3. PICK k \in Nat : k = a.written
  BY SocketAssumption DEF AppRecord
<1>6. /\ QueueShape(v) /\ DataItems(v) >= DataItems(q)
      /\ DataItems(v) = Len(v)
      /\ (v = Append(q, item) => DataItems(v) = DataItems(q) + 1)
      /\ \A n \in Nat : Waits(q, n, k * WriteSize) => Waits(v, n, (k + 1) * WriteSize)
  BY <1>1, <1>2, <1>3, EnqueueWaits
<1>7. PICK z \in Nat : z = Len(b.got) + Len(c)
  BY DEF AppRecord
<1>8. z <= k * WriteSize
  BY <1>3, <1>7 DEF BytesOK, Arrived
<1>9. z <= (k + 1) * WriteSize
  BY <1>8 DEF WriteSize
<1>10. Arrived(c, b.got, d.written)
  BY <1>3, <1>7, <1>9 DEF BytesOK, Arrived
<1>11. r.fd # "closed" => Waits(v, z, (k + 1) * WriteSize)
  BY <1>1, <1>3, <1>6, <1>7 DEF BytesOK
<1> QED BY <1>1, <1>3, <1>6, <1>7, <1>10, <1>11 DEF BytesOK

\* The end waits in the queue.
LEMMA EndBytes ==
    ASSUME NEW s \in SocketRecord, NEW t \in SocketRecord, NEW a \in AppRecord, NEW d \in AppRecord,
           NEW c \in Seq(Segment), NEW r, NEW b \in AppRecord, BytesOK(s, a, c, r, b),
           QueueShape(s.queue), ~EndIsQueued(s), t.queue = Append(s.queue, END_OF_FILE),
           t.destroyed = s.destroyed, t.shut = s.shut, t.writable = s.writable,
           d.written = a.written, d.aborted = a.aborted
    PROVE  BytesOK(t, d, c, r, b) /\ QueueShape(t.queue) /\ DataItems(t.queue) = DataItems(s.queue)
<1>1. PICK q \in Seq(QueueItem), v \in Seq(QueueItem) : q = s.queue /\ v = t.queue
  BY DEF SocketRecord
<1>2. DataItems(q) = Len(q) /\ QueueShape(q)
  BY <1>1 DEF DataItems, EndIsQueued
<1>3. Len(v) = Len(q) + 1 /\ (\A i \in 1..Len(q) : v[i] = q[i]) /\ v[Len(v)] = END_OF_FILE
  <2>1. PICK x \in QueueItem : x = END_OF_FILE
    BY EndIsItem
  <2>2. v = Append(q, x)
    BY <1>1, <2>1
  <2>3. Len(v) = Len(q) + 1 /\ (\A i \in 1..Len(q) : v[i] = q[i]) /\ v[Len(q) + 1] = x
    BY <2>2, Appended
  <2> QED BY <2>1, <2>3
<1>4. /\ QueueShape(v) /\ DataItems(v) = Len(q)
      /\ \A n, m \in Nat : Waits(q, n, m) => Waits(v, n, m)
  BY <1>2, <1>3, WaitsEnd
<1>w. a.written \in Nat /\ b.got \in Seq(Positive \X Positive)
  BY SocketAssumption DEF AppRecord
<1>g. Len(b.got) \in Nat /\ Len(c) \in Nat
  BY <1>w
<1>5. PICK z \in Nat, m \in Nat : z = Len(b.got) + Len(c) /\ m = a.written * WriteSize
  BY <1>w, <1>g DEF WriteSize
<1>6. Waits(q, z, m) => Waits(v, z, m)
  BY <1>4
<1> QED BY <1>1, <1>2, <1>4, <1>5, <1>6 DEF BytesOK

\* A queue v is a queue q without the first k bytes of its head.
Shortened(q, v, k) ==
    \/ k = Len(q[1].bytes) /\ Len(v) = Len(q) - 1 /\ \A i \in 1..Len(v) : v[i] = q[i + 1]
    \/ /\ k < Len(q[1].bytes) /\ Len(v) = Len(q)
       /\ \A i \in 2..Len(q) : v[i] = q[i]
       /\ v[1].bytes = SubSeq(q[1].bytes, k + 1, Len(q[1].bytes)) /\ ~v[1].str

\* The kernel has taken k bytes.
KernelTook(c, e, bytes, k) ==
    /\ Len(e) = Len(c) + k
    /\ \A i \in 1..Len(c) : e[i] = c[i]
    /\ \A i \in 1..k : <<e[Len(c) + i][1], e[Len(c) + i][2]>> = bytes[i]

\* A queue that is shortened holds what follows.
LEMMA ShortenedWaits ==
    ASSUME NEW q \in Seq(QueueItem), NEW v \in Seq(QueueItem), QueueShape(q), q # <<>>, q[1] # END_OF_FILE,
           NEW k \in Nat, Shortened(q, v, k)
    PROVE  /\ QueueShape(v) /\ DataItems(q) \in Nat /\ DataItems(v) = IF k = Len(q[1].bytes) THEN DataItems(q) - 1 ELSE DataItems(q)
           /\ k <= Len(q[1].bytes)
           /\ \A n, m \in Nat : Waits(q, n, m) => Waits(v, n + k, m) /\ n + Len(q[1].bytes) <= m
<1>0. q[1] \in QueueItem
  OBVIOUS
<1>1. PICK l \in Nat : l = Len(q[1].bytes)
  <2>1. q[1].bytes \in Seq(Positive \X Positive)
    BY <1>0 DEF QueueItem
  <2> QED BY <2>1
<1>d. DataItems(q) \in 1..Len(q) /\ Len(q) \in Nat
  BY DataItemsFacts
<1>2. ASSUME NEW n \in Nat, NEW m \in Nat, Waits(q, n, m) PROVE n + l <= m
  <2>1. UpTo(q, 1, n) = UpTo(q, 1 - 1, n) + Len(q[1].bytes)
    BY <1>d, <1>2, UpToFacts DEF Waits
  <2>2. UpTo(q, 1, n) <= m
    BY <1>d, <1>2 DEF Waits, Within
  <2>3. UpTo(q, 0, n) = n
    BY DEF UpTo
  <2> QED BY <1>1, <2>1, <2>2, <2>3
<1>3. CASE k = l
  <2>0. ~(k < Len(q[1].bytes))
    BY <1>1, <1>3
  <2>1. Len(v) = Len(q) - 1 /\ \A i \in 1..Len(v) : v[i] = q[i + 1]
    BY <2>0 DEF Shortened
  <2>2. /\ QueueShape(v) /\ DataItems(v) = DataItems(q) - 1
        /\ \A n, m \in Nat : Waits(q, n, m) => Waits(v, n + Len(q[1].bytes), m)
    BY <2>1, WaitsTail
  <2> QED BY <1>1, <1>d, <1>2, <1>3, <2>2
<1>4. CASE k # l
  <2>1. /\ k < Len(q[1].bytes) /\ Len(v) = Len(q) /\ \A i \in 2..Len(v) : v[i] = q[i]
        /\ v[1].bytes = SubSeq(q[1].bytes, k + 1, Len(q[1].bytes))
    BY <1>1, <1>4 DEF Shortened
  <2>2. /\ QueueShape(v) /\ DataItems(v) = DataItems(q)
        /\ \A n, m \in Nat : Waits(q, n, m) => Waits(v, n + k, m)
    BY <2>1, WaitsRest
  <2> QED BY <1>1, <1>d, <1>2, <1>4, <2>1, <2>2
<1> QED BY <1>3, <1>4

\* Bytes that the kernel takes are the next of the stream.
LEMMA TakenArrive ==
    ASSUME NEW c \in Seq(Segment), NEW e \in Seq(Segment), NEW got \in Seq(Positive \X Positive),
           NEW w \in Nat, NEW bytes, NEW k \in Nat, Arrived(c, got, w), KernelTook(c, e, bytes, k),
           \A i \in 1..k : bytes[i] = ByteAt((Len(got) + Len(c)) + i),
           Len(got) + Len(c) + k <= w * WriteSize
    PROVE  Arrived(e, got, w)
<1>1. PICK g \in Nat, n \in Nat : g = Len(got) /\ n = Len(c)
  OBVIOUS
<1>2. /\ Len(e) = n + k
      /\ \A i \in 1..n : e[i] = c[i]
      /\ \A i \in 1..k : <<e[n + i][1], e[n + i][2]>> = bytes[i]
  BY <1>1 DEF KernelTook
<1>3. \A i \in 1..n : <<c[i][1], c[i][2]>> = ByteAt(g + i)
  BY <1>1 DEF Arrived
<1>4. \A i \in 1..k : bytes[i] = ByteAt((g + n) + i)
  BY <1>1
<1>5. ASSUME NEW i \in 1..(n + k) PROVE <<e[i][1], e[i][2]>> = ByteAt(g + i)
  <2>1. CASE i <= n
    <3>1. i \in 1..n
      BY <2>1
    <3>2. e[i] = c[i]
      BY <1>2, <3>1
    <3> QED BY <1>3, <3>1, <3>2
  <2>2. CASE i > n
    <3>1. PICK j \in 1..k : j = i - n
      BY <2>2
    <3>2. n + j = i /\ (g + n) + j = g + i
      BY <3>1
    <3> QED BY <1>2, <1>4, <3>2
  <2> QED BY <2>1, <2>2
<1>6. g + (n + k) <= w * WriteSize
  BY <1>1 DEF WriteSize
<1> QED BY <1>1, <1>2, <1>5, <1>6 DEF Arrived

\* Bytes go out from the head of the queue.
LEMMA SentBytes ==
    ASSUME NEW s \in SocketRecord, NEW t \in SocketRecord, NEW a \in AppRecord, NEW c \in Seq(Segment),
           NEW e \in Seq(Segment), NEW r, NEW b \in AppRecord, BytesOK(s, a, c, r, b),
           QueueShape(s.queue), s.queue # <<>>, s.queue[1] # END_OF_FILE,
           NEW k \in Nat, Shortened(s.queue, t.queue, k),
           IF r.fd = "closed" THEN e = c ELSE KernelTook(c, e, s.queue[1].bytes, k),
           s.writable, ~s.shut, ~s.destroyed, t.writable, ~t.shut, ~t.destroyed
    PROVE  BytesOK(t, a, e, r, b)
<1>1. PICK q \in Seq(QueueItem), v \in Seq(QueueItem) : q = s.queue /\ v = t.queue
  BY DEF SocketRecord
<1>2. PICK z \in Nat, w \in Nat : z = Len(b.got) + Len(c) /\ w = a.written
  BY SocketAssumption DEF AppRecord
<1>3. w * WriteSize \in Nat /\ Arrived(c, b.got, w)
  BY <1>2 DEF WriteSize, BytesOK
<1>4. CASE r.fd = "closed"
  BY <1>4 DEF BytesOK
<1>5. CASE r.fd # "closed"
  <2>1. Waits(q, z, w * WriteSize)
    BY <1>1, <1>2, <1>5 DEF BytesOK
  <2>2. /\ k <= Len(q[1].bytes) /\ Waits(v, z + k, w * WriteSize) /\ z + Len(q[1].bytes) <= w * WriteSize
        /\ q # <<>> /\ q[1] # END_OF_FILE /\ QueueShape(q)
    BY <1>1, <1>3, <2>1, ShortenedWaits
  <2>3. q[1] \in QueueItem
    BY <2>2
  <2>4. PICK bytes \in Seq(Positive \X Positive) : bytes = q[1].bytes
    BY <2>3 DEF QueueItem
  <2>5. PICK l \in Nat : l = Len(bytes)
    BY <2>4
  <2>6. k <= l /\ z + l <= w * WriteSize
    BY <2>2, <2>4, <2>5
  <2>7. z + k <= w * WriteSize
    BY <1>3, <2>6
  <2>8. \A i \in 1..k : bytes[i] = ByteAt(z + i)
    <3>1. 1 \in 1..DataItems(q)
      BY <2>2, DataItemsFacts
    <3>2. \A j \in DOMAIN bytes : bytes[j] = ByteAt(UpTo(q, 1 - 1, z) + j)
      BY <2>1, <2>4, <3>1 DEF Waits, Holds
    <3>3. UpTo(q, 1 - 1, z) = z
      BY DEF UpTo
    <3>4. \A i \in 1..k : i \in DOMAIN bytes
      BY <2>4, <2>5, <2>6
    <3> QED BY <3>2, <3>3, <3>4
  <2>9. KernelTook(c, e, bytes, k)
    BY <1>1, <1>5, <2>4
  <2>10. b.got \in Seq(Positive \X Positive)
    BY DEF AppRecord
  <2>11. Arrived(e, b.got, w)
    BY <1>2, <1>3, <2>7, <2>8, <2>9, <2>10, TakenArrive
  <2>12. Len(b.got) + Len(e) = z + k
    <3>0. Len(c) \in Nat /\ Len(b.got) \in Nat
      BY <2>10
    <3>1. PICK x \in Nat, y \in Nat : x = Len(c) /\ y = Len(b.got)
      BY <3>0
    <3>2. Len(e) = x + k
      BY <2>9, <3>1 DEF KernelTook
    <3>3. z = y + x
      BY <1>2, <3>1
    <3>4. y + (x + k) = z + k
      BY <3>3
    <3> QED BY <3>1, <3>2, <3>4
  <2> QED BY <1>1, <1>2, <1>5, <2>2, <2>11, <2>12 DEF BytesOK
<1> QED BY <1>4, <1>5

-----------------------------------------------------------------------------
\* A receiver that neither reads nor closes.
LEMMA QuietReceiverBytes ==
    ASSUME NEW s, NEW a, NEW c, NEW r, NEW u, NEW b, NEW h, BytesOK(s, a, c, r, b),
           u.fd = "closed" <=> r.fd = "closed", h.got = b.got, h.sawEnd = b.sawEnd
    PROVE  BytesOK(s, a, c, u, h)
BY DEF BytesOK

\* Nothing is left in the kernel.
LEMMA ArrivedEmpty ==
    ASSUME NEW c \in Seq(Segment), NEW got \in Seq(Positive \X Positive), NEW w \in Nat, Arrived(c, got, w)
    PROVE  Arrived(<<>>, got, w)
<1>1. PICK x \in Nat, y \in Nat : x = Len(got) /\ y = Len(c)
  OBVIOUS
<1>2. x + y <= w * WriteSize
  BY <1>1 DEF Arrived
<1>3. x <= w * WriteSize
  BY <1>2 DEF WriteSize
<1>4. Len(got) + Len(<<>>) <= w * WriteSize
  BY <1>1, <1>3
<1> QED BY <1>4 DEF Arrived

\* A receiver that closes: what it has not read is dropped.
LEMMA CloseBytes ==
    ASSUME NEW s, NEW a \in AppRecord, NEW c \in Seq(Segment), NEW r, NEW u, NEW b \in AppRecord, NEW h,
           BytesOK(s, a, c, r, b), u.fd = "closed", h.got = b.got, h.sawEnd = b.sawEnd
    PROVE  BytesOK(s, a, <<>>, u, h)
<1>1. a.written \in Nat /\ b.got \in Seq(Positive \X Positive)
  BY SocketAssumption DEF AppRecord
<1>2. Arrived(<<>>, b.got, a.written)
  BY <1>1, ArrivedEmpty DEF BytesOK
<1> QED BY <1>2 DEF BytesOK

\* A receiver that finds the end: all that was sent has been read.
LEMMA SawEndBytes ==
    ASSUME NEW s \in SocketRecord, NEW a \in AppRecord, NEW r, NEW u, NEW b \in AppRecord, NEW h,
           BytesOK(s, a, <<>>, r, b), r.fd # "closed", s.shut \/ s.destroyed, ~s.writable,
           h.got = b.got
    PROVE  BytesOK(s, a, <<>>, u, h)
<1>1. PICK x \in Nat : x = Len(b.got)
  BY DEF AppRecord
<1>2. ~a.aborted => Len(b.got) = a.written * WriteSize
  <2>1. ~a.aborted => Len(b.got) + Len(<<>>) = a.written * WriteSize
    BY DEF BytesOK
  <2>2. Len(b.got) + Len(<<>>) = Len(b.got)
    BY <1>1
  <2> QED BY <2>1, <2>2
<1> QED BY <1>2 DEF BytesOK

\* The next n bytes were read.
ReadOn(got, got2, c, n) ==
    /\ Len(got2) = Len(got) + n
    /\ \A i \in 1..Len(got) : got2[i] = got[i]
    /\ \A i \in 1..n : got2[Len(got) + i] = <<c[i][1], c[i][2]>>

\* A receiver reads the next n bytes.
LEMMA ReadBytes ==
    ASSUME NEW s, NEW a \in AppRecord, NEW c \in Seq(Segment), NEW e \in Seq(Segment), NEW r, NEW u,
           NEW b \in AppRecord, NEW h \in AppRecord, BytesOK(s, a, c, r, b),
           r.fd # "closed", u.fd = r.fd, h.sawEnd = b.sawEnd,
           NEW n \in 1..Len(c), e = SubSeq(c, n + 1, Len(c)),
           ReadOn(b.got, h.got, c, n)
    PROVE  BytesOK(s, a, e, u, h)
<1> USE DEF ReadOn
<1>1. a.written \in Nat /\ b.got \in Seq(Positive \X Positive) /\ h.got \in Seq(Positive \X Positive)
  BY SocketAssumption DEF AppRecord
<1>2. Len(b.got) \in Nat /\ Len(c) \in Nat /\ n \in Nat /\ n <= Len(c)
  BY <1>1
<1>3. PICK g \in Nat, l \in Nat, w \in Nat : g = Len(b.got) /\ l = Len(c) /\ w = a.written
  BY <1>1, <1>2
<1>4. n \in 0..l /\ n \in 0..Len(c)
  BY <1>2, <1>3
<1>5. Len(e) = l - n /\ \A j \in 1..(l - n) : e[j] = c[n + j]
  BY <1>3, <1>4, SuffixFacts
<1>6. Len(h.got) = g + n /\ (g + n) + (l - n) = g + l
  BY <1>3, <1>4
<1>7. Len(h.got) + Len(e) = Len(b.got) + Len(c)
  BY <1>3, <1>5, <1>6
<1>8. /\ g + l <= w * WriteSize
      /\ \A i \in 1..g : b.got[i] = ByteAt(i)
      /\ \A i \in 1..l : <<c[i][1], c[i][2]>> = ByteAt(g + i)
  BY <1>3 DEF BytesOK, Arrived
<1>9. ASSUME NEW i \in 1..(g + n) PROVE h.got[i] = ByteAt(i)
  <2>1. CASE i <= g
    <3>1. i \in 1..g
      BY <2>1
    <3> QED BY <1>3, <1>8, <3>1
  <2>2. CASE i > g
    <3>1. PICK j \in 1..n : j = i - g
      BY <2>2
    <3>2. g + j = i /\ j \in 1..l
      BY <1>4, <3>1
    <3>3. h.got[g + j] = <<c[j][1], c[j][2]>>
      BY <1>3
    <3>4. <<c[j][1], c[j][2]>> = ByteAt(g + j)
      BY <1>8, <3>2
    <3> QED BY <3>2, <3>3, <3>4
  <2> QED BY <2>1, <2>2
<1>10. ASSUME NEW i \in 1..(l - n) PROVE <<e[i][1], e[i][2]>> = ByteAt((g + n) + i)
  <2>1. n + i \in 1..l /\ g + (n + i) = (g + n) + i
    BY <1>4
  <2>2. <<c[n + i][1], c[n + i][2]>> = ByteAt(g + (n + i))
    BY <1>8, <2>1
  <2>3. e[i] = c[n + i]
    BY <1>5
  <2> QED BY <2>1, <2>2, <2>3
<1>11. Arrived(e, h.got, w)
  BY <1>3, <1>5, <1>6, <1>7, <1>8, <1>9, <1>10 DEF Arrived
<1>12. b.sawEnd /\ ~a.aborted => Len(h.got) = a.written * WriteSize
  <2>1. SUFFICES ASSUME b.sawEnd /\ ~a.aborted PROVE FALSE
    OBVIOUS
  <2>2. g = w * WriteSize
    BY <1>3, <2>1 DEF BytesOK
  <2> QED BY <1>3, <1>4, <1>8, <2>2 DEF WriteSize
<1> QED BY <1>3, <1>7, <1>11, <1>12 DEF BytesOK

-----------------------------------------------------------------------------
\* What is in a sequence with one element more.
LEMMA InAppend ==
    ASSUME NEW s \in Seq(Nat), NEW y \in Nat
    PROVE  \A x : In(x, Append(s, y)) <=> In(x, s) \/ x = y
<1>a. Append(s, y) \in Seq(Nat) /\ Len(s) \in Nat
  OBVIOUS
<1>0. PICK v \in Seq(Nat), l \in Nat : v = Append(s, y) /\ l = Len(s)
  BY <1>a
<1>1. Len(v) = l + 1 /\ v[l + 1] = y /\ (\A i \in 1..l : v[i] = s[i])
  BY <1>0, Appended
<1>2. DOMAIN v = 1..(l + 1) /\ DOMAIN s = 1..l
  BY <1>0, <1>1
<1>3. ASSUME NEW x, In(x, v) PROVE In(x, s) \/ x = y
  <2>1. PICK i \in 1..(l + 1) : v[i] = x
    BY <1>2, <1>3 DEF In
  <2>2. CASE i = l + 1
    BY <1>1, <2>1, <2>2
  <2>3. CASE i # l + 1
    <3>1. i \in 1..l
      BY <2>3
    <3> QED BY <1>1, <1>2, <2>1, <3>1 DEF In
  <2> QED BY <2>2, <2>3
<1>4. ASSUME NEW x, In(x, s) PROVE In(x, v)
  <2>1. PICK i \in 1..l : s[i] = x
    BY <1>2, <1>4 DEF In
  <2> QED BY <1>1, <1>2, <2>1 DEF In
<1>5. In(y, v)
  BY <1>1, <1>2 DEF In
<1> QED BY <1>0, <1>3, <1>4, <1>5

\* Elements are in the type.
LEMMA InType == ASSUME NEW s \in Seq(Nat), NEW x, In(x, s) PROVE x \in Nat
BY DEF In

\* Nothing is in the empty sequence.
LEMMA InEmpty == \A x : ~In(x, <<>>)
BY DEF In

\* A descriptor that is sent is behind all others.
LEMMA FdOrderAppend ==
    ASSUME NEW fds \in Seq(Nat), NEW c \in Seq(Nat), NEW f \in Seq(Nat), NEW last \in Nat,
           NEW sent \in Seq(Nat), NEW k \in Nat, FdOrder(fds, c, f, last, sent, k)
    PROVE  /\ FdOrder(Append(fds, k + 1), c, f, last, Append(sent, k + 1), k + 1)
           /\ FdAll(fds, c, f, sent) => FdAll(Append(fds, k + 1), c, f, Append(sent, k + 1))
<1>0. PICK y \in Nat : y = k + 1
  OBVIOUS
<1>1. PICK fds2 \in Seq(Nat), l \in Nat :
        /\ fds2 = Append(fds, y) /\ l = Len(fds)
        /\ DOMAIN fds2 = 1..(l + 1) /\ DOMAIN fds = 1..l
        /\ fds2[l + 1] = y /\ \A i \in 1..l : fds2[i] = fds[i]
  <2>1. /\ Append(fds, y) \in Seq(Nat) /\ Len(fds) \in Nat
        /\ DOMAIN Append(fds, y) = 1..(Len(fds) + 1) /\ DOMAIN fds = 1..Len(fds)
        /\ Append(fds, y)[Len(fds) + 1] = y /\ \A i \in 1..Len(fds) : Append(fds, y)[i] = fds[i]
    OBVIOUS
  <2> QED BY <2>1
<1>2. PICK sent2 \in Seq(Nat) : sent2 = Append(sent, y)
  BY Appended
<1>3. \A x : In(x, sent2) <=> In(x, sent) \/ x = y
  BY <1>2, InAppend
<1>4. \A x : In(x, fds2) <=> In(x, fds) \/ x = y
  BY <1>1, InAppend
<1>5. \A x : In(x, sent) => x \in 1..k
  BY DEF FdOrder, In
<1>6. \A i \in DOMAIN sent2 : sent2[i] \in 1..y
  <2>1. ASSUME NEW i \in DOMAIN sent2 PROVE sent2[i] \in 1..y
    <3>1. In(sent2[i], sent2)
      BY DEF In
    <3>2. In(sent2[i], sent) \/ sent2[i] = y
      BY <1>3, <3>1
    <3>3. sent2[i] \in 1..k \/ sent2[i] = y
      BY <1>5, <3>2
    <3> QED BY <1>0, <3>3
  <2> QED BY <2>1
<1>7. \A x \in Nat \ {0} : In(x, fds) \/ In(x, c) \/ In(x, f) => In(x, sent)
  BY DEF FdOrder
<1>8. \A x \in Nat \ {0} : In(x, fds2) \/ In(x, c) \/ In(x, f) => In(x, sent2)
  BY <1>3, <1>4, <1>7
<1>9. \A x \in Nat : In(x, fds) \/ In(x, c) \/ In(x, f) => Before(x, y)
  BY <1>0, <1>5, <1>7 DEF Before
<1>10. ASSUME NEW i \in DOMAIN fds2, NEW j \in DOMAIN fds2, i < j PROVE Before(fds2[i], fds2[j])
  <2>1. i \in 1..l /\ i \in DOMAIN fds /\ fds2[i] = fds[i] /\ fds[i] \in Nat /\ In(fds[i], fds)
    BY <1>1, <1>10 DEF In
  <2>2. CASE j = l + 1
    BY <1>1, <1>9, <2>1, <2>2
  <2>3. CASE j # l + 1
    <3>1. j \in DOMAIN fds /\ fds2[j] = fds[j]
      BY <1>1, <2>3
    <3> QED BY <1>10, <2>1, <3>1 DEF FdOrder
  <2> QED BY <2>2, <2>3
<1>11. \A x, z \in Nat : In(x, c) /\ In(z, fds2) => Before(x, z)
  <2>1. \A x, z \in Nat : In(x, c) /\ In(z, fds) => Before(x, z)
    BY DEF FdOrder
  <2> QED BY <1>4, <1>9, <2>1
<1>12. \A x, z \in Nat : In(x, f) /\ In(z, fds2) => Before(x, z)
  <2>1. \A x, z \in Nat : In(x, f) /\ In(z, fds) => Before(x, z)
    BY DEF FdOrder
  <2> QED BY <1>4, <1>9, <2>1
<1>13. FdOrder(fds2, c, f, last, sent2, y)
  BY <1>6, <1>8, <1>10, <1>11, <1>12 DEF FdOrder
<1>14. FdAll(fds, c, f, sent) => FdAll(fds2, c, f, sent2)
  BY <1>3, <1>4 DEF FdAll
<1> QED BY <1>0, <1>1, <1>2, <1>13, <1>14

\* A write without a descriptor.
LEMMA FdOrderMore ==
    ASSUME NEW fds, NEW c, NEW f, NEW last, NEW sent, NEW k \in Nat, FdOrder(fds, c, f, last, sent, k)
    PROVE  FdOrder(fds, c, f, last, sent, k + 1)
<1>1. \A i \in DOMAIN sent : sent[i] \in 1..k
  BY DEF FdOrder
<1>2. \A i \in DOMAIN sent : sent[i] \in 1..(k + 1)
  BY <1>1
<1> QED BY <1>2 DEF FdOrder

\* The queue or the kernel is emptied.
LEMMA FdOrderNone ==
    ASSUME NEW fds, NEW c, NEW f, NEW last, NEW sent, NEW k, FdOrder(fds, c, f, last, sent, k)
    PROVE  FdOrder(<<>>, c, f, last, sent, k) /\ FdOrder(fds, <<>>, f, last, sent, k)
<1>1. DOMAIN <<>> = {}
  OBVIOUS
<1> QED BY <1>1, InEmpty DEF FdOrder

\* The descriptor that goes with the next item, and those behind it.
NextFd(fds) == IF fds = <<>> THEN 0 ELSE Head(fds)

\* The descriptors after it.
RestFds(fds) == IF fds = <<>> THEN <<>> ELSE Tail(fds)

\* The next descriptor is before the rest.
LEMMA NextFdFirst ==
    ASSUME NEW fds \in Seq(Nat), \A i, j \in DOMAIN fds : i < j => Before(fds[i], fds[j])
    PROVE  /\ NextFd(fds) \in Nat /\ RestFds(fds) \in Seq(Nat)
           /\ \A x : In(x, RestFds(fds)) => In(x, fds) /\ Before(NextFd(fds), x)
           /\ \A x : In(x, fds) => x = NextFd(fds) \/ In(x, RestFds(fds))
           /\ NextFd(fds) # 0 => In(NextFd(fds), fds)
           /\ \A i, j \in DOMAIN RestFds(fds) : i < j => Before(RestFds(fds)[i], RestFds(fds)[j])
           /\ fds # <<>> => Len(RestFds(fds)) = Len(fds) - 1
<1>1. CASE fds = <<>>
  <2>1. NextFd(fds) = 0 /\ RestFds(fds) = <<>> /\ <<>> \in Seq(Nat) /\ DOMAIN <<>> = {}
    BY <1>1 DEF NextFd, RestFds
  <2>2. \A x : ~In(x, fds) /\ ~In(x, RestFds(fds))
    BY <1>1, <2>1, InEmpty
  <2>3. \A i, j \in DOMAIN RestFds(fds) : i < j => Before(RestFds(fds)[i], RestFds(fds)[j])
    BY <2>1
  <2>4. NextFd(fds) \in Nat /\ RestFds(fds) \in Seq(Nat) /\ NextFd(fds) = 0
    BY <2>1
  <2> QED BY <1>1, <2>2, <2>3, <2>4
<1>2. CASE fds # <<>>
  <2>1. PICK fd \in Nat, rest \in Seq(Nat), l \in Nat :
          /\ fd = NextFd(fds) /\ rest = RestFds(fds) /\ fd = fds[1] /\ Len(fds) = l + 1 /\ DOMAIN fds = 1..(l + 1)
          /\ Len(rest) = l /\ DOMAIN rest = 1..l /\ \A i \in 1..l : rest[i] = fds[i + 1]
    <3>1. /\ Head(fds) \in Nat /\ Tail(fds) \in Seq(Nat) /\ Head(fds) = fds[1] /\ Len(fds) \in Nat \ {0}
          /\ Len(Tail(fds)) = Len(fds) - 1 /\ \A i \in 1..(Len(fds) - 1) : Tail(fds)[i] = fds[i + 1]
      BY <1>2, HeadTailProperties
    <3>a. PICK z \in Nat \ {0} : z = Len(fds)
      BY <3>1
    <3>b. z - 1 \in Nat
      OBVIOUS
    <3>2. PICK l \in Nat : l = Len(fds) - 1
      BY <3>a, <3>b
    <3>3. DOMAIN fds = 1..(l + 1) /\ DOMAIN Tail(fds) = 1..l /\ Len(fds) = l + 1
      BY <3>1, <3>2
    <3> QED BY <1>2, <3>1, <3>2, <3>3 DEF NextFd, RestFds
  <2>2. \A i \in 1..l : i + 1 \in 1..(l + 1) /\ 1 < i + 1
    BY <2>1
  <2>3. ASSUME NEW x, In(x, rest) PROVE In(x, fds) /\ Before(fd, x)
    <3>1. PICK i \in 1..l : rest[i] = x
      BY <2>1, <2>3 DEF In
    <3>2. i + 1 \in DOMAIN fds /\ 1 \in DOMAIN fds /\ 1 < i + 1 /\ fds[i + 1] = x
      BY <2>1, <2>2, <3>1
    <3> QED BY <2>1, <3>2 DEF In
  <2>4. ASSUME NEW x, In(x, fds) PROVE x = fd \/ In(x, rest)
    <3>1. PICK i \in 1..(l + 1) : fds[i] = x
      BY <2>1, <2>4 DEF In
    <3>2. CASE i = 1
      BY <2>1, <3>1, <3>2
    <3>3. CASE i # 1
      <4>1. i - 1 \in DOMAIN rest /\ rest[i - 1] = x
        <5>1. i - 1 \in 1..l /\ (i - 1) + 1 = i
          BY <3>3
        <5> QED BY <2>1, <3>1, <5>1
      <4> QED BY <4>1 DEF In
    <3> QED BY <3>2, <3>3
  <2>5. In(fd, fds)
    BY <2>1 DEF In
  <2>6. ASSUME NEW i \in 1..l, NEW j \in 1..l, i < j PROVE Before(rest[i], rest[j])
    <3>1. i + 1 \in DOMAIN fds /\ j + 1 \in DOMAIN fds /\ i + 1 < j + 1
      BY <2>1, <2>2, <2>6
    <3> QED BY <2>1, <3>1
  <2>7. Len(rest) = Len(fds) - 1
    BY <2>1
  <2> QED BY <2>1, <2>3, <2>4, <2>5, <2>6, <2>7
<1> QED BY <1>1, <1>2

\* The descriptor goes out with the first of n bytes.
LEMMA FdOrderSent ==
    ASSUME NEW fds \in Seq(Nat), NEW c \in Seq(Nat), NEW f \in Seq(Nat), NEW last \in Nat,
           NEW sent \in Seq(Nat), NEW k \in Nat, FdOrder(fds, c, f, last, sent, k),
           NEW e \in Seq(Nat), NEW n \in Nat \ {0}, Len(e) = Len(c) + n,
           \A i \in 1..Len(c) : e[i] = c[i],
           \A i \in 1..n : e[Len(c) + i] = IF i = 1 THEN NextFd(fds) ELSE 0
    PROVE  /\ FdOrder(RestFds(fds), e, f, last, sent, k)
           /\ FdAll(fds, c, f, sent) => FdAll(RestFds(fds), e, f, sent)
<1>1. \A i, j \in DOMAIN fds : i < j => Before(fds[i], fds[j])
  BY DEF FdOrder
<1>2. PICK fd \in Nat, rest \in Seq(Nat) :
        /\ fd = NextFd(fds) /\ rest = RestFds(fds)
        /\ \A x : In(x, rest) => In(x, fds) /\ Before(fd, x)
        /\ \A x : In(x, fds) => x = fd \/ In(x, rest)
        /\ fd # 0 => In(fd, fds)
        /\ \A i, j \in DOMAIN rest : i < j => Before(rest[i], rest[j])
  BY <1>1, NextFdFirst
<1>3. PICK l \in Nat : l = Len(c) /\ DOMAIN c = 1..l
  OBVIOUS
<1>4. DOMAIN e = 1..(l + n)
  BY <1>3
<1>5. ASSUME NEW i \in 1..(l + n)
      PROVE  \/ i \in 1..l /\ e[i] = c[i]
             \/ i = l + 1 /\ e[i] = fd
             \/ i > l + 1 /\ e[i] = 0
  <2>1. CASE i <= l
    BY <1>3, <2>1
  <2>2. CASE i > l
    <3>1. PICK j \in 1..n : j = i - l
      BY <2>2
    <3>a. e[l + j] = IF j = 1 THEN fd ELSE 0
      BY <1>2, <1>3
    <3>b. l + j = i
      BY <3>1
    <3>2. l + j = i /\ e[l + j] = IF j = 1 THEN fd ELSE 0
      BY <3>a, <3>b
    <3>3. CASE j = 1
      BY <3>2, <3>3
    <3>4. CASE j # 1
      BY <3>1, <3>2, <3>4
    <3> QED BY <3>3, <3>4
  <2> QED BY <2>1, <2>2
<1>6. e[l + 1] = fd /\ l + 1 \in 1..(l + n)
  BY <1>2, <1>3
<1>7. ASSUME NEW x, In(x, e) PROVE In(x, c) \/ x = fd \/ x = 0
  <2>1. PICK i \in 1..(l + n) : e[i] = x
    BY <1>4, <1>7 DEF In
  <2> QED BY <1>3, <1>5, <2>1 DEF In
<1>8. \A x : In(x, c) => In(x, e)
  <2>1. \A i \in 1..l : i \in 1..(l + n) /\ e[i] = c[i]
    BY <1>3
  <2> QED BY <1>3, <1>4, <2>1 DEF In
<1>9. In(fd, e)
  BY <1>4, <1>6 DEF In
<1>10. \A x \in Nat \ {0} : In(x, rest) \/ In(x, e) \/ In(x, f) => In(x, sent)
  <2>1. \A x \in Nat \ {0} : In(x, fds) \/ In(x, c) \/ In(x, f) => In(x, sent)
    BY DEF FdOrder
  <2> QED BY <1>2, <1>7, <2>1
<1>11. /\ \A x, y \in Nat : In(x, c) /\ In(y, fds) => Before(x, y)
       /\ \A x, y \in Nat : In(x, f) /\ In(y, c) => Before(x, y)
       /\ \A x, y \in Nat : In(x, f) /\ In(y, fds) => Before(x, y)
       /\ \A i, j \in DOMAIN c : i < j => Before(c[i], c[j])
  BY DEF FdOrder
<1>12. \A x : Before(0, x) /\ Before(x, 0)
  BY DEF Before
<1>13. \A x \in Nat : In(x, c) \/ In(x, f) => Before(x, fd)
  BY <1>2, <1>11, <1>12
<1>14. ASSUME NEW i \in DOMAIN e, NEW j \in DOMAIN e, i < j PROVE Before(e[i], e[j])
  <2>1. i \in 1..(l + n) /\ j \in 1..(l + n)
    BY <1>4
  <2>2. CASE e[i] = 0 \/ e[j] = 0
    BY <1>12, <2>2
  <2>3. CASE e[i] # 0 /\ e[j] # 0
    <3>a. ~(i > l + 1) /\ ~(j > l + 1)
      BY <1>5, <2>1, <2>3
    <3>b. i # l + 1
      BY <1>14, <2>1, <3>a
    <3>1. i \in 1..l /\ e[i] = c[i]
      BY <1>5, <2>1, <3>a, <3>b
    <3>2. In(c[i], c) /\ c[i] \in Nat
      BY <1>3, <3>1 DEF In
    <3>3. CASE j = l + 1
      BY <1>6, <1>13, <3>1, <3>2, <3>3
    <3>4. CASE j # l + 1
      <4>1. j \in 1..l /\ e[j] = c[j]
        BY <1>5, <2>1, <2>3, <3>4
      <4> QED BY <1>3, <1>11, <1>14, <3>1, <4>1
    <3> QED BY <3>3, <3>4
  <2> QED BY <2>2, <2>3
<1>15. \A x, y \in Nat : In(x, e) /\ In(y, rest) => Before(x, y)
  BY <1>2, <1>7, <1>11, <1>12
<1>16. \A x, y \in Nat : In(x, f) /\ In(y, e) => Before(x, y)
  BY <1>7, <1>11, <1>12, <1>13
<1>17. \A x, y \in Nat : In(x, f) /\ In(y, rest) => Before(x, y)
  BY <1>2, <1>11
<1>18. FdOrder(rest, e, f, last, sent, k)
  BY <1>2, <1>10, <1>14, <1>15, <1>16, <1>17 DEF FdOrder
<1>19. FdAll(fds, c, f, sent) => FdAll(rest, e, f, sent)
  BY <1>2, <1>8, <1>9 DEF FdAll
<1> QED BY <1>2, <1>18, <1>19

\* No byte went out: the descriptor waits in front of the others.
LEMMA FdOrderBack ==
    ASSUME NEW fds \in Seq(Nat), NEW c, NEW f, NEW last, NEW sent, NEW k, FdOrder(fds, c, f, last, sent, k)
    PROVE  /\ FdOrder(<<NextFd(fds)>> \o RestFds(fds), c, f, last, sent, k)
           /\ FdAll(fds, c, f, sent) => FdAll(<<NextFd(fds)>> \o RestFds(fds), c, f, sent)
<1>1. CASE fds # <<>>
  <2>1. <<NextFd(fds)>> \o RestFds(fds) = fds
    BY <1>1, HeadTailProperties DEF NextFd, RestFds
  <2> QED BY <2>1
<1>2. CASE fds = <<>>
  <2>1. <<NextFd(fds)>> \o RestFds(fds) = <<0>>
    BY <1>2 DEF NextFd, RestFds
  <2>2. \A x : In(x, <<0>>) <=> x = 0
    BY DEF In
  <2>3. DOMAIN <<0>> = {1}
    OBVIOUS
  <2>4. \A x : Before(x, 0)
    BY DEF Before
  <2>5. FdOrder(<<0>>, c, f, last, sent, k)
    BY <1>2, <2>2, <2>3, <2>4, InEmpty DEF FdOrder
  <2>6. FdAll(fds, c, f, sent) => FdAll(<<0>>, c, f, sent)
    BY <1>2, InEmpty DEF FdAll
  <2> QED BY <2>1, <2>5, <2>6
<1> QED BY <1>1, <1>2

\* A descriptor that is not before any other is put at the end.
LEMMA SortedAppend ==
    ASSUME NEW f \in Seq(Nat), NEW y \in Nat, \A i \in DOMAIN f : f[i] <= y,
           \A i, j \in DOMAIN f : i < j => f[i] <= f[j]
    PROVE  /\ \A i, j \in DOMAIN Append(f, y) : i < j => Append(f, y)[i] <= Append(f, y)[j]
           /\ \A i \in DOMAIN Append(f, y) : Append(f, y)[i] <= y
<1>1. PICK g \in Seq(Nat), l \in Nat :
        /\ g = Append(f, y) /\ l = Len(f)
        /\ DOMAIN g = 1..(l + 1) /\ DOMAIN f = 1..l
        /\ g[l + 1] = y /\ \A i \in 1..l : g[i] = f[i]
  <2>1. /\ Append(f, y) \in Seq(Nat) /\ Len(f) \in Nat
        /\ DOMAIN Append(f, y) = 1..(Len(f) + 1) /\ DOMAIN f = 1..Len(f)
        /\ Append(f, y)[Len(f) + 1] = y /\ \A i \in 1..Len(f) : Append(f, y)[i] = f[i]
    OBVIOUS
  <2> QED BY <2>1
<1>2. ASSUME NEW i \in 1..(l + 1) PROVE g[i] <= y
  <2>1. CASE i = l + 1
    BY <1>1, <2>1
  <2>2. CASE i # l + 1
    <3>1. i \in 1..l
      BY <2>2
    <3> QED BY <1>1, <3>1
  <2> QED BY <2>1, <2>2
<1>3. ASSUME NEW i \in 1..(l + 1), NEW j \in 1..(l + 1), i < j PROVE g[i] <= g[j]
  <2>1. CASE j = l + 1
    BY <1>1, <1>2, <2>1
  <2>2. CASE j # l + 1
    <3>1. i \in 1..l /\ j \in 1..l
      BY <1>3, <2>2
    <3> QED BY <1>1, <1>3, <3>1
  <2> QED BY <2>1, <2>2
<1> QED BY <1>1, <1>2, <1>3

\* A descriptor is told once more.
LEMMA FdOrderAgain ==
    ASSUME NEW fds \in Seq(Nat), NEW c \in Seq(Nat), NEW f \in Seq(Nat), NEW last \in Nat \ {0},
           NEW sent \in Seq(Nat), NEW k \in Nat, FdOrder(fds, c, f, last, sent, k)
    PROVE  /\ FdOrder(fds, c, Append(f, last), last, sent, k)
           /\ \A w, v : FdAll(w, v, f, sent) => FdAll(w, v, Append(f, last), sent)
<1>1. PICK g \in Seq(Nat) : g = Append(f, last)
  BY Appended
<1>2. \A x : In(x, g) <=> In(x, f)
  BY <1>1, InAppend DEF FdOrder
<1>3. \A i \in DOMAIN f : f[i] <= last
  BY DEF FdOrder
<1>4. \A i, j \in DOMAIN f : i < j => f[i] <= f[j]
  BY DEF FdOrder
<1>5. /\ \A i, j \in DOMAIN g : i < j => g[i] <= g[j]
      /\ \A i \in DOMAIN g : g[i] <= last
  BY <1>1, <1>3, <1>4, SortedAppend
<1>6. FdOrder(fds, c, g, last, sent, k)
  BY <1>2, <1>5 DEF FdOrder
<1>7. \A w, v : FdAll(w, v, f, sent) => FdAll(w, v, g, sent)
  BY <1>2 DEF FdAll
<1> QED BY <1>1, <1>6, <1>7

\* The descriptor fd, 0 for none, is all that comes with the first n bytes of the kernel.
ComesWith(fd, c, n) ==
    /\ \A i \in 1..n : c[i] = 0 \/ c[i] = fd
    /\ fd # 0 => \E i \in 1..n : c[i] = fd

\* What the application is told.
Told(f, fd) == IF fd = 0 THEN f ELSE Append(f, fd)

\* A sequence e is c, of length l, without its first n elements.
WithoutFirst(c, e, n, l) ==
    /\ n <= l /\ DOMAIN c = 1..l /\ DOMAIN e = 1..(l - n)
    /\ \A i \in 1..(l - n) : e[i] = c[n + i]

\* The first n bytes are read, and the descriptor that comes with them.
LEMMA FdOrderRead ==
    ASSUME NEW fds \in Seq(Nat), NEW c \in Seq(Nat), NEW f \in Seq(Nat), NEW last \in Nat,
           NEW sent \in Seq(Nat), NEW k \in Nat, FdOrder(fds, c, f, last, sent, k),
           NEW e \in Seq(Nat), NEW n \in Nat, NEW l \in Nat, WithoutFirst(c, e, n, l),
           NEW fd \in Nat, ComesWith(fd, c, n)
    PROVE  /\ FdOrder(fds, e, Told(f, fd), fd, sent, k)
           /\ \A w : FdAll(w, c, f, sent) => FdAll(w, e, Told(f, fd), sent)
<1> USE DEF WithoutFirst
<1>0. PICK g : g = Told(f, fd)
  OBVIOUS
<1>1. \A i \in 1..(l - n) : n + i \in DOMAIN c
  <2>1. \A i \in 1..(l - n) : n + i \in 1..l
    OBVIOUS
  <2> QED BY <2>1
<1>2. \A x : In(x, e) => In(x, c)
  BY <1>1 DEF In
<1>3. ASSUME NEW x, In(x, c) PROVE In(x, e) \/ x = 0 \/ x = fd
  <2>1. PICK i \in 1..l : c[i] = x
    BY <1>3 DEF In
  <2>2. CASE i <= n
    <3>1. i \in 1..n
      BY <2>2
    <3> QED BY <2>1, <3>1 DEF ComesWith
  <2>3. CASE i > n
    <3>1. PICK j \in 1..(l - n) : n + j = i
      <4>1. i - n \in 1..(l - n) /\ n + (i - n) = i
        BY <2>3
      <4> QED BY <4>1
    <3> QED BY <2>1, <3>1 DEF In
  <2> QED BY <2>2, <2>3
<1>4. fd # 0 => In(fd, c)
  <2>1. \A i \in 1..n : i \in DOMAIN c
    OBVIOUS
  <2> QED BY <2>1 DEF ComesWith, In
<1>5. /\ \A x \in Nat \ {0} : In(x, fds) \/ In(x, c) \/ In(x, f) => In(x, sent)
      /\ ~In(0, f)
      /\ \A i, j \in DOMAIN f : i < j => f[i] <= f[j]
      /\ \A i, j \in DOMAIN c : i < j => Before(c[i], c[j])
      /\ \A x, y \in Nat : In(x, c) /\ In(y, fds) => Before(x, y)
      /\ \A x, y \in Nat : In(x, f) /\ In(y, c) => Before(x, y)
      /\ \A x, y \in Nat : In(x, f) /\ In(y, fds) => Before(x, y)
  BY DEF FdOrder
<1>6. \A i, j \in DOMAIN e : i < j => Before(e[i], e[j])
  <2>1. ASSUME NEW i \in 1..(l - n), NEW j \in 1..(l - n), i < j PROVE Before(e[i], e[j])
    <3>1. n + i \in DOMAIN c /\ n + j \in DOMAIN c /\ n + i < n + j
      BY <1>1, <2>1
    <3>2. Before(c[n + i], c[n + j])
      BY <1>5, <3>1
    <3> QED BY <3>2
  <2> QED BY <2>1
<1>7. \A x, y \in Nat : In(x, e) /\ In(y, fds) => Before(x, y)
  BY <1>2, <1>5
<1>8. CASE fd = 0
  <2>1. g = f
    BY <1>0, <1>8 DEF Told
  <2>2. FdOrder(fds, e, f, 0, sent, k)
    BY <1>2, <1>5, <1>6, <1>7 DEF FdOrder
  <2>3. \A w : FdAll(w, c, f, sent) => FdAll(w, e, f, sent)
    <3>1. ASSUME NEW w, FdAll(w, c, f, sent), NEW x \in Nat, In(x, sent) PROVE In(x, f) \/ In(x, e) \/ In(x, w)
      <4>1. x # 0
        BY <3>1 DEF FdOrder, In
      <4> QED BY <1>3, <1>8, <3>1, <4>1 DEF FdAll
    <3> QED BY <3>1 DEF FdAll
  <2> QED BY <1>0, <1>8, <2>1, <2>2, <2>3
<1>9. CASE fd # 0
  <2>0. g = Append(f, fd)
    BY <1>0, <1>9 DEF Told
  <2>g. g \in Seq(Nat)
    BY <2>0, Appended
  <2>1. \A x : In(x, g) <=> In(x, f) \/ x = fd
    BY <2>0, InAppend
  <2>2. \A i \in DOMAIN f : f[i] <= fd
    <3>1. ASSUME NEW i \in DOMAIN f PROVE f[i] <= fd
      <4>1. In(f[i], f) /\ f[i] \in Nat
        BY DEF In
      <4>2. Before(f[i], fd) /\ f[i] # 0
        BY <1>4, <1>5, <1>9, <4>1
      <4> QED BY <1>9, <4>1, <4>2 DEF Before
    <3> QED BY <3>1
  <2>3. \A i, j \in DOMAIN f : i < j => f[i] <= f[j]
    BY <1>5
  <2>4. /\ \A i, j \in DOMAIN g : i < j => g[i] <= g[j]
        /\ \A i \in DOMAIN g : g[i] <= fd
    BY <2>0, <2>2, <2>3, SortedAppend
  <2>5. ASSUME NEW y, In(y, e) PROVE Before(fd, y)
    <3>1. PICK j \in 1..(l - n) : e[j] = y
      BY <2>5 DEF In
    <3>2. PICK i \in 1..n : c[i] = fd
      BY <1>9 DEF ComesWith
    <3>3. i \in DOMAIN c /\ n + j \in DOMAIN c /\ i < n + j
      OBVIOUS
    <3>4. Before(c[i], c[n + j])
      BY <1>5, <3>3
    <3> QED BY <3>1, <3>2, <3>4
  <2>6. \A x, y \in Nat : In(x, g) /\ In(y, e) => Before(x, y)
    BY <1>2, <1>5, <2>1, <2>5
  <2>7. \A x, y \in Nat : In(x, g) /\ In(y, fds) => Before(x, y)
    BY <1>4, <1>5, <1>9, <2>1
  <2>8. \A x \in Nat \ {0} : In(x, fds) \/ In(x, e) \/ In(x, g) => In(x, sent)
    BY <1>2, <1>4, <1>5, <1>9, <2>1
  <2>9. ~In(0, g) /\ In(fd, g)
    BY <1>5, <1>9, <2>1
  <2>10. FdOrder(fds, e, g, fd, sent, k)
    BY <1>5, <1>6, <1>7, <2>4, <2>6, <2>7, <2>8, <2>9 DEF FdOrder
  <2>11. \A w : FdAll(w, c, f, sent) => FdAll(w, e, g, sent)
    <3>1. ASSUME NEW w, FdAll(w, c, f, sent), NEW x \in Nat, In(x, sent) PROVE In(x, g) \/ In(x, e) \/ In(x, w)
      <4>1. x # 0
        BY <3>1 DEF FdOrder, In
      <4> QED BY <1>3, <2>1, <3>1, <4>1 DEF FdAll
    <3> QED BY <3>1 DEF FdAll
  <2> QED BY <1>0, <2>10, <2>11
<1> QED BY <1>8, <1>9

-----------------------------------------------------------------------------
\* The descriptors of the bytes in the kernel.
LEMMA FdsOfFacts ==
    ASSUME NEW c \in Seq(Segment)
    PROVE  /\ FdsOf(c) \in Seq(Nat) /\ Len(FdsOf(c)) = Len(c) /\ DOMAIN FdsOf(c) = 1..Len(c)
           /\ Len(c) \in Nat /\ \A i \in 1..Len(c) : FdsOf(c)[i] = c[i][3]
<1>1. DOMAIN c = 1..Len(c) /\ Len(c) \in Nat
  OBVIOUS
<1>2. \A i \in 1..Len(c) : c[i] \in Segment
  OBVIOUS
<1>3. \A i \in 1..Len(c) : c[i][3] \in Nat
  BY <1>2 DEF Segment
<1>4. PICK n \in Nat : n = Len(c)
  BY <1>1
<1>5. FdsOf(c) = [i \in 1..n |-> c[i][3]]
  BY <1>1, <1>4 DEF FdsOf
<1>6. FdsOf(c) \in [1..n -> Nat]
  BY <1>3, <1>4, <1>5
<1>7. FdsOf(c) \in Seq(Nat) /\ Len(FdsOf(c)) = n /\ DOMAIN FdsOf(c) = 1..n
  BY <1>6, SequenceOf
<1>8. \A i \in 1..n : FdsOf(c)[i] = c[i][3]
  BY <1>5
<1> QED BY <1>4, <1>7, <1>8

\* The kernel is empty.
LEMMA FdsOfNone == FdsOf(<<>>) = <<>>
BY DEF FdsOf

\* A sender that does nothing about descriptors.
LEMMA QuietFds ==
    ASSUME NEW type, NEW s, NEW t, NEW a, NEW d, NEW c, NEW r, NEW b, FdsOK(type, s, a, c, r, b),
           t.fds = s.fds, t.destroyed = s.destroyed, t.shut = s.shut,
           d.written = a.written, d.sent = a.sent, d.aborted = a.aborted
    PROVE  FdsOK(type, t, d, c, r, b)
BY DEF FdsOK

\* A sender that is destroyed by its application or by an error.
LEMMA AbortFds ==
    ASSUME NEW type, NEW s, NEW t, NEW a \in AppRecord, NEW d, NEW c, NEW r, NEW b, FdsOK(type, s, a, c, r, b),
           t.fds = <<>>, t.destroyed, d.aborted, d.sent = a.sent,
           d.written = a.written \/ d.written = a.written + 1
    PROVE  FdsOK(type, t, d, c, r, b)
<1>1. a.written \in Nat
  BY SocketAssumption DEF AppRecord
<1>2. FdOrder(<<>>, FdsOf(c), b.fds, r.recvFd, a.sent, a.written)
  BY FdOrderNone DEF FdsOK
<1>3. FdOrder(<<>>, FdsOf(c), b.fds, r.recvFd, a.sent, a.written + 1)
  BY <1>1, <1>2, FdOrderMore
<1>4. FdOrder(<<>>, FdsOf(c), b.fds, r.recvFd, d.sent, d.written)
  BY <1>2, <1>3
<1> QED BY <1>4 DEF FdsOK

\* A sender that has sent all: it is shut down or destroyed.
LEMMA DrainFds ==
    ASSUME NEW type, NEW s, NEW t, NEW a, NEW d, NEW c, NEW r, NEW b, FdsOK(type, s, a, c, r, b),
           ~s.destroyed, s.fds = <<>>, t.fds = <<>>,
           d.written = a.written, d.sent = a.sent, d.aborted = a.aborted
    PROVE  FdsOK(type, t, d, c, r, b)
BY DEF FdsOK

\* A write waits in the queue, with or without a descriptor.
LEMMA EnqueueFds ==
    ASSUME NEW type, NEW s \in SocketRecord, NEW t, NEW a \in AppRecord, NEW d, NEW c \in Seq(Segment),
           NEW r \in SocketRecord, NEW b \in AppRecord, FdsOK(type, s, a, c, r, b),
           ~s.destroyed, ~t.destroyed, ~t.shut, ~b.sawEnd, d.aborted = a.aborted,
           d.written = a.written + 1, NEW fd, fd = 0 \/ (fd = d.written /\ type = "unix"),
           t.fds = Told(s.fds, fd), d.sent = Told(a.sent, fd)
    PROVE  FdsOK(type, t, d, c, r, b)
<1>1. a.written \in Nat /\ a.sent \in Seq(Nat) /\ b.fds \in Seq(Nat) /\ s.fds \in Seq(Nat) /\ r.recvFd \in Nat
  BY SocketAssumption DEF AppRecord, SocketRecord
<1>2. FdsOf(c) \in Seq(Nat)
  BY FdsOfFacts
<1>3. FdOrder(s.fds, FdsOf(c), b.fds, r.recvFd, a.sent, a.written)
  BY DEF FdsOK
<1>4. CASE fd = 0
  <2>1. t.fds = s.fds /\ d.sent = a.sent
    BY <1>4 DEF Told
  <2>2. FdOrder(s.fds, FdsOf(c), b.fds, r.recvFd, a.sent, a.written + 1)
    BY <1>1, <1>3, FdOrderMore
  <2> QED BY <2>1, <2>2 DEF FdsOK
<1>5. CASE fd # 0
  <2>0. fd = a.written + 1 /\ type = "unix"
    BY <1>5
  <2>1. t.fds = Append(s.fds, a.written + 1) /\ d.sent = Append(a.sent, a.written + 1)
    BY <1>5, <2>0 DEF Told
  <2>2. /\ FdOrder(Append(s.fds, a.written + 1), FdsOf(c), b.fds, r.recvFd, Append(a.sent, a.written + 1), a.written + 1)
        /\ FdAll(s.fds, FdsOf(c), b.fds, a.sent) =>
             FdAll(Append(s.fds, a.written + 1), FdsOf(c), b.fds, Append(a.sent, a.written + 1))
    BY <1>1, <1>2, <1>3, FdOrderAppend
  <2>3. FdOrder(t.fds, FdsOf(c), b.fds, r.recvFd, d.sent, d.written)
    BY <2>1, <2>2
  <2>4. r.fd # "closed" => FdAll(t.fds, FdsOf(c), b.fds, d.sent)
    BY <2>1, <2>2 DEF FdsOK
  <2> QED BY <2>0, <2>3, <2>4 DEF FdsOK
<1> QED BY <1>4, <1>5

\* The next descriptor is dropped with the bytes that an end that is gone does not get.
LEMMA FdOrderRest ==
    ASSUME NEW fds \in Seq(Nat), NEW c, NEW f, NEW last, NEW sent, NEW k, FdOrder(fds, c, f, last, sent, k)
    PROVE  FdOrder(RestFds(fds), c, f, last, sent, k)
<1>1. \A i, j \in DOMAIN fds : i < j => Before(fds[i], fds[j])
  BY DEF FdOrder
<1>2. PICK rest \in Seq(Nat) :
        /\ rest = RestFds(fds)
        /\ \A x : In(x, rest) => In(x, fds)
        /\ \A i, j \in DOMAIN rest : i < j => Before(rest[i], rest[j])
  BY <1>1, NextFdFirst
<1>3. FdOrder(rest, c, f, last, sent, k)
  BY <1>2 DEF FdOrder
<1> QED BY <1>2, <1>3

\* The descriptors that wait after k bytes of the head went out.
LeftFds(fds, k) == IF k = 0 THEN <<NextFd(fds)>> \o RestFds(fds) ELSE RestFds(fds)

\* The descriptor that goes out with the head.
FdWith(type, s) == IF type = "unix" THEN NextFd(s.fds) ELSE 0

\* The descriptor that the kernel has taken with k bytes.
KernelTookFd(c, e, fd, k) ==
    /\ Len(e) = Len(c) + k
    /\ \A i \in 1..Len(c) : e[i] = c[i]
    /\ \A i \in 1..k : e[Len(c) + i][3] = IF i = 1 THEN fd ELSE 0

\* Bytes go out from the head of the queue, with the next descriptor on a UNIX socket.
LEMMA SentFds ==
    ASSUME NEW type, NEW s \in SocketRecord, NEW t, NEW a \in AppRecord, NEW c \in Seq(Segment), NEW e \in Seq(Segment),
           NEW r \in SocketRecord, NEW b \in AppRecord, FdsOK(type, s, a, c, r, b),
           ~s.destroyed, ~t.destroyed, ~t.shut, ~b.sawEnd, NEW k \in Nat, t.fds = LeftFds(s.fds, k),
           (r.fd = "closed" /\ e = c)
             \/ (r.fd # "closed" /\ KernelTookFd(c, e, FdWith(type, s), k))
    PROVE  FdsOK(type, t, a, e, r, b)
<1>1. a.written \in Nat /\ a.sent \in Seq(Nat) /\ b.fds \in Seq(Nat) /\ s.fds \in Seq(Nat) /\ r.recvFd \in Nat
  BY SocketAssumption DEF AppRecord, SocketRecord
<1>2. /\ FdsOf(c) \in Seq(Nat) /\ Len(FdsOf(c)) = Len(c) /\ Len(c) \in Nat /\ \A i \in 1..Len(c) : FdsOf(c)[i] = c[i][3]
      /\ FdsOf(e) \in Seq(Nat) /\ Len(FdsOf(e)) = Len(e) /\ Len(e) \in Nat /\ \A i \in 1..Len(e) : FdsOf(e)[i] = e[i][3]
  BY FdsOfFacts
<1>3. FdOrder(s.fds, FdsOf(c), b.fds, r.recvFd, a.sent, a.written)
  BY DEF FdsOK
<1>4. CASE k = 0
  <2>1. t.fds = <<NextFd(s.fds)>> \o RestFds(s.fds)
    BY <1>4 DEF LeftFds
  <2>2. FdsOf(e) = FdsOf(c)
    <3>1. CASE r.fd = "closed"
      BY <3>1
    <3>2. CASE r.fd # "closed"
      <4>1. Len(e) = Len(c) /\ \A i \in 1..Len(c) : e[i] = c[i]
        BY <1>2, <1>4, <3>2 DEF KernelTookFd
      <4>2. e = c
        BY <4>1
      <4> QED BY <4>2
    <3> QED BY <3>1, <3>2
  <2>3. /\ FdOrder(t.fds, FdsOf(e), b.fds, r.recvFd, a.sent, a.written)
        /\ FdAll(s.fds, FdsOf(c), b.fds, a.sent) => FdAll(t.fds, FdsOf(e), b.fds, a.sent)
    BY <1>1, <1>3, <2>1, <2>2, FdOrderBack
  <2> QED BY <2>3 DEF FdsOK
<1>5. CASE k # 0
  <2>1. t.fds = RestFds(s.fds)
    BY <1>5 DEF LeftFds
  <2>2. CASE r.fd = "closed"
    <3>1. FdOrder(t.fds, FdsOf(e), b.fds, r.recvFd, a.sent, a.written)
      BY <1>1, <1>3, <2>1, <2>2, FdOrderRest
    <3> QED BY <2>2, <3>1 DEF FdsOK
  <2>3. CASE r.fd # "closed"
    <3>1. type # "unix" => NextFd(s.fds) = 0
      <4>1. \A i, j \in DOMAIN s.fds : i < j => Before(s.fds[i], s.fds[j])
        BY <1>3 DEF FdOrder
      <4>2. NextFd(s.fds) \in Nat /\ (NextFd(s.fds) # 0 => In(NextFd(s.fds), s.fds))
        BY <1>1, <4>1, NextFdFirst
      <4>3. NextFd(s.fds) # 0 => In(NextFd(s.fds), a.sent)
        BY <1>3, <4>2 DEF FdOrder
      <4> QED BY <4>3, InEmpty DEF FdsOK
    <3>2. KernelTookFd(c, e, NextFd(s.fds), k)
      BY <2>3, <3>1 DEF FdWith
    <3>3. PICK l \in Nat : l = Len(c)
      BY <1>2
    <3>4. /\ Len(e) = l + k /\ \A i \in 1..l : e[i] = c[i]
          /\ \A i \in 1..k : e[l + i][3] = IF i = 1 THEN NextFd(s.fds) ELSE 0
      BY <3>2, <3>3 DEF KernelTookFd
    <3>5. \A i \in 1..l : FdsOf(e)[i] = FdsOf(c)[i]
      <4>1. \A i \in 1..l : i \in 1..(l + k)
        OBVIOUS
      <4>2. \A i \in 1..l : FdsOf(e)[i] = e[i][3]
        BY <1>2, <3>4, <4>1
      <4>3. \A i \in 1..l : FdsOf(c)[i] = c[i][3]
        BY <1>2, <3>3
      <4> QED BY <3>4, <4>2, <4>3
    <3>6. \A i \in 1..k : FdsOf(e)[l + i] = IF i = 1 THEN NextFd(s.fds) ELSE 0
      <4>1. \A i \in 1..k : l + i \in 1..(l + k)
        OBVIOUS
      <4>2. \A i \in 1..k : FdsOf(e)[l + i] = e[l + i][3]
        BY <1>2, <3>4, <4>1
      <4> QED BY <3>4, <4>2
    <3>7. Len(FdsOf(e)) = Len(FdsOf(c)) + k /\ Len(FdsOf(c)) = l
      BY <1>2, <3>3, <3>4
    <3>8. /\ FdOrder(RestFds(s.fds), FdsOf(e), b.fds, r.recvFd, a.sent, a.written)
          /\ FdAll(s.fds, FdsOf(c), b.fds, a.sent) => FdAll(RestFds(s.fds), FdsOf(e), b.fds, a.sent)
      <4>0. k \in Nat \ {0}
        BY <1>5
      <4>1. PICK v \in Seq(Nat), w \in Seq(Nat), fds \in Seq(Nat) : v = FdsOf(c) /\ w = FdsOf(e) /\ fds = s.fds
        BY <1>1, <1>2
      <4>2. /\ Len(w) = Len(v) + k /\ \A i \in 1..Len(v) : w[i] = v[i]
            /\ \A i \in 1..k : w[Len(v) + i] = IF i = 1 THEN NextFd(fds) ELSE 0
        BY <3>5, <3>6, <3>7, <4>1
      <4>3. FdOrder(fds, v, b.fds, r.recvFd, a.sent, a.written)
        BY <1>3, <4>1
      <4>4. /\ FdOrder(RestFds(fds), w, b.fds, r.recvFd, a.sent, a.written)
            /\ FdAll(fds, v, b.fds, a.sent) => FdAll(RestFds(fds), w, b.fds, a.sent)
        BY <1>1, <4>0, <4>2, <4>3, FdOrderSent
      <4> QED BY <4>1, <4>4
    <3> QED BY <2>1, <2>3, <3>8 DEF FdsOK
  <2> QED BY <2>2, <2>3
<1> QED BY <1>4, <1>5

\* A receiver that neither reads nor closes.
LEMMA QuietReceiverFds ==
    ASSUME NEW type, NEW s, NEW a, NEW c, NEW r, NEW u, NEW b, NEW h, FdsOK(type, s, a, c, r, b),
           u.fd = "closed" <=> r.fd = "closed", u.recvFd = r.recvFd, h.fds = b.fds, h.sawEnd = b.sawEnd
    PROVE  FdsOK(type, s, a, c, u, h)
BY DEF FdsOK

\* A receiver that closes.
LEMMA CloseFds ==
    ASSUME NEW type, NEW s, NEW a, NEW c, NEW r, NEW u, NEW b, NEW h, FdsOK(type, s, a, c, r, b),
           u.fd = "closed", u.recvFd = r.recvFd, h.fds = b.fds, h.sawEnd = b.sawEnd
    PROVE  FdsOK(type, s, a, <<>>, u, h)
<1>1. FdOrder(s.fds, FdsOf(<<>>), b.fds, r.recvFd, a.sent, a.written)
  BY FdOrderNone, FdsOfNone DEF FdsOK
<1> QED BY <1>1 DEF FdsOK

\* A receiver that finds the end.
LEMMA SawEndFds ==
    ASSUME NEW type, NEW s, NEW a, NEW r, NEW u, NEW b, NEW h, FdsOK(type, s, a, <<>>, r, b),
           r.fd # "closed", u.recvFd = r.recvFd, h.fds = b.fds, s.shut \/ s.destroyed
    PROVE  FdsOK(type, s, a, <<>>, u, h)
BY FdsOfNone DEF FdsOK

\* A receiver that is told a descriptor once more.
LEMMA AgainFds ==
    ASSUME NEW type, NEW s \in SocketRecord, NEW a \in AppRecord, NEW c \in Seq(Segment), NEW r \in SocketRecord,
           NEW b \in AppRecord, NEW h, FdsOK(type, s, a, c, r, b),
           r.recvFd # 0, h.fds = Append(b.fds, r.recvFd), h.sawEnd = b.sawEnd
    PROVE  FdsOK(type, s, a, c, r, h)
<1>1. a.written \in Nat /\ a.sent \in Seq(Nat) /\ b.fds \in Seq(Nat) /\ s.fds \in Seq(Nat) /\ r.recvFd \in Nat \ {0}
  BY SocketAssumption DEF AppRecord, SocketRecord
<1>2. FdsOf(c) \in Seq(Nat)
  BY FdsOfFacts
<1>3. FdOrder(s.fds, FdsOf(c), b.fds, r.recvFd, a.sent, a.written)
  BY DEF FdsOK
<1>4. /\ FdOrder(s.fds, FdsOf(c), h.fds, r.recvFd, a.sent, a.written)
      /\ \A w, v : FdAll(w, v, b.fds, a.sent) => FdAll(w, v, h.fds, a.sent)
  BY <1>1, <1>2, <1>3, FdOrderAgain
<1> QED BY <1>4 DEF FdsOK

\* What the application was told stays told.
LEMMA ToldMore ==
    ASSUME NEW f \in Seq(Nat), NEW fd \in Nat, NEW w, NEW v, NEW sent, FdAll(w, v, f, sent)
    PROVE  FdAll(w, v, Told(f, fd), sent)
<1>1. \A x : In(x, f) => In(x, Told(f, fd))
  BY InAppend DEF Told
<1> QED BY <1>1 DEF FdAll

\* A receiver reads the next n bytes and the descriptor with them.
LEMMA ReadFds ==
    ASSUME NEW type, NEW s \in SocketRecord, NEW a \in AppRecord, NEW c \in Seq(Segment), NEW e \in Seq(Segment),
           NEW r \in SocketRecord, NEW u, NEW b \in AppRecord, NEW h, FdsOK(type, s, a, c, r, b),
           NEW n \in 1..Len(c), e = SubSeq(c, n + 1, Len(c)), NEW fd \in Nat, ComesWith(fd, FdsOf(c), n),
           u.fd = r.fd, u.recvFd = fd, h.fds = Told(b.fds, fd), h.sawEnd = b.sawEnd
    PROVE  FdsOK(type, s, a, e, u, h)
<1>1. a.written \in Nat /\ a.sent \in Seq(Nat) /\ b.fds \in Seq(Nat) /\ s.fds \in Seq(Nat) /\ r.recvFd \in Nat
  BY SocketAssumption DEF AppRecord, SocketRecord
<1>2. /\ FdsOf(c) \in Seq(Nat) /\ DOMAIN FdsOf(c) = 1..Len(c) /\ Len(c) \in Nat /\ \A i \in 1..Len(c) : FdsOf(c)[i] = c[i][3]
      /\ FdsOf(e) \in Seq(Nat) /\ DOMAIN FdsOf(e) = 1..Len(e) /\ \A i \in 1..Len(e) : FdsOf(e)[i] = e[i][3]
  BY FdsOfFacts
<1>3. PICK l \in Nat : l = Len(c)
  BY <1>2
<1>4. n \in 0..Len(c) /\ n \in Nat /\ n <= l
  BY <1>3
<1>5. Len(e) = l - n /\ \A i \in 1..(l - n) : e[i] = c[n + i]
  BY <1>3, <1>4, SuffixFacts
<1>6. PICK v \in Seq(Nat), w \in Seq(Nat) : v = FdsOf(c) /\ w = FdsOf(e)
  BY <1>2
<1>7. DOMAIN v = 1..l /\ DOMAIN w = 1..(l - n)
  BY <1>2, <1>3, <1>5, <1>6
<1>8. \A i \in 1..(l - n) : w[i] = v[n + i]
  <2>1. \A i \in 1..(l - n) : n + i \in 1..l
    BY <1>4
  <2>2. \A i \in 1..(l - n) : v[n + i] = c[n + i][3]
    BY <1>2, <1>3, <1>6, <2>1
  <2>3. \A i \in 1..(l - n) : w[i] = e[i][3]
    BY <1>2, <1>5, <1>6
  <2> QED BY <1>5, <2>2, <2>3
<1>9. FdOrder(s.fds, v, b.fds, r.recvFd, a.sent, a.written) /\ ComesWith(fd, v, n)
  BY <1>6 DEF FdsOK
<1>10. /\ FdOrder(s.fds, w, h.fds, fd, a.sent, a.written)
       /\ \A x : FdAll(x, v, b.fds, a.sent) => FdAll(x, w, h.fds, a.sent)
  <2>1. PICK fds \in Seq(Nat), f \in Seq(Nat), last \in Nat, sent \in Seq(Nat), k \in Nat :
          fds = s.fds /\ f = b.fds /\ last = r.recvFd /\ sent = a.sent /\ k = a.written
    BY <1>1
  <2>2. PICK g : g = h.fds /\ g = Told(f, fd)
    BY <2>1
  <2>3. FdOrder(fds, v, f, last, sent, k)
    BY <1>9, <2>1
  <2>4. /\ FdOrder(fds, w, g, fd, sent, k)
        /\ \A x : FdAll(x, v, f, sent) => FdAll(x, w, g, sent)
    <3>1. WithoutFirst(v, w, n, l)
      BY <1>4, <1>7, <1>8 DEF WithoutFirst
    <3>2. ComesWith(fd, v, n) /\ g = Told(f, fd) /\ n \in Nat
      BY <1>4, <1>9, <2>2
    <3> QED BY <2>3, <3>1, <3>2, FdOrderRead
  <2> QED BY <2>1, <2>2, <2>4
<1>11. FdAll(<<>>, <<>>, b.fds, a.sent) => FdAll(<<>>, <<>>, h.fds, a.sent)
  BY <1>1, ToldMore
<1> QED BY <1>6, <1>10, <1>11 DEF FdsOK

-----------------------------------------------------------------------------
\* The direction from an end that is left with the socket s, the application a and the bytes e
\* in the kernel, and the direction to it.
Outgoing(p, s, a, e) ==
    LET q == Other(p) IN
    /\ BytesOK(s, a, e, sock[q], app[q])
    /\ ~sockKind.strings => FdsOK(sockKind.type, s, a, e, sock[q], app[q])

\* With s, a and e for the socket, the application and what is in the kernel for p.
Incoming(p, s, a, e) ==
    LET q == Other(p) IN
    /\ BytesOK(sock[q], app[q], e, s, a)
    /\ ~sockKind.strings => FdsOK(sockKind.type, sock[q], app[q], e, s, a)

\* What the kernel has from and for an end after Becomes.
SentOn(p, out) == IF Gone(Other(p)) THEN chan[p] ELSE chan[p] \o out

\* What the kernel keeps for an end that is left with s.
LeftFor(p, s) == IF s.fd = "closed" THEN <<>> ELSE chan[Other(p)]

\* The ends.
LEMMA Ends ==
    ASSUME NEW p \in End
    PROVE  /\ Other(p) \in End /\ Other(Other(p)) = p /\ Other(p) # p
           /\ \A q \in End : q = p \/ q = Other(p)
BY DEF End, Other

\* What the invariant says of an end.
LEMMA EndFacts ==
    ASSUME SocketInv, NEW p \in End
    PROVE  /\ sock[p] \in SocketRecord /\ app[p] \in AppRecord /\ chan[p] \in Seq(Segment) /\ Len(chan[p]) <= Room
           /\ SockOK(sock[p]) /\ KindOK(sockKind.strings, sock[p])
           /\ Outgoing(p, sock[p], app[p], chan[p]) /\ Incoming(p, sock[p], app[p], chan[Other(p)])
           /\ sock[p].fd = "closed" => chan[Other(p)] = <<>>
<1>1. sock[p] \in SocketRecord /\ app[p] \in AppRecord /\ chan[p] \in Seq(Segment)
  BY DEF SocketInv, SocketTypes, Segment
<1>2. OneWay(p) /\ OneWay(Other(p)) /\ Other(Other(p)) = p
  BY Ends DEF SocketInv
<1>3. Outgoing(p, sock[p], app[p], chan[p])
  BY <1>2 DEF OneWay, Outgoing
<1>4. Incoming(p, sock[p], app[p], chan[Other(p)])
  BY <1>2 DEF OneWay, Incoming
<1>5. sock[p].fd = "closed" => chan[Other(p)] = <<>>
  BY <1>4 DEF Incoming, BytesOK
<1> QED BY <1>1, <1>3, <1>4, <1>5 DEF SocketInv

\* A step of one end keeps the invariant, if it keeps both directions.
LEMMA StepKeeps ==
    ASSUME SocketInv, NEW p \in End, NEW s \in SocketRecord, NEW a \in AppRecord,
           NEW e \in Seq(Segment), NEW h \in Seq(Segment), Len(e) <= Room, Len(h) <= Room,
           sock' = [sock EXCEPT ![p] = s], app' = [app EXCEPT ![p] = a],
           chan' = [chan EXCEPT ![p] = e, ![Other(p)] = h],
           sockKind' = sockKind, resets' \subseteq End, link' \in {"none", "syn", "established", "refused"},
           SockOK(s), KindOK(sockKind.strings, s), Outgoing(p, s, a, e), Incoming(p, s, a, h)
    PROVE  SocketInv'
<1> DEFINE q == Other(p)
<1>1. q \in End /\ Other(q) = p /\ q # p /\ \A o \in End : o = p \/ o = q
  BY Ends
<1>2. sock \in [End -> SocketRecord] /\ app \in [End -> AppRecord] /\ chan \in [End -> Seq(Segment)]
  BY DEF SocketInv, SocketTypes, Segment
<1>3. /\ sock'[p] = s /\ sock'[q] = sock[q] /\ app'[p] = a /\ app'[q] = app[q]
      /\ chan'[p] = e /\ chan'[q] = h
  BY <1>1, <1>2
<1>4. sock' \in [End -> SocketRecord] /\ app' \in [End -> AppRecord]
  BY <1>1, <1>2
<1>5. chan' \in [End -> Seq(Segment)]
  BY <1>1, <1>2
<1>6. SocketTypes'
  BY <1>4, <1>5 DEF SocketInv, SocketTypes, Segment
<1>7. SockOK(sock'[p]) /\ SockOK(sock'[q]) /\ KindOK(sockKind'.strings, sock'[p]) /\ KindOK(sockKind'.strings, sock'[q])
  BY <1>1, <1>3 DEF SocketInv
<1>8. Len(chan'[p]) <= Room /\ Len(chan'[q]) <= Room
  BY <1>3
<1>9. OneWay(p)'
  BY <1>1, <1>3 DEF OneWay, Outgoing
<1>10. OneWay(q)'
  BY <1>1, <1>3 DEF OneWay, Incoming
<1>11. \A o \in End : SockOK(sock'[o]) /\ KindOK(sockKind'.strings, sock'[o]) /\ Len(chan'[o]) <= Room
  BY <1>1, <1>7, <1>8
<1>12. \A o \in End : OneWay(o)'
  BY <1>1, <1>9, <1>10
<1> QED BY <1>6, <1>11, <1>12 DEF SocketInv

\* An end that reads nothing: it is quiet for the other direction, or closes it.
Unread(p, s, a) ==
    /\ sock[p].fd = "closed" => s.fd = "closed"
    /\ s.recvFd = sock[p].recvFd
    /\ a.got = app[p].got /\ a.fds = app[p].fds /\ a.sawEnd = app[p].sawEnd

\* What is left of the kernel's bytes for an end that reads nothing.
LEMMA UnreadIncoming ==
    ASSUME SocketInv, NEW p \in End, NEW s, NEW a, Unread(p, s, a)
    PROVE  Incoming(p, s, a, LeftFor(p, s))
<1> DEFINE q == Other(p)
<1>1. Incoming(p, sock[p], app[p], chan[q])
  BY EndFacts
<1>2. q \in End
  BY Ends
<1>3. app[q] \in AppRecord /\ chan[q] \in Seq(Segment) /\ app[p] \in AppRecord
  BY <1>2, EndFacts
<1>4. CASE s.fd = "closed"
  <2>1. LeftFor(p, s) = <<>>
    BY <1>4 DEF LeftFor
  <2>2. BytesOK(sock[q], app[q], <<>>, s, a)
    BY <1>1, <1>3, <1>4, CloseBytes DEF Incoming, Unread
  <2>3. ~sockKind.strings => FdsOK(sockKind.type, sock[q], app[q], <<>>, s, a)
    BY <1>1, <1>4, CloseFds DEF Incoming, Unread
  <2> QED BY <2>1, <2>2, <2>3 DEF Incoming
<1>5. CASE s.fd # "closed"
  <2>0. sock[p].fd # "closed"
    BY <1>5 DEF Unread
  <2>1. LeftFor(p, s) = chan[q]
    BY <1>5 DEF LeftFor
  <2>2. BytesOK(sock[q], app[q], chan[q], s, a)
    BY <1>1, <1>5, <2>0, QuietReceiverBytes DEF Incoming, Unread
  <2>3. ~sockKind.strings => FdsOK(sockKind.type, sock[q], app[q], chan[q], s, a)
    BY <1>1, <1>5, <2>0, QuietReceiverFds DEF Incoming, Unread
  <2> QED BY <2>1, <2>2, <2>3 DEF Incoming
<1> QED BY <1>4, <1>5

\* A step with Becomes.
LEMMA BecomesKeeps ==
    ASSUME SocketInv, NEW p \in End, NEW s \in SocketRecord, NEW a \in AppRecord, NEW out,
           Becomes(p, s, out), app' = [app EXCEPT ![p] = a], SentOn(p, out) \in Seq(Segment), Len(SentOn(p, out)) <= Room,
           sockKind' = sockKind, link' = link,
           SockOK(s), KindOK(sockKind.strings, s), Outgoing(p, s, a, SentOn(p, out)), Incoming(p, s, a, LeftFor(p, s))
    PROVE  SocketInv'
<1> DEFINE q == Other(p)
<1>1. q \in End /\ Other(q) = p /\ q # p /\ \A o \in End : o = p \/ o = q
  BY Ends
<1>2. chan \in [End -> Seq(Segment)] /\ resets \subseteq End /\ link \in {"none", "syn", "established", "refused"}
  BY DEF SocketInv, SocketTypes, Segment
<1>3. LeftFor(p, s) \in Seq(Segment) /\ Len(LeftFor(p, s)) <= Room
  <2>1. chan[q] \in Seq(Segment) /\ Len(chan[q]) <= Room
    BY <1>1, EndFacts
  <2>2. <<>> \in Seq(Segment) /\ Len(<<>>) <= Room
    BY SocketAssumption
  <2> QED BY <2>1, <2>2 DEF LeftFor
<1>4. PICK e \in Seq(Segment), h \in Seq(Segment) : e = SentOn(p, out) /\ h = LeftFor(p, s)
  BY <1>3
<1>5. chan' = [o \in End |-> IF o = p THEN e ELSE h]
  <2>1. chan' = [o \in End |-> IF o = p THEN (IF Gone(Other(p)) THEN chan[p] ELSE chan[p] \o out)
                               ELSE IF s.fd = "closed" THEN <<>> ELSE chan[o]]
    BY DEF Becomes
  <2>2. \A o \in End : o # p => h = IF s.fd = "closed" THEN <<>> ELSE chan[o]
    BY <1>1, <1>4 DEF LeftFor
  <2>3. e = IF Gone(Other(p)) THEN chan[p] ELSE chan[p] \o out
    BY <1>4 DEF SentOn
  <2> QED BY <2>1, <2>2, <2>3
<1>6. chan' = [chan EXCEPT ![p] = e, ![Other(p)] = h]
  BY <1>1, <1>2, <1>5
<1>7. resets' \subseteq End
  BY <1>1, <1>2 DEF Becomes
<1>8. sock' = [sock EXCEPT ![p] = s]
  BY DEF Becomes
<1>9. link' \in {"none", "syn", "established", "refused"}
  BY <1>2
<1>10. Len(e) <= Room /\ Len(h) <= Room /\ Outgoing(p, s, a, e) /\ Incoming(p, s, a, h)
  BY <1>3, <1>4
<1> QED BY <1>6, <1>7, <1>8, <1>9, <1>10, StepKeeps

\* A step of an end that reads nothing.
LEMMA SenderKeeps ==
    ASSUME SocketInv, NEW p \in End, NEW s \in SocketRecord, NEW a \in AppRecord, NEW out,
           Becomes(p, s, out), app' = [app EXCEPT ![p] = a], SentOn(p, out) \in Seq(Segment), Len(SentOn(p, out)) <= Room,
           sockKind' = sockKind, link' = link,
           SockOK(s), KindOK(sockKind.strings, s), Outgoing(p, s, a, SentOn(p, out)), Unread(p, s, a)
    PROVE  SocketInv'
BY UnreadIncoming, BecomesKeeps

\* A step of an end that puts nothing into the kernel.
LEMMA SilentKeeps ==
    ASSUME SocketInv, NEW p \in End, NEW s \in SocketRecord, NEW a \in AppRecord,
           Becomes(p, s, <<>>), app' = [app EXCEPT ![p] = a], sockKind' = sockKind, link' = link,
           SockOK(s), KindOK(sockKind.strings, s), Outgoing(p, s, a, chan[p]), Unread(p, s, a)
    PROVE  SocketInv'
<1>1. chan[p] \in Seq(Segment) /\ Len(chan[p]) <= Room
  BY EndFacts
<1>2. SentOn(p, <<>>) = chan[p]
  BY <1>1 DEF SentOn
<1> QED BY <1>1, <1>2, SenderKeeps

-----------------------------------------------------------------------------
\* A socket that keeps what it has to send.
SameQueue(s, t) ==
    t.queue = s.queue /\ t.fds = s.fds /\ t.destroyed = s.destroyed /\ t.shut = s.shut /\ t.writable = s.writable

\* An application that has written and received what it had.
SameUse(a, d) ==
    /\ d.written = a.written /\ d.sent = a.sent /\ d.aborted = a.aborted
    /\ d.got = a.got /\ d.fds = a.fds /\ d.sawEnd = a.sawEnd

\* A step of an end that neither sends nor reads.
LEMMA QuietKeeps ==
    ASSUME SocketInv, NEW p \in End, NEW s \in SocketRecord, NEW a \in AppRecord,
           Becomes(p, s, <<>>), app' = [app EXCEPT ![p] = a], sockKind' = sockKind, link' = link,
           SameQueue(sock[p], s), SameUse(app[p], a), s.recvFd = sock[p].recvFd, s.fd = sock[p].fd, SockOK(s)
    PROVE  SocketInv'
<1>1. KindOK(sockKind.strings, sock[p]) /\ Outgoing(p, sock[p], app[p], chan[p])
  BY EndFacts
<1>2. KindOK(sockKind.strings, s)
  BY <1>1 DEF KindOK, SameQueue
<1>3. Outgoing(p, s, a, chan[p])
  BY <1>1, QuietBytes, QuietFds DEF Outgoing, SameQueue, SameUse
<1>4. Unread(p, s, a)
  BY DEF Unread, SameUse
<1> QED BY <1>2, <1>3, <1>4, SilentKeeps

\* destroy.
LEMMA DestroyFacts ==
    ASSUME NEW s \in SocketRecord
    PROVE  /\ Destroy(s) \in SocketRecord /\ SockOK(Destroy(s)) /\ \A strings : KindOK(strings, Destroy(s))
           /\ Destroy(s).queue = <<>> /\ Destroy(s).fds = <<>> /\ Destroy(s).destroyed /\ ~Destroy(s).writable
           /\ Destroy(s).recvFd = s.recvFd /\ (s.fd = "closed" => Destroy(s).fd = "closed")
<1>1. PICK t \in SocketRecord :
        t = SocketClose(s) /\ t.recvFd = s.recvFd /\ (s.fd = "closed" => t.fd = "closed")
  <2>1. PICK z : z = [s EXCEPT !.fd = "closed"]
    OBVIOUS
  <2>2. z \in SocketRecord /\ z.recvFd = s.recvFd /\ z.fd = "closed"
    BY <2>1 DEF SocketRecord
  <2>3. SocketClose(s) = IF s.fd = "open" THEN z ELSE s
    BY <2>1 DEF SocketClose
  <2> QED BY <2>2, <2>3
<1>2. PICK u : u = Destroy(s)
  OBVIOUS
<1>3. u = [t EXCEPT !.queue = <<>>, !.fds = <<>>, !.readable = FALSE, !.writable = FALSE,
                     !.readWatcher = FALSE, !.writeWatcher = FALSE, !.flushing = "no",
                     !.destroyed = TRUE]
  BY <1>1, <1>2 DEF Destroy
<1>4. u \in SocketRecord
  <2>1. <<>> \in Seq(QueueItem) /\ <<>> \in Seq(Nat)
    OBVIOUS
  <2> QED BY <1>1, <1>3, <2>1 DEF SocketRecord
<1>5. /\ u.queue = <<>> /\ u.fds = <<>> /\ u.destroyed /\ ~u.writable /\ u.flushing = "no" /\ ~u.readWatcher
      /\ ~u.writeWatcher /\ u.recvFd = t.recvFd /\ u.fd = t.fd
  BY <1>1, <1>3 DEF SocketRecord
<1>6. QueueShape(<<>>) /\ DataItems(<<>>) = 0 /\ Len(<<>>) = 0
  BY DEF QueueShape, DataItems
<1>7. SockOK(u)
  BY <1>5, <1>6 DEF SockOK
<1>8. \A strings : KindOK(strings, u)
  BY <1>5, <1>6 DEF KindOK
<1> QED BY <1>1, <1>2, <1>4, <1>5, <1>7, <1>8

\* A socket that is destroyed by its application or by an error.
LEMMA AbortKeeps ==
    ASSUME SocketInv, NEW p \in End, NEW s \in SocketRecord, NEW a \in AppRecord,
           Becomes(p, Destroy(s), <<>>), app' = [app EXCEPT ![p] = a], sockKind' = sockKind, link' = link,
           s.recvFd = sock[p].recvFd, s.fd = sock[p].fd,
           a.aborted, a.sent = app[p].sent, a.written = app[p].written \/ a.written = app[p].written + 1,
           a.got = app[p].got, a.fds = app[p].fds, a.sawEnd = app[p].sawEnd
    PROVE  SocketInv'
<1>1. PICK u \in SocketRecord :
        /\ u = Destroy(s) /\ SockOK(u) /\ KindOK(sockKind.strings, u)
        /\ u.queue = <<>> /\ u.fds = <<>> /\ u.destroyed /\ ~u.writable
        /\ u.recvFd = s.recvFd /\ (s.fd = "closed" => u.fd = "closed")
  BY DestroyFacts
<1>2. Unread(p, u, a)
  BY <1>1 DEF Unread
<1>3. /\ app[p] \in AppRecord /\ app[Other(p)] \in AppRecord /\ chan[p] \in Seq(Segment)
      /\ Outgoing(p, sock[p], app[p], chan[p])
  BY Ends, EndFacts
<1>4. app[p].written \in Nat
  BY <1>3, SocketAssumption DEF AppRecord
<1>5. a.written >= app[p].written
  BY <1>4
<1>6. BytesOK(u, a, chan[p], sock[Other(p)], app[Other(p)])
  BY <1>1, <1>3, <1>5, AbortBytes DEF Outgoing
<1>7. ~sockKind.strings => FdsOK(sockKind.type, u, a, chan[p], sock[Other(p)], app[Other(p)])
  BY <1>1, <1>3, AbortFds DEF Outgoing
<1>8. Outgoing(p, u, a, chan[p])
  BY <1>6, <1>7 DEF Outgoing
<1> QED BY <1>1, <1>2, <1>8, SilentKeeps

\* pause and resume.
LEMMA PauseKeeps == ASSUME SocketInv, NEW p \in End, Pause(p) \/ Resume(p) PROVE SocketInv'
<1>1. sock[p] \in SocketRecord /\ app[p] \in AppRecord /\ SockOK(sock[p])
  BY EndFacts
<1>2. CASE Pause(p)
  <2>1. PICK s : s = [sock[p] EXCEPT !.readWatcher = FALSE]
    OBVIOUS
  <2>2. PICK a : a = [app[p] EXCEPT !.paused = TRUE]
    OBVIOUS
  <2>3. s \in SocketRecord /\ SameQueue(sock[p], s) /\ s.recvFd = sock[p].recvFd /\ s.fd = sock[p].fd
    BY <1>1, <2>1 DEF SocketRecord, SameQueue
  <2>4. SockOK(s)
    BY <1>1, <2>1 DEF SockOK, SocketRecord
  <2>5. a \in AppRecord /\ SameUse(app[p], a)
    BY <1>1, <2>2 DEF AppRecord, SameUse
  <2>6. Becomes(p, s, <<>>) /\ app' = [app EXCEPT ![p] = a] /\ sockKind' = sockKind /\ link' = link
    BY <1>2, <2>1, <2>2 DEF Pause
  <2> QED BY <2>3, <2>4, <2>5, <2>6, QuietKeeps
<1>3. CASE Resume(p)
  <2>1. PICK s : s = [sock[p] EXCEPT !.readWatcher = TRUE]
    OBVIOUS
  <2>2. PICK a : a = [app[p] EXCEPT !.paused = FALSE]
    OBVIOUS
  <2>3. s \in SocketRecord /\ SameQueue(sock[p], s) /\ s.recvFd = sock[p].recvFd /\ s.fd = sock[p].fd
    BY <1>1, <2>1 DEF SocketRecord, SameQueue
  <2>4. SockOK(s)
    BY <1>1, <1>3, <2>1 DEF SockOK, SocketRecord, Resume, Runs
  <2>5. a \in AppRecord /\ SameUse(app[p], a)
    BY <1>1, <2>2 DEF AppRecord, SameUse
  <2>6. Becomes(p, s, <<>>) /\ app' = [app EXCEPT ![p] = a] /\ sockKind' = sockKind /\ link' = link
    BY <1>3, <2>1, <2>2 DEF Resume
  <2> QED BY <2>3, <2>4, <2>5, <2>6, QuietKeeps
<1> QED BY <1>2, <1>3

\* destroySoon starts to flush, and so does the write watcher.
LEMMA FlushStarts == ASSUME SocketInv, NEW p \in End, DestroySoon(p) \/ OnWritable(p) PROVE SocketInv'
<1>1. sock[p] \in SocketRecord /\ app[p] \in AppRecord /\ SockOK(sock[p])
  BY EndFacts
<1>2. CASE DestroySoon(p)
  <2>1. PICK s : s = [sock[p] EXCEPT !.flushing = "soon"]
    OBVIOUS
  <2>2. PICK a : a = [app[p] EXCEPT !.ended = TRUE]
    OBVIOUS
  <2>3. s \in SocketRecord /\ SameQueue(sock[p], s) /\ s.recvFd = sock[p].recvFd /\ s.fd = sock[p].fd
    BY <1>1, <2>1 DEF SocketRecord, SameQueue
  <2>4. SockOK(s)
    BY <1>1, <1>2, <2>1 DEF SockOK, SocketRecord, DestroySoon, Runs
  <2>5. a \in AppRecord /\ SameUse(app[p], a)
    BY <1>1, <2>2 DEF AppRecord, SameUse
  <2>6. Becomes(p, s, <<>>) /\ app' = [app EXCEPT ![p] = a] /\ sockKind' = sockKind /\ link' = link
    BY <1>2, <2>1, <2>2 DEF DestroySoon
  <2> QED BY <2>3, <2>4, <2>5, <2>6, QuietKeeps
<1>3. CASE OnWritable(p)
  <2>1. PICK s : s = [sock[p] EXCEPT !.flushing = "writable"]
    OBVIOUS
  <2>3. s \in SocketRecord /\ SameQueue(sock[p], s) /\ s.recvFd = sock[p].recvFd /\ s.fd = sock[p].fd
    BY <1>1, <2>1 DEF SocketRecord, SameQueue
  <2>4. SockOK(s)
    BY <1>1, <1>3, <2>1 DEF SockOK, SocketRecord, OnWritable, Runs
  <2>5. SameUse(app[p], app[p])
    BY DEF SameUse
  <2>6. Becomes(p, s, <<>>) /\ app' = [app EXCEPT ![p] = app[p]] /\ sockKind' = sockKind /\ link' = link
    BY <1>3, <2>1 DEF OnWritable, SocketInv, SocketTypes
  <2> QED BY <1>1, <2>3, <2>4, <2>5, <2>6, QuietKeeps
<1> QED BY <1>2, <1>3

\* destroy, and a read that fails.
LEMMA DestroyKeeps == ASSUME SocketInv, NEW p \in End, SocketDestroy(p) \/ OnReset(p) PROVE SocketInv'
<1>1. sock[p] \in SocketRecord /\ app[p] \in AppRecord
  BY EndFacts
<1>2. PICK a : a = [app[p] EXCEPT !.aborted = TRUE]
  OBVIOUS
<1>3. /\ a \in AppRecord /\ a.aborted /\ a.sent = app[p].sent /\ a.written = app[p].written
      /\ a.got = app[p].got /\ a.fds = app[p].fds /\ a.sawEnd = app[p].sawEnd
  BY <1>1, <1>2 DEF AppRecord
<1>4. Becomes(p, Destroy(sock[p]), <<>>) /\ app' = [app EXCEPT ![p] = a] /\ sockKind' = sockKind /\ link' = link
  BY <1>2 DEF SocketDestroy, OnReset
<1> QED BY <1>1, <1>3, <1>4, AbortKeeps

-----------------------------------------------------------------------------
\* A step that changes the kernel's buffers in no way.
LEMMA StayKeeps ==
    ASSUME SocketInv, NEW p \in End, NEW s \in SocketRecord,
           sock' = [sock EXCEPT ![p] = s], app' = app, chan' = chan, resets' = resets, sockKind' = sockKind,
           link' \in {"none", "syn", "established", "refused"},
           SameQueue(sock[p], s), s.recvFd = sock[p].recvFd, s.fd = "closed" <=> sock[p].fd = "closed", SockOK(s)
    PROVE  SocketInv'
<1> DEFINE q == Other(p)
<1>1. q \in End /\ q # p
  BY Ends
<1>2. /\ app[p] \in AppRecord /\ chan[p] \in Seq(Segment) /\ chan[q] \in Seq(Segment)
      /\ Len(chan[p]) <= Room /\ Len(chan[q]) <= Room /\ KindOK(sockKind.strings, sock[p])
      /\ Outgoing(p, sock[p], app[p], chan[p]) /\ Incoming(p, sock[p], app[p], chan[q])
  BY <1>1, EndFacts
<1>3. KindOK(sockKind.strings, s)
  BY <1>2 DEF KindOK, SameQueue
<1>4. Outgoing(p, s, app[p], chan[p])
  BY <1>2, QuietBytes, QuietFds DEF Outgoing, SameQueue
<1>5. Incoming(p, s, app[p], chan[q])
  BY <1>2, QuietReceiverBytes, QuietReceiverFds DEF Incoming
<1>6. app' = [app EXCEPT ![p] = app[p]] /\ chan' = [chan EXCEPT ![p] = chan[p], ![q] = chan[q]] /\ resets' \subseteq End
  BY <1>1 DEF SocketInv, SocketTypes
<1> QED BY <1>2, <1>3, <1>4, <1>5, <1>6, StepKeeps

\* The lookup answers, and the server.
LEMMA ConnectKeeps == ASSUME SocketInv, Connect \/ Answer PROVE SocketInv'
<1>1. "client" \in End
  BY DEF End
<1>2. sock["client"] \in SocketRecord /\ SockOK(sock["client"])
  BY <1>1, EndFacts
<1>t. link \in {"none", "syn", "established", "refused"} /\ sock \in [End -> SocketRecord]
  BY DEF SocketInv, SocketTypes
<1>3. CASE Connect
  <2>1. PICK s : s = IF sock["client"].destroyed THEN [sock["client"] EXCEPT !.fd = "open"]
                     ELSE [sock["client"] EXCEPT !.fd = "open", !.writeWatcher = TRUE]
    OBVIOUS
  <2>0. sock["client"].fd = "none"
    BY <1>3 DEF Connect
  <2>2. s \in SocketRecord /\ SameQueue(sock["client"], s) /\ s.recvFd = sock["client"].recvFd /\ s.fd = "open"
    BY <1>2, <2>1 DEF SocketRecord, SameQueue
  <2>3. SockOK(s)
    <3>1. CASE sock["client"].destroyed
      BY <1>2, <2>1, <3>1 DEF SocketRecord, SockOK
    <3>2. CASE ~sock["client"].destroyed
      BY <1>2, <2>1, <3>2 DEF SocketRecord, SockOK
    <3> QED BY <3>1, <3>2
  <2>4. sock' = [sock EXCEPT !["client"] = s]
    BY <1>3, <2>1 DEF Connect
  <2>5. /\ app' = app /\ chan' = chan /\ resets' = resets /\ sockKind' = sockKind
        /\ link' \in {"none", "syn", "established", "refused"}
    BY <1>3, <1>t DEF Connect
  <2> QED BY <1>1, <2>0, <2>2, <2>3, <2>4, <2>5, StayKeeps
<1>4. CASE Answer
  <2>1. SameQueue(sock["client"], sock["client"])
    BY DEF SameQueue
  <2>2. sock' = [sock EXCEPT !["client"] = sock["client"]]
    BY <1>4, <1>t DEF Answer
  <2>3. /\ app' = app /\ chan' = chan /\ resets' = resets /\ sockKind' = sockKind
        /\ link' \in {"none", "syn", "established", "refused"}
    BY <1>4, <1>t DEF Answer
  <2> QED BY <1>1, <1>2, <2>1, <2>2, <2>3, StayKeeps
<1> QED BY <1>3, <1>4

\* The connection is made, or fails.
LEMMA OnConnectKeeps == ASSUME SocketInv, OnConnect PROVE SocketInv'
<1>1. "client" \in End
  BY DEF End
<1>2. sock["client"] \in SocketRecord /\ SockOK(sock["client"]) /\ app["client"] \in AppRecord /\ app \in [End -> AppRecord]
  BY <1>1, EndFacts DEF SocketInv, SocketTypes
<1>3. sockKind' = sockKind /\ link' = link
  BY DEF OnConnect
<1>4. CASE SocketError
  <2>1. PICK a : a = [app["client"] EXCEPT !.aborted = TRUE]
    OBVIOUS
  <2>2. LET b == app["client"] IN
        /\ a \in AppRecord /\ a.aborted /\ a.sent = b.sent /\ a.written = b.written
        /\ a.got = b.got /\ a.fds = b.fds /\ a.sawEnd = b.sawEnd
    BY <1>2, <2>1 DEF AppRecord
  <2>3. Becomes("client", Destroy(sock["client"]), <<>>) /\ app' = [app EXCEPT !["client"] = a]
    BY <1>4, <2>1 DEF OnConnect
  <2> QED BY <1>1, <1>2, <1>3, <2>2, <2>3, AbortKeeps
<1>5. CASE ~SocketError
  <2>0. PICK v \in {"no", "writable"} : v = IF sock["client"].queue # <<>> THEN "writable" ELSE "no"
    OBVIOUS
  <2>1. PICK s : s = [sock["client"] EXCEPT !.connecting = FALSE, !.readable = TRUE, !.readWatcher = TRUE, !.flushing = v]
    OBVIOUS
  <2>2. /\ s \in SocketRecord /\ SameQueue(sock["client"], s) /\ s.recvFd = sock["client"].recvFd
        /\ s.fd = sock["client"].fd
    BY <1>2, <2>1 DEF SocketRecord, SameQueue
  <2>3. ~sock["client"].destroyed
    BY <1>2 DEF OnConnect, SockOK
  <2>4. SockOK(s)
    BY <1>2, <2>0, <2>1, <2>3 DEF SocketRecord, SockOK
  <2>5. Becomes("client", s, <<>>) /\ app' = [app EXCEPT !["client"] = app["client"]]
    BY <1>1, <1>2, <1>5, <2>0, <2>1 DEF OnConnect
  <2>6. SameUse(app["client"], app["client"])
    BY DEF SameUse
  <2> QED BY <1>1, <1>2, <1>3, <2>2, <2>4, <2>5, <2>6, QuietKeeps
<1> QED BY <1>4, <1>5

\* END_OF_FILE is put into the queue.
LEMMA EndingFacts ==
    ASSUME NEW s \in SocketRecord, SockOK(s), ~s.destroyed, s.flushing = "no"
    PROVE  LET t == Ending(s) IN
           /\ t \in SocketRecord /\ SockOK(t) /\ t.fd = s.fd /\ t.recvFd = s.recvFd /\ t.fds = s.fds
           /\ t.destroyed = s.destroyed /\ t.shut = s.shut /\ t.writable = s.writable
           /\ t.queue = s.queue \/ (~EndIsQueued(s) /\ t.queue = Append(s.queue, END_OF_FILE))
           /\ \A strings : KindOK(strings, s) => KindOK(strings, t)
<1>1. PICK t : t = Ending(s)
  OBVIOUS
<1>2. CASE ~s.writable \/ EndIsQueued(s)
  <2>1. t = s
    BY <1>1, <1>2 DEF Ending
  <2> QED BY <1>1, <2>1
<1>3. CASE s.writable /\ ~EndIsQueued(s)
  <2>1. PICK v \in {"no", "end"} : v = IF s.connecting THEN "no" ELSE "end"
    OBVIOUS
  <2>2. PICK queue \in Seq(QueueItem) : queue = s.queue
    BY DEF SocketRecord
  <2>a. PICK x \in QueueItem : x = END_OF_FILE
    BY EndIsItem
  <2>b. Append(queue, x) \in Seq(QueueItem)
    BY Appended
  <2>3. PICK q2 \in Seq(QueueItem) : q2 = Append(queue, END_OF_FILE)
    BY <2>a, <2>b
  <2>4. t = [s EXCEPT !.queue = q2, !.flushing = v]
    BY <1>1, <1>3, <2>1, <2>2, <2>3 DEF Ending
  <2>5. /\ t \in SocketRecord /\ t.fd = s.fd /\ t.recvFd = s.recvFd /\ t.fds = s.fds /\ t.queue = q2 /\ t.flushing = v
        /\ t.destroyed = s.destroyed /\ t.shut = s.shut /\ t.writable = s.writable /\ t.connecting = s.connecting
        /\ t.writeWatcher = s.writeWatcher
    BY <2>4 DEF SocketRecord
  <2>6. QueueShape(queue) /\ DataItems(queue) = Len(queue) /\ Len(queue) \in Nat
    BY <1>3, <2>2 DEF SockOK, EndIsQueued, DataItems
  <2>7. Len(q2) = Len(queue) + 1 /\ (\A i \in 1..Len(queue) : q2[i] = queue[i]) /\ q2[Len(queue) + 1] = END_OF_FILE
    <3>1. q2 = Append(queue, x)
      BY <2>a, <2>3
    <3> QED BY <2>a, <3>1, Appended
  <2>8. QueueShape(q2) /\ DataItems(q2) = Len(queue)
    BY <2>6, <2>7, WaitsEnd
  <2>9. SockOK(t)
    BY <1>3, <2>1, <2>5, <2>8 DEF SockOK, SocketRecord
  <2>10. ASSUME NEW strings, KindOK(strings, s) PROVE KindOK(strings, t)
    <3>1. SUFFICES ASSUME ~strings PROVE Len(t.fds) <= DataItems(t.queue) /\ \A i \in DOMAIN t.queue : ~t.queue[i].str
      BY DEF KindOK
    <3>2. Len(s.fds) <= DataItems(queue) /\ \A i \in 1..Len(queue) : ~queue[i].str
      BY <2>2, <2>10, <3>1 DEF KindOK
    <3>3. ASSUME NEW i \in 1..(Len(queue) + 1) PROVE ~q2[i].str
      <4>1. CASE i = Len(queue) + 1
        BY <2>7, <4>1, EndIsItem
      <4>2. CASE i # Len(queue) + 1
        <5>1. i \in 1..Len(queue)
          BY <2>6, <4>2
        <5>2. q2[i] = queue[i] /\ ~queue[i].str
          BY <2>7, <3>2, <5>1
        <5> QED BY <5>2
      <4> QED BY <4>1, <4>2
    <3>4. DOMAIN q2 = 1..(Len(queue) + 1)
      BY <2>7
    <3> QED BY <2>5, <2>6, <2>8, <3>2, <3>3, <3>4
  <2>11. t.queue = Append(s.queue, END_OF_FILE)
    BY <2>2, <2>3, <2>5
  <2> QED BY <1>1, <1>3, <2>5, <2>9, <2>10, <2>11
<1> QED BY <1>2, <1>3

\* The bytes of a direction whose sender ends.
LEMMA EndingBytes ==
    ASSUME NEW s \in SocketRecord, SockOK(s), ~s.destroyed, s.flushing = "no",
           NEW a \in AppRecord, NEW d \in AppRecord, NEW c \in Seq(Segment), NEW r, NEW b \in AppRecord,
           BytesOK(s, a, c, r, b), d.written = a.written, d.aborted = a.aborted
    PROVE  BytesOK(Ending(s), d, c, r, b)
<1>1. PICK t \in SocketRecord :
        /\ t = Ending(s) /\ t.destroyed = s.destroyed /\ t.shut = s.shut /\ t.writable = s.writable
        /\ t.queue = s.queue \/ (~EndIsQueued(s) /\ t.queue = Append(s.queue, END_OF_FILE))
  BY EndingFacts
<1>2. QueueShape(s.queue)
  BY DEF SockOK
<1>3. CASE t.queue = s.queue
  BY <1>1, <1>3, QuietBytes
<1>4. CASE ~EndIsQueued(s) /\ t.queue = Append(s.queue, END_OF_FILE)
  BY <1>1, <1>2, <1>4, EndBytes
<1> QED BY <1>1, <1>3, <1>4

\* end.
LEMMA SocketEndKeeps == ASSUME SocketInv, NEW p \in End, SocketEnd(p) PROVE SocketInv'
<1>1. /\ sock[p] \in SocketRecord /\ app[p] \in AppRecord /\ SockOK(sock[p]) /\ KindOK(sockKind.strings, sock[p])
      /\ chan[p] \in Seq(Segment) /\ Outgoing(p, sock[p], app[p], chan[p]) /\ app[Other(p)] \in AppRecord
  BY Ends, EndFacts
<1>2. PICK a : a = [app[p] EXCEPT !.ended = TRUE]
  OBVIOUS
<1>3. a \in AppRecord /\ SameUse(app[p], a)
  BY <1>1, <1>2 DEF AppRecord, SameUse
<1>4. PICK t : t = Ending(sock[p])
  OBVIOUS
<1>5. ~sock[p].destroyed /\ sock[p].flushing = "no"
  BY DEF SocketEnd, Runs
<1>6. /\ t \in SocketRecord /\ SockOK(t) /\ t.fd = sock[p].fd /\ t.recvFd = sock[p].recvFd /\ t.fds = sock[p].fds
      /\ t.destroyed = sock[p].destroyed /\ t.shut = sock[p].shut
      /\ KindOK(sockKind.strings, t)
  BY <1>1, <1>4, <1>5, EndingFacts
<1>b. BytesOK(t, a, chan[p], sock[Other(p)], app[Other(p)])
  BY <1>1, <1>3, <1>4, <1>5, EndingBytes DEF Outgoing, SameUse
<1>7. ~sockKind.strings => FdsOK(sockKind.type, t, a, chan[p], sock[Other(p)], app[Other(p)])
  BY <1>1, <1>3, <1>6, QuietFds DEF Outgoing, SameUse
<1>8. Outgoing(p, t, a, chan[p]) /\ Unread(p, t, a)
  BY <1>3, <1>6, <1>7, <1>b DEF Outgoing, Unread, SameUse
<1>9. Becomes(p, t, <<>>) /\ app' = [app EXCEPT ![p] = a] /\ sockKind' = sockKind /\ link' = link
  BY <1>2, <1>4 DEF SocketEnd
<1> QED BY <1>3, <1>6, <1>8, <1>9, SilentKeeps

\* A socket that was shut down has nothing to send.
LEMMA ShutIsEmpty ==
    ASSUME NEW s \in SocketRecord, SockOK(s), NEW strings, KindOK(strings, s), DataItems(s.queue) = 0
    PROVE  ~strings => s.fds = <<>>
<1>1. s.fds \in Seq(Nat)
  BY DEF SocketRecord
<1>2. ~strings => Len(s.fds) <= 0
  BY DEF KindOK
<1> QED BY <1>1, <1>2

\* A read returns 0.
LEMMA OnEndKeeps == ASSUME SocketInv, NEW p \in End, OnEnd(p) PROVE SocketInv'
<1> DEFINE q == Other(p)
<1>1. /\ sock[p] \in SocketRecord /\ app[p] \in AppRecord /\ SockOK(sock[p]) /\ KindOK(sockKind.strings, sock[p])
      /\ chan[p] \in Seq(Segment) /\ Outgoing(p, sock[p], app[p], chan[p])
      /\ Incoming(p, sock[p], app[p], chan[q]) /\ Len(chan[p]) <= Room
  BY EndFacts
<1>2. q \in End /\ app[q] \in AppRecord /\ sock[q] \in SocketRecord /\ SockOK(sock[q])
  BY Ends, EndFacts
<1>3. /\ ~sock[p].destroyed /\ sock[p].flushing = "no" /\ chan[q] = <<>> /\ (sock[q].shut \/ sock[q].fd = "closed")
      /\ sockKind' = sockKind /\ link' = link
  BY DEF OnEnd, Reads, Runs, Gone
<1>4. PICK a : a = [app[p] EXCEPT !.sawEnd = TRUE]
  OBVIOUS
<1>5. /\ a \in AppRecord /\ app' = [app EXCEPT ![p] = a] /\ a.written = app[p].written /\ a.sent = app[p].sent
      /\ a.aborted = app[p].aborted /\ a.got = app[p].got /\ a.fds = app[p].fds
  BY <1>1, <1>4 DEF AppRecord, OnEnd
<1>6. PICK s : s = [sock[p] EXCEPT !.readable = FALSE, !.readWatcher = FALSE]
  OBVIOUS
<1>7. /\ s \in SocketRecord /\ SameQueue(sock[p], s) /\ s.fd = sock[p].fd /\ s.recvFd = sock[p].recvFd
      /\ s.flushing = "no" /\ ~s.destroyed
  BY <1>1, <1>3, <1>6 DEF SocketRecord, SameQueue
<1>8. SockOK(s) /\ KindOK(sockKind.strings, s)
  BY <1>1, <1>6, <1>7 DEF SocketRecord, SockOK, KindOK, SameQueue
<1>9. sock[p].fd # "closed" /\ (sock[q].shut \/ sock[q].destroyed) /\ ~sock[q].writable
  BY <1>1, <1>2, <1>3 DEF SockOK
<1>10. ASSUME NEW u, u.recvFd = sock[p].recvFd PROVE Incoming(p, u, a, LeftFor(p, u))
  <2>1. LeftFor(p, u) = <<>>
    BY <1>3 DEF LeftFor
  <2>2. BytesOK(sock[q], app[q], <<>>, u, a)
    BY <1>1, <1>2, <1>3, <1>5, <1>9, SawEndBytes DEF Incoming
  <2>3. ~sockKind.strings => FdsOK(sockKind.type, sock[q], app[q], <<>>, u, a)
    BY <1>1, <1>3, <1>5, <1>9, <1>10, SawEndFds DEF Incoming
  <2> QED BY <2>1, <2>2, <2>3 DEF Incoming
<1>11. SentOn(p, <<>>) = chan[p]
  BY <1>1 DEF SentOn
<1>12. ASSUME NEW u \in SocketRecord, SockOK(u), KindOK(sockKind.strings, u), u.recvFd = sock[p].recvFd,
              Outgoing(p, u, a, chan[p]), Becomes(p, u, <<>>)
       PROVE  SocketInv'
  BY <1>1, <1>3, <1>5, <1>10, <1>11, <1>12, BecomesKeeps
<1>13. CASE ~s.writable
  <2>1. PICK u \in SocketRecord :
          /\ u = Destroy(s) /\ SockOK(u) /\ KindOK(sockKind.strings, u) /\ u.queue = <<>> /\ u.fds = <<>>
          /\ ~u.writable /\ u.recvFd = s.recvFd
    BY <1>7, DestroyFacts
  <2>2. Ending(u) = u
    BY <2>1 DEF Ending
  <2>3. Becomes(p, u, <<>>)
    BY <1>6, <1>13, <2>1, <2>2 DEF OnEnd
  <2>4. s.queue = <<>>
    BY <1>7, <1>8, <1>13 DEF SockOK
  <2>5. DataItems(sock[p].queue) = 0 /\ (~sockKind.strings => sock[p].fds = <<>>)
    <3>1. DataItems(s.queue) = 0
      BY <2>4 DEF DataItems
    <3> QED BY <1>7, <1>8, <3>1, ShutIsEmpty DEF SameQueue
  <2>6. BytesOK(u, a, chan[p], sock[q], app[q])
    BY <1>1, <1>3, <1>5, <2>1, <2>5, DrainBytes DEF Outgoing
  <2>7. ~sockKind.strings => FdsOK(sockKind.type, u, a, chan[p], sock[q], app[q])
    BY <1>1, <1>3, <1>5, <2>1, <2>5, DrainFds DEF Outgoing
  <2> QED BY <1>7, <1>12, <2>1, <2>3, <2>6, <2>7 DEF Outgoing
<1>14. CASE s.writable
  <2>1. Outgoing(p, s, a, chan[p])
    BY <1>1, <1>5, <1>7, QuietBytes, QuietFds DEF Outgoing, SameQueue
  <2>2. CASE app[p].allowHalfOpen
    <3>1. Becomes(p, s, <<>>)
      BY <1>6, <1>14, <2>2 DEF OnEnd
    <3> QED BY <1>7, <1>8, <1>12, <2>1, <3>1
  <2>3. CASE ~app[p].allowHalfOpen
    <3>1. PICK u : u = Ending(s)
      OBVIOUS
    <3>2. Becomes(p, u, <<>>)
      BY <1>6, <1>14, <2>3, <3>1 DEF OnEnd
    <3>3. /\ u \in SocketRecord /\ SockOK(u) /\ u.recvFd = s.recvFd /\ u.fds = s.fds
          /\ u.destroyed = s.destroyed /\ u.shut = s.shut /\ KindOK(sockKind.strings, u)
      BY <1>7, <1>8, <3>1, EndingFacts
    <3>b. BytesOK(u, a, chan[p], sock[q], app[q])
      BY <1>1, <1>2, <1>5, <1>7, <1>8, <2>1, <3>1, EndingBytes DEF Outgoing
    <3>4. ~sockKind.strings => FdsOK(sockKind.type, u, a, chan[p], sock[q], app[q])
      BY <2>1, <3>3, QuietFds DEF Outgoing
    <3> QED BY <1>7, <1>12, <3>2, <3>3, <3>4, <3>b DEF Outgoing
  <2> QED BY <2>2, <2>3
<1> QED BY <1>13, <1>14

-----------------------------------------------------------------------------
\* The first n elements of a sequence.
LEMMA PrefixFacts ==
    ASSUME NEW T, NEW s \in Seq(T), NEW n \in 1..Len(s)
    PROVE  /\ SubSeq(s, 1, n) \in Seq(T) /\ Len(SubSeq(s, 1, n)) = n /\ DOMAIN SubSeq(s, 1, n) = 1..n
           /\ \A i \in 1..n : SubSeq(s, 1, n)[i] = s[i] /\ s[i] \in T
OBVIOUS

\* Two sequences, one after the other.
LEMMA Joined ==
    ASSUME NEW T, NEW s \in Seq(T), NEW v \in Seq(T), NEW n, n = Len(v)
    PROVE  /\ s \o v \in Seq(T) /\ Len(s \o v) = Len(s) + n
           /\ \A i \in 1..Len(s) : (s \o v)[i] = s[i]
           /\ \A i \in 1..n : (s \o v)[Len(s) + i] = v[i]
OBVIOUS

\* At most one of the first n bytes has a descriptor.
OneFd(bytes, n) == \A i, j \in 1..n : bytes[i][3] # 0 /\ bytes[j][3] # 0 => i = j

\* recvmsg returns the descriptor that comes with the bytes.
LEMMA RecvMsgFacts ==
    ASSUME NEW c \in Seq(Segment), NEW n \in 1..Len(c), NEW bytes, bytes = SubSeq(c, 1, n), OneFd(bytes, n), NEW old
    PROVE  RecvMsg(bytes, old) \in Nat /\ ComesWith(RecvMsg(bytes, old), FdsOf(c), n)
<1>1. DOMAIN bytes = 1..n /\ \A i \in 1..n : bytes[i] = c[i] /\ c[i] \in Segment
  BY PrefixFacts
<1>2. \A i \in 1..n : bytes[i][3] \in Nat /\ FdsOf(c)[i] = bytes[i][3]
  <2>1. \A i \in 1..n : c[i][3] \in Nat
    BY <1>1 DEF Segment
  <2>2. \A i \in 1..n : i \in 1..Len(c)
    OBVIOUS
  <2>3. \A i \in 1..n : FdsOf(c)[i] = c[i][3]
    BY <2>2, FdsOfFacts
  <2> QED BY <1>1, <2>1, <2>3
<1> DEFINE with == {i \in DOMAIN bytes : bytes[i][3] # 0}
<1>3. CASE with = {}
  <2>1. RecvMsg(bytes, old) = 0
    BY <1>3 DEF RecvMsg
  <2>2. \A i \in 1..n : bytes[i][3] = 0
    BY <1>1, <1>3
  <2> QED BY <1>2, <2>1, <2>2 DEF ComesWith
<1>4. CASE with # {}
  <2>1. PICK k : k = CHOOSE i \in with : TRUE
    OBVIOUS
  <2>2. k \in with
    BY <1>4, <2>1
  <2>3. k \in 1..n /\ bytes[k][3] # 0
    BY <1>1, <2>2
  <2>4. RecvMsg(bytes, old) = bytes[k][3]
    BY <1>4, <2>1 DEF RecvMsg
  <2>5. \A i \in 1..n : bytes[i][3] = 0 \/ i = k
    BY <2>3 DEF OneFd
  <2> QED BY <1>2, <2>3, <2>4, <2>5 DEF ComesWith
<1> QED BY <1>3, <1>4

\* No descriptor comes over TCP.
LEMMA TcpHasNoFds ==
    ASSUME NEW type, type # "unix", NEW s, NEW a, NEW c \in Seq(Segment), NEW r \in SocketRecord, NEW b,
           FdsOK(type, s, a, c, r, b), NEW n \in 1..Len(c)
    PROVE  r.recvFd = 0 /\ ComesWith(r.recvFd, FdsOf(c), n)
<1>1. r.recvFd \in Nat
  BY DEF SocketRecord
<1>2. a.sent = <<>> /\ FdOrder(s.fds, FdsOf(c), b.fds, r.recvFd, <<>>, a.written)
  BY DEF FdsOK
<1>3. \A x \in Nat : In(x, FdsOf(c)) \/ In(x, b.fds) => x = 0
  BY <1>2, InEmpty DEF FdOrder
<1>4. r.recvFd = 0
  BY <1>1, <1>2, <1>3 DEF FdOrder
<1>5. \A i \in 1..Len(c) : FdsOf(c)[i] \in Nat /\ In(FdsOf(c)[i], FdsOf(c))
  BY FdsOfFacts DEF In
<1>6. \A i \in 1..n : i \in 1..Len(c)
  OBVIOUS
<1>7. \A i \in 1..n : FdsOf(c)[i] = 0
  BY <1>3, <1>5, <1>6
<1> QED BY <1>4, <1>7 DEF ComesWith

\* A read returns some bytes.
LEMMA OnDataKeeps == ASSUME SocketInv, NEW p \in End, OnData(p) PROVE SocketInv'
<1> DEFINE q == Other(p)
<1>1. /\ sock[p] \in SocketRecord /\ app[p] \in AppRecord /\ SockOK(sock[p]) /\ KindOK(sockKind.strings, sock[p])
      /\ chan[p] \in Seq(Segment) /\ Outgoing(p, sock[p], app[p], chan[p])
      /\ Incoming(p, sock[p], app[p], chan[q]) /\ Len(chan[p]) <= Room
  BY EndFacts
<1>2. q \in End /\ q # p /\ app[q] \in AppRecord /\ sock[q] \in SocketRecord /\ chan[q] \in Seq(Segment) /\ Len(chan[q]) <= Room
  BY Ends, EndFacts
<1>3. ~sock[p].destroyed /\ sock[p].fd # "closed" /\ sockKind' = sockKind /\ link' = link /\ resets' = resets
  BY <1>1 DEF OnData, Reads, Runs, SockOK
<1>4. PICK c \in Seq(Segment) : c = chan[q]
  BY <1>2
<1>n. PICK m \in 1..Len(chan[q]) :
        LET bytes == SubSeq(chan[q], 1, m)
            fd == IF sockKind.type = "unix" THEN RecvMsg(bytes, sock[p].recvFd) ELSE SocketRead(bytes, sock[p].recvFd)
        IN
        /\ \A i, j \in 1..m : bytes[i][3] # 0 /\ bytes[j][3] # 0 => i = j
        /\ sock' = [sock EXCEPT ![p].recvFd = fd]
        /\ chan' = [chan EXCEPT ![q] = SubSeq(@, m + 1, Len(@))]
        /\ app' = [app EXCEPT ![p].got = @ \o [i \in 1..m |-> <<bytes[i][1], bytes[i][2]>>],
                              ![p].fds = IF fd = 0 THEN @ ELSE Append(@, fd)]
  BY DEF OnData
<1>m. PICK n \in 1..Len(c) : n = m
  BY <1>4
<1>b. PICK bytes : bytes = SubSeq(c, 1, n)
  OBVIOUS
<1>d. PICK fd : fd = IF sockKind.type = "unix" THEN RecvMsg(bytes, sock[p].recvFd) ELSE SocketRead(bytes, sock[p].recvFd)
  OBVIOUS
<1>o. OneFd(bytes, n)
  BY <1>4, <1>n, <1>m, <1>b DEF OneFd
<1>5. /\ sock' = [sock EXCEPT ![p].recvFd = fd]
      /\ chan' = [chan EXCEPT ![q] = SubSeq(@, n + 1, Len(@))]
      /\ app' = [app EXCEPT ![p].got = @ \o [i \in 1..n |-> <<bytes[i][1], bytes[i][2]>>],
                            ![p].fds = IF fd = 0 THEN @ ELSE Append(@, fd)]
  BY <1>4, <1>n, <1>m, <1>b, <1>d
<1>6. DOMAIN bytes = 1..n /\ \A i \in 1..n : bytes[i] = c[i] /\ c[i] \in Segment
  BY <1>b, PrefixFacts
<1>7. fd \in Nat /\ (~sockKind.strings => ComesWith(fd, FdsOf(c), n))
  <2>1. CASE sockKind.type = "unix"
    <3>1. fd = RecvMsg(bytes, sock[p].recvFd)
      BY <1>d, <2>1
    <3> QED BY <1>b, <1>o, <3>1, RecvMsgFacts
  <2>2. CASE sockKind.type # "unix"
    <3>1. fd = sock[p].recvFd
      BY <1>d, <2>2 DEF SocketRead
    <3>2. ~sockKind.strings => FdsOK(sockKind.type, sock[q], app[q], c, sock[p], app[p])
      BY <1>1, <1>4 DEF Incoming
    <3>3. fd \in Nat
      BY <1>1, <3>1 DEF SocketRecord
    <3> QED BY <1>1, <2>2, <3>1, <3>2, <3>3, TcpHasNoFds
  <2> QED BY <2>1, <2>2
<1>8. PICK e \in Seq(Segment) : e = SubSeq(c, n + 1, Len(c)) /\ Len(e) <= Room
  <2>0. PICK l \in Nat : l = Len(c)
    OBVIOUS
  <2>1. n \in 0..Len(c) /\ n \in Nat /\ n <= l /\ l <= Room
    BY <1>2, <1>4, <2>0
  <2>2. SubSeq(c, n + 1, Len(c)) \in Seq(Segment) /\ Len(SubSeq(c, n + 1, Len(c))) = l - n
    BY <2>0, <2>1, SuffixFacts
  <2>3. l - n <= Room
    BY <2>1, SocketAssumption
  <2> QED BY <2>2, <2>3
<1>9. PICK more \in Seq(Positive \X Positive) :
        more = [i \in 1..n |-> <<bytes[i][1], bytes[i][2]>>] /\ Len(more) = n
  <2>1. \A i \in 1..n : <<bytes[i][1], bytes[i][2]>> \in Positive \X Positive
    BY <1>6 DEF Segment
  <2>2. [i \in 1..n |-> <<bytes[i][1], bytes[i][2]>>] \in [1..n -> Positive \X Positive]
    BY <2>1
  <2>3. n \in Nat
    OBVIOUS
  <2> QED BY <2>2, <2>3, SequenceOf
<1>10. PICK got \in Seq(Positive \X Positive) : got = app[p].got
  BY <1>1 DEF AppRecord
<1>11. PICK got2 \in Seq(Positive \X Positive) :
         got2 = got \o more /\ ReadOn(got, got2, c, n)
  <2>1. /\ got \o more \in Seq(Positive \X Positive) /\ Len(got \o more) = Len(got) + n
        /\ \A i \in 1..Len(got) : (got \o more)[i] = got[i]
        /\ \A i \in 1..n : (got \o more)[Len(got) + i] = more[i]
    BY <1>9, Joined
  <2>2. \A i \in 1..n : more[i] = <<c[i][1], c[i][2]>>
    BY <1>6, <1>9
  <2>3. ReadOn(got, got \o more, c, n)
    BY <2>1, <2>2 DEF ReadOn
  <2> QED BY <2>1, <2>3
<1>12. PICK fds2 \in Seq(Nat) : fds2 = Told(app[p].fds, fd)
  <2>1. app[p].fds \in Seq(Nat)
    BY <1>1 DEF AppRecord
  <2> QED BY <1>7, <2>1, Appended DEF Told
<1>13. PICK a : a = [app[p] EXCEPT !.got = got2, !.fds = fds2]
  OBVIOUS
<1>14. /\ a \in AppRecord /\ a.got = got2 /\ a.fds = fds2 /\ a.written = app[p].written /\ a.sent = app[p].sent
       /\ a.aborted = app[p].aborted /\ a.sawEnd = app[p].sawEnd
  BY <1>1, <1>13 DEF AppRecord
<1>15. app' = [app EXCEPT ![p] = a]
  BY <1>5, <1>9, <1>10, <1>11, <1>12, <1>13 DEF Told
<1>16. PICK s : s = [sock[p] EXCEPT !.recvFd = fd]
  OBVIOUS
<1>17. s \in SocketRecord /\ SameQueue(sock[p], s) /\ s.fd = sock[p].fd /\ s.recvFd = fd
  BY <1>1, <1>7, <1>16 DEF SocketRecord, SameQueue
<1>18. SockOK(s) /\ KindOK(sockKind.strings, s)
  BY <1>1, <1>16, <1>17 DEF SocketRecord, SockOK, KindOK, SameQueue
<1>19. Outgoing(p, s, a, chan[p])
  BY <1>1, <1>14, <1>17, QuietBytes, QuietFds DEF Outgoing, SameQueue
<1>20. BytesOK(sock[q], app[q], e, s, a)
  <2>1. BytesOK(sock[q], app[q], c, sock[p], app[p])
    BY <1>1, <1>4 DEF Incoming
  <2>2. ReadOn(app[p].got, a.got, c, n)
    BY <1>10, <1>11, <1>14
  <2> QED BY <1>1, <1>2, <1>3, <1>8, <1>14, <1>17, <2>1, <2>2, ReadBytes
<1>21. ~sockKind.strings => FdsOK(sockKind.type, sock[q], app[q], e, s, a)
  <2>1. ~sockKind.strings => FdsOK(sockKind.type, sock[q], app[q], c, sock[p], app[p])
    BY <1>1, <1>4 DEF Incoming
  <2> QED BY <1>1, <1>2, <1>7, <1>8, <1>12, <1>14, <1>17, <2>1, ReadFds
<1>22. Incoming(p, s, a, e)
  BY <1>20, <1>21 DEF Incoming
<1>23. sock' = [sock EXCEPT ![p] = s] /\ chan' = [chan EXCEPT ![p] = chan[p], ![q] = e]
  BY <1>2, <1>4, <1>5, <1>8, <1>16 DEF SocketInv, SocketTypes
<1>24. resets' \subseteq End /\ link' \in {"none", "syn", "established", "refused"}
  BY <1>3 DEF SocketInv, SocketTypes
<1> QED BY <1>1, <1>3, <1>8, <1>14, <1>15, <1>17, <1>18, <1>19, <1>22, <1>23, <1>24, StepKeeps

\* A read finds nothing.
LEMMA OnNothingKeeps == ASSUME SocketInv, NEW p \in End, OnNothing(p) PROVE SocketInv'
<1> DEFINE q == Other(p)
<1>1. /\ sock[p] \in SocketRecord /\ app[p] \in AppRecord /\ SockOK(sock[p]) /\ KindOK(sockKind.strings, sock[p])
      /\ chan[p] \in Seq(Segment) /\ Outgoing(p, sock[p], app[p], chan[p])
      /\ Incoming(p, sock[p], app[p], chan[q]) /\ Len(chan[p]) <= Room
  BY EndFacts
<1>2. q \in End /\ q # p /\ app[q] \in AppRecord /\ sock[q] \in SocketRecord /\ chan[q] \in Seq(Segment) /\ Len(chan[q]) <= Room
  BY Ends, EndFacts
<1>3. PICK fds2 \in Seq(Nat) : fds2 = Append(app[p].fds, sock[p].recvFd)
  <2>1. app[p].fds \in Seq(Nat) /\ sock[p].recvFd \in Nat
    BY <1>1 DEF AppRecord, SocketRecord
  <2>2. Append(app[p].fds, sock[p].recvFd) \in Seq(Nat)
    BY <2>1, Appended
  <2> QED BY <2>2
<1>4. PICK a : a = [app[p] EXCEPT !.fds = fds2]
  OBVIOUS
<1>5. /\ a \in AppRecord /\ a.got = app[p].got /\ a.fds = fds2 /\ a.written = app[p].written /\ a.sent = app[p].sent
      /\ a.aborted = app[p].aborted /\ a.sawEnd = app[p].sawEnd
  BY <1>1, <1>4 DEF AppRecord
<1>6. app' = [app EXCEPT ![p] = a] /\ sock[p].recvFd # 0 /\ sockKind' = sockKind /\ link' = link /\ resets' = resets
  BY <1>3, <1>4 DEF OnNothing
<1>7. sock' = [sock EXCEPT ![p] = sock[p]] /\ chan' = [chan EXCEPT ![p] = chan[p], ![q] = chan[q]]
  BY <1>2 DEF OnNothing, SocketInv, SocketTypes
<1>8. Outgoing(p, sock[p], a, chan[p])
  BY <1>1, <1>5, QuietBytes, QuietFds DEF Outgoing
<1>9. BytesOK(sock[q], app[q], chan[q], sock[p], a)
  BY <1>1, <1>5, QuietReceiverBytes DEF Incoming
<1>10. ~sockKind.strings => FdsOK(sockKind.type, sock[q], app[q], chan[q], sock[p], a)
  BY <1>1, <1>2, <1>3, <1>5, <1>6, AgainFds DEF Incoming
<1>11. Incoming(p, sock[p], a, chan[q])
  BY <1>9, <1>10 DEF Incoming
<1>12. resets' \subseteq End /\ link' \in {"none", "syn", "established", "refused"}
  BY <1>6 DEF SocketInv, SocketTypes
<1> QED BY <1>1, <1>2, <1>5, <1>6, <1>7, <1>8, <1>11, <1>12, StepKeeps

-----------------------------------------------------------------------------
\* What the kernel takes has room, and is no more than was offered.
LEMMA TakesFacts ==
    ASSUME SocketInv, NEW p \in End, NEW m \in Nat \ {0}, NEW k \in Takes(p, m)
    PROVE  k \in 0..m /\ Len(chan[p]) + k <= Room
<1>1. PICK l \in Nat : l = Len(chan[p]) /\ l <= Room
  <2>1. chan[p] \in Seq(Segment) /\ Len(chan[p]) <= Room
    BY EndFacts
  <2> QED BY <2>1
<1>2. CASE link # "established" \/ Len(chan[p]) >= Room
  <2>1. k = 0
    BY <1>2 DEF Takes
  <2> QED BY <1>1, <2>1
<1>3. CASE ~(link # "established" \/ Len(chan[p]) >= Room)
  <2>1. k \in 1..(IF m < Room - l THEN m ELSE Room - l)
    BY <1>1, <1>3 DEF Takes
  <2>2. Room \in Nat
    BY SocketAssumption
  <2>3. k \in 0..m /\ l + k <= Room
    BY <1>1, <2>1, <2>2
  <2> QED BY <1>1, <2>3
<1> QED BY <1>2, <1>3

\* The descriptor that goes with the first byte.
FdFor(type, fd) == IF type = "unix" THEN fd ELSE 0

\* The bytes that a write puts into the kernel.
LEMMA WriteImplFacts ==
    ASSUME NEW bytes \in Seq(Positive \X Positive), NEW k \in 0..Len(bytes), NEW fd \in Nat,
           NEW out, out = WriteImpl(bytes, fd, k)
    PROVE  /\ out \in Seq(Segment) /\ Len(out) = k
           /\ \A i \in 1..k : /\ <<out[i][1], out[i][2]>> = bytes[i]
                              /\ out[i][3] = IF i = 1 THEN FdFor(sockKind.type, fd) ELSE 0
<1>1. \A i \in 1..k : bytes[i] \in Positive \X Positive
  <2>1. \A i \in 1..k : i \in 1..Len(bytes)
    OBVIOUS
  <2> QED BY <2>1
<1>2. PICK x \in Nat : x = FdFor(sockKind.type, fd)
  BY DEF FdFor
<1>3. out = [i \in 1..k |-> <<bytes[i][1], bytes[i][2], IF i = 1 THEN x ELSE 0>>]
  <2>1. CASE sockKind.type = "unix"
    BY <1>2, <2>1 DEF WriteImpl, SendMsg, FdFor
  <2>2. CASE sockKind.type # "unix"
    <3>1. out = [i \in 1..k |-> <<bytes[i][1], bytes[i][2], 0>>]
      BY <2>2 DEF WriteImpl, Write
    <3>2. x = 0
      BY <1>2, <2>2 DEF FdFor
    <3> QED BY <3>1, <3>2
  <2> QED BY <2>1, <2>2
<1>4. \A i \in 1..k : <<bytes[i][1], bytes[i][2], IF i = 1 THEN x ELSE 0>> \in Segment
  BY <1>1, <1>2 DEF Segment
<1>5. out \in [1..k -> Segment]
  BY <1>3, <1>4
<1>6. k \in Nat
  OBVIOUS
<1>7. out \in Seq(Segment) /\ Len(out) = k
  BY <1>5, <1>6, SequenceOf
<1>8. \A i \in 1..k : /\ <<out[i][1], out[i][2]>> = bytes[i]
                      /\ out[i][3] = IF i = 1 THEN x ELSE 0
  BY <1>1, <1>3
<1> QED BY <1>2, <1>7, <1>8

\* The kernel after a write.
LEMMA SentOnFacts ==
    ASSUME SocketInv, NEW p \in End, NEW bytes \in Seq(Positive \X Positive), bytes # <<>>,
           NEW k \in Takes(p, Len(bytes)), NEW fd \in Nat, NEW out, out = WriteImpl(bytes, fd, k)
    PROVE  LET e == SentOn(p, out) IN
           /\ e \in Seq(Segment) /\ Len(e) <= Room /\ k \in 0..Len(bytes)
           /\ Gone(Other(p)) => e = chan[p]
           /\ ~Gone(Other(p)) => /\ KernelTook(chan[p], e, bytes, k)
                                 /\ KernelTookFd(chan[p], e, FdFor(sockKind.type, fd), k)
<1>1. PICK m \in Nat \ {0} : m = Len(bytes)
  OBVIOUS
<1>2. k \in 0..m /\ Len(chan[p]) + k <= Room
  BY <1>1, TakesFacts
<1>3. PICK c \in Seq(Segment) : c = chan[p] /\ Len(c) <= Room
  BY EndFacts
<1>4. /\ out \in Seq(Segment) /\ Len(out) = k
      /\ \A i \in 1..k : /\ <<out[i][1], out[i][2]>> = bytes[i]
                         /\ out[i][3] = IF i = 1 THEN FdFor(sockKind.type, fd) ELSE 0
  <2>1. k \in 0..Len(bytes)
    BY <1>1, <1>2
  <2>2. PICK n \in 0..Len(bytes) : n = k
    BY <2>1
  <2>3. out = WriteImpl(bytes, fd, n)
    BY <2>2
  <2>4. /\ out \in Seq(Segment) /\ Len(out) = n
        /\ \A i \in 1..n : /\ <<out[i][1], out[i][2]>> = bytes[i]
                           /\ out[i][3] = IF i = 1 THEN FdFor(sockKind.type, fd) ELSE 0
    BY <2>3, WriteImplFacts
  <2> QED BY <2>2, <2>4
<1>5. CASE Gone(Other(p))
  <2>1. SentOn(p, out) = chan[p]
    BY <1>5 DEF SentOn
  <2> QED BY <1>1, <1>2, <1>3, <1>5, <2>1
<1>6. CASE ~Gone(Other(p))
  <2>1. PICK e : e = SentOn(p, out) /\ e = c \o out
    BY <1>3, <1>6 DEF SentOn
  <2>2. /\ e \in Seq(Segment) /\ Len(e) = Len(c) + k
        /\ \A i \in 1..Len(c) : e[i] = c[i]
        /\ \A i \in 1..k : e[Len(c) + i] = out[i]
    BY <1>4, <2>1, Joined
  <2>3. KernelTook(c, e, bytes, k) /\ KernelTookFd(c, e, FdFor(sockKind.type, fd), k)
    BY <1>4, <2>2 DEF KernelTook, KernelTookFd
  <2>4. Len(e) <= Room
    BY <1>2, <1>3, <2>2
  <2> QED BY <1>1, <1>2, <1>3, <1>6, <2>1, <2>2, <2>3, <2>4
<1> QED BY <1>5, <1>6

\* There are no more descriptors than items, when some of the head went out.
LEMMA ShortenedKind ==
    ASSUME NEW s \in SocketRecord, NEW t \in SocketRecord, QueueShape(s.queue), s.queue # <<>>,
           s.queue[1] # END_OF_FILE, NEW k \in Nat, Shortened(s.queue, t.queue, k),
           NEW strings, KindOK(strings, s), ~strings => t.fds = LeftFds(s.fds, k)
    PROVE  KindOK(strings, t)
<1>1. SUFFICES ASSUME ~strings PROVE Len(t.fds) <= DataItems(t.queue) /\ \A i \in DOMAIN t.queue : ~t.queue[i].str
  BY DEF KindOK
<1>2. PICK q \in Seq(QueueItem), v \in Seq(QueueItem) : q = s.queue /\ v = t.queue
  BY DEF SocketRecord
<1>3. PICK fds \in Seq(Nat) : fds = s.fds
  BY DEF SocketRecord
<1>4. PICK l \in Nat, d \in Nat : l = Len(fds) /\ d = DataItems(q) /\ l <= d /\ d # 0
  <2>1. Len(fds) <= DataItems(q)
    BY <1>1, <1>2, <1>3 DEF KindOK
  <2>2. DataItems(q) \in Nat /\ DataItems(q) # 0
    BY <1>2, DataItemsFacts
  <2> QED BY <2>1, <2>2
<1>5. \A i \in 1..Len(q) : ~q[i].str
  BY <1>1, <1>2 DEF KindOK
<1>6. PICK b \in Nat \ {0} : b = Len(q[1].bytes)
  <2>1. q[1].bytes # <<>> /\ q[1] \in QueueItem
    BY <1>2 DEF QueueShape
  <2>2. q[1].bytes \in Seq(Positive \X Positive)
    BY <2>1 DEF QueueItem
  <2> QED BY <2>1, <2>2
<1>7. DataItems(v) = IF k = b THEN d - 1 ELSE d
  BY <1>2, <1>4, <1>6, ShortenedWaits
<1>8. RestFds(fds) \in Seq(Nat) /\ Len(RestFds(fds)) = IF l = 0 THEN 0 ELSE l - 1
  BY <1>4, HeadTailProperties DEF RestFds
<1>9. Len(<<NextFd(fds)>> \o RestFds(fds)) = 1 + Len(RestFds(fds))
  BY <1>8
<1>10. t.fds = LeftFds(fds, k)
  BY <1>1, <1>3
<1>11. Len(t.fds) <= DataItems(v)
  BY <1>4, <1>6, <1>7, <1>8, <1>9, <1>10 DEF LeftFds
<1>12. \A i \in 1..Len(v) : ~v[i].str
  <2>1. Shortened(q, v, k)
    BY <1>2
  <2>2. CASE k = b
    <3>1. Len(v) = Len(q) - 1 /\ \A i \in 1..Len(v) : v[i] = q[i + 1]
      <4>1. k = Len(q[1].bytes) /\ ~(k < Len(q[1].bytes))
        BY <1>6, <2>2
      <4> QED BY <2>1, <4>1 DEF Shortened
    <3>2. \A i \in 1..Len(v) : i + 1 \in 1..Len(q)
      BY <3>1
    <3> QED BY <1>5, <3>1, <3>2
  <2>3. CASE k # b
    <3>1. Len(v) = Len(q) /\ (\A i \in 2..Len(q) : v[i] = q[i]) /\ ~v[1].str
      BY <1>6, <2>1, <2>3 DEF Shortened
    <3>2. ASSUME NEW i \in 1..Len(v) PROVE ~v[i].str
      <4>1. CASE i = 1
        BY <3>1, <4>1
      <4>2. CASE i # 1
        <5>1. i \in 2..Len(q) /\ i \in 1..Len(q)
          BY <3>1, <4>2
        <5> QED BY <1>5, <3>1, <5>1
      <4> QED BY <4>1, <4>2
    <3> QED BY <3>2
  <2> QED BY <2>2, <2>3
<1> QED BY <1>2, <1>11, <1>12

\* A socket that may send.
Sending(s) == s.writable /\ ~s.shut /\ ~s.destroyed

\* A socket with data at the head of its queue.
DataFirst(s) == QueueShape(s.queue) /\ s.queue # <<>> /\ s.queue[1] # END_OF_FILE

\* A step that writes from the head of a queue, of the socket s that the end has or, with a
\* write that need not wait, that it would have.
LEMMA OutputKeeps ==
    ASSUME SocketInv, NEW p \in End, NEW s \in SocketRecord, NEW t \in SocketRecord, NEW a \in AppRecord,
           Outgoing(p, s, a, chan[p]), KindOK(sockKind.strings, s), DataFirst(s), Sending(s), Sending(t),
           NEW bytes \in Seq(Positive \X Positive), bytes = s.queue[1].bytes, NEW k \in Takes(p, Len(bytes)),
           NEW fd \in Nat, ~sockKind.strings => fd = NextFd(s.fds), NEW out, out = WriteImpl(bytes, fd, k),
           Shortened(s.queue, t.queue, k), ~sockKind.strings => t.fds = LeftFds(s.fds, k),
           SockOK(t), Unread(p, t, a), Becomes(p, t, out), app' = [app EXCEPT ![p] = a],
           sockKind' = sockKind, link' = link
    PROVE  SocketInv'
<1> DEFINE q == Other(p)
<1>1. chan[p] \in Seq(Segment) /\ app[q] \in AppRecord /\ sock[q] \in SocketRecord
  BY Ends, EndFacts
<1>2. bytes # <<>>
  BY DEF DataFirst, QueueShape
<1>3. PICK e \in Seq(Segment) :
        /\ e = SentOn(p, out) /\ Len(e) <= Room /\ k \in 0..Len(bytes)
        /\ Gone(q) => e = chan[p]
        /\ ~Gone(q) => KernelTook(chan[p], e, bytes, k) /\ KernelTookFd(chan[p], e, FdFor(sockKind.type, fd), k)
  BY <1>2, SentOnFacts
<1>4. k \in Nat
  BY <1>3
<1>5. IF sock[q].fd = "closed" THEN e = chan[p] ELSE KernelTook(chan[p], e, s.queue[1].bytes, k)
  BY <1>3 DEF Gone
<1>6. BytesOK(t, a, e, sock[q], app[q])
  <2>1. BytesOK(s, a, chan[p], sock[q], app[q])
    BY DEF Outgoing
  <2> QED BY <1>1, <1>4, <1>5, <2>1, SentBytes DEF Sending, DataFirst
<1>7. ASSUME ~sockKind.strings PROVE FdsOK(sockKind.type, t, a, e, sock[q], app[q])
  <2>1. FdsOK(sockKind.type, s, a, chan[p], sock[q], app[q])
    BY <1>7 DEF Outgoing
  <2>2. ~app[q].sawEnd
    BY DEF Outgoing, BytesOK, Sending
  <2>3. FdFor(sockKind.type, fd) = FdWith(sockKind.type, s)
    BY <1>7 DEF FdFor, FdWith
  <2>4. \/ sock[q].fd = "closed" /\ e = chan[p]
        \/ sock[q].fd # "closed" /\ KernelTookFd(chan[p], e, FdWith(sockKind.type, s), k)
    BY <1>3, <2>3 DEF Gone
  <2>5. t.fds = LeftFds(s.fds, k)
    BY <1>7
  <2> QED BY <1>1, <1>4, <2>1, <2>2, <2>4, <2>5, SentFds DEF Sending
<1>8. Outgoing(p, t, a, SentOn(p, out))
  BY <1>3, <1>6, <1>7 DEF Outgoing
<1>9. KindOK(sockKind.strings, t)
  BY <1>4, ShortenedKind DEF DataFirst
<1>10. SentOn(p, out) \in Seq(Segment) /\ Len(SentOn(p, out)) <= Room
  BY <1>3
<1> QED BY <1>8, <1>9, <1>10, SenderKeeps

\* The descriptor fd, the item and the application of the kth write of the application b.
WriteFd(fd, k) == fd = 0 \/ (fd = k /\ sockKind.type = "unix")

\* The item of the kth write.
WriteItem(item, k) == item = [bytes |-> Bytes(k), str |-> sockKind.strings]

\* The application b is a after its kth write.
Wrote(a, b, k, fd) == a = [b EXCEPT !.written = k, !.sent = Told(b.sent, fd)]

\* The kth write of an application may wait: it leaves the socket t and the application a.
WriteWaits(p, k, fd, item, t, a) ==
    /\ Runs(p) /\ sock[p].writable /\ ~EndIsQueued(sock[p])
    /\ k = app[p].written + 1 /\ k <= MaxWrites
    /\ WriteFd(fd, k) /\ WriteItem(item, k) /\ t = Enqueue(sock[p], item, fd) /\ Wrote(a, app[p], k, fd)

\* The socket and the application after a write that waits.
LEMMA EnqueueKeeps ==
    ASSUME SocketInv, NEW p \in End, NEW k, NEW fd, NEW item, NEW t, NEW a, WriteWaits(p, k, fd, item, t, a)
    PROVE  /\ k \in Nat \ {0} /\ fd \in Nat /\ item \in QueueItem
           /\ t \in SocketRecord /\ a \in AppRecord /\ Sending(t) /\ Sending(sock[p])
           /\ Outgoing(p, t, a, chan[p]) /\ KindOK(sockKind.strings, t) /\ Unread(p, t, a)
           /\ QueueShape(t.queue) /\ t.flushing = "no" /\ t.fds = Told(sock[p].fds, fd)
           /\ sock[p].queue # <<>> \/ sock[p].connecting => SockOK(t)
           /\ sock[p].queue = <<>> => t.queue = <<item>>
<1> DEFINE q == Other(p)  s == sock[p]
<1> USE DEF WriteWaits
<1>1. /\ s \in SocketRecord /\ app[p] \in AppRecord /\ SockOK(s) /\ KindOK(sockKind.strings, s)
      /\ chan[p] \in Seq(Segment) /\ Outgoing(p, s, app[p], chan[p]) /\ app[q] \in AppRecord /\ sock[q] \in SocketRecord
  BY Ends, EndFacts
<1>2. PICK w \in 0..MaxWrites : w = app[p].written
  BY <1>1 DEF AppRecord
<1>3. k \in 1..MaxWrites /\ k \in Nat \ {0} /\ fd \in Nat /\ k = w + 1 /\ w \in Nat
  BY <1>2, SocketAssumption DEF WriteFd
<1>4. item \in QueueItem /\ item.bytes = Bytes(k) /\ item.str = sockKind.strings
  <2>1. Bytes(w + 1) \in Seq(Positive \X Positive)
    BY <1>3, BytesOfWrite
  <2>2. sockKind.strings \in BOOLEAN
    BY DEF SocketInv, SocketTypes
  <2> QED BY <1>3, <2>1, <2>2 DEF QueueItem, WriteItem
<1>5. Sending(s) /\ s.flushing = "no" /\ QueueShape(s.queue)
  BY <1>1 DEF Sending, SockOK, Runs
<1>a. PICK queue \in Seq(QueueItem) : queue = s.queue
  BY <1>1 DEF SocketRecord
<1>b. PICK queue2 :
        queue2 = (IF s.queue # <<>> /\ item.str /\ s.queue[Len(s.queue)].str
                  THEN [s.queue EXCEPT ![Len(s.queue)] =
                          [bytes |-> s.queue[Len(s.queue)].bytes \o item.bytes, str |-> TRUE]]
                  ELSE Append(s.queue, item))
  OBVIOUS
<1>c. PICK fds2 : fds2 = Told(s.fds, fd)
  OBVIOUS
<1>6. /\ queue = s.queue
      /\ queue2 = (IF s.queue # <<>> /\ item.str /\ s.queue[Len(s.queue)].str
                   THEN [s.queue EXCEPT ![Len(s.queue)] =
                           [bytes |-> s.queue[Len(s.queue)].bytes \o item.bytes, str |-> TRUE]]
                   ELSE Append(s.queue, item))
      /\ fds2 = Told(s.fds, fd)
  BY <1>a, <1>b, <1>c
<1>7. t = [s EXCEPT !.queue = queue2, !.fds = fds2]
  BY <1>6 DEF Enqueue, Told
<1>8. queue2 \in Seq(QueueItem) /\ Enqueued(queue, queue2, item) /\ queue2 # <<>>
  <2>1. CASE queue # <<>> /\ item.str /\ queue[Len(queue)].str
    <3>1. PICK x : x = [bytes |-> queue[Len(queue)].bytes \o item.bytes, str |-> TRUE]
      OBVIOUS
    <3>2. queue[Len(queue)] \in QueueItem
      BY <2>1
    <3>3. queue[Len(queue)].bytes \in Seq(Positive \X Positive) /\ item.bytes \in Seq(Positive \X Positive)
      BY <1>4, <3>2 DEF QueueItem
    <3>4. x \in QueueItem
      BY <3>1, <3>3, Joined DEF QueueItem
    <3>5. queue2 = [queue EXCEPT ![Len(queue)] = x]
      BY <1>6, <2>1, <3>1
    <3>6. queue2 \in Seq(QueueItem) /\ queue2 # <<>>
      BY <2>1, <3>4, <3>5
    <3> QED BY <2>1, <3>1, <3>5, <3>6 DEF Enqueued
  <2>2. CASE ~(queue # <<>> /\ item.str /\ queue[Len(queue)].str)
    <3>1. queue2 = Append(queue, item)
      BY <1>6, <2>2
    <3>a. item \in QueueItem
      BY <1>4
    <3>2. Append(queue, item) \in Seq(QueueItem) /\ Append(queue, item) # <<>>
      BY <3>a
    <3> QED BY <3>1, <3>2 DEF Enqueued
  <2> QED BY <2>1, <2>2
<1>9. fds2 \in Seq(Nat)
  <2>1. s.fds \in Seq(Nat)
    BY <1>1 DEF SocketRecord
  <2> QED BY <1>3, <1>6, <2>1, Appended DEF Told
<1>10. /\ t \in SocketRecord /\ t.queue = queue2 /\ t.fds = fds2 /\ t.fd = s.fd /\ t.recvFd = s.recvFd
       /\ t.writable = s.writable /\ t.shut = s.shut /\ t.destroyed = s.destroyed /\ t.flushing = s.flushing
       /\ t.connecting = s.connecting /\ t.writeWatcher = s.writeWatcher
  BY <1>1, <1>7, <1>8, <1>9 DEF SocketRecord
<1>11. PICK sent2 \in Seq(Nat) : sent2 = Told(app[p].sent, fd)
  <2>1. app[p].sent \in Seq(Nat)
    BY <1>1 DEF AppRecord
  <2> QED BY <1>3, <2>1, Appended DEF Told
<1>12. a = [app[p] EXCEPT !.written = k, !.sent = sent2]
  BY <1>11 DEF Wrote
<1>13. /\ a \in AppRecord /\ a.written = k /\ a.sent = sent2 /\ a.aborted = app[p].aborted /\ a.got = app[p].got
       /\ a.fds = app[p].fds /\ a.sawEnd = app[p].sawEnd
  <2>1. k \in 0..MaxWrites
    BY <1>3
  <2> QED BY <1>1, <1>11, <1>12, <2>1 DEF AppRecord
<1>14. Unread(p, t, a)
  BY <1>10, <1>13 DEF Unread
<1>15. Sending(t)
  BY <1>5, <1>10 DEF Sending
<1>16. /\ BytesOK(t, a, chan[p], sock[q], app[q]) /\ QueueShape(t.queue) /\ DataItems(t.queue) >= DataItems(s.queue)
       /\ DataItems(t.queue) = Len(t.queue)
       /\ (t.queue = Append(s.queue, item) => DataItems(t.queue) = DataItems(s.queue) + 1)
  <2>1. BytesOK(s, app[p], chan[p], sock[q], app[q])
    BY <1>1 DEF Outgoing
  <2>2. a.written = app[p].written + 1 /\ item.bytes = Bytes(a.written) /\ Enqueued(s.queue, t.queue, item)
    BY <1>2, <1>4, <1>6, <1>8, <1>10, <1>13
  <2>3. QueueShape(s.queue) /\ ~EndIsQueued(s) /\ s.writable /\ ~s.shut /\ ~s.destroyed
    BY <1>5 DEF Sending
  <2>4. t.writable /\ ~t.shut /\ ~t.destroyed
    BY <1>15 DEF Sending
  <2>5. /\ s \in SocketRecord /\ t \in SocketRecord /\ app[p] \in AppRecord /\ a \in AppRecord
        /\ chan[p] \in Seq(Segment) /\ app[q] \in AppRecord /\ item \in QueueItem /\ a.aborted = app[p].aborted
    BY <1>1, <1>4, <1>10, <1>13
  <2> HIDE DEF q, s
  <2> QED BY <2>1, <2>2, <2>3, <2>4, <2>5, EnqueueBytes
<1>17. ASSUME ~sockKind.strings PROVE FdsOK(sockKind.type, t, a, chan[p], sock[q], app[q])
  <2>1. FdsOK(sockKind.type, s, app[p], chan[p], sock[q], app[q])
    BY <1>1, <1>17 DEF Outgoing
  <2>2. ~app[q].sawEnd
    BY <1>1, <1>5 DEF Outgoing, BytesOK, Sending
  <2>3. a.written = app[p].written + 1 /\ (fd = 0 \/ (fd = a.written /\ sockKind.type = "unix"))
    BY <1>2, <1>3, <1>13 DEF WriteFd
  <2>4. t.fds = Told(s.fds, fd) /\ a.sent = Told(app[p].sent, fd)
    BY <1>6, <1>10, <1>11, <1>13
  <2> QED BY <1>1, <1>5, <1>13, <1>15, <2>1, <2>2, <2>3, <2>4, EnqueueFds DEF Sending
<1>18. Outgoing(p, t, a, chan[p])
  BY <1>16, <1>17 DEF Outgoing
<1>19. KindOK(sockKind.strings, t)
  <2>1. SUFFICES ASSUME ~sockKind.strings
                 PROVE  Len(fds2) <= DataItems(queue2) /\ \A i \in DOMAIN queue2 : ~queue2[i].str
    BY <1>10 DEF KindOK
  <2>2. Len(s.fds) <= DataItems(queue) /\ \A i \in 1..Len(queue) : ~queue[i].str
    BY <1>1, <1>6, <2>1 DEF KindOK
  <2>3. queue2 = Append(queue, item) /\ ~item.str
    BY <1>4, <1>6, <2>1
  <2>4. DataItems(queue2) = DataItems(queue) + 1
    BY <1>6, <1>10, <1>16, <2>3
  <2>5. /\ Len(queue2) = Len(queue) + 1 /\ queue2[Len(queue) + 1] = item /\ DOMAIN queue2 = 1..(Len(queue) + 1)
        /\ Len(queue) \in Nat /\ \A i \in 1..Len(queue) : queue2[i] = queue[i]
    BY <1>4, <1>8, <2>3, Appended
  <2>6. PICK fds \in Seq(Nat), l \in Nat : fds = s.fds /\ l = Len(fds)
    BY <1>1 DEF SocketRecord
  <2>7. Len(fds2) = l \/ Len(fds2) = l + 1
    BY <1>3, <1>6, <2>6, Appended DEF Told
  <2>8. DataItems(queue) \in Nat /\ l <= DataItems(queue)
    BY <1>5, <1>6, <2>2, <2>6, DataItemsFacts
  <2>9. Len(fds2) <= DataItems(queue2)
    BY <2>4, <2>7, <2>8
  <2>10. ASSUME NEW i \in 1..(Len(queue) + 1) PROVE ~queue2[i].str
    <3>1. CASE i = Len(queue) + 1
      BY <2>3, <2>5, <3>1
    <3>2. CASE i # Len(queue) + 1
      <4>1. i \in 1..Len(queue)
        BY <2>5, <3>2
      <4> QED BY <2>2, <2>5, <4>1
    <3> QED BY <3>1, <3>2
  <2> QED BY <2>5, <2>9, <2>10
<1>20. s.queue # <<>> \/ s.connecting => SockOK(t)
  BY <1>1, <1>5, <1>10, <1>16 DEF SockOK, Sending
<1>21. s.queue = <<>> => t.queue = <<item>>
  BY <1>6, <1>10
<1> HIDE DEF WriteWaits
<1> QED BY <1>3, <1>4, <1>5, <1>6, <1>10, <1>13, <1>14, <1>15, <1>16, <1>18, <1>19, <1>20, <1>21

\* The rest of an item that was written in part.
RestItem(bytes, k) == [bytes |-> SubSeq(bytes, k + 1, Len(bytes)), str |-> FALSE]

\* It is an item of data again.
LEMMA RestIsItem ==
    ASSUME NEW bytes \in Seq(Positive \X Positive), NEW k \in Nat, k < Len(bytes)
    PROVE  RestItem(bytes, k) \in QueueItem /\ RestItem(bytes, k).bytes # <<>>
<1>1. PICK l \in Nat : l = Len(bytes) /\ k < l
  OBVIOUS
<1>2. k \in 0..Len(bytes)
  BY <1>1
<1>3. PICK rest \in Seq(Positive \X Positive) : rest = SubSeq(bytes, k + 1, Len(bytes)) /\ Len(rest) = l - k
  BY <1>1, <1>2, SuffixFacts
<1>4. l - k \in Nat \ {0}
  BY <1>1
<1>5. rest # <<>>
  BY <1>3, <1>4
<1>6. RestItem(bytes, k) = [bytes |-> rest, str |-> FALSE]
  BY <1>3 DEF RestItem
<1> QED BY <1>5, <1>6 DEF QueueItem

\* What is put in front of a sequence.
LEMMA Pushed ==
    ASSUME NEW T, NEW s \in Seq(T), NEW x \in T
    PROVE  /\ <<x>> \o s \in Seq(T) /\ Len(<<x>> \o s) = Len(s) + 1 /\ (<<x>> \o s)[1] = x
           /\ \A i \in 1..Len(s) : (<<x>> \o s)[i + 1] = s[i]
OBVIOUS

\* The queue r of a socket without its head, or with the rest of it in front.
LEMMA ShortenedFacts ==
    ASSUME NEW q \in Seq(QueueItem), NEW r \in Seq(QueueItem), q # <<>>, Len(r) = Len(q) - 1,
           \A i \in 1..Len(r) : r[i] = q[i + 1], NEW bytes \in Seq(Positive \X Positive), bytes = q[1].bytes,
           NEW k \in 0..Len(bytes)
    PROVE  /\ k = Len(bytes) => Shortened(q, r, k)
           /\ k # Len(bytes) => /\ <<RestItem(bytes, k)>> \o r \in Seq(QueueItem)
                                /\ Shortened(q, <<RestItem(bytes, k)>> \o r, k)
<1>1. CASE k = Len(bytes)
  BY <1>1 DEF Shortened
<1>2. CASE k # Len(bytes)
  <2>1. k \in Nat /\ k < Len(bytes)
    BY <1>2
  <2>2. PICK x \in QueueItem : x = RestItem(bytes, k)
    BY <2>1, RestIsItem
  <2>3. x.bytes = SubSeq(bytes, k + 1, Len(bytes)) /\ ~x.str
    BY <2>2 DEF RestItem
  <2>4. PICK v \in Seq(QueueItem) :
          /\ v = <<x>> \o r /\ Len(v) = Len(r) + 1 /\ v[1] = x /\ \A i \in 1..Len(r) : v[i + 1] = r[i]
    <3>1. /\ <<x>> \o r \in Seq(QueueItem) /\ Len(<<x>> \o r) = Len(r) + 1 /\ (<<x>> \o r)[1] = x
          /\ \A i \in 1..Len(r) : (<<x>> \o r)[i + 1] = r[i]
      BY Pushed
    <3> QED BY <3>1
  <2>5. PICK l \in Nat \ {0} : l = Len(q) /\ Len(r) = l - 1 /\ Len(v) = l
    <3>1. Len(q) \in Nat \ {0} /\ Len(r) \in Nat
      OBVIOUS
    <3> QED BY <2>4, <3>1
  <2>6. ASSUME NEW i \in 2..l PROVE v[i] = q[i]
    <3>1. PICK j \in 1..(l - 1) : j + 1 = i
      <4>1. i - 1 \in 1..(l - 1) /\ (i - 1) + 1 = i
        OBVIOUS
      <4> QED BY <4>1
    <3>2. v[j + 1] = r[j] /\ r[j] = q[j + 1]
      BY <2>4, <2>5
    <3> QED BY <3>1, <3>2
  <2>7. Shortened(q, v, k)
    BY <2>1, <2>3, <2>4, <2>5, <2>6 DEF Shortened
  <2> QED BY <1>2, <2>2, <2>4, <2>7
<1> QED BY <1>1, <1>2

\* The socket after some bytes of an item went out.
LEMMA WriteOutFacts ==
    ASSUME NEW s \in SocketRecord, NEW bytes \in Seq(Positive \X Positive), NEW k \in 0..Len(bytes), NEW fd \in Nat,
           NEW item, item.bytes = bytes, NEW t, t = WriteOut(s, item, fd, k)
    PROVE  /\ t \in SocketRecord /\ t.writable = s.writable /\ t.shut = s.shut /\ t.destroyed = s.destroyed
           /\ t.fd = s.fd /\ t.recvFd = s.recvFd /\ t.connecting = s.connecting /\ t.flushing = s.flushing
           /\ t.destroyOnDrain = s.destroyOnDrain
           /\ k = Len(bytes) => t = s
           /\ k # Len(bytes) => /\ t.writeWatcher /\ t.queue = <<RestItem(bytes, k)>> \o s.queue
                                /\ t.fds = IF k = 0 THEN <<fd>> \o s.fds ELSE s.fds
<1>1. CASE k = Len(bytes)
  <2>1. t = s
    BY <1>1 DEF WriteOut
  <2> QED BY <1>1, <2>1
<1>2. CASE k # Len(bytes)
  <2>1. k \in Nat /\ k < Len(bytes)
    BY <1>2
  <2>2. PICK x \in QueueItem : x = RestItem(bytes, k)
    BY <2>1, RestIsItem
  <2>3. s.queue \in Seq(QueueItem) /\ s.fds \in Seq(Nat)
    BY DEF SocketRecord
  <2>4. PICK queue \in Seq(QueueItem) : queue = <<x>> \o s.queue
    BY <2>3, Pushed
  <2>5. PICK fds \in Seq(Nat) : fds = IF k = 0 THEN <<fd>> \o s.fds ELSE s.fds
    <3>1. <<fd>> \o s.fds \in Seq(Nat)
      BY <2>3, Pushed
    <3> QED BY <2>3, <3>1
  <2>6. t = [s EXCEPT !.writeWatcher = TRUE, !.queue = queue, !.fds = fds]
    BY <1>2, <2>2, <2>4, <2>5 DEF WriteOut, RestItem
  <2>7. /\ t \in SocketRecord /\ t.writable = s.writable /\ t.shut = s.shut /\ t.destroyed = s.destroyed
        /\ t.fd = s.fd /\ t.recvFd = s.recvFd /\ t.connecting = s.connecting /\ t.flushing = s.flushing
        /\ t.destroyOnDrain = s.destroyOnDrain
        /\ t.writeWatcher /\ t.queue = queue /\ t.fds = fds
    BY <2>6 DEF SocketRecord
  <2> QED BY <1>2, <2>2, <2>4, <2>5, <2>7
<1> QED BY <1>1, <1>2

\* write.
LEMMA SocketWriteKeeps == ASSUME SocketInv, NEW p \in End, NEW fd, SocketWrite(p, fd) PROVE SocketInv'
<1> DEFINE s == sock[p]
<1>1. /\ s \in SocketRecord /\ app[p] \in AppRecord /\ SockOK(s) /\ KindOK(sockKind.strings, s) /\ app \in [End -> AppRecord]
  BY EndFacts DEF SocketInv, SocketTypes
<1>a. PICK k : k = app[p].written + 1
  OBVIOUS
<1>b. PICK item : item = [bytes |-> Bytes(k), str |-> sockKind.strings]
  OBVIOUS
<1>2. k = app[p].written + 1 /\ WriteItem(item, k)
  BY <1>a, <1>b DEF WriteItem
<1>c. PICK a : a = [app[p] EXCEPT !.written = k, !.sent = Told(app[p].sent, fd)]
  OBVIOUS
<1>3. Wrote(a, app[p], k, fd)
  BY <1>c DEF Wrote
<1>4. PICK t : t = Enqueue(s, item, fd)
  OBVIOUS
<1>5. /\ Runs(p) /\ s.writable /\ ~EndIsQueued(s) /\ WriteFd(fd, k) /\ sockKind' = sockKind /\ link' = link
  BY <1>2 DEF SocketWrite, WriteFd
<1>6. k <= MaxWrites
  <2>1. k <= IF p = "client" THEN MaxWrites ELSE MaxAnswers
    BY <1>2 DEF SocketWrite
  <2>2. app[p].written \in 0..MaxWrites
    BY <1>1 DEF AppRecord
  <2> QED BY <1>2, <2>1, <2>2, SocketAssumption
<1>7. /\ k \in Nat \ {0} /\ fd \in Nat /\ item \in QueueItem
      /\ t \in SocketRecord /\ a \in AppRecord /\ Sending(t) /\ Sending(s)
      /\ Outgoing(p, t, a, chan[p]) /\ KindOK(sockKind.strings, t) /\ Unread(p, t, a)
      /\ QueueShape(t.queue) /\ t.flushing = "no" /\ t.fds = Told(s.fds, fd)
      /\ s.queue # <<>> \/ s.connecting => SockOK(t)
      /\ s.queue = <<>> => t.queue = <<item>>
  <2>1. /\ Runs(p) /\ sock[p].writable /\ ~EndIsQueued(sock[p]) /\ t = Enqueue(sock[p], item, fd)
        /\ WriteFd(fd, k)
    BY <1>4, <1>5
  <2>2. k = app[p].written + 1 /\ WriteItem(item, k) /\ k <= MaxWrites /\ Wrote(a, app[p], k, fd)
    BY <1>2, <1>3, <1>6
  <2>0. WriteWaits(p, k, fd, item, t, a)
    BY <2>1, <2>2 DEF WriteWaits
  <2>3. /\ k \in Nat \ {0} /\ fd \in Nat /\ item \in QueueItem
        /\ t \in SocketRecord /\ a \in AppRecord /\ Sending(t) /\ Sending(sock[p])
        /\ Outgoing(p, t, a, chan[p]) /\ KindOK(sockKind.strings, t) /\ Unread(p, t, a)
        /\ QueueShape(t.queue) /\ t.flushing = "no" /\ t.fds = Told(sock[p].fds, fd)
        /\ sock[p].queue # <<>> \/ sock[p].connecting => SockOK(t)
        /\ sock[p].queue = <<>> => t.queue = <<item>>
    <3> HIDE DEF s
    <3> QED BY <2>0, EnqueueKeeps
  <2> QED BY <2>3
<1>d. k \in Nat \ {0} /\ fd \in Nat
  BY <1>7
<1>e. PICK w \in Nat : k = w + 1
  BY <1>d
<1>8. item.bytes = Bytes(k)
  BY <1>2 DEF WriteItem
<1>9. CASE s.connecting \/ s.queue # <<>>
  <2>1. Becomes(p, t, <<>>)
    BY <1>2, <1>4, <1>9 DEF SocketWrite, WriteItem
  <2>2. app' = [app EXCEPT ![p] = a]
    BY <1>1, <1>2, <1>3, <1>9 DEF SocketWrite, Wrote, Told
  <2> QED BY <1>5, <1>7, <1>9, <2>1, <2>2, SilentKeeps
<1>10. CASE ~s.connecting /\ s.queue = <<>> /\ WriteFails(p) /\ Becomes(p, Destroy(s), <<>>)
            /\ app' = [app EXCEPT ![p].written = k, ![p].aborted = TRUE]
  <2>1. PICK d : d = [app[p] EXCEPT !.written = k, !.aborted = TRUE]
    OBVIOUS
  <2>2. k \in 0..MaxWrites
    BY <1>6, <1>7, SocketAssumption
  <2>3. /\ d \in AppRecord /\ d.aborted /\ d.sent = app[p].sent /\ d.written = app[p].written + 1
        /\ d.got = app[p].got /\ d.fds = app[p].fds /\ d.sawEnd = app[p].sawEnd
    BY <1>1, <1>2, <2>1, <2>2 DEF AppRecord
  <2>4. app' = [app EXCEPT ![p] = d]
    BY <1>1, <1>10, <2>1
  <2>5. s \in SocketRecord /\ s.recvFd = sock[p].recvFd /\ s.fd = sock[p].fd /\ Becomes(p, Destroy(s), <<>>)
    BY <1>1, <1>10
  <2>6. sockKind' = sockKind /\ link' = link
    BY <1>5
  <2> HIDE DEF s
  <2> QED BY <2>3, <2>4, <2>5, <2>6, AbortKeeps
<1>11. ASSUME ~s.connecting, s.queue = <<>>, NEW n \in Takes(p, WriteSize),
              Becomes(p, WriteOut(s, item, fd, n), WriteImpl(item.bytes, fd, n)), app' = [app EXCEPT ![p] = a]
       PROVE  SocketInv'
  <2>1. PICK bytes \in Seq(Positive \X Positive) : bytes = item.bytes /\ Len(bytes) = WriteSize /\ bytes # <<>>
    <3>2. item.bytes \in Seq(Positive \X Positive) /\ Len(item.bytes) = WriteSize
      BY <1>8, <1>e, BytesOfWrite
    <3>3. Len(item.bytes) \in Nat \ {0}
      BY <3>2 DEF WriteSize
    <3>4. item.bytes # <<>>
      BY <3>3
    <3> QED BY <3>2, <3>4
  <2>2. n \in Takes(p, Len(bytes)) /\ n \in 0..Len(bytes) /\ n \in Nat
    BY <1>11, <2>1, TakesFacts DEF WriteSize
  <2>3. PICK u \in SocketRecord :
          /\ u = WriteOut(s, item, fd, n) /\ u.writable = s.writable /\ u.shut = s.shut /\ u.destroyed = s.destroyed
          /\ u.fd = s.fd /\ u.recvFd = s.recvFd /\ u.connecting = s.connecting /\ u.flushing = s.flushing
          /\ n = Len(bytes) => u = s
          /\ n # Len(bytes) => /\ u.writeWatcher /\ u.queue = <<RestItem(bytes, n)>> \o s.queue
                               /\ u.fds = IF n = 0 THEN <<fd>> \o s.fds ELSE s.fds
    <3>1. s \in SocketRecord /\ item.bytes = bytes
      BY <1>1, <2>1
    <3>2. PICK u : u = WriteOut(s, item, fd, n)
      OBVIOUS
    <3> HIDE DEF s
    <3>3. /\ u \in SocketRecord /\ u.writable = s.writable /\ u.shut = s.shut /\ u.destroyed = s.destroyed
          /\ u.fd = s.fd /\ u.recvFd = s.recvFd /\ u.connecting = s.connecting /\ u.flushing = s.flushing
          /\ n = Len(bytes) => u = s
          /\ n # Len(bytes) => /\ u.writeWatcher /\ u.queue = <<RestItem(bytes, n)>> \o s.queue
                               /\ u.fds = IF n = 0 THEN <<fd>> \o s.fds ELSE s.fds
      BY <1>d, <2>2, <3>1, <3>2, WriteOutFacts
    <3> QED BY <3>2, <3>3
  <2>4. PICK queue \in Seq(QueueItem), rest \in Seq(QueueItem) :
          /\ queue = t.queue /\ queue = <<item>> /\ rest = s.queue /\ rest = <<>>
          /\ queue # <<>> /\ Len(rest) = Len(queue) - 1 /\ queue[1] = item
    <3>1. <<item>> \in Seq(QueueItem) /\ <<>> \in Seq(QueueItem) /\ Len(<<>>) = Len(<<item>>) - 1
          /\ <<item>> # <<>> /\ <<item>>[1] = item
      BY <1>7
    <3> QED BY <1>7, <1>11, <3>1
  <2>5. DataFirst(t)
    <3>1. item # END_OF_FILE
      BY <2>1, EndIsItem
    <3> QED BY <1>7, <2>4, <3>1 DEF DataFirst
  <2>6. Shortened(t.queue, u.queue, n)
    <3>1. \A i \in 1..Len(rest) : rest[i] = queue[i + 1]
      BY <2>4
    <3>2. /\ n = Len(bytes) => Shortened(queue, rest, n)
          /\ n # Len(bytes) => Shortened(queue, <<RestItem(bytes, n)>> \o rest, n)
      BY <2>1, <2>2, <2>4, <3>1, ShortenedFacts
    <3> QED BY <2>3, <2>4, <3>2
  <2>7. ASSUME ~sockKind.strings PROVE fd = NextFd(t.fds) /\ u.fds = LeftFds(t.fds, n)
    <3>1. s.fds = <<>>
      <4>1. DataItems(s.queue) = 0
        BY <1>11 DEF DataItems
      <4> QED BY <1>1, <2>7, <4>1, ShutIsEmpty
    <3>2. t.fds = Told(<<>>, fd)
      BY <1>7, <3>1
    <3>3. NextFd(t.fds) = fd /\ RestFds(t.fds) = <<>>
      <4>1. CASE fd = 0
        BY <3>2, <4>1 DEF Told, NextFd, RestFds
      <4>2. CASE fd # 0
        <5>1. t.fds = <<fd>>
          BY <3>2, <4>2 DEF Told
        <5>2. Head(<<fd>>) = fd /\ Tail(<<fd>>) = <<>> /\ <<fd>> # <<>>
          OBVIOUS
        <5> QED BY <5>1, <5>2 DEF NextFd, RestFds
      <4> QED BY <4>1, <4>2
    <3>4. Len(bytes) # 0
      BY <2>1 DEF WriteSize
    <3>5. u.fds = IF n = 0 THEN <<fd>> \o <<>> ELSE <<>>
      BY <2>3, <3>1, <3>4
    <3> QED BY <3>3, <3>5 DEF LeftFds
  <2>8. Sending(u) /\ Unread(p, u, a)
    <3>1. Sending(u)
      BY <1>7, <2>3 DEF Sending
    <3>2. /\ t.fd = s.fd /\ t.recvFd = s.recvFd
      BY <1>1, <1>4 DEF Enqueue, SocketRecord
    <3> QED BY <1>7, <2>3, <3>1, <3>2 DEF Unread
  <2>9. SockOK(u)
    <3>1. CASE n = Len(bytes)
      BY <1>1, <2>3, <3>1
    <3>2. CASE n # Len(bytes)
      <4>1. QueueShape(u.queue)
        <5>1. Shortened(queue, u.queue, n) /\ QueueShape(queue) /\ queue[1] # END_OF_FILE
          BY <2>4, <2>5, <2>6 DEF DataFirst
        <5>2. u.queue \in Seq(QueueItem)
          BY <2>3 DEF SocketRecord
        <5> QED BY <2>2, <2>4, <5>1, <5>2, ShortenedWaits
      <4> QED BY <1>1, <1>7, <2>3, <3>2, <4>1 DEF SockOK, Sending
    <3> QED BY <3>1, <3>2
  <2>10. PICK out : out = WriteImpl(bytes, fd, n)
    OBVIOUS
  <2>11. Becomes(p, u, out) /\ app' = [app EXCEPT ![p] = a] /\ bytes = t.queue[1].bytes
    BY <1>11, <2>1, <2>3, <2>4, <2>10
  <2> HIDE DEF s
  <2> QED BY <1>5, <1>7, <2>2, <2>5, <2>6, <2>7, <2>8, <2>9, <2>10, <2>11, OutputKeeps
<1>12. \/ s.connecting \/ s.queue # <<>>
       \/ ~s.connecting /\ s.queue = <<>> /\ WriteFails(p) /\ Becomes(p, Destroy(s), <<>>)
            /\ app' = [app EXCEPT ![p].written = k, ![p].aborted = TRUE]
       \/ /\ ~s.connecting /\ s.queue = <<>>
          /\ \E n \in Takes(p, WriteSize) : Becomes(p, WriteOut(s, item, fd, n), WriteImpl(item.bytes, fd, n))
          /\ app' = [app EXCEPT ![p].written = k, ![p].sent = IF fd = 0 THEN @ ELSE Append(@, fd)]
  BY <1>2 DEF SocketWrite, WriteItem
<1>13. app' = [app EXCEPT ![p].written = k, ![p].sent = IF fd = 0 THEN @ ELSE Append(@, fd)]
         => app' = [app EXCEPT ![p] = a]
  BY <1>1, <1>3 DEF Wrote, Told
<1> QED BY <1>9, <1>10, <1>11, <1>12, <1>13

-----------------------------------------------------------------------------
\* A step that leaves an empty queue, of a socket that has no data in its queue.
LEMMA DrainKeeps ==
    ASSUME SocketInv, NEW p \in End, NEW u \in SocketRecord,
           Becomes(p, u, <<>>), app' = app, sockKind' = sockKind, link' = link,
           ~sock[p].destroyed, DataItems(sock[p].queue) = 0, u.queue = <<>>, ~u.writable,
           ~sockKind.strings => u.fds = <<>>, SockOK(u), u.recvFd = sock[p].recvFd
    PROVE  SocketInv'
<1> DEFINE q == Other(p)  s == sock[p]
<1>1. /\ s \in SocketRecord /\ app[p] \in AppRecord /\ SockOK(s) /\ KindOK(sockKind.strings, s)
      /\ Outgoing(p, s, app[p], chan[p]) /\ app \in [End -> AppRecord]
  BY EndFacts DEF SocketInv, SocketTypes
<1>2. KindOK(sockKind.strings, u)
  <2>1. DataItems(<<>>) = 0 /\ Len(<<>>) = 0
    BY DEF DataItems
  <2> QED BY <2>1 DEF KindOK
<1>3. s.fd # "closed" /\ (~sockKind.strings => s.fds = <<>>)
  BY <1>1, ShutIsEmpty DEF SockOK
<1>4. BytesOK(u, app[p], chan[p], sock[q], app[q])
  BY <1>1, DrainBytes DEF Outgoing
<1>5. ~sockKind.strings => FdsOK(sockKind.type, u, app[p], chan[p], sock[q], app[q])
  BY <1>1, <1>3, DrainFds DEF Outgoing
<1>6. Outgoing(p, u, app[p], chan[p])
  BY <1>4, <1>5 DEF Outgoing
<1>7. Unread(p, u, app[p])
  BY <1>3 DEF Unread
<1>8. app' = [app EXCEPT ![p] = app[p]]
  BY <1>1
<1> QED BY <1>1, <1>2, <1>6, <1>7, <1>8, SilentKeeps

\* A flush that took all leaves the socket as it is but for flushing, or destroys it; while it
\* is connecting, it destroys it.
LEMMA FlushedAll ==
    ASSUME NEW s \in SocketRecord, s.queue = <<>>, NEW u, u = Flushed(s, TRUE), ~s.writable => s.shut \/ s.destroyed,
           s.fd = "closed" => s.destroyed, s.shut => ~s.writable, s.connecting => s.flushing = "soon" \/ s.destroyed,
           s.destroyed => SockOK(s)
    PROVE  /\ u \in SocketRecord /\ SockOK(u) /\ u.queue = <<>> /\ u.recvFd = s.recvFd
           /\ u.fds = <<>> \/ u.fds = s.fds
           /\ \/ ~u.writable
              \/ /\ SameQueue(s, u) /\ u.fd = s.fd
<1>1. PICK t : t = [s EXCEPT !.flushing = "no"]
  OBVIOUS
<1>2. t \in SocketRecord /\ SameQueue(s, t) /\ t.fd = s.fd /\ t.recvFd = s.recvFd /\ t.flushing = "no"
      /\ t.connecting = s.connecting /\ t.readWatcher = s.readWatcher /\ t.writeWatcher = s.writeWatcher
  BY <1>1 DEF SocketRecord, SameQueue
<1>3. CASE s.flushing = "soon" \/ (s.flushing = "writable" /\ s.destroyOnDrain)
  <2>1. u = Destroy(t)
    BY <1>1, <1>3 DEF Flushed
  <2> QED BY <1>2, <2>1, DestroyFacts
<1>4. CASE ~(s.flushing = "soon" \/ (s.flushing = "writable" /\ s.destroyOnDrain))
  <2>1. u = t
    BY <1>1, <1>4 DEF Flushed
  <2>2. QueueShape(<<>>)
    BY DEF QueueShape
  <2>3. SockOK(t)
    <3>1. t.queue = <<>> /\ t.destroyed = s.destroyed /\ t.shut = s.shut /\ t.writable = s.writable /\ t.fds = s.fds
      BY <1>2 DEF SameQueue
    <3>2. CASE s.destroyed
      BY <1>2, <2>2, <3>1, <3>2 DEF SockOK
    <3>3. CASE ~s.destroyed
      <4>1. ~t.connecting
        BY <1>2, <1>4, <3>3
      <4>2. t.shut => ~t.writable
        BY <3>1, <3>3
      <4> QED BY <1>2, <2>2, <3>1, <3>3, <4>1, <4>2 DEF SockOK
    <3> QED BY <3>2, <3>3
  <2> QED BY <1>2, <2>1, <2>3 DEF SameQueue
<1> QED BY <1>3, <1>4

\* A flush that finds nothing in the queue.
LEMMA FlushNothing ==
    ASSUME SocketInv, NEW p \in End, sock[p].flushing # "no", sock[p].queue = <<>>,
           Becomes(p, Flushed([sock[p] EXCEPT !.writeWatcher = FALSE], TRUE), <<>>),
           app' = app, sockKind' = sockKind, link' = link
    PROVE  SocketInv'
<1>1. /\ sock[p] \in SocketRecord /\ app[p] \in AppRecord /\ SockOK(sock[p]) /\ KindOK(sockKind.strings, sock[p])
      /\ app \in [End -> AppRecord]
  BY EndFacts DEF SocketInv, SocketTypes
<1>2. PICK s : s = [sock[p] EXCEPT !.writeWatcher = FALSE]
  OBVIOUS
<1>3. /\ s \in SocketRecord /\ SameQueue(sock[p], s) /\ s.fd = sock[p].fd /\ s.recvFd = sock[p].recvFd
      /\ s.flushing = sock[p].flushing /\ s.connecting = sock[p].connecting
  BY <1>1, <1>2 DEF SocketRecord, SameQueue
<1>4. PICK u : u = Flushed(s, TRUE)
  OBVIOUS
<1>5. DataItems(<<>>) = 0
  BY DEF DataItems
<1>6. ~sock[p].destroyed /\ sock[p].fd # "closed" /\ (~sockKind.strings => sock[p].fds = <<>>)
  BY <1>1, <1>5, ShutIsEmpty DEF SockOK
<1>7. /\ s.queue = <<>> /\ ~s.destroyed /\ (s.fd = "closed" => s.destroyed) /\ (~s.writable => s.shut \/ s.destroyed)
      /\ (s.shut => ~s.writable) /\ (s.connecting => s.flushing = "soon" \/ s.destroyed)
      /\ s.fds = sock[p].fds
  BY <1>1, <1>3, <1>6 DEF SockOK, SameQueue
<1>8. /\ u \in SocketRecord /\ SockOK(u) /\ u.queue = <<>> /\ u.recvFd = s.recvFd
      /\ u.fds = <<>> \/ u.fds = s.fds
      /\ \/ ~u.writable
         \/ /\ SameQueue(s, u) /\ u.fd = s.fd
  BY <1>3, <1>4, <1>7, FlushedAll
<1>9. Becomes(p, u, <<>>)
  BY <1>2, <1>4
<1>10. CASE ~u.writable
  BY <1>3, <1>5, <1>6, <1>7, <1>8, <1>9, <1>10, DrainKeeps
<1>11. CASE SameQueue(s, u) /\ u.fd = s.fd
  <2>1. SameQueue(sock[p], u) /\ u.fd = sock[p].fd /\ u.recvFd = sock[p].recvFd
    BY <1>3, <1>8, <1>11 DEF SameQueue
  <2>2. app' = [app EXCEPT ![p] = app[p]] /\ SameUse(app[p], app[p])
    BY <1>1 DEF SameUse
  <2> QED BY <1>1, <1>8, <1>9, <2>1, <2>2, QuietKeeps
<1> QED BY <1>8, <1>10, <1>11

\* The end of the writes leaves a socket that is shut down or destroyed.
LEMMA ShutdownFacts ==
    ASSUME NEW s \in SocketRecord, s.queue = <<>>, ~s.destroyed, s.fd # "closed", NEW u, u = ShutdownSocket(s)
    PROVE  /\ u \in SocketRecord /\ u.queue = <<>> /\ u.recvFd = s.recvFd /\ ~u.writable
           /\ u.fds = <<>> \/ u.fds = s.fds
           /\ \/ u.destroyed /\ SockOK(u)
              \/ /\ u.shut /\ ~u.destroyed /\ u.fd # "closed"
                 /\ u.flushing = s.flushing /\ u.connecting = s.connecting
<1>1. PICK t : t = [s EXCEPT !.writable = FALSE]
  OBVIOUS
<1>2. /\ t \in SocketRecord /\ t.queue = <<>> /\ t.fds = s.fds /\ ~t.destroyed /\ ~t.writable /\ t.recvFd = s.recvFd
      /\ t.fd = s.fd /\ t.flushing = s.flushing /\ t.connecting = s.connecting
  BY <1>1 DEF SocketRecord
<1>3. CASE t.readable
  <2>1. u = [t EXCEPT !.shut = TRUE]
    BY <1>1, <1>3 DEF ShutdownSocket, Shutdown
  <2>2. /\ u \in SocketRecord /\ u.queue = <<>> /\ u.fds = s.fds /\ ~u.destroyed /\ ~u.writable /\ u.recvFd = s.recvFd
        /\ u.fd = s.fd /\ u.flushing = s.flushing /\ u.connecting = s.connecting /\ u.shut
    BY <1>2, <2>1 DEF SocketRecord
  <2> QED BY <2>2
<1>4. CASE ~t.readable
  <2>1. u = Destroy(t)
    BY <1>1, <1>4 DEF ShutdownSocket
  <2> QED BY <1>2, <2>1, DestroyFacts
<1> QED BY <1>3, <1>4

\* The socket without the head of its queue.
Popped(s) == [s EXCEPT !.queue = Tail(@), !.fds = IF @ = <<>> THEN @ ELSE Tail(@)]

\* It is a socket with the rest of the queue and of the descriptors.
LEMMA PoppedFacts ==
    ASSUME NEW s \in SocketRecord, s.queue # <<>>, NEW t, t = Popped(s)
    PROVE  /\ t \in SocketRecord /\ t.fds = RestFds(s.fds) /\ t.queue \in Seq(QueueItem)
           /\ Len(t.queue) = Len(s.queue) - 1 /\ (\A i \in 1..Len(t.queue) : t.queue[i] = s.queue[i + 1])
           /\ t.fd = s.fd /\ t.recvFd = s.recvFd /\ t.connecting = s.connecting /\ t.flushing = s.flushing
           /\ t.writable = s.writable /\ t.shut = s.shut /\ t.destroyed = s.destroyed
           /\ t.writeWatcher = s.writeWatcher
<1>1. PICK queue \in Seq(QueueItem) : queue = s.queue
  BY DEF SocketRecord
<1>2. PICK fds \in Seq(Nat) : fds = s.fds
  BY DEF SocketRecord
<1>3. PICK rest \in Seq(QueueItem) :
        /\ rest = Tail(queue) /\ Len(rest) = Len(queue) - 1 /\ \A i \in 1..Len(rest) : rest[i] = queue[i + 1]
  <2>1. queue # <<>>
    BY <1>1
  <2>2. /\ Tail(queue) \in Seq(QueueItem) /\ Len(Tail(queue)) = Len(queue) - 1
        /\ \A i \in 1..Len(Tail(queue)) : Tail(queue)[i] = queue[i + 1]
    BY <2>1, HeadTailProperties
  <2>3. PICK tail : tail = Tail(queue)
    OBVIOUS
  <2>4. /\ tail \in Seq(QueueItem) /\ Len(tail) = Len(queue) - 1
        /\ \A i \in 1..Len(tail) : tail[i] = queue[i + 1]
    BY <2>2, <2>3, Zenon
  <2> QED BY <2>3, <2>4, Zenon
<1>4. PICK left \in Seq(Nat) : left = RestFds(fds)
  <2>1. fds # <<>> => Tail(fds) \in Seq(Nat)
    BY HeadTailProperties
  <2>2. RestFds(fds) \in Seq(Nat)
    BY <2>1 DEF RestFds
  <2> QED BY <2>2
<1>5. t = [s EXCEPT !.queue = rest, !.fds = left]
  BY <1>1, <1>2, <1>3, <1>4 DEF Popped, RestFds
<1>6. /\ t \in SocketRecord /\ t.fds = left /\ t.queue = rest
      /\ t.fd = s.fd /\ t.recvFd = s.recvFd /\ t.connecting = s.connecting /\ t.flushing = s.flushing
      /\ t.writable = s.writable /\ t.shut = s.shut /\ t.destroyed = s.destroyed
      /\ t.writeWatcher = s.writeWatcher
  BY <1>5 DEF SocketRecord
<1> QED BY <1>1, <1>2, <1>3, <1>4, <1>6

\* A flush that reaches the end of the writes.
LEMMA FlushEnd ==
    ASSUME SocketInv, NEW p \in End, sock[p].flushing # "no", sock[p].queue # <<>>, sock[p].queue[1] = END_OF_FILE,
           Becomes(p, Flushed(ShutdownSocket(Popped(sock[p])), TRUE), <<>>),
           app' = app, sockKind' = sockKind, link' = link
    PROVE  SocketInv'
<1>1. /\ sock[p] \in SocketRecord /\ app[p] \in AppRecord /\ SockOK(sock[p]) /\ KindOK(sockKind.strings, sock[p])
  BY EndFacts
<1>2. PICK s : s = Popped(sock[p])
  OBVIOUS
<1>3. /\ s \in SocketRecord /\ s.fds = RestFds(sock[p].fds) /\ s.queue \in Seq(QueueItem)
      /\ Len(s.queue) = Len(sock[p].queue) - 1
      /\ s.fd = sock[p].fd /\ s.recvFd = sock[p].recvFd /\ s.connecting = sock[p].connecting
      /\ s.flushing = sock[p].flushing /\ s.destroyed = sock[p].destroyed
  BY <1>1, <1>2, PoppedFacts
<1>4. DataItems(sock[p].queue) = 0 /\ Len(sock[p].queue) = 1
  <2>1. sock[p].queue \in Seq(QueueItem) /\ QueueShape(sock[p].queue)
    BY <1>1 DEF SocketRecord, SockOK
  <2> QED BY <2>1, DataItemsFacts
<1>5. s.queue = <<>>
  BY <1>3, <1>4, NotEmpty
<1>6. ~sock[p].destroyed /\ sock[p].fd # "closed" /\ (sock[p].connecting => sock[p].flushing = "soon")
  BY <1>1 DEF SockOK
<1>7. ~sockKind.strings => s.fds = <<>>
  <2>1. ~sockKind.strings => sock[p].fds = <<>>
    BY <1>1, <1>4, ShutIsEmpty
  <2> QED BY <1>3, <2>1 DEF RestFds
<1>8. PICK w : w = ShutdownSocket(s)
  OBVIOUS
<1>9. /\ w \in SocketRecord /\ w.queue = <<>> /\ w.recvFd = s.recvFd /\ ~w.writable
      /\ w.fds = <<>> \/ w.fds = s.fds
      /\ \/ w.destroyed /\ SockOK(w)
         \/ /\ w.shut /\ ~w.destroyed /\ w.fd # "closed"
            /\ w.flushing = s.flushing /\ w.connecting = s.connecting
  BY <1>3, <1>5, <1>6, <1>8, ShutdownFacts
<1>10. PICK u : u = Flushed(w, TRUE)
  OBVIOUS
<1>11. /\ w.fd = "closed" => w.destroyed
       /\ ~w.writable => w.shut \/ w.destroyed
       /\ w.shut => ~w.writable
       /\ w.connecting => w.flushing = "soon" \/ w.destroyed
       /\ w.destroyed => SockOK(w)
  BY <1>3, <1>6, <1>9 DEF SockOK
<1>12. /\ u \in SocketRecord /\ SockOK(u) /\ u.queue = <<>> /\ u.recvFd = w.recvFd
       /\ u.fds = <<>> \/ u.fds = w.fds
       /\ \/ ~u.writable
          \/ SameQueue(w, u) /\ u.fd = w.fd
  BY <1>9, <1>10, <1>11, FlushedAll
<1>13. ~u.writable
  BY <1>9, <1>12 DEF SameQueue
<1>14. /\ u.recvFd = sock[p].recvFd /\ (~sockKind.strings => u.fds = <<>>) /\ Becomes(p, u, <<>>)
  BY <1>2, <1>3, <1>7, <1>8, <1>9, <1>10, <1>12
<1> QED BY <1>4, <1>6, <1>12, <1>13, <1>14, DrainKeeps

\* A flush that could not write all leaves the write watcher.
LEMMA FlushedPart ==
    ASSUME NEW s \in SocketRecord, NEW u, u = Flushed(s, FALSE)
    PROVE  /\ u \in SocketRecord /\ SameQueue(s, u) /\ u.fd = s.fd /\ u.recvFd = s.recvFd /\ u.flushing = "no"
           /\ u.connecting = s.connecting /\ u.writeWatcher = s.writeWatcher
<1>1. u = [s EXCEPT !.flushing = "no"] \/ u = [[s EXCEPT !.flushing = "no"] EXCEPT !.destroyOnDrain = TRUE]
  BY DEF Flushed
<1>2. CASE u = [s EXCEPT !.flushing = "no"]
  BY <1>2 DEF SocketRecord, SameQueue
<1>3. CASE u = [[s EXCEPT !.flushing = "no"] EXCEPT !.destroyOnDrain = TRUE]
  BY <1>3 DEF SocketRecord, SameQueue
<1> QED BY <1>1, <1>2, <1>3

\* A socket that flushes data may send.
LEMMA FlushingSends ==
    ASSUME NEW s \in SocketRecord, SockOK(s), s.queue # <<>>, s.queue[1] # END_OF_FILE
    PROVE  DataFirst(s) /\ Sending(s) /\ s.fd # "closed"
BY DEF SockOK, DataFirst, Sending

\* The item at the head of a queue is data.
LEMMA HeadIsData ==
    ASSUME NEW queue \in Seq(QueueItem), QueueShape(queue), queue # <<>>, queue[1] # END_OF_FILE
    PROVE  queue[1] \in QueueItem /\ queue[1].bytes \in Seq(Positive \X Positive) /\ queue[1].bytes # <<>>
<1>1. 1 \in 1..Len(queue)
  BY NotEmpty
<1>2. queue[1] \in QueueItem /\ queue[1].bytes # <<>>
  BY <1>1 DEF QueueShape
<1> QED BY <1>2 DEF QueueItem

\* What is left of a socket when n bytes of its head went out.
LeftOf(s, n) ==
    LET t == WriteOut(Popped(s), s.queue[1], NextFd(s.fds), n) IN
    IF n = Len(s.queue[1].bytes) THEN t ELSE Flushed(t, FALSE)

\* It holds the rest, and waits with the write watcher if something is left of the head.
LEMMA LeftFacts ==
    ASSUME NEW s \in SocketRecord, SockOK(s), s.flushing # "no", s.queue # <<>>, s.queue[1] # END_OF_FILE,
           NEW bytes, bytes = s.queue[1].bytes, NEW n \in 0..Len(bytes), NEW u, u = LeftOf(s, n)
    PROVE  /\ u \in SocketRecord /\ Shortened(s.queue, u.queue, n) /\ u.fds = LeftFds(s.fds, n)
           /\ u.fd = s.fd /\ u.recvFd = s.recvFd /\ u.connecting = s.connecting
           /\ u.writable = s.writable /\ u.shut = s.shut /\ u.destroyed = s.destroyed
           /\ n = Len(bytes) => u.flushing = s.flushing /\ u.writeWatcher = s.writeWatcher
           /\ n # Len(bytes) => u.flushing = "no" /\ u.writeWatcher
<1>1. PICK queue \in Seq(QueueItem) : queue = s.queue
  BY DEF SocketRecord
<1>2. /\ bytes \in Seq(Positive \X Positive) /\ bytes # <<>> /\ queue[1] \in QueueItem
      /\ QueueShape(queue) /\ queue # <<>> /\ queue[1] # END_OF_FILE /\ bytes = queue[1].bytes
  BY <1>1, HeadIsData DEF SockOK
<1>3. PICK t : t = Popped(s)
  OBVIOUS
<1>4. /\ t \in SocketRecord /\ t.fds = RestFds(s.fds) /\ t.queue \in Seq(QueueItem)
      /\ Len(t.queue) = Len(queue) - 1 /\ (\A i \in 1..Len(t.queue) : t.queue[i] = queue[i + 1])
      /\ t.fd = s.fd /\ t.recvFd = s.recvFd /\ t.connecting = s.connecting /\ t.flushing = s.flushing
      /\ t.writable = s.writable /\ t.shut = s.shut /\ t.destroyed = s.destroyed
      /\ t.writeWatcher = s.writeWatcher
  BY <1>1, <1>3, PoppedFacts
<1>5. PICK fd \in Nat : fd = NextFd(s.fds)
  <2>1. s.fds \in Seq(Nat)
    BY DEF SocketRecord
  <2>2. s.fds # <<>> => Head(s.fds) \in Nat
    BY <2>1, HeadTailProperties
  <2>3. NextFd(s.fds) \in Nat
    BY <2>2 DEF NextFd
  <2> QED BY <2>3
<1>a. PICK item : item = queue[1]
  OBVIOUS
<1>6. item = queue[1] /\ item.bytes = bytes
  BY <1>2, <1>a
<1>7. PICK v : v = WriteOut(t, item, fd, n)
  OBVIOUS
<1>8. /\ v \in SocketRecord /\ v.writable = t.writable /\ v.shut = t.shut /\ v.destroyed = t.destroyed
      /\ v.fd = t.fd /\ v.recvFd = t.recvFd /\ v.connecting = t.connecting /\ v.flushing = t.flushing
      /\ n = Len(bytes) => v = t
      /\ n # Len(bytes) => /\ v.writeWatcher /\ v.queue = <<RestItem(bytes, n)>> \o t.queue
                           /\ v.fds = IF n = 0 THEN <<fd>> \o t.fds ELSE t.fds
  <2>1. PICK r \in SocketRecord : r = t
    BY <1>4
  <2>2. PICK written \in Seq(Positive \X Positive) : written = bytes /\ item.bytes = written /\ n \in 0..Len(written)
    BY <1>2, <1>6
  <2>3. v = WriteOut(r, item, fd, n)
    BY <1>7, <2>1
  <2>4. /\ v \in SocketRecord /\ v.writable = r.writable /\ v.shut = r.shut /\ v.destroyed = r.destroyed
        /\ v.fd = r.fd /\ v.recvFd = r.recvFd /\ v.connecting = r.connecting /\ v.flushing = r.flushing
        /\ n = Len(written) => v = r
        /\ n # Len(written) => /\ v.writeWatcher /\ v.queue = <<RestItem(written, n)>> \o r.queue
                               /\ v.fds = IF n = 0 THEN <<fd>> \o r.fds ELSE r.fds
    BY <2>2, <2>3, WriteOutFacts, SMTT(60)
  <2> QED BY <2>1, <2>2, <2>4
<1>9. u = IF n = Len(bytes) THEN v ELSE Flushed(v, FALSE)
  BY <1>1, <1>3, <1>5, <1>6, <1>7 DEF LeftOf
<1>10. /\ n = Len(bytes) => Shortened(queue, t.queue, n)
       /\ n # Len(bytes) => Shortened(queue, <<RestItem(bytes, n)>> \o t.queue, n)
  <2>1. PICK rest \in Seq(QueueItem) :
          rest = t.queue /\ Len(rest) = Len(queue) - 1 /\ \A i \in 1..Len(rest) : rest[i] = queue[i + 1]
    BY <1>4
  <2>2. PICK written \in Seq(Positive \X Positive) : written = bytes /\ written = queue[1].bytes /\ n \in 0..Len(written)
    BY <1>2
  <2>3. /\ n = Len(written) => Shortened(queue, rest, n)
        /\ n # Len(written) => Shortened(queue, <<RestItem(written, n)>> \o rest, n)
    BY <1>2, <2>1, <2>2, ShortenedFacts
  <2> QED BY <2>1, <2>2, <2>3
<1>11. CASE n = Len(bytes)
  <2>1. u = t
    BY <1>8, <1>9, <1>11
  <2>2. n # 0
    BY <1>2, <1>11
  <2> QED BY <1>1, <1>4, <1>10, <1>11, <2>1, <2>2 DEF LeftFds
<1>12. CASE n # Len(bytes)
  <2>1. /\ u \in SocketRecord /\ SameQueue(v, u) /\ u.fd = v.fd /\ u.recvFd = v.recvFd /\ u.flushing = "no"
        /\ u.connecting = v.connecting /\ u.writeWatcher = v.writeWatcher
    BY <1>8, <1>9, <1>12, FlushedPart
  <2>2. /\ u.queue = <<RestItem(bytes, n)>> \o t.queue /\ u.fds = (IF n = 0 THEN <<fd>> \o t.fds ELSE t.fds)
        /\ u.writable = v.writable /\ u.shut = v.shut /\ u.destroyed = v.destroyed
    BY <1>8, <1>12, <2>1 DEF SameQueue
  <2>3. u.fds = LeftFds(s.fds, n)
    BY <1>4, <1>5, <2>2 DEF LeftFds
  <2> QED BY <1>1, <1>4, <1>8, <1>10, <1>12, <2>1, <2>2, <2>3
<1> QED BY <1>11, <1>12

\* A flush that writes the head of the queue, or a part of it.
LEMMA FlushData ==
    ASSUME SocketInv, NEW p \in End, sock[p].flushing # "no", sock[p].queue # <<>>, sock[p].queue[1] # END_OF_FILE,
           NEW n \in Takes(p, Len(sock[p].queue[1].bytes)),
           Becomes(p, LeftOf(sock[p], n), WriteImpl(sock[p].queue[1].bytes, NextFd(sock[p].fds), n)),
           app' = app, sockKind' = sockKind, link' = link
    PROVE  SocketInv'
<1>1. PICK s \in SocketRecord : s = sock[p] /\ SockOK(s) /\ KindOK(sockKind.strings, s) /\ Outgoing(p, s, app[p], chan[p])
  BY EndFacts
<1>2. app[p] \in AppRecord /\ app' = [app EXCEPT ![p] = app[p]]
  BY EndFacts DEF SocketInv, SocketTypes
<1>3. PICK bytes \in Seq(Positive \X Positive) : bytes = s.queue[1].bytes /\ bytes # <<>>
  <2>1. s.queue \in Seq(QueueItem) /\ QueueShape(s.queue)
    BY <1>1 DEF SocketRecord, SockOK
  <2>2. s.queue[1].bytes \in Seq(Positive \X Positive) /\ s.queue[1].bytes # <<>>
    BY <1>1, <2>1, HeadIsData
  <2> QED BY <2>2
<1>4. n \in Takes(p, Len(bytes)) /\ n \in 0..Len(bytes)
  <2>1. Len(bytes) \in Nat \ {0}
    BY <1>3
  <2>2. n \in Takes(p, Len(bytes))
    BY <1>1, <1>3
  <2> QED BY <2>1, <2>2, TakesFacts
<1>5. PICK fd \in Nat : fd = NextFd(s.fds)
  <2>1. s.fds \in Seq(Nat)
    BY <1>1 DEF SocketRecord
  <2>2. s.fds # <<>> => Head(s.fds) \in Nat
    BY <2>1, HeadTailProperties
  <2>3. NextFd(s.fds) \in Nat
    BY <2>2 DEF NextFd
  <2> QED BY <2>3
<1>6. PICK u : u = LeftOf(s, n)
  OBVIOUS
<1>7. /\ u \in SocketRecord /\ Shortened(s.queue, u.queue, n) /\ u.fds = LeftFds(s.fds, n)
      /\ u.fd = s.fd /\ u.recvFd = s.recvFd /\ u.connecting = s.connecting
      /\ u.writable = s.writable /\ u.shut = s.shut /\ u.destroyed = s.destroyed
      /\ n = Len(bytes) => u.flushing = s.flushing /\ u.writeWatcher = s.writeWatcher
      /\ n # Len(bytes) => u.flushing = "no" /\ u.writeWatcher
  <2>1. s.flushing # "no" /\ s.queue # <<>> /\ s.queue[1] # END_OF_FILE
    BY <1>1
  <2> QED BY <1>1, <1>3, <1>4, <1>6, <2>1, LeftFacts
<1>8. DataFirst(s) /\ Sending(s) /\ s.fd # "closed" /\ s.flushing # "no"
  BY <1>1, FlushingSends
<1>9. Sending(u) /\ Unread(p, u, app[p])
  BY <1>1, <1>7, <1>8 DEF Sending, Unread
<1>10. QueueShape(u.queue)
  <2>1. s.queue \in Seq(QueueItem) /\ u.queue \in Seq(QueueItem) /\ n \in Nat
    BY <1>4, <1>7 DEF SocketRecord
  <2> QED BY <1>7, <1>8, <2>1, ShortenedWaits DEF DataFirst
<1>11. SockOK(u)
  <2>1. /\ ~u.destroyed /\ ~u.shut /\ u.writable /\ u.fd # "closed"
        /\ u.connecting => u.flushing \in {"no", "soon"}
        /\ u.connecting /\ u.fd = "open" /\ ~u.destroyed => u.writeWatcher
        /\ u.queue # <<>> /\ u.flushing = "no" /\ u.fd = "open" => u.writeWatcher
    <3>1. s.connecting => s.flushing \in {"no", "soon"} /\ (s.fd = "open" /\ ~s.destroyed => s.writeWatcher)
      BY <1>1 DEF SockOK
    <3>2. ~s.destroyed /\ ~s.shut /\ s.writable
      BY <1>8 DEF Sending
    <3>3. CASE n = Len(bytes)
      BY <1>7, <1>8, <3>1, <3>2, <3>3
    <3>4. CASE n # Len(bytes)
      BY <1>7, <1>8, <3>1, <3>2, <3>4
    <3> QED BY <3>3, <3>4
  <2> QED BY <1>10, <2>1 DEF SockOK
<1>12. PICK out : out = WriteImpl(bytes, fd, n)
  OBVIOUS
<1>13. Becomes(p, u, out)
  BY <1>1, <1>3, <1>5, <1>6, <1>12
<1> QED BY <1>1, <1>2, <1>3, <1>4, <1>5, <1>7, <1>8, <1>9, <1>11, <1>12, <1>13, OutputKeeps

\* One turn of flush.
LEMMA FlushKeeps == ASSUME SocketInv, NEW p \in End, Flush(p) PROVE SocketInv'
<1>1. /\ sock[p] \in SocketRecord /\ app[p] \in AppRecord /\ app \in [End -> AppRecord]
  BY EndFacts DEF SocketInv, SocketTypes
<1>2. sock[p].flushing # "no" /\ sockKind' = sockKind /\ link' = link
  BY DEF Flush
<1>3. CASE /\ sock[p].queue = <<>> /\ Becomes(p, Flushed([sock[p] EXCEPT !.writeWatcher = FALSE], TRUE), <<>>)
           /\ app' = app
  BY <1>2, <1>3, FlushNothing
<1>4. CASE sock[p].queue # <<>> /\ FlushItem(p, Head(sock[p].queue), Popped(sock[p]))
  <2>1. sock[p].queue \in Seq(QueueItem)
    BY <1>1 DEF SocketRecord
  <2>2. Head(sock[p].queue) = sock[p].queue[1]
    BY <1>4, <2>1
  <2>3. PICK item : item = sock[p].queue[1]
    OBVIOUS
  <2>4. PICK s : s = Popped(sock[p])
    OBVIOUS
  <2>5. PICK fd : fd = NextFd(sock[p].fds)
    OBVIOUS
  <2>6. FlushItem(p, item, s)
    BY <1>4, <2>2, <2>3, <2>4
  <2>7. \/ item = END_OF_FILE /\ Becomes(p, Flushed(ShutdownSocket(s), TRUE), <<>>) /\ app' = app
        \/ /\ item # END_OF_FILE /\ app' = app
           /\ \E n \in Takes(p, Len(item.bytes)) :
                Becomes(p, IF n = Len(item.bytes) THEN WriteOut(s, item, fd, n) ELSE Flushed(WriteOut(s, item, fd, n), FALSE),
                        WriteImpl(item.bytes, fd, n))
        \/ /\ item # END_OF_FILE /\ Becomes(p, Destroy(s), <<>>)
           /\ app' = [app EXCEPT ![p].aborted = TRUE]
    BY <2>5, <2>6 DEF FlushItem, NextFd
  <2>8. CASE item = END_OF_FILE /\ Becomes(p, Flushed(ShutdownSocket(s), TRUE), <<>>) /\ app' = app
    BY <1>2, <1>4, <2>3, <2>4, <2>8, FlushEnd
  <2>9. ASSUME item # END_OF_FILE, app' = app, NEW n \in Takes(p, Len(item.bytes)),
               Becomes(p, IF n = Len(item.bytes) THEN WriteOut(s, item, fd, n) ELSE Flushed(WriteOut(s, item, fd, n), FALSE),
                       WriteImpl(item.bytes, fd, n))
        PROVE  SocketInv'
    <3>1. LeftOf(sock[p], n) = IF n = Len(item.bytes) THEN WriteOut(s, item, fd, n)
                               ELSE Flushed(WriteOut(s, item, fd, n), FALSE)
      BY <2>3, <2>4, <2>5 DEF LeftOf
    <3>2. Becomes(p, LeftOf(sock[p], n), WriteImpl(sock[p].queue[1].bytes, NextFd(sock[p].fds), n))
      BY <2>3, <2>5, <2>9, <3>1
    <3>3. n \in Takes(p, Len(sock[p].queue[1].bytes)) /\ sock[p].queue[1] # END_OF_FILE
      BY <2>3, <2>9
    <3> QED BY <1>2, <1>4, <2>9, <3>2, <3>3, FlushData
  <2>10. CASE item # END_OF_FILE /\ Becomes(p, Destroy(s), <<>>) /\ app' = [app EXCEPT ![p].aborted = TRUE]
    <3>1. s \in SocketRecord /\ s.recvFd = sock[p].recvFd /\ s.fd = sock[p].fd
      BY <1>1, <1>4, <2>4, PoppedFacts
    <3>2. PICK a : a = [app[p] EXCEPT !.aborted = TRUE]
      OBVIOUS
    <3>3. /\ a \in AppRecord /\ a.aborted /\ a.sent = app[p].sent /\ a.written = app[p].written
          /\ a.got = app[p].got /\ a.fds = app[p].fds /\ a.sawEnd = app[p].sawEnd
      BY <1>1, <3>2 DEF AppRecord
    <3>4. app' = [app EXCEPT ![p] = a]
      BY <2>10, <3>2
    <3>5. Becomes(p, Destroy(s), <<>>)
      BY <2>10
    <3> QED BY <1>2, <3>1, <3>3, <3>4, <3>5, AbortKeeps
  <2> QED BY <2>7, <2>8, <2>9, <2>10
<1> QED BY <1>3, <1>4 DEF Flush, Popped

-----------------------------------------------------------------------------
\* The first state.
LEMMA SocketStarts == ASSUME SocketInit PROVE SocketInv
<1>1. sockKind \in [type : {"unix", "tcp"}, strings : BOOLEAN] /\ sockKind.type \in {"unix", "tcp"}
  BY SocketAssumption DEF SocketInit
<1>2. <<>> \in Seq(QueueItem) /\ <<>> \in Seq(Nat) /\ <<>> \in Seq(Positive \X Positive) /\ <<>> \in Seq(Segment)
      /\ Len(<<>>) = 0
  OBVIOUS
<1>3. PICK o : o = OpenSocket
  OBVIOUS
<1>4. /\ o \in SocketRecord /\ o.fd = "open" /\ ~o.connecting /\ o.writable /\ ~o.writeWatcher /\ o.queue = <<>>
      /\ o.fds = <<>> /\ ~o.shut /\ o.flushing = "no" /\ ~o.destroyed /\ o.recvFd = 0
  BY <1>2, <1>3 DEF OpenSocket, SocketRecord
<1>5. PICK c : c = NewSocket(sockKind.type)
  OBVIOUS
<1>6. c = [o EXCEPT !.fd = IF sockKind.type = "unix" THEN "open" ELSE "none", !.connecting = TRUE,
                    !.readable = FALSE, !.readWatcher = FALSE, !.writeWatcher = (sockKind.type = "unix")]
  BY <1>3, <1>5 DEF NewSocket
<1>7. /\ c \in SocketRecord /\ c.fd # "closed" /\ (c.fd = "open" => c.writeWatcher) /\ c.writable /\ c.queue = <<>>
      /\ c.fds = <<>> /\ ~c.shut /\ c.flushing = "no" /\ ~c.destroyed /\ c.recvFd = 0
  <2>1. CASE sockKind.type = "unix"
    <3>1. c = [o EXCEPT !.fd = "open", !.connecting = TRUE,
                        !.readable = FALSE, !.readWatcher = FALSE, !.writeWatcher = TRUE]
      BY <1>6, <2>1
    <3> QED BY <1>4, <3>1 DEF SocketRecord
  <2>2. CASE sockKind.type # "unix"
    <3>1. c = [o EXCEPT !.fd = "none", !.connecting = TRUE,
                        !.readable = FALSE, !.readWatcher = FALSE, !.writeWatcher = FALSE]
      BY <1>6, <2>2
    <3> QED BY <1>4, <3>1 DEF SocketRecord
  <2> QED BY <2>1, <2>2
<1>8. QueueShape(<<>>) /\ DataItems(<<>>) = 0
  BY <1>2 DEF QueueShape, DataItems
<1>9. ASSUME NEW p \in End
      PROVE  /\ sock[p] \in SocketRecord /\ SockOK(sock[p]) /\ sock[p].queue = <<>> /\ sock[p].fds = <<>>
             /\ ~sock[p].shut /\ ~sock[p].destroyed /\ sock[p].writable /\ sock[p].fd # "closed" /\ sock[p].recvFd = 0
  <2>1. sock[p] = c \/ sock[p] = o
    BY <1>3, <1>5 DEF SocketInit
  <2>2. SockOK(c) /\ SockOK(o)
    BY <1>4, <1>7, <1>8 DEF SockOK
  <2> QED BY <1>4, <1>7, <2>1, <2>2
<1>10. ASSUME NEW p \in End
       PROVE  /\ app[p] \in AppRecord /\ app[p].written = 0 /\ app[p].sent = <<>> /\ app[p].got = <<>>
              /\ app[p].fds = <<>> /\ ~app[p].sawEnd
  <2>1. PICK half \in BOOLEAN : app = [x \in End |-> NoUse(half)]
    BY DEF SocketInit
  <2>2. 0 \in 0..MaxWrites
    BY SocketAssumption
  <2>3. PICK a : a = NoUse(half)
    OBVIOUS
  <2>4. /\ a \in AppRecord /\ a.written = 0 /\ a.sent = <<>> /\ a.got = <<>> /\ a.fds = <<>> /\ ~a.sawEnd
    BY <1>2, <2>2, <2>3 DEF NoUse, AppRecord
  <2> QED BY <2>1, <2>3, <2>4
<1>11. \A p \in End : chan[p] = <<>>
  BY DEF SocketInit
<1>12. SocketTypes
  <2>1. chan \in [End -> Seq(Positive \X Positive \X Nat)]
    BY DEF SocketInit
  <2>2. sock = [p \in End |-> sock[p]] /\ app = [p \in End |-> app[p]]
    BY DEF SocketInit
  <2>3. sock \in [End -> SocketRecord] /\ app \in [End -> AppRecord]
    BY <1>9, <1>10, <2>2
  <2>4. resets \subseteq End /\ link \in {"none", "syn", "established", "refused"}
    BY DEF SocketInit
  <2> QED BY <1>1, <2>1, <2>3, <2>4 DEF SocketTypes
<1>13. ASSUME NEW p \in End PROVE SockOK(sock[p]) /\ KindOK(sockKind.strings, sock[p]) /\ Len(chan[p]) <= Room
  BY <1>2, <1>8, <1>9, <1>11, SocketAssumption DEF KindOK
<1>14. ASSUME NEW p \in End PROVE OneWay(p)
  <2>1. Other(p) \in End
    BY Ends
  <2>2. Arrived(<<>>, <<>>, 0)
    BY <1>2 DEF Arrived, WriteSize
  <2>3. Waits(<<>>, 0, 0)
    BY <1>8 DEF Waits, Holds, Within, UpTo
  <2>4. BytesOK(sock[p], app[p], chan[p], sock[Other(p)], app[Other(p)])
    <3>1. 0 * WriteSize = 0 /\ Len(<<>>) + Len(<<>>) = 0
      BY <1>2 DEF WriteSize
    <3>2. /\ sock[p].queue = <<>> /\ ~sock[p].shut /\ ~sock[p].destroyed /\ app[p].written = 0
          /\ chan[p] = <<>> /\ sock[Other(p)].fd # "closed" /\ app[Other(p)].got = <<>> /\ ~app[Other(p)].sawEnd
      BY <1>9, <1>10, <1>11, <2>1
    <3>3. Waits(sock[p].queue, Len(app[Other(p)].got) + Len(chan[p]), app[p].written * WriteSize)
      BY <2>3, <3>1, <3>2
    <3>4. Arrived(chan[p], app[Other(p)].got, app[p].written)
      BY <2>2, <3>2
    <3> QED BY <3>2, <3>3, <3>4 DEF BytesOK
  <2>5. FdsOf(<<>>) = <<>>
    BY FdsOfNone
  <2>6. FdOrder(<<>>, <<>>, <<>>, 0, <<>>, 0)
    BY InEmpty DEF FdOrder
  <2>7. FdAll(<<>>, <<>>, <<>>, <<>>)
    BY DEF FdAll
  <2>8. FdsOK(sockKind.type, sock[p], app[p], chan[p], sock[Other(p)], app[Other(p)])
    BY <1>9, <1>10, <1>11, <2>1, <2>5, <2>6, <2>7 DEF FdsOK
  <2> QED BY <2>4, <2>8 DEF OneWay
<1> QED BY <1>12, <1>13, <1>14 DEF SocketInv

\* What the invariant says of the sockets.
LEMMA SocketInvIsSafe == ASSUME SocketInv PROVE SocketSafe
<1>1. SocketTypeOK
  <2>1. \A p \in End : sock[p].destroyed => sock[p].queue = <<>> /\ ~sock[p].readWatcher /\ ~sock[p].writeWatcher
    BY DEF SocketInv, SockOK
  <2>2. \A p \in End : Len(chan[p]) <= Room
    BY DEF SocketInv
  <2>3. \A p \in End : app[p].written \in 0..MaxWrites
    BY EndFacts DEF AppRecord
  <2>4. resets \subseteq End
    BY DEF SocketInv, SocketTypes
  <2> QED BY <2>1, <2>2, <2>3, <2>4 DEF SocketTypeOK
<1>2. StreamIntact
  <2> SUFFICES ASSUME NEW p \in End
               PROVE  LET q == Other(p)  got == app[q].got  n == Len(got) IN
                      /\ n <= app[p].written * WriteSize
                      /\ \A i \in 1..n : got[i] = ByteAt(i)
                      /\ ~sock[p].destroyed /\ ~Gone(q) =>
                           /\ \A i \in DOMAIN chan[p] : <<chan[p][i][1], chan[p][i][2]>> = ByteAt(n + i)
                           /\ Holds(sock[p].queue, n + Len(chan[p]), app[p].written * WriteSize)
    BY DEF StreamIntact
  <2>1. BytesOK(sock[p], app[p], chan[p], sock[Other(p)], app[Other(p)])
    BY DEF SocketInv, OneWay
  <2>2. PICK got \in Seq(Positive \X Positive) : got = app[Other(p)].got
    BY Ends, EndFacts DEF AppRecord
  <2>3. PICK c \in Seq(Segment) : c = chan[p]
    BY EndFacts
  <2>4. PICK n \in Nat : n = Len(got)
    OBVIOUS
  <2>5. PICK l \in Nat : l = Len(c) /\ DOMAIN c = 1..l
    OBVIOUS
  <2>6. PICK m \in Nat : m = app[p].written * WriteSize
    <3>1. app[p].written \in Nat
      BY EndFacts, SocketAssumption DEF AppRecord
    <3> QED BY <3>1 DEF WriteSize
  <2>7. Arrived(c, got, app[p].written)
    BY <2>1, <2>2, <2>3 DEF BytesOK
  <2>8. n + l <= m /\ (\A i \in 1..n : got[i] = ByteAt(i)) /\ \A i \in 1..l : <<c[i][1], c[i][2]>> = ByteAt(n + i)
    BY <2>4, <2>5, <2>6, <2>7 DEF Arrived
  <2>9. ~sock[p].destroyed /\ ~Gone(Other(p)) => Holds(sock[p].queue, n + l, m)
    BY <2>1, <2>2, <2>3, <2>4, <2>5, <2>6 DEF BytesOK, Waits, Gone
  <2>10. n <= m
    BY <2>8
  <2> QED BY <2>2, <2>3, <2>4, <2>5, <2>6, <2>8, <2>9, <2>10
<1>3. EndMeansAll
  BY DEF EndMeansAll, SocketInv, OneWay, BytesOK
<1>4. FdsInOrder
  <2> SUFFICES ASSUME ~sockKind.strings, NEW p \in End
               PROVE  LET f == app[p].fds  q == Other(p) IN
                      /\ \A i \in 1..(Len(f) - 1) : f[i] <= f[i + 1]
                      /\ \A i \in DOMAIN f : \E j \in DOMAIN app[q].sent : app[q].sent[j] = f[i]
                      /\ app[p].sawEnd /\ ~app[q].aborted =>
                           \A j \in DOMAIN app[q].sent : \E i \in DOMAIN f : f[i] = app[q].sent[j]
    BY DEF FdsInOrder
  <2>1. Other(p) \in End /\ Other(Other(p)) = p
    BY Ends
  <2>2. FdsOK(sockKind.type, sock[Other(p)], app[Other(p)], chan[Other(p)], sock[p], app[p])
    BY <2>1 DEF SocketInv, OneWay
  <2>3. PICK f \in Seq(Nat) : f = app[p].fds
    BY EndFacts DEF AppRecord
  <2>4. PICK sent \in Seq(Nat) : sent = app[Other(p)].sent
    BY <2>1, EndFacts DEF AppRecord
  <2>5. /\ \A x \in Nat \ {0} : In(x, f) => In(x, sent)
        /\ ~In(0, f) /\ \A i, j \in DOMAIN f : i < j => f[i] <= f[j]
    BY <2>2, <2>3, <2>4 DEF FdsOK, FdOrder
  <2>6. ASSUME NEW i \in 1..(Len(f) - 1) PROVE f[i] <= f[i + 1]
    <3>1. i \in DOMAIN f /\ i + 1 \in DOMAIN f /\ i < i + 1
      OBVIOUS
    <3> QED BY <2>5, <3>1
  <2>7. ASSUME NEW i \in DOMAIN f PROVE \E j \in DOMAIN sent : sent[j] = f[i]
    <3>1. In(f[i], f) /\ f[i] \in Nat
      BY DEF In
    <3>2. f[i] # 0
      BY <2>5, <3>1
    <3>3. In(f[i], sent)
      BY <2>5, <3>1, <3>2
    <3> QED BY <3>3 DEF In
  <2>8. ASSUME app[p].sawEnd, ~app[Other(p)].aborted, NEW j \in DOMAIN sent PROVE \E i \in DOMAIN f : f[i] = sent[j]
    <3>1. FdAll(<<>>, <<>>, f, sent)
      BY <2>2, <2>3, <2>4, <2>8 DEF FdsOK
    <3>2. In(sent[j], sent) /\ sent[j] \in Nat
      BY DEF In
    <3>3. In(sent[j], f)
      BY <3>1, <3>2, InEmpty DEF FdAll
    <3> QED BY <3>3 DEF In
  <2> QED BY <2>3, <2>4, <2>6, <2>7, <2>8
<1>5. QueueIsWatched
  BY DEF QueueIsWatched, SocketInv, SockOK
<1> QED BY <1>1, <1>2, <1>3, <1>4, <1>5 DEF SocketSafe

\* Every step of the sockets keeps the invariant.
LEMMA SocketStepKeeps == ASSUME SocketInv, [SocketNext]_socketVars PROVE SocketInv'
<1>1. CASE Connect
  BY <1>1, ConnectKeeps
<1>2. CASE Answer
  BY <1>2, ConnectKeeps
<1>3. CASE OnConnect
  BY <1>3, OnConnectKeeps
<1>4. ASSUME NEW p \in End, OnWritable(p) PROVE SocketInv'
  BY <1>4, FlushStarts
<1>5. ASSUME NEW p \in End, Flush(p) PROVE SocketInv'
  BY <1>5, FlushKeeps
<1>6. ASSUME NEW p \in End, OnData(p) PROVE SocketInv'
  BY <1>6, OnDataKeeps
<1>7. ASSUME NEW p \in End, OnReset(p) PROVE SocketInv'
  BY <1>7, DestroyKeeps
<1>8. ASSUME NEW p \in End, OnEnd(p) PROVE SocketInv'
  BY <1>8, OnEndKeeps
<1>9. ASSUME NEW p \in End, OnNothing(p) PROVE SocketInv'
  BY <1>9, OnNothingKeeps
<1>10. ASSUME NEW p \in End, NEW fd \in 0..MaxWrites, SocketWrite(p, fd) PROVE SocketInv'
  BY <1>10, SocketWriteKeeps
<1>11. ASSUME NEW p \in End, SocketEnd(p) PROVE SocketInv'
  BY <1>11, SocketEndKeeps
<1>12. ASSUME NEW p \in End, DestroySoon(p) PROVE SocketInv'
  BY <1>12, FlushStarts
<1>13. ASSUME NEW p \in End, SocketDestroy(p) PROVE SocketInv'
  BY <1>13, DestroyKeeps
<1>14. ASSUME NEW p \in End, Pause(p) PROVE SocketInv'
  BY <1>14, PauseKeeps
<1>15. ASSUME NEW p \in End, Resume(p) PROVE SocketInv'
  BY <1>15, PauseKeeps
<1>16. CASE UNCHANGED socketVars
  BY <1>16 DEF socketVars, SocketInv, SocketTypes, OneWay
<1> QED BY <1>1, <1>2, <1>3, <1>4, <1>5, <1>6, <1>7, <1>8, <1>9, <1>10, <1>11, <1>12, <1>13, <1>14, <1>15, <1>16
        DEF SocketNext, Loop

\* The bytes that an application wrote are the bytes that the other one received, that the
\* kernel has or that wait, in order and each once; an end that was not forced comes after
\* all of them, and the descriptors that were sent with buffers come in their order and
\* before it; what waits has the write watcher: of every socket, whatever the kernel takes of
\* a write and whenever the ends write, end, pause, resume and destroy.
THEOREM SocketIsSafe == SocketSpec => []SocketSafe
<1>1. SocketInit => SocketInv
  BY SocketStarts
<1>2. SocketInv /\ [SocketNext]_socketVars => SocketInv'
  BY SocketStepKeeps
<1>3. SocketInv => SocketSafe
  BY SocketInvIsSafe
<1> QED BY <1>1, <1>2, <1>3, PTL DEF SocketSpec
=============================================================================
