--------------------------- MODULE NodeCoreProofs ---------------------------
(***************************************************************************)
(* Proofs about the core of node: the watcher objects (NodeWatchers),      *)
(* scripts in contexts (NodeScript), the event loop (NodeLoop) and the     *)
(* process object (NodeProcess).                                           *)
(***************************************************************************)
EXTENDS NodeWatchers, NodeScript, NodeLoop, NodeProcess, Integers, FiniteSetTheorems, SequenceTheorems, TLAPS

-----------------------------------------------------------------------------
(* Watcher objects                                                         *)

\* An object that was made.
WatcherRecord ==
    [kind : WatcherKind, active : BOOLEAN, pending : BOOLEAN, lost : BOOLEAN, repeat : BOOLEAN,
     loop : Int, refs_ : Int, callback : BOOLEAN, held : BOOLEAN, persistent_ : BOOLEAN,
     path_ : BOOLEAN]

\* The loop's share of an object, and an event that libev has and node has not seen.
LoopShare(o) ==
    /\ o.active /\ o.kind # "signal" /\ (o.kind = "stat" => o.persistent_) => o.loop = 1
    /\ ~(o.active /\ o.kind # "signal" /\ (o.kind = "stat" => o.persistent_)) => o.loop = 0

EventOnce(o, c) == ~(o.pending /\ o.lost) /\ (o.pending \/ o.lost => ~c)

\* Counted once while active.  A stat watcher has its path then.
Plain(o) ==
    o.kind \in {"io", "idle", "signal", "stat", "interval", "list"} =>
        /\ o.active => o.refs_ = 1
        /\ ~o.active => o.refs_ = 0
        /\ o.pending => o.active
        /\ ~o.lost
        /\ o.kind \in {"interval", "list"} => o.repeat
        /\ o.kind = "stat" => o.path_ = o.active

\* A setTimeout(f, 0) is started once; it is counted until its callback returns.
Timeout(o, c) ==
    o.kind = "timeout" =>
        /\ o.refs_ \in 0..1
        /\ ~o.lost
        /\ o.active => o.refs_ = 1 /\ ~o.pending /\ ~c
        /\ o.pending \/ c => o.refs_ = 1
        /\ o.refs_ = 1 => ~o.repeat

\* A timer of dns.js is counted once for being active and once for its event, which is
\* pending, forgotten by ev_timer_init or in its callback.
Dns(o, c) ==
    o.kind = "dns" =>
        /\ o.callback
        /\ o.pending => ~o.active
        /\ o.active \/ o.pending \/ o.lost \/ c => ~o.repeat
        /\ o.active /\ (o.pending \/ o.lost \/ c) => o.refs_ = 2
        /\ o.active /\ ~(o.pending \/ o.lost \/ c) => o.refs_ = 1
        /\ ~o.active /\ (o.pending \/ o.lost \/ c) => o.refs_ = 1
        /\ ~o.active /\ ~(o.pending \/ o.lost \/ c) => o.refs_ = 0

\* An object; c says that its callback is on the stack.
ObjectOK(o, c) == LoopShare(o) /\ EventOnce(o, c) /\ Plain(o) /\ Timeout(o, c) /\ Dns(o, c)

WatcherOK(o, c) == (o = NoObject /\ ~c) \/ (o \in WatcherRecord /\ ObjectOK(o, c))

\* The inductive invariant.
WatchersInv ==
    /\ watcher \in [Watcher -> WatcherRecord \union {NoObject}]
    /\ calling \in Watcher \union {NoWatcher}
    /\ \A w \in Watcher : WatcherOK(watcher[w], calling = w)

\* What is counted, started or stopped is still an object.
LEMMA WatcherTypes ==
    ASSUME NEW o \in WatcherRecord
    PROVE  /\ Ref(o) \in WatcherRecord /\ Unref(o) \in WatcherRecord
           /\ EvWatcherStart(o) \in WatcherRecord /\ EvWatcherStop(o) \in WatcherRecord
<1>1. Ref(o) \in WatcherRecord
  BY DEF WatcherRecord, Ref
<1>2. Unref(o) \in WatcherRecord
  BY DEF WatcherRecord, Unref
<1>3. EvWatcherStart(o) \in WatcherRecord
  <2>1. PICK n \in Int : n = o.loop + 1
    BY DEF WatcherRecord
  <2>2. [o EXCEPT !.active = TRUE, !.loop = n] \in WatcherRecord
    BY DEF WatcherRecord
  <2> QED
    BY <2>1, <2>2 DEF EvWatcherStart
<1>4. EvWatcherStop(o) \in WatcherRecord
  <2>1. PICK n \in Int : n = o.loop - 1
    BY DEF WatcherRecord
  <2>2. [o EXCEPT !.active = FALSE, !.pending = FALSE, !.loop = n] \in WatcherRecord
    BY DEF WatcherRecord
  <2> QED
    BY <2>1, <2>2 DEF EvWatcherStop
<1> QED
  BY <1>1, <1>2, <1>3, <1>4

\* Timer::Stop, and the stop of an I/O or idle watcher, leave an object in order.
LEMMA TimerStopOK ==
    ASSUME NEW o \in WatcherRecord, NEW c \in BOOLEAN, ObjectOK(o, c),
           o.kind \notin {"signal", "stat"}
    PROVE  TimerStop(o) \in WatcherRecord /\ ObjectOK(TimerStop(o), c)
<1>1. CASE ~o.active
  BY <1>1 DEF TimerStop
<1>2. CASE o.active
  <2> DEFINE q == TimerStop(o)
  <2>1. q \in WatcherRecord
    BY <1>2, WatcherTypes DEF TimerStop
  <2>2. /\ q.active = FALSE /\ q.pending = FALSE /\ q.loop = o.loop - 1 /\ q.refs_ = o.refs_ - 1
        /\ q.kind = o.kind /\ q.lost = o.lost /\ q.repeat = o.repeat /\ q.callback = o.callback
        /\ q.path_ = o.path_
    BY <1>2 DEF TimerStop, Unref, EvWatcherStop, WatcherRecord
  <2> HIDE DEF q
  <2>3. LoopShare(q)
    BY <1>2, <2>1, <2>2 DEF ObjectOK, LoopShare, WatcherRecord
  <2>7. EventOnce(q, c)
    BY <1>2, <2>1, <2>2 DEF ObjectOK, EventOnce, WatcherRecord
  <2>4. Plain(q)
    <3> SUFFICES ASSUME o.kind \in {"io", "idle", "interval", "list"}
                 PROVE  Plain(q)
      BY <2>2 DEF Plain
    <3>1. o.refs_ = 1 /\ ~o.lost /\ (o.kind \in {"interval", "list"} => o.repeat)
      BY <1>2 DEF ObjectOK, Plain
    <3> QED
      BY <1>2, <2>1, <2>2, <3>1 DEF Plain, WatcherRecord
  <2>5. Timeout(q, c)
    BY <1>2, <2>1, <2>2 DEF ObjectOK, Timeout, WatcherRecord
  <2>6. Dns(q, c)
    BY <1>2, <2>1, <2>2 DEF ObjectOK, Dns, WatcherRecord
  <2> QED
    BY <2>1, <2>3, <2>4, <2>5, <2>6, <2>7 DEF ObjectOK, q
<1> QED
  BY <1>1, <1>2 DEF WatcherRecord

\* Timer::Start of a timer that is not started: a new one, or a stopped one of dns.js.
LEMMA TimerStartOK ==
    ASSUME NEW o \in WatcherRecord, NEW c \in BOOLEAN, ObjectOK(o, c),
           NEW r \in BOOLEAN, ~o.active, o.kind \in {"timeout", "interval", "dns"},
           r = (o.kind = "interval"), o.kind = "timeout" => o.refs_ = 0
    PROVE  TimerStart(o, r) \in WatcherRecord /\ ObjectOK(TimerStart(o, r), c)
<1> DEFINE q == TimerStart(o, r)
<1> DEFINE i == [o EXCEPT !.repeat = r, !.pending = FALSE, !.lost = @ \/ o.pending]
<1>0. i \in WatcherRecord
  BY DEF WatcherRecord
<1>1. q \in WatcherRecord
  BY <1>0, WatcherTypes DEF TimerStart, i
<1>2. /\ q.kind = o.kind /\ q.active = TRUE /\ q.pending = FALSE
      /\ q.lost = (o.lost \/ o.pending) /\ q.repeat = r /\ q.loop = o.loop + 1
      /\ q.refs_ = o.refs_ + 1 /\ q.callback = o.callback /\ q.persistent_ = o.persistent_
      /\ q.path_ = o.path_
  BY DEF TimerStart, Ref, EvWatcherStart, WatcherRecord
<1> HIDE DEF q
<1>3. LoopShare(q)
  BY <1>1, <1>2 DEF ObjectOK, LoopShare, WatcherRecord
<1>4. EventOnce(q, c)
  BY <1>1, <1>2 DEF ObjectOK, EventOnce, WatcherRecord
<1>5. Plain(q)
  BY <1>1, <1>2 DEF ObjectOK, Plain, WatcherRecord
<1>6. Timeout(q, c)
  BY <1>1, <1>2 DEF ObjectOK, Timeout, WatcherRecord
<1>7. Dns(q, c)
  BY <1>1, <1>2 DEF ObjectOK, Dns, WatcherRecord
<1> QED
  BY <1>1, <1>3, <1>4, <1>5, <1>6, <1>7 DEF ObjectOK, q

\* Timer::Again of a list that is not active.
LEMMA TimerAgainOK ==
    ASSUME NEW o \in WatcherRecord, NEW c \in BOOLEAN, ObjectOK(o, c),
           ~o.active, o.kind = "list"
    PROVE  TimerAgain(o) \in WatcherRecord /\ ObjectOK(TimerAgain(o), c)
<1> DEFINE q == TimerAgain(o)
<1> DEFINE i == [o EXCEPT !.repeat = TRUE]
<1>0. i \in WatcherRecord
  BY DEF WatcherRecord
<1>1. q \in WatcherRecord
  BY <1>0, WatcherTypes DEF TimerAgain, i
<1>2. /\ q.kind = o.kind /\ q.active = TRUE /\ q.pending = o.pending /\ q.lost = o.lost
      /\ q.repeat = TRUE /\ q.loop = o.loop + 1 /\ q.refs_ = o.refs_ + 1
      /\ q.callback = o.callback /\ q.persistent_ = o.persistent_ /\ q.path_ = o.path_
  BY DEF TimerAgain, Ref, EvWatcherStart, WatcherRecord
<1> HIDE DEF q
<1>3. LoopShare(q)
  BY <1>1, <1>2 DEF ObjectOK, LoopShare, WatcherRecord
<1>4. EventOnce(q, c)
  BY <1>1, <1>2 DEF ObjectOK, EventOnce, WatcherRecord
<1>5. Plain(q)
  BY <1>1, <1>2 DEF ObjectOK, Plain, WatcherRecord
<1>6. Timeout(q, c)
  BY <1>1, <1>2 DEF ObjectOK, Timeout, WatcherRecord
<1>7. Dns(q, c)
  BY <1>1, <1>2 DEF ObjectOK, Dns, WatcherRecord
<1> QED
  BY <1>1, <1>3, <1>4, <1>5, <1>6, <1>7 DEF ObjectOK, q

\* The start of an I/O or idle watcher that is not active.
LEMMA IOStartOK ==
    ASSUME NEW o \in WatcherRecord, NEW c \in BOOLEAN, ObjectOK(o, c),
           ~o.active, o.kind \in {"io", "idle"}
    PROVE  IOStart(o) \in WatcherRecord /\ ObjectOK(IOStart(o), c)
<1> DEFINE q == IOStart(o)
<1>1. q \in WatcherRecord
  BY WatcherTypes DEF IOStart
<1>2. /\ q.kind = o.kind /\ q.active = TRUE /\ q.pending = o.pending /\ q.lost = o.lost
      /\ q.repeat = o.repeat /\ q.loop = o.loop + 1 /\ q.refs_ = o.refs_ + 1
      /\ q.callback = o.callback /\ q.persistent_ = o.persistent_ /\ q.path_ = o.path_
  BY DEF IOStart, Ref, EvWatcherStart, WatcherRecord
<1> HIDE DEF q
<1>3. LoopShare(q)
  BY <1>1, <1>2 DEF ObjectOK, LoopShare, WatcherRecord
<1>4. EventOnce(q, c)
  BY <1>1, <1>2 DEF ObjectOK, EventOnce, WatcherRecord
<1>5. Plain(q)
  BY <1>1, <1>2 DEF ObjectOK, Plain, WatcherRecord
<1>6. Timeout(q, c)
  BY <1>1, <1>2 DEF ObjectOK, Timeout, WatcherRecord
<1>7. Dns(q, c)
  BY <1>1, <1>2 DEF ObjectOK, Dns, WatcherRecord
<1> QED
  BY <1>1, <1>3, <1>4, <1>5, <1>6, <1>7 DEF ObjectOK, q

\* The start of a signal watcher that is not active: the loop does not wait for it.
LEMMA SignalStartOK ==
    ASSUME NEW o \in WatcherRecord, NEW c \in BOOLEAN, ObjectOK(o, c),
           ~o.active, o.kind = "signal"
    PROVE  SignalStart(o) \in WatcherRecord /\ ObjectOK(SignalStart(o), c)
<1> DEFINE q == SignalStart(o)
<1> DEFINE i == [EvWatcherStart(o) EXCEPT !.loop = @ - 1]
<1>0. i \in WatcherRecord
  BY WatcherTypes DEF WatcherRecord
<1>1. q \in WatcherRecord
  BY <1>0, WatcherTypes DEF SignalStart
<1>2. /\ q.kind = o.kind /\ q.active = TRUE /\ q.pending = o.pending /\ q.lost = o.lost
      /\ q.repeat = o.repeat /\ q.loop = o.loop /\ q.refs_ = o.refs_ + 1
      /\ q.callback = o.callback /\ q.persistent_ = o.persistent_ /\ q.path_ = o.path_
  BY DEF SignalStart, Ref, EvWatcherStart, WatcherRecord
<1> HIDE DEF q
<1>3. LoopShare(q)
  BY <1>1, <1>2 DEF ObjectOK, LoopShare, WatcherRecord
<1>4. EventOnce(q, c)
  BY <1>1, <1>2 DEF ObjectOK, EventOnce, WatcherRecord
<1>5. Plain(q)
  BY <1>1, <1>2 DEF ObjectOK, Plain, WatcherRecord
<1>6. Timeout(q, c)
  BY <1>1, <1>2 DEF ObjectOK, Timeout, WatcherRecord
<1>7. Dns(q, c)
  BY <1>1, <1>2 DEF ObjectOK, Dns, WatcherRecord
<1> QED
  BY <1>1, <1>3, <1>4, <1>5, <1>6, <1>7 DEF ObjectOK, q

\* The stop of an active signal watcher.
LEMMA SignalStopOK ==
    ASSUME NEW o \in WatcherRecord, NEW c \in BOOLEAN, ObjectOK(o, c),
           o.active, o.kind = "signal"
    PROVE  SignalStop(o) \in WatcherRecord /\ ObjectOK(SignalStop(o), c)
<1> DEFINE q == SignalStop(o)
<1> DEFINE i == [o EXCEPT !.loop = @ + 1]
<1>0. i \in WatcherRecord
  BY DEF WatcherRecord
<1>1. q \in WatcherRecord
  BY <1>0, WatcherTypes DEF SignalStop, i
<1>2. /\ q.kind = o.kind /\ q.active = FALSE /\ q.pending = FALSE /\ q.lost = o.lost
      /\ q.repeat = o.repeat /\ q.loop = o.loop /\ q.refs_ = o.refs_ - 1
      /\ q.callback = o.callback /\ q.persistent_ = o.persistent_ /\ q.path_ = o.path_
  BY DEF SignalStop, Unref, EvWatcherStop, WatcherRecord
<1> HIDE DEF q
<1>3. LoopShare(q)
  BY <1>1, <1>2 DEF ObjectOK, LoopShare, WatcherRecord
<1>4. EventOnce(q, c)
  BY <1>1, <1>2 DEF ObjectOK, EventOnce, WatcherRecord
<1>5. Plain(q)
  BY <1>1, <1>2 DEF ObjectOK, Plain, WatcherRecord
<1>6. Timeout(q, c)
  BY <1>1, <1>2 DEF ObjectOK, Timeout, WatcherRecord
<1>7. Dns(q, c)
  BY <1>1, <1>2 DEF ObjectOK, Dns, WatcherRecord
<1> QED
  BY <1>1, <1>3, <1>4, <1>5, <1>6, <1>7 DEF ObjectOK, q

\* The start of a stat watcher: it holds the loop only when persistent.
LEMMA StatStartOK ==
    ASSUME NEW o \in WatcherRecord, NEW c \in BOOLEAN, ObjectOK(o, c),
           NEW persistent \in BOOLEAN, ~o.path_, o.kind = "stat"
    PROVE  StatStart(o, persistent) \in WatcherRecord /\ ObjectOK(StatStart(o, persistent), c)
<1> DEFINE q == StatStart(o, persistent)
<1> DEFINE i == [o EXCEPT !.path_ = TRUE, !.persistent_ = persistent]
           j == EvWatcherStart(i)
<1>0. i \in WatcherRecord
  BY DEF WatcherRecord
<1>a. j \in WatcherRecord
  BY <1>0, WatcherTypes
<1> HIDE DEF j
<1>b. [j EXCEPT !.loop = @ - 1] \in WatcherRecord
  BY <1>a DEF WatcherRecord
<1>1. q \in WatcherRecord
  BY <1>a, <1>b, WatcherTypes DEF StatStart, i, j
<1>c. ~o.active
  BY DEF ObjectOK, Plain, WatcherRecord
<1>2. /\ q.kind = o.kind /\ q.active = TRUE /\ q.pending = o.pending /\ q.lost = o.lost
      /\ q.repeat = o.repeat /\ q.loop = (IF persistent THEN o.loop + 1 ELSE o.loop)
      /\ q.refs_ = o.refs_ + 1 /\ q.callback = o.callback /\ q.persistent_ = persistent
      /\ q.path_ = TRUE
  BY DEF StatStart, Ref, EvWatcherStart, WatcherRecord
<1> HIDE DEF q
<1>3. LoopShare(q)
  BY <1>1, <1>2, <1>c DEF ObjectOK, LoopShare, WatcherRecord
<1>4. EventOnce(q, c)
  BY <1>1, <1>2, <1>c DEF ObjectOK, EventOnce, WatcherRecord
<1>5. Plain(q)
  BY <1>1, <1>2, <1>c DEF ObjectOK, Plain, WatcherRecord
<1>6. Timeout(q, c)
  BY <1>1, <1>2, <1>c DEF ObjectOK, Timeout, WatcherRecord
<1>7. Dns(q, c)
  BY <1>1, <1>2, <1>c DEF ObjectOK, Dns, WatcherRecord
<1> QED
  BY <1>1, <1>3, <1>4, <1>5, <1>6, <1>7 DEF ObjectOK, q

\* The stop of an active stat watcher.
LEMMA StatStopOK ==
    ASSUME NEW o \in WatcherRecord, NEW c \in BOOLEAN, ObjectOK(o, c),
           o.active, o.kind = "stat"
    PROVE  StatStop(o) \in WatcherRecord /\ ObjectOK(StatStop(o), c)
<1> DEFINE q == StatStop(o)
<1> DEFINE i == IF o.persistent_ THEN o ELSE [o EXCEPT !.loop = @ + 1]
           j == EvWatcherStop(i)
<1>0. i \in WatcherRecord
  BY DEF WatcherRecord
<1>a. j \in WatcherRecord
  BY <1>0, WatcherTypes
<1> HIDE DEF j
<1>b. [j EXCEPT !.path_ = FALSE] \in WatcherRecord
  BY <1>a DEF WatcherRecord
<1>1. q \in WatcherRecord
  BY <1>b, WatcherTypes DEF StatStop, i, j
<1>2. /\ q.kind = o.kind /\ q.active = FALSE /\ q.pending = FALSE /\ q.lost = o.lost
      /\ q.repeat = o.repeat /\ q.loop = (IF o.persistent_ THEN o.loop - 1 ELSE o.loop)
      /\ q.refs_ = o.refs_ - 1 /\ q.callback = o.callback /\ q.persistent_ = o.persistent_
      /\ q.path_ = FALSE
  BY DEF StatStop, Unref, EvWatcherStop, WatcherRecord
<1> HIDE DEF q
<1>3. LoopShare(q)
  BY <1>1, <1>2 DEF ObjectOK, LoopShare, WatcherRecord
<1>4. EventOnce(q, c)
  BY <1>1, <1>2 DEF ObjectOK, EventOnce, WatcherRecord
<1>5. Plain(q)
  BY <1>1, <1>2 DEF ObjectOK, Plain, WatcherRecord
<1>6. Timeout(q, c)
  BY <1>1, <1>2 DEF ObjectOK, Timeout, WatcherRecord
<1>7. Dns(q, c)
  BY <1>1, <1>2 DEF ObjectOK, Dns, WatcherRecord
<1> QED
  BY <1>1, <1>3, <1>4, <1>5, <1>6, <1>7 DEF ObjectOK, q

\* JavaScript sets or removes the callback, which only a timer of dns.js keeps.
LEMMA CallbackOK ==
    ASSUME NEW o \in WatcherRecord, NEW c \in BOOLEAN, ObjectOK(o, c),
           NEW cb \in BOOLEAN, o.kind # "dns"
    PROVE  [o EXCEPT !.callback = cb] \in WatcherRecord /\ ObjectOK([o EXCEPT !.callback = cb], c)
<1> DEFINE q == [o EXCEPT !.callback = cb]
<1>1. q \in WatcherRecord
  BY DEF ObjectOK, WatcherRecord
<1>2. /\ q.kind = o.kind /\ q.active = o.active /\ q.pending = o.pending /\ q.lost = o.lost
      /\ q.repeat = o.repeat /\ q.loop = o.loop /\ q.refs_ = o.refs_ /\ q.callback = cb
      /\ q.persistent_ = o.persistent_ /\ q.path_ = o.path_
  BY DEF ObjectOK, WatcherRecord
<1> HIDE DEF q
<1>3. LoopShare(q)
  BY <1>1, <1>2 DEF ObjectOK, LoopShare, WatcherRecord
<1>4. EventOnce(q, c)
  BY <1>1, <1>2 DEF ObjectOK, EventOnce, WatcherRecord
<1>5. Plain(q)
  BY <1>1, <1>2 DEF ObjectOK, Plain, WatcherRecord
<1>6. Timeout(q, c)
  BY <1>1, <1>2 DEF ObjectOK, Timeout, WatcherRecord
<1>7. Dns(q, c)
  BY <1>1, <1>2 DEF ObjectOK, Dns, WatcherRecord
<1> QED
  BY <1>1, <1>3, <1>4, <1>5, <1>6, <1>7 DEF ObjectOK, q

\* JavaScript drops the object.
LEMMA HeldOK ==
    ASSUME NEW o \in WatcherRecord, NEW c \in BOOLEAN, ObjectOK(o, c)
    PROVE  [o EXCEPT !.held = FALSE] \in WatcherRecord /\ ObjectOK([o EXCEPT !.held = FALSE], c)
<1> DEFINE q == [o EXCEPT !.held = FALSE]
<1>1. q \in WatcherRecord
  BY DEF ObjectOK, WatcherRecord
<1>2. /\ q.kind = o.kind /\ q.active = o.active /\ q.pending = o.pending /\ q.lost = o.lost
      /\ q.repeat = o.repeat /\ q.loop = o.loop /\ q.refs_ = o.refs_
      /\ q.callback = o.callback /\ q.persistent_ = o.persistent_ /\ q.path_ = o.path_
  BY DEF ObjectOK, WatcherRecord
<1> HIDE DEF q
<1>3. LoopShare(q)
  BY <1>1, <1>2 DEF ObjectOK, LoopShare, WatcherRecord
<1>4. EventOnce(q, c)
  BY <1>1, <1>2 DEF ObjectOK, EventOnce, WatcherRecord
<1>5. Plain(q)
  BY <1>1, <1>2 DEF ObjectOK, Plain, WatcherRecord
<1>6. Timeout(q, c)
  BY <1>1, <1>2 DEF ObjectOK, Timeout, WatcherRecord
<1>7. Dns(q, c)
  BY <1>1, <1>2 DEF ObjectOK, Dns, WatcherRecord
<1> QED
  BY <1>1, <1>3, <1>4, <1>5, <1>6, <1>7 DEF ObjectOK, q

\* An event is delivered: its callback runs.
LEMMA DeliveredOK ==
    ASSUME NEW o \in WatcherRecord, ObjectOK(o, FALSE), o.pending \/ o.lost
    PROVE  [o EXCEPT !.pending = FALSE, !.lost = FALSE] \in WatcherRecord /\ ObjectOK([o EXCEPT !.pending = FALSE, !.lost = FALSE], TRUE)
<1> DEFINE q == [o EXCEPT !.pending = FALSE, !.lost = FALSE]
<1>1. q \in WatcherRecord
  BY DEF ObjectOK, WatcherRecord
<1>2. /\ q.kind = o.kind /\ q.active = o.active /\ q.pending = FALSE /\ q.lost = FALSE
      /\ q.repeat = o.repeat /\ q.loop = o.loop /\ q.refs_ = o.refs_
      /\ q.callback = o.callback /\ q.persistent_ = o.persistent_ /\ q.path_ = o.path_
  BY DEF ObjectOK, WatcherRecord
<1> HIDE DEF q
<1>3. LoopShare(q)
  BY <1>1, <1>2 DEF ObjectOK, LoopShare, WatcherRecord
<1>4. EventOnce(q, TRUE)
  BY <1>1, <1>2 DEF ObjectOK, EventOnce, WatcherRecord
<1>5. Plain(q)
  BY <1>1, <1>2 DEF ObjectOK, Plain, WatcherRecord
<1>6. Timeout(q, TRUE)
  BY <1>1, <1>2 DEF ObjectOK, Timeout, WatcherRecord
<1>7. Dns(q, TRUE)
  BY <1>1, <1>2 DEF ObjectOK, Dns, WatcherRecord
<1> QED
  BY <1>1, <1>3, <1>4, <1>5, <1>6, <1>7 DEF ObjectOK, q

\* An event is delivered and there is no callback.
LEMMA NotDeliveredOK ==
    ASSUME NEW o \in WatcherRecord, ObjectOK(o, FALSE), o.pending \/ o.lost, ~o.callback
    PROVE  [o EXCEPT !.pending = FALSE, !.lost = FALSE] \in WatcherRecord /\ ObjectOK([o EXCEPT !.pending = FALSE, !.lost = FALSE], FALSE)
<1> DEFINE q == [o EXCEPT !.pending = FALSE, !.lost = FALSE]
<1>1. q \in WatcherRecord
  BY DEF ObjectOK, WatcherRecord
<1>2. /\ q.kind = o.kind /\ q.active = o.active /\ q.pending = FALSE /\ q.lost = FALSE
      /\ q.repeat = o.repeat /\ q.loop = o.loop /\ q.refs_ = o.refs_
      /\ q.callback = o.callback /\ q.persistent_ = o.persistent_ /\ q.path_ = o.path_
  BY DEF ObjectOK, WatcherRecord
<1> HIDE DEF q
<1>3. LoopShare(q)
  BY <1>1, <1>2 DEF ObjectOK, LoopShare, WatcherRecord
<1>4. EventOnce(q, FALSE)
  BY <1>1, <1>2 DEF ObjectOK, EventOnce, WatcherRecord
<1>5. Plain(q)
  BY <1>1, <1>2 DEF ObjectOK, Plain, WatcherRecord
<1>6. Timeout(q, FALSE)
  BY <1>1, <1>2 DEF ObjectOK, Timeout, WatcherRecord
<1>7. Dns(q, FALSE)
  BY <1>1, <1>2 DEF ObjectOK, Dns, WatcherRecord
<1> QED
  BY <1>1, <1>3, <1>4, <1>5, <1>6, <1>7 DEF ObjectOK, q

\* A callback returns that does not give up the timer.
LEMMA ReturnOK ==
    ASSUME NEW o \in WatcherRecord, ObjectOK(o, TRUE),
           o.kind \notin Timer \/ o.repeat
    PROVE  o \in WatcherRecord /\ ObjectOK(o, FALSE)
<1> DEFINE q == o
<1>1. q \in WatcherRecord
  BY DEF ObjectOK, WatcherRecord
<1>2. /\ q.kind = o.kind /\ q.active = o.active /\ q.pending = o.pending /\ q.lost = o.lost
      /\ q.repeat = o.repeat /\ q.loop = o.loop /\ q.refs_ = o.refs_
      /\ q.callback = o.callback /\ q.persistent_ = o.persistent_ /\ q.path_ = o.path_
  BY DEF ObjectOK, WatcherRecord
<1> HIDE DEF q
<1>3. LoopShare(q)
  BY <1>1, <1>2 DEF ObjectOK, LoopShare, Timer, WatcherRecord
<1>4. EventOnce(q, FALSE)
  BY <1>1, <1>2 DEF ObjectOK, EventOnce, Timer, WatcherRecord
<1>5. Plain(q)
  BY <1>1, <1>2 DEF ObjectOK, Plain, Timer, WatcherRecord
<1>6. Timeout(q, FALSE)
  BY <1>1, <1>2 DEF ObjectOK, Timeout, Timer, WatcherRecord
<1>7. Dns(q, FALSE)
  BY <1>1, <1>2 DEF ObjectOK, Dns, Timer, WatcherRecord
<1> QED
  BY <1>1, <1>3, <1>4, <1>5, <1>6, <1>7 DEF ObjectOK, q

\* The callback of a timer returns that does not repeat: one reason less to keep it.
LEMMA UnrefOK ==
    ASSUME NEW o \in WatcherRecord, ObjectOK(o, TRUE), o.kind \in Timer, ~o.repeat
    PROVE  Unref(o) \in WatcherRecord /\ ObjectOK(Unref(o), FALSE)
<1> DEFINE q == Unref(o)
<1>1. q \in WatcherRecord
  BY DEF Unref, WatcherRecord
<1>2. /\ q.kind = o.kind /\ q.active = o.active /\ q.pending = o.pending /\ q.lost = o.lost
      /\ q.repeat = o.repeat /\ q.loop = o.loop /\ q.refs_ = o.refs_ - 1
      /\ q.callback = o.callback /\ q.persistent_ = o.persistent_ /\ q.path_ = o.path_
  BY DEF Unref, WatcherRecord
<1> HIDE DEF q
<1>3. LoopShare(q)
  BY <1>1, <1>2 DEF ObjectOK, LoopShare, Timer, WatcherRecord
<1>4. EventOnce(q, FALSE)
  BY <1>1, <1>2 DEF ObjectOK, EventOnce, Timer, WatcherRecord
<1>5. Plain(q)
  BY <1>1, <1>2 DEF ObjectOK, Plain, Timer, WatcherRecord
<1>8. ~o.pending /\ ~o.lost
  BY DEF ObjectOK, EventOnce
<1>6. Timeout(q, FALSE)
  <2> SUFFICES ASSUME o.kind = "timeout"
               PROVE  Timeout(q, FALSE)
    BY <1>2 DEF Timeout
  <2>1. o.refs_ = 1 /\ ~o.active
    BY DEF ObjectOK, Timeout
  <2> QED
    BY <1>1, <1>2, <1>8, <2>1 DEF Timeout, WatcherRecord
<1>7. Dns(q, FALSE)
  <2> SUFFICES ASSUME o.kind = "dns"
               PROVE  Dns(q, FALSE)
    BY <1>2 DEF Dns
  <2>1. o.callback /\ (o.active => o.refs_ = 2) /\ (~o.active => o.refs_ = 1)
    BY DEF ObjectOK, Dns
  <2> QED
    BY <1>1, <1>2, <1>8, <2>1 DEF Dns, WatcherRecord
<1> QED
  BY <1>1, <1>3, <1>4, <1>5, <1>6, <1>7 DEF ObjectOK, q

\* libev finds an event of an active watcher; one that repeats stays active.
LEMMA FiredOK ==
    ASSUME NEW o \in WatcherRecord, ObjectOK(o, FALSE), o.active, ~o.pending, ~o.lost,
           ~(o.kind \in Timer /\ ~o.repeat)
    PROVE  [o EXCEPT !.pending = TRUE] \in WatcherRecord /\ ObjectOK([o EXCEPT !.pending = TRUE], FALSE)
<1> DEFINE q == [o EXCEPT !.pending = TRUE]
<1>1. q \in WatcherRecord
  BY DEF ObjectOK, WatcherRecord
<1>2. /\ q.kind = o.kind /\ q.active = o.active /\ q.pending = TRUE /\ q.lost = o.lost
      /\ q.repeat = o.repeat /\ q.loop = o.loop /\ q.refs_ = o.refs_
      /\ q.callback = o.callback /\ q.persistent_ = o.persistent_ /\ q.path_ = o.path_
  BY DEF ObjectOK, WatcherRecord
<1> HIDE DEF q
<1>3. LoopShare(q)
  BY <1>1, <1>2 DEF ObjectOK, LoopShare, Timer, WatcherRecord
<1>4. EventOnce(q, FALSE)
  BY <1>1, <1>2 DEF ObjectOK, EventOnce, Timer, WatcherRecord
<1>5. Plain(q)
  BY <1>1, <1>2 DEF ObjectOK, Plain, Timer, WatcherRecord
<1>6. Timeout(q, FALSE)
  BY <1>1, <1>2 DEF ObjectOK, Timeout, Timer, WatcherRecord
<1>7. Dns(q, FALSE)
  BY <1>1, <1>2 DEF ObjectOK, Dns, Timer, WatcherRecord
<1> QED
  BY <1>1, <1>3, <1>4, <1>5, <1>6, <1>7 DEF ObjectOK, q

\* A timer that does not repeat is stopped when its time has come.
LEMMA FiredOnceOK ==
    ASSUME NEW o \in WatcherRecord, ObjectOK(o, FALSE), o.active, ~o.pending, ~o.lost,
           o.kind \in Timer, ~o.repeat
    PROVE  [EvWatcherStop(o) EXCEPT !.pending = TRUE] \in WatcherRecord /\ ObjectOK([EvWatcherStop(o) EXCEPT !.pending = TRUE], FALSE)
<1> DEFINE q == [EvWatcherStop(o) EXCEPT !.pending = TRUE]
<1>1. q \in WatcherRecord
  BY WatcherTypes DEF WatcherRecord
<1>2. /\ q.kind = o.kind /\ q.active = FALSE /\ q.pending = TRUE /\ q.lost = o.lost
      /\ q.repeat = o.repeat /\ q.loop = o.loop - 1 /\ q.refs_ = o.refs_
      /\ q.callback = o.callback /\ q.persistent_ = o.persistent_ /\ q.path_ = o.path_
  BY DEF EvWatcherStop, WatcherRecord
<1> HIDE DEF q
<1>3. LoopShare(q)
  BY <1>1, <1>2 DEF ObjectOK, LoopShare, Timer, WatcherRecord
<1>4. EventOnce(q, FALSE)
  BY <1>1, <1>2 DEF ObjectOK, EventOnce, Timer, WatcherRecord
<1>5. Plain(q)
  BY <1>1, <1>2 DEF ObjectOK, Plain, Timer, WatcherRecord
<1>6. Timeout(q, FALSE)
  BY <1>1, <1>2 DEF ObjectOK, Timeout, Timer, WatcherRecord
<1>7. Dns(q, FALSE)
  BY <1>1, <1>2 DEF ObjectOK, Dns, Timer, WatcherRecord
<1> QED
  BY <1>1, <1>3, <1>4, <1>5, <1>6, <1>7 DEF ObjectOK, q

\* An object that JavaScript uses, or whose event is delivered, exists.
LEMMA UsedWatcher ==
    ASSUME WatchersInv, NEW w \in Watcher, watcher[w].kind # NoWatcher
    PROVE  watcher[w] \in WatcherRecord /\ ObjectOK(watcher[w], calling = w)
<1>1. NoObject.kind = NoWatcher
  BY DEF NoObject
<1> QED
  BY <1>1 DEF WatchersInv, WatcherOK

\* One object changes, in order, and no callback begins or ends.
LEMMA SetsKeeps ==
    ASSUME WatchersInv, NEW w \in Watcher, NEW o \in WatcherRecord, ObjectOK(o, calling = w),
           Sets(w, o)
    PROVE  WatchersInv'
<1>1. /\ watcher' = [watcher EXCEPT ![w] = o] /\ calling' = calling
      /\ watcher \in [Watcher -> WatcherRecord \union {NoObject}]
      /\ calling \in Watcher \union {NoWatcher}
  BY DEF Sets, WatchersInv
<1>2. watcher' \in [Watcher -> WatcherRecord \union {NoObject}]
  BY <1>1
<1>3. ASSUME NEW v \in Watcher
      PROVE  WatcherOK(watcher'[v], calling' = v)
  <2>1. CASE v = w
    BY <1>1, <2>1 DEF WatcherOK
  <2>2. CASE v # w
    BY <1>1, <2>2 DEF WatchersInv
  <2> QED
    BY <2>1, <2>2
<1> QED
  BY <1>1, <1>2, <1>3 DEF WatchersInv

\* One object changes and a callback begins, or ends.
LEMMA CallKeeps ==
    ASSUME WatchersInv, NEW w \in Watcher, NEW o \in WatcherRecord, NEW c,
           \/ calling = NoWatcher /\ c = w /\ ObjectOK(o, TRUE)
           \/ calling = w /\ c = NoWatcher /\ ObjectOK(o, FALSE),
           watcher' = [watcher EXCEPT ![w] = o], calling' = c
    PROVE  WatchersInv'
<1>1. /\ watcher \in [Watcher -> WatcherRecord \union {NoObject}]
      /\ calling' \in Watcher \union {NoWatcher}
  BY DEF WatchersInv
<1>2. watcher' \in [Watcher -> WatcherRecord \union {NoObject}]
  BY <1>1
<1>3. ASSUME NEW v \in Watcher
      PROVE  WatcherOK(watcher'[v], calling' = v)
  <2>1. CASE v = w
    <3>1. watcher'[v] = o
      BY <1>1, <2>1
    <3>2. CASE c = w /\ ObjectOK(o, TRUE)
      <4>1. (calling' = v) = TRUE
        BY <2>1, <3>2
      <4> QED
        BY <3>1, <3>2, <4>1 DEF WatcherOK
    <3>3. CASE c = NoWatcher /\ ObjectOK(o, FALSE)
      <4>1. (calling' = v) = FALSE
        BY <2>1, <3>3, WatcherAssumption
      <4> QED
        BY <3>1, <3>3, <4>1 DEF WatcherOK
    <3> QED
      BY <3>2, <3>3
  <2>2. CASE v # w
    <3>1. watcher'[v] = watcher[v] /\ WatcherOK(watcher[v], calling = v)
      BY <1>1, <2>2 DEF WatchersInv
    <3>2. (calling = v) = FALSE /\ (calling' = v) = FALSE
      BY <2>2, WatcherAssumption
    <3> QED
      BY <3>1, <3>2
  <2> QED
    BY <2>1, <2>2
<1> QED
  BY <1>1, <1>2, <1>3 DEF WatchersInv

\* A new object is in order: nothing is started, and a timer repeats.
LEMMA CreatesOK ==
    ASSUME WatchersInv, NEW w \in Watcher, NEW q \in WatcherRecord, Creates(w, q),
           q.active = FALSE, q.pending = FALSE, q.lost = FALSE, q.loop = 0, q.refs_ = 0,
           q.callback = TRUE, q.path_ = FALSE, q.kind \in Timer => q.repeat
    PROVE  WatchersInv'
<1>3. ~(calling = w) /\ Sets(w, q)
  <2>1. watcher[w].kind = NoWatcher
    BY DEF Creates
  <2>2. watcher[w] \notin WatcherRecord
    BY <2>1 DEF WatcherRecord, WatcherKind, Timer, NoWatcher
  <2> QED
    BY <2>2 DEF Creates, WatchersInv, WatcherOK
<1>4. ObjectOK(q, FALSE)
  <2>1. LoopShare(q) /\ EventOnce(q, FALSE)
    BY DEF LoopShare, EventOnce
  <2>2. Plain(q)
    BY DEF Plain, Timer
  <2>3. Timeout(q, FALSE)
    BY DEF Timeout
  <2>4. Dns(q, FALSE)
    BY DEF Dns
  <2> QED
    BY <2>1, <2>2, <2>3, <2>4 DEF ObjectOK
<1>5. ObjectOK(q, calling = w)
  <2>1. (calling = w) = FALSE
    BY <1>3
  <2> QED
    BY <1>4, <2>1
<1> QED
  BY <1>3, <1>5, SetsKeeps

\* The constructors.
LEMMA NewKeeps ==
    ASSUME WatchersInv, NEW w \in Watcher,
           \/ NewTimer(w) \/ NewIOWatcher(w) \/ NewIdleWatcher(w) \/ NewSignalWatcher(w)
           \/ NewStatWatcher(w)
    PROVE  WatchersInv'
<1>1. ASSUME NEW kind \in WatcherKind
      PROVE  /\ WatcherWrapped(kind) \in WatcherRecord
             /\ LET p == WatcherWrapped(kind) IN
                /\ p.kind = kind /\ p.active = FALSE /\ p.pending = FALSE /\ p.lost = FALSE
                /\ p.loop = 0 /\ p.refs_ = 0 /\ p.callback = TRUE /\ p.path_ = FALSE
  BY DEF WatcherWrapped, WatcherRecord
<1>2. CASE NewTimer(w)
  <2>1. PICK kind \in Timer : Creates(w, TimerObject(kind))
    BY <1>2 DEF NewTimer
  <2>2. kind \in WatcherKind
    BY DEF WatcherKind
  <2>3. PICK p \in WatcherRecord : p = WatcherWrapped(kind)
    BY <1>1, <2>2
  <2>4. /\ p.active = FALSE /\ p.pending = FALSE /\ p.lost = FALSE
        /\ p.loop = 0 /\ p.refs_ = 0 /\ p.callback = TRUE /\ p.path_ = FALSE
    BY <1>1, <2>2, <2>3
  <2> DEFINE q == [p EXCEPT !.repeat = TRUE]
  <2>5. q \in WatcherRecord
    BY DEF WatcherRecord
  <2>6. /\ q.active = FALSE /\ q.pending = FALSE /\ q.lost = FALSE /\ q.repeat = TRUE
        /\ q.loop = 0 /\ q.refs_ = 0 /\ q.callback = TRUE /\ q.path_ = FALSE
    BY <2>4 DEF WatcherRecord
  <2>7. Creates(w, q)
    BY <2>1, <2>3 DEF TimerObject
  <2> HIDE DEF q
  <2> QED
    BY <2>5, <2>6, <2>7, CreatesOK
<1>3. ASSUME NEW kind \in {"io", "idle", "signal"}, Creates(w, WatcherWrapped(kind))
      PROVE  WatchersInv'
  <2>1. kind \in WatcherKind /\ kind \notin Timer
    BY DEF WatcherKind, Timer
  <2> QED
    BY <1>1, <1>3, <2>1, CreatesOK
<1>4. CASE NewStatWatcher(w)
  <2>2. "stat" \in WatcherKind /\ "stat" \notin Timer
    BY DEF WatcherKind, Timer
  <2>3. PICK p \in WatcherRecord : p = WatcherWrapped("stat")
    BY <1>1, <2>2
  <2>4. /\ p.kind = "stat" /\ p.active = FALSE /\ p.pending = FALSE /\ p.lost = FALSE
        /\ p.loop = 0 /\ p.refs_ = 0 /\ p.callback = TRUE
    BY <1>1, <2>2, <2>3
  <2> DEFINE q == [p EXCEPT !.persistent_ = FALSE, !.path_ = FALSE]
  <2>5. q \in WatcherRecord
    BY DEF WatcherRecord
  <2>6. /\ q.active = FALSE /\ q.pending = FALSE /\ q.lost = FALSE /\ q.kind = "stat"
        /\ q.loop = 0 /\ q.refs_ = 0 /\ q.callback = TRUE /\ q.path_ = FALSE
    BY <2>4 DEF WatcherRecord
  <2>7. Creates(w, q)
    BY <1>4, <2>3 DEF NewStatWatcher, StatWatcherObject
  <2> HIDE DEF q
  <2> QED
    BY <2>2, <2>5, <2>6, <2>7, CreatesOK
<1> QED
  BY <1>2, <1>3, <1>4 DEF NewIOWatcher, NewIdleWatcher, NewSignalWatcher,
     IOWatcherObject, IdleWatcherObject, SignalWatcherObject

\* An event of a watcher is delivered; stopped is what is left without a callback.
LEMMA CalledKeeps ==
    ASSUME WatchersInv, NEW w \in Watcher, NEW kinds, Delivers(w, kinds),
           NEW stopped, NoWatcher \notin kinds,
           WatcherCalled(w, Delivered(w), stopped),
           (Delivered(w) \in WatcherRecord /\ ObjectOK(Delivered(w), FALSE)) =>
               stopped \in WatcherRecord /\ ObjectOK(stopped, FALSE)
    PROVE  WatchersInv'
<1>1. PICK o \in WatcherRecord : o = watcher[w] /\ ObjectOK(o, calling = w)
  BY UsedWatcher DEF Delivers
<1>2. calling = NoWatcher /\ (calling = w) = FALSE /\ (o.pending \/ o.lost)
  BY <1>1, WatcherAssumption DEF Delivers, Due
<1>3. ObjectOK(o, FALSE)
  BY <1>1, <1>2
<1> DEFINE d == [o EXCEPT !.pending = FALSE, !.lost = FALSE]
<1>4. Delivered(w) = d /\ d \in WatcherRecord /\ ObjectOK(d, TRUE) /\ d.callback = o.callback
  <2>1. d.callback = o.callback
    BY DEF WatcherRecord
  <2> QED
    BY <1>1, <1>2, <1>3, <2>1, DeliveredOK DEF Delivered
<1> HIDE DEF d
<1>5. CASE o.callback
  <2>1. watcher' = [watcher EXCEPT ![w] = d] /\ calling' = w
    BY <1>4, <1>5 DEF WatcherCalled
  <2> QED
    BY <1>2, <1>4, <2>1, CallKeeps
<1>6. CASE ~o.callback
  <2>1. Sets(w, stopped)
    BY <1>4, <1>6 DEF WatcherCalled
  <2>2. ObjectOK(d, FALSE)
    BY <1>2, <1>3, <1>6, NotDeliveredOK DEF d
  <2>3. stopped \in WatcherRecord /\ ObjectOK(stopped, calling = w)
    BY <1>2, <1>4, <2>2
  <2> QED
    BY <2>1, <2>3, SetsKeeps
<1> QED
  BY <1>5, <1>6

\* Every start, stop and callback of a timer, and its return, keeps the invariant.
LEMMA TimerKeeps ==
    ASSUME WatchersInv, NEW w \in Watcher, TimerNext(w)
    PROVE  WatchersInv'
<1> DEFINE c == calling = w
<1>0. NoWatcher \notin Timer
  BY DEF NoWatcher, Timer
<1>1. CASE NewTimer(w)
  BY <1>1, NewKeeps
<1>2. CASE TimerStarts(w)
  <2>1. PICK o \in WatcherRecord : o = watcher[w] /\ ObjectOK(o, c)
    BY <1>2, UsedWatcher DEF TimerStarts, Uses
  <2>2. CASE o.kind \in {"timeout", "interval"} /\ o.refs_ = 0
             /\ Sets(w, TimerStart(o, o.kind = "interval"))
    <3>1. PICK r \in BOOLEAN : r = (o.kind = "interval")
      OBVIOUS
    <3>2. ~o.active
      BY <2>1, <2>2 DEF ObjectOK, Plain, Timeout
    <3>3. TimerStart(o, r) \in WatcherRecord /\ ObjectOK(TimerStart(o, r), c)
      BY <2>1, <2>2, <3>1, <3>2, TimerStartOK
    <3> QED
      BY <2>2, <3>1, <3>3, SetsKeeps
  <2>3. CASE o.kind = "dns" /\ Sets(w, TimerStart(TimerStop(o), FALSE))
    <3>1. PICK p \in WatcherRecord : p = TimerStop(o) /\ ObjectOK(p, c)
      BY <2>1, <2>3, TimerStopOK
    <3>2. ~p.active /\ p.kind = "dns"
      BY <2>3, <3>1 DEF TimerStop, Unref, EvWatcherStop, WatcherRecord
    <3>3. TimerStart(p, FALSE) \in WatcherRecord /\ ObjectOK(TimerStart(p, FALSE), c)
      BY <3>1, <3>2, TimerStartOK
    <3> QED
      BY <2>3, <3>1, <3>3, SetsKeeps
  <2> QED
    BY <1>2, <2>1, <2>2, <2>3 DEF TimerStarts
<1>3. CASE TimerAgains(w)
  <2>1. PICK o \in WatcherRecord : o = watcher[w] /\ ObjectOK(o, c) /\ o.kind = "list"
    BY <1>3, UsedWatcher DEF TimerAgains, Uses
  <2>2. CASE o.active
    <3>1. o.repeat
      BY <2>1 DEF ObjectOK, Plain
    <3>2. [o EXCEPT !.repeat = TRUE] = o
      BY <3>1 DEF WatcherRecord
    <3> QED
      BY <1>3, <2>1, <2>2, <3>2, SetsKeeps DEF TimerAgains, TimerAgain
  <2>3. CASE ~o.active
    <3>1. TimerAgain(o) \in WatcherRecord /\ ObjectOK(TimerAgain(o), c)
      BY <2>1, <2>3, TimerAgainOK
    <3> QED
      BY <1>3, <2>1, <3>1, SetsKeeps DEF TimerAgains
  <2> QED
    BY <2>2, <2>3
<1>4. CASE TimerStops(w)
  <2>1. PICK o \in WatcherRecord : o = watcher[w] /\ ObjectOK(o, c) /\ o.kind \in Timer
    BY <1>4, UsedWatcher DEF TimerStops, Uses
  <2>2. TimerStop(o) \in WatcherRecord /\ ObjectOK(TimerStop(o), c)
    BY <2>1, TimerStopOK DEF Timer
  <2> QED
    BY <1>4, <2>1, <2>2, SetsKeeps DEF TimerStops
<1>5. CASE ClearTimeout(w)
  <2>1. PICK o \in WatcherRecord :
           o = watcher[w] /\ ObjectOK(o, c) /\ o.kind \in {"timeout", "interval"}
    BY <1>5, UsedWatcher DEF ClearTimeout, Uses
  <2>2. PICK p \in WatcherRecord : p = [o EXCEPT !.callback = FALSE] /\ ObjectOK(p, c)
    BY <2>1, CallbackOK
  <2>3. p.kind = o.kind
    BY <2>2 DEF WatcherRecord
  <2>4. TimerStop(p) \in WatcherRecord /\ ObjectOK(TimerStop(p), c)
    BY <2>1, <2>2, <2>3, TimerStopOK
  <2> QED
    BY <1>5, <2>1, <2>2, <2>4, SetsKeeps DEF ClearTimeout
<1>6. CASE OnTimeout(w)
  <2>1. watcher[w].kind \in Timer /\ Delivers(w, Timer)
    BY <1>6 DEF OnTimeout, Delivers
  <2>2. Delivered(w) \in WatcherRecord => Delivered(w).kind \in Timer
    <3>1. PICK o \in WatcherRecord : o = watcher[w]
      BY <1>0, <2>1, UsedWatcher
    <3> QED
      BY <2>1, <3>1 DEF Delivered, WatcherRecord
  <2>3. Delivered(w) \in WatcherRecord /\ ObjectOK(Delivered(w), FALSE)
          => TimerStop(Delivered(w)) \in WatcherRecord /\ ObjectOK(TimerStop(Delivered(w)), FALSE)
    BY <2>2, TimerStopOK DEF Timer
  <2> QED
    BY <1>0, <1>6, <2>1, <2>3, CalledKeeps DEF OnTimeout
<1>7. CASE OnTimeoutReturns(w)
  <2>1. PICK o \in WatcherRecord : o = watcher[w] /\ ObjectOK(o, c) /\ o.kind \in Timer
    BY <1>0, <1>7, UsedWatcher DEF OnTimeoutReturns
  <2>2. calling = w /\ calling' = NoWatcher /\ ObjectOK(o, TRUE)
    <3>1. c = TRUE
      BY <1>7 DEF OnTimeoutReturns
    <3> QED
      BY <1>7, <2>1, <3>1 DEF OnTimeoutReturns
  <2>3. CASE o.repeat
    <3>1. watcher' = [watcher EXCEPT ![w] = o] /\ ObjectOK(o, FALSE)
      BY <1>7, <2>1, <2>2, <2>3, ReturnOK DEF OnTimeoutReturns
    <3> QED
      BY <2>2, <3>1, CallKeeps
  <2>4. CASE ~o.repeat
    <3>1. /\ watcher' = [watcher EXCEPT ![w] = Unref(o)]
          /\ Unref(o) \in WatcherRecord /\ ObjectOK(Unref(o), FALSE)
      BY <1>7, <2>1, <2>2, <2>4, UnrefOK DEF OnTimeoutReturns
    <3> QED
      BY <2>2, <3>1, CallKeeps
  <2> QED
    BY <2>3, <2>4
<1> QED
  BY <1>1, <1>2, <1>3, <1>4, <1>5, <1>6, <1>7 DEF TimerNext

\* So does one of an I/O watcher.
LEMMA IOKeeps ==
    ASSUME WatchersInv, NEW w \in Watcher, IOWatcherNext(w)
    PROVE  WatchersInv'
<1> DEFINE c == calling = w
<1>1. CASE NewIOWatcher(w)
  BY <1>1, NewKeeps
<1>2. CASE IOStarts(w)
  <2>1. PICK o \in WatcherRecord : o = watcher[w] /\ ObjectOK(o, c) /\ o.kind = "io"
    BY <1>2, UsedWatcher DEF IOStarts, Uses
  <2>2. IOStart(o) \in WatcherRecord /\ ObjectOK(IOStart(o), c)
    <3>1. o.active => IOStart(o) = o
      BY DEF IOStart
    <3> QED
      BY <2>1, <3>1, IOStartOK
  <2> QED
    BY <1>2, <2>1, <2>2, SetsKeeps DEF IOStarts
<1>3. CASE IOStops(w)
  <2>1. PICK o \in WatcherRecord : o = watcher[w] /\ ObjectOK(o, c) /\ o.kind = "io"
    BY <1>3, UsedWatcher DEF IOStops, Uses
  <2>2. PICK cb \in BOOLEAN : Sets(w, IOStop([o EXCEPT !.callback = cb]))
    BY <1>3, <2>1 DEF IOStops
  <2>3. PICK p \in WatcherRecord : p = [o EXCEPT !.callback = cb] /\ ObjectOK(p, c)
    BY <2>1, CallbackOK
  <2>4. p.kind = o.kind
    BY <2>3 DEF WatcherRecord
  <2>5. IOStop(p) = TimerStop(p)
    BY DEF IOStop, TimerStop
  <2>6. IOStop(p) \in WatcherRecord /\ ObjectOK(IOStop(p), c)
    BY <2>1, <2>3, <2>4, <2>5, TimerStopOK
  <2> QED
    BY <2>2, <2>3, <2>6, SetsKeeps
<1>4. CASE IOCallback(w)
  <2>1. watcher[w].kind = "io" /\ Delivers(w, {"io"})
    BY <1>4 DEF IOCallback, Delivers
  <2>2. Delivered(w) \in WatcherRecord => Delivered(w).kind = "io"
    <3>1. PICK o \in WatcherRecord : o = watcher[w]
      BY <2>1, UsedWatcher DEF NoWatcher
    <3> QED
      BY <2>1, <3>1 DEF Delivered, WatcherRecord
  <2>3. IOStop(Delivered(w)) = TimerStop(Delivered(w))
    BY DEF IOStop, TimerStop
  <2>4. Delivered(w) \in WatcherRecord /\ ObjectOK(Delivered(w), FALSE)
          => IOStop(Delivered(w)) \in WatcherRecord /\ ObjectOK(IOStop(Delivered(w)), FALSE)
    BY <2>2, <2>3, TimerStopOK
  <2>5. NoWatcher \notin {"io"}
    BY DEF NoWatcher
  <2> QED
    BY <1>4, <2>1, <2>4, <2>5, CalledKeeps DEF IOCallback
<1> QED
  BY <1>1, <1>2, <1>3, <1>4 DEF IOWatcherNext

\* So does one of an idle watcher.
LEMMA IdleKeeps ==
    ASSUME WatchersInv, NEW w \in Watcher, IdleWatcherNext(w)
    PROVE  WatchersInv'
<1> DEFINE c == calling = w
<1>1. CASE NewIdleWatcher(w)
  BY <1>1, NewKeeps
<1>2. CASE IdleStarts(w)
  <2>1. PICK o \in WatcherRecord : o = watcher[w] /\ ObjectOK(o, c) /\ o.kind = "idle"
    BY <1>2, UsedWatcher DEF IdleStarts, Uses
  <2>2. IdleStart(o) \in WatcherRecord /\ ObjectOK(IdleStart(o), c)
    <3>1. o.active => IdleStart(o) = o
      BY DEF IdleStart
    <3>2. IdleStart(o) = IOStart(o)
      BY DEF IdleStart, IOStart
    <3> QED
      BY <2>1, <3>1, <3>2, IOStartOK
  <2> QED
    BY <1>2, <2>1, <2>2, SetsKeeps DEF IdleStarts
<1>3. CASE IdleStops(w)
  <2>1. PICK o \in WatcherRecord : o = watcher[w] /\ ObjectOK(o, c) /\ o.kind = "idle"
    BY <1>3, UsedWatcher DEF IdleStops, Uses
  <2>2. PICK cb \in BOOLEAN : Sets(w, IdleStop([o EXCEPT !.callback = cb]))
    BY <1>3, <2>1 DEF IdleStops
  <2>3. PICK p \in WatcherRecord : p = [o EXCEPT !.callback = cb] /\ ObjectOK(p, c)
    BY <2>1, CallbackOK
  <2>4. p.kind = o.kind
    BY <2>3 DEF WatcherRecord
  <2>5. IdleStop(p) = TimerStop(p)
    BY DEF IdleStop, TimerStop
  <2>6. IdleStop(p) \in WatcherRecord /\ ObjectOK(IdleStop(p), c)
    BY <2>1, <2>3, <2>4, <2>5, TimerStopOK
  <2> QED
    BY <2>2, <2>3, <2>6, SetsKeeps
<1>4. CASE IdleCallback(w)
  <2>1. watcher[w].kind = "idle" /\ Delivers(w, {"idle"})
    BY <1>4 DEF IdleCallback, Delivers
  <2>2. Delivered(w) \in WatcherRecord => Delivered(w).kind = "idle"
    <3>1. PICK o \in WatcherRecord : o = watcher[w]
      BY <2>1, UsedWatcher DEF NoWatcher
    <3> QED
      BY <2>1, <3>1 DEF Delivered, WatcherRecord
  <2>3. IdleStop(Delivered(w)) = TimerStop(Delivered(w))
    BY DEF IdleStop, TimerStop
  <2>4. Delivered(w) \in WatcherRecord /\ ObjectOK(Delivered(w), FALSE)
          => IdleStop(Delivered(w)) \in WatcherRecord /\ ObjectOK(IdleStop(Delivered(w)), FALSE)
    BY <2>2, <2>3, TimerStopOK
  <2>5. NoWatcher \notin {"idle"}
    BY DEF NoWatcher
  <2> QED
    BY <1>4, <2>1, <2>4, <2>5, CalledKeeps DEF IdleCallback
<1> QED
  BY <1>1, <1>2, <1>3, <1>4 DEF IdleWatcherNext

\* So does one of a signal watcher.
LEMMA SignalKeeps ==
    ASSUME WatchersInv, NEW w \in Watcher, SignalWatcherNext(w)
    PROVE  WatchersInv'
<1> DEFINE c == calling = w
<1>1. CASE NewSignalWatcher(w)
  BY <1>1, NewKeeps
<1>2. CASE SignalStarts(w)
  <2>1. PICK o \in WatcherRecord : o = watcher[w] /\ ObjectOK(o, c) /\ o.kind = "signal"
    BY <1>2, UsedWatcher DEF SignalStarts, Uses
  <2>2. SignalStart(o) \in WatcherRecord /\ ObjectOK(SignalStart(o), c)
    <3>1. o.active => SignalStart(o) = o
      BY DEF SignalStart
    <3> QED
      BY <2>1, <3>1, SignalStartOK
  <2> QED
    BY <1>2, <2>1, <2>2, SetsKeeps DEF SignalStarts
<1>3. CASE SignalStops(w)
  <2>1. PICK o \in WatcherRecord : o = watcher[w] /\ ObjectOK(o, c) /\ o.kind = "signal"
    BY <1>3, UsedWatcher DEF SignalStops, Uses
  <2>2. SignalStop(o) \in WatcherRecord /\ ObjectOK(SignalStop(o), c)
    <3>1. ~o.active => SignalStop(o) = o
      BY DEF SignalStop
    <3> QED
      BY <2>1, <3>1, SignalStopOK
  <2> QED
    BY <1>3, <2>1, <2>2, SetsKeeps DEF SignalStops
<1>4. CASE SignalCallback(w)
  <2>1. watcher[w].kind = "signal" /\ Delivers(w, {"signal"})
    BY <1>4 DEF SignalCallback, Delivers
  <2>2. Delivered(w) \in WatcherRecord => Delivered(w).kind = "signal"
    <3>1. PICK o \in WatcherRecord : o = watcher[w]
      BY <2>1, UsedWatcher DEF NoWatcher
    <3> QED
      BY <2>1, <3>1 DEF Delivered, WatcherRecord
  <2>3. ~Delivered(w).active => SignalStop(Delivered(w)) = Delivered(w)
    BY DEF SignalStop
  <2>4. Delivered(w) \in WatcherRecord /\ ObjectOK(Delivered(w), FALSE)
          => SignalStop(Delivered(w)) \in WatcherRecord /\ ObjectOK(SignalStop(Delivered(w)), FALSE)
    BY <2>2, <2>3, SignalStopOK
  <2>5. NoWatcher \notin {"signal"}
    BY DEF NoWatcher
  <2> QED
    BY <1>4, <2>1, <2>4, <2>5, CalledKeeps DEF SignalCallback
<1> QED
  BY <1>1, <1>2, <1>3, <1>4 DEF SignalWatcherNext

\* So does one of a stat watcher.
LEMMA StatKeeps ==
    ASSUME WatchersInv, NEW w \in Watcher, StatWatcherNext(w)
    PROVE  WatchersInv'
<1> DEFINE c == calling = w
<1>1. CASE NewStatWatcher(w)
  BY <1>1, NewKeeps
<1>2. CASE StatStarts(w)
  <2>1. PICK o \in WatcherRecord : o = watcher[w] /\ ObjectOK(o, c) /\ o.kind = "stat" /\ ~o.path_
    BY <1>2, UsedWatcher DEF StatStarts, Uses
  <2>2. PICK persistent \in BOOLEAN : Sets(w, StatStart(o, persistent))
    BY <1>2, <2>1 DEF StatStarts
  <2>3. StatStart(o, persistent) \in WatcherRecord /\ ObjectOK(StatStart(o, persistent), c)
    BY <2>1, StatStartOK
  <2> QED
    BY <2>2, <2>3, SetsKeeps
<1>3. CASE StatStops(w)
  <2>1. PICK o \in WatcherRecord : o = watcher[w] /\ ObjectOK(o, c) /\ o.kind = "stat"
    BY <1>3, UsedWatcher DEF StatStops, Uses
  <2>2. StatStop(o) \in WatcherRecord /\ ObjectOK(StatStop(o), c)
    <3>1. ~o.active => StatStop(o) = o
      BY DEF StatStop
    <3> QED
      BY <2>1, <3>1, StatStopOK
  <2> QED
    BY <1>3, <2>1, <2>2, SetsKeeps DEF StatStops
<1>4. CASE StatCallback(w)
  <2>1. PICK o \in WatcherRecord : o = watcher[w] /\ ObjectOK(o, c) /\ o.kind = "stat"
    BY <1>4, UsedWatcher DEF StatCallback, Delivers, NoWatcher
  <2>2. calling = NoWatcher /\ c = FALSE /\ (o.pending \/ o.lost)
    BY <1>4, <2>1, WatcherAssumption DEF StatCallback, Delivers, Due
  <2>3. Delivered(w) \in WatcherRecord /\ ObjectOK(Delivered(w), TRUE)
    BY <2>1, <2>2, DeliveredOK DEF Delivered
  <2>4. watcher' = [watcher EXCEPT ![w] = Delivered(w)] /\ calling' = w
    BY <1>4 DEF StatCallback
  <2> QED
    BY <2>2, <2>3, <2>4, CallKeeps
<1> QED
  BY <1>1, <1>2, <1>3, <1>4 DEF StatWatcherNext

\* libev finds events of any of the active watchers.
LEMMA FireKeeps ==
    ASSUME WatchersInv, Fire
    PROVE  WatchersInv'
<1> DEFINE fired(o) == IF o.kind \in Timer /\ ~o.repeat
                       THEN [EvWatcherStop(o) EXCEPT !.pending = TRUE]
                       ELSE [o EXCEPT !.pending = TRUE]
<1>1. calling = NoWatcher /\ calling' = NoWatcher /\ \A w \in Watcher : ~Due(w)
  BY DEF Fire
<1>2. PICK ws \in SUBSET {w \in Watcher : watcher[w].active} :
         watcher' = [w \in Watcher |-> IF w \notin ws THEN watcher[w] ELSE fired(watcher[w])]
  BY DEF Fire
<1>3. ASSUME NEW w \in Watcher
      PROVE  watcher'[w] \in WatcherRecord \union {NoObject} /\ WatcherOK(watcher'[w], FALSE)
  <2>0. (calling = w) = FALSE
    BY <1>1, WatcherAssumption
  <2>1. CASE w \notin ws
    <3>1. watcher'[w] = watcher[w]
      BY <1>2, <2>1
    <3> QED
      BY <2>0, <3>1 DEF WatchersInv
  <2>2. CASE w \in ws
    <3>1. watcher[w].active /\ ~watcher[w].pending /\ ~watcher[w].lost
      BY <1>1, <2>2 DEF Due
    <3>2. NoObject.active = FALSE
      BY DEF NoObject
    <3>3. PICK o \in WatcherRecord : o = watcher[w] /\ ObjectOK(o, FALSE)
      BY <2>0, <3>1, <3>2 DEF WatchersInv, WatcherOK
    <3>4. watcher'[w] = fired(o)
      BY <1>2, <2>2, <3>3
    <3>5. fired(o) \in WatcherRecord /\ ObjectOK(fired(o), FALSE)
      <4>1. CASE o.kind \in Timer /\ ~o.repeat
        BY <3>1, <3>3, <4>1, FiredOnceOK
      <4>2. CASE ~(o.kind \in Timer /\ ~o.repeat)
        BY <3>1, <3>3, <4>2, FiredOK
      <4> QED
        BY <4>1, <4>2
    <3> QED
      BY <3>4, <3>5 DEF WatcherOK
  <2> QED
    BY <2>1, <2>2
<1>4. watcher' \in [Watcher -> WatcherRecord \union {NoObject}]
  <2>1. DOMAIN watcher' = Watcher /\ watcher' = [w \in Watcher |-> watcher'[w]]
    BY <1>2
  <2> QED
    BY <1>3, <2>1
<1>5. ASSUME NEW w \in Watcher
      PROVE  WatcherOK(watcher'[w], calling' = w)
  <2>1. (calling' = w) = FALSE
    BY <1>1, WatcherAssumption
  <2> QED
    BY <1>3, <2>1
<1> QED
  BY <1>1, <1>4, <1>5 DEF WatchersInv

\* A callback returns, JavaScript drops an object, the garbage collector frees one.
LEMMA ObjectsKeep ==
    ASSUME WatchersInv, NEW w \in Watcher, Return(w) \/ Drop(w) \/ Collect(w)
    PROVE  WatchersInv'
<1>1. CASE Return(w)
  <2>2. PICK o \in WatcherRecord : o = watcher[w] /\ ObjectOK(o, calling = w)
    BY <1>1 DEF Return, WatchersInv, WatcherOK
  <2>3. calling = w /\ (calling = w) = TRUE /\ calling' = NoWatcher /\ o.kind \notin Timer
    BY <1>1, <2>2 DEF Return
  <2>4. ObjectOK(o, FALSE)
    BY <2>2, <2>3, ReturnOK
  <2>5. watcher' = [watcher EXCEPT ![w] = o]
    BY <1>1, <2>2 DEF Return, WatchersInv
  <2> QED
    BY <2>3, <2>4, <2>5, CallKeeps
<1>2. CASE Drop(w)
  <2>1. PICK o \in WatcherRecord : o = watcher[w] /\ ObjectOK(o, calling = w)
    BY <1>2, UsedWatcher DEF Drop, Uses
  <2>2. /\ [o EXCEPT !.held = FALSE] \in WatcherRecord
        /\ ObjectOK([o EXCEPT !.held = FALSE], calling = w)
    BY <2>1, HeldOK
  <2> QED
    BY <1>2, <2>1, <2>2, SetsKeeps DEF Drop
<1>3. CASE Collect(w)
  <2>1. watcher' = [watcher EXCEPT ![w] = NoObject] /\ calling' = calling /\ calling # w
    BY <1>3 DEF Collect, Sets
  <2>2. /\ watcher \in [Watcher -> WatcherRecord \union {NoObject}]
        /\ calling \in Watcher \union {NoWatcher}
    BY DEF WatchersInv
  <2>3. ASSUME NEW v \in Watcher
        PROVE  WatcherOK(watcher'[v], calling' = v)
    <3>1. CASE v = w
      BY <2>1, <2>2, <3>1 DEF WatcherOK
    <3>2. CASE v # w
      BY <2>1, <2>2, <3>2 DEF WatchersInv
    <3> QED
      BY <3>1, <3>2
  <2> QED
    BY <2>1, <2>2, <2>3 DEF WatchersInv
<1> QED
  BY <1>1, <1>2, <1>3

\* Initially there is no object.
LEMMA WatchersInitial ==
    ASSUME WatchersInit
    PROVE  WatchersInv
BY WatcherAssumption DEF WatchersInit, WatchersInv, WatcherOK

\* The invariant is inductive.
LEMMA WatchersStep ==
    ASSUME WatchersInv, [WatchersNext]_watcherVars
    PROVE  WatchersInv'
<1>1. CASE Fire
  BY <1>1, FireKeeps
<1>2. ASSUME NEW w \in Watcher, TimerNext(w)
      PROVE  WatchersInv'
  BY <1>2, TimerKeeps
<1>3. ASSUME NEW w \in Watcher, IOWatcherNext(w) \/ IdleWatcherNext(w)
      PROVE  WatchersInv'
  BY <1>3, IOKeeps, IdleKeeps
<1>4. ASSUME NEW w \in Watcher, SignalWatcherNext(w) \/ StatWatcherNext(w)
      PROVE  WatchersInv'
  BY <1>4, SignalKeeps, StatKeeps
<1>5. ASSUME NEW w \in Watcher, Return(w) \/ Drop(w) \/ Collect(w)
      PROVE  WatchersInv'
  BY <1>5, ObjectsKeep
<1>6. CASE UNCHANGED watcherVars
  BY <1>6 DEF watcherVars, WatchersInv
<1> QED
  BY <1>1, <1>2, <1>3, <1>4, <1>5, <1>6 DEF WatchersNext

\* It implies the property: the reasons to keep an object are those that libev has.
LEMMA WatchersInvSafe ==
    ASSUME WatchersInv
    PROVE  WatchersSafe
<1>1. ASSUME NEW w \in Watcher
      PROVE  /\ watcher[w].kind \in WatcherKind \union {NoWatcher}
             /\ watcher[w].refs_ \in 0..2
             /\ watcher[w].active \/ Due(w) => watcher[w].refs_ > 0
  <2>1. CASE watcher[w] = NoObject
    BY <2>1 DEF NoObject, Due
  <2>2. CASE watcher[w] # NoObject
    <3>1. PICK o \in WatcherRecord : o = watcher[w] /\ ObjectOK(o, calling = w)
      BY <2>2 DEF WatchersInv, WatcherOK
    <3>2. o.kind \in WatcherKind
      BY DEF WatcherRecord
    <3>3. o.refs_ \in 0..2 /\ (o.active \/ o.pending \/ o.lost => o.refs_ > 0)
      <4>1. CASE o.kind = "timeout"
        BY <3>1, <4>1 DEF ObjectOK, Timeout, WatcherRecord
      <4>2. CASE o.kind = "dns"
        BY <3>1, <4>2 DEF ObjectOK, Dns, WatcherRecord
      <4>3. CASE o.kind \notin {"timeout", "dns"}
        BY <3>1, <3>2, <4>3 DEF ObjectOK, Plain, WatcherRecord, WatcherKind, Timer
      <4> QED
        BY <4>1, <4>2, <4>3
    <3> QED
      BY <3>1, <3>2, <3>3 DEF Due
  <2> QED
    BY <2>1, <2>2
<1>2. ASSUME NEW w \in Watcher, watcher[w].kind # NoWatcher
      PROVE  watcher[w].loop = IF watcher[w].active /\ watcher[w].kind # "signal"
                                   /\ (watcher[w].kind = "stat" => watcher[w].persistent_)
                               THEN 1 ELSE 0
  BY <1>2, UsedWatcher DEF ObjectOK, LoopShare
<1>3. ASSUME NEW w \in Watcher,
             watcher[w].kind \in {"interval", "list", "io", "idle", "signal", "stat"}
      PROVE  watcher[w].refs_ = IF watcher[w].active THEN 1 ELSE 0
  <2>1. watcher[w].kind # NoWatcher
    BY <1>3 DEF NoWatcher
  <2> QED
    BY <1>3, <2>1, UsedWatcher DEF ObjectOK, Plain
<1> QED
  BY <1>1, <1>2, <1>3 DEF WatchersInv, WatchersSafe, WatchersTypeOK, AttachedIsKept,
     HoldsLoopWhileActive, CountedOnce

\* Watchers of node: whatever JavaScript starts, stops and drops, in callbacks or not, an
\* object that libev may still call is not collected, refs_ does not fall below zero, and
\* the loop is held exactly by the active watchers that should hold it.
THEOREM WatchersAreSafe == WatchersSpec => []WatchersSafe
<1>1. WatchersInit => WatchersInv
  BY WatchersInitial
<1>2. WatchersInv /\ [WatchersNext]_watcherVars => WatchersInv'
  BY WatchersStep
<1>3. WatchersInv => WatchersSafe
  BY WatchersInvSafe
<1> QED
  BY <1>1, <1>2, <1>3, PTL DEF WatchersSpec

-----------------------------------------------------------------------------
(* Scripts in contexts                                                     *)

\* The last run, and the properties of an object and of a global object.
LastRun ==
    [at : Object \union {This}, ok : BOOLEAN, in : [Name -> PropValue \union {GlobalRef}],
     was : [Name -> PropValue], run : BOOLEAN]

Properties == [Name -> PropValue]

GlobalProperties == [Name -> PropValue \union {GlobalRef}]

\* The inductive invariant: the property with the types of what it reads.
ScriptInv ==
    /\ last \in LastRun
    /\ script \in Code \union {NoCode}
    /\ ScriptSafe

\* A sandbox copied to a global object is one, and refers to itself nowhere.
LEMMA CopyInType ==
    ASSUME ScriptInv, NEW o \in Object, NEW global \in GlobalProperties
    PROVE  /\ CopyIn(o, global) \in GlobalProperties
           /\ (\A n \in Name : global[n] # o) => \A n \in Name : CopyIn(o, global)[n] # o
<1>1. props[o] \in Properties
  BY DEF ScriptInv, ScriptSafe, ScriptTypeOK, Properties
<1>2. CopyIn(o, global) \in GlobalProperties
  BY <1>1 DEF CopyIn, GlobalProperties, Properties
<1>3. o # GlobalRef
  BY ScriptAssumption
<1>4. ASSUME NEW n \in Name, global[n] # o
      PROVE  CopyIn(o, global)[n] # o
  BY <1>3, <1>4 DEF CopyIn
<1> QED
  BY <1>2, <1>4

\* A script leaves a global object, which does not hold an object it did not hold.
LEMMA RunType ==
    ASSUME NEW code \in Code, NEW global \in GlobalProperties
    PROVE  /\ Run(code, global) \in GlobalProperties
           /\ \A o \in Object : (\A n \in Name : global[n] # o)
                  => \A n \in Name : Run(code, global)[n] # o
<1>1. code.name \in Name /\ Absent \in PropValue /\ "new" \in PropValue
  BY DEF Code, PropValue
<1>2. \/ Run(code, global) = [global EXCEPT ![code.name] = "new"]
      \/ Run(code, global) = [global EXCEPT ![code.name] = Absent]
      \/ Run(code, global) = [global EXCEPT ![code.name] = GlobalRef]
      \/ Run(code, global) = global
  BY DEF Run, Code
<1>3. PICK v \in {"new", Absent, GlobalRef} :
         Run(code, global) = global \/ Run(code, global) = [global EXCEPT ![code.name] = v]
  BY <1>2
<1>4. v \in PropValue \union {GlobalRef} /\ \A o \in Object : o # v
  BY <1>1, ScriptAssumption
<1>5. Run(code, global) \in GlobalProperties
  BY <1>3, <1>4 DEF GlobalProperties
<1>6. ASSUME NEW o \in Object, \A n \in Name : global[n] # o, NEW n \in Name
      PROVE  Run(code, global)[n] # o
  BY <1>1, <1>3, <1>4, <1>6 DEF GlobalProperties
<1> QED
  BY <1>5, <1>6

\* The sandbox after a run: in step with the global object, or as it was.
LEMMA AfterRunType ==
    ASSUME ScriptInv, NEW code \in Code, NEW o \in Object, NEW global \in GlobalProperties
    PROVE  /\ AfterRun(code, o, global) \in Properties
           /\ Succeeds(code) => \A n \in Name : global[n] # Absent =>
                AfterRun(code, o, global)[n] = (IF global[n] = GlobalRef THEN o ELSE global[n])
           /\ ~Succeeds(code) => AfterRun(code, o, global) = props[o]
<1>1. props[o] \in Properties /\ o \in PropValue
  BY DEF ScriptInv, ScriptSafe, ScriptTypeOK, Properties, PropValue
<1>2. CopyOut(o, global) \in Properties
  BY <1>1 DEF CopyOut, GlobalProperties, Properties
<1>3. ASSUME NEW n \in Name, global[n] # Absent
      PROVE  CopyOut(o, global)[n] = (IF global[n] = GlobalRef THEN o ELSE global[n])
  BY <1>3 DEF CopyOut
<1> QED
  BY <1>1, <1>2, <1>3 DEF AfterRun

\* A run in a context of its own or of createContext leaves the object o in step with the
\* global object when it succeeds, and as it was when it does not.
LEMMA RunKeeps ==
    ASSUME ScriptInv, NEW code \in Code, NEW o \in Object, NEW global \in GlobalProperties,
           props' = [props EXCEPT ![o] = AfterRun(code, o, global)],
           last' = [at |-> o, ok |-> Succeeds(code), in |-> global, was |-> props[o], run |-> TRUE],
           globals' \in [ContextObj \union {This} -> GlobalProperties],
           \A c \in ContextObj, n \in Name : globals'[c][n] # c,
           script' = script
    PROVE  ScriptInv'
<1>1. props \in [Object -> Properties] /\ props[o] \in Properties
  BY DEF ScriptInv, ScriptSafe, ScriptTypeOK, Properties
<1>2. props' \in [Object -> Properties] /\ props'[o] = AfterRun(code, o, global)
  BY <1>1, AfterRunType
<1>3. last' \in LastRun
  BY <1>1 DEF LastRun, Succeeds, GlobalProperties, Properties
<1>4. last'.at = o /\ last'.ok = Succeeds(code) /\ last'.in = global /\ last'.was = props[o]
  OBVIOUS
<1>5. SandboxInStep'
  <2> SUFFICES ASSUME last'.ok, NEW n \in Name, global[n] # Absent
               PROVE  props'[o][n] = (IF global[n] = GlobalRef THEN o ELSE global[n])
    BY <1>4 DEF SandboxInStep
  <2> QED
    BY <1>2, <1>4, AfterRunType
<1>6. FailureKeepsSandbox'
  BY <1>2, <1>4, AfterRunType DEF FailureKeepsSandbox
<1>7. ScriptTypeOK' /\ SelfIsGlobal'
  BY <1>2 DEF ScriptTypeOK, SelfIsGlobal, Properties, GlobalProperties
<1> QED
  BY <1>3, <1>5, <1>6, <1>7 DEF ScriptInv, ScriptSafe

\* Between runs the sandboxes may change.
LEMMA NoRunKeeps ==
    ASSUME ScriptInv, props' \in [Object -> Properties], last' = [last EXCEPT !.run = FALSE],
           globals' = globals, script' = script
    PROVE  ScriptInv'
<1>1. last' \in LastRun /\ last'.run = FALSE
  BY DEF ScriptInv, LastRun
<1>2. SandboxInStep' /\ FailureKeepsSandbox'
  BY <1>1 DEF SandboxInStep, FailureKeepsSandbox
<1>3. ScriptTypeOK' /\ SelfIsGlobal'
  BY DEF ScriptInv, ScriptSafe, ScriptTypeOK, SelfIsGlobal, Properties
<1> QED
  BY <1>1, <1>2, <1>3 DEF ScriptInv, ScriptSafe

\* Initially nothing has run.
LEMMA ScriptInitial ==
    ASSUME ScriptInit
    PROVE  ScriptInv
<1>1. Fresh \in Properties /\ Fresh \in GlobalProperties
  BY DEF Fresh, Properties, GlobalProperties, PropValue
<1>2. last \in LastRun /\ last.run = FALSE
  BY <1>1 DEF ScriptInit, LastRun, Properties, GlobalProperties
<1>3. ASSUME NEW c \in ContextObj, NEW n \in Name
      PROVE  globals[c][n] # c
  BY <1>3, ScriptAssumption DEF ScriptInit, Fresh, Object
<1>4. ScriptTypeOK
  BY <1>1 DEF ScriptInit, ScriptTypeOK, Properties, GlobalProperties
<1> QED
  BY <1>2, <1>3, <1>4 DEF ScriptInit, ScriptInv, ScriptSafe, SelfIsGlobal, SandboxInStep,
     FailureKeepsSandbox

\* The invariant is inductive.
LEMMA ScriptStep ==
    ASSUME ScriptInv, [ScriptNext]_scriptVars
    PROVE  ScriptInv'
<1>0. /\ props \in [Object -> Properties]
      /\ globals \in [ContextObj \union {This} -> GlobalProperties]
      /\ ContextObj \subseteq Object /\ Sandbox \subseteq Object /\ This \notin ContextObj
      /\ \A c \in ContextObj, n \in Name : globals[c][n] # c
  BY ScriptAssumption DEF ScriptInv, ScriptSafe, ScriptTypeOK, SelfIsGlobal, Properties,
     GlobalProperties, Object
<1>1. ASSUME NEW o \in Object, NEW n \in Name, NEW v \in {"old"} \union Object, Assign(o, n, v)
      PROVE  ScriptInv'
  <2>1. props' \in [Object -> Properties]
    BY <1>0, <1>1 DEF Assign, Properties, PropValue
  <2> QED
    BY <1>1, <2>1, NoRunKeeps DEF Assign
<1>2. ASSUME NEW c \in ContextObj, NEW o \in Sandbox, CreateContext(c, o)
      PROVE  ScriptInv'
  <2>1. props' \in [Object -> Properties]
    BY <1>0, <1>2 DEF CreateContext
  <2> QED
    BY <1>2, <2>1, NoRunKeeps DEF CreateContext
<1>3. ASSUME NEW code \in Code, NewScript(code)
      PROVE  ScriptInv'
  BY <1>3 DEF NewScript, ScriptInv, ScriptSafe, ScriptTypeOK, SelfIsGlobal, SandboxInStep,
     FailureKeepsSandbox
<1>4. ASSUME NEW code \in Code, RunInThisContext(code)
      PROVE  ScriptInv'
  <2>1. /\ globals' = [globals EXCEPT ![This] = Run(code, globals[This])]
        /\ last' = [at |-> This, ok |-> Succeeds(code), in |-> Fresh, was |-> Fresh, run |-> TRUE]
        /\ props' = props /\ script' = script
    BY <1>4 DEF RunInThisContext
  <2>2. Run(code, globals[This]) \in GlobalProperties
    BY <1>0, RunType
  <2>3. /\ globals' \in [ContextObj \union {This} -> GlobalProperties]
        /\ \A c \in ContextObj : globals'[c] = globals[c]
    BY <1>0, <2>1, <2>2
  <2>4. Fresh \in Properties /\ Fresh \in GlobalProperties
    BY DEF Fresh, Properties, GlobalProperties, PropValue
  <2>5. last' \in LastRun /\ last'.at = This
    BY <2>1, <2>4 DEF LastRun, Succeeds, GlobalProperties, Properties
  <2>6. ScriptTypeOK' /\ SelfIsGlobal'
    BY <1>0, <2>1, <2>3 DEF ScriptTypeOK, SelfIsGlobal, Properties, GlobalProperties
  <2> QED
    BY <2>1, <2>5, <2>6 DEF ScriptInv, ScriptSafe, SandboxInStep, FailureKeepsSandbox
<1>5. ASSUME NEW code \in Code, NEW c \in ContextObj, RunInContext(code, c)
      PROVE  ScriptInv'
  <2> DEFINE in == CopyIn(c, globals[c])
             global == Run(code, in)
  <2>1. in \in GlobalProperties /\ \A n \in Name : in[n] # c
    BY <1>0, CopyInType
  <2> HIDE DEF in
  <2>2. global \in GlobalProperties /\ \A n \in Name : global[n] # c
    BY <1>0, <2>1, RunType
  <2>3. /\ globals' = [globals EXCEPT ![c] = global]
        /\ props' = [props EXCEPT ![c] = AfterRun(code, c, global)]
        /\ last' = [at |-> c, ok |-> Succeeds(code), in |-> global, was |-> props[c], run |-> TRUE]
        /\ script' = script
    BY <1>5 DEF RunInContext, in
  <2> HIDE DEF global
  <2>4. /\ globals' \in [ContextObj \union {This} -> GlobalProperties]
        /\ \A d \in ContextObj, n \in Name : globals'[d][n] # d
    BY <1>0, <2>2, <2>3
  <2> QED
    BY <1>0, <2>2, <2>3, <2>4, RunKeeps
<1>6. ASSUME NEW code \in Code, NEW o \in Sandbox, RunInNewContext(code, o)
      PROVE  ScriptInv'
  <2> DEFINE in == CopyIn(o, Fresh)
             global == Run(code, in)
  <2>1. in \in GlobalProperties
    <3>1. Fresh \in GlobalProperties
      BY DEF Fresh, GlobalProperties, PropValue
    <3> QED
      BY <1>0, <3>1, CopyInType
  <2> HIDE DEF in
  <2>2. global \in GlobalProperties
    BY <2>1, RunType
  <2>3. /\ globals' = globals
        /\ props' = [props EXCEPT ![o] = AfterRun(code, o, global)]
        /\ last' = [at |-> o, ok |-> Succeeds(code), in |-> global, was |-> props[o], run |-> TRUE]
        /\ script' = script
    BY <1>6 DEF RunInNewContext, in
  <2> HIDE DEF global
  <2> QED
    BY <1>0, <2>2, <2>3, RunKeeps
<1>7. CASE UNCHANGED scriptVars
  BY <1>7 DEF scriptVars, ScriptInv, ScriptSafe, ScriptTypeOK, SelfIsGlobal, SandboxInStep,
     FailureKeepsSandbox
<1>8. Code \union ({script} \ {NoCode}) = Code
  BY DEF ScriptInv
<1> QED
  BY <1>1, <1>2, <1>3, <1>4, <1>5, <1>6, <1>7, <1>8 DEF ScriptNext

\* Contexts of node: whatever scripts run where, and whatever the application assigns to
\* its sandboxes between them, a sandbox never gets hold of a global object, is in step
\* with it after a run that succeeded and untouched by one that failed.
THEOREM ScriptsAreSafe == ScriptSpec => []ScriptSafe
<1>1. ScriptInit => ScriptInv
  BY ScriptInitial
<1>2. ScriptInv /\ [ScriptNext]_scriptVars => ScriptInv'
  BY ScriptStep
<1>3. ScriptInv => ScriptSafe
  BY DEF ScriptInv
<1> QED
  BY <1>1, <1>2, <1>3, PTL DEF ScriptSpec

-----------------------------------------------------------------------------
(* The event loop                                                          *)

\* What the main thread, the loop and the pool are.
MainRecord ==
    [at : {"load", "prepare", "wait", "events", "tick", "eio_poll", "exited"},
     then : {"prepare", "wait", "events", "want", "done", "eio_poller"},
     left : 0..MaxPoll + MaxTicks]

LoopRecord ==
    [active : SUBSET (IdleWatcher \union {"gc_timer"}), refs : Int, sent : SUBSET {"want", "done"},
     events : SUBSET (IdleWatcher \union {"gc_timer", "want", "done"}), need_tick_cb : BOOLEAN,
     code : Nat]

EioRecord == [asked : Nat, executing : SUBSET Nat, res_queue : Seq(Nat), answered : SUBSET Nat]

\* The references of the requests.
Owed(e) == e.asked - Cardinality(e.answered)

\* A loop whose other references are k: the idle watchers hold one each, and only active
\* watchers have events.
LoopOK(l, k) ==
    /\ l \in LoopRecord
    /\ l.refs = k + Cardinality(l.active \intersect IdleWatcher)
    /\ l.events \intersect IdleWatcher \subseteq l.active

\* A tick has been asked for.
TickDue(l) == l.need_tick_cb /\ "tick_spinner" \in l.active

\* A result in the queue will be seen.
Seen(l) == "want" \in l.sent \union l.events \/ "eio_poller" \in l.active

\* A request is executing, in the queue or answered, once.
EioOK(e) ==
    /\ e \in EioRecord
    /\ e.executing \subseteq 1..e.asked /\ e.answered \subseteq 1..e.asked
    /\ e.executing \intersect e.answered = {}
    /\ \A i \in 1..Len(e.res_queue) :
          e.res_queue[i] \in 1..e.asked /\ e.res_queue[i] \notin e.executing \union e.answered
    /\ \A i, j \in 1..Len(e.res_queue) : e.res_queue[i] = e.res_queue[j] => i = j

\* The callbacks that ran were the first, and the queue q has those after base, to asked.
RanOK(ran) == ran \in Seq(Nat) /\ \A i \in 1..Len(ran) : ran[i] = i

QueueOK(q, base, asked) ==
    /\ q \in Seq(Nat) /\ base + Len(q) = asked
    /\ \A i \in 1..Len(q) : q[i] = base + i

\* Where the main thread comes from; between iterations no event is left.
MainOK ==
    /\ loopMain \in MainRecord
    /\ loopMain.at = "tick" => loopMain.then \in {"wait", "events"}
    /\ loopMain.at = "eio_poll" => loopMain.then \in {"want", "done", "eio_poller"}
    /\ \/ loopMain.at \in {"load", "prepare", "wait"}
       \/ loopMain.at = "tick" /\ loopMain.then = "wait"
       => loop.events = {}

TicksOK ==
    /\ ticks \in [asked : 0..MaxTicks, ran : Seq(Nat)]
    /\ RanOK(ticks.ran)
    /\ QueueOK(nextTickQueue, Len(ticks.ran), ticks.asked)

\* In a tick the callbacks beyond those left were added by this tick's and asked for.
DueOK ==
    /\ loopMain.at \notin {"tick", "exited"} /\ Len(nextTickQueue) > 0 => TickDue(loop)
    /\ loopMain.at = "tick" =>
         /\ loopMain.left <= Len(nextTickQueue)
         /\ Len(nextTickQueue) > loopMain.left => TickDue(loop)

\* EIODonePoll's poll leaves what it finds to the poll that was wanted, or to the poller.
SeenOK ==
    /\ loopEio.res_queue # <<>> =>
         \/ loopMain.at \in {"load", "exited"} \/ Seen(loop)
         \/ loopMain.at = "eio_poll" /\ loopMain.then # "done"
    /\ loopMain.at = "eio_poll" /\ loopMain.then = "eio_poller" => "eio_poller" \in loop.active

\* The inductive invariant.
LoopInv ==
    /\ MainOK /\ TicksOK /\ DueOK /\ SeenOK /\ EndsWhenDone
    /\ LoopOK(loop, Owed(loopEio))
    /\ EioOK(loopEio)
    /\ listening \in BOOLEAN

\* The idle watchers are finitely many.
LEMMA IdleFinite ==
    ASSUME NEW S
    PROVE  IsFiniteSet(S \intersect IdleWatcher) /\ Cardinality(S \intersect IdleWatcher) \in Nat
<1>1. IsFiniteSet({})
  BY FS_EmptySet
<1>2. IsFiniteSet({} \union {"tick_spinner"})
  BY <1>1, FS_AddElement
<1>3. IsFiniteSet(({} \union {"tick_spinner"}) \union {"eio_poller"})
  BY <1>2, FS_AddElement
<1>4. IsFiniteSet((({} \union {"tick_spinner"}) \union {"eio_poller"}) \union {"gc_idle"})
  BY <1>3, FS_AddElement
<1>5. IdleWatcher = (({} \union {"tick_spinner"}) \union {"eio_poller"}) \union {"gc_idle"}
  BY DEF IdleWatcher
<1>6. IsFiniteSet(IdleWatcher)
  BY <1>4, <1>5
<1>7. S \intersect IdleWatcher \subseteq IdleWatcher
  OBVIOUS
<1>8. IsFiniteSet(S \intersect IdleWatcher)
  BY <1>6, <1>7, FS_Subset
<1> QED
  BY <1>8, FS_CardinalityType

\* ev_idle_start: the watcher holds the loop.
LEMMA EvStartOK ==
    ASSUME NEW k \in Int, NEW l, LoopOK(l, k), NEW w \in IdleWatcher
    PROVE  LET m == EvStart(l, w) IN
           /\ LoopOK(m, k)
           /\ m.active = l.active \union {w} /\ m.sent = l.sent /\ m.events = l.events
           /\ m.need_tick_cb = l.need_tick_cb /\ m.code = l.code
<1>0. l \in LoopRecord
  BY DEF LoopOK
<1>1. CASE w \in l.active
  BY <1>0, <1>1 DEF EvStart
<1>2. CASE w \notin l.active
  <2>1. PICK n \in Int : n = l.refs + 1
    BY <1>0 DEF LoopRecord
  <2>2. PICK a \in SUBSET (IdleWatcher \union {"gc_timer"}) : a = l.active \union {w}
    BY <1>0 DEF LoopRecord
  <2> DEFINE m == [l EXCEPT !.active = a, !.refs = n]
  <2>3. EvStart(l, w) = m
    BY <1>2, <2>1, <2>2 DEF EvStart
  <2>4. m \in LoopRecord
    BY <1>0 DEF LoopRecord
  <2>5. /\ m.active = a /\ m.refs = n /\ m.sent = l.sent /\ m.events = l.events
        /\ m.need_tick_cb = l.need_tick_cb /\ m.code = l.code
    BY <1>0 DEF LoopRecord
  <2> HIDE DEF m
  <2>6. Cardinality(a \intersect IdleWatcher) = Cardinality(l.active \intersect IdleWatcher) + 1
    <3>1. a \intersect IdleWatcher = (l.active \intersect IdleWatcher) \union {w}
      BY <2>2
    <3>2. w \notin l.active \intersect IdleWatcher
      BY <1>2
    <3> QED
      BY <3>1, <3>2, IdleFinite, FS_AddElement
  <2>7. Cardinality(l.active \intersect IdleWatcher) \in Nat
    BY IdleFinite
  <2>8. m.refs = k + Cardinality(m.active \intersect IdleWatcher)
    BY <2>1, <2>5, <2>6, <2>7 DEF LoopOK
  <2>9. m.events \intersect IdleWatcher \subseteq m.active
    BY <2>2, <2>5 DEF LoopOK
  <2> QED
    BY <2>2, <2>3, <2>4, <2>5, <2>8, <2>9 DEF LoopOK
<1> QED
  BY <1>1, <1>2

\* ev_idle_stop: the watcher does not hold the loop and has no event.
LEMMA EvStopOK ==
    ASSUME NEW k \in Int, NEW l, LoopOK(l, k), NEW w \in IdleWatcher
    PROVE  LET m == EvStop(l, w) IN
           /\ LoopOK(m, k)
           /\ m.active = l.active \ {w} /\ m.sent = l.sent /\ m.events = l.events \ {w}
           /\ m.need_tick_cb = l.need_tick_cb /\ m.code = l.code
<1>0. l \in LoopRecord
  BY DEF LoopOK
<1>1. CASE w \notin l.active
  <2>1. w \notin l.events
    BY <1>1 DEF LoopOK
  <2> QED
    BY <1>0, <1>1, <2>1 DEF EvStop
<1>2. CASE w \in l.active
  <2>1. PICK n \in Int : n = l.refs - 1
    BY <1>0 DEF LoopRecord
  <2>2. PICK a \in SUBSET (IdleWatcher \union {"gc_timer"}) : a = l.active \ {w}
    BY <1>0 DEF LoopRecord
  <2>a. PICK v \in SUBSET (IdleWatcher \union {"gc_timer", "want", "done"}) : v = l.events \ {w}
    BY <1>0 DEF LoopRecord
  <2> DEFINE m == [l EXCEPT !.active = a, !.refs = n, !.events = v]
  <2>3. EvStop(l, w) = m
    BY <1>2, <2>1, <2>2, <2>a DEF EvStop
  <2>4. m \in LoopRecord
    BY <1>0 DEF LoopRecord
  <2>5. /\ m.active = a /\ m.refs = n /\ m.sent = l.sent /\ m.events = v
        /\ m.need_tick_cb = l.need_tick_cb /\ m.code = l.code
    BY <1>0 DEF LoopRecord
  <2> HIDE DEF m
  <2>6. Cardinality(a \intersect IdleWatcher) = Cardinality(l.active \intersect IdleWatcher) - 1
    <3>1. a \intersect IdleWatcher = (l.active \intersect IdleWatcher) \ {w}
      BY <2>2
    <3>2. w \in l.active \intersect IdleWatcher
      BY <1>2
    <3> QED
      BY <3>1, <3>2, IdleFinite, FS_RemoveElement
  <2>7. Cardinality(l.active \intersect IdleWatcher) \in Nat
    BY IdleFinite
  <2>8. m.refs = k + Cardinality(m.active \intersect IdleWatcher)
    BY <2>1, <2>5, <2>6, <2>7 DEF LoopOK
  <2>9. m.events \intersect IdleWatcher \subseteq m.active
    BY <2>2, <2>a, <2>5 DEF LoopOK
  <2> QED
    BY <2>2, <2>a, <2>3, <2>4, <2>5, <2>8, <2>9 DEF LoopOK
<1> QED
  BY <1>1, <1>2

\* A reference more or less.
LEMMA RefsOK ==
    ASSUME NEW k \in Int, NEW l, LoopOK(l, k), NEW d \in Int
    PROVE  LET m == [l EXCEPT !.refs = l.refs + d] IN
           /\ LoopOK(m, k + d)
           /\ m.active = l.active /\ m.sent = l.sent /\ m.events = l.events
           /\ m.need_tick_cb = l.need_tick_cb /\ m.code = l.code
<1>0. l \in LoopRecord
  BY DEF LoopOK
<1>1. PICK n \in Int : n = l.refs + d
  BY <1>0 DEF LoopRecord
<1> DEFINE m == [l EXCEPT !.refs = n]
<1>2. m \in LoopRecord
  BY <1>0 DEF LoopRecord
<1>3. /\ m.active = l.active /\ m.refs = n /\ m.sent = l.sent /\ m.events = l.events
      /\ m.need_tick_cb = l.need_tick_cb /\ m.code = l.code
  BY <1>0 DEF LoopRecord
<1> HIDE DEF m
<1>4. Cardinality(l.active \intersect IdleWatcher) \in Nat
  BY IdleFinite
<1>5. m.refs = (k + d) + Cardinality(m.active \intersect IdleWatcher)
  BY <1>1, <1>3, <1>4 DEF LoopOK
<1>6. LoopOK(m, k + d)
  BY <1>2, <1>3, <1>5 DEF LoopOK
<1> QED
  BY <1>1, <1>3, <1>6 DEF m

\* The other fields: events taken, sent or found, a tick asked for, the exit code.
LEMMA FieldsOK ==
    ASSUME NEW k \in Int, NEW l, LoopOK(l, k)
    PROVE  /\ \A b \in BOOLEAN : LET m == [l EXCEPT !.need_tick_cb = b] IN
                /\ LoopOK(m, k) /\ m.active = l.active /\ m.sent = l.sent
                /\ m.events = l.events /\ m.need_tick_cb = b /\ m.code = l.code
           /\ \A c \in Nat : LET m == [l EXCEPT !.code = c] IN
                /\ LoopOK(m, k) /\ m.active = l.active /\ m.sent = l.sent
                /\ m.events = l.events /\ m.need_tick_cb = l.need_tick_cb /\ m.code = c
           /\ \A s \in SUBSET {"want", "done"} : LET m == [l EXCEPT !.sent = s] IN
                /\ LoopOK(m, k) /\ m.active = l.active /\ m.sent = s
                /\ m.events = l.events /\ m.need_tick_cb = l.need_tick_cb /\ m.code = l.code
           /\ \A v \in SUBSET (IdleWatcher \union {"gc_timer", "want", "done"}) :
                LET m == [l EXCEPT !.events = v] IN
                v \intersect IdleWatcher \subseteq l.active =>
                /\ LoopOK(m, k) /\ m.active = l.active /\ m.sent = l.sent
                /\ m.events = v /\ m.need_tick_cb = l.need_tick_cb /\ m.code = l.code
<1>0. l \in LoopRecord
  BY DEF LoopOK
<1>1. ASSUME NEW b \in BOOLEAN
      PROVE  LET m == [l EXCEPT !.need_tick_cb = b] IN
             /\ m \in LoopRecord /\ m.active = l.active /\ m.sent = l.sent /\ m.refs = l.refs
             /\ m.events = l.events /\ m.need_tick_cb = b /\ m.code = l.code
  BY <1>0 DEF LoopRecord
<1>2. ASSUME NEW c \in Nat
      PROVE  LET m == [l EXCEPT !.code = c] IN
             /\ m \in LoopRecord /\ m.active = l.active /\ m.sent = l.sent /\ m.refs = l.refs
             /\ m.events = l.events /\ m.need_tick_cb = l.need_tick_cb /\ m.code = c
  BY <1>0 DEF LoopRecord
<1>3. ASSUME NEW s \in SUBSET {"want", "done"}
      PROVE  LET m == [l EXCEPT !.sent = s] IN
             /\ m \in LoopRecord /\ m.active = l.active /\ m.sent = s /\ m.refs = l.refs
             /\ m.events = l.events /\ m.need_tick_cb = l.need_tick_cb /\ m.code = l.code
  BY <1>0 DEF LoopRecord
<1>4. ASSUME NEW v \in SUBSET (IdleWatcher \union {"gc_timer", "want", "done"})
      PROVE  LET m == [l EXCEPT !.events = v] IN
             /\ m \in LoopRecord /\ m.active = l.active /\ m.sent = l.sent /\ m.refs = l.refs
             /\ m.events = v /\ m.need_tick_cb = l.need_tick_cb /\ m.code = l.code
  BY <1>0 DEF LoopRecord
<1> QED
  BY <1>1, <1>2, <1>3, <1>4 DEF LoopOK

\* The timer of the garbage collector is started and stopped without a reference.
LEMMA GCTimerOK ==
    ASSUME NEW k \in Int, NEW l, LoopOK(l, k)
    PROVE  /\ LET m == StartGCTimer(l) IN
              /\ LoopOK(m, k) /\ m.active = l.active \union {"gc_timer"} /\ m.sent = l.sent
              /\ m.events = l.events /\ m.need_tick_cb = l.need_tick_cb /\ m.code = l.code
           /\ LET m == StopGCTimer(l) IN
              /\ LoopOK(m, k) /\ m.active = l.active \ {"gc_timer"} /\ m.sent = l.sent
              /\ m.events \in {l.events, l.events \ {"gc_timer"}}
              /\ m.need_tick_cb = l.need_tick_cb /\ m.code = l.code
<1>0. l \in LoopRecord /\ "gc_timer" \notin IdleWatcher
  BY DEF LoopOK, IdleWatcher
<1> DEFINE g(a, v) == [l EXCEPT !.active = a, !.events = v]
<1>2. ASSUME NEW a \in SUBSET (IdleWatcher \union {"gc_timer"}),
             a \intersect IdleWatcher = l.active \intersect IdleWatcher,
             NEW v \in SUBSET (IdleWatcher \union {"gc_timer", "want", "done"}), v \subseteq l.events
      PROVE  /\ LoopOK(g(a, v), k) /\ g(a, v).active = a /\ g(a, v).sent = l.sent
             /\ g(a, v).events = v /\ g(a, v).need_tick_cb = l.need_tick_cb
             /\ g(a, v).code = l.code
  <2> DEFINE m == g(a, v)
  <2>1. /\ m \in LoopRecord /\ m.active = a /\ m.sent = l.sent /\ m.refs = l.refs
        /\ m.events = v /\ m.need_tick_cb = l.need_tick_cb /\ m.code = l.code
    BY <1>0, <1>2 DEF LoopRecord
  <2> HIDE DEF m
  <2>2. m.refs = k + Cardinality(m.active \intersect IdleWatcher)
    BY <1>2, <2>1 DEF LoopOK
  <2>3. m.events \intersect IdleWatcher \subseteq m.active
    BY <1>2, <2>1 DEF LoopOK
  <2> QED
    BY <2>1, <2>2, <2>3 DEF LoopOK, m
<1>3. l.refs \in Int /\ (l.refs + 1) - 1 = l.refs /\ l.events = l.events
  BY <1>0 DEF LoopRecord
<1>4. CASE "gc_timer" \notin l.active
  <2>1. PICK a \in SUBSET (IdleWatcher \union {"gc_timer"}) : a = l.active \union {"gc_timer"}
    BY <1>0 DEF LoopRecord
  <2>2. PICK v \in SUBSET (IdleWatcher \union {"gc_timer", "want", "done"}) : v = l.events
    BY <1>0 DEF LoopRecord
  <2>3. StartGCTimer(l) = g(a, v)
    <3>1. PICK n \in Int : n = l.refs + 1
      BY <1>3
    <3> DEFINE m == [l EXCEPT !.active = a, !.refs = n]
    <3>2. EvStart(l, "gc_timer") = m
      BY <1>4, <2>1, <3>1 DEF EvStart
    <3>3. m \in LoopRecord /\ m.refs = n
      BY <1>0 DEF LoopRecord
    <3>4. StartGCTimer(l) = [m EXCEPT !.refs = m.refs - 1]
      BY <1>4, <3>2 DEF StartGCTimer
    <3>5. StartGCTimer(l) = [m EXCEPT !.refs = l.refs]
      <4> HIDE DEF m
      <4> QED
        BY <1>3, <3>1, <3>3, <3>4
    <3> QED
      BY <1>0, <2>2, <3>5 DEF LoopRecord
  <2> HIDE DEF g
  <2>4. StopGCTimer(l) = l /\ l.active = l.active \ {"gc_timer"}
    BY <1>4 DEF StopGCTimer
  <2>5. a \intersect IdleWatcher = l.active \intersect IdleWatcher
    BY <1>0, <2>1
  <2>7. v \subseteq l.events
    BY <2>2
  <2>6. /\ LoopOK(StartGCTimer(l), k) /\ StartGCTimer(l).active = a
        /\ StartGCTimer(l).sent = l.sent /\ StartGCTimer(l).events = v
        /\ StartGCTimer(l).need_tick_cb = l.need_tick_cb /\ StartGCTimer(l).code = l.code
    BY <1>2, <2>3, <2>5, <2>7
  <2> QED
    BY <2>1, <2>2, <2>4, <2>6
<1>5. CASE "gc_timer" \in l.active
  <2>1. PICK a \in SUBSET (IdleWatcher \union {"gc_timer"}) : a = l.active \ {"gc_timer"}
    BY <1>0 DEF LoopRecord
  <2>2. PICK v \in SUBSET (IdleWatcher \union {"gc_timer", "want", "done"}) :
           v = l.events \ {"gc_timer"}
    BY <1>0 DEF LoopRecord
  <2>3. StopGCTimer(l) = g(a, v)
    <3>1. PICK n \in Int : n = l.refs + 1
      BY <1>3
    <3> DEFINE m == [l EXCEPT !.refs = n]
    <3>3. /\ m \in LoopRecord /\ m.refs = n /\ m.active = l.active /\ m.events = l.events
          /\ m.sent = l.sent /\ m.need_tick_cb = l.need_tick_cb /\ m.code = l.code
      BY <1>0 DEF LoopRecord
    <3>4. StopGCTimer(l) = EvStop(m, "gc_timer")
      BY <1>5, <3>1 DEF StopGCTimer
    <3>5. EvStop(m, "gc_timer") = [m EXCEPT !.active = a, !.refs = l.refs, !.events = v]
      <4> HIDE DEF m
      <4>1. m.active \ {"gc_timer"} = a /\ m.events \ {"gc_timer"} = v /\ m.refs - 1 = l.refs
        BY <1>3, <2>1, <2>2, <3>1, <3>3
      <4> QED
        BY <1>5, <3>3, <4>1 DEF EvStop
    <3> QED
      BY <1>0, <3>4, <3>5 DEF LoopRecord
  <2> HIDE DEF g
  <2>4. StartGCTimer(l) = l /\ l.active = l.active \union {"gc_timer"}
    BY <1>5 DEF StartGCTimer
  <2>5. a \intersect IdleWatcher = l.active \intersect IdleWatcher
    BY <1>0, <2>1
  <2>7. v \subseteq l.events
    BY <2>2
  <2>6. /\ LoopOK(StopGCTimer(l), k) /\ StopGCTimer(l).active = a
        /\ StopGCTimer(l).sent = l.sent /\ StopGCTimer(l).events = v
        /\ StopGCTimer(l).need_tick_cb = l.need_tick_cb /\ StopGCTimer(l).code = l.code
    BY <1>2, <2>3, <2>5, <2>7
  <2> QED
    BY <2>1, <2>2, <2>4, <2>6
<1> QED
  BY <1>4, <1>5

\* process._needTickCallback: the tick is due.
LEMMA NeedTickOK ==
    ASSUME NEW k \in Int, NEW l, LoopOK(l, k)
    PROVE  LET m == NeedTickCallback(l) IN
           /\ LoopOK(m, k) /\ TickDue(m) /\ m.active = l.active \union {"tick_spinner"}
           /\ m.sent = l.sent /\ m.events = l.events /\ m.code = l.code
<1> DEFINE i == [l EXCEPT !.need_tick_cb = TRUE]
<1>1. /\ LoopOK(i, k) /\ i.active = l.active /\ i.sent = l.sent
      /\ i.events = l.events /\ i.need_tick_cb = TRUE /\ i.code = l.code
  BY FieldsOK
<1>2. "tick_spinner" \in IdleWatcher /\ NeedTickCallback(l) = EvStart(i, "tick_spinner")
  BY DEF IdleWatcher, NeedTickCallback
<1> HIDE DEF i
<1> QED
  BY <1>1, <1>2, EvStartOK DEF TickDue

\* A process is never without a reference for what it owes.
LEMMA OwedType ==
    ASSUME NEW e, EioOK(e)
    PROVE  /\ IsFiniteSet(e.answered) /\ Cardinality(e.answered) \in Nat
           /\ Owed(e) \in Nat /\ Cardinality(e.answered) <= e.asked
<1>1. e.asked \in Nat /\ e.answered \subseteq 1..e.asked
  BY DEF EioOK, EioRecord
<1>2. IsFiniteSet(1..e.asked) /\ Cardinality(1..e.asked) = e.asked
  <2>1. 1 \in Int /\ e.asked \in Int
    BY <1>1
  <2>2. IsFiniteSet(1..e.asked) /\ Cardinality(1..e.asked) = IF 1 > e.asked THEN 0 ELSE e.asked - 1 + 1
    BY <2>1, FS_Interval
  <2> QED
    BY <1>1, <2>2
<1>3. IsFiniteSet(e.answered) /\ Cardinality(e.answered) <= Cardinality(1..e.asked)
  BY <1>1, <1>2, FS_Subset
<1>4. Cardinality(e.answered) \in Nat
  BY <1>3, FS_CardinalityType
<1> QED
  BY <1>1, <1>2, <1>3, <1>4 DEF Owed

\* A request to the pool.
LEMMA SubmitOK ==
    ASSUME NEW e, EioOK(e)
    PROVE  LET f == [e EXCEPT !.asked = @ + 1, !.executing = @ \union {e.asked + 1}] IN
           EioOK(f) /\ Owed(f) = Owed(e) + 1 /\ f.res_queue = e.res_queue
<1>0. e \in EioRecord
  BY DEF EioOK
<1>1. PICK n \in Nat : n = e.asked + 1
  BY <1>0 DEF EioRecord
<1>2. PICK x \in SUBSET Nat : x = e.executing \union {n}
  BY <1>0 DEF EioRecord
<1> DEFINE f == [e EXCEPT !.asked = n, !.executing = x]
<1>3. f \in EioRecord
  BY <1>0 DEF EioRecord
<1>4. f.asked = n /\ f.executing = x /\ f.res_queue = e.res_queue /\ f.answered = e.answered
  BY <1>0 DEF EioRecord
<1>5. f = [e EXCEPT !.asked = @ + 1, !.executing = @ \union {e.asked + 1}]
  BY <1>1, <1>2
<1> HIDE DEF f
<1>6. 1..n = 1..e.asked \union {n} /\ n \notin 1..e.asked /\ e.asked \in Nat
  BY <1>0, <1>1 DEF EioRecord
<1>7. f.executing \subseteq 1..f.asked /\ f.answered \subseteq 1..f.asked
      /\ f.executing \intersect f.answered = {}
  BY <1>1, <1>2, <1>4, <1>6 DEF EioOK
<1>8. ASSUME NEW i \in 1..Len(f.res_queue)
      PROVE  /\ f.res_queue[i] \in 1..f.asked
             /\ f.res_queue[i] \notin f.executing \union f.answered
  BY <1>1, <1>2, <1>4, <1>6 DEF EioOK
<1>9. EioOK(f)
  BY <1>3, <1>4, <1>7, <1>8 DEF EioOK
<1>10. Owed(f) = Owed(e) + 1
  <2>1. Cardinality(e.answered) \in Nat
    BY OwedType
  <2> QED
    BY <1>1, <1>4, <1>6, <2>1 DEF Owed
<1> QED
  BY <1>4, <1>5, <1>9, <1>10

\* The queue of process.nextTick after n more calls.
LEMMA QueueGrows ==
    ASSUME NEW base \in Nat, NEW asked \in Nat, NEW q, QueueOK(q, base, asked), NEW n \in Nat
    PROVE  LET r == q \o [i \in 1..n |-> asked + i] IN
           QueueOK(r, base, asked + n) /\ Len(r) = Len(q) + n
<1> DEFINE s == [i \in 1..n |-> asked + i]
<1>1. s \in Seq(Nat)
  <2>1. s \in [1..n -> Nat]
    OBVIOUS
  <2> QED
    BY <2>1, SeqDef
<1>2. Len(s) = n /\ \A i \in 1..n : s[i] = asked + i
  <2>1. DOMAIN s = 1..n /\ DOMAIN s = 1..Len(s) /\ Len(s) \in Nat
    BY <1>1, LenProperties
  <2> HIDE DEF s
  <2>2. Len(s) = n
    BY <2>1
  <2> QED
    BY <2>2 DEF s
<1> HIDE DEF s
<1>3. q \in Seq(Nat) /\ base + Len(q) = asked /\ Len(q) \in Nat
  BY LenProperties DEF QueueOK
<1>4. /\ q \o s \in Seq(Nat) /\ Len(q \o s) = Len(q) + n
      /\ \A i \in 1..Len(q) + n :
            (q \o s)[i] = IF i <= Len(q) THEN q[i] ELSE s[i - Len(q)]
  BY <1>1, <1>2, <1>3, ConcatProperties
<1>5. ASSUME NEW i \in 1..Len(q) + n
      PROVE  (q \o s)[i] = base + i
  <2>1. CASE i <= Len(q)
    <3>1. i \in 1..Len(q)
      BY <1>3, <2>1
    <3> QED
      BY <1>4, <2>1, <3>1 DEF QueueOK
  <2>2. CASE ~(i <= Len(q))
    <3>1. i - Len(q) \in 1..n
      BY <1>3, <2>2
    <3>2. (q \o s)[i] = asked + (i - Len(q))
      BY <1>2, <1>4, <2>2, <3>1
    <3>3. PICK m \in Nat : m = Len(q)
      BY <1>3
    <3> QED
      BY <1>3, <3>2, <3>3
  <2> QED
    BY <2>1, <2>2
<1>6. base + (Len(q) + n) = asked + n
  BY <1>3
<1> QED
  BY <1>4, <1>5, <1>6 DEF QueueOK, s

\* What a callback does to the loop, the queue and the pool.
LEMMA CallsOK ==
    ASSUME NEW base \in Nat, ticks.asked \in Nat, NEW q, QueueOK(q, base, ticks.asked),
           NEW e, EioOK(e), NEW l, LoopOK(l, Owed(e)),
           NEW n \in Nat, NEW submits \in BOOLEAN, Calls(n, submits, q, l, e)
    PROVE  /\ QueueOK(nextTickQueue', base, ticks.asked + n) /\ Len(nextTickQueue') = Len(q) + n
           /\ ticks.asked + n <= MaxTicks
           /\ EioOK(loopEio') /\ loopEio'.res_queue = e.res_queue
           /\ LoopOK(loop', Owed(loopEio'))
           /\ n > 0 \/ TickDue(l) => TickDue(loop')
           /\ l.active \subseteq loop'.active /\ loop'.sent = l.sent /\ loop'.events = l.events
           /\ loop'.code = l.code
<1>1. /\ QueueOK(nextTickQueue', base, ticks.asked + n) /\ Len(nextTickQueue') = Len(q) + n
      /\ ticks.asked + n <= MaxTicks
  BY QueueGrows DEF Calls
<1>2. PICK t : t = IF n > 0 THEN NeedTickCallback(l) ELSE l
  OBVIOUS
<1>3. Owed(e) \in Int
  BY OwedType
<1>4. /\ LoopOK(t, Owed(e)) /\ (n > 0 \/ TickDue(l) => TickDue(t)) /\ l.active \subseteq t.active
      /\ t.sent = l.sent /\ t.events = l.events /\ t.code = l.code
  BY <1>2, <1>3, NeedTickOK DEF TickDue
<1>5. CASE submits
  <2>1. loopEio' = [e EXCEPT !.asked = @ + 1, !.executing = @ \union {e.asked + 1}]
    BY <1>5 DEF Calls
  <2>2. EioOK(loopEio') /\ Owed(loopEio') = Owed(e) + 1 /\ loopEio'.res_queue = e.res_queue
    BY <2>1, SubmitOK
  <2>3. loop' = [t EXCEPT !.refs = t.refs + 1]
    BY <1>2, <1>5 DEF Calls
  <2>4. /\ LoopOK(loop', Owed(e) + 1)
        /\ loop'.active = t.active /\ loop'.sent = t.sent /\ loop'.events = t.events
        /\ loop'.need_tick_cb = t.need_tick_cb /\ loop'.code = t.code
    BY <1>3, <1>4, <2>3, RefsOK
  <2> QED
    BY <1>1, <1>4, <2>2, <2>4 DEF TickDue
<1>6. CASE ~submits
  <2>1. loopEio' = e /\ loop' = t
    BY <1>2, <1>6 DEF Calls
  <2> QED
    BY <1>1, <1>4, <2>1
<1> QED
  BY <1>5, <1>6

\* ev_async_send.
LEMMA AsyncSendOK ==
    ASSUME NEW k \in Int, NEW l, LoopOK(l, k), NEW w \in {"want", "done"}
    PROVE  LET m == EvAsyncSend(l, w) IN
           /\ LoopOK(m, k) /\ m.active = l.active /\ m.sent = l.sent \union {w}
           /\ m.events = l.events /\ m.need_tick_cb = l.need_tick_cb /\ m.code = l.code
<1>1. PICK s \in SUBSET {"want", "done"} : s = l.sent \union {w}
  BY DEF LoopOK, LoopRecord
<1>2. EvAsyncSend(l, w) = [l EXCEPT !.sent = s]
  BY <1>1 DEF EvAsyncSend
<1> QED
  BY <1>1, <1>2, FieldsOK

\* FatalException changes nothing but the exit code.
LEMMA FatalOK ==
    ASSUME NEW k \in Int, NEW l, LoopOK(l, k)
    PROVE  LET m == FatalException(l) IN
           /\ LoopOK(m, k) /\ m.active = l.active /\ m.sent = l.sent
           /\ m.events = l.events /\ m.need_tick_cb = l.need_tick_cb
<1>1. CASE listening
  BY <1>1 DEF FatalException
<1>2. CASE ~listening
  <2>1. FatalException(l) = [l EXCEPT !.code = 1]
    BY <1>2 DEF FatalException
  <2> QED
    BY <2>1, FieldsOK
<1> QED
  BY <1>1, <1>2

\* A result leaves the queue: its request is answered and owed no more.
LEMMA AnswerOK ==
    ASSUME NEW e, EioOK(e), e.res_queue # <<>>
    PROVE  LET f == [e EXCEPT !.res_queue = Tail(e.res_queue),
                              !.answered = @ \union {Head(e.res_queue)}] IN
           EioOK(f) /\ Owed(f) = Owed(e) - 1 /\ f.res_queue = Tail(e.res_queue)
<1>0. e \in EioRecord
  BY DEF EioOK
<1>1. PICK q \in Seq(Nat) : q = e.res_queue /\ q # <<>> /\ Len(q) \in Nat
  BY <1>0, LenProperties DEF EioRecord
<1>2. /\ Head(q) \in Nat /\ Tail(q) \in Seq(Nat) /\ Len(Tail(q)) = Len(q) - 1
      /\ \A i \in 1..Len(Tail(q)) : Tail(q)[i] = q[i + 1]
  BY <1>1, HeadTailProperties
<1>3. Head(q) = q[1] /\ Len(q) > 0
  BY <1>1, EmptySeq
<1>4. PICK t \in Seq(Nat) : t = Tail(q)
  BY <1>2
<1>5. PICK a \in SUBSET Nat : a = e.answered \union {q[1]}
  BY <1>0, <1>2, <1>3 DEF EioRecord
<1> DEFINE f == [e EXCEPT !.res_queue = t, !.answered = a]
<1>6. f \in EioRecord
  BY <1>0 DEF EioRecord
<1>7. f.asked = e.asked /\ f.executing = e.executing /\ f.res_queue = t /\ f.answered = a
  BY <1>0 DEF EioRecord
<1>8. f = [e EXCEPT !.res_queue = Tail(e.res_queue), !.answered = @ \union {Head(e.res_queue)}]
  BY <1>1, <1>3, <1>4, <1>5
<1> HIDE DEF f
<1>9. 1 \in 1..Len(q) /\ q[1] \in 1..e.asked /\ q[1] \notin e.executing /\ q[1] \notin e.answered
  BY <1>1, <1>3 DEF EioOK
<1>10. ASSUME NEW i \in 1..Len(t)
       PROVE  /\ i + 1 \in 1..Len(q) /\ t[i] = q[i + 1] /\ q[i + 1] # q[1]
  <2>1. i \in Nat /\ i >= 1 /\ i <= Len(q) - 1 /\ i + 1 # 1
    BY <1>1, <1>2, <1>4
  <2>2. i + 1 \in 1..Len(q)
    BY <1>1, <2>1
  <2> QED
    BY <1>1, <1>2, <1>4, <1>9, <2>1, <2>2 DEF EioOK
<1>11. ASSUME NEW i \in 1..Len(t)
       PROVE  t[i] \in 1..e.asked /\ t[i] \notin e.executing \union a
  BY <1>1, <1>5, <1>10 DEF EioOK
<1>12. ASSUME NEW i \in 1..Len(t), NEW j \in 1..Len(t), t[i] = t[j]
       PROVE  i = j
  <2>1. q[i + 1] = q[j + 1] /\ i + 1 \in 1..Len(q) /\ j + 1 \in 1..Len(q)
    BY <1>10, <1>12
  <2>2. i + 1 = j + 1
    BY <1>1, <2>1 DEF EioOK
  <2> QED
    BY <2>2
<1>13. a \subseteq 1..e.asked /\ e.executing \intersect a = {}
  BY <1>5, <1>9 DEF EioOK
<1>14. EioOK(f)
  <2>1. e.executing \subseteq 1..e.asked
    BY DEF EioOK
  <2> QED
    BY <1>6, <1>7, <1>11, <1>12, <1>13, <2>1 DEF EioOK
<1>15. Owed(f) = Owed(e) - 1
  <2>1. IsFiniteSet(e.answered) /\ Cardinality(e.answered) \in Nat /\ e.asked \in Nat
    BY <1>0, OwedType DEF EioRecord
  <2>2. Cardinality(a) = Cardinality(e.answered) + 1
    BY <1>5, <1>9, <2>1, FS_AddElement
  <2>3. PICK c \in Nat : c = Cardinality(e.answered)
    BY <2>1
  <2>4. PICK n \in Nat : n = e.asked
    BY <2>1
  <2>5. Owed(f) = n - (c + 1)
    BY <1>7, <2>2, <2>3, <2>4 DEF Owed
  <2>6. Owed(e) = n - c
    BY <2>3, <2>4 DEF Owed
  <2> QED
    BY <2>5, <2>6
<1> QED
  BY <1>1, <1>4, <1>7, <1>8, <1>14, <1>15

\* A thread finishes a request: its result is the last in the queue.
LEMMA ExecutedOK ==
    ASSUME NEW e, EioOK(e), NEW r \in e.executing
    PROVE  LET f == [e EXCEPT !.executing = @ \ {r}, !.res_queue = Append(@, r)] IN
           EioOK(f) /\ Owed(f) = Owed(e) /\ f.res_queue # <<>>
<1>0. e \in EioRecord /\ r \in Nat /\ r \in 1..e.asked
  BY DEF EioOK, EioRecord
<1>1. PICK q \in Seq(Nat) : q = e.res_queue /\ Len(q) \in Nat
  BY <1>0, LenProperties DEF EioRecord
<1>2. PICK t \in Seq(Nat) : t = Append(q, r)
  BY <1>0, AppendProperties
<1>3. /\ Len(t) = Len(q) + 1 /\ t # <<>> /\ t[Len(q) + 1] = r
      /\ \A i \in 1..Len(q) : t[i] = q[i]
  BY <1>0, <1>2, AppendProperties
<1>4. PICK x \in SUBSET Nat : x = e.executing \ {r}
  BY <1>0 DEF EioRecord
<1> DEFINE f == [e EXCEPT !.executing = x, !.res_queue = t]
<1>6. f \in EioRecord
  BY <1>0 DEF EioRecord
<1>7. f.asked = e.asked /\ f.executing = x /\ f.res_queue = t /\ f.answered = e.answered
  BY <1>0 DEF EioRecord
<1>8. f = [e EXCEPT !.executing = @ \ {r}, !.res_queue = Append(@, r)]
  BY <1>1, <1>2, <1>4
<1> HIDE DEF f
<1>9. ASSUME NEW i \in 1..Len(t)
      PROVE  (i \in 1..Len(q) /\ t[i] = q[i]) \/ (i = Len(q) + 1 /\ t[i] = r)
  BY <1>1, <1>3
<1>10. \A i \in 1..Len(q) : q[i] # r
  BY <1>1 DEF EioOK
<1>11. ASSUME NEW i \in 1..Len(t)
       PROVE  t[i] \in 1..e.asked /\ t[i] \notin x \union e.answered
  <2>1. CASE i \in 1..Len(q) /\ t[i] = q[i]
    BY <1>1, <1>4, <2>1 DEF EioOK
  <2>2. CASE t[i] = r
    BY <1>0, <1>4, <2>2 DEF EioOK
  <2> QED
    BY <1>9, <2>1, <2>2
<1>12. ASSUME NEW i \in 1..Len(t), NEW j \in 1..Len(t), t[i] = t[j]
       PROVE  i = j
  <2>1. CASE i \in 1..Len(q) /\ t[i] = q[i]
    <3>1. t[j] # r
      BY <1>10, <1>12, <2>1
    <3>2. j \in 1..Len(q) /\ t[j] = q[j]
      BY <1>9, <3>1
    <3> QED
      BY <1>1, <1>12, <2>1, <3>2 DEF EioOK
  <2>2. CASE i = Len(q) + 1 /\ t[i] = r
    <3>1. ~(j \in 1..Len(q) /\ t[j] = q[j])
      BY <1>10, <1>12, <2>2
    <3> QED
      BY <1>9, <2>2, <3>1
  <2> QED
    BY <1>9, <2>1, <2>2
<1>13. x \subseteq 1..e.asked /\ x \intersect e.answered = {} /\ e.answered \subseteq 1..e.asked
  BY <1>4 DEF EioOK
<1>14. EioOK(f)
  BY <1>6, <1>7, <1>11, <1>12, <1>13 DEF EioOK
<1> QED
  BY <1>3, <1>7, <1>8, <1>14 DEF Owed

\* The main thread goes on elsewhere.
LEMMA MainAt ==
    ASSUME NEW m \in MainRecord,
           NEW a \in {"load", "prepare", "wait", "events", "tick", "eio_poll", "exited"}
    PROVE  LET p == [m EXCEPT !.at = a] IN
           p \in MainRecord /\ p.at = a /\ p.then = m.then /\ p.left = m.left
BY DEF MainRecord

\* An exception ends the process.
LEMMA ExitKeeps ==
    ASSUME TicksOK', LoopOK(loop', Owed(loopEio')), EioOK(loopEio'), listening' \in BOOLEAN,
           NEW m \in MainRecord, loopMain' = [m EXCEPT !.at = "exited"], loop'.code # 0
    PROVE  LoopInv'
<1>1. loopMain' \in MainRecord /\ loopMain'.at = "exited"
  BY DEF MainRecord
<1> QED
  BY <1>1 DEF LoopInv, MainOK, DueOK, SeenOK, EndsWhenDone

\* Load.
LEMMA LoadKeeps ==
    ASSUME LoopInv, Load
    PROVE  LoopInv'
<1>1. PICK n \in 0..2, submits \in BOOLEAN, throws \in BOOLEAN :
         /\ Calls(n, submits, nextTickQueue,
                  IF throws THEN [loop EXCEPT !.code = 11] ELSE EvStart(loop, "eio_poller"), loopEio)
         /\ ticks' = [ticks EXCEPT !.asked = @ + n]
  BY DEF Load
<1>2. PICK l : l = IF throws THEN [loop EXCEPT !.code = 11] ELSE EvStart(loop, "eio_poller")
  OBVIOUS
<1>3. /\ ticks \in [asked : 0..MaxTicks, ran : Seq(Nat)] /\ RanOK(ticks.ran)
      /\ QueueOK(nextTickQueue, Len(ticks.ran), ticks.asked)
      /\ Len(ticks.ran) \in Nat /\ ticks.asked \in Nat /\ n \in Nat
  BY LoopAssumption, LenProperties DEF LoopInv, TicksOK
<1>4. Owed(loopEio) \in Int /\ EioOK(loopEio) /\ LoopOK(loop, Owed(loopEio))
  BY OwedType DEF LoopInv
<1>5. /\ LoopOK(l, Owed(loopEio)) /\ l.events = loop.events /\ l.need_tick_cb = loop.need_tick_cb
      /\ (throws => l.code # 0) /\ (~throws => "eio_poller" \in l.active)
      /\ loop.active \subseteq l.active
  <2>1. "eio_poller" \in IdleWatcher
    BY DEF IdleWatcher
  <2> QED
    BY <1>2, <1>4, <2>1, EvStartOK, FieldsOK
<1>6. Calls(n, submits, nextTickQueue, l, loopEio)
  BY <1>1, <1>2
<1>7. /\ QueueOK(nextTickQueue', Len(ticks.ran), ticks.asked + n)
      /\ Len(nextTickQueue') = Len(nextTickQueue) + n
      /\ ticks.asked + n <= MaxTicks
      /\ EioOK(loopEio') /\ LoopOK(loop', Owed(loopEio'))
      /\ n > 0 \/ TickDue(l) => TickDue(loop')
      /\ l.active \subseteq loop'.active /\ loop'.events = l.events /\ loop'.code = l.code
  BY <1>3, <1>4, <1>5, <1>6, CallsOK
<1>8. TicksOK'
  <2>1. PICK a \in 0..MaxTicks : a = ticks.asked + n
    BY <1>3, <1>7, LoopAssumption
  <2>2. /\ ticks' \in [asked : 0..MaxTicks, ran : Seq(Nat)] /\ ticks'.asked = a
        /\ ticks'.ran = ticks.ran
    BY <1>1, <1>3, <2>1
  <2> QED
    BY <1>3, <1>7, <2>1, <2>2 DEF TicksOK
<1>9. loopMain \in MainRecord /\ loopMain.at = "load" /\ loop.events = {} /\ listening' \in BOOLEAN
  BY DEF Load, LoopInv, MainOK
<1>10. PICK m \in MainRecord : m = [loopMain EXCEPT !.at = "prepare"] /\ m.at = "prepare"
  BY <1>9, MainAt
<1>11. loopMain' = IF loop'.code = 0 THEN m ELSE [m EXCEPT !.at = "exited"]
  BY <1>10 DEF Load, Goes
<1>12. CASE loop'.code = 0
  <2>1. loopMain' = m
    BY <1>11, <1>12
  <2>2. MainOK' /\ EndsWhenDone'
    BY <1>5, <1>7, <1>9, <1>10, <2>1 DEF MainOK, EndsWhenDone
  <2>3. SeenOK'
    BY <1>5, <1>7, <1>10, <1>12, <2>1 DEF SeenOK, Seen
  <2>4. DueOK'
    <3>1. Len(nextTickQueue) \in Nat
      BY <1>3, LenProperties DEF QueueOK
    <3>2. CASE n > 0
      BY <1>7, <1>10, <2>1, <3>2 DEF DueOK
    <3>3. CASE n = 0
      <4>1. Len(nextTickQueue') = Len(nextTickQueue)
        BY <1>7, <3>1, <3>3
      <4>2. Len(nextTickQueue) > 0 => TickDue(loop)
        BY <1>9 DEF LoopInv, DueOK
      <4>3. TickDue(loop) => TickDue(l)
        BY <1>5 DEF TickDue
      <4> QED
        BY <1>7, <1>10, <2>1, <4>1, <4>2, <4>3 DEF DueOK
    <3> QED
      BY <3>2, <3>3
  <2> QED
    BY <1>7, <1>8, <1>9, <2>2, <2>3, <2>4 DEF LoopInv
<1>13. CASE loop'.code # 0
  BY <1>7, <1>8, <1>9, <1>10, <1>11, <1>13, ExitKeeps
<1> QED
  BY <1>12, <1>13

\* The tick that was due begins.
LEMMA TickBegunOK ==
    ASSUME NEW k \in Int, NEW l, LoopOK(l, k)
    PROVE  LET m == [l EXCEPT !.need_tick_cb = FALSE] IN
           /\ LoopOK(m, k) /\ m.active = l.active /\ m.sent = l.sent
           /\ m.events = l.events /\ m.code = l.code
<1> DEFINE m == [l EXCEPT !.need_tick_cb = FALSE]
<1>0. l \in LoopRecord
  BY DEF LoopOK
<1>1. /\ m \in LoopRecord /\ m.active = l.active /\ m.sent = l.sent /\ m.refs = l.refs
      /\ m.events = l.events /\ m.code = l.code
  BY <1>0 DEF LoopRecord
<1> HIDE DEF m
<1> QED
  BY <1>1 DEF LoopOK, m

\* Tick, from PrepareTick or CheckTick, with the loop as it is then.
LEMMA TickKeeps ==
    ASSUME LoopInv, NEW l, LoopOK(l, Owed(loopEio)), NEW then \in {"wait", "events"},
           loopMain.at \in {"prepare", "wait"}, l.need_tick_cb = loop.need_tick_cb,
           loop.active \subseteq l.active, then = "wait" => l.events = {},
           loopEio.res_queue # <<>> => Seen(l), Tick(l, then),
           UNCHANGED <<nextTickQueue, ticks, loopEio, listening>>
    PROVE  LoopInv'
<1>1. /\ loopMain \in MainRecord /\ TicksOK' /\ EioOK(loopEio') /\ Owed(loopEio) \in Int
      /\ listening' \in BOOLEAN /\ Owed(loopEio') = Owed(loopEio)
  BY OwedType DEF LoopInv, MainOK, TicksOK
<1>2. PICK n \in 0..MaxTicks : n = Len(nextTickQueue)
  <2>1. /\ ticks.asked \in 0..MaxTicks /\ ticks.ran \in Seq(Nat) /\ nextTickQueue \in Seq(Nat)
        /\ Len(ticks.ran) + Len(nextTickQueue) = ticks.asked
    BY DEF LoopInv, TicksOK, RanOK, QueueOK
  <2>2. Len(ticks.ran) \in Nat /\ Len(nextTickQueue) \in Nat
    BY <2>1, LenProperties
  <2> QED
    BY <2>1, <2>2, LoopAssumption
<1>3. n > 0 => TickDue(loop)
  BY <1>2 DEF LoopInv, DueOK
<1>4. CASE l.need_tick_cb
  <2> DEFINE i == [l EXCEPT !.need_tick_cb = FALSE]
  <2>1. LoopOK(i, Owed(loopEio)) /\ i.active = l.active /\ i.sent = l.sent /\ i.events = l.events
    <3>1. PICK k \in Int : k = Owed(loopEio)
      BY <1>1
    <3>2. LoopOK(l, k)
      BY <3>1
    <3>3. LoopOK(i, k) /\ i.active = l.active /\ i.sent = l.sent /\ i.events = l.events
      BY <3>2, TickBegunOK
    <3> HIDE DEF i
    <3> QED
      BY <3>1, <3>3
  <2>2. loop' = EvStop(i, "tick_spinner") /\ "tick_spinner" \in IdleWatcher
    BY <1>4 DEF Tick, IdleWatcher
  <2>3. loopMain' = [at |-> "tick", then |-> then, left |-> Len(nextTickQueue)]
    BY <1>4 DEF Tick
  <2> HIDE DEF i
  <2>4. /\ LoopOK(loop', Owed(loopEio)) /\ loop'.active = l.active \ {"tick_spinner"}
        /\ loop'.sent = l.sent /\ loop'.events = l.events \ {"tick_spinner"}
    BY <1>1, <2>1, <2>2, EvStopOK
  <2>5. PICK b \in 0..MaxPoll + MaxTicks : b = n
    BY LoopAssumption
  <2>6. loopMain' \in MainRecord /\ loopMain'.at = "tick" /\ loopMain'.then = then /\ loopMain'.left = n
    BY <1>2, <2>3, <2>5 DEF MainRecord
  <2>7. MainOK' /\ EndsWhenDone'
    BY <2>4, <2>6 DEF MainOK, EndsWhenDone
  <2>8. DueOK'
    BY <1>2, <2>6 DEF DueOK
  <2>9. SeenOK'
    BY <2>4, <2>6 DEF SeenOK, Seen
  <2> QED
    BY <1>1, <2>4, <2>7, <2>8, <2>9 DEF LoopInv
<1>5. CASE ~l.need_tick_cb
  <2>1. loop' = l /\ loopMain' = [loopMain EXCEPT !.at = then]
    BY <1>5 DEF Tick
  <2>2. loopMain' \in MainRecord /\ loopMain'.at = then
    <3>1. then \in {"load", "prepare", "wait", "events", "tick", "eio_poll", "exited"}
      OBVIOUS
    <3> QED
      BY <1>1, <2>1, <3>1, MainAt
  <2>3. n = 0
    BY <1>3, <1>5 DEF TickDue
  <2>4. MainOK' /\ EndsWhenDone'
    BY <2>1, <2>2 DEF MainOK, EndsWhenDone
  <2>5. DueOK'
    BY <1>2, <2>2, <2>3 DEF DueOK
  <2>6. SeenOK'
    BY <2>1, <2>2 DEF SeenOK
  <2> QED
    BY <1>1, <2>1, <2>4, <2>5, <2>6 DEF LoopInv
<1> QED
  BY <1>4, <1>5

\* PrepareTick.
LEMMA PrepareKeeps ==
    ASSUME LoopInv, PrepareTick
    PROVE  LoopInv'
<1>1. loop.events = {} /\ (loopEio.res_queue # <<>> => Seen(loop)) /\ LoopOK(loop, Owed(loopEio))
  BY DEF LoopInv, MainOK, SeenOK, PrepareTick
<1> QED
  BY <1>1, TickKeeps DEF PrepareTick

\* One callback of process._tickCallback, which may throw.
LEMMA TickCallbackKeeps ==
    ASSUME LoopInv, TickCallback
    PROVE  LoopInv'
<1>1. PICK n \in 0..1, submits \in BOOLEAN, throws \in BOOLEAN :
         LET left == loopMain.left - 1
             l == IF throws THEN FatalException(RestOfTicks(loop, left)) ELSE loop IN
         /\ Calls(n, submits, AfterCallback(nextTickQueue, throws), l, loopEio)
         /\ ticks' = [asked |-> ticks.asked + n, ran |-> Append(ticks.ran, Head(nextTickQueue))]
         /\ Goes(IF throws THEN [loopMain EXCEPT !.left = 0] ELSE [loopMain EXCEPT !.left = left])
  BY DEF TickCallback
<1>2. /\ loopMain \in MainRecord /\ loopMain.at = "tick" /\ loopMain.then \in {"wait", "events"}
      /\ loopMain.left \in 0..MaxPoll + MaxTicks /\ loopMain.left > 0
      /\ loopMain.left <= Len(nextTickQueue) /\ listening' \in BOOLEAN
      /\ (loopMain.then = "wait" => loop.events = {})
  BY DEF LoopInv, MainOK, MainRecord, DueOK, TickCallback
<1>3. PICK left \in 0..MaxPoll + MaxTicks : left = loopMain.left - 1
  BY <1>2, LoopAssumption
<1>4. PICK l : l = IF throws THEN FatalException(RestOfTicks(loop, left)) ELSE loop
  OBVIOUS
<1>5. Owed(loopEio) \in Int /\ EioOK(loopEio) /\ LoopOK(loop, Owed(loopEio))
  BY OwedType DEF LoopInv
<1>6. /\ LoopOK(l, Owed(loopEio)) /\ l.events = loop.events /\ l.sent = loop.sent
      /\ loop.active \subseteq l.active
      /\ (TickDue(loop) \/ (throws /\ left > 0) => TickDue(l))
  <2>1. PICK r : r = RestOfTicks(loop, left)
    OBVIOUS
  <2>2. /\ LoopOK(r, Owed(loopEio)) /\ r.events = loop.events /\ r.sent = loop.sent
        /\ loop.active \subseteq r.active /\ (TickDue(loop) \/ left > 0 => TickDue(r))
    BY <1>5, <2>1, NeedTickOK DEF RestOfTicks, TickDue
  <2> QED
    BY <1>4, <1>5, <2>1, <2>2, FatalOK DEF TickDue
<1>7. /\ ticks.asked \in Nat /\ ticks.ran \in Seq(Nat) /\ RanOK(ticks.ran)
      /\ QueueOK(nextTickQueue, Len(ticks.ran), ticks.asked) /\ nextTickQueue \in Seq(Nat)
      /\ Len(ticks.ran) \in Nat /\ Len(nextTickQueue) \in Nat /\ n \in Nat
  BY LoopAssumption, LenProperties DEF LoopInv, TicksOK, QueueOK
<1>8. PICK base \in Nat : base = Len(ticks.ran)
  BY <1>7
<1>9. PICK q \in Seq(Nat) : q = nextTickQueue /\ Len(q) > 0 /\ q # <<>>
  <2>1. Len(nextTickQueue) > 0
    BY <1>2, <1>7, LoopAssumption
  <2> QED
    BY <1>7, <2>1, EmptySeq
<1>10. /\ Tail(q) \in Seq(Nat) /\ Len(Tail(q)) = Len(q) - 1 /\ Head(q) = q[1]
       /\ \A i \in 1..Len(Tail(q)) : Tail(q)[i] = q[i + 1]
  BY <1>9, HeadTailProperties
<1>11. QueueOK(Tail(q), base + 1, ticks.asked)
  <2>1. (base + 1) + Len(Tail(q)) = ticks.asked
    <3>1. PICK m \in Nat : m = Len(q)
      BY <1>7, <1>9
    <3>2. base + m = ticks.asked /\ Len(Tail(q)) = m - 1
      BY <1>7, <1>8, <1>9, <1>10, <3>1 DEF QueueOK
    <3>3. PICK x \in Int : x = m - 1
      OBVIOUS
    <3>4. (base + 1) + x = base + m
      BY <3>3
    <3>5. Len(Tail(q)) = x
      BY <3>2, <3>3
    <3> QED
      BY <3>2, <3>4, <3>5
  <2>2. ASSUME NEW i \in 1..Len(Tail(q))
        PROVE  Tail(q)[i] = (base + 1) + i
    <3>1. i \in Nat /\ i + 1 \in 1..Len(q)
      BY <1>7, <1>9, <1>10
    <3>2. Tail(q)[i] = base + (i + 1)
      BY <1>7, <1>8, <1>9, <1>10, <3>1 DEF QueueOK
    <3> QED
      BY <3>1, <3>2
  <2> QED
    BY <1>10, <2>1, <2>2 DEF QueueOK
<1>12. RanOK(Append(ticks.ran, Head(q))) /\ Len(Append(ticks.ran, Head(q))) = base + 1
  <2>1. q[1] = base + 1 /\ base + 1 \in Nat
    <3>1. 1 \in 1..Len(q)
      BY <1>7, <1>9
    <3> QED
      BY <1>7, <1>8, <1>9, <3>1 DEF QueueOK
  <2>2. PICK h \in Nat : h = base + 1 /\ h = Head(q)
    BY <1>10, <2>1
  <2>3. /\ Append(ticks.ran, h) \in Seq(Nat) /\ Len(Append(ticks.ran, h)) = base + 1
        /\ \A i \in 1..base : Append(ticks.ran, h)[i] = ticks.ran[i]
        /\ Append(ticks.ran, h)[base + 1] = h
    BY <1>7, <1>8, AppendProperties
  <2>4. ASSUME NEW i \in 1..base + 1
        PROVE  Append(ticks.ran, h)[i] = i
    <3>0. i \in 1..base \/ i = base + 1
      OBVIOUS
    <3>1. CASE i \in 1..base
      BY <1>7, <1>8, <2>3, <3>1 DEF RanOK
    <3>2. CASE i = base + 1
      BY <2>2, <2>3, <3>2
    <3> QED
      BY <3>0, <3>1, <3>2
  <2> QED
    BY <2>2, <2>3, <2>4 DEF RanOK
<1>13. Calls(n, submits, Tail(q), l, loopEio)
  BY <1>1, <1>3, <1>4, <1>9 DEF AfterCallback
<1>14. /\ QueueOK(nextTickQueue', base + 1, ticks.asked + n)
       /\ Len(nextTickQueue') = Len(Tail(q)) + n
       /\ ticks.asked + n <= MaxTicks
       /\ EioOK(loopEio') /\ LoopOK(loop', Owed(loopEio'))
       /\ loopEio'.res_queue = loopEio.res_queue
       /\ n > 0 \/ TickDue(l) => TickDue(loop')
       /\ l.active \subseteq loop'.active /\ loop'.sent = l.sent /\ loop'.events = l.events
  <2>1. PICK b \in Nat : b = base + 1
    OBVIOUS
  <2>2. PICK t : t = Tail(q) /\ QueueOK(t, b, ticks.asked) /\ Calls(n, submits, t, l, loopEio)
    BY <1>11, <1>13, <2>1
  <2>3. /\ ticks.asked \in Nat /\ EioOK(loopEio) /\ LoopOK(l, Owed(loopEio)) /\ n \in Nat
    BY <1>5, <1>6, <1>7
  <2>4. /\ QueueOK(nextTickQueue', b, ticks.asked + n)
        /\ Len(nextTickQueue') = Len(t) + n
        /\ ticks.asked + n <= MaxTicks
    BY <2>2, <2>3, CallsOK
  <2>5. /\ EioOK(loopEio') /\ LoopOK(loop', Owed(loopEio'))
        /\ loopEio'.res_queue = loopEio.res_queue
    BY <2>2, <2>3, CallsOK
  <2>6. /\ n > 0 \/ TickDue(l) => TickDue(loop')
        /\ l.active \subseteq loop'.active /\ loop'.sent = l.sent /\ loop'.events = l.events
    BY <2>2, <2>3, CallsOK
  <2> QED
    BY <2>1, <2>2, <2>4, <2>5, <2>6
<1>15. TicksOK'
  <2>1. PICK a \in 0..MaxTicks : a = ticks.asked + n
    BY <1>7, <1>14, LoopAssumption
  <2>2. PICK r \in Seq(Nat) : r = Append(ticks.ran, Head(q)) /\ RanOK(r) /\ Len(r) = base + 1
    BY <1>12 DEF RanOK
  <2>3. ticks' = [asked |-> a, ran |-> r]
    BY <1>1, <1>9, <2>1, <2>2
  <2>4. /\ ticks' \in [asked : 0..MaxTicks, ran : Seq(Nat)] /\ ticks'.asked = a
        /\ ticks'.ran = r
    BY <2>3
  <2> QED
    BY <1>14, <2>1, <2>2, <2>4 DEF TicksOK
<1>16. PICK m \in MainRecord : /\ m = IF throws THEN [loopMain EXCEPT !.left = 0]
                                     ELSE [loopMain EXCEPT !.left = left]
                              /\ m.at = "tick" /\ m.then = loopMain.then
                              /\ m.left = IF throws THEN 0 ELSE left
  <2>1. PICK b \in 0..MaxPoll + MaxTicks : b = IF throws THEN 0 ELSE left
    BY LoopAssumption
  <2> DEFINE m == [loopMain EXCEPT !.left = b]
  <2>2. m \in MainRecord
    BY <1>2 DEF MainRecord
  <2>3. m.at = "tick" /\ m.then = loopMain.then /\ m.left = b
    BY <1>2 DEF MainRecord
  <2> QED
    BY <2>1, <2>2, <2>3
<1>17. loopMain' = IF loop'.code = 0 THEN m ELSE [m EXCEPT !.at = "exited"]
  BY <1>1, <1>3, <1>16 DEF Goes
<1>18. CASE loop'.code = 0
  <2>1. loopMain' = m
    BY <1>17, <1>18
  <2>2. MainOK' /\ EndsWhenDone'
    BY <1>2, <1>6, <1>14, <1>16, <2>1 DEF MainOK, EndsWhenDone
  <2>3. SeenOK'
    <3>1. loopEio.res_queue # <<>> => Seen(loop)
      BY <1>2 DEF LoopInv, SeenOK
    <3> QED
      BY <1>6, <1>14, <1>16, <2>1, <3>1 DEF SeenOK, Seen
  <2>4. DueOK'
    <3>1. PICK k \in Nat : k = Len(q)
      BY <1>7, <1>9
    <3>2. Len(nextTickQueue') = (k - 1) + n /\ left + 1 <= k /\ k > 0
      BY <1>2, <1>3, <1>9, <1>10, <1>14, <3>1, LoopAssumption
    <3>3. k > left + 1 => TickDue(loop)
      BY <1>2, <1>3, <1>9, <3>1, LoopAssumption DEF LoopInv, DueOK
    <3>4. m.left <= (k - 1) + n
      BY <1>16, <3>1, <3>2
    <3>5. ASSUME (k - 1) + n > m.left
          PROVE  TickDue(loop')
      <4>1. CASE n > 0
        BY <1>14, <4>1
      <4>2. CASE k > left + 1
        BY <1>6, <1>14, <3>3, <4>2
      <4>3. CASE throws /\ left > 0
        BY <1>6, <1>14, <4>3
      <4> QED
        BY <1>16, <3>1, <3>2, <3>5, <4>1, <4>2, <4>3
    <3> QED
      BY <1>16, <2>1, <3>2, <3>4, <3>5 DEF DueOK
  <2> QED
    BY <1>2, <1>14, <1>15, <2>2, <2>3, <2>4 DEF LoopInv
<1>19. CASE loop'.code # 0
  BY <1>2, <1>14, <1>15, <1>16, <1>17, <1>19, ExitKeeps
<1> QED
  BY <1>18, <1>19

\* The end of a tick.
LEMMA TickEndsKeeps ==
    ASSUME LoopInv, TickEnds
    PROVE  LoopInv'
<1>1. /\ loopMain \in MainRecord /\ loopMain.at = "tick" /\ loopMain.then \in {"wait", "events"}
      /\ loopMain.left = 0 /\ loopMain' = [loopMain EXCEPT !.at = loopMain.then]
      /\ loop' = loop /\ nextTickQueue' = nextTickQueue /\ ticks' = ticks /\ loopEio' = loopEio
      /\ listening' = listening
  BY DEF LoopInv, MainOK, TickEnds
<1>2. loopMain' \in MainRecord /\ loopMain'.at = loopMain.then
  <2>1. PICK a \in {"load", "prepare", "wait", "events", "tick", "eio_poll", "exited"} :
           a = loopMain.then
    BY <1>1
  <2> QED
    BY <1>1, <2>1, MainAt
<1>3. MainOK' /\ EndsWhenDone'
  BY <1>1, <1>2 DEF LoopInv, MainOK, EndsWhenDone
<1>4. DueOK'
  BY <1>1, <1>2 DEF LoopInv, DueOK
<1>5. SeenOK'
  BY <1>1, <1>2 DEF LoopInv, SeenOK
<1> QED
  BY <1>1, <1>3, <1>4, <1>5 DEF LoopInv, TicksOK

\* A thread of the pool finishes a request; the first result of an empty queue is told.
LEMMA ExecuteKeeps ==
    ASSUME LoopInv, NEW r, LoopExecute(r)
    PROVE  LoopInv'
<1>1. /\ r \in loopEio.executing /\ loopMain.at # "exited"
      /\ loopEio' = [loopEio EXCEPT !.executing = @ \ {r}, !.res_queue = Append(@, r)]
      /\ loop' = IF loopEio.res_queue = <<>> THEN EIOWantPoll(loop) ELSE loop
      /\ loopMain' = loopMain /\ nextTickQueue' = nextTickQueue /\ ticks' = ticks
      /\ listening' = listening
  BY DEF LoopExecute
<1>2. EioOK(loopEio) /\ LoopOK(loop, Owed(loopEio)) /\ Owed(loopEio) \in Int
  BY OwedType DEF LoopInv
<1>3. EioOK(loopEio') /\ Owed(loopEio') = Owed(loopEio) /\ loopEio'.res_queue # <<>>
  BY <1>1, <1>2, ExecutedOK
<1>4. /\ LoopOK(loop', Owed(loopEio)) /\ loop'.active = loop.active /\ loop.sent \subseteq loop'.sent
      /\ loop'.events = loop.events /\ loop'.need_tick_cb = loop.need_tick_cb
      /\ loop'.code = loop.code
      /\ loopEio.res_queue = <<>> => "want" \in loop'.sent
  <2>1. CASE loopEio.res_queue = <<>>
    <3>1. loop' = EvAsyncSend(loop, "want") /\ "want" \in {"want", "done"}
      BY <1>1, <2>1 DEF EIOWantPoll
    <3> QED
      BY <1>2, <3>1, AsyncSendOK
  <2>2. CASE loopEio.res_queue # <<>>
    BY <1>1, <1>2, <2>2
  <2> QED
    BY <2>1, <2>2
<1>5. MainOK' /\ TicksOK' /\ EndsWhenDone'
  BY <1>1, <1>4 DEF LoopInv, MainOK, TicksOK, EndsWhenDone
<1>6. DueOK'
  BY <1>1, <1>4 DEF LoopInv, DueOK, TickDue
<1>7. SeenOK'
  <2>1. CASE loopEio.res_queue = <<>>
    BY <1>1, <1>4, <2>1 DEF LoopInv, SeenOK, Seen
  <2>2. CASE loopEio.res_queue # <<>>
    BY <1>1, <1>4, <2>2 DEF LoopInv, SeenOK, Seen
  <2> QED
    BY <2>1, <2>2
<1> QED
  BY <1>1, <1>3, <1>4, <1>5, <1>6, <1>7 DEF LoopInv

\* An event is taken from those that were found.
LEMMA TakenOK ==
    ASSUME NEW k \in Int, NEW l, LoopOK(l, k), NEW w
    PROVE  LET m == [l EXCEPT !.events = @ \ {w}] IN
           /\ LoopOK(m, k) /\ m.active = l.active /\ m.sent = l.sent
           /\ m.events = l.events \ {w} /\ m.need_tick_cb = l.need_tick_cb /\ m.code = l.code
<1>1. PICK v \in SUBSET (IdleWatcher \union {"gc_timer", "want", "done"}) : v = l.events \ {w}
  BY DEF LoopOK, LoopRecord
<1>2. v \intersect IdleWatcher \subseteq l.active
  BY <1>1 DEF LoopOK
<1>3. [l EXCEPT !.events = @ \ {w}] = [l EXCEPT !.events = v]
  BY <1>1
<1> QED
  BY <1>1, <1>2, <1>3, FieldsOK

\* An event calls eio_poll.
LEMMA BeginPollKeeps ==
    ASSUME LoopInv, NEW e \in {"want", "done", "eio_poller"}, BeginPoll(e)
    PROVE  LoopInv'
<1>1. /\ loopMain.at = "events" /\ e \in loop.events /\ loop' = [loop EXCEPT !.events = @ \ {e}]
      /\ loopMain' = [at |-> "eio_poll", then |-> e, left |-> MaxPoll]
      /\ nextTickQueue' = nextTickQueue /\ ticks' = ticks /\ loopEio' = loopEio
      /\ listening' = listening
  BY DEF BeginPoll
<1>2. EioOK(loopEio) /\ LoopOK(loop, Owed(loopEio)) /\ Owed(loopEio) \in Int
  BY OwedType DEF LoopInv
<1>3. /\ LoopOK(loop', Owed(loopEio)) /\ loop'.active = loop.active /\ loop'.sent = loop.sent
      /\ loop'.events = loop.events \ {e} /\ loop'.need_tick_cb = loop.need_tick_cb
  BY <1>1, <1>2, TakenOK
<1>4. MaxPoll \in 0..MaxPoll + MaxTicks
  BY LoopAssumption
<1>5. loopMain' \in MainRecord /\ loopMain'.at = "eio_poll" /\ loopMain'.then = e
  BY <1>1, <1>4 DEF MainRecord
<1>6. MainOK' /\ TicksOK' /\ EndsWhenDone'
  BY <1>1, <1>5 DEF LoopInv, MainOK, TicksOK, EndsWhenDone
<1>7. DueOK'
  BY <1>1, <1>3, <1>5 DEF LoopInv, DueOK, TickDue
<1>8. SeenOK'
  <2>1. e = "eio_poller" => "eio_poller" \in loop.active
    BY <1>1, <1>2 DEF LoopOK, IdleWatcher
  <2>2. e = "done" /\ Seen(loop) => Seen(loop')
    BY <1>3 DEF Seen
  <2> QED
    BY <1>1, <1>3, <1>5, <2>1, <2>2 DEF LoopInv, SeenOK
<1> QED
  BY <1>1, <1>3, <1>6, <1>7, <1>8 DEF LoopInv

\* eio_poll makes the callback of one result, which may throw.
LEMMA EioFinishKeeps ==
    ASSUME LoopInv, EioFinish
    PROVE  LoopInv'
<1>1. PICK n \in 0..1, submits \in BOOLEAN, throws \in BOOLEAN :
         LET rest == Tail(loopEio.res_queue)
             told == IF rest = <<>> THEN EIODonePoll(loop) ELSE loop
             l == [told EXCEPT !.refs = @ - 1] IN
         /\ Calls(n, submits, nextTickQueue, IF throws THEN FatalException(l) ELSE l,
                  [loopEio EXCEPT !.res_queue = rest, !.answered = @ \union {Head(loopEio.res_queue)}])
         /\ ticks' = [ticks EXCEPT !.asked = @ + n]
         /\ Goes([loopMain EXCEPT !.left = @ - 1])
  BY DEF EioFinish
<1>2. /\ loopMain \in MainRecord /\ loopMain.at = "eio_poll" /\ loopEio.res_queue # <<>>
      /\ loopMain.then \in {"want", "done", "eio_poller"} /\ listening' \in BOOLEAN
      /\ loopMain.left > 0 /\ loopMain.left \in 0..MaxPoll + MaxTicks
  BY DEF LoopInv, MainOK, MainRecord, EioFinish
<1>3. EioOK(loopEio) /\ LoopOK(loop, Owed(loopEio)) /\ Owed(loopEio) \in Int
  BY OwedType DEF LoopInv
<1>4. PICK e : /\ e = [loopEio EXCEPT !.res_queue = Tail(loopEio.res_queue),
                                      !.answered = @ \union {Head(loopEio.res_queue)}]
               /\ EioOK(e) /\ Owed(e) = Owed(loopEio) - 1 /\ e.res_queue = Tail(loopEio.res_queue)
  BY <1>2, <1>3, AnswerOK
<1>5. PICK told : told = IF Tail(loopEio.res_queue) = <<>> THEN EIODonePoll(loop) ELSE loop
  OBVIOUS
<1>6. /\ LoopOK(told, Owed(loopEio)) /\ told.active = loop.active /\ loop.sent \subseteq told.sent
      /\ told.events = loop.events /\ told.need_tick_cb = loop.need_tick_cb
  <2>1. CASE Tail(loopEio.res_queue) = <<>>
    <3>1. told = EvAsyncSend(loop, "done") /\ "done" \in {"want", "done"}
      BY <1>5, <2>1 DEF EIODonePoll
    <3> QED
      BY <1>3, <3>1, AsyncSendOK
  <2>2. CASE Tail(loopEio.res_queue) # <<>>
    BY <1>3, <1>5, <2>2
  <2> QED
    BY <2>1, <2>2
<1>7. PICK l : /\ l = [told EXCEPT !.refs = @ - 1] /\ LoopOK(l, Owed(e))
               /\ l.active = told.active /\ l.sent = told.sent /\ l.events = told.events
               /\ l.need_tick_cb = told.need_tick_cb
  <2>1. PICK k \in Int : k = Owed(loopEio) /\ Owed(e) = k + (-1)
    BY <1>3, <1>4
  <2>2. told.refs - 1 = told.refs + (-1) /\ -1 \in Int
    BY <1>6 DEF LoopOK, LoopRecord
  <2>3. [told EXCEPT !.refs = @ - 1] = [told EXCEPT !.refs = told.refs + (-1)]
    BY <2>2
  <2>4. PICK d \in Int : d = -1
    OBVIOUS
  <2>5. LoopOK(told, k)
    BY <1>6, <2>1
  <2>6. LET m == [told EXCEPT !.refs = told.refs + d] IN
        /\ LoopOK(m, k + d)
        /\ m.active = told.active /\ m.sent = told.sent /\ m.events = told.events
        /\ m.need_tick_cb = told.need_tick_cb
    BY <2>5, RefsOK
  <2> QED
    BY <2>1, <2>3, <2>4, <2>6
<1>8. PICK f : /\ f = IF throws THEN FatalException(l) ELSE l
               /\ LoopOK(f, Owed(e)) /\ f.active = loop.active /\ loop.sent \subseteq f.sent
               /\ f.events = loop.events /\ f.need_tick_cb = loop.need_tick_cb
  <2>1. PICK k \in Int : k = Owed(e)
    BY <1>4, OwedType
  <2>2. PICK f : f = IF throws THEN FatalException(l) ELSE l
    OBVIOUS
  <2>3. LoopOK(l, k)
    BY <1>7, <2>1
  <2>4. /\ LoopOK(FatalException(l), k) /\ FatalException(l).active = l.active
        /\ FatalException(l).sent = l.sent /\ FatalException(l).events = l.events
        /\ FatalException(l).need_tick_cb = l.need_tick_cb
    BY <2>3, FatalOK
  <2>5. /\ LoopOK(f, k) /\ f.active = l.active /\ f.sent = l.sent /\ f.events = l.events
        /\ f.need_tick_cb = l.need_tick_cb
    BY <2>2, <2>3, <2>4
  <2> QED
    BY <1>6, <1>7, <2>1, <2>2, <2>5
<1>9. Calls(n, submits, nextTickQueue, f, e)
  BY <1>1, <1>4, <1>5, <1>7, <1>8
<1>10. /\ ticks \in [asked : 0..MaxTicks, ran : Seq(Nat)] /\ RanOK(ticks.ran)
       /\ QueueOK(nextTickQueue, Len(ticks.ran), ticks.asked)
       /\ Len(ticks.ran) \in Nat /\ ticks.asked \in Nat /\ n \in Nat
  BY LoopAssumption, LenProperties DEF LoopInv, TicksOK
<1>11. PICK base \in Nat : base = Len(ticks.ran) /\ QueueOK(nextTickQueue, base, ticks.asked)
  BY <1>10
<1>12. /\ QueueOK(nextTickQueue', base, ticks.asked + n)
       /\ Len(nextTickQueue') = Len(nextTickQueue) + n
       /\ ticks.asked + n <= MaxTicks
       /\ EioOK(loopEio') /\ loopEio'.res_queue = e.res_queue
       /\ LoopOK(loop', Owed(loopEio'))
       /\ n > 0 \/ TickDue(f) => TickDue(loop')
       /\ f.active \subseteq loop'.active /\ loop'.sent = f.sent /\ loop'.events = f.events
  <2>0. /\ ticks.asked \in Nat /\ n \in Nat /\ QueueOK(nextTickQueue, base, ticks.asked)
        /\ EioOK(e) /\ LoopOK(f, Owed(e)) /\ Calls(n, submits, nextTickQueue, f, e)
    BY <1>4, <1>8, <1>9, <1>10, <1>11
  <2>1. /\ QueueOK(nextTickQueue', base, ticks.asked + n)
        /\ Len(nextTickQueue') = Len(nextTickQueue) + n
        /\ ticks.asked + n <= MaxTicks
    BY <2>0, CallsOK
  <2>2. /\ EioOK(loopEio') /\ loopEio'.res_queue = e.res_queue
        /\ LoopOK(loop', Owed(loopEio'))
    BY <2>0, CallsOK
  <2>3. /\ n > 0 \/ TickDue(f) => TickDue(loop')
        /\ f.active \subseteq loop'.active /\ loop'.sent = f.sent /\ loop'.events = f.events
    BY <2>0, CallsOK
  <2> QED
    BY <2>1, <2>2, <2>3
<1>13. TicksOK'
  <2>1. PICK a \in 0..MaxTicks : a = ticks.asked + n
    BY <1>10, <1>12, LoopAssumption
  <2>2. /\ ticks' \in [asked : 0..MaxTicks, ran : Seq(Nat)] /\ ticks'.asked = a
        /\ ticks'.ran = ticks.ran
    BY <1>1, <1>10, <2>1
  <2> QED
    BY <1>10, <1>11, <1>12, <2>1, <2>2 DEF TicksOK
<1>14. PICK m \in MainRecord : m = [loopMain EXCEPT !.left = @ - 1] /\ m.at = "eio_poll"
                               /\ m.then = loopMain.then
  <2>1. PICK b \in 0..MaxPoll + MaxTicks : b = loopMain.left - 1
    BY <1>2, LoopAssumption
  <2> DEFINE m == [loopMain EXCEPT !.left = b]
  <2>2. m \in MainRecord
    BY <1>2 DEF MainRecord
  <2>3. m.at = "eio_poll" /\ m.then = loopMain.then
    BY <1>2 DEF MainRecord
  <2> QED
    BY <2>1, <2>2, <2>3
<1>15. loopMain' = IF loop'.code = 0 THEN m ELSE [m EXCEPT !.at = "exited"]
  BY <1>1, <1>14 DEF Goes
<1>16. CASE loop'.code = 0
  <2>1. loopMain' = m
    BY <1>15, <1>16
  <2>2. MainOK' /\ EndsWhenDone'
    BY <1>2, <1>14, <2>1 DEF MainOK, EndsWhenDone
  <2>3. SeenOK'
    <3>1. Seen(loop) => Seen(loop')
      BY <1>8, <1>12 DEF Seen
    <3>2. loopMain.then = "done" => Seen(loop)
      BY <1>2 DEF LoopInv, SeenOK
    <3>3. loopMain.then = "eio_poller" => "eio_poller" \in loop'.active
      BY <1>2, <1>8, <1>12 DEF LoopInv, SeenOK
    <3> QED
      BY <1>14, <2>1, <3>1, <3>2, <3>3 DEF SeenOK
  <2>4. DueOK'
    <3>1. Len(nextTickQueue) \in Nat
      BY <1>10, LenProperties DEF QueueOK
    <3>2. CASE n > 0
      BY <1>12, <1>14, <2>1, <3>2 DEF DueOK
    <3>3. CASE n = 0
      <4>1. Len(nextTickQueue') = Len(nextTickQueue)
        BY <1>12, <3>1, <3>3
      <4>2. Len(nextTickQueue) > 0 => TickDue(loop)
        BY <1>2 DEF LoopInv, DueOK
      <4>3. TickDue(loop) => TickDue(f)
        BY <1>8 DEF TickDue
      <4> QED
        BY <1>12, <1>14, <2>1, <4>1, <4>2, <4>3 DEF DueOK
    <3> QED
      BY <3>2, <3>3
  <2> QED
    BY <1>2, <1>12, <1>13, <2>2, <2>3, <2>4 DEF LoopInv
<1>17. CASE loop'.code # 0
  BY <1>2, <1>12, <1>13, <1>14, <1>15, <1>17, ExitKeeps
<1> QED
  BY <1>16, <1>17

\* A step that only changes the watchers, in the events of an iteration: what was due and
\* what was to be seen stay so.
LEMMA WatchersChange ==
    ASSUME LoopInv, LoopOK(loop', Owed(loopEio)), TickDue(loop) => TickDue(loop'),
           loopEio.res_queue # <<>> => Seen(loop'),
           loopMain.at \in {"events", "eio_poll"},
           loopMain' \in MainRecord, loopMain'.at = "events",
           UNCHANGED <<nextTickQueue, ticks, loopEio, listening>>
    PROVE  LoopInv'
<1>1. MainOK' /\ TicksOK' /\ EndsWhenDone'
  BY DEF LoopInv, MainOK, TicksOK, EndsWhenDone
<1>2. DueOK'
  BY DEF LoopInv, DueOK
<1>3. SeenOK'
  BY DEF SeenOK
<1> QED
  BY <1>1, <1>2, <1>3 DEF LoopInv

\* eio_poll returns to the callback that called it.
LEMMA PollReturnsKeeps ==
    ASSUME LoopInv, EioPollReturns
    PROVE  LoopInv'
<1> DEFINE more == loopMain.left = 0
<1>1. /\ loopMain \in MainRecord /\ loopMain.at = "eio_poll"
      /\ loopMain.then \in {"want", "done", "eio_poller"} /\ (~more => loopEio.res_queue = <<>>)
      /\ loopMain' = [at |-> "events", then |-> "events", left |-> 0]
      /\ UNCHANGED <<nextTickQueue, ticks, loopEio, listening>>
  BY DEF LoopInv, MainOK, EioPollReturns
<1>2. loopMain' \in MainRecord /\ loopMain'.at = "events"
  <2>1. 0 \in 0..MaxPoll + MaxTicks
    BY LoopAssumption
  <2> QED
    BY <1>1, <2>1 DEF MainRecord
<1>3. LoopOK(loop, Owed(loopEio)) /\ Owed(loopEio) \in Int /\ "eio_poller" \in IdleWatcher
  BY OwedType DEF LoopInv, IdleWatcher
<1>4. \/ loop' = EvStart(loop, "eio_poller") /\ more
      \/ loop' = EvStop(loop, "eio_poller") /\ ~more
      \/ loop' = loop /\ (loopMain.then = "want" => ~more)
  BY <1>1 DEF EioPollReturns, WantPollNotifier, DonePollNotifier, DoPoll
<1>5. CASE loop' = EvStart(loop, "eio_poller") /\ more
  <2>1. /\ LoopOK(loop', Owed(loopEio)) /\ loop'.active = loop.active \union {"eio_poller"}
        /\ loop'.need_tick_cb = loop.need_tick_cb
    BY <1>3, <1>5, EvStartOK
  <2>2. Seen(loop') /\ (TickDue(loop) => TickDue(loop'))
    BY <2>1 DEF Seen, TickDue
  <2> QED
    BY <1>1, <1>2, <2>1, <2>2, WatchersChange
<1>6. CASE loop' = EvStop(loop, "eio_poller") /\ ~more
  <2>1. /\ LoopOK(loop', Owed(loopEio)) /\ loop'.active = loop.active \ {"eio_poller"}
        /\ loop'.need_tick_cb = loop.need_tick_cb
    BY <1>3, <1>6, EvStopOK
  <2>2. TickDue(loop) => TickDue(loop')
    BY <2>1 DEF TickDue
  <2> QED
    BY <1>1, <1>2, <1>6, <2>1, <2>2, WatchersChange
<1>7. CASE loop' = loop /\ (loopMain.then = "want" => ~more)
  <2>1. loopEio.res_queue # <<>> => Seen(loop)
    BY <1>1, <1>7 DEF LoopInv, SeenOK, Seen
  <2> QED
    BY <1>1, <1>2, <1>3, <1>7, <2>1, WatchersChange
<1> QED
  BY <1>4, <1>5, <1>6, <1>7

\* The callbacks of the garbage collector's watchers.
LEMMA GCKeeps ==
    ASSUME LoopInv, LoopIdle \/ CheckStatus
    PROVE  LoopInv'
<1>1. /\ loopMain \in MainRecord /\ loopMain.at = "events" /\ loopMain' = loopMain
      /\ UNCHANGED <<nextTickQueue, ticks, loopEio, listening>>
  BY DEF LoopInv, MainOK, LoopIdle, CheckStatus
<1>2. PICK k \in Int : k = Owed(loopEio) /\ LoopOK(loop, k)
  BY OwedType DEF LoopInv
<1>3. "gc_idle" \in IdleWatcher /\ (loopEio.res_queue # <<>> => Seen(loop))
  BY <1>1 DEF IdleWatcher, LoopInv, SeenOK
<1>4. CASE LoopIdle
  <2> DEFINE l == [loop EXCEPT !.events = @ \ {"gc_idle"}]
  <2>1. /\ LoopOK(l, k) /\ l.active = loop.active /\ l.sent = loop.sent
        /\ l.events = loop.events \ {"gc_idle"} /\ l.need_tick_cb = loop.need_tick_cb
    BY <1>2, TakenOK
  <2>2. loop' = l \/ loop' = StopGCTimer(EvStop(l, "gc_idle"))
    BY <1>4 DEF LoopIdle
  <2> HIDE DEF l
  <2> DEFINE s == EvStop(l, "gc_idle")
  <2>3. /\ LoopOK(s, k) /\ s.active = loop.active \ {"gc_idle"} /\ s.sent = loop.sent
        /\ s.events = loop.events \ {"gc_idle"} /\ s.need_tick_cb = loop.need_tick_cb
    BY <1>3, <2>1, EvStopOK
  <2> HIDE DEF s
  <2> DEFINE t == StopGCTimer(s)
  <2>4. /\ LoopOK(t, k) /\ t.active = s.active \ {"gc_timer"} /\ t.sent = s.sent
        /\ t.events \in {s.events, s.events \ {"gc_timer"}}
        /\ t.need_tick_cb = s.need_tick_cb
    BY <2>3, GCTimerOK
  <2>5. loop' = l \/ loop' = t
    BY <2>2 DEF s
  <2> HIDE DEF t
  <2>6. CASE loop' = l
    <3>1. LoopOK(loop', k) /\ (TickDue(loop) => TickDue(loop')) /\ (Seen(loop) => Seen(loop'))
      BY <2>1, <2>6 DEF TickDue, Seen
    <3> QED
      BY <1>1, <1>2, <1>3, <3>1, WatchersChange
  <2>7. CASE loop' = t
    <3>1. LoopOK(loop', k) /\ (TickDue(loop) => TickDue(loop')) /\ (Seen(loop) => Seen(loop'))
      BY <2>3, <2>4, <2>7 DEF TickDue, Seen
    <3> QED
      BY <1>1, <1>2, <1>3, <3>1, WatchersChange
  <2> QED
    BY <2>5, <2>6, <2>7
<1>5. CASE CheckStatus
  <2> DEFINE l == [loop EXCEPT !.events = @ \ {"gc_timer"}]
  <2>1. /\ LoopOK(l, k) /\ l.active = loop.active /\ l.sent = loop.sent
        /\ l.events = loop.events \ {"gc_timer"} /\ l.need_tick_cb = loop.need_tick_cb
    BY <1>2, TakenOK
  <2>2. loop' = l \/ loop' = EvStart(l, "gc_idle")
    BY <1>5 DEF CheckStatus
  <2> HIDE DEF l
  <2>3. /\ LoopOK(loop', k) /\ loop.active \subseteq loop'.active /\ loop'.sent = loop.sent
        /\ loop'.events = loop.events \ {"gc_timer"} /\ loop'.need_tick_cb = loop.need_tick_cb
    BY <1>3, <2>1, <2>2, EvStartOK
  <2>4. (TickDue(loop) => TickDue(loop')) /\ (Seen(loop) => Seen(loop'))
    BY <2>3 DEF TickDue, Seen
  <2> QED
    BY <1>1, <1>2, <1>3, <2>3, <2>4, WatchersChange
<1> QED
  BY <1>4, <1>5

\* The wait of libev, and the check watchers after it.
LEMMA WaitKeeps ==
    ASSUME LoopInv, NEW timers \in {{}, {"gc_timer"}}, Wait(timers)
    PROVE  LoopInv'
<1>1. PICK slow \in BOOLEAN :
         LET found == loop.sent \union timers
             idle == loop.active \intersect IdleWatcher
             l == [loop EXCEPT !.sent = {}, !.events = IF found = {} THEN idle ELSE found] IN
         /\ found # {} \/ idle # {} \/ loop.refs = 0
         /\ Tick(Check(l, slow), "events")
  BY DEF Wait
<1>2. PICK k \in Int : k = Owed(loopEio) /\ LoopOK(loop, k)
  BY OwedType DEF LoopInv
<1>3. /\ loopMain.at = "wait" /\ loop.events = {} /\ (loopEio.res_queue # <<>> => Seen(loop))
      /\ UNCHANGED <<nextTickQueue, ticks, loopEio, listening>>
  BY DEF LoopInv, MainOK, SeenOK, Wait
<1>4. loop \in LoopRecord /\ loop.sent \subseteq {"want", "done"}
  BY <1>2 DEF LoopOK, LoopRecord
<1>5. PICK v \in SUBSET (IdleWatcher \union {"gc_timer", "want", "done"}) :
         v = IF loop.sent \union timers = {} THEN loop.active \intersect IdleWatcher
             ELSE loop.sent \union timers
  BY <1>4
<1>6. v \intersect IdleWatcher \subseteq loop.active /\ loop.sent \subseteq v
  BY <1>4, <1>5 DEF IdleWatcher
<1> DEFINE l == [loop EXCEPT !.sent = {}, !.events = v]
<1>7. /\ l \in LoopRecord /\ l.active = loop.active /\ l.sent = {} /\ l.refs = loop.refs
      /\ l.events = v /\ l.need_tick_cb = loop.need_tick_cb
  BY <1>4 DEF LoopRecord
<1>8. Tick(Check(l, slow), "events")
  BY <1>1, <1>5
<1> HIDE DEF l
<1>9. LoopOK(l, k)
  BY <1>2, <1>6, <1>7 DEF LoopOK
<1> DEFINE g == StartGCTimer(l)
<1>10. /\ LoopOK(g, k) /\ loop.active \subseteq g.active /\ g.events = v
       /\ g.need_tick_cb = loop.need_tick_cb
  BY <1>7, <1>9, GCTimerOK
<1>11. Check(l, slow) = IF slow THEN EvStart(g, "gc_idle") ELSE g
  BY DEF Check
<1> HIDE DEF g
<1>12. PICK c : /\ c = Check(l, slow) /\ LoopOK(c, k) /\ loop.active \subseteq c.active
                /\ c.events = v /\ c.need_tick_cb = loop.need_tick_cb
  <2>1. "gc_idle" \in IdleWatcher
    BY DEF IdleWatcher
  <2>2. LET m == EvStart(g, "gc_idle") IN
        /\ LoopOK(m, k) /\ m.active = g.active \union {"gc_idle"} /\ m.events = g.events
        /\ m.need_tick_cb = g.need_tick_cb
    BY <1>10, <2>1, EvStartOK
  <2>3. CASE slow
    BY <1>10, <1>11, <2>2, <2>3
  <2>4. CASE ~slow
    BY <1>10, <1>11, <2>4
  <2> QED
    BY <2>3, <2>4
<1>13. loopEio.res_queue # <<>> => Seen(c)
  BY <1>3, <1>6, <1>12 DEF Seen
<1>14. /\ Tick(c, "events") /\ LoopOK(c, Owed(loopEio)) /\ "events" \in {"wait", "events"}
       /\ loopMain.at \in {"prepare", "wait"}
  BY <1>2, <1>3, <1>8, <1>12
<1> QED
  BY <1>3, <1>12, <1>13, <1>14, TickKeeps

\* The end of an iteration, or of the loop: no reference means that nothing is owed and
\* no tick is due.
LEMMA IterateKeeps ==
    ASSUME LoopInv, Iterate
    PROVE  LoopInv'
<1>1. /\ loopMain \in MainRecord /\ loopMain.at = "events" /\ loop.events = {}
      /\ nextTickQueue' = nextTickQueue /\ ticks' = ticks /\ loopEio' = loopEio
      /\ listening' = listening
  BY DEF LoopInv, MainOK, Iterate
<1>2. PICK k \in Nat : k = Owed(loopEio) /\ LoopOK(loop, k) /\ EioOK(loopEio)
  BY OwedType DEF LoopInv
<1>3. CASE loop.refs # 0 /\ loopMain' = [loopMain EXCEPT !.at = "prepare"] /\ loop' = loop
  <2>1. loopMain' \in MainRecord /\ loopMain'.at = "prepare"
    BY <1>1, <1>3, MainAt
  <2>2. MainOK' /\ TicksOK' /\ EndsWhenDone'
    BY <1>1, <1>3, <2>1 DEF LoopInv, MainOK, TicksOK, EndsWhenDone
  <2>3. DueOK' /\ SeenOK'
    BY <1>1, <1>3, <2>1 DEF LoopInv, DueOK, SeenOK
  <2> QED
    BY <1>1, <1>3, <2>2, <2>3 DEF LoopInv
<1>4. CASE /\ loop.refs = 0 /\ loopMain' = [loopMain EXCEPT !.at = "exited"]
           /\ \E throws \in BOOLEAN : loop' = IF throws THEN FatalException(loop) ELSE loop
  <2>1. loopMain' \in MainRecord /\ loopMain'.at = "exited"
    BY <1>1, <1>4, MainAt
  <2>2. LoopOK(loop', k)
    BY <1>2, <1>4, FatalOK
  <2>3. PICK c \in Nat : c = Cardinality(loop.active \intersect IdleWatcher)
    BY IdleFinite
  <2>4. k = 0 /\ c = 0
    <3>1. 0 = k + c
      BY <1>2, <1>4, <2>3 DEF LoopOK
    <3> QED
      BY <3>1
  <2>5. loop.active \intersect IdleWatcher = {}
    BY <2>3, <2>4, IdleFinite, FS_EmptySet
  <2>6. ~TickDue(loop)
    BY <2>5 DEF TickDue, IdleWatcher
  <2>7. nextTickQueue = <<>>
    <3>1. nextTickQueue \in Seq(Nat) /\ Len(nextTickQueue) \in Nat
      BY LenProperties DEF LoopInv, TicksOK, QueueOK
    <3>2. ~(Len(nextTickQueue) > 0)
      BY <1>1, <2>6 DEF LoopInv, DueOK
    <3>3. Len(nextTickQueue) = 0
      BY <3>1, <3>2
    <3> QED
      BY <3>1, <3>3, EmptySeq
  <2>8. Cardinality(loopEio.answered) = loopEio.asked
    <3>1. Cardinality(loopEio.answered) \in Nat /\ loopEio.asked \in Nat
      BY <1>2, OwedType DEF EioOK, EioRecord
    <3> QED
      BY <1>2, <2>4, <3>1 DEF Owed
  <2>9. MainOK' /\ TicksOK' /\ DueOK' /\ SeenOK'
    BY <1>1, <2>1 DEF LoopInv, MainOK, TicksOK, DueOK, SeenOK
  <2>10. EndsWhenDone'
    BY <1>1, <2>7, <2>8 DEF EndsWhenDone
  <2> QED
    BY <1>1, <1>2, <2>2, <2>9, <2>10 DEF LoopInv
<1> QED
  BY <1>3, <1>4 DEF Iterate

\* Start before Load: nothing holds the loop, nothing was asked for.
LEMMA LoopInitial ==
    ASSUME LoopInit
    PROVE  LoopInv
<1>1. /\ <<>> \in Seq(Nat) /\ Len(<<>>) = 0 /\ 0 \in 0..MaxTicks /\ 0 \in 0..MaxPoll + MaxTicks
  BY EmptySeq, LoopAssumption
<1>2. /\ loopMain \in MainRecord /\ loopMain.at = "load" /\ loop.events = {} /\ loop.active = {}
      /\ loop.refs = 0 /\ loopEio.asked = 0 /\ loopEio.answered = {} /\ loopEio.executing = {}
      /\ loopEio.res_queue = <<>> /\ ticks.asked = 0 /\ ticks.ran = <<>> /\ nextTickQueue = <<>>
  BY <1>1 DEF LoopInit, MainRecord
<1>3. loop \in LoopRecord
  BY DEF LoopInit, LoopRecord
<1>4. loopEio \in EioRecord
  BY <1>1 DEF LoopInit, EioRecord
<1>5. ticks \in [asked : 0..MaxTicks, ran : Seq(Nat)]
  BY <1>1 DEF LoopInit
<1>6. Cardinality({}) = 0
  BY FS_EmptySet
<1>7. LoopOK(loop, Owed(loopEio))
  <2>1. Owed(loopEio) = 0
    BY <1>2, <1>6 DEF Owed
  <2>2. loop.active \intersect IdleWatcher = {}
    BY <1>2
  <2>3. loop.refs = 0 + Cardinality(loop.active \intersect IdleWatcher)
    BY <1>2, <1>6, <2>2
  <2> QED
    BY <1>2, <1>3, <2>1, <2>3 DEF LoopOK
<1>8. EioOK(loopEio)
  BY <1>1, <1>2, <1>4 DEF EioOK
<1>9. TicksOK
  BY <1>1, <1>2, <1>5 DEF TicksOK, RanOK, QueueOK
<1>10. MainOK /\ DueOK /\ SeenOK /\ EndsWhenDone
  BY <1>1, <1>2 DEF MainOK, DueOK, SeenOK, EndsWhenDone
<1> QED
  BY <1>7, <1>8, <1>9, <1>10 DEF LoopInit, LoopInv

\* The invariant is inductive.
LEMMA LoopStep ==
    ASSUME LoopInv, [LoopNext]_loopVars
    PROVE  LoopInv'
<1>1. CASE Load
  BY <1>1, LoadKeeps
<1>2. CASE PrepareTick
  BY <1>2, PrepareKeeps
<1>3. CASE TickCallback
  BY <1>3, TickCallbackKeeps
<1>4. CASE TickEnds
  BY <1>4, TickEndsKeeps
<1>5. ASSUME NEW e \in {"want", "done", "eio_poller"}, BeginPoll(e)
      PROVE  LoopInv'
  BY <1>5, BeginPollKeeps
<1>6. CASE EioFinish
  BY <1>6, EioFinishKeeps
<1>7. CASE EioPollReturns
  BY <1>7, PollReturnsKeeps
<1>8. CASE LoopIdle \/ CheckStatus
  BY <1>8, GCKeeps
<1>9. CASE Wait({}) \/ Wait({"gc_timer"})
  BY <1>9, WaitKeeps
<1>10. CASE Iterate
  BY <1>10, IterateKeeps
<1>11. ASSUME NEW r \in 1..MaxReqs, LoopExecute(r)
       PROVE  LoopInv'
  BY <1>11, ExecuteKeeps
<1>12. CASE UNCHANGED loopVars
  BY <1>12 DEF loopVars, LoopInv, MainOK, TicksOK, DueOK, SeenOK, EndsWhenDone
<1> QED
  BY <1>1, <1>2, <1>3, <1>4, <1>5, <1>6, <1>7, <1>8, <1>9, <1>10, <1>11, <1>12
     DEF LoopNext, MainNext

\* It implies the property.
LEMMA LoopInvSafe ==
    ASSUME LoopInv
    PROVE  LoopSafe
<1>1. /\ LoopOK(loop, Owed(loopEio)) /\ EioOK(loopEio) /\ Owed(loopEio) \in Nat
      /\ loopMain \in MainRecord /\ loop \in LoopRecord
  BY OwedType DEF LoopInv, MainOK, LoopOK
<1>2. RefsBalanced
  <2>1. loop.refs = (loopEio.asked - Cardinality(loopEio.answered))
                    + Cardinality(loop.active \intersect IdleWatcher)
    BY <1>1 DEF LoopOK, Owed
  <2> QED
    BY <2>1 DEF RefsBalanced
<1>3. loop.refs \in Nat
  <2>1. PICK c \in Nat : c = Cardinality(loop.active \intersect IdleWatcher)
    BY IdleFinite
  <2>2. loop.refs = Owed(loopEio) + c
    BY <1>1, <2>1 DEF LoopOK
  <2> QED
    BY <1>1, <2>2
<1>4. LoopTypeOK
  BY <1>1, <1>3 DEF LoopTypeOK, MainRecord, LoopRecord
<1>5. TicksAreDue
  <2>1. nextTickQueue \in Seq(Nat) /\ Len(nextTickQueue) \in Nat
    BY LenProperties DEF LoopInv, TicksOK, QueueOK
  <2>2. nextTickQueue # <<>> => Len(nextTickQueue) > 0
    BY <2>1, EmptySeq
  <2> QED
    BY <2>2 DEF LoopInv, DueOK, TickDue, TicksAreDue
<1>6. TicksInOrder
  <2>1. PICK r \in Seq(Nat), q \in Seq(Nat) : r = ticks.ran /\ q = nextTickQueue
    BY DEF LoopInv, TicksOK, RanOK, QueueOK
  <2>2. PICK m \in Nat, n \in Nat : m = Len(r) /\ n = Len(q)
    BY <2>1, LenProperties
  <2>3. /\ m + n = ticks.asked /\ (\A i \in 1..m : r[i] = i) /\ (\A i \in 1..n : q[i] = m + i)
    BY <2>1, <2>2 DEF LoopInv, TicksOK, RanOK, QueueOK
  <2>4. /\ r \o q \in Seq(Nat) /\ Len(r \o q) = m + n
        /\ \A i \in 1..m + n : (r \o q)[i] = IF i <= m THEN r[i] ELSE q[i - m]
    BY <2>2, ConcatProperties
  <2>5. DOMAIN (r \o q) = 1..m + n /\ r \o q \in [1..m + n -> Nat]
    BY <2>4, LenProperties
  <2>6. PICK s \in [1..m + n -> Nat] : s = r \o q
    BY <2>5
  <2>7. ASSUME NEW i \in 1..m + n
        PROVE  s[i] = i
    <3>1. CASE i <= m
      <4>1. i \in 1..m
        BY <3>1
      <4> QED
        BY <2>3, <2>4, <2>6, <3>1, <4>1
    <3>2. CASE ~(i <= m)
      <4>1. i - m \in 1..n
        BY <3>2
      <4>2. q[i - m] = m + (i - m)
        BY <2>3, <4>1
      <4>3. s[i] = m + (i - m)
        BY <2>4, <2>6, <3>2, <4>2
      <4> QED
        BY <4>3
    <3> QED
      BY <3>1, <3>2
  <2>8. s = [i \in 1..m + n |-> i]
    BY <2>7
  <2> QED
    BY <2>1, <2>3, <2>6, <2>8 DEF TicksInOrder
<1>7. ResultsAreSeen
  BY DEF LoopInv, SeenOK, Seen, ResultsAreSeen
<1>8. EndsWhenDone
  BY DEF LoopInv
<1> QED
  BY <1>2, <1>4, <1>5, <1>6, <1>7, <1>8 DEF LoopSafe

\* The event loop of node, for any number of ticks and requests and any limit of a poll:
\* callbacks of nextTick run once each and in order, exceptions or not; a result in the
\* queue is seen; the loop ends by itself only when every request is answered and every
\* tick ran.
THEOREM LoopIsSafe == LoopSpec => []LoopSafe
<1>1. LoopInit => LoopInv
  BY LoopInitial
<1>2. LoopInv /\ [LoopNext]_loopVars => LoopInv'
  BY LoopStep
<1>3. LoopInv => LoopSafe
  BY LoopInvSafe
<1> QED
  BY <1>1, <1>2, <1>3, PTL DEF LoopSpec

-----------------------------------------------------------------------------
(***************************************************************************)
(* The process object.  ProcessSafe of NodeProcess for any command line    *)
(* and any number of messages and bindings.  Which arguments are scripts   *)
(* of -e depends on how many -e stand before them without a gap; the       *)
(* invariant says how many stand before the argument ParseArgs is at (an   *)
(* even number: it jumps over the script), and that all before it are      *)
(* options or scripts.                                                     *)
(***************************************************************************)

\* Exactly n times -e before argument j of a line.
ExactRun(line, j, n) ==
    /\ n \in Nat /\ n < j
    /\ \A k \in 1..n : line[j - k] = "-e"
    /\ j - n = 1 \/ line[j - n - 1] # "-e"

\* The script of a -e.
EvalIn(line, j) == \E n \in 1..j - 1 : n % 2 = 1 /\ ExactRun(line, j, n)

\* ParseArgs has come to argument i.
ParsedTo(line, i) ==
    /\ i \in 1..(Len(line) + 1)
    /\ \E n \in Nat : n % 2 = 0 /\ ExactRun(line, i, n)
    /\ \A j \in 1..(i - 1) : Dash(line[j]) \/ EvalIn(line, j)

\* What argv may hold.
Word == Arg \cup {EmptyArg, "--help"}

NodeRecs ==
    [argv : Seq(Word), i : Nat, option_end_index : Nat,
     status : {"ParseArgs", "Start", "running", "exited"},
     use_debug_agent : BOOLEAN, debug_wait_connect : BOOLEAN, eval : BOOLEAN]

\* What was taken is empty or --help, what was not yet looked at is as it was.
ArgvOK(line, argv, i) ==
    /\ Len(argv) = Len(line)
    /\ \A j \in 1..Len(line) : argv[j] \in {line[j], EmptyArg, "--help"}
    /\ \A j \in i..Len(line) : argv[j] = line[j]

\* The options end at the end, or at an argument that is no option.
OptionsOK(line, n) ==
    /\ n.i \in 1..(Len(line) + 1)
    /\ n.status = "ParseArgs" => ParsedTo(line, n.i)
    /\ n.status \in {"Start", "running"} =>
         /\ ParsedTo(line, n.i) /\ n.option_end_index = n.i
         /\ n.i <= Len(line) => ~Dash(line[n.i])

DebugRecs ==
    [agent : BOOLEAN, handler : BOOLEAN, hit_signal : BOOLEAN, asked : Nat, messages : Nat,
     handled : Nat, async : BOOLEAN]

DebugOK(d) == d \in DebugRecs /\ d.handled + d.messages = d.asked

\* Everyone got what is in the cache.
BindingsOK(b) ==
    /\ b = [cache |-> b.cache, made |-> b.made, got |-> b.got]
    /\ b.made \in Nat /\ b.made <= MaxExports
    /\ \A g \in b.got : \E m \in DOMAIN b.cache : g = <<m, b.cache[m]>>

NodeOK(line, n) == n \in NodeRecs /\ ArgvOK(line, n.argv, n.i) /\ OptionsOK(line, n)

ProcessInv ==
    /\ cmdline \in Seq(Arg)
    /\ NodeOK(cmdline, node)
    /\ DebugOK(debug)
    /\ BindingsOK(bindings)

\* There is one such number.
LEMMA RunIsUnique ==
    ASSUME NEW line, NEW j \in Nat, NEW m, NEW n, ExactRun(line, j, m), ExactRun(line, j, n)
    PROVE  m = n
<1>1. ASSUME NEW a \in Nat, NEW b \in Nat, a < b, ExactRun(line, j, a), ExactRun(line, j, b) PROVE FALSE
  <2>1. a + 1 \in 1..b /\ j - a # 1
    BY <1>1 DEF ExactRun
  <2>2. line[j - (a + 1)] = "-e" /\ line[j - a - 1] # "-e"
    BY <1>1, <2>1 DEF ExactRun
  <2>3. j - (a + 1) = j - a - 1
    OBVIOUS
  <2> QED
    BY <2>2, <2>3
<1>2. m \in Nat /\ n \in Nat
  BY DEF ExactRun
<1> QED
  BY <1>1, <1>2

\* After an even number of -e there is no script of -e.
LEMMA EvenIsNoScript ==
    ASSUME NEW line, NEW j \in Nat, NEW n, ExactRun(line, j, n), n % 2 = 0
    PROVE  ~EvalIn(line, j)
<1>1. ASSUME EvalIn(line, j) PROVE FALSE
  <2>1. PICK m \in 1..j - 1 : m % 2 = 1 /\ ExactRun(line, j, m)
    BY <1>1 DEF EvalIn
  <2>2. m = n
    BY <2>1, RunIsUnique
  <2> QED
    BY <2>1, <2>2
<1> QED
  BY <1>1

\* One more -e makes the run longer.
LEMMA RunGoesOn ==
    ASSUME NEW line, NEW j \in Nat, NEW n, ExactRun(line, j, n), line[j] = "-e"
    PROVE  ExactRun(line, j + 1, n + 1)
<1>1. n \in Nat /\ n < j
  BY DEF ExactRun
<1>2. ASSUME NEW k \in 1..(n + 1) PROVE line[(j + 1) - k] = "-e"
  <2>1. CASE k = 1
    BY <2>1
  <2>2. CASE k # 1
    <3>1. k - 1 \in 1..n /\ (j + 1) - k = j - (k - 1)
      BY <1>1, <2>2
    <3> QED
      BY <3>1 DEF ExactRun
  <2> QED
    BY <2>1, <2>2
<1>3. (j + 1) - (n + 1) = j - n /\ (j + 1) - (n + 1) - 1 = j - n - 1
  BY <1>1
<1> QED
  BY <1>1, <1>2, <1>3 DEF ExactRun

\* Anything else ends it.
LEMMA RunStops ==
    ASSUME NEW line, NEW j \in Nat, line[j] # "-e"
    PROVE  ExactRun(line, j + 1, 0)
<1>1. (j + 1) - 0 - 1 = j /\ 1..0 = {}
  OBVIOUS
<1> QED
  BY <1>1 DEF ExactRun

\* An option other than -e is passed.
LEMMA PassOption ==
    ASSUME NEW line \in Seq(Arg), NEW i, ParsedTo(line, i), i <= Len(line), Dash(line[i]), line[i] # "-e"
    PROVE  ParsedTo(line, i + 1)
<1>1. i \in Nat /\ Len(line) \in Nat /\ i + 1 \in 1..(Len(line) + 1)
  BY LenProperties DEF ParsedTo
<1>2. ExactRun(line, i + 1, 0) /\ 0 % 2 = 0
  BY <1>1, RunStops
<1>3. \A j \in 1..((i + 1) - 1) : Dash(line[j]) \/ EvalIn(line, j)
  <2>1. ASSUME NEW j \in 1..((i + 1) - 1) PROVE j = i \/ j \in 1..(i - 1)
    BY <1>1
  <2> QED
    BY <2>1 DEF ParsedTo
<1> QED
  BY <1>1, <1>2, <1>3 DEF ParsedTo

\* -e is passed with its script.
LEMMA PassEval ==
    ASSUME NEW line \in Seq(Arg), NEW i, ParsedTo(line, i), i + 1 <= Len(line), line[i] = "-e"
    PROVE  ParsedTo(line, i + 2)
<1>1. i \in Nat /\ i > 0 /\ Len(line) \in Nat /\ i + 1 \in Nat /\ i + 2 \in 1..(Len(line) + 1)
  BY LenProperties DEF ParsedTo
<1>2. PICK n \in Nat : n % 2 = 0 /\ ExactRun(line, i, n)
  BY DEF ParsedTo
<1>3. (n + 1) % 2 = 1 /\ (n + 2) % 2 = 0 /\ n + 1 + 1 = n + 2 /\ i + 1 + 1 = i + 2
  BY <1>1, <1>2
<1>4. ExactRun(line, i + 1, n + 1)
  BY <1>1, <1>2, RunGoesOn
<1>5. EvalIn(line, i + 1)
  <2>1. n + 1 \in 1..(i + 1) - 1
    BY <1>1, <1>2 DEF ExactRun
  <2> QED
    BY <1>3, <1>4, <2>1 DEF EvalIn
<1>6. \E m \in Nat : m % 2 = 0 /\ ExactRun(line, i + 2, m)
  <2>1. CASE line[i + 1] = "-e"
    <3>1. ExactRun(line, i + 1 + 1, n + 1 + 1)
      BY <1>1, <1>4, <2>1, RunGoesOn
    <3> QED
      BY <1>3, <3>1
  <2>2. CASE line[i + 1] # "-e"
    <3>1. ExactRun(line, i + 1 + 1, 0) /\ 0 % 2 = 0
      BY <1>1, <2>2, RunStops
    <3> QED
      BY <1>3, <3>1
  <2> QED
    BY <2>1, <2>2
<1>7. \A j \in 1..((i + 2) - 1) : Dash(line[j]) \/ EvalIn(line, j)
  <2>1. ASSUME NEW j \in 1..((i + 2) - 1) PROVE j = i + 1 \/ j = i \/ j \in 1..(i - 1)
    BY <1>1
  <2>2. Dash(line[i])
    BY DEF Dash
  <2> QED
    BY <1>5, <2>1, <2>2 DEF ParsedTo
<1> QED
  BY <1>1, <1>6, <1>7 DEF ParsedTo

\* An argument that ParseArgs takes is behind it.
LEMMA ArgIsTaken ==
    ASSUME NEW line \in Seq(Arg), NEW argv \in Seq(Word), NEW i \in 1..Len(line), NEW to \in Nat,
           to > i, NEW s \in {EmptyArg, "--help"}, ArgvOK(line, argv, i)
    PROVE  [argv EXCEPT ![i] = s] \in Seq(Word) /\ ArgvOK(line, [argv EXCEPT ![i] = s], to)
<1>1. PICK l \in Nat : l = Len(line) /\ Len(argv) = l
  BY LenProperties DEF ArgvOK
<1>2. s \in Word
  BY DEF Word
<1>3. i \in 1..Len(argv) /\ i \in 1..l
  BY <1>1
<1>4. PICK more \in Seq(Word) : more = [argv EXCEPT ![i] = s]
  BY <1>2, <1>3, ExceptSeq
<1>5. Len(more) = l
  BY <1>1, <1>2, <1>3, <1>4, ExceptSeq
<1>6. ASSUME NEW j \in 1..l PROVE more[j] = IF j = i THEN s ELSE argv[j]
  BY <1>1, <1>2, <1>3, <1>4, ExceptSeq
<1>7. \A j \in 1..Len(line) : more[j] \in {line[j], EmptyArg, "--help"}
  BY <1>1, <1>6 DEF ArgvOK
<1>8. ASSUME NEW j \in to..l PROVE j \in 1..l /\ j \in i..l /\ j # i
  <2>1. i \in Nat /\ i > 0 /\ i < to
    BY <1>3
  <2> QED
    BY <2>1
<1>9. \A j \in to..Len(line) : more[j] = line[j]
  BY <1>1, <1>6, <1>8 DEF ArgvOK
<1> QED
  BY <1>1, <1>4, <1>5, <1>7, <1>9 DEF ArgvOK

\* One argument: ParseArgs stays at the head of what is not taken.
LEMMA ParseArgKeeps ==
    ASSUME NEW line \in Seq(Arg), line = cmdline, NEW n \in NodeRecs, NodeOK(line, n),
           n.status = "ParseArgs", n.i <= Len(line)
    PROVE  NodeOK(line, ParseArg(n, n.argv[n.i]))
<1>1. PICK i \in 1..Len(line), argv \in Seq(Word) : i = n.i /\ argv = n.argv
  BY LenProperties DEF NodeRecs, NodeOK, OptionsOK
<1>2. ArgvOK(line, argv, i) /\ ParsedTo(line, i) /\ Len(line) \in Nat
  BY <1>1, LenProperties DEF NodeOK, OptionsOK
<1>3. PICK a \in Arg : a = line[i] /\ argv[i] = a
  <2>1. line[i] \in Arg
    BY ElementOfSeq
  <2>2. i \in i..Len(line)
    BY <1>2
  <2>3. argv[i] = line[i]
    BY <1>2, <2>2 DEF ArgvOK
  <2> QED
    BY <2>1, <2>3
<1>4. PICK up \in Nat : up = i + 1 /\ up > i
  OBVIOUS
<1>5. ASSUME Dash(a), a # "-e" PROVE ParsedTo(line, up) /\ up \in 1..(Len(line) + 1)
  <2>1. ParsedTo(line, i + 1)
    BY <1>2, <1>3, <1>5, PassOption
  <2> QED
    BY <1>2, <1>4, <2>1
<1>6. ASSUME NEW s \in {EmptyArg, "--help"}, NEW to \in Nat, to > i
      PROVE  [argv EXCEPT ![i] = s] \in Seq(Word) /\ ArgvOK(line, [argv EXCEPT ![i] = s], to)
  BY <1>2, <1>6, ArgIsTaken
<1>7. ArgvOK(line, argv, up)
  <2>1. ASSUME NEW j \in up..Len(line) PROVE j \in i..Len(line)
    BY <1>2, <1>4
  <2> QED
    BY <1>2, <2>1 DEF ArgvOK
<1>8. ASSUME NEW n2 \in NodeRecs, n2.argv = argv, n2.i = i, n2.status = "exited" PROVE NodeOK(line, n2)
  BY <1>2, <1>8 DEF NodeOK, OptionsOK
<1>9. [n EXCEPT !.status = "exited"] \in NodeRecs
  BY DEF NodeRecs
<1>10. NodeOK(line, [n EXCEPT !.status = "exited"])
  <2>1. PICK n2 \in NodeRecs : n2 = [n EXCEPT !.status = "exited"] /\ n2.argv = argv /\ n2.i = i /\ n2.status = "exited"
    BY <1>1, <1>9 DEF NodeRecs
  <2> QED
    BY <1>8, <2>1
<1>11. ASSUME NEW n2 \in NodeRecs, n2.status = "ParseArgs", n2.i \in Nat, n2.i > i, ParsedTo(line, n2.i),
              ArgvOK(line, n2.argv, n2.i)
       PROVE  NodeOK(line, n2)
  BY <1>11 DEF NodeOK, OptionsOK, ParsedTo
<1>12. CASE a \in {"--debug", "--debug-brk"}
  <2>1. Dash(a) /\ a # "-e"
    BY <1>12 DEF Dash
  <2>2. PICK more \in Seq(Word) : more = [argv EXCEPT ![i] = EmptyArg] /\ ArgvOK(line, more, up)
    BY <1>4, <1>6
  <2>3. PICK w \in BOOLEAN : w = (n.debug_wait_connect \/ a = "--debug-brk")
    OBVIOUS
  <2>4. PICK n1 : n1 = [n EXCEPT !.use_debug_agent = TRUE, !.debug_wait_connect = w]
    OBVIOUS
  <2>5. n1 \in NodeRecs /\ n1.status = "ParseArgs"
    BY <2>4 DEF NodeRecs
  <2>6. PICK n2 : n2 = [n1 EXCEPT !.argv = more, !.i = up]
    OBVIOUS
  <2>7. n2 \in NodeRecs /\ n2.status = "ParseArgs" /\ n2.i = up /\ n2.argv = more
    BY <2>5, <2>6 DEF NodeRecs
  <2>8. ParseArg(n, n.argv[n.i]) = n2
    <3>1. ParseArg(n, a) = ParseDebugOpt(n, a)
      BY <1>12 DEF ParseArg
    <3>2. ParseDebugOpt(n, a) = [n EXCEPT !.use_debug_agent = TRUE, !.debug_wait_connect = w,
                                          !.argv = more, !.i = up]
      BY <1>1, <1>4, <1>12, <2>2, <2>3 DEF ParseDebugOpt, NodeRecs
    <3> QED
      BY <1>1, <1>3, <2>4, <2>6, <3>1, <3>2
  <2> QED
    BY <1>4, <1>5, <1>11, <2>1, <2>2, <2>7, <2>8
<1>13. CASE a = "--debug=bad" \/ a = "--version" \/ (a = "-e" /\ i + 1 > Len(line))
  <2>1. ParseArg(n, a) = [n EXCEPT !.status = "exited"]
    BY <1>1, <1>13 DEF ParseArg, ParseDebugOpt, ParseEval
  <2> QED
    BY <1>1, <1>3, <1>10, <2>1
<1>14. CASE a \in {"--max-stack-size", "--v8-options"}
  <2>1. Dash(a) /\ a # "-e"
    BY <1>14 DEF Dash
  <2>2. PICK s \in {EmptyArg, "--help"} : s = IF a = "--max-stack-size" THEN EmptyArg ELSE "--help"
    OBVIOUS
  <2>3. PICK more \in Seq(Word) : more = [argv EXCEPT ![i] = s] /\ ArgvOK(line, more, up)
    BY <1>4, <1>6
  <2>4. PICK n2 : n2 = [n EXCEPT !.argv = more, !.i = up]
    OBVIOUS
  <2>5. n2 \in NodeRecs /\ n2.status = "ParseArgs" /\ n2.i = up /\ n2.argv = more
    BY <2>4 DEF NodeRecs
  <2>6. ParseArg(n, a) = n2
    BY <1>1, <1>4, <1>14, <2>2, <2>3, <2>4 DEF ParseArg
  <2> QED
    BY <1>1, <1>3, <1>4, <1>5, <1>11, <2>1, <2>3, <2>5, <2>6
<1>15. CASE a = "-e" /\ ~(i + 1 > Len(line))
  <2>1. PICK to \in Nat : to = i + 2 /\ to > i
    OBVIOUS
  <2>2. ParsedTo(line, to)
    <3>1. i + 1 <= Len(line)
      BY <1>2, <1>15
    <3>2. ParsedTo(line, i + 2)
      BY <1>2, <1>3, <1>15, <3>1, PassEval
    <3> QED
      BY <2>1, <3>2
  <2>3. PICK more \in Seq(Word) : more = [argv EXCEPT ![i] = EmptyArg] /\ ArgvOK(line, more, to)
    BY <1>6, <2>1
  <2>4. PICK n2 : n2 = [n EXCEPT !.argv = more, !.eval = TRUE, !.i = to]
    OBVIOUS
  <2>5. n2 \in NodeRecs /\ n2.status = "ParseArgs" /\ n2.i = to /\ n2.argv = more
    BY <2>4 DEF NodeRecs
  <2>6. ParseArg(n, a) = n2
    BY <1>1, <1>15, <2>1, <2>3, <2>4 DEF ParseArg, ParseEval
  <2> QED
    BY <1>1, <1>3, <1>11, <2>1, <2>2, <2>3, <2>5, <2>6
<1>16. CASE a = "--v8"
  <2>1. Dash(a) /\ a # "-e"
    BY <1>16 DEF Dash
  <2>2. PICK n2 : n2 = [n EXCEPT !.i = up]
    OBVIOUS
  <2>3. n2 \in NodeRecs /\ n2.status = "ParseArgs" /\ n2.i = up /\ n2.argv = argv
    BY <1>1, <2>2 DEF NodeRecs
  <2>4. ParseArg(n, a) = n2
    BY <1>1, <1>4, <1>16, <2>1, <2>2 DEF ParseArg
  <2> QED
    BY <1>1, <1>3, <1>4, <1>5, <1>7, <1>11, <2>1, <2>3, <2>4
<1>17. CASE a = "name"
  <2>1. ~Dash(a)
    BY <1>17 DEF Dash
  <2>2. PICK k \in Nat : k = i
    OBVIOUS
  <2>3. PICK n2 : n2 = [n EXCEPT !.status = "Start", !.option_end_index = k]
    OBVIOUS
  <2>4. n2 \in NodeRecs /\ n2.status = "Start" /\ n2.i = i /\ n2.argv = argv /\ n2.option_end_index = i
    BY <1>1, <2>2, <2>3 DEF NodeRecs
  <2>5. ParseArg(n, a) = n2
    BY <1>1, <1>17, <2>1, <2>2, <2>3 DEF ParseArg
  <2>6. NodeOK(line, n2)
    BY <1>2, <1>3, <2>1, <2>4 DEF NodeOK, OptionsOK, ParsedTo
  <2> QED
    BY <1>1, <1>3, <2>5, <2>6
<1> QED
  BY <1>12, <1>13, <1>14, <1>15, <1>16, <1>17 DEF Arg

\* Before the first argument.
LEMMA ProcessStarts == ProcessInit => ProcessInv
<1>1. SUFFICES ASSUME ProcessInit PROVE ProcessInv
  OBVIOUS
<1>2. PICK l \in 0..MaxArgs : cmdline \in [1..l -> Arg]
  BY <1>1 DEF ProcessInit
<1>3. l \in Nat
  BY ProcessAssumption
<1>4. PICK line \in Seq(Arg) : line = cmdline /\ Len(line) = l
  BY <1>2, <1>3
<1>5. PICK argv \in Seq(Word) : argv = line
  <2>1. cmdline \in [1..l -> Word]
    BY <1>2 DEF Word
  <2> QED
    BY <1>3, <1>4, <2>1
<1>6. /\ node \in NodeRecs /\ node.argv = line /\ node.i = 1 /\ node.status = "ParseArgs"
  BY <1>1, <1>4, <1>5 DEF ProcessInit, NodeRecs
<1>7. ArgvOK(line, line, 1)
  BY DEF ArgvOK
<1>8. ParsedTo(line, 1)
  <2>1. ExactRun(line, 1, 0) /\ 0 % 2 = 0
    BY DEF ExactRun
  <2>2. 1..(1 - 1) = {}
    OBVIOUS
  <2>3. 1 \in 1..(Len(line) + 1)
    BY <1>3, <1>4
  <2> QED
    BY <2>1, <2>2, <2>3 DEF ParsedTo
<1>9. OptionsOK(line, node)
  BY <1>6, <1>8 DEF OptionsOK, ParsedTo
<1>10. DebugOK(debug)
  BY <1>1 DEF ProcessInit, DebugOK, DebugRecs
<1>11. BindingsOK(bindings)
  BY <1>1, ProcessAssumption DEF ProcessInit, BindingsOK
<1> QED
  BY <1>4, <1>6, <1>7, <1>9, <1>10, <1>11 DEF ProcessInv, NodeOK

\* ParseArgs: at the end of the line, or at an argument.
LEMMA ParseArgsKeeps ==
    ASSUME ProcessInv, ParseArgs
    PROVE  ProcessInv'
<1>1. PICK line \in Seq(Arg), n \in NodeRecs : line = cmdline /\ n = node /\ NodeOK(line, n)
  BY DEF ProcessInv, NodeOK
<1>2. n.status = "ParseArgs" /\ UNCHANGED <<cmdline, debug, bindings>>
  BY <1>1 DEF ParseArgs
<1>3. CASE n.i > Len(line)
  <2>1. PICK i \in Nat : i = n.i /\ i \in 1..(Len(line) + 1)
    BY <1>1 DEF NodeRecs, NodeOK, OptionsOK
  <2>2. PICK n2 : n2 = [n EXCEPT !.status = "Start", !.option_end_index = i]
    OBVIOUS
  <2>3. n2 \in NodeRecs /\ n2.status = "Start" /\ n2.i = i /\ n2.argv = n.argv /\ n2.option_end_index = i
    BY <2>1, <2>2 DEF NodeRecs
  <2>4. node' = n2
    BY <1>1, <1>3, <2>1, <2>2 DEF ParseArgs
  <2>5. ~(i <= Len(line))
    <3>1. Len(line) \in Nat
      BY LenProperties
    <3> QED
      BY <1>3, <2>1, <3>1
  <2>6. NodeOK(line, n2)
    BY <1>1, <1>2, <2>1, <2>3, <2>5 DEF NodeOK, OptionsOK
  <2> QED
    BY <1>1, <1>2, <2>4, <2>6 DEF ProcessInv
<1>4. CASE ~(n.i > Len(line))
  <2>1. n.i <= Len(line)
    <3>1. Len(line) \in Nat /\ n.i \in Nat
      BY LenProperties DEF NodeRecs
    <3> QED
      BY <1>4, <3>1
  <2>2. node' = ParseArg(n, n.argv[n.i])
    BY <1>1, <1>4 DEF ParseArgs
  <2>3. NodeOK(line, ParseArg(n, n.argv[n.i]))
    BY <1>1, <1>2, <2>1, ParseArgKeeps
  <2> QED
    BY <1>1, <1>2, <2>2, <2>3 DEF ProcessInv
<1> QED
  BY <1>3, <1>4

\* Start goes on with the arguments as they are, and so does the end.
LEMMA StatusKeeps ==
    ASSUME NEW line, NEW n \in NodeRecs, NodeOK(line, n), NEW st \in {"running", "exited"},
           st = "running" => n.status \in {"Start", "running"}
    PROVE  NodeOK(line, [n EXCEPT !.status = st])
<1>1. PICK n2 : n2 = [n EXCEPT !.status = st]
  OBVIOUS
<1>2. /\ n2 \in NodeRecs /\ n2.status = st /\ n2.i = n.i /\ n2.argv = n.argv
      /\ n2.option_end_index = n.option_end_index
  BY <1>1 DEF NodeRecs
<1>3. NodeOK(line, n2)
  BY <1>2 DEF NodeOK, OptionsOK
<1> QED
  BY <1>1, <1>3

\* Start: the agent, or the handler of SIGUSR1.
LEMMA StartDebugKeeps ==
    ASSUME ProcessInv, StartDebug
    PROVE  ProcessInv'
<1>1. PICK n \in NodeRecs, d \in DebugRecs : n = node /\ d = debug /\ NodeOK(cmdline, n) /\ DebugOK(d)
  BY DEF ProcessInv, NodeOK, DebugOK
<1>2. node' = [n EXCEPT !.status = "running"] /\ n.status = "Start" /\ UNCHANGED <<cmdline, bindings>>
  BY <1>1 DEF StartDebug
<1>3. NodeOK(cmdline, node')
  BY <1>1, <1>2, StatusKeeps
<1>4. debug' = [d EXCEPT !.agent = TRUE] \/ debug' = [d EXCEPT !.handler = TRUE]
  BY <1>1 DEF StartDebug, EnableDebug
<1>5. DebugOK(debug')
  BY <1>1, <1>4 DEF DebugOK, DebugRecs
<1> QED
  BY <1>2, <1>3, <1>5 DEF ProcessInv

\* SIGUSR1 ends the process or is noted.
LEMMA SignalHandlerKeeps ==
    ASSUME ProcessInv, EnableDebugSignalHandler
    PROVE  ProcessInv'
<1>1. PICK n \in NodeRecs, d \in DebugRecs : n = node /\ d = debug /\ NodeOK(cmdline, n) /\ DebugOK(d)
  BY DEF ProcessInv, NodeOK, DebugOK
<1>2. UNCHANGED <<cmdline, bindings>>
  BY DEF EnableDebugSignalHandler
<1>3. \/ node' = [n EXCEPT !.status = "exited"] /\ debug' = d
      \/ node' = n /\ debug' = [d EXCEPT !.hit_signal = TRUE]
  BY <1>1 DEF EnableDebugSignalHandler
<1>4. NodeOK(cmdline, [n EXCEPT !.status = "exited"])
  BY <1>1, StatusKeeps
<1>5. DebugOK([d EXCEPT !.hit_signal = TRUE])
  BY <1>1 DEF DebugOK, DebugRecs
<1> QED
  BY <1>1, <1>2, <1>3, <1>4, <1>5 DEF ProcessInv

\* A message is asked and waits; all that wait are handled at once.
LEMMA DebuggerKeeps ==
    ASSUME ProcessInv, DebugSignalCB \/ DebugMessage \/ DebugAsync
    PROVE  ProcessInv'
<1>1. PICK d \in DebugRecs : d = debug /\ d.handled + d.messages = d.asked
  BY DEF ProcessInv, DebugOK
<1>2. UNCHANGED <<cmdline, node, bindings>>
  BY DEF DebugSignalCB, DebugMessage, DebugAsync
<1>3. CASE DebugSignalCB
  <2>1. PICK d1 : d1 = [d EXCEPT !.hit_signal = FALSE]
    OBVIOUS
  <2>2. d1 \in DebugRecs /\ d1.handled = d.handled /\ d1.messages = d.messages /\ d1.asked = d.asked
    BY <2>1 DEF DebugRecs
  <2>3. debug' = [d1 EXCEPT !.agent = TRUE]
    BY <1>1, <1>3, <2>1 DEF DebugSignalCB, EnableDebug
  <2>4. DebugOK(debug')
    BY <1>1, <2>2, <2>3 DEF DebugOK, DebugRecs
  <2> QED
    BY <1>2, <2>4 DEF ProcessInv
<1>4. CASE DebugMessage
  <2>1. PICK a \in Nat, m \in Nat : a = d.asked + 1 /\ m = d.messages + 1
    BY DEF DebugRecs
  <2>2. PICK d1 : d1 = [d EXCEPT !.asked = a, !.messages = m]
    OBVIOUS
  <2>3. d1 \in DebugRecs /\ d1.handled = d.handled /\ d1.messages = m /\ d1.asked = a
    BY <2>2 DEF DebugRecs
  <2>4. debug' = [d1 EXCEPT !.async = TRUE]
    BY <1>1, <1>4, <2>1, <2>2 DEF DebugMessage, DebugMessageDispatch
  <2>5. debug' \in DebugRecs /\ debug'.handled = d.handled /\ debug'.messages = m /\ debug'.asked = a
    BY <2>3, <2>4 DEF DebugRecs
  <2>6. d.handled + m = a
    <3>1. d.handled \in Nat /\ d.messages \in Nat /\ d.asked \in Nat
      BY DEF DebugRecs
    <3> QED
      BY <1>1, <2>1, <3>1
  <2> QED
    BY <1>2, <2>5, <2>6 DEF ProcessInv, DebugOK
<1>5. CASE DebugAsync
  <2>1. PICK h \in Nat : h = d.handled + d.messages
    BY DEF DebugRecs
  <2>2. debug' = [d EXCEPT !.async = FALSE, !.messages = 0, !.handled = h]
    BY <1>1, <1>5, <2>1 DEF DebugAsync, DebugMessageCallback
  <2>3. debug' \in DebugRecs /\ debug'.handled = h /\ debug'.messages = 0 /\ debug'.asked = d.asked
    BY <2>2 DEF DebugRecs
  <2>4. h + 0 = d.asked
    BY <1>1, <2>1
  <2> QED
    BY <1>2, <2>3, <2>4 DEF ProcessInv, DebugOK
<1> QED
  BY <1>3, <1>4, <1>5

\* A binding comes from the cache, or is made and cached.
LEMMA BindingKeeps ==
    ASSUME ProcessInv, NEW m \in Module, Binding(m)
    PROVE  ProcessInv'
<1>1. PICK cache, count, got : cache = bindings.cache /\ count = bindings.made /\ got = bindings.got
  OBVIOUS
<1>2. /\ bindings = [cache |-> cache, made |-> count, got |-> got]
      /\ count \in Nat /\ count <= MaxExports
      /\ \A g \in got : \E x \in DOMAIN cache : g = <<x, cache[x]>>
  BY <1>1 DEF ProcessInv, BindingsOK
<1>3. UNCHANGED <<cmdline, node, debug>>
  BY DEF Binding
<1>4. CASE m \in DOMAIN cache /\ bindings' = [bindings EXCEPT !.got = @ \union {<<m, cache[m]>>}]
  <2>1. bindings' = [cache |-> cache, made |-> count, got |-> got \union {<<m, cache[m]>>}]
    BY <1>2, <1>4
  <2>2. ASSUME NEW g \in got \union {<<m, cache[m]>>} PROVE \E x \in DOMAIN cache : g = <<x, cache[x]>>
    BY <1>2, <1>4
  <2>3. /\ bindings'.cache = cache /\ bindings'.made = count
        /\ bindings'.got = got \union {<<m, cache[m]>>}
        /\ bindings' = [cache |-> bindings'.cache, made |-> bindings'.made, got |-> bindings'.got]
    BY <2>1
  <2>4. BindingsOK(bindings')
    BY <1>2, <2>2, <2>3 DEF BindingsOK
  <2> QED
    BY <1>3, <2>4 DEF ProcessInv
<1>5. CASE m \notin DOMAIN cache /\ count < MaxExports /\ bindings' = Register(bindings, m)
  <2>1. PICK n \in Nat : n = count + 1 /\ n <= MaxExports
    BY <1>2, <1>5, ProcessAssumption
  <2>2. PICK more : more = [x \in DOMAIN cache \union {m} |-> IF x = m THEN n ELSE cache[x]]
    OBVIOUS
  <2>3. bindings' = [cache |-> more, made |-> n, got |-> got \union {<<m, n>>}]
    BY <1>1, <1>5, <2>1, <2>2 DEF Register
  <2>4. DOMAIN more = DOMAIN cache \union {m} /\ more[m] = n /\ \A x \in DOMAIN cache : more[x] = cache[x]
    BY <1>5, <2>2
  <2>5. ASSUME NEW g \in got \union {<<m, n>>} PROVE \E x \in DOMAIN more : g = <<x, more[x]>>
    <3>1. CASE g = <<m, n>>
      BY <2>4, <3>1
    <3>2. CASE g \in got
      <4>1. PICK x \in DOMAIN cache : g = <<x, cache[x]>>
        BY <1>2, <3>2
      <4> QED
        BY <2>4, <4>1
    <3> QED
      BY <3>1, <3>2
  <2>6. /\ bindings'.cache = more /\ bindings'.made = n /\ bindings'.got = got \union {<<m, n>>}
        /\ bindings' = [cache |-> bindings'.cache, made |-> bindings'.made, got |-> bindings'.got]
    BY <2>3
  <2>7. BindingsOK(bindings')
    BY <2>1, <2>5, <2>6 DEF BindingsOK
  <2> QED
    BY <1>3, <2>7 DEF ProcessInv
<1>6. CASE UNCHANGED bindings
  BY <1>3, <1>6 DEF ProcessInv
<1> QED
  BY <1>1, <1>4, <1>5, <1>6 DEF Binding

\* The process object, for every command line and any number of bindings and
\* messages: the options end at the script, which gets its arguments untouched,
\* everyone gets the same object of a binding, and process.env lists what it
\* answers for.
THEOREM ProcessIsSafe == ProcessSpec => []ProcessSafe
<1>1. ProcessInit => ProcessInv
  BY ProcessStarts
<1>2. ProcessInv /\ [ProcessNext]_processVars => ProcessInv'
  <2>1. SUFFICES ASSUME ProcessInv, [ProcessNext]_processVars PROVE ProcessInv'
    OBVIOUS
  <2>2. CASE ParseArgs
    BY <2>1, <2>2, ParseArgsKeeps
  <2>3. CASE StartDebug
    BY <2>1, <2>3, StartDebugKeeps
  <2>4. CASE EnableDebugSignalHandler
    BY <2>1, <2>4, SignalHandlerKeeps
  <2>5. CASE DebugSignalCB \/ DebugMessage \/ DebugAsync
    BY <2>1, <2>5, DebuggerKeeps
  <2>6. CASE \E m \in Module : Binding(m)
    BY <2>1, <2>6, BindingKeeps
  <2>7. CASE \E k \in EnvName : EnvDeleter(k) \/ \E v \in EnvValue : EnvSetter(k, v)
    <3>1. UNCHANGED <<cmdline, node, debug, bindings>>
      BY <2>7 DEF EnvDeleter, EnvSetter
    <3> QED
      BY <2>1, <3>1 DEF ProcessInv
  <2>8. CASE UNCHANGED processVars
    BY <2>1, <2>8 DEF processVars, ProcessInv
  <2> QED
    BY <2>1, <2>2, <2>3, <2>4, <2>5, <2>6, <2>7, <2>8 DEF ProcessNext
<1>3. ProcessInv => ProcessSafe
  <2>1. SUFFICES ASSUME ProcessInv PROVE ProcessSafe
    OBVIOUS
  <2>2. PICK line \in Seq(Arg), n \in NodeRecs : line = cmdline /\ n = node /\ NodeOK(line, n)
    BY <2>1 DEF ProcessInv, NodeOK
  <2>3. DOMAIN line = 1..Len(line) /\ Len(line) \in Nat
    BY LenProperties
  <2>4. ProcessTypeOK
    <3>1. node.i \in 1..Len(cmdline) + 1 /\ node.status \in {"ParseArgs", "Start", "running", "exited"}
      BY <2>2 DEF NodeOK, OptionsOK, NodeRecs
    <3>2. \A j \in DOMAIN cmdline : node.argv[j] \in {cmdline[j], EmptyArg, "--help"}
      BY <2>2, <2>3 DEF NodeOK, ArgvOK
    <3>3. debug.handled + debug.messages = debug.asked /\ bindings.made <= MaxExports
      BY <2>1 DEF ProcessInv, DebugOK, BindingsOK
    <3> QED
      BY <3>1, <3>2, <3>3 DEF ProcessTypeOK
  <2>5. \A j \in Nat : IsEvalArgument(j) <=> EvalIn(line, j)
    BY <2>2 DEF IsEvalArgument, EvalIn, ExactRun
  <2>6. OptionsEndAtScript
    <3>1. SUFFICES ASSUME n.status = "running"
                   PROVE  LET names == {j \in DOMAIN line : ~Dash(line[j]) /\ ~IsEvalArgument(j)} IN
                          /\ n.option_end_index =
                                 IF names = {} THEN Len(line) + 1
                                 ELSE CHOOSE j \in names : \A k \in names : j <= k
                          /\ \A j \in n.option_end_index..Len(line) : n.argv[j] = line[j]
      BY <2>2 DEF OptionsEndAtScript
    <3> DEFINE names == {j \in DOMAIN line : ~Dash(line[j]) /\ ~IsEvalArgument(j)}
    <3>2. PICK i \in Nat : i = n.i /\ i = n.option_end_index /\ i \in 1..(Len(line) + 1)
      BY <2>2, <3>1 DEF NodeOK, OptionsOK, NodeRecs
    <3>3. ParsedTo(line, i) /\ (i <= Len(line) => ~Dash(line[i]))
      BY <2>2, <3>1, <3>2 DEF NodeOK, OptionsOK
    <3>4. ASSUME NEW j \in names PROVE j \in Nat /\ i <= j
      <4>1. j \in 1..Len(line) /\ ~(Dash(line[j]) \/ EvalIn(line, j))
        BY <2>3, <2>5
      <4>2. ~(j \in 1..(i - 1))
        BY <3>3, <4>1 DEF ParsedTo
      <4> QED
        BY <2>3, <4>1, <4>2
    <3>5. \A j \in n.option_end_index..Len(line) : n.argv[j] = line[j]
      BY <2>2, <3>2 DEF NodeOK, ArgvOK
    <3>6. CASE i <= Len(line)
      <4>1. PICK r \in Nat : r % 2 = 0 /\ ExactRun(line, i, r)
        BY <3>3 DEF ParsedTo
      <4>2. ~IsEvalArgument(i)
        BY <2>5, <4>1, EvenIsNoScript
      <4>3. i \in names
        BY <2>3, <3>2, <3>3, <3>6, <4>2
      <4>4. \A j \in names : (\A k \in names : j <= k) => j = i
        BY <3>4, <4>3
      <4>5. \A k \in names : i <= k
        BY <3>4
      <4> HIDE DEF names
      <4>6. (CHOOSE j \in names : \A k \in names : j <= k) = i
        BY <4>3, <4>4, <4>5
      <4> QED
        BY <3>2, <3>5, <4>3, <4>6 DEF names
    <3>7. CASE ~(i <= Len(line))
      <4>1. i = Len(line) + 1
        BY <2>3, <3>2, <3>7
      <4>2. names = {}
        <5>1. ASSUME NEW j \in names PROVE FALSE
          BY <2>3, <3>4, <3>7
        <5> QED
          BY <5>1
      <4> QED
        BY <3>2, <3>5, <4>1, <4>2
    <3> QED
      BY <3>6, <3>7
  <2>7. OneBinding
    BY <2>1 DEF ProcessInv, BindingsOK, OneBinding
  <2>8. EnvListsWhatItGets
    BY DEF EnvListsWhatItGets, EnvQuery, EnvGetter, EnvEnumerator
  <2> QED
    BY <2>4, <2>6, <2>7, <2>8 DEF ProcessSafe
<1> QED
  BY <1>1, <1>2, <1>3, PTL DEF ProcessSpec
=============================================================================
