------------------------------ MODULE NodeLoop ------------------------------
(***************************************************************************)
(* The event loop of node.cc: the watchers that Start sets up around       *)
(* ev_loop, process.nextTick, the polling for the results of the thread    *)
(* pool, the watchers of the garbage collector, and the end of the         *)
(* process.                                                                *)
(*                                                                         *)
(* libev and libeio are external.  The loop of libev: prepare watchers;    *)
(* wait; then the check watchers and after them the events that were       *)
(* found, idle watchers only when nothing else was; over again while a     *)
(* watcher holds a reference.  libeio: a pool whose threads put results    *)
(* into res_queue and want a poll when it was empty, and an eio_poll of at *)
(* most MaxPoll results that says when it has emptied the queue.           *)
(***************************************************************************)
EXTENDS Naturals, Sequences, FiniteSets

CONSTANTS
    MaxTicks,   \* bound: calls of process.nextTick
    MaxReqs,    \* bound: requests to the thread pool
    MaxPoll     \* eio_set_max_poll_reqs (10 in Start)

ASSUME LoopAssumption == MaxTicks \in Nat /\ MaxReqs \in Nat /\ MaxPoll \in Nat \ {0}

VARIABLES
    loopMain,       \* where the main thread is
    loop,       \* the loop and the watchers of node.cc
    nextTickQueue,  \* of node.js
    ticks,      \* nextTick calls so far, and the callbacks that ran, in order
    loopEio,        \* requests executing, their results in the queue, requests answered
    listening   \* process has an uncaughtException listener

loopVars == <<loopMain, loop, nextTickQueue, ticks, loopEio, listening>>

-----------------------------------------------------------------------------
(* libev                                                                   *)

IdleWatcher == {"tick_spinner", "eio_poller", "gc_idle"}

EvStart(l, w) ==
    IF w \in l.active THEN l ELSE [l EXCEPT !.active = @ \union {w}, !.refs = @ + 1]

EvStop(l, w) ==
    IF w \in l.active
    THEN [l EXCEPT !.active = @ \ {w}, !.refs = @ - 1, !.events = @ \ {w}] ELSE l

\* ev_async_send: a second one before the loop sees the first is the same.
EvAsyncSend(l, w) == [l EXCEPT !.sent = @ \union {w}]

-----------------------------------------------------------------------------
\* Start up to the call of Load.  Its watchers are started and unreferenced at once, so
\* that none of them keeps the loop alive.
LoopInit ==
    /\ loopMain = [at |-> "load", then |-> "prepare", left |-> 0]
    /\ loop = [active |-> {}, refs |-> 0, sent |-> {}, events |-> {},
               need_tick_cb |-> FALSE, code |-> 0]
    /\ nextTickQueue = <<>>
    /\ ticks = [asked |-> 0, ran |-> <<>>]
    /\ loopEio = [asked |-> 0, executing |-> {}, res_queue |-> <<>>, answered |-> {}]
    /\ listening \in BOOLEAN

\* Where the main thread is: executing the script, before or in the wait of libev,
\* executing events, in the callbacks of a tick or in eio_poll, or gone.
LoopTypeOK ==
    /\ loopMain.at \in {"load", "prepare", "wait", "events", "tick", "eio_poll", "exited"}
    /\ loopMain.left \in 0..MaxPoll + MaxTicks
    /\ loop.active \subseteq IdleWatcher \union {"gc_timer"}
    /\ loop.events \subseteq IdleWatcher \union {"gc_timer", "want", "done"}
    /\ loop.refs \in Nat

-----------------------------------------------------------------------------
(* process.nextTick                                                        *)

\* process._needTickCallback
NeedTickCallback(l) == EvStart([l EXCEPT !.need_tick_cb = TRUE], "tick_spinner")

\* What a callback in JavaScript may do: n calls of nextTick and a request to the pool,
\* which holds a reference.  q, l and e are the queue, the loop and the pool before.
Calls(n, submits, q, l, e) ==
    LET ticked == IF n > 0 THEN NeedTickCallback(l) ELSE l IN
    /\ ticks.asked + n <= MaxTicks
    /\ submits => e.asked < MaxReqs
    /\ nextTickQueue' = q \o [i \in 1..n |-> ticks.asked + i]
    /\ loop' = IF submits THEN [ticked EXCEPT !.refs = @ + 1] ELSE ticked
    /\ loopEio' = IF submits
              THEN [e EXCEPT !.asked = @ + 1, !.executing = @ \union {e.asked + 1}] ELSE e

\* An exception no callback caught: the listeners of uncaughtException get it, and an
\* exception of theirs is dropped; without one the process ends.
FatalException(l) == IF listening THEN l ELSE [l EXCEPT !.code = 1]

\* The main thread goes to m unless the process ended.
Goes(m) == loopMain' = IF loop'.code = 0 THEN m ELSE [m EXCEPT !.at = "exited"]

\* Load: node.js runs, which no listener hears fail, and Start turns the poller on.
Load ==
    /\ loopMain.at = "load"
    /\ \E n \in 0..2, submits, throws \in BOOLEAN :
         /\ Calls(n, submits, nextTickQueue,
                  IF throws THEN [loop EXCEPT !.code = 11] ELSE EvStart(loop, "eio_poller"), loopEio)
         /\ ticks' = [ticks EXCEPT !.asked = @ + n]
    /\ Goes([loopMain EXCEPT !.at = "prepare"])
    /\ UNCHANGED listening

\* Tick, from PrepareTick or CheckTick: goes on to then.
Tick(l, then) ==
    IF l.need_tick_cb
    THEN /\ loop' = EvStop([l EXCEPT !.need_tick_cb = FALSE], "tick_spinner")
         /\ loopMain' = [at |-> "tick", then |-> then, left |-> Len(nextTickQueue)]
    ELSE loop' = l /\ loopMain' = [loopMain EXCEPT !.at = then]

PrepareTick ==
    /\ loopMain.at = "prepare"
    /\ Tick(loop, "wait")
    /\ UNCHANGED <<nextTickQueue, ticks, loopEio, listening>>

\* After an exception _tickCallback asks for another tick if callbacks are left.
RestOfTicks(l, left) == IF left > 0 THEN NeedTickCallback(l) ELSE l

\* splice: the callbacks that ran leave the queue, the one that threw as well.
AfterCallback(q, throws) == Tail(q)

\* One callback of process._tickCallback.  The queue is cut only at the end; here it is
\* cut as its callbacks run, which nothing can tell apart.
TickCallback ==
    /\ loopMain.at = "tick" /\ loopMain.left > 0
    /\ \E n \in 0..1, submits, throws \in BOOLEAN :
         LET left == loopMain.left - 1
             l == IF throws THEN FatalException(RestOfTicks(loop, left)) ELSE loop IN
         /\ Calls(n, submits, AfterCallback(nextTickQueue, throws), l, loopEio)
         /\ ticks' = [asked |-> ticks.asked + n, ran |-> Append(ticks.ran, Head(nextTickQueue))]
         /\ Goes(IF throws THEN [loopMain EXCEPT !.left = 0] ELSE [loopMain EXCEPT !.left = left])
    /\ UNCHANGED listening

TickEnds ==
    /\ loopMain.at = "tick" /\ loopMain.left = 0
    /\ loopMain' = [loopMain EXCEPT !.at = loopMain.then]
    /\ UNCHANGED <<loop, nextTickQueue, ticks, loopEio, listening>>

-----------------------------------------------------------------------------
(* The thread pool                                                         *)

\* EIOWantPoll, called by the pool.
EIOWantPoll(l) == EvAsyncSend(l, "want")

\* EIODonePoll, called by eio_poll.
EIODonePoll(l) == EvAsyncSend(l, "done")

\* A thread of the pool finishes request r.
LoopExecute(r) ==
    /\ loopMain.at # "exited"
    /\ r \in loopEio.executing
    /\ loopEio' = [loopEio EXCEPT !.executing = @ \ {r}, !.res_queue = Append(@, r)]
    /\ loop' = IF loopEio.res_queue = <<>> THEN EIOWantPoll(loop) ELSE loop
    /\ UNCHANGED <<loopMain, nextTickQueue, ticks, listening>>

\* An event that calls eio_poll is taken: the main thread polls and comes back.
BeginPoll(e) ==
    /\ loopMain.at = "events" /\ e \in loop.events
    /\ loop' = [loop EXCEPT !.events = @ \ {e}]
    /\ loopMain' = [at |-> "eio_poll", then |-> e, left |-> MaxPoll]
    /\ UNCHANGED <<nextTickQueue, ticks, loopEio, listening>>

\* One result: its request ends, dropping its reference, and its callback runs.
EioFinish ==
    /\ loopMain.at = "eio_poll" /\ loopMain.left > 0 /\ loopEio.res_queue # <<>>
    /\ \E n \in 0..1, submits, throws \in BOOLEAN :
         LET rest == Tail(loopEio.res_queue)
             told == IF rest = <<>> THEN EIODonePoll(loop) ELSE loop
             l == [told EXCEPT !.refs = @ - 1] IN
         /\ Calls(n, submits, nextTickQueue, IF throws THEN FatalException(l) ELSE l,
                  [loopEio EXCEPT !.res_queue = rest, !.answered = @ \union {Head(loopEio.res_queue)}])
         /\ ticks' = [ticks EXCEPT !.asked = @ + n]
         /\ Goes([loopMain EXCEPT !.left = @ - 1])
    /\ UNCHANGED listening

\* Mutant: the rest is left to the next request that wants a poll.
WantPollNotifier_OncePerWant(l, more) == l

WantPollNotifier(l, more) == IF more THEN EvStart(l, "eio_poller") ELSE l

DonePollNotifier(l, more) == IF more THEN l ELSE EvStop(l, "eio_poller")

DoPoll(l, more) == IF more THEN l ELSE EvStop(l, "eio_poller")

\* eio_poll returns: 0 when it found no result (more is FALSE), -1 when it made MaxPoll.
EioPollReturns ==
    LET more == loopMain.left = 0 IN
    /\ loopMain.at = "eio_poll" /\ (more \/ loopEio.res_queue = <<>>)
    /\ loop' = CASE loopMain.then = "want" -> WantPollNotifier(loop, more)
                 [] loopMain.then = "done" -> DonePollNotifier(loop, more)
                 [] OTHER -> DoPoll(loop, more)
    /\ loopMain' = [at |-> "events", then |-> "events", left |-> 0]
    /\ UNCHANGED <<nextTickQueue, ticks, loopEio, listening>>

-----------------------------------------------------------------------------
(* The garbage collector.  Whether the last ticks were slow, the heap is   *)
(* large, or V8 has finished, is any outcome; the ring of tick times is    *)
(* read at a negative index until it has gone round once.                  *)

StartGCTimer(l) ==
    IF "gc_timer" \in l.active THEN l
    ELSE [EvStart(l, "gc_timer") EXCEPT !.refs = @ - 1]

StopGCTimer(l) ==
    IF "gc_timer" \in l.active
    THEN EvStop([l EXCEPT !.refs = @ + 1], "gc_timer") ELSE l

Check(l, slow) ==
    IF slow THEN EvStart(StartGCTimer(l), "gc_idle") ELSE StartGCTimer(l)

LoopIdle ==
    /\ loopMain.at = "events" /\ "gc_idle" \in loop.events
    /\ \E finished \in BOOLEAN :
         LET l == [loop EXCEPT !.events = @ \ {"gc_idle"}] IN
         loop' = IF finished THEN StopGCTimer(EvStop(l, "gc_idle")) ELSE l
    /\ UNCHANGED <<loopMain, nextTickQueue, ticks, loopEio, listening>>

CheckStatus ==
    /\ loopMain.at = "events" /\ "gc_timer" \in loop.events
    /\ \E collect \in BOOLEAN :
         LET l == [loop EXCEPT !.events = @ \ {"gc_timer"}] IN
         loop' = IF collect THEN EvStart(l, "gc_idle") ELSE l
    /\ UNCHANGED <<loopMain, nextTickQueue, ticks, loopEio, listening>>

-----------------------------------------------------------------------------
\* libev waits, unless an idle watcher is active or nothing holds the loop; the check
\* watchers come first, so CheckTick may go to the callbacks of a tick before the events.
Wait(timers) ==
    /\ loopMain.at = "wait" /\ timers \subseteq loop.active
    /\ \E slow \in BOOLEAN :
         LET found == loop.sent \union timers
             idle == loop.active \intersect IdleWatcher
             l == [loop EXCEPT !.sent = {}, !.events = IF found = {} THEN idle ELSE found] IN
         /\ found # {} \/ idle # {} \/ loop.refs = 0
         /\ Tick(Check(l, slow), "events")
    /\ UNCHANGED <<nextTickQueue, ticks, loopEio, listening>>

\* The end of an iteration, and of ev_loop when no reference is left.  Start then emits
\* 'exit', whose listener may throw.
Iterate ==
    /\ loopMain.at = "events" /\ loop.events = {}
    /\ \/ loop.refs # 0 /\ loopMain' = [loopMain EXCEPT !.at = "prepare"] /\ loop' = loop
       \/ /\ loop.refs = 0 /\ loopMain' = [loopMain EXCEPT !.at = "exited"]
          /\ \E throws \in BOOLEAN : loop' = IF throws THEN FatalException(loop) ELSE loop
    /\ UNCHANGED <<nextTickQueue, ticks, loopEio, listening>>

\* Spin, the callback of tick_spinner, does nothing; the tick of the check watcher stops
\* it before it is called.
MainNext ==
    \/ Load \/ PrepareTick \/ TickCallback \/ TickEnds
    \/ \E e \in {"want", "done", "eio_poller"} : BeginPoll(e)
    \/ EioFinish \/ EioPollReturns
    \/ LoopIdle \/ CheckStatus \/ Wait({}) \/ Wait({"gc_timer"}) \/ Iterate

LoopNext == MainNext \/ \E r \in 1..MaxReqs : LoopExecute(r)

LoopSpec == LoopInit /\ [][LoopNext]_loopVars

-----------------------------------------------------------------------------
(* Properties                                                              *)

\* A callback that waits for the next tick has asked for it and keeps the loop alive,
\* also after an exception of an earlier callback of the same tick.
TicksAreDue ==
    loopMain.at \notin {"tick", "exited"} /\ nextTickQueue # <<>>
        => loop.need_tick_cb /\ "tick_spinner" \in loop.active

\* Callbacks of nextTick run once each and in the order of the calls, exceptions or not.
TicksInOrder == ticks.ran \o nextTickQueue = [i \in 1..ticks.asked |-> i]

\* A result in the queue is seen: someone wants a poll, polls, or the poller is on.
ResultsAreSeen ==
    loopEio.res_queue # <<>> /\ loopMain.at \notin {"load", "exited"}
        => \/ "want" \in loop.sent \union loop.events
           \/ loopMain.at = "eio_poll"
           \/ "eio_poller" \in loop.active

\* The references are those of the requests and of the active idle watchers: the timer of
\* the garbage collector holds none, so it neither keeps the loop alive nor ends it early.
RefsBalanced ==
    loop.refs = loopEio.asked - Cardinality(loopEio.answered)
                + Cardinality(loop.active \intersect IdleWatcher)

\* The loop ends by itself only when every request is answered and every tick ran.
EndsWhenDone ==
    loopMain.at = "exited" /\ loop.code = 0
        => nextTickQueue = <<>> /\ Cardinality(loopEio.answered) = loopEio.asked

\* Every request is answered and every tick runs, unless an exception ends the process.
LoopGoesOn ==
    /\ \A r \in 1..MaxReqs : loopEio.asked >= r ~> r \in loopEio.answered \/ loop.code # 0
    /\ \A i \in 1..MaxTicks : ticks.asked >= i ~> Len(ticks.ran) >= i \/ loop.code # 0

\* The event loop: nothing that was asked for is forgotten while it sleeps, exceptions or
\* not, and it ends by itself only when nothing is left to do.
LoopSafe ==
    /\ LoopTypeOK
    /\ TicksAreDue
    /\ TicksInOrder
    /\ ResultsAreSeen
    /\ RefsBalanced
    /\ EndsWhenDone
=============================================================================
