---------------------------- MODULE NodeWatchers ----------------------------
(***************************************************************************)
(* The watcher objects of node_timer.cc, node_io_watcher.cc,               *)
(* node_idle_watcher.cc, node_signal_watcher.cc and node_stat_watcher.cc,  *)
(* and the ObjectWrap they all are: a count of the reasons to keep the     *)
(* object (refs_), which V8 collects once the count is zero and JavaScript *)
(* has dropped it, and the reference an active watcher holds on the loop.  *)
(*                                                                         *)
(* Timers are used as lib/timers.js and lib/dns.js use them.  libev is     *)
(* external: an event makes a watcher pending, a timer that does not       *)
(* repeat is stopped by that, and its callback runs later in the same      *)
(* iteration, after the callbacks of other watchers.                       *)
(***************************************************************************)
EXTENDS Naturals

CONSTANT Watcher        \* the watcher objects

VARIABLES
    watcher,    \* the objects
    calling     \* the watcher whose callback is on the stack, or NoWatcher

watcherVars == <<watcher, calling>>

-----------------------------------------------------------------------------
NoWatcher == "none"

ASSUME WatcherAssumption == NoWatcher \notin Watcher

\* A Timer for setTimeout(f, 0), for setInterval, for the lists of idle timeouts and for
\* the requests of dns.js; and the other classes.
Timer == {"timeout", "interval", "list", "dns"}

WatcherKind == Timer \union {"io", "idle", "signal", "stat"}

\* A constructor and Wrap: the handle is weak, nothing is started.
WatcherWrapped(kind) ==
    [kind |-> kind, active |-> FALSE, pending |-> FALSE, lost |-> FALSE, repeat |-> FALSE,
     loop |-> 0, refs_ |-> 0, callback |-> TRUE, held |-> TRUE, persistent_ |-> FALSE,
     path_ |-> FALSE]

TimerObject(kind) == [WatcherWrapped(kind) EXCEPT !.repeat = TRUE]

IOWatcherObject == WatcherWrapped("io")

IdleWatcherObject == WatcherWrapped("idle")

SignalWatcherObject == WatcherWrapped("signal")

\* Without listeners a StatWatcher has nobody to call and goes on all the same.
StatWatcherObject == [WatcherWrapped("stat") EXCEPT !.persistent_ = FALSE, !.path_ = FALSE]

NoObject == [kind |-> NoWatcher, active |-> FALSE, pending |-> FALSE, lost |-> FALSE, refs_ |-> 0]

WatchersInit ==
    /\ watcher = [w \in Watcher |-> NoObject]
    /\ calling = NoWatcher

\* refs_ never falls below zero, which Unref asserts.
WatchersTypeOK ==
    /\ \A w \in Watcher : watcher[w].kind \in WatcherKind \union {NoWatcher}
    /\ \A w \in Watcher : watcher[w].refs_ \in 0..2
    /\ calling \in Watcher \union {NoWatcher}

-----------------------------------------------------------------------------
(* ObjectWrap and libev                                                    *)

Ref(o) == [o EXCEPT !.refs_ = @ + 1]

Unref(o) == [o EXCEPT !.refs_ = @ - 1]

EvWatcherStart(o) == [o EXCEPT !.active = TRUE, !.loop = @ + 1]

EvWatcherStop(o) == [o EXCEPT !.active = FALSE, !.pending = FALSE, !.loop = @ - 1]

\* JavaScript may use an object it holds, or the one whose callback it is in.
Uses(w) == watcher[w].kind # NoWatcher /\ (watcher[w].held \/ calling = w)

Sets(w, o) == watcher' = [watcher EXCEPT ![w] = o] /\ UNCHANGED calling

Creates(w, o) == watcher[w].kind = NoWatcher /\ Sets(w, o)

\* An event of w is delivered: the callback is on the stack, or, without a function, the
\* watcher is stopped.
WatcherCalled(w, o, stopped) ==
    IF o.callback
    THEN watcher' = [watcher EXCEPT ![w] = o] /\ calling' = w
    ELSE Sets(w, stopped)

\* The event of w that libev is about to deliver.
Due(w) == watcher[w].pending \/ watcher[w].lost

Delivers(w, kinds) == calling = NoWatcher /\ Due(w) /\ watcher[w].kind \in kinds

Delivered(w) == [watcher[w] EXCEPT !.pending = FALSE, !.lost = FALSE]

-----------------------------------------------------------------------------
(* Timer                                                                   *)

\* Mutant: a timer is not counted while its event is pending.
TimerStart_NotPending(o, repeat) ==
    LET inited == [o EXCEPT !.repeat = repeat, !.pending = FALSE, !.lost = @ \/ o.pending] IN
    IF o.pending THEN EvWatcherStart(inited) ELSE Ref(EvWatcherStart(inited))

\* Timer::Start.  ev_timer_init forgets that an event is pending, which then cannot be
\* cancelled any more.  The lib never starts a timer that is active.
TimerStart(o, repeat) ==
    LET inited == [o EXCEPT !.repeat = repeat, !.pending = FALSE, !.lost = @ \/ o.pending] IN
    Ref(EvWatcherStart(inited))

\* Timer::Stop: nothing for a timer that libev has stopped, though its event is pending.
TimerStop(o) == IF o.active THEN Unref(EvWatcherStop(o)) ELSE o

\* Timer::Again with a positive argument, as lib/timers.js calls it: the timer repeats,
\* and ev_timer_again starts it unless it is active.
TimerAgain(o) ==
    LET again == [o EXCEPT !.repeat = TRUE] IN
    IF o.active THEN again ELSE Ref(EvWatcherStart(again))

NewTimer(w) == \E kind \in Timer : Creates(w, TimerObject(kind))

\* setTimeout and setInterval start a new timer; the timer of dns.js is stopped and
\* started over.
TimerStarts(w) ==
    /\ Uses(w)
    /\ LET o == watcher[w] IN
       \/ o.kind \in {"timeout", "interval"} /\ o.refs_ = 0 /\ o.callback
          /\ Sets(w, TimerStart(o, o.kind = "interval"))
       \/ o.kind = "dns" /\ Sets(w, TimerStart(TimerStop(o), FALSE))

\* A list of idle timeouts is started when its first item comes.
TimerAgains(w) == Uses(w) /\ watcher[w].kind = "list" /\ Sets(w, TimerAgain(watcher[w]))

TimerStops(w) == Uses(w) /\ watcher[w].kind \in Timer /\ Sets(w, TimerStop(watcher[w]))

\* clearTimeout and clearInterval: the callback is removed and the timer stopped.
ClearTimeout(w) ==
    /\ Uses(w) /\ watcher[w].kind \in {"timeout", "interval"}
    /\ Sets(w, TimerStop([watcher[w] EXCEPT !.callback = FALSE]))

OnTimeout(w) == Delivers(w, Timer) /\ WatcherCalled(w, Delivered(w), TimerStop(Delivered(w)))

\* The end of OnTimeout: a timer that does not repeat is given up.
OnTimeoutReturns(w) ==
    /\ calling = w /\ watcher[w].kind \in Timer
    /\ watcher' = [watcher EXCEPT ![w] = IF watcher[w].repeat THEN watcher[w] ELSE Unref(watcher[w])]
    /\ calling' = NoWatcher

TimerNext(w) ==
    \/ NewTimer(w) \/ TimerStarts(w) \/ TimerAgains(w) \/ TimerStops(w) \/ ClearTimeout(w)
    \/ OnTimeout(w) \/ OnTimeoutReturns(w)

-----------------------------------------------------------------------------
(* IOWatcher                                                               *)

IOStart(o) == IF o.active THEN o ELSE Ref(EvWatcherStart(o))

IOStop(o) == IF o.active THEN Unref(EvWatcherStop(o)) ELSE o

NewIOWatcher(w) == Creates(w, IOWatcherObject)

IOStarts(w) == Uses(w) /\ watcher[w].kind = "io" /\ Sets(w, IOStart(watcher[w]))

\* stop alone, and stop of a watcher that returns to the free list without a callback.
IOStops(w) ==
    /\ Uses(w) /\ watcher[w].kind = "io"
    /\ \E callback \in BOOLEAN : Sets(w, IOStop([watcher[w] EXCEPT !.callback = callback]))

IOCallback(w) == Delivers(w, {"io"}) /\ WatcherCalled(w, Delivered(w), IOStop(Delivered(w)))

IOWatcherNext(w) == NewIOWatcher(w) \/ IOStarts(w) \/ IOStops(w) \/ IOCallback(w)

-----------------------------------------------------------------------------
(* IdleWatcher                                                             *)

IdleStart(o) == IF o.active THEN o ELSE Ref(EvWatcherStart(o))

IdleStop(o) == IF o.active THEN Unref(EvWatcherStop(o)) ELSE o

NewIdleWatcher(w) == Creates(w, IdleWatcherObject)

IdleStarts(w) == Uses(w) /\ watcher[w].kind = "idle" /\ Sets(w, IdleStart(watcher[w]))

IdleStops(w) ==
    /\ Uses(w) /\ watcher[w].kind = "idle"
    /\ \E callback \in BOOLEAN : Sets(w, IdleStop([watcher[w] EXCEPT !.callback = callback]))

IdleCallback(w) == Delivers(w, {"idle"}) /\ WatcherCalled(w, Delivered(w), IdleStop(Delivered(w)))

IdleWatcherNext(w) == NewIdleWatcher(w) \/ IdleStarts(w) \/ IdleStops(w) \/ IdleCallback(w)

-----------------------------------------------------------------------------
(* SignalWatcher: the loop does not wait for signals.                      *)

SignalStart(o) ==
    IF o.active THEN o ELSE Ref([EvWatcherStart(o) EXCEPT !.loop = @ - 1])

SignalStop(o) ==
    IF o.active THEN Unref(EvWatcherStop([o EXCEPT !.loop = @ + 1])) ELSE o

NewSignalWatcher(w) == Creates(w, SignalWatcherObject)

SignalStarts(w) == Uses(w) /\ watcher[w].kind = "signal" /\ Sets(w, SignalStart(watcher[w]))

SignalStops(w) == Uses(w) /\ watcher[w].kind = "signal" /\ Sets(w, SignalStop(watcher[w]))

SignalCallback(w) ==
    Delivers(w, {"signal"}) /\ WatcherCalled(w, Delivered(w), SignalStop(Delivered(w)))

SignalWatcherNext(w) ==
    NewSignalWatcher(w) \/ SignalStarts(w) \/ SignalStops(w) \/ SignalCallback(w)

-----------------------------------------------------------------------------
(* StatWatcher                                                             *)

\* path_ is asserted to be NULL; fs.watchFile starts a new object.
StatStart(o, persistent) ==
    LET started == EvWatcherStart([o EXCEPT !.path_ = TRUE, !.persistent_ = persistent]) IN
    Ref(IF persistent THEN started ELSE [started EXCEPT !.loop = @ - 1])

StatStop(o) ==
    IF o.active
    THEN Unref([EvWatcherStop(IF o.persistent_ THEN o ELSE [o EXCEPT !.loop = @ + 1])
                   EXCEPT !.path_ = FALSE])
    ELSE o

NewStatWatcher(w) == Creates(w, StatWatcherObject)

StatStarts(w) ==
    /\ Uses(w) /\ watcher[w].kind = "stat" /\ ~watcher[w].path_
    /\ \E persistent \in BOOLEAN : Sets(w, StatStart(watcher[w], persistent))

StatStops(w) == Uses(w) /\ watcher[w].kind = "stat" /\ Sets(w, StatStop(watcher[w]))

\* Callback emits 'change' to whoever listens.
StatCallback(w) ==
    /\ Delivers(w, {"stat"})
    /\ watcher' = [watcher EXCEPT ![w] = Delivered(w)] /\ calling' = w

StatWatcherNext(w) == NewStatWatcher(w) \/ StatStarts(w) \/ StatStops(w) \/ StatCallback(w)

-----------------------------------------------------------------------------
(* Events and the garbage collector                                        *)

\* libev finds events; a timer that does not repeat is no longer active.
Fire ==
    /\ calling = NoWatcher /\ \A w \in Watcher : ~Due(w)
    /\ \E ws \in SUBSET {w \in Watcher : watcher[w].active} :
         watcher' = [w \in Watcher |->
            LET o == watcher[w] IN
            IF w \notin ws THEN o
            ELSE IF o.kind \in Timer /\ ~o.repeat
            THEN [EvWatcherStop(o) EXCEPT !.pending = TRUE]
            ELSE [o EXCEPT !.pending = TRUE]]
    /\ UNCHANGED calling

\* The callback of a watcher that is not a timer returns.
Return(w) ==
    /\ calling = w /\ watcher[w].kind \notin Timer
    /\ calling' = NoWatcher
    /\ UNCHANGED watcher

\* JavaScript drops its last reference.
Drop(w) == Uses(w) /\ watcher[w].held /\ Sets(w, [watcher[w] EXCEPT !.held = FALSE])

\* WeakCallback and the destructors.
Collect(w) ==
    LET o == watcher[w] IN
    /\ o.kind # NoWatcher /\ ~o.held /\ o.refs_ = 0 /\ calling # w
    /\ Sets(w, NoObject)

WatchersNext ==
    \/ Fire
    \/ \E w \in Watcher :
        \/ TimerNext(w) \/ IOWatcherNext(w) \/ IdleWatcherNext(w) \/ SignalWatcherNext(w)
        \/ StatWatcherNext(w) \/ Return(w) \/ Drop(w) \/ Collect(w)

WatchersSpec == WatchersInit /\ [][WatchersNext]_watcherVars

-----------------------------------------------------------------------------
(* Properties                                                              *)

\* An object libev may still call back is kept: it has a reference, so V8 does not free
\* it while it is active or its event is pending.
AttachedIsKept ==
    \A w \in Watcher : watcher[w].active \/ Due(w) => watcher[w].refs_ > 0

\* The loop is held by exactly the active watchers that should hold it: not by signals
\* and not by files watched without persistent.
HoldsLoopWhileActive ==
    \A w \in Watcher :
        LET o == watcher[w] IN
        o.kind # NoWatcher =>
            o.loop = IF o.active /\ o.kind # "signal" /\ (o.kind = "stat" => o.persistent_)
                     THEN 1 ELSE 0

\* A watcher of a kind other than a timer that does not repeat is counted once while it
\* is active and not at all otherwise, so it can be collected.
CountedOnce ==
    \A w \in Watcher :
        watcher[w].kind \in {"interval", "list", "io", "idle", "signal", "stat"} =>
            watcher[w].refs_ = IF watcher[w].active THEN 1 ELSE 0

\* Watcher objects: one that libev still uses is not collected, and it counts for the loop
\* exactly while it is active.
WatchersSafe ==
    /\ WatchersTypeOK
    /\ AttachedIsKept
    /\ HoldsLoopWhileActive
    /\ CountedOnce
=============================================================================
