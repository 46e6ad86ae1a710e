------------------------------- MODULE NodeTty -------------------------------
(***************************************************************************)
(* The console of node v0.4.4 on Windows: src/node_stdio_win32.cc and      *)
(* lib/tty_win32.js.  A wait thread of the system tells the loop, through  *)
(* ev_async_send, that the console has input; tty_poll then reads what is  *)
(* there and arms a new wait.  Callbacks of JavaScript may pause, resume   *)
(* or destroy the stream while tty_poll is on the stack.  One ReadStream   *)
(* is made and no other after it; the calls that read input succeed.      *)
(*                                                                         *)
(* A short of C has the values -ShortMax-1..ShortMax.  The screen is one   *)
(* line of Width cells.                                                    *)
(***************************************************************************)
EXTENDS Integers, Sequences, FiniteSets

CONSTANTS
    Width,      \* dwSize.X
    ShortMax,   \* the largest short
    MaxEvents,  \* bound: events of the console
    MaxRepeat,  \* the largest wRepeatCount
    MaxTurns    \* bound: calls of pause, resume and destroy, and calls that move or clear

ASSUME TtyAssumption ==
    /\ Width \in Nat \ {0} /\ ShortMax \in Nat /\ Width <= ShortMax
    /\ MaxEvents \in Nat /\ MaxRepeat \in Nat \ {0} /\ MaxTurns \in Nat

VARIABLES
    input,    \* the input of the console: its queue, and every event so far
    tty,      \* the watcher: tty_watcher_initialized, the async watcher, the wait handle
    poll,     \* tty_poll: on the stack, its i and j, and the event it handles
    seen,     \* the key events JavaScript was told of, in order; the ones cut short
    screen    \* the line, the cursor, the mode of the output

ttyVars == <<input, tty, poll, seen, screen>>

\* Names of keys: a key with a name or a character, one with neither.
ConsoleEvent ==
    [type : {"key"}, down : BOOLEAN, named : BOOLEAN, repeat : 1..MaxRepeat] \cup [type : {"resize"}]

NoPoll == [on |-> FALSE, i |-> 0, j |-> 0, at |-> 0, calling |-> FALSE]

\* JavaScript runs: another event of the loop, or a callback of tty_poll.
JsRuns == ~poll.on \/ poll.calling

\* initTTYWatcher, which the constructor of ReadStream calls.
InitTTYWatcher == [init |-> TRUE, active |-> FALSE, sent |-> FALSE, wait |-> "none", calls |-> 0, turns |-> 0]

TtyInit ==
    /\ input = [queue |-> <<>>, all |-> <<>>]
    /\ tty = InitTTYWatcher
    /\ poll = NoPoll
    /\ seen = [keys |-> <<>>, cut |-> {}]
    /\ screen = [cell |-> [x \in 0..(Width - 1) |-> "text"], x |-> 0, wrap |-> TRUE, asked |-> {}, ok |-> TRUE, from |-> 0,
                 was |-> [x \in 0..(Width - 1) |-> "text"]]

-----------------------------------------------------------------------------
(* The watcher. *)

\* The user types, or changes the window.
Typed(e) ==
    /\ Len(input.all) < MaxEvents
    /\ input' = [queue |-> Append(input.queue, Len(input.all) + 1), all |-> Append(input.all, e)]
    /\ UNCHANGED <<tty, poll, seen, screen>>

\* The wait thread sees input, once for each registration.
WaitThread ==
    /\ tty.wait = "armed" /\ input.queue # <<>>
    /\ tty' = [tty EXCEPT !.wait = "done", !.calls = @ + 1]
    /\ UNCHANGED <<input, poll, seen, screen>>

\* tty_want_poll, which may still run when its wait was unregistered.
tty_want_poll ==
    /\ tty.calls > 0
    /\ tty' = [tty EXCEPT !.calls = @ - 1, !.sent = TRUE]
    /\ UNCHANGED <<input, poll, seen, screen>>

tty_watcher_arm_Keeps(t) == [t EXCEPT !.wait = IF @ = "none" /\ t.active THEN "armed" ELSE @]

\* tty_watcher_arm: a new wait for an active watcher, and the old one dropped.
tty_watcher_arm(t) == [t EXCEPT !.wait = IF t.active THEN "armed" ELSE "none"]

tty_watcher_disarm(t) == [t EXCEPT !.wait = "none"]

\* tty_watcher_start; ev_async_start forgets what was sent before.
tty_watcher_start(t) == IF t.active THEN t ELSE tty_watcher_arm([t EXCEPT !.active = TRUE, !.sent = FALSE])

\* tty_watcher_stop
tty_watcher_stop(t) == IF t.active THEN [tty_watcher_disarm(t) EXCEPT !.active = FALSE] ELSE t

\* resume, pause and destroy, by a callback or by another event.
Turn(t) ==
    /\ tty.init /\ JsRuns /\ tty.turns < MaxTurns
    /\ tty' = [t EXCEPT !.turns = @ + 1]
    /\ UNCHANGED <<input, poll, seen, screen>>

StartTTYWatcher == ~tty.active /\ Turn(tty_watcher_start(tty))

StopTTYWatcher == tty.active /\ Turn(tty_watcher_stop(tty))

DestroyTTYWatcher == Turn([tty_watcher_stop(tty) EXCEPT !.init = FALSE])

-----------------------------------------------------------------------------
(* tty_poll *)

\* The loop calls tty_poll, which asks how many events there are.
tty_poll ==
    /\ tty.active /\ tty.sent /\ ~poll.on
    /\ tty' = [tty EXCEPT !.sent = FALSE]
    /\ poll' = [NoPoll EXCEPT !.on = TRUE, !.i = Len(input.queue)]
    /\ UNCHANGED <<input, seen, screen>>

\* A key that goes down and has a name or a character is told to JavaScript.
IsTold(e) == e.type = "key" /\ e.down /\ e.named

\* The next event is taken off the queue; the resize callback is called at once.
ReadConsoleInput ==
    /\ poll.on /\ ~poll.calling /\ poll.j = 0 /\ poll.i > 0 /\ tty.active /\ input.queue # <<>>
    /\ LET e == input.all[Head(input.queue)] IN
         poll' = [poll EXCEPT !.i = @ - 1, !.at = Head(input.queue), !.j = IF IsTold(e) THEN e.repeat ELSE 0,
                              !.calling = e.type = "resize"]
    /\ input' = [input EXCEPT !.queue = Tail(@)]
    /\ UNCHANGED <<tty, seen, screen>>

\* The keypress callback, at least once.
CallKeypress ==
    /\ poll.on /\ ~poll.calling /\ poll.j > 0
    /\ seen' = [seen EXCEPT !.keys = Append(@, poll.at)]
    /\ poll' = [poll EXCEPT !.j = @ - 1, !.calling = TRUE]
    /\ UNCHANGED <<input, tty, screen>>

\* It returns; the repeats that are left are told if the watcher is still active.
CallbackReturns ==
    /\ poll.calling
    /\ poll' = [poll EXCEPT !.calling = FALSE, !.j = IF tty.active THEN @ ELSE 0]
    /\ seen' = [seen EXCEPT !.cut = IF ~tty.active /\ poll.j > 0 THEN @ \cup {poll.at} ELSE @]
    /\ UNCHANGED <<input, tty, screen>>

\* The end of tty_poll: the watcher is armed again.
RearmWatcher ==
    /\ poll.on /\ ~poll.calling /\ poll.j = 0 /\ (poll.i = 0 \/ ~tty.active)
    /\ tty' = tty_watcher_arm(tty)
    /\ poll' = NoPoll
    /\ UNCHANGED <<input, seen, screen>>

-----------------------------------------------------------------------------
(* The screen. *)

\* A conversion to short.
Short(n) == ((n + ShortMax + 1) % (2 * ShortMax + 2)) - ShortMax - 1

InLine(x) == LET y == IF x >= Width THEN Width - 1 ELSE x IN IF y < 0 THEN 0 ELSE y

\* moveCursor and cursorTo
SetCursor(relative, dx) == InLine(Short(IF relative THEN screen.x + Short(dx) ELSE dx))

Draws(s) ==
    /\ JsRuns /\ tty.turns < MaxTurns
    /\ tty' = [tty EXCEPT !.turns = @ + 1]
    /\ screen' = s
    /\ UNCHANGED <<input, poll, seen>>

MoveCursor ==
    \E relative \in BOOLEAN, dx \in -(2 * ShortMax)..(2 * ShortMax) :
        Draws([screen EXCEPT !.x = SetCursor(relative, dx), !.asked = {}])

\* The cells clearLine writes blanks to: count of them, from x1.
ClearLine(dir) ==
    LET x1 == IF dir <= 0 THEN 0 ELSE screen.x
        x2 == IF dir >= 0 THEN Width - 1 ELSE screen.x
    IN  {x \in DOMAIN screen.cell : x1 <= x /\ x <= x2}

Blanked(cells) == [x \in DOMAIN screen.cell |-> IF x \in cells THEN "blank" ELSE screen.cell[x]]

\* The cells the direction stands for.
Asked(dir) == {x \in DOMAIN screen.cell : dir = 0 \/ (dir < 0 /\ x <= screen.x) \/ (dir > 0 /\ x >= screen.x)}

\* clearLine.  Each call of the console may fail and ends it: before or after the
\* cursor is moved to x1, with wrapping switched off, or with the cells blank.
ClearLineCall(dir) ==
    LET x1 == IF dir <= 0 THEN 0 ELSE screen.x
        s == [screen EXCEPT !.asked = Asked(dir), !.from = screen.x, !.was = screen.cell, !.ok = FALSE]
    IN  \/ Draws(s)
        \/ Draws([s EXCEPT !.x = x1])
        \/ Draws([s EXCEPT !.x = x1, !.wrap = FALSE])
        \/ Draws([s EXCEPT !.cell = Blanked(ClearLine(dir)), !.wrap = FALSE])
        \/ Draws([s EXCEPT !.cell = Blanked(ClearLine(dir)), !.ok = TRUE])

-----------------------------------------------------------------------------
TtyNext ==
    \/ \E e \in ConsoleEvent : Typed(e)
    \/ WaitThread \/ tty_want_poll
    \/ StartTTYWatcher \/ StopTTYWatcher \/ DestroyTTYWatcher
    \/ tty_poll \/ ReadConsoleInput \/ CallKeypress \/ CallbackReturns \/ RearmWatcher
    \/ MoveCursor
    \/ \E dir \in {-1, 0, 1} : ClearLineCall(dir)

TtySpec == TtyInit /\ [][TtyNext]_ttyVars

-----------------------------------------------------------------------------
(* Properties. *)

Times(s, k) == {n \in DOMAIN s : s[n] = k}

\* Types; no cursor is outside the line, whatever it was asked to be.
TtyTypeOK ==
    /\ tty.wait \in {"none", "armed", "done"} /\ tty.calls \in Nat
    /\ poll.i \in Nat /\ poll.j \in 0..MaxRepeat
    /\ screen.x \in 0..(Width - 1)

\* tty_poll never waits for input that is not there, with the loop standing still:
\* whatever its callbacks do, the events it has counted are in the queue.
ReadHasInput == poll.on => poll.i <= Len(input.queue)

\* Keys are told in the order they were typed, each as often as it was repeated
\* unless the application stopped the stream during that key; a stream that is
\* paused and resumed in a callback loses none.
KeysInOrder ==
    /\ \A m, n \in DOMAIN seen.keys : m < n => seen.keys[m] <= seen.keys[n]
    /\ \A k \in DOMAIN input.all :
         LET e == input.all[k]
             told == Times(seen.keys, k)
             queued == \E n \in DOMAIN input.queue : input.queue[n] = k
         IN  queued \/ (poll.on /\ poll.at = k) \/ k \in seen.cut
               \/ Cardinality(told) = (IF IsTold(e) THEN e.repeat ELSE 0)

\* A watcher that is active, with tty_poll not on the stack, will hear of input: its
\* wait is armed, or the wait thread is about to tell, or has told.
WatcherIsArmed == tty.active /\ ~poll.on => tty.wait = "armed" \/ tty.calls > 0 \/ tty.sent

\* clearLine writes to no cell it was not asked to clear, even if it fails; when it
\* succeeds those cells are blank and the cursor is where it was.
ClearsItsPart ==
    screen.asked # {} =>
        /\ screen.ok => screen.x = screen.from /\ \A x \in screen.asked : screen.cell[x] = "blank"
        /\ \A x \in DOMAIN screen.cell \ screen.asked : screen.cell[x] = screen.was[x]

\* Input is read as long as the stream is not paused or destroyed.
KeysAreRead == (tty.active /\ input.queue # <<>>) ~> (~tty.active \/ input.queue = <<>>)

\* The Windows console: the loop never blocks on input, keys are told in order, and an active
\* watcher hears of input, whatever the callbacks do.
TtySafe ==
    /\ TtyTypeOK
    /\ ReadHasInput
    /\ KeysInOrder
    /\ WatcherIsArmed
    /\ ClearsItsPart
=============================================================================
