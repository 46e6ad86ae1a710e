--------------------------- MODULE NodeChildWin32 ---------------------------
(***************************************************************************)
(* Child processes of node v0.4.4 on Windows                               *)
(* (src/node_child_process_win32.cc).  Three kinds of threads take part:   *)
(* the main thread (Spawn, Kill, notify_exit, after_spawn), a thread of    *)
(* the eio pool per spawn (do_spawn), and the thread of the system that    *)
(* waits for processes (watch_wait_callback).  They share a critical       *)
(* section per child and one semaphore, which also guards the one slot     *)
(* through which all ends are reported to the main thread.                 *)
(***************************************************************************)
EXTENDS Naturals, FiniteSets, Sequences, SequencesExt

CONSTANTS
    Kid,       \* the children that may be spawned
    Command,   \* what a child may be told to run
    Argument   \* the arguments it may get: sequences of characters

ASSUME Win32Assumption ==
    /\ IsFiniteSet(Kid)
    /\ \A cmd \in Command : /\ cmd.dir \in BOOLEAN /\ cmd.ext \in BOOLEAN
                            /\ cmd.path \in Seq(STRING) /\ cmd.exts \in Seq(STRING)
    /\ Argument \subseteq Seq(STRING)

VARIABLES
    kid,      \* the ChildProcess objects
    win32Eio,      \* where do_spawn is for each child
    waiter,   \* the system's wait thread
    win32Main,     \* what the main thread is doing
    cs,       \* info_lock_: who is in the critical section of each child
    slot,     \* watcher_status: the semaphore, the slot, and the async watcher
    alive     \* the processes

win32Vars == <<kid, win32Eio, waiter, win32Main, cs, slot, alive>>

-----------------------------------------------------------------------------
(* Path search and quoting. *)

\* path_search_walk_ext: the name itself if it has an extension, then each
\* extension of PATHEXT appended to it.
WalkExt(cmd, dir) ==
    (IF cmd.ext THEN <<<<dir, "">>>> ELSE <<>>) \o [i \in 1..Len(cmd.exts) |-> <<dir, cmd.exts[i]>>]

\* search_path: a file with a directory is looked for there only; a name in
\* the current directory first and then in those of PATH, empty ones skipped.
WalkPath(cmd) ==
    IF cmd.dir THEN WalkExt(cmd, "own")
    ELSE WalkExt(cmd, "cwd") \o
         FlattenSeq([i \in 1..Len(cmd.path) |-> IF cmd.path[i] = "" THEN <<>> ELSE WalkExt(cmd, cmd.path[i])])

\* search_path_join_test: the first that is a file, and no directory.
SearchPath(cmd) == SelectInSeq(WalkPath(cmd), LAMBDA f : f \in cmd.exists)

\* An empty directory at the head of PATH is never passed: the loop that
\* skips the separators does not move from the first one.
SearchHangs(cmd) ==
    /\ ~cmd.dir /\ Len(cmd.path) > 1 /\ cmd.path[1] = ""
    /\ \A f \in Range(WalkExt(cmd, "cwd")) : f \notin cmd.exists

NeedsQuotes(arg) == arg = <<>> \/ \E i \in DOMAIN arg : arg[i] \in {" ", "quote"}

QuoteCmdArg_Unescaped(arg) == IF NeedsQuotes(arg) THEN <<"quote">> \o arg \o <<"quote">> ELSE arg

\* quote_cmd_arg: quotes and backslashes are escaped in a quoted argument.
QuoteCmdArg(arg) ==
    IF ~NeedsQuotes(arg) THEN arg
    ELSE <<"quote">> \o
         FlattenSeq([i \in 1..Len(arg) |-> IF arg[i] \in {"quote", "slash"} THEN <<"slash", arg[i]>> ELSE <<arg[i]>>])
         \o <<"quote">>

\* The room Spawn reserves for an argument and its terminator.
MaxBuf(arg) == 2 * Len(arg) + 3

-----------------------------------------------------------------------------
(* The objects. *)

NoCommand == [dir |-> FALSE, ext |-> FALSE, path |-> <<>>, exts |-> <<>>, exists |-> {}]

NewKid ==
    [st |-> "new", refs |-> 0, did_start |-> FALSE, kill_me |-> FALSE, exit_signal |-> FALSE,
     pid |-> "undefined", handle |-> FALSE, stdio |-> FALSE, exits |-> 0, cmd |-> NoCommand, arg |-> <<>>, arguments |-> <<>>,
     runs |-> <<>>, after |-> FALSE, registered |-> FALSE]

Free == "free"

Win32Init ==
    /\ kid = [k \in Kid |-> NewKid]
    /\ win32Eio = [k \in Kid |-> "none"]
    /\ waiter = [pc |-> "idle"]
    /\ win32Main = [pc |-> "idle"]
    /\ cs = [k \in Kid |-> Free]
    /\ slot = [lock |-> Free, child |-> Free, sent |-> FALSE, num_active |-> 0, active |-> FALSE]
    /\ alive = [k \in Kid |-> "none"]

-----------------------------------------------------------------------------
(* The main thread: Spawn and Kill. *)

\* ChildProcess::Spawn: the arguments are quoted, the socket pairs made, the
\* object is held, the exit watcher counted, and do_spawn queued.
SpawnWin32(k, cmd, arg) ==
    /\ win32Main.pc = "idle" /\ kid[k].st = "new"
    /\ kid' = [kid EXCEPT ![k] = [kid[k] EXCEPT !.st = "spawned", !.refs = kid[k].refs + 1, !.stdio = TRUE,
                                           !.cmd = cmd, !.arg = arg, !.arguments = QuoteCmdArg(arg)]]
    /\ slot' = [slot EXCEPT !.num_active = @ + 1, !.active = TRUE]
    /\ win32Eio' = [win32Eio EXCEPT ![k] = "search"]
    /\ UNCHANGED <<waiter, win32Main, cs, alive>>

\* ChildProcess::Kill: do_kill wants the critical section of the child.
KillCall(k) ==
    /\ win32Main.pc = "idle" /\ kid[k].st # "new" /\ ~kid[k].exit_signal
    /\ win32Main' = [pc |-> "kill", kid |-> k]
    /\ UNCHANGED <<kid, win32Eio, waiter, cs, slot, alive>>

\* do_kill: a process that started is terminated, one that did not is not to.
DoKill ==
    /\ win32Main.pc = "kill"
    /\ LET k == win32Main.kid IN
         /\ cs[k] = Free
         /\ kid' = [kid EXCEPT ![k] = [kid[k] EXCEPT !.exit_signal = TRUE, !.kill_me = kid[k].kill_me \/ ~kid[k].did_start]]
         /\ alive' = IF kid[k].did_start /\ kid[k].handle /\ alive[k] = "running"
                     THEN [alive EXCEPT ![k] = "ended"] ELSE alive
    /\ win32Main' = [pc |-> "idle"]
    /\ UNCHANGED <<win32Eio, waiter, cs, slot>>

-----------------------------------------------------------------------------
(* The eio thread: do_spawn. *)

Eio(k, from, to) == win32Eio[k] = from /\ win32Eio' = [win32Eio EXCEPT ![k] = to]

\* The path is searched before the critical section is entered.
Win32Search(k) ==
    /\ ~SearchHangs(kid[k].cmd)
    /\ Eio(k, "search", IF SearchPath(kid[k].cmd) = 0 THEN "fails" ELSE "enter")
    /\ UNCHANGED <<kid, waiter, win32Main, cs, slot, alive>>

Enter(k) ==
    /\ cs[k] = Free
    /\ Eio(k, "enter", "create")
    /\ cs' = [cs EXCEPT ![k] = "eio"]
    /\ UNCHANGED <<kid, waiter, win32Main, slot, alive>>

MayStart(k) == ~kid[k].kill_me

\* CreateProcessW, unless kill_me is set.
DoSpawn(k, success) ==
    /\ success => MayStart(k)
    /\ Eio(k, "create", IF success THEN "watch" ELSE "fails")
    /\ IF success
       THEN /\ kid' = [kid EXCEPT ![k] = [kid[k] EXCEPT !.handle = TRUE, !.did_start = TRUE,
                                                     !.runs = WalkPath(kid[k].cmd)[SearchPath(kid[k].cmd)]]]
            /\ alive' = [alive EXCEPT ![k] = "running"]
            /\ UNCHANGED cs
       ELSE /\ cs' = [cs EXCEPT ![k] = Free]
            /\ UNCHANGED <<kid, alive>>
    /\ UNCHANGED <<waiter, win32Main, slot>>

\* watch(): still in the critical section it waits for the semaphore, and
\* registers the wait.
Watch(k) ==
    /\ slot.lock = Free
    /\ Eio(k, "watch", "leave")
    /\ kid' = [kid EXCEPT ![k].registered = TRUE]
    /\ UNCHANGED <<waiter, win32Main, cs, slot, alive>>

Leave(k) ==
    /\ Eio(k, "leave", "done")
    /\ cs' = [cs EXCEPT ![k] = Free]
    /\ kid' = [kid EXCEPT ![k].after = TRUE]
    /\ UNCHANGED <<waiter, win32Main, slot, alive>>

\* close_stdio_handles, before anything waits for the main thread.
CloseStdio(q) == [q EXCEPT !.stdio = FALSE]

SendSlot_NoLock(k) == [slot EXCEPT !.child = k, !.sent = TRUE]

\* The slot is filled under the semaphore, which the main thread releases.
SendSlot(k) == [slot EXCEPT !.lock = "taken", !.child = k, !.sent = TRUE]

\* notify_spawn_failure.
NotifySpawnFailure(k) ==
    /\ slot.lock = Free
    /\ Eio(k, "fails", "done")
    /\ slot' = SendSlot(k)
    /\ kid' = [kid EXCEPT ![k] = [CloseStdio(kid[k]) EXCEPT !.after = TRUE]]
    /\ UNCHANGED <<waiter, win32Main, cs, alive>>

-----------------------------------------------------------------------------
(* The processes, and the wait thread. *)

ProcessEnds32(k) ==
    /\ alive[k] = "running"
    /\ alive' = [alive EXCEPT ![k] = "ended"]
    /\ UNCHANGED <<kid, win32Eio, waiter, win32Main, cs, slot>>

\* watch_wait_callback runs in the wait thread, one at a time.
WaitCallback(k) ==
    /\ waiter.pc = "idle" /\ kid[k].registered /\ alive[k] = "ended"
    /\ waiter' = [pc |-> "wait", kid |-> k]
    /\ kid' = [kid EXCEPT ![k] = [CloseStdio(kid[k]) EXCEPT !.registered = FALSE]]
    /\ UNCHANGED <<win32Eio, win32Main, cs, slot, alive>>

WaitSends ==
    /\ waiter.pc = "wait" /\ slot.lock = Free
    /\ slot' = SendSlot(waiter.kid)
    /\ waiter' = [pc |-> "idle"]
    /\ UNCHANGED <<kid, win32Eio, win32Main, cs, alive>>

-----------------------------------------------------------------------------
(* The main thread: notify_exit, OnExit and after_spawn. *)

StopWatcher(sl) == [sl EXCEPT !.num_active = @ - 1, !.active = sl.num_active > 1]

\* notify_exit takes the child from the slot and releases the semaphore.
NotifyExit ==
    /\ win32Main.pc = "idle" /\ slot.sent /\ slot.active
    /\ win32Main' = [pc |-> "notify", kid |-> slot.child]
    /\ slot' = [StopWatcher(slot) EXCEPT !.lock = Free, !.sent = FALSE]
    /\ UNCHANGED <<kid, win32Eio, waiter, cs, alive>>

\* In the critical section it closes the process; OnExit releases the object
\* and calls onexit with the exit code and the signal.
OnExit32 ==
    /\ win32Main.pc = "notify" /\ cs[win32Main.kid] = Free
    /\ kid' = LET k == win32Main.kid IN
               [kid EXCEPT ![k] = [kid[k] EXCEPT !.handle = FALSE, !.refs = kid[k].refs - 1, !.pid = "null",
                                                 !.exits = kid[k].exits + 1]]
    /\ win32Main' = [pc |-> "idle"]
    /\ UNCHANGED <<win32Eio, waiter, cs, slot, alive>>

\* after_spawn sets the pid and frees what only the spawn needed.
AfterSpawn(k) ==
    /\ win32Main.pc = "idle" /\ kid[k].after
    /\ kid' = [kid EXCEPT ![k] = [kid[k] EXCEPT !.after = FALSE,
                  !.pid = IF ~kid[k].did_start THEN "null" ELSE IF kid[k].handle THEN "number" ELSE "zero"]]
    /\ UNCHANGED <<win32Eio, waiter, win32Main, cs, slot, alive>>

Win32Next ==
    \/ \E k \in Kid :
         \/ \E cmd \in Command, arg \in Argument : SpawnWin32(k, cmd, arg)
         \/ KillCall(k)
         \/ Win32Search(k) \/ Enter(k) \/ Watch(k) \/ Leave(k) \/ NotifySpawnFailure(k)
         \/ \E success \in BOOLEAN : DoSpawn(k, success)
         \/ ProcessEnds32(k) \/ WaitCallback(k)
         \/ AfterSpawn(k)
    \/ DoKill \/ WaitSends \/ NotifyExit \/ OnExit32

Win32Spec == Win32Init /\ [][Win32Next]_win32Vars

-----------------------------------------------------------------------------
(* Properties. *)

\* Types.
Win32TypeOK ==
    /\ \A k \in Kid : kid[k].refs \in 0..1 /\ kid[k].exits \in 0..1 /\ cs[k] \in {Free, "eio"}
    /\ slot.num_active \in 0..Cardinality(Kid)
    /\ slot.active <=> slot.num_active > 0
    /\ \A k \in Kid : win32Eio[k] \in {"none", "search", "enter", "create", "watch", "leave", "fails", "done"}

\* Every end is reported once: a child whose end is not yet reported is on its
\* way, in do_spawn, alive, with the wait thread, in the slot, or in the main
\* thread, and one that is reported is nowhere: the slot is never overwritten.
EveryEndIsReported ==
    \A k \in Kid : kid[k].st # "new" =>
        LET ways == <<win32Eio[k] \in {"search", "enter", "create", "watch", "fails"},
                      win32Eio[k] \in {"leave", "done"} /\ kid[k].registered,
                      waiter.pc = "wait" /\ waiter.kid = k,
                      slot.sent /\ slot.child = k,
                      win32Main.pc = "notify" /\ win32Main.kid = k,
                      kid[k].exits = 1>>
        IN  Cardinality({i \in DOMAIN ways : ways[i]}) = 1

\* The loop is kept alive for exactly the children whose end it has still to
\* take from the slot, and each of them is held.
WatcherCountsKids ==
    /\ slot.num_active = Cardinality({k \in Kid : kid[k].refs = 1 /\ ~(win32Main.pc = "notify" /\ win32Main.kid = k)})
    /\ \A k \in Kid : win32Eio[k] \notin {"none", "done"} => kid[k].refs = 1

\* A signal is not lost between kill() and the thread that starts the process:
\* once do_kill is through, the process is not running and will not be.
KillIsNotLost ==
    \A k \in Kid : kid[k].exit_signal => alive[k] # "running"

\* The places where a file may be, in the order of the comment above search_path:
\* the current directory, or the command's own (0), before those of PATH, and in
\* each the name as it is (0), if it has an extension, before every extension.
Places(cmd) ==
    {p \in (0..Len(cmd.path)) \X (0..Len(cmd.exts)) :
        /\ cmd.dir => p[1] = 0
        /\ p[1] # 0 => cmd.path[p[1]] # ""
        /\ p[2] = 0 => cmd.ext}

FileAt(cmd, p) ==
    <<IF p[1] # 0 THEN cmd.path[p[1]] ELSE IF cmd.dir THEN "own" ELSE "cwd",
      IF p[2] # 0 THEN cmd.exts[p[2]] ELSE "">>

IsBefore(p, q) == p[1] < q[1] \/ (p[1] = q[1] /\ p[2] < q[2])

\* The file that runs exists, and at no place before its own is there one.
RunsTheFirst ==
    \A k \in Kid : kid[k].runs # <<>> =>
        LET cmd == kid[k].cmd IN
        \E p \in Places(cmd) :
            /\ kid[k].runs = FileAt(cmd, p) /\ FileAt(cmd, p) \in cmd.exists
            /\ \A q \in Places(cmd) : FileAt(cmd, q) \in cmd.exists => ~IsBefore(q, p)

\* The command line fits the buffer that Spawn computed for it, and inside the
\* quotes no quote of the argument ends it early.
ArgumentsFit ==
    \A k \in Kid : kid[k].st # "new" =>
        LET line == kid[k].arguments IN
        /\ Len(line) + 1 <= MaxBuf(kid[k].arg)
        /\ NeedsQuotes(kid[k].arg) => \A i \in 2..(Len(line) - 1) : line[i] = "quote" => line[i - 1] = "slash"

\* Child processes on Windows, with the threads that start and watch them: no end and no
\* kill is lost, and the loop stays alive for exactly the children that have still to end.
Win32Safe ==
    /\ Win32TypeOK
    /\ EveryEndIsReported
    /\ WatcherCountsKids
    /\ KillIsNotLost

\* What a child on Windows runs: the first program on the path, with its arguments quoted
\* and inside the buffer.
CommandLineSafe ==
    /\ RunsTheFirst
    /\ ArgumentsFit
=============================================================================
