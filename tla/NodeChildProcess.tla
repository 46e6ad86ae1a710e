-------------------------- MODULE NodeChildProcess --------------------------
(***************************************************************************)
(* Child processes of node v0.4.4 on POSIX systems: ChildProcess in        *)
(* src/node_child_process.cc, which makes the pipes, forks and watches for *)
(* SIGCHLD, and lib/child_process.js, which turns the end of the process   *)
(* and of its output into one 'exit' event, and execFile, which collects   *)
(* the output and limits its time and its size.                            *)
(*                                                                         *)
(* A pipe lives as long as some process holds its ends: the end of the     *)
(* output is seen only when nobody holds the writing end any more, neither *)
(* node itself nor another child that inherited it.                        *)
(***************************************************************************)
EXTENDS Naturals, FiniteSets, Sequences

CONSTANTS
    Child,      \* the child processes that may be spawned
    Execs,      \* the ones of them that execFile runs
    Customs,    \* the sets of streams for which customFds are given
    MaxOutput,  \* bound: pieces of output of one child
    MaxBuffer   \* execFile's maxBuffer, in pieces

ASSUME ChildAssumption ==
    /\ MaxOutput \in Nat /\ MaxBuffer \in Nat
    /\ Customs \subseteq SUBSET (0..2)
    /\ "node" \notin Child /\ Execs \subseteq Child

VARIABLES
    child,   \* the ChildProcess objects, of C++ and of JavaScript
    proc,    \* the processes
    pipes,   \* the pipes of each child: stdin, stdout and stderr
    execs    \* what execFile keeps for each child

childVars == <<child, proc, pipes, execs>>

Stdio == 0..2

Holder == {"node"} \cup Child

NewPipe == [made |-> FALSE, cloexec |-> FALSE, readers |-> {}, writers |-> {}, data |-> 0]

\* ChildProcess::New and the constructor in lib/child_process.js.
NewChild ==
    [st |-> "new", pid |-> FALSE, watcher |-> FALSE, refs |-> 0, custom |-> {},
     readable |-> {}, closing |-> {}, closed |-> {},
     gotCHLD |-> FALSE, code |-> "none", killed |-> FALSE, exits |-> 0, got |-> [i \in Stdio |-> 0]]

NewExec == [on |-> FALSE, killed |-> FALSE, exited |-> FALSE, err |-> FALSE, timer |-> FALSE, ticks |-> 0, answers |-> <<>>]

ChildInit ==
    /\ child = [c \in Child |-> NewChild]
    /\ proc = [c \in Child |-> [st |-> "none", status |-> "none", signalled |-> FALSE, written |-> [i \in Stdio |-> 0]]]
    /\ pipes = [c \in Child |-> [i \in Stdio |-> NewPipe]]
    /\ execs = [c \in Child |-> NewExec]

-----------------------------------------------------------------------------
(* Spawning. *)

ChildSetCloseOnExec(pipe) == [pipe EXCEPT !.cloexec = TRUE]

\* pipe() and SetCloseOnExec, for the streams without a custom descriptor.
MakePipes(some) ==
    [i \in Stdio |-> IF i \in some
        THEN [ChildSetCloseOnExec(NewPipe) EXCEPT !.made = TRUE, !.readers = {"node"}, !.writers = {"node"}]
        ELSE NewPipe]

\* vfork(): the child has the ends that node has, until it executes the
\* program, which closes the ones marked close-on-exec.
Inherit(ps, c) ==
    [d \in Child |-> [i \in Stdio |->
        IF ps[d][i].cloexec THEN ps[d][i]
        ELSE [ps[d][i] EXCEPT !.readers = IF "node" \in @ THEN @ \cup {c} ELSE @,
                              !.writers = IF "node" \in @ THEN @ \cup {c} ELSE @]]]

\* dup2() in the child: its own ends are its stdin, stdout and stderr.
Dup(ps, c) ==
    [ps EXCEPT ![c] = [i \in Stdio |->
        IF ~ps[c][i].made THEN ps[c][i]
        ELSE IF i = 0 THEN [ps[c][i] EXCEPT !.readers = @ \cup {c}]
                      ELSE [ps[c][i] EXCEPT !.writers = @ \cup {c}]]]

\* The parent closes the ends that are the child's.
ParentEnds(ps, c) ==
    [ps EXCEPT ![c] = [i \in Stdio |->
        IF i = 0 THEN [ps[c][i] EXCEPT !.readers = @ \ {"node"}]
                 ELSE [ps[c][i] EXCEPT !.writers = @ \ {"node"}]]]

\* The parent's part: the watcher is started, and the streams opened.
Watched(c, custom) ==
    [child EXCEPT ![c] = [child[c] EXCEPT !.st = "spawned", !.pid = TRUE, !.watcher = TRUE, !.refs = @ + 1,
                                          !.custom = custom, !.readable = {1, 2} \ custom]]

\* ChildProcess::Spawn.  The child ends with 127 at once if it cannot change
\* its session, directory, group or user, or execute the program.
Spawn(c, custom, starts) ==
    /\ child[c].st = "new"
    /\ pipes' = LET forked == Dup(Inherit([pipes EXCEPT ![c] = MakePipes(Stdio \ custom)], c), c)
                IN  ParentEnds(IF starts THEN forked ELSE
                        [d \in Child |-> [i \in Stdio |->
                            [forked[d][i] EXCEPT !.readers = @ \ {c}, !.writers = @ \ {c}]]], c)
    /\ proc' = [proc EXCEPT ![c].st = IF starts THEN "running" ELSE "zombie",
                            ![c].status = IF starts THEN "none" ELSE "failed"]
    /\ child' = Watched(c, custom)

\* spawn(): no execFile around it.
SpawnOnly(c, custom, starts) == c \notin Execs /\ Spawn(c, custom, starts) /\ UNCHANGED execs

\* pipe() or vfork() fails: 'Error spawning' is thrown, and the pipes that
\* were made stay open.
SpawnFails(c, made) ==
    /\ child[c].st = "new"
    /\ pipes' = [pipes EXCEPT ![c] = MakePipes(made)]
    /\ child' = [child EXCEPT ![c].st = "failed"]
    /\ UNCHANGED <<proc, execs>>

\* execFile(): with a time-out or without.
ExecFile(c, starts, timeout) ==
    /\ c \in Execs
    /\ Spawn(c, {}, starts)
    /\ execs' = [execs EXCEPT ![c] = [execs[c] EXCEPT !.on = TRUE, !.timer = timeout]]

-----------------------------------------------------------------------------
(* The processes. *)

ProcessWrites(c, i) ==
    /\ proc[c].st = "running" /\ c \in pipes[c][i].writers
    /\ proc[c].written[1] + proc[c].written[2] < MaxOutput
    /\ proc' = [proc EXCEPT ![c].written[i] = @ + 1]
    /\ pipes' = [pipes EXCEPT ![c][i].data = @ + 1]
    /\ UNCHANGED <<child, execs>>

\* It ends by itself, or by the signal it was sent.
ProcessEnds(c, status) ==
    /\ proc[c].st = "running"
    /\ status = "signal" => proc[c].signalled
    /\ proc' = [proc EXCEPT ![c].st = "zombie", ![c].status = status]
    /\ pipes' = [d \in Child |-> [i \in Stdio |->
                    [pipes[d][i] EXCEPT !.readers = @ \ {c}, !.writers = @ \ {c}]]]
    /\ UNCHANGED <<child, execs>>

\* libev's SIGCHLD handler waits for every process that has ended, and then
\* calls their watchers.
Reap ==
    /\ \E c \in Child : proc[c].st = "zombie"
    /\ proc' = [c \in Child |-> IF proc[c].st = "zombie" THEN [proc[c] EXCEPT !.st = "reaped"] ELSE proc[c]]
    /\ UNCHANGED <<child, pipes, execs>>

-----------------------------------------------------------------------------
(* execFile. *)

\* ChildProcess::Kill: nothing to do without a process.
KillInternal(c) ==
    /\ child' = [child EXCEPT ![c].killed = IF ~@ THEN child[c].pid ELSE @]
    /\ proc' = IF ~child[c].killed /\ child[c].pid /\ proc[c].st = "running"
               THEN [proc EXCEPT ![c].signalled = TRUE] ELSE proc

\* exithandler(): the first of the end, the time-out and the overflow counts.
ExitHandler(e, answer) ==
    IF ~e.on \/ e.exited THEN e
    ELSE [e EXCEPT !.exited = TRUE, !.timer = FALSE,
                   !.answers = Append(@, IF e.err THEN "maxBuffer" ELSE answer)]

\* The time is over: kill(), and exithandler in the next tick.
ExecTimeout(c) ==
    /\ execs[c].timer
    /\ KillInternal(c)
    /\ execs' = [execs EXCEPT ![c] = [execs[c] EXCEPT !.killed = TRUE, !.ticks = @ + 1, !.timer = FALSE]]
    /\ UNCHANGED pipes

ExecTick(c) ==
    /\ execs[c].ticks > 0
    /\ execs' = [execs EXCEPT ![c] = ExitHandler([execs[c] EXCEPT !.ticks = @ - 1], "killed")]
    /\ UNCHANGED <<child, proc, pipes>>

\* child.kill() of the application.
Kill(c) ==
    /\ child[c].st # "new" /\ ~child[c].killed
    /\ KillInternal(c)
    /\ UNCHANGED <<pipes, execs>>

-----------------------------------------------------------------------------
(* The output, and the end. *)

\* emit('exit'), which execFile hears.
EmitExit(cs, es, c) ==
    /\ child' = [cs EXCEPT ![c].exits = @ + 1]
    /\ execs' = [es EXCEPT ![c] = ExitHandler(es[c], cs[c].code)]

NoExit(cs, es) == child' = cs /\ execs' = es

\* Some output: 'data'; too much of it makes execFile kill the child.
ChildOnData(c, i) ==
    /\ i \in child[c].readable /\ pipes[c][i].data > 0
    /\ pipes' = [pipes EXCEPT ![c][i].data = 0]
    /\ LET got == child[c].got[i] + pipes[c][i].data
           over == execs[c].on /\ got > MaxBuffer
           kills == over /\ ~child[c].killed /\ child[c].pid
       IN  /\ child' = [child EXCEPT ![c].got[i] = got, ![c].killed = @ \/ kills]
           /\ proc' = IF kills /\ proc[c].st = "running" THEN [proc EXCEPT ![c].signalled = TRUE] ELSE proc
           /\ execs' = IF over THEN [execs EXCEPT ![c] = [execs[c] EXCEPT !.err = TRUE, !.killed = TRUE, !.ticks = @ + 1]]
                       ELSE execs

\* The end of the output: the stream is destroyed, and says so in a later tick.
OnEndOfOutput(c, i) ==
    /\ i \in child[c].readable /\ pipes[c][i].data = 0 /\ pipes[c][i].writers = {}
    /\ pipes' = [pipes EXCEPT ![c][i].readers = {}]
    /\ child' = [child EXCEPT ![c].readable = @ \ {i}, ![c].closing = @ \cup {i}]
    /\ UNCHANGED <<proc, execs>>

\* The 'close' listeners of stdout and stderr.
OnStreamClose(c, i) ==
    /\ i \in child[c].closing
    /\ LET cs == [child EXCEPT ![c].closing = @ \ {i}, ![c].closed = @ \cup {i}]
       IN  IF cs[c].gotCHLD /\ {1, 2} \ cs[c].custom \subseteq cs[c].closed
           THEN EmitExit(cs, execs, c) ELSE NoExit(cs, execs)
    /\ UNCHANGED <<proc, pipes>>

\* ChildProcess::Stop.
Stop(ch) ==
    [ch EXCEPT !.watcher = FALSE, !.refs = IF ch.watcher THEN @ - 1 ELSE @, !.pid = FALSE]

ExitsNow_Always(ch) == TRUE

\* internal.onexit emits 'exit' itself when no output is left to read.
ExitsNow(ch) == ch.readable = {}

\* ChildProcess::OnExit and internal.onexit; stdin is ended.
OnExit(c) ==
    /\ child[c].watcher /\ proc[c].st = "reaped"
    /\ pipes' = [pipes EXCEPT ![c][0].writers = @ \ {"node"}]
    /\ LET cs == [child EXCEPT ![c] = [Stop(child[c]) EXCEPT !.gotCHLD = TRUE, !.code = proc[c].status]]
       IN  IF ExitsNow(cs[c]) THEN EmitExit(cs, execs, c) ELSE NoExit(cs, execs)
    /\ UNCHANGED proc

ChildNext ==
    \/ \E c \in Child :
         \/ \E custom \in Customs, starts \in BOOLEAN : SpawnOnly(c, custom, starts)
         \/ \E made \in {{}, {0}, {0, 1}, {0, 1, 2}} : SpawnFails(c, made)
         \/ \E starts, timeout \in BOOLEAN : ExecFile(c, starts, timeout)
         \/ \E i \in {1, 2} : ProcessWrites(c, i) \/ ChildOnData(c, i) \/ OnEndOfOutput(c, i) \/ OnStreamClose(c, i)
         \/ \E status \in {"ok", "failed", "signal"} : ProcessEnds(c, status)
         \/ Kill(c)
         \/ ExecTimeout(c)
         \/ ExecTick(c)
         \/ OnExit(c)
    \/ Reap

ChildSpec == ChildInit /\ [][ChildNext]_childVars

-----------------------------------------------------------------------------
(* Properties. *)

\* Types.
ChildTypeOK ==
    /\ \A c \in Child :
         /\ child[c].refs \in 0..1 /\ child[c].exits \in 0..2
         /\ child[c].readable \cup child[c].closing \cup child[c].closed \subseteq {1, 2}
         /\ \A i \in Stdio : child[c].got[i] <= MaxOutput
         /\ execs[c].ticks \in Nat
    /\ \A c \in Child, i \in Stdio :
         pipes[c][i].readers \subseteq Holder /\ pipes[c][i].writers \subseteq Holder

\* The object is held exactly while its watcher waits for the process, and
\* has a pid exactly then: it is not collected under the watcher, and no
\* signal is sent once the end of the process was reported.
WatchedIsHeld ==
    \A c \in Child :
        /\ child[c].watcher <=> child[c].refs = 1
        /\ child[c].watcher <=> child[c].pid
        /\ child[c].watcher => proc[c].st # "none"

\* 'exit' comes after all the output: when it is emitted the process is gone
\* and every piece that it wrote has been delivered.
ExitAfterOutput ==
    \A c \in Child : child[c].exits > 0 =>
        /\ proc[c].st = "reaped" /\ child[c].code = proc[c].status
        /\ \A i \in {1, 2} \ child[c].custom : child[c].got[i] = proc[c].written[i]

\* execFile calls back once; without an error only for a process that ended
\* well, whose output it has in full.
ExecAnswersOnce ==
    \A c \in Child :
        /\ Len(execs[c].answers) <= 1
        /\ execs[c].answers = <<"ok">> =>
             proc[c].status = "ok" /\ \A i \in {1, 2} : child[c].got[i] = proc[c].written[i] /\ child[c].got[i] <= MaxBuffer

\* Nobody but a child and its parent holds the ends of the child's pipes, and
\* once the child and its streams are gone nobody does: no descriptor leaks
\* into another child or stays behind, unless spawning itself failed.
PipesArePrivate ==
    \A c \in Child, i \in Stdio : child[c].st = "spawned" =>
        /\ pipes[c][i].readers \cup pipes[c][i].writers \subseteq {"node", c}
        /\ i # 0 => "node" \notin pipes[c][i].writers
        /\ child[c].gotCHLD /\ child[c].readable = {} => pipes[c][i].readers \cup pipes[c][i].writers = {}

\* The end of a process is reported: 'exit' is emitted, whatever the other
\* children do.
EndIsReported == \A c \in Child : proc[c].st = "zombie" ~> child[c].exits > 0

\* Child processes: 'exit' comes after all output, exec calls back once, and no child holds
\* the end of another one's pipe.
ChildSafe ==
    /\ ChildTypeOK
    /\ WatchedIsHeld
    /\ ExitAfterOutput
    /\ ExecAnswersOnce
    /\ PipesArePrivate
=============================================================================
