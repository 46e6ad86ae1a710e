------------------------------ MODULE NodeStdio ------------------------------
(***************************************************************************)
(* Standard streams and the terminal of node v0.4.4 on POSIX systems,      *)
(* src/node_stdio.cc, with the exits of src/node.cc that give the terminal *)
(* back.  The settings of a terminal belong to the terminal: the shell and *)
(* every later program find them as node leaves them.                      *)
(*                                                                         *)
(* The settings are one of two, the shell's and node's raw mode, and the   *)
(* O_NONBLOCK flag of the open terminal that stdin and stdout share.       *)
(***************************************************************************)
EXTENDS Naturals, Sequences

CONSTANTS
    ContModes,    \* the settings a process may find when it is continued
    Interrupts,   \* whether signals arrive between two steps of a mode switch
    StdoutIsTTY,  \* whether stdout is the terminal
    Message,      \* what writeError is given, a sequence
    MaxSwitches   \* bound: changes of the mode, and stops

ASSUME StdioAssumption ==
    /\ ContModes \subseteq {"shell", "raw"}
    /\ Interrupts \in BOOLEAN /\ StdoutIsTTY \in BOOLEAN /\ MaxSwitches \in Nat
    /\ Message \in Seq(STRING)

VARIABLES
    term,    \* the terminal
    stdio,   \* the static variables of node_stdio.cc, and where its functions are
    stderr   \* what was written to stderr, and what writeError has still to write

stdioVars == <<term, stdio, stderr>>

\* Stdio::Initialize: the flags of stdout are saved and it does not block.
StdioInit ==
    /\ term = [mode |-> "shell", nonblock |-> StdoutIsTTY]
    /\ stdio = [st |-> "running", rawmode |-> FALSE, orig |-> "none", stdin_flags |-> FALSE, stdout_flags |-> StdoutIsTTY,
                pc |-> "js", then |-> "js", switches |-> 0]
    /\ stderr = [out |-> <<>>, left |-> <<>>, calls |-> 0]

\* JavaScript is running: no function of the binding is under way.
InJs == stdio.st = "running" /\ stdio.pc = "js"

-----------------------------------------------------------------------------
(* Raw mode. *)

\* EnableRawMode: what it found, the new settings, the flag.
EnableRawMode ==
    \/ /\ stdio.pc = "enable"
       /\ stdio' = [stdio EXCEPT !.orig = term.mode, !.pc = "set"]
       /\ UNCHANGED <<term, stderr>>
    \/ /\ stdio.pc = "set"
       /\ term' = [term EXCEPT !.mode = "raw"]
       /\ stdio' = [stdio EXCEPT !.pc = "flag"]
       /\ UNCHANGED stderr
    \/ /\ stdio.pc = "flag"
       /\ stdio' = [stdio EXCEPT !.rawmode = TRUE, !.pc = "js"]
       /\ UNCHANGED <<term, stderr>>

\* DisableRawMode: the settings that were found, and the flag.
DisableRawMode ==
    \/ /\ stdio.pc = "disable"
       /\ term' = IF stdio.rawmode THEN [term EXCEPT !.mode = stdio.orig] ELSE term
       /\ stdio' = [stdio EXCEPT !.pc = "unflag"]
       /\ UNCHANGED stderr
    \/ /\ stdio.pc = "unflag"
       /\ stdio' = [stdio EXCEPT !.rawmode = FALSE, !.pc = stdio.then]
       /\ UNCHANGED <<term, stderr>>

\* setRawMode
SetRawMode(on) ==
    /\ InJs /\ stdio.switches < MaxSwitches
    /\ stdio' = [stdio EXCEPT !.switches = @ + 1,
                              !.pc = IF ~on THEN "disable" ELSE IF stdio.rawmode THEN "js" ELSE "enable", !.then = "js"]
    /\ UNCHANGED <<term, stderr>>

-----------------------------------------------------------------------------
(* Signals and exits. *)

MayInterrupt == stdio.st = "running" /\ (Interrupts \/ stdio.pc = "js")

\* HandleSIGCONT: raw mode once more, if node thinks it was in raw mode.
HandleSIGCONT(mode) ==
    IF stdio.rawmode THEN [term |-> "raw", rawmode |-> TRUE, orig |-> mode]
    ELSE [term |-> mode, rawmode |-> FALSE, orig |-> stdio.orig]

\* The process is stopped, and the shell takes the terminal.
StopJob ==
    /\ MayInterrupt /\ stdio.switches < MaxSwitches
    /\ stdio' = [stdio EXCEPT !.st = "stopped", !.switches = @ + 1]
    /\ term' = [term EXCEPT !.mode = "shell"]
    /\ UNCHANGED stderr

\* It is continued; a shell may restore the settings of the job before.
ContinueJob ==
    /\ stdio.st = "stopped"
    /\ \E mode \in ContModes \cup {"shell"} :
         LET h == HandleSIGCONT(IF stdio.rawmode THEN mode ELSE "shell") IN
         /\ term' = [term EXCEPT !.mode = h.term]
         /\ stdio' = [stdio EXCEPT !.st = "running", !.rawmode = h.rawmode, !.orig = h.orig]
    /\ UNCHANGED stderr

\* SIGINT and SIGTERM: raw mode is left and the process ends at once.
SignalExit ==
    /\ MayInterrupt
    /\ term' = IF stdio.rawmode THEN [term EXCEPT !.mode = stdio.orig] ELSE term
    /\ stdio' = [stdio EXCEPT !.st = "killed", !.pc = "done"]
    /\ UNCHANGED stderr

\* Stdio::Flush: stdin and stdout block again.
StdioFlush == [term EXCEPT !.nonblock = IF stdio.stdin_flags \/ stdio.stdout_flags THEN FALSE ELSE @]

\* AtExit: Flush, and raw mode is left.
AtExit ==
    /\ InJs /\ stderr.left = <<>>
    /\ term' = StdioFlush
    /\ stdio' = [stdio EXCEPT !.pc = "disable", !.then = "done"]
    /\ UNCHANGED stderr

Exited ==
    /\ stdio.st = "running" /\ stdio.pc = "done"
    /\ stdio' = [stdio EXCEPT !.st = "exited"]
    /\ UNCHANGED <<term, stderr>>

-----------------------------------------------------------------------------
(* The streams. *)

\* openStdin: the flags are saved and stdin does not block.
OpenStdin ==
    /\ InJs /\ ~stdio.stdin_flags
    /\ stdio' = [stdio EXCEPT !.stdin_flags = TRUE]
    /\ term' = [term EXCEPT !.nonblock = TRUE]
    /\ UNCHANGED stderr

\* writeError is called.
WriteErrorStart ==
    /\ InJs /\ stderr.left = <<>> /\ stderr.calls < 1
    /\ stderr' = [stderr EXCEPT !.left = Message, !.calls = @ + 1]
    /\ stdio' = [stdio EXCEPT !.pc = "write"]
    /\ UNCHANGED term

\* The loop of writeError: what write took is left out of the next round; a
\* write that takes nothing, as with EAGAIN, is tried again.
WriteError ==
    /\ stdio.pc = "write" /\ stdio.st = "running"
    /\ \/ \E n \in 1..Len(stderr.left) :
            /\ stderr' = [stderr EXCEPT !.out = @ \o SubSeq(stderr.left, 1, n),
                                       !.left = SubSeq(stderr.left, n + 1, Len(stderr.left))]
            /\ stdio' = [stdio EXCEPT !.pc = IF n = Len(stderr.left) THEN "js" ELSE "write"]
       \/ UNCHANGED <<stdio, stderr>>
    /\ UNCHANGED term

StdioNext ==
    \/ stdio.st = "running" /\ (EnableRawMode \/ DisableRawMode)
    \/ \E on \in BOOLEAN : SetRawMode(on)
    \/ StopJob \/ ContinueJob \/ SignalExit \/ AtExit \/ Exited
    \/ OpenStdin \/ WriteErrorStart \/ WriteError

StdioSpec == StdioInit /\ [][StdioNext]_stdioVars

-----------------------------------------------------------------------------
(* Properties. *)

\* Types.
StdioTypeOK ==
    /\ term.mode \in {"shell", "raw"} /\ term.nonblock \in BOOLEAN
    /\ stdio.st \in {"running", "stopped", "exited", "killed"} /\ stdio.rawmode \in BOOLEAN /\ stdio.orig \in {"none", "shell", "raw"}

\* When node has ended, by itself or by a signal that it handles, and however
\* often it was stopped and continued, the terminal has the settings that it
\* had when node started.
TerminalRestored == stdio.st \in {"exited", "killed"} => term.mode = "shell"

\* When node has ended by itself the terminal blocks again.
BlocksAgain == stdio.st = "exited" => ~term.nonblock

\* What setRawMode reports is how the terminal is, after a stop too.
RawModeIsTrue == InJs => (stdio.rawmode <=> term.mode = "raw")

\* stderr gets every message whole and in order.
ErrorsAreWhole == InJs => stderr.left = <<>> /\ stderr.out \in {<<>>, Message}

\* The terminal: however node ends, and however often it was stopped and continued, it has
\* the settings it had before.
StdioSafe ==
    /\ StdioTypeOK
    /\ TerminalRestored
    /\ BlocksAgain
    /\ RawModeIsTrue
    /\ ErrorsAreWhole
=============================================================================
