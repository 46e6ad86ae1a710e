-------------------------------- MODULE MCNodeCore --------------------------------
(***************************************************************************)
(* Node's event loop, processes, consoles, contexts, files, buffers and   *)
(* digests for TLC.  A behaviour is one of a single component, chosen at  *)
(* the start; the others stay as they are.                                *)
(***************************************************************************)
EXTENDS NodeLoop, NodeWatchers, NodeProcess, NodeChildProcess, NodeChildWin32, NodeStdio, NodeTty,
        NodeScript, NodeBuffer, NodeFile, NodeCiphers, NodeDigests, NodeConsole, NodeConversions

\* A file to look for: its directory and extension are given or not; the path, the
\* extensions to try, and what exists.
Cmd(dir, ext, path, exists) == [dir |-> dir, ext |-> ext, path |-> path, exts |-> <<".COM", ".EXE">>, exists |-> exists]

SomeCommands ==
    {Cmd(FALSE, FALSE, <<"p", "", "q">>, {<<"q", ".EXE">>, <<"p", "">>}),
     Cmd(FALSE, TRUE, <<"p", "q">>, {<<"p", "">>, <<"cwd", ".EXE">>}),
     Cmd(FALSE, TRUE, <<"", "p">>, {<<"p", "">>})}

SomeArguments == {<<>>, <<"slash">>, <<"quote", "slash">>}

ErrorMessage == <<"e", "r", "r">>

StdinAndStdout == {{1, 2}}

\* One init more for Hmac and Hash than for the two that go together.
SomeCalls == [k \in DigestClass |-> IF k \in {"Sign", "Verify"} THEN 3 ELSE 4]

\* A character of three bytes and one of four.
MixedText == <<"3", "c", "c", "4", "c", "c", "c">>

VARIABLE part    \* the component that this behaviour is about

suiteVars == <<part, loopVars, watcherVars, processVars, childVars, win32Vars, stdioVars, ttyVars,
               scriptVars, bufferVars, fileVars, cipherVars, digestVars>>

Part == {"loop", "watchers", "process", "child", "win32", "stdio", "tty", "script", "buffer", "file",
         "ciphers", "digests"}

Init ==
    /\ part \in Part
    /\ WatchersInit /\ ChildInit /\ Win32Init /\ StdioInit
    /\ TtyInit /\ ScriptInit /\ BufferInit /\ FileInit
    /\ LoopInit /\ (part # "loop" => (~listening))
    /\ ProcessInit /\ (part # "process" => (cmdline = <<>> /\ environ = <<>>))
    /\ CiphersInit /\ (part # "ciphers" => (use = CHOOSE u \in Use : TRUE))
    /\ DigestsInit /\ (part # "digests" => (inUse = {"Hash"} /\ ~digests["Hash"].initialised))

LoopPart ==
    /\ part = "loop" /\ LoopNext
    /\ UNCHANGED <<part, watcherVars, processVars, childVars, win32Vars, stdioVars, ttyVars, scriptVars,
                   bufferVars, fileVars, cipherVars, digestVars>>

WatchersPart ==
    /\ part = "watchers" /\ WatchersNext
    /\ UNCHANGED <<part, loopVars, processVars, childVars, win32Vars, stdioVars, ttyVars, scriptVars,
                   bufferVars, fileVars, cipherVars, digestVars>>

ProcessPart ==
    /\ part = "process" /\ ProcessNext
    /\ UNCHANGED <<part, loopVars, watcherVars, childVars, win32Vars, stdioVars, ttyVars, scriptVars,
                   bufferVars, fileVars, cipherVars, digestVars>>

ChildPart ==
    /\ part = "child" /\ ChildNext
    /\ UNCHANGED <<part, loopVars, watcherVars, processVars, win32Vars, stdioVars, ttyVars, scriptVars,
                   bufferVars, fileVars, cipherVars, digestVars>>

Win32Part ==
    /\ part = "win32" /\ Win32Next
    /\ UNCHANGED <<part, loopVars, watcherVars, processVars, childVars, stdioVars, ttyVars, scriptVars,
                   bufferVars, fileVars, cipherVars, digestVars>>

StdioPart ==
    /\ part = "stdio" /\ StdioNext
    /\ UNCHANGED <<part, loopVars, watcherVars, processVars, childVars, win32Vars, ttyVars, scriptVars,
                   bufferVars, fileVars, cipherVars, digestVars>>

TtyPart ==
    /\ part = "tty" /\ TtyNext
    /\ UNCHANGED <<part, loopVars, watcherVars, processVars, childVars, win32Vars, stdioVars, scriptVars,
                   bufferVars, fileVars, cipherVars, digestVars>>

ScriptPart ==
    /\ part = "script" /\ ScriptNext
    /\ UNCHANGED <<part, loopVars, watcherVars, processVars, childVars, win32Vars, stdioVars, ttyVars,
                   bufferVars, fileVars, cipherVars, digestVars>>

BufferPart ==
    /\ part = "buffer" /\ BufferNext
    /\ UNCHANGED <<part, loopVars, watcherVars, processVars, childVars, win32Vars, stdioVars, ttyVars,
                   scriptVars, fileVars, cipherVars, digestVars>>

FilePart ==
    /\ part = "file" /\ FileNext
    /\ UNCHANGED <<part, loopVars, watcherVars, processVars, childVars, win32Vars, stdioVars, ttyVars,
                   scriptVars, bufferVars, cipherVars, digestVars>>

CiphersPart ==
    /\ part = "ciphers" /\ CiphersNext
    /\ UNCHANGED <<part, loopVars, watcherVars, processVars, childVars, win32Vars, stdioVars, ttyVars,
                   scriptVars, bufferVars, fileVars, digestVars>>

DigestsPart ==
    /\ part = "digests" /\ DigestsNext
    /\ UNCHANGED <<part, loopVars, watcherVars, processVars, childVars, win32Vars, stdioVars, ttyVars,
                   scriptVars, bufferVars, fileVars, cipherVars>>

Next ==
    \/ LoopPart \/ WatchersPart \/ ProcessPart \/ ChildPart \/ Win32Part \/ StdioPart
    \/ TtyPart \/ ScriptPart \/ BufferPart \/ FilePart \/ CiphersPart \/ DigestsPart

Spec == Init /\ [][Next]_suiteVars
=============================================================================
