----------------------------- MODULE NodeConsole -----------------------------
(***************************************************************************)
(* The two terminals of node v0.4.4 side by side: the one of a POSIX       *)
(* system and the console of Windows.  A build of node has one of them.    *)
(***************************************************************************)
EXTENDS NodeStdio, NodeTty

\* The terminal of a POSIX system and the console of Windows: stdio ends as it
\* began and keys are told in order.
ConsoleSafe == StdioSafe /\ TtySafe
=============================================================================
