---------------------------- MODULE NodeProcess ----------------------------
(***************************************************************************)
(* The process object of node.cc outside the event loop: the command line, *)
(* the debugger and the signal that starts it, the cache of bindings and   *)
(* the environment.  The debugger of V8, the C library and the kernel are  *)
(* external.                                                               *)
(***************************************************************************)
EXTENDS Naturals, Sequences, FiniteSets

CONSTANTS
    MaxArgs,        \* bound: arguments on the command line
    MaxMessages,    \* bound: messages of the debugger, and of SIGUSR1
    MaxExports      \* bound: objects that bindings are made for

ASSUME ProcessAssumption == {MaxArgs, MaxMessages, MaxExports} \subseteq Nat

VARIABLES
    cmdline,    \* the arguments as they were given, without argv[0]
    node,       \* argv and what ParseArgs takes from it, and how far Start has come
    debug,      \* V8's debugger, the signal handler and the async watcher
    bindings,   \* binding_cache, the objects made so far, and what JavaScript got
    environ     \* of the C library: names, with values or without one

processVars == <<cmdline, node, debug, bindings, environ>>

-----------------------------------------------------------------------------
\* Options of node that take nothing, that end the process, with a bad port; -e, which
\* takes the next argument; options for V8; a script or an argument of it.
Arg == {"--debug", "--debug-brk", "--debug=bad", "--version", "--max-stack-size",
        "-e", "--v8-options", "--v8", "name"}

Dash(a) == a # "name"

\* What ParseArgs leaves where an option was.
EmptyArg == ""

Module == {"fs", "constants", "unknown"}

EnvName == {"A", "B"}

EnvValue == {"3"}

\* An entry of environ without an equals sign has a name only.
NoValue == "none"

ProcessInit ==
    /\ \E n \in 0..MaxArgs : cmdline \in [1..n -> Arg]
    /\ node = [argv |-> cmdline, i |-> 1, option_end_index |-> 0, status |-> "ParseArgs",
               use_debug_agent |-> FALSE, debug_wait_connect |-> FALSE, eval |-> FALSE]
    /\ debug = [agent |-> FALSE, handler |-> FALSE, hit_signal |-> FALSE, asked |-> 0,
                messages |-> 0, handled |-> 0, async |-> FALSE]
    /\ bindings = [cache |-> [m \in {} |-> 0], made |-> 0, got |-> {}]
    /\ environ \in {<<>>, <<<<"B", NoValue>>>>, <<<<"A", "1">>, <<"A", "2">>>>}

\* An argument that was taken is replaced by an empty one.
ProcessTypeOK ==
    /\ node.i \in 1..Len(cmdline) + 1
    /\ node.status \in {"ParseArgs", "Start", "running", "exited"}
    /\ \A j \in DOMAIN cmdline : node.argv[j] \in {cmdline[j], EmptyArg, "--help"}
    /\ debug.handled + debug.messages = debug.asked
    /\ bindings.made <= MaxExports

-----------------------------------------------------------------------------
(* ParseArgs                                                               *)

ParseDebugOpt(n, a) ==
    IF a = "--debug=bad" THEN [n EXCEPT !.status = "exited"]
    ELSE [n EXCEPT !.use_debug_agent = TRUE,
                   !.debug_wait_connect = @ \/ a = "--debug-brk",
                   !.argv[n.i] = EmptyArg, !.i = @ + 1]

\* -e and --eval: the next argument is the script, whatever it looks like.
ParseEval(n) ==
    IF n.i + 1 > Len(cmdline) THEN [n EXCEPT !.status = "exited"]
    ELSE [n EXCEPT !.argv[n.i] = EmptyArg, !.eval = TRUE, !.i = @ + 2]

\* One argument of the loop of ParseArgs.
ParseArg(n, a) ==
    CASE a \in {"--debug", "--debug-brk", "--debug=bad"} -> ParseDebugOpt(n, a)
      [] a = "--version" -> [n EXCEPT !.status = "exited"]
      [] a = "--max-stack-size" -> [n EXCEPT !.argv[n.i] = EmptyArg, !.i = @ + 1]
      [] a = "-e" -> ParseEval(n)
      [] a = "--v8-options" -> [n EXCEPT !.argv[n.i] = "--help", !.i = @ + 1]
      [] a = "--v8" -> [n EXCEPT !.i = @ + 1]
      [] OTHER -> [n EXCEPT !.status = "Start", !.option_end_index = n.i]

ParseArgs ==
    /\ node.status = "ParseArgs"
    /\ node' = IF node.i > Len(cmdline)
               THEN [node EXCEPT !.status = "Start", !.option_end_index = node.i]
               ELSE ParseArg(node, node.argv[node.i])
    /\ UNCHANGED <<cmdline, debug, bindings, environ>>

-----------------------------------------------------------------------------
(* The debugger                                                            *)

\* EnableDebug: a second call finds the agent running.
EnableDebug(d) == [d EXCEPT !.agent = TRUE]

\* Start: the agent, or the handler of SIGUSR1.  The async watcher is started before.
StartDebug ==
    /\ node.status = "Start"
    /\ node' = [node EXCEPT !.status = "running"]
    /\ debug' = IF node.use_debug_agent THEN EnableDebug(debug)
                ELSE [debug EXCEPT !.handler = TRUE]
    /\ UNCHANGED <<cmdline, bindings, environ>>

\* SIGUSR1: without the handler the kernel ends the process.
EnableDebugSignalHandler ==
    /\ node.status = "running"
    /\ IF debug.handler
       THEN debug' = [debug EXCEPT !.hit_signal = TRUE] /\ UNCHANGED node
       ELSE node' = [node EXCEPT !.status = "exited"] /\ UNCHANGED debug
    /\ UNCHANGED <<cmdline, bindings, environ>>

\* The break that the handler asked for, when JavaScript runs next.
DebugSignalCB ==
    /\ node.status = "running" /\ debug.hit_signal
    /\ debug' = EnableDebug([debug EXCEPT !.hit_signal = FALSE])
    /\ UNCHANGED <<cmdline, node, bindings, environ>>

\* The debugger's thread queues a message and wakes the main thread.
DebugMessageDispatch(d) == [d EXCEPT !.async = TRUE]

DebugMessage ==
    /\ node.status = "running" /\ debug.agent /\ debug.asked < MaxMessages
    /\ debug' = DebugMessageDispatch([debug EXCEPT !.asked = @ + 1, !.messages = @ + 1])
    /\ UNCHANGED <<cmdline, node, bindings, environ>>

\* Debug::ProcessDebugMessages: all that wait.
DebugMessageCallback(d) ==
    [d EXCEPT !.async = FALSE, !.messages = 0, !.handled = @ + d.messages]

DebugAsync ==
    /\ node.status = "running" /\ debug.async
    /\ debug' = DebugMessageCallback(debug)
    /\ UNCHANGED <<cmdline, node, bindings, environ>>

-----------------------------------------------------------------------------
(* process.binding                                                         *)

\* get_builtin_module
Builtin(m) == m = "fs"

\* Mutant: the constants are made again for each caller.
Register_NoCache(b, m) ==
    [cache |-> b.cache, made |-> b.made + 1, got |-> b.got \union {<<m, b.made + 1>>}]

\* A new exports object, filled and cached.
Register(b, m) ==
    [cache |-> [x \in DOMAIN b.cache \union {m} |->
                    IF x = m THEN b.made + 1 ELSE b.cache[x]],
     made |-> b.made + 1, got |-> b.got \union {<<m, b.made + 1>>}]

Binding(m) ==
    /\ node.status = "running"
    /\ \/ /\ m \in DOMAIN bindings.cache
          /\ bindings' = [bindings EXCEPT !.got = @ \union {<<m, bindings.cache[m]>>}]
       \/ /\ m \notin DOMAIN bindings.cache /\ (Builtin(m) \/ m = "constants")
          /\ bindings.made < MaxExports
          /\ bindings' = Register(bindings, m)
       \/ /\ m \notin DOMAIN bindings.cache /\ ~Builtin(m) /\ m # "constants"
          /\ UNCHANGED bindings       \* throws
    /\ UNCHANGED <<cmdline, node, debug, environ>>

-----------------------------------------------------------------------------
(* process.env                                                             *)

\* getenv: the value of the first entry that has one.
EnvGetter(k) ==
    LET at == {i \in DOMAIN environ : environ[i][1] = k /\ environ[i][2] # NoValue} IN
    IF at = {} THEN NoValue ELSE environ[CHOOSE i \in at : \A j \in at : i <= j][2]

EnvQuery(k) == EnvGetter(k) # NoValue

\* setenv replaces the first entry of the name or adds one.
EnvSetter(k, v) ==
    /\ node.status = "running"
    /\ LET at == {i \in DOMAIN environ : environ[i][1] = k /\ environ[i][2] # NoValue} IN
       environ' = IF at = {} THEN Append(environ, <<k, v>>)
                  ELSE [environ EXCEPT ![CHOOSE i \in at : \A j \in at : i <= j] = <<k, v>>]
    /\ UNCHANGED <<cmdline, node, debug, bindings>>

\* unsetenv removes every entry of the name.
EnvDeleter(k) ==
    /\ node.status = "running" /\ EnvQuery(k)
    /\ environ' = SelectSeq(environ, LAMBDA e : e[1] # k \/ e[2] = NoValue)
    /\ UNCHANGED <<cmdline, node, debug, bindings>>

\* The names before the equals sign, or all of an entry without one.
EnvEnumerator == {environ[i][1] : i \in DOMAIN environ}

ProcessNext ==
    \/ ParseArgs \/ StartDebug \/ EnableDebugSignalHandler \/ DebugSignalCB
    \/ DebugMessage \/ DebugAsync
    \/ \E m \in Module : Binding(m)
    \/ \E k \in EnvName : EnvDeleter(k) \/ \E v \in EnvValue : EnvSetter(k, v)

ProcessSpec == ProcessInit /\ [][ProcessNext]_processVars

-----------------------------------------------------------------------------
(* Properties                                                              *)

\* Whether argument j is the script of a -e: an odd number of -e stands before it.
IsEvalArgument(j) ==
    \E n \in 1..j - 1 :
        /\ n % 2 = 1 /\ \A k \in 1..n : cmdline[j - k] = "-e"
        /\ j - n = 1 \/ cmdline[j - n - 1] # "-e"

\* The options end at the first argument that is neither an option nor the script of -e:
\* what follows is the script's, untouched, even if it looks like an option of node.
OptionsEndAtScript ==
    node.status = "running" =>
        LET names == {j \in DOMAIN cmdline : ~Dash(cmdline[j]) /\ ~IsEvalArgument(j)} IN
        /\ node.option_end_index =
               IF names = {} THEN Len(cmdline) + 1
               ELSE CHOOSE j \in names : \A k \in names : j <= k
        /\ \A j \in node.option_end_index..Len(cmdline) : node.argv[j] = cmdline[j]

\* Everyone who asks for a binding gets the same object.
OneBinding == \A g, h \in bindings.got : g[1] = h[1] => g[2] = h[2]

\* What process.env answers for is listed by its enumerator.
EnvListsWhatItGets == \A k \in EnvName : EnvQuery(k) => k \in EnvEnumerator

\* SIGUSR1 starts the agent, and every message of the debugger is processed, also those
\* that come while the main thread is already being woken.
DebugIsHeard ==
    /\ debug.hit_signal ~> debug.agent \/ node.status = "exited"
    /\ debug.messages > 0 ~> debug.messages = 0 \/ node.status = "exited"

\* The process object: the script gets its own arguments, everyone the same bindings, and
\* process.env lists what it answers for.
ProcessSafe ==
    /\ ProcessTypeOK
    /\ OptionsEndAtScript
    /\ OneBinding
    /\ EnvListsWhatItGets
=============================================================================
