----------------------------- MODULE NodeScript -----------------------------
(***************************************************************************)
(* Scripts and contexts of node v0.4.4: src/node_script.cc, behind         *)
(* lib/vm.js.  A script runs with the global object of this context, of a  *)
(* new one, or of one that createContext made.  EvalMachine copies the     *)
(* properties of a sandbox object to that global object before the script  *)
(* runs, and back once it has succeeded.                                   *)
(*                                                                         *)
(* A sandbox of runInContext is a context object with a context of its     *)
(* own; the context of runInNewContext ends with the call.  A script       *)
(* assigns to one variable, deletes it, makes it refer to its own global   *)
(* object, assigns and then throws, or has a syntax error.                 *)
(***************************************************************************)
EXTENDS Naturals

CONSTANTS
    Name,       \* names of properties
    Sandbox,    \* plain objects of the application
    ContextObj, \* objects that createContext may return
    MaxEvals    \* bound: runs of a script, and assignments between them

VARIABLES
    props,      \* the properties of the objects
    globals,    \* the global object of each context object, and of this context
    made,       \* the context objects that were made
    script,     \* what new Script was given last, or NoCode
    last,       \* the last run: where, whether it succeeded
    entered,    \* contexts entered and not left
    undisposed, \* new contexts not disposed of
    evals       \* calls so far

scriptVars == <<props, globals, made, script, last, entered, undisposed, evals>>

Absent == "absent"

GlobalRef == "global"

This == "this"

NoCode == [kind |-> "none", name |-> "none"]

Object == Sandbox \cup ContextObj

\* An object is none of the other values.
ASSUME ScriptAssumption == Object \cap {Absent, "old", "new", GlobalRef, This} = {}

\* A property is absent, a number, or refers to an object; one of a global object may
\* refer to that global object.
PropValue == {Absent, "old", "new"} \cup Object

Code == [kind : {"set", "delete", "setGlobal", "setAndThrow", "syntaxError"}, name : Name]

Fresh == [n \in Name |-> Absent]

ScriptInit ==
    /\ props = [o \in Object |-> Fresh]
    /\ globals = [c \in ContextObj \cup {This} |-> Fresh]
    /\ made = {}
    /\ script = NoCode
    /\ last = [at |-> This, ok |-> TRUE, in |-> Fresh, was |-> Fresh, run |-> FALSE]
    /\ entered = 0
    /\ undisposed = 0
    /\ evals = 0

\* Another call.
Evaluates == evals < MaxEvals /\ evals' = evals + 1

\* The application assigns to a property of a sandbox.
Assign(o, n, v) ==
    /\ Evaluates /\ (o \in ContextObj => o \in made)
    /\ props' = [props EXCEPT ![o][n] = v]
    /\ last' = [last EXCEPT !.run = FALSE]
    /\ UNCHANGED <<globals, made, script, entered, undisposed>>

\* createContext(sandbox): a new context object with the properties of the sandbox.
CreateContext(c, o) ==
    /\ Evaluates /\ c \notin made
    /\ made' = made \cup {c}
    /\ props' = [props EXCEPT ![c] = props[o]]
    /\ last' = [last EXCEPT !.run = FALSE]
    /\ UNCHANGED <<globals, script, entered, undisposed>>

\* new Script(code): the code is compiled; one that does not compile leaves no script.
NewScript(code) ==
    /\ Evaluates
    /\ script' = IF code.kind = "syntaxError" THEN NoCode ELSE code
    /\ UNCHANGED <<props, globals, made, last, entered, undisposed>>

-----------------------------------------------------------------------------
(* EvalMachine. *)

\* The sandbox is copied to the global object; a reference to the sandbox becomes one
\* to the global object.
CopyIn(o, global) ==
    [n \in Name |-> IF props[o][n] = Absent THEN global[n] ELSE IF props[o][n] = o THEN GlobalRef ELSE props[o][n]]

\* What a script leaves in its global object.
Run(code, global) ==
    CASE code.kind \in {"set", "setAndThrow"} -> [global EXCEPT ![code.name] = "new"]
      [] code.kind = "delete" -> [global EXCEPT ![code.name] = Absent]
      [] code.kind = "setGlobal" -> [global EXCEPT ![code.name] = GlobalRef]
      [] OTHER -> global

Succeeds(code) == code.kind \notin {"setAndThrow", "syntaxError"}

CopyOut_Raw(o, global) == [n \in Name |-> IF global[n] = Absent THEN props[o][n] ELSE global[n]]

\* The global object is copied back, with its references to itself made into
\* references to the sandbox.
CopyOut(o, global) ==
    [n \in Name |-> IF global[n] = Absent THEN props[o][n] ELSE IF global[n] = GlobalRef THEN o ELSE global[n]]

\* The sandbox once the script has run.
AfterRun(code, o, global) == IF Succeeds(code) THEN CopyOut(o, global) ELSE props[o]

\* runInThisContext
RunInThisContext(code) ==
    /\ Evaluates
    /\ globals' = [globals EXCEPT ![This] = Run(code, globals[This])]
    /\ last' = [at |-> This, ok |-> Succeeds(code), in |-> Fresh, was |-> Fresh, run |-> TRUE]
    /\ UNCHANGED <<props, made, script, entered, undisposed>>

\* runInContext: the context is left only when the script succeeded.
RunInContext(code, c) ==
    LET global == Run(code, CopyIn(c, globals[c])) IN
    /\ Evaluates /\ c \in made
    /\ globals' = [globals EXCEPT ![c] = global]
    /\ props' = [props EXCEPT ![c] = AfterRun(code, c, global)]
    /\ last' = [at |-> c, ok |-> Succeeds(code), in |-> global, was |-> props[c], run |-> TRUE]
    /\ entered' = IF Succeeds(code) THEN entered ELSE entered + 1
    /\ UNCHANGED <<made, script, undisposed>>

\* runInNewContext: a context of its own, left and disposed of unless the code does not
\* compile.
RunInNewContext(code, o) ==
    LET global == Run(code, CopyIn(o, Fresh)) IN
    /\ Evaluates
    /\ props' = [props EXCEPT ![o] = AfterRun(code, o, global)]
    /\ last' = [at |-> o, ok |-> Succeeds(code), in |-> global, was |-> props[o], run |-> TRUE]
    /\ entered' = IF code.kind = "syntaxError" THEN entered + 1 ELSE entered
    /\ undisposed' = IF code.kind = "syntaxError" THEN undisposed + 1 ELSE undisposed
    /\ UNCHANGED <<globals, made, script>>

\* The functions of Script compile their code, its methods use the script's.
ScriptNext ==
    \/ \E o \in Object, n \in Name, v \in {"old"} \cup Object : Assign(o, n, v)
    \/ \E c \in ContextObj, o \in Sandbox : CreateContext(c, o)
    \/ \E code \in Code : NewScript(code)
    \/ \E code \in Code \cup ({script} \ {NoCode}) :
         \/ RunInThisContext(code)
         \/ \E c \in ContextObj : RunInContext(code, c)
         \/ \E o \in Sandbox : RunInNewContext(code, o)

ScriptSpec == ScriptInit /\ [][ScriptNext]_scriptVars

-----------------------------------------------------------------------------
(* Properties. *)

\* Types; what a sandbox refers to is never the global object of a context, which
\* may have been disposed of, whatever the script assigned.
ScriptTypeOK ==
    /\ props \in [Object -> [Name -> PropValue]]
    /\ globals \in [ContextObj \cup {This} -> [Name -> PropValue \cup {GlobalRef}]]

\* A script finds its own global object wherever its sandbox refers to itself, and a
\* context never holds its own context object.
SelfIsGlobal == \A c \in ContextObj, n \in Name : globals[c][n] # c

\* After a run that succeeded the sandbox has every variable of the global object
\* with its value.
SandboxInStep ==
    last.run /\ last.ok /\ last.at # This =>
        \A n \in Name : last.in[n] # Absent =>
            props[last.at][n] = (IF last.in[n] = GlobalRef THEN last.at ELSE last.in[n])

\* A run that throws leaves the sandbox as it was.
FailureKeepsSandbox == last.run /\ ~last.ok /\ last.at # This => props[last.at] = last.was

\* Contexts: a sandbox never gets hold of a global object, is in step with it after a run
\* that succeeded and untouched by one that failed.
ScriptSafe ==
    /\ ScriptTypeOK
    /\ SelfIsGlobal
    /\ SandboxInStep
    /\ FailureKeepsSandbox
=============================================================================
