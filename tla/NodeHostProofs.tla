---------------------------- MODULE NodeHostProofs ----------------------------
(***************************************************************************)
(* What node does with its host: child processes, on POSIX systems and on  *)
(* Windows, the terminal of the one and the console of the other, and      *)
(* files, for any number of children, events and calls.                    *)
(***************************************************************************)
EXTENDS NodeChildProcess, NodeConsole, NodeFile, NodeChildWin32, Integers,
        FiniteSetTheorems, SequenceTheorems, TLAPS

-----------------------------------------------------------------------------
(***************************************************************************)
(* Children.  ChildSafe of NodeChildProcess for any set of children, any   *)
(* choice of custom descriptors, any amount of output and any maxBuffer.   *)
(*                                                                         *)
(* What a child's streams, its process, its pipes and its execFile promise *)
(* each other is local to the child; the children only meet in the pipes,  *)
(* where vfork() could give one child the ends of another one's.  The      *)
(* inductive invariant therefore says, child by child, how far its life,   *)
(* its streams and its answer have come, and that every pipe that is made  *)
(* is closed on exec: a step of one child can then only take holders away  *)
(* from the pipes of the others.                                           *)
(***************************************************************************)

Status == {"none", "ok", "failed", "signal"}

Answer == Status \cup {"killed", "maxBuffer"}

ChildRecs ==
    [st : {"new", "spawned", "failed"}, pid : BOOLEAN, watcher : BOOLEAN, refs : Nat,
     custom : SUBSET Stdio, readable : SUBSET {1, 2}, closing : SUBSET {1, 2}, closed : SUBSET {1, 2},
     gotCHLD : BOOLEAN, code : Status, killed : BOOLEAN, exits : Nat, got : [Stdio -> Nat]]

ProcRecs ==
    [st : {"none", "running", "zombie", "reaped"}, status : Status, signalled : BOOLEAN,
     written : [Stdio -> Nat]]

PipeRecs ==
    [made : BOOLEAN, cloexec : BOOLEAN, readers : SUBSET Holder, writers : SUBSET Holder, data : Nat]

ExecRecs ==
    [on : BOOLEAN, killed : BOOLEAN, exited : BOOLEAN, err : BOOLEAN, timer : BOOLEAN, ticks : Nat,
     answers : Seq(Answer)]

\* The life of a child: it is watched from its start until its end was
\* reported, and the end is reported with the status it ended with.
Life(ch, p) ==
    /\ ch.watcher <=> ch.pid
    /\ ch.watcher => ch.refs = 1
    /\ ~ch.watcher => ch.refs = 0
    /\ ch.st # "spawned" => ~ch.watcher /\ ~ch.gotCHLD /\ p.st = "none"
    /\ ch.st = "spawned" => p.st # "none" /\ (ch.watcher <=> ~ch.gotCHLD)
    /\ ch.gotCHLD => p.st = "reaped" /\ ch.code = p.status

\* Its streams are read, then closing, then closed; 'exit' waits for the ones
\* that are read, and is emitted a second time only by the last 'close'.
Streams(ch) ==
    /\ ch.readable \cap ch.closing = {} /\ ch.readable \cap ch.closed = {} /\ ch.closing \cap ch.closed = {}
    /\ ch.st # "spawned" => ch.readable = {} /\ ch.closing = {} /\ ch.closed = {}
    /\ ch.st # "spawned" => \A i \in Stdio : ch.got[i] = 0
    /\ ch.st = "spawned" => ch.readable \cup ch.closing \cup ch.closed = {1, 2} \ ch.custom
    /\ ch.exits > 0 => ch.gotCHLD /\ ch.readable = {}
    /\ ch.exits <= 2
    /\ ch.closing # {} => ch.exits <= 1

\* One of its pipes: every piece written is in the pipe or was delivered, and
\* the ends are held by node and by the running child, on their own sides.
Flow(c, ch, p, q, i) ==
    /\ q.made => q.cloexec
    /\ ~q.made => q.readers = {} /\ q.writers = {}
    /\ ch.got[i] + q.data = p.written[i]
    /\ i = 0 => p.written[i] = 0
    /\ i # 0 /\ i \notin ch.readable => q.data = 0
    /\ ch.st = "spawned" =>
         /\ i = 0 => q.readers \subseteq {c} /\ q.writers \subseteq {"node"}
         /\ i # 0 => q.readers \subseteq {"node"} /\ q.writers \subseteq {c}
         /\ i = 0 /\ ch.gotCHLD => q.writers = {}
         /\ i # 0 /\ i \notin ch.readable => q.readers = {} /\ q.writers = {}
         /\ p.st # "running" => c \notin q.readers /\ c \notin q.writers

Output(p) == p.written[1] + p.written[2] <= MaxOutput

\* What execFile knows: its answer is the first one, and a good one was given
\* when all output was in and none of it was too much.
Answers(ch, p, e) ==
    /\ e.on => ch.st = "spawned" /\ ch.custom = {}
    /\ ~e.exited => e.answers = <<>>
    /\ Len(e.answers) <= 1
    /\ e.answers = <<"ok">> => e.on /\ ~e.err /\ ch.gotCHLD /\ ch.readable = {} /\ p.status = "ok"
    /\ e.on /\ ~e.err => ch.got[1] <= MaxBuffer /\ ch.got[2] <= MaxBuffer

Local(c, ch, p, ps, e) ==
    /\ ch \in ChildRecs /\ p \in ProcRecs /\ ps \in [Stdio -> PipeRecs] /\ e \in ExecRecs
    /\ Life(ch, p)
    /\ Streams(ch)
    /\ \A i \in Stdio : Flow(c, ch, p, ps[i], i)
    /\ Output(p)
    /\ Answers(ch, p, e)

ChildInv ==
    /\ child \in [Child -> ChildRecs]
    /\ proc \in [Child -> ProcRecs]
    /\ pipes \in [Child -> [Stdio -> PipeRecs]]
    /\ execs \in [Child -> ExecRecs]
    /\ \A c \in Child : Local(c, child[c], proc[c], pipes[c], execs[c])

-----------------------------------------------------------------------------
(* Frames: what a step does to the other children. *)

\* The ends of a pipe are held by fewer processes than before, and its
\* contents are the same.
Shrunk(new, old) ==
    /\ new \in [Stdio -> PipeRecs]
    /\ \A i \in Stdio :
         /\ new[i].made = old[i].made /\ new[i].cloexec = old[i].cloexec /\ new[i].data = old[i].data
         /\ new[i].readers \subseteq old[i].readers /\ new[i].writers \subseteq old[i].writers

\* The invariant only bounds who holds the ends of a child's pipes from above:
\* a process that lets go of them, as any process does when it ends, keeps it.
LEMMA ShrinkKeeps ==
    ASSUME NEW c, NEW ch, NEW p, NEW ps, NEW e, NEW new, Local(c, ch, p, ps, e), Shrunk(new, ps)
    PROVE  Local(c, ch, p, new, e)
<1>1. \A i \in Stdio : Flow(c, ch, p, new[i], i)
  <2>1. SUFFICES ASSUME NEW i \in Stdio PROVE Flow(c, ch, p, new[i], i)
    OBVIOUS
  <2>2. Flow(c, ch, p, ps[i], i)
    BY DEF Local
  <2>3. PICK q : q = ps[i]
    OBVIOUS
  <2>4. PICK n : n = new[i]
    OBVIOUS
  <2>5. /\ n.made = q.made /\ n.cloexec = q.cloexec /\ n.data = q.data
        /\ n.readers \subseteq q.readers /\ n.writers \subseteq q.writers
    BY <2>3, <2>4 DEF Shrunk
  <2>6. Flow(c, ch, p, q, i)
    BY <2>2, <2>3
  <2>7. Flow(c, ch, p, n, i)
    BY <2>5, <2>6 DEF Flow
  <2> QED
    BY <2>4, <2>7
<1> QED
  BY <1>1 DEF Local, Shrunk

\* A step of one child keeps the invariant if it keeps that child's part and
\* only takes holders away from the pipes of the others.
LEMMA FrameKeeps ==
    ASSUME ChildInv, NEW c \in Child, NEW ch, NEW p, NEW ps, NEW e, Local(c, ch, p, ps, e),
           child' = [child EXCEPT ![c] = ch], proc' = [proc EXCEPT ![c] = p],
           execs' = [execs EXCEPT ![c] = e],
           pipes' \in [Child -> [Stdio -> PipeRecs]], pipes'[c] = ps,
           \A d \in Child \ {c} : Shrunk(pipes'[d], pipes[d])
    PROVE  ChildInv'
<1>1. /\ child' \in [Child -> ChildRecs] /\ proc' \in [Child -> ProcRecs] /\ execs' \in [Child -> ExecRecs]
      /\ child'[c] = ch /\ proc'[c] = p /\ execs'[c] = e
      /\ \A d \in Child \ {c} : child'[d] = child[d] /\ proc'[d] = proc[d] /\ execs'[d] = execs[d]
  BY DEF ChildInv, Local
<1>2. ASSUME NEW d \in Child PROVE Local(d, child'[d], proc'[d], pipes'[d], execs'[d])
  <2>1. CASE d = c
    BY <1>1, <2>1
  <2>2. CASE d # c
    <3>1. Local(d, child[d], proc[d], pipes[d], execs[d])
      BY DEF ChildInv
    <3>2. Local(d, child[d], proc[d], pipes'[d], execs[d])
      BY <2>2, <3>1, ShrinkKeeps
    <3> QED
      BY <1>1, <2>2, <3>2
  <2> QED
    BY <2>1, <2>2
<1> QED
  BY <1>1, <1>2 DEF ChildInv

\* The same for a step that leaves the pipes of the others alone.
LEMMA AloneKeeps ==
    ASSUME ChildInv, NEW c \in Child, NEW ch, NEW p, NEW ps, NEW e, Local(c, ch, p, ps, e),
           child' = [child EXCEPT ![c] = ch], proc' = [proc EXCEPT ![c] = p],
           execs' = [execs EXCEPT ![c] = e], pipes' = [pipes EXCEPT ![c] = ps]
    PROVE  ChildInv'
<1>1. /\ pipes' \in [Child -> [Stdio -> PipeRecs]] /\ pipes'[c] = ps
      /\ \A d \in Child \ {c} : pipes'[d] = pipes[d] /\ pipes[d] \in [Stdio -> PipeRecs]
  BY DEF ChildInv, Local
<1>2. \A d \in Child \ {c} : Shrunk(pipes'[d], pipes[d])
  BY <1>1 DEF Shrunk
<1> QED
  BY <1>1, <1>2, FrameKeeps

-----------------------------------------------------------------------------
(* The start. *)

\* The three streams.
LEMMA StdioIs == Stdio = {0, 1, 2}
BY DEF Stdio

\* A new ChildProcess object, with no process, no pipes and no execFile.
LEMMA ChildStarts == ASSUME ChildInit PROVE ChildInv
<1> DEFINE none == [st |-> "none", status |-> "none", signalled |-> FALSE, written |-> [i \in Stdio |-> 0]]
           nopipes == [i \in Stdio |-> NewPipe]
<1>1. NewChild \in ChildRecs /\ none \in ProcRecs
  <2>1. [i \in Stdio |-> 0] \in [Stdio -> Nat]
    OBVIOUS
  <2> QED
    BY <2>1 DEF NewChild, ChildRecs, ProcRecs, Status
<1>2. nopipes \in [Stdio -> PipeRecs] /\ NewExec \in ExecRecs
  <2>1. <<>> \in Seq(Answer)
    OBVIOUS
  <2> QED
    BY <2>1 DEF NewPipe, PipeRecs, NewExec, ExecRecs
<1>3. /\ NewChild.st = "new" /\ ~NewChild.pid /\ ~NewChild.watcher /\ NewChild.refs = 0 /\ ~NewChild.gotCHLD
      /\ NewChild.readable = {} /\ NewChild.closing = {} /\ NewChild.closed = {} /\ NewChild.exits = 0
      /\ NewChild.got = [i \in Stdio |-> 0]
  BY DEF NewChild
<1>4. /\ none.st = "none" /\ none.written = [i \in Stdio |-> 0]
      /\ NewPipe.readers = {} /\ NewPipe.writers = {} /\ NewPipe.data = 0 /\ ~NewPipe.made
      /\ ~NewExec.on /\ NewExec.answers = <<>>
  BY DEF NewPipe, NewExec
<1>5. ASSUME NEW c \in Child PROVE Local(c, NewChild, none, nopipes, NewExec)
  <2>1. Life(NewChild, none)
    BY <1>3, <1>4 DEF Life
  <2>2. Streams(NewChild)
    BY <1>3 DEF Streams
  <2>3. ASSUME NEW i \in Stdio PROVE Flow(c, NewChild, none, nopipes[i], i)
    BY <1>3, <1>4 DEF Flow
  <2>4. Output(none)
    BY <1>4, StdioIs, ChildAssumption DEF Output
  <2>5. Answers(NewChild, none, NewExec)
    <3>1. <<>> # <<"ok">> /\ Len(<<>>) <= 1
      OBVIOUS
    <3> QED
      BY <1>3, <1>4, <3>1 DEF Answers
  <2> HIDE DEF none, nopipes
  <2> QED
    BY <1>1, <1>2, <2>1, <2>2, <2>3, <2>4, <2>5 DEF Local
<1>6. /\ child = [c \in Child |-> NewChild] /\ proc = [c \in Child |-> none]
      /\ pipes = [c \in Child |-> nopipes] /\ execs = [c \in Child |-> NewExec]
  BY DEF ChildInit
<1> HIDE DEF none, nopipes
<1> QED
  BY <1>1, <1>2, <1>5, <1>6 DEF ChildInv

-----------------------------------------------------------------------------
(* The processes. *)

\* A piece of output is counted where it was written and lies in the pipe.
LEMMA WritesKeeps ==
    ASSUME ChildInv, NEW c \in Child, NEW i \in {1, 2}, ProcessWrites(c, i)
    PROVE  ChildInv'
<1>1. PICK ch, p, ps, e : ch = child[c] /\ p = proc[c] /\ ps = pipes[c] /\ e = execs[c]
  OBVIOUS
<1>2. Local(c, ch, p, ps, e)
  BY <1>1 DEF ChildInv
<1>3. /\ p.st = "running" /\ c \in ps[i].writers
      /\ p.written[1] + p.written[2] < MaxOutput
  BY <1>1 DEF ProcessWrites
<1>4. PICK w \in [Stdio -> Nat] : w = [p.written EXCEPT ![i] = @ + 1]
  <2>1. PICK f \in [Stdio -> Nat] : f = p.written
    BY <1>2 DEF Local, ProcRecs
  <2>2. PICK m \in Nat : m = f[i] + 1
    BY StdioIs
  <2>3. [f EXCEPT ![i] = m] \in [Stdio -> Nat]
    OBVIOUS
  <2> QED
    BY <2>1, <2>2, <2>3
<1>5. PICK q \in PipeRecs : q = ps[i]
  BY <1>2, StdioIs DEF Local
<1>6. PICK n \in Nat : n = q.data + 1
  BY DEF PipeRecs
<1> DEFINE p2 == [p EXCEPT !.written = w]
           q2 == [q EXCEPT !.data = n]
           ps2 == [ps EXCEPT ![i] = q2]
<1>7. p2 \in ProcRecs /\ p2.st = p.st /\ p2.status = p.status /\ p2.written = w
  BY <1>2 DEF Local, ProcRecs
<1>8. q2 \in PipeRecs /\ q2.made = q.made /\ q2.cloexec = q.cloexec /\ q2.readers = q.readers
      /\ q2.writers = q.writers /\ q2.data = n
  BY DEF PipeRecs
<1>9. proc' = [proc EXCEPT ![c] = p2]
  <2>1. proc' = [proc EXCEPT ![c].written[i] = @ + 1]
    BY DEF ProcessWrites
  <2> QED
    BY <1>1, <1>4, <2>1 DEF ChildInv
<1>10. pipes' = [pipes EXCEPT ![c] = ps2]
  <2>1. pipes' = [pipes EXCEPT ![c][i].data = @ + 1]
    BY DEF ProcessWrites
  <2> QED
    BY <1>1, <1>5, <1>6, <2>1 DEF ChildInv
<1> HIDE DEF p2, q2
<1>11. /\ ps2 \in [Stdio -> PipeRecs] /\ ps2[i] = q2 /\ \A j \in Stdio \ {i} : ps2[j] = ps[j]
  BY <1>2, <1>8, StdioIs DEF Local
<1> HIDE DEF ps2
<1>12. i \in ch.readable /\ ch.st = "spawned"
  <2>1. Flow(c, ch, p, q, i) /\ Life(ch, p)
    BY <1>2, <1>5, StdioIs DEF Local
  <2>2. ch.st = "spawned"
    BY <1>3, <2>1 DEF Life
  <2> QED
    BY <1>3, <1>5, <2>1, <2>2 DEF Flow
<1>13. \A j \in Stdio : w[j] \in Nat /\ p.written[j] \in Nat /\ ch.got[j] \in Nat
  BY <1>2 DEF Local, ProcRecs, ChildRecs
<1>14. w[i] = p.written[i] + 1 /\ \A j \in Stdio \ {i} : w[j] = p.written[j]
  BY <1>2, <1>4, StdioIs DEF Local, ProcRecs
<1>15. ASSUME NEW j \in Stdio PROVE Flow(c, ch, p2, ps2[j], j)
  <2>1. Flow(c, ch, p, ps[j], j)
    BY <1>2 DEF Local
  <2>2. CASE j = i
    <3>1. ch.got[i] + n = w[i]
      <4>1. ch.got[i] + q.data = p.written[i] /\ q.data \in Nat
        BY <1>5, <2>1, <2>2 DEF Flow, PipeRecs
      <4> QED
        BY <1>6, <1>13, <1>14, <4>1, StdioIs
    <3>2. Flow(c, ch, p, q, i)
      BY <1>5, <2>1, <2>2
    <3>3. Flow(c, ch, p2, q2, i)
      BY <1>7, <1>8, <1>12, <3>1, <3>2 DEF Flow
    <3> QED
      BY <1>11, <2>2, <3>3
  <2>3. CASE j # i
    <3>1. ps2[j] = ps[j] /\ w[j] = p.written[j]
      BY <1>11, <1>14, <2>3
    <3> QED
      BY <1>7, <2>1, <3>1 DEF Flow
  <2> QED
    BY <2>2, <2>3
<1>16. Output(p2)
  BY <1>3, <1>7, <1>13, <1>14, StdioIs, ChildAssumption DEF Output
<1>17. Life(ch, p2) /\ Answers(ch, p2, e)
  BY <1>2, <1>7 DEF Local, Life, Answers
<1>18. Local(c, ch, p2, ps2, e)
  BY <1>2, <1>7, <1>11, <1>15, <1>16, <1>17 DEF Local
<1>19. child' = [child EXCEPT ![c] = ch] /\ execs' = [execs EXCEPT ![c] = e]
  BY <1>1 DEF ProcessWrites, ChildInv
<1> QED
  BY <1>9, <1>10, <1>18, <1>19, AloneKeeps

\* A process without the ends of any pipe, as after its end.
Without(ps, c) == [i \in Stdio |-> [ps[i] EXCEPT !.readers = @ \ {c}, !.writers = @ \ {c}]]

\* Letting go of all ends is letting go.
LEMMA WithoutShrinks ==
    ASSUME NEW c, NEW ps \in [Stdio -> PipeRecs]
    PROVE  /\ Shrunk(Without(ps, c), ps)
           /\ \A i \in Stdio : c \notin Without(ps, c)[i].readers /\ c \notin Without(ps, c)[i].writers
<1>1. ASSUME NEW i \in Stdio
      PROVE  LET n == Without(ps, c)[i]
             IN  /\ n \in PipeRecs /\ n.made = ps[i].made /\ n.cloexec = ps[i].cloexec /\ n.data = ps[i].data
                 /\ n.readers = ps[i].readers \ {c} /\ n.writers = ps[i].writers \ {c}
  <2>1. PICK q \in PipeRecs : q = ps[i]
    OBVIOUS
  <2>2. Without(ps, c)[i] = [q EXCEPT !.readers = @ \ {c}, !.writers = @ \ {c}]
    BY <2>1 DEF Without
  <2>3. PICK r \in SUBSET Holder, w \in SUBSET Holder : r = q.readers \ {c} /\ w = q.writers \ {c}
    BY DEF PipeRecs
  <2>4. Without(ps, c)[i] = [q EXCEPT !.readers = r, !.writers = w]
    BY <2>2, <2>3
  <2> QED
    BY <2>1, <2>3, <2>4 DEF PipeRecs
<1>2. Without(ps, c) \in [Stdio -> PipeRecs]
  <2>1. Without(ps, c) = [i \in Stdio |-> Without(ps, c)[i]]
    BY DEF Without
  <2> QED
    BY <1>1, <2>1
<1> QED
  BY <1>1, <1>2 DEF Shrunk

\* The end of a process closes its ends, of its own pipes and of those it
\* might have inherited.
LEMMA EndsKeeps ==
    ASSUME ChildInv, NEW c \in Child, NEW status \in {"ok", "failed", "signal"}, ProcessEnds(c, status)
    PROVE  ChildInv'
<1>1. PICK ch, p, ps, e : ch = child[c] /\ p = proc[c] /\ ps = pipes[c] /\ e = execs[c]
  OBVIOUS
<1>2. Local(c, ch, p, ps, e)
  BY <1>1 DEF ChildInv
<1>3. p.st = "running" /\ ch.st = "spawned" /\ ~ch.gotCHLD
  <2>1. p.st = "running" /\ Life(ch, p)
    BY <1>1, <1>2 DEF ProcessEnds, Local
  <2> QED
    BY <2>1 DEF Life
<1> DEFINE p2 == [p EXCEPT !.st = "zombie", !.status = status]
<1>4. p2 \in ProcRecs /\ p2.st = "zombie" /\ p2.written = p.written
  BY <1>2 DEF Local, ProcRecs, Status
<1>5. proc' = [proc EXCEPT ![c] = p2]
  BY <1>1 DEF ProcessEnds, ChildInv
<1>6. \A d \in Child : pipes'[d] = Without(pipes[d], c)
  BY DEF ProcessEnds, Without
<1>7. \A d \in Child : Shrunk(pipes'[d], pipes[d])
  BY <1>6, WithoutShrinks DEF ChildInv
<1>8. pipes' \in [Child -> [Stdio -> PipeRecs]]
  <2>1. \A d \in Child : pipes'[d] \in [Stdio -> PipeRecs]
    BY <1>7 DEF Shrunk
  <2>2. pipes' = [d \in Child |-> pipes'[d]]
    BY DEF ProcessEnds
  <2> QED
    BY <2>1, <2>2
<1>9. PICK new : new = pipes'[c]
  OBVIOUS
<1>10. /\ Shrunk(new, ps)
       /\ \A i \in Stdio : c \notin new[i].readers /\ c \notin new[i].writers
  BY <1>1, <1>6, <1>9, WithoutShrinks DEF ChildInv
<1>11. Local(c, ch, p, new, e)
  BY <1>2, <1>10, ShrinkKeeps
<1> HIDE DEF p2
<1>12. Life(ch, p2) /\ Output(p2)
  BY <1>3, <1>4, <1>11 DEF Local, Life, Output
<1>13. ASSUME NEW i \in Stdio PROVE Flow(c, ch, p2, new[i], i)
  <2>1. Flow(c, ch, p, new[i], i)
    BY <1>11 DEF Local
  <2> QED
    BY <1>3, <1>4, <1>10, <2>1 DEF Flow
<1>14. Answers(ch, p2, e)
  BY <1>3, <1>11 DEF Local, Answers
<1>15. Local(c, ch, p2, new, e)
  BY <1>4, <1>11, <1>12, <1>13, <1>14 DEF Local
<1>16. child' = [child EXCEPT ![c] = ch] /\ execs' = [execs EXCEPT ![c] = e]
  BY <1>1 DEF ProcessEnds, ChildInv
<1> QED
  BY <1>5, <1>7, <1>8, <1>9, <1>15, <1>16, FrameKeeps

\* All processes that have ended are waited for.
LEMMA ReapKeeps == ASSUME ChildInv, Reap PROVE ChildInv'
<1> DEFINE w(q) == IF q.st = "zombie" THEN [q EXCEPT !.st = "reaped"] ELSE q
<1>1. ASSUME NEW q \in ProcRecs
      PROVE  /\ w(q) \in ProcRecs /\ w(q).status = q.status /\ w(q).written = q.written
             /\ q.st = "zombie" => w(q).st = "reaped"
             /\ q.st # "zombie" => w(q).st = q.st
  BY DEF ProcRecs
<1>2. proc' = [c \in Child |-> w(proc[c])] /\ UNCHANGED <<child, pipes, execs>>
  BY DEF Reap
<1> HIDE DEF w
<1>3. ASSUME NEW c \in Child PROVE Local(c, child[c], w(proc[c]), pipes[c], execs[c])
  <2>1. PICK ch, p, ps, e : ch = child[c] /\ p = proc[c] /\ ps = pipes[c] /\ e = execs[c]
    OBVIOUS
  <2>2. Local(c, ch, p, ps, e)
    BY <2>1 DEF ChildInv
  <2>3. PICK p2 : p2 = w(p)
    OBVIOUS
  <2>4. /\ p2 \in ProcRecs /\ p2.status = p.status /\ p2.written = p.written
        /\ p.st = "zombie" => p2.st = "reaped"
        /\ p.st # "zombie" => p2.st = p.st
    BY <1>1, <2>2, <2>3 DEF Local
  <2>5. Life(ch, p2) /\ Output(p2) /\ Answers(ch, p2, e)
    BY <2>2, <2>4 DEF Local, Life, Output, Answers
  <2>6. ASSUME NEW i \in Stdio PROVE Flow(c, ch, p2, ps[i], i)
    <3>1. Flow(c, ch, p, ps[i], i)
      BY <2>2 DEF Local
    <3> QED
      BY <2>4, <3>1 DEF Flow
  <2> QED
    BY <2>1, <2>2, <2>3, <2>4, <2>5, <2>6 DEF Local
<1>4. proc' \in [Child -> ProcRecs]
  BY <1>1, <1>2 DEF ChildInv
<1> QED
  BY <1>2, <1>3, <1>4 DEF ChildInv

-----------------------------------------------------------------------------
(* Signals and execFile. *)

\* Whether a signal was sent is nobody's promise.
LEMMA SignalKeeps ==
    ASSUME NEW c, NEW ch, NEW p, NEW ps, NEW e, Local(c, ch, p, ps, e), NEW k \in BOOLEAN, NEW b \in BOOLEAN
    PROVE  Local(c, [ch EXCEPT !.killed = k], [p EXCEPT !.signalled = b], ps, e)
<1> DEFINE ch2 == [ch EXCEPT !.killed = k]
           p2 == [p EXCEPT !.signalled = b]
<1>1. /\ ch2 \in ChildRecs /\ ch2.st = ch.st /\ ch2.pid = ch.pid /\ ch2.watcher = ch.watcher
      /\ ch2.refs = ch.refs /\ ch2.custom = ch.custom /\ ch2.gotCHLD = ch.gotCHLD /\ ch2.code = ch.code
      /\ ch2.readable = ch.readable /\ ch2.closing = ch.closing /\ ch2.closed = ch.closed
      /\ ch2.exits = ch.exits /\ ch2.got = ch.got
  BY DEF Local, ChildRecs
<1>2. p2 \in ProcRecs /\ p2.st = p.st /\ p2.status = p.status /\ p2.written = p.written
  BY DEF Local, ProcRecs
<1> HIDE DEF ch2, p2
<1>3. Life(ch2, p2) /\ Output(p2)
  BY <1>1, <1>2 DEF Local, Life, Output
<1>4. Streams(ch2) /\ Answers(ch2, p2, e)
  BY <1>1, <1>2 DEF Local, Streams, Answers
<1>5. ASSUME NEW i \in Stdio PROVE Flow(c, ch2, p2, ps[i], i)
  <2>1. Flow(c, ch, p, ps[i], i)
    BY DEF Local
  <2> QED
    BY <1>1, <1>2, <2>1 DEF Flow
<1>6. Local(c, ch2, p2, ps, e)
  BY <1>1, <1>2, <1>3, <1>4, <1>5 DEF Local
<1> QED
  BY <1>6 DEF ch2, p2

\* Kill sets its mark and may send a signal, and does nothing else.
LEMMA KillEffect ==
    ASSUME ChildInv, NEW c \in Child, KillInternal(c)
    PROVE  \E k \in BOOLEAN, b \in BOOLEAN :
               /\ child' = [child EXCEPT ![c] = [child[c] EXCEPT !.killed = k]]
               /\ proc' = [proc EXCEPT ![c] = [proc[c] EXCEPT !.signalled = b]]
<1>1. PICK ch \in ChildRecs : ch = child[c]
  BY DEF ChildInv
<1>2. PICK p \in ProcRecs : p = proc[c]
  BY DEF ChildInv
<1>3. PICK k \in BOOLEAN : k = IF ~ch.killed THEN ch.pid ELSE ch.killed
  BY DEF ChildRecs
<1>4. child' = [child EXCEPT ![c] = [ch EXCEPT !.killed = k]]
  <2>1. child' = [child EXCEPT ![c].killed = IF ~@ THEN child[c].pid ELSE @]
    BY DEF KillInternal
  <2> QED
    BY <1>1, <1>3, <2>1
<1>5. \E b \in BOOLEAN : proc' = [proc EXCEPT ![c] = [p EXCEPT !.signalled = b]]
  <2>1. p = [p EXCEPT !.signalled = p.signalled] /\ p.signalled \in BOOLEAN
    BY DEF ProcRecs
  <2>2. proc = [proc EXCEPT ![c] = p]
    BY <1>2 DEF ChildInv
  <2>3. CASE proc' = proc
    BY <2>1, <2>2, <2>3
  <2>4. CASE proc' = [proc EXCEPT ![c].signalled = TRUE]
    BY <1>2, <2>4
  <2>5. proc' = proc \/ proc' = [proc EXCEPT ![c].signalled = TRUE]
    BY DEF KillInternal
  <2> QED
    BY <2>3, <2>4, <2>5
<1> QED
  BY <1>1, <1>2, <1>4, <1>5

\* exithandler() answers once, and well only when it may.
LEMMA AnswerKeeps ==
    ASSUME NEW c, NEW ch, NEW p, NEW ps, NEW e, Local(c, ch, p, ps, e), NEW a \in Answer,
           a = "ok" => ch.gotCHLD /\ ch.readable = {} /\ p.status = "ok"
    PROVE  Local(c, ch, p, ps, ExitHandler(e, a))
<1>1. CASE ~e.on \/ e.exited
  <2>1. ExitHandler(e, a) = e
    BY <1>1 DEF ExitHandler
  <2> QED
    BY <2>1
<1>2. CASE e.on /\ ~e.exited
  <2>1. PICK b \in Answer : b = IF e.err THEN "maxBuffer" ELSE a
    BY DEF Answer
  <2>2. e \in ExecRecs /\ Answers(ch, p, e)
    BY DEF Local
  <2>3. e.answers = <<>>
    BY <1>2, <2>2 DEF Answers
  <2>4. Append(e.answers, b) = <<b>>
    BY <2>3
  <2>5. PICK s \in Seq(Answer) : s = <<b>>
    <3>1. <<>> \in Seq(Answer) /\ Append(<<>>, b) = <<b>>
      OBVIOUS
    <3>2. Append(<<>>, b) \in Seq(Answer)
      BY <3>1, AppendProperties
    <3> QED
      BY <3>1, <3>2
  <2> DEFINE e2 == [e EXCEPT !.exited = TRUE, !.timer = FALSE, !.answers = s]
  <2>6. ExitHandler(e, a) = e2
    BY <1>2, <2>1, <2>4, <2>5 DEF ExitHandler
  <2>7. e2 \in ExecRecs /\ e2.on = e.on /\ e2.err = e.err /\ e2.exited = TRUE /\ e2.answers = s
    BY <2>2 DEF ExecRecs
  <2> HIDE DEF e2
  <2>8. Len(s) <= 1 /\ (s = <<"ok">> => b = "ok")
    BY <2>5
  <2>9. b = "ok" => ~e.err /\ a = "ok"
    BY <2>1
  <2>10. Answers(ch, p, e2)
    BY <1>2, <2>2, <2>7, <2>8, <2>9 DEF Answers
  <2> QED
    BY <2>6, <2>7, <2>10 DEF Local
<1>3. e.on \in BOOLEAN /\ e.exited \in BOOLEAN
  BY DEF Local, ExecRecs
<1> QED
  BY <1>1, <1>2, <1>3

\* The count of the ticks that execFile waits for, its timer and its mark are
\* nobody's promise either.
LEMMA ExecMarksKeep ==
    ASSUME NEW c, NEW ch, NEW p, NEW ps, NEW e, Local(c, ch, p, ps, e), NEW e2 \in ExecRecs,
           e2.on = e.on, e2.exited = e.exited, e2.err = e.err, e2.answers = e.answers
    PROVE  Local(c, ch, p, ps, e2)
<1>1. Answers(ch, p, e2)
  BY DEF Local, Answers
<1> QED
  BY <1>1 DEF Local

\* The time-out of execFile.
LEMMA TimeoutKeeps == ASSUME ChildInv, NEW c \in Child, ExecTimeout(c) PROVE ChildInv'
<1>1. PICK ch, p, ps, e : ch = child[c] /\ p = proc[c] /\ ps = pipes[c] /\ e = execs[c]
  OBVIOUS
<1>2. Local(c, ch, p, ps, e)
  BY <1>1 DEF ChildInv
<1>3. PICK k \in BOOLEAN, b \in BOOLEAN :
          /\ child' = [child EXCEPT ![c] = [ch EXCEPT !.killed = k]]
          /\ proc' = [proc EXCEPT ![c] = [p EXCEPT !.signalled = b]]
  BY <1>1, KillEffect DEF ExecTimeout
<1>4. PICK n \in Nat : n = e.ticks + 1
  BY <1>2 DEF Local, ExecRecs
<1> DEFINE e2 == [e EXCEPT !.killed = TRUE, !.ticks = n, !.timer = FALSE]
<1>5. e2 \in ExecRecs /\ e2.on = e.on /\ e2.exited = e.exited /\ e2.err = e.err /\ e2.answers = e.answers
  BY <1>2 DEF Local, ExecRecs
<1>6. execs' = [execs EXCEPT ![c] = e2]
  BY <1>1, <1>4 DEF ExecTimeout
<1> HIDE DEF e2
<1>7. Local(c, [ch EXCEPT !.killed = k], [p EXCEPT !.signalled = b], ps, e2)
  <2>1. Local(c, ch, p, ps, e2)
    BY <1>2, <1>5, ExecMarksKeep
  <2> QED
    BY <2>1, SignalKeeps
<1>8. pipes' = [pipes EXCEPT ![c] = ps]
  BY <1>1 DEF ExecTimeout, ChildInv
<1> QED
  BY <1>3, <1>6, <1>7, <1>8, AloneKeeps

\* The tick after it: exithandler().
LEMMA TickKeeps == ASSUME ChildInv, NEW c \in Child, ExecTick(c) PROVE ChildInv'
<1>1. PICK ch, p, ps, e : ch = child[c] /\ p = proc[c] /\ ps = pipes[c] /\ e = execs[c]
  OBVIOUS
<1>2. Local(c, ch, p, ps, e)
  BY <1>1 DEF ChildInv
<1>3. PICK n \in Nat : n = e.ticks - 1
  BY <1>1, <1>2 DEF ExecTick, Local, ExecRecs
<1> DEFINE e2 == [e EXCEPT !.ticks = n]
<1>4. e2 \in ExecRecs /\ e2.on = e.on /\ e2.exited = e.exited /\ e2.err = e.err /\ e2.answers = e.answers
  BY <1>2 DEF Local, ExecRecs
<1>5. execs' = [execs EXCEPT ![c] = ExitHandler(e2, "killed")]
  BY <1>1, <1>3 DEF ExecTick
<1> HIDE DEF e2
<1>6. Local(c, ch, p, ps, e2)
  BY <1>2, <1>4, ExecMarksKeep
<1>7. Local(c, ch, p, ps, ExitHandler(e2, "killed"))
  BY <1>6, AnswerKeeps DEF Answer
<1>8. child' = [child EXCEPT ![c] = ch] /\ proc' = [proc EXCEPT ![c] = p] /\ pipes' = [pipes EXCEPT ![c] = ps]
  BY <1>1 DEF ExecTick, ChildInv
<1> QED
  BY <1>5, <1>7, <1>8, AloneKeeps

\* child.kill() of the application.
LEMMA KillKeeps == ASSUME ChildInv, NEW c \in Child, Kill(c) PROVE ChildInv'
<1>1. PICK ch, p, ps, e : ch = child[c] /\ p = proc[c] /\ ps = pipes[c] /\ e = execs[c]
  OBVIOUS
<1>2. Local(c, ch, p, ps, e)
  BY <1>1 DEF ChildInv
<1>3. PICK k \in BOOLEAN, b \in BOOLEAN :
          /\ child' = [child EXCEPT ![c] = [ch EXCEPT !.killed = k]]
          /\ proc' = [proc EXCEPT ![c] = [p EXCEPT !.signalled = b]]
  BY <1>1, KillEffect DEF Kill
<1>4. Local(c, [ch EXCEPT !.killed = k], [p EXCEPT !.signalled = b], ps, e)
  BY <1>2, SignalKeeps
<1>5. pipes' = [pipes EXCEPT ![c] = ps] /\ execs' = [execs EXCEPT ![c] = e]
  BY <1>1 DEF Kill, ChildInv
<1> QED
  BY <1>3, <1>4, <1>5, AloneKeeps

-----------------------------------------------------------------------------
(* The output, and the end. *)

\* Output that is delivered leaves the pipe; if it is too much, execFile
\* notes the error before anybody can answer well.
LEMMA DataLocal ==
    ASSUME NEW c, NEW ch, NEW p, NEW ps, NEW e, Local(c, ch, p, ps, e), NEW i \in {1, 2}, i \in ch.readable,
           NEW g \in Nat, g = ch.got[i] + ps[i].data, NEW e2 \in ExecRecs,
           e2.on = e.on, e2.exited = e.exited, e2.answers = e.answers,
           e.on /\ g > MaxBuffer => e2.err, e.err => e2.err
    PROVE  Local(c, [ch EXCEPT !.got = [ch.got EXCEPT ![i] = g]], p, [ps EXCEPT ![i] = [ps[i] EXCEPT !.data = 0]], e2)
<1>1. PICK f \in [Stdio -> Nat] : f = ch.got
  BY DEF Local, ChildRecs
<1>2. PICK f2 : f2 = [f EXCEPT ![i] = g]
  OBVIOUS
<1>3. f2 \in [Stdio -> Nat] /\ f2[i] = g /\ \A j \in Stdio \ {i} : f2[j] = f[j]
  BY <1>2, StdioIs
<1>4. PICK q \in PipeRecs : q = ps[i]
  BY StdioIs DEF Local
<1> DEFINE ch2 == [ch EXCEPT !.got = f2]
           q2 == [q EXCEPT !.data = 0]
           ps2 == [ps EXCEPT ![i] = q2]
<1>5. /\ ch2 \in ChildRecs /\ ch2.st = ch.st /\ ch2.pid = ch.pid /\ ch2.watcher = ch.watcher
      /\ ch2.refs = ch.refs /\ ch2.custom = ch.custom /\ ch2.gotCHLD = ch.gotCHLD /\ ch2.code = ch.code
      /\ ch2.readable = ch.readable /\ ch2.closing = ch.closing /\ ch2.closed = ch.closed
      /\ ch2.exits = ch.exits /\ ch2.got = f2
  BY <1>3 DEF Local, ChildRecs
<1>6. /\ q2 \in PipeRecs /\ q2.made = q.made /\ q2.cloexec = q.cloexec /\ q2.readers = q.readers
      /\ q2.writers = q.writers /\ q2.data = 0
  BY DEF PipeRecs
<1> HIDE DEF ch2, q2
<1>7. ps2 \in [Stdio -> PipeRecs] /\ ps2[i] = q2 /\ \A j \in Stdio \ {i} : ps2[j] = ps[j]
  BY <1>6, StdioIs DEF Local
<1> HIDE DEF ps2
<1>8. ch.st = "spawned" /\ ch.readable # {} /\ ch2.st = "spawned"
  BY <1>5 DEF Local, Streams
<1>9. Life(ch2, p)
  BY <1>5 DEF Local, Life
<1>10. Streams(ch2)
  BY <1>5, <1>8 DEF Local, Streams
<1>11. ASSUME NEW j \in Stdio PROVE Flow(c, ch2, p, ps2[j], j)
  <2>1. Flow(c, ch, p, ps[j], j)
    BY DEF Local
  <2>2. CASE j = i
    <3>1. Flow(c, ch, p, q, i)
      BY <1>4, <2>1, <2>2
    <3>2. g + 0 = p.written[i]
      BY <1>4, <3>1 DEF Flow
    <3>3. ch2.got[i] = g
      BY <1>3, <1>5
    <3>4. Flow(c, ch2, p, q2, i)
      BY <1>5, <1>6, <3>1, <3>2, <3>3 DEF Flow
    <3> QED
      BY <1>7, <2>2, <3>4
  <2>3. CASE j # i
    <3>1. ps2[j] = ps[j] /\ ch2.got[j] = ch.got[j]
      BY <1>1, <1>3, <1>5, <1>7, <2>3
    <3> QED
      BY <1>5, <2>1, <3>1 DEF Flow
  <2> QED
    BY <2>2, <2>3
<1>12. Answers(ch2, p, e2)
  <2>1. Answers(ch, p, e)
    BY DEF Local
  <2>2. e.answers # <<"ok">>
    BY <1>8, <2>1 DEF Answers
  <2>3. ASSUME e2.on, ~e2.err PROVE f2[1] <= MaxBuffer /\ f2[2] <= MaxBuffer
    <3>1. e.on /\ ~e.err /\ ~(g > MaxBuffer)
      BY <2>3
    <3>2. f[1] <= MaxBuffer /\ f[2] <= MaxBuffer
      BY <1>1, <2>1, <3>1 DEF Answers
    <3>3. g <= MaxBuffer
      BY <3>1, ChildAssumption
    <3> QED
      BY <1>3, <3>2, <3>3, StdioIs
  <2> QED
    BY <1>5, <2>1, <2>2, <2>3 DEF Answers
<1>13. Local(c, ch2, p, ps2, e2)
  BY <1>5, <1>7, <1>9, <1>10, <1>11, <1>12 DEF Local
<1> QED
  BY <1>1, <1>2, <1>4, <1>13 DEF ch2, q2, ps2

\* The 'data' handler.
LEMMA DataKeeps ==
    ASSUME ChildInv, NEW c \in Child, NEW i \in {1, 2}, ChildOnData(c, i)
    PROVE  ChildInv'
<1>1. PICK ch, p, ps, e : ch = child[c] /\ p = proc[c] /\ ps = pipes[c] /\ e = execs[c]
  OBVIOUS
<1>2. Local(c, ch, p, ps, e)
  BY <1>1 DEF ChildInv
<1>3. ch \in ChildRecs /\ p \in ProcRecs /\ e \in ExecRecs /\ ps \in [Stdio -> PipeRecs]
  BY <1>2 DEF Local
<1>4. PICK g \in Nat : g = ch.got[i] + ps[i].data
  <2>1. ch.got[i] \in Nat /\ ps[i].data \in Nat
    BY <1>3, StdioIs DEF ChildRecs, PipeRecs
  <2> QED
    BY <2>1
<1>5. PICK over \in BOOLEAN : over = (e.on /\ g > MaxBuffer)
  OBVIOUS
<1>6. PICK kills \in BOOLEAN : kills = (over /\ ~ch.killed /\ ch.pid)
  OBVIOUS
<1>7. /\ i \in ch.readable
      /\ pipes' = [pipes EXCEPT ![c][i].data = 0]
      /\ child' = [child EXCEPT ![c].got[i] = g, ![c].killed = @ \/ kills]
      /\ proc' = IF kills /\ p.st = "running" THEN [proc EXCEPT ![c].signalled = TRUE] ELSE proc
      /\ execs' = IF over THEN [execs EXCEPT ![c] = [e EXCEPT !.err = TRUE, !.killed = TRUE, !.ticks = @ + 1]]
                  ELSE execs
  BY <1>1, <1>4, <1>5, <1>6 DEF ChildOnData
<1>8. PICK e2 \in ExecRecs :
          /\ execs' = [execs EXCEPT ![c] = e2]
          /\ e2.on = e.on /\ e2.exited = e.exited /\ e2.answers = e.answers
          /\ over => e2.err
          /\ e.err => e2.err
  <2>1. CASE over
    <3>1. PICK n \in Nat : n = e.ticks + 1
      BY <1>3 DEF ExecRecs
    <3> DEFINE e3 == [e EXCEPT !.err = TRUE, !.killed = TRUE, !.ticks = n]
    <3>2. e3 \in ExecRecs /\ e3.on = e.on /\ e3.exited = e.exited /\ e3.answers = e.answers /\ e3.err
      BY <1>3 DEF ExecRecs
    <3>3. execs' = [execs EXCEPT ![c] = e3]
      BY <1>7, <2>1, <3>1
    <3> QED
      BY <3>2, <3>3
  <2>2. CASE ~over
    <3>1. execs' = [execs EXCEPT ![c] = e]
      BY <1>1, <1>7, <2>2 DEF ChildInv
    <3> QED
      BY <1>3, <2>2, <3>1
  <2> QED
    BY <2>1, <2>2
<1>9. PICK b \in BOOLEAN : proc' = [proc EXCEPT ![c] = [p EXCEPT !.signalled = b]]
  <2>1. p = [p EXCEPT !.signalled = p.signalled] /\ p.signalled \in BOOLEAN
    BY <1>3 DEF ProcRecs
  <2>2. proc = [proc EXCEPT ![c] = p]
    BY <1>1 DEF ChildInv
  <2>3. CASE proc' = proc
    BY <2>1, <2>2, <2>3
  <2>4. CASE proc' = [proc EXCEPT ![c].signalled = TRUE]
    BY <1>1, <2>4
  <2> QED
    BY <1>7, <2>3, <2>4
<1>10. PICK k \in BOOLEAN : k = (ch.killed \/ kills)
  OBVIOUS
<1> DEFINE ch2 == [ch EXCEPT !.got = [ch.got EXCEPT ![i] = g]]
           ps2 == [ps EXCEPT ![i] = [ps[i] EXCEPT !.data = 0]]
<1>11. Local(c, ch2, p, ps2, e2)
  BY <1>2, <1>4, <1>5, <1>7, <1>8, DataLocal
<1>12. pipes' = [pipes EXCEPT ![c] = ps2]
  BY <1>1, <1>7
<1>13. child' = [child EXCEPT ![c] = [ch2 EXCEPT !.killed = k]]
  <2>1. ch2.killed = ch.killed
    BY <1>3 DEF ChildRecs
  <2> QED
    BY <1>1, <1>3, <1>7, <1>10, <2>1 DEF ChildInv
<1> HIDE DEF ch2, ps2
<1>14. Local(c, [ch2 EXCEPT !.killed = k], [p EXCEPT !.signalled = b], ps2, e2)
  BY <1>11, SignalKeeps
<1> QED
  BY <1>8, <1>9, <1>12, <1>13, <1>14, AloneKeeps

\* The end of the output: the stream goes from being read to closing, and
\* node lets go of its end.
LEMMA EndOfOutputKeeps ==
    ASSUME ChildInv, NEW c \in Child, NEW i \in {1, 2}, OnEndOfOutput(c, i)
    PROVE  ChildInv'
<1>1. PICK ch, p, ps, e : ch = child[c] /\ p = proc[c] /\ ps = pipes[c] /\ e = execs[c]
  OBVIOUS
<1>2. Local(c, ch, p, ps, e)
  BY <1>1 DEF ChildInv
<1>3. ch \in ChildRecs /\ p \in ProcRecs /\ e \in ExecRecs /\ ps \in [Stdio -> PipeRecs]
  BY <1>2 DEF Local
<1>4. PICK q \in PipeRecs : q = ps[i]
  BY <1>3, StdioIs
<1>5. i \in ch.readable /\ q.data = 0 /\ q.writers = {}
  BY <1>1, <1>4 DEF OnEndOfOutput
<1>6. PICK r \in SUBSET {1, 2}, l \in SUBSET {1, 2} : r = ch.readable \ {i} /\ l = ch.closing \cup {i}
  BY <1>3 DEF ChildRecs
<1> DEFINE ch2 == [ch EXCEPT !.readable = r, !.closing = l]
           q2 == [q EXCEPT !.readers = {}]
           ps2 == [ps EXCEPT ![i] = q2]
<1>7. child' = [child EXCEPT ![c] = ch2]
  BY <1>1, <1>6 DEF OnEndOfOutput
<1>8. pipes' = [pipes EXCEPT ![c] = ps2]
  BY <1>1, <1>4 DEF OnEndOfOutput
<1>9. /\ ch2 \in ChildRecs /\ ch2.st = ch.st /\ ch2.pid = ch.pid /\ ch2.watcher = ch.watcher
      /\ ch2.refs = ch.refs /\ ch2.custom = ch.custom /\ ch2.gotCHLD = ch.gotCHLD /\ ch2.code = ch.code
      /\ ch2.readable = r /\ ch2.closing = l /\ ch2.closed = ch.closed
      /\ ch2.exits = ch.exits /\ ch2.got = ch.got
  BY <1>3 DEF ChildRecs
<1>10. /\ q2 \in PipeRecs /\ q2.made = q.made /\ q2.cloexec = q.cloexec /\ q2.readers = {}
       /\ q2.writers = {} /\ q2.data = 0
  BY <1>5 DEF PipeRecs
<1> HIDE DEF ch2, q2
<1>11. ps2 \in [Stdio -> PipeRecs] /\ ps2[i] = q2 /\ \A j \in Stdio \ {i} : ps2[j] = ps[j]
  BY <1>3, <1>10, StdioIs
<1> HIDE DEF ps2
<1>12. Streams(ch) /\ Life(ch, p) /\ Output(p) /\ Answers(ch, p, e)
  BY <1>2 DEF Local
<1>13. ch.st = "spawned" /\ ch.exits \in Nat /\ ~(ch.exits > 0)
  BY <1>3, <1>5, <1>12 DEF Streams, ChildRecs
<1>14. Life(ch2, p)
  BY <1>9, <1>12 DEF Life
<1>15. Streams(ch2)
  <2>1. r \cap l = {} /\ r \cap ch.closed = {} /\ l \cap ch.closed = {} /\ r \cup l \cup ch.closed = {1, 2} \ ch.custom
    BY <1>5, <1>6, <1>12, <1>13 DEF Streams
  <2>2. ch.exits = 0
    BY <1>13
  <2> QED
    BY <1>9, <1>13, <2>1, <2>2 DEF Streams
<1>16. ASSUME NEW j \in Stdio PROVE Flow(c, ch2, p, ps2[j], j)
  <2>1. Flow(c, ch, p, ps[j], j)
    BY <1>2 DEF Local
  <2>2. CASE j = i
    <3>1. Flow(c, ch, p, q, i)
      BY <1>4, <2>1, <2>2
    <3>2. Flow(c, ch2, p, q2, i)
      BY <1>5, <1>9, <1>10, <3>1 DEF Flow
    <3> QED
      BY <1>11, <2>2, <3>2
  <2>3. CASE j # i
    <3>1. ps2[j] = ps[j] /\ (j \in r <=> j \in ch.readable)
      BY <1>6, <1>11, <2>3
    <3> QED
      BY <1>9, <2>1, <3>1 DEF Flow
  <2> QED
    BY <2>2, <2>3
<1>17. Answers(ch2, p, e)
  <2>1. e.answers # <<"ok">>
    BY <1>5, <1>12 DEF Answers
  <2> QED
    BY <1>9, <1>12, <2>1 DEF Answers
<1>18. Local(c, ch2, p, ps2, e)
  BY <1>3, <1>9, <1>11, <1>12, <1>14, <1>15, <1>16, <1>17 DEF Local
<1>19. proc' = [proc EXCEPT ![c] = p] /\ execs' = [execs EXCEPT ![c] = e]
  BY <1>1 DEF OnEndOfOutput, ChildInv
<1> QED
  BY <1>7, <1>8, <1>18, <1>19, AloneKeeps

\* emit('exit') when the process is gone and no output is left to read.
LEMMA EmitKeeps ==
    ASSUME NEW c, NEW ch, NEW p, NEW ps, NEW e, Local(c, ch, p, ps, e),
           ch.gotCHLD, ch.readable = {}, ch.exits <= 1, ch.closing # {} => ch.exits = 0
    PROVE  Local(c, [ch EXCEPT !.exits = @ + 1], p, ps, ExitHandler(e, ch.code))
<1>1. ch \in ChildRecs
  BY DEF Local
<1>2. PICK n \in Nat : n = ch.exits + 1
  BY <1>1 DEF ChildRecs
<1>3. n <= 2 /\ (ch.closing # {} => n <= 1)
  <2>1. ch.exits \in Nat
    BY <1>1 DEF ChildRecs
  <2> QED
    BY <1>2, <2>1
<1> DEFINE ch2 == [ch EXCEPT !.exits = n]
<1>4. /\ ch2 \in ChildRecs /\ ch2.st = ch.st /\ ch2.pid = ch.pid /\ ch2.watcher = ch.watcher
      /\ ch2.refs = ch.refs /\ ch2.custom = ch.custom /\ ch2.gotCHLD = ch.gotCHLD /\ ch2.code = ch.code
      /\ ch2.readable = ch.readable /\ ch2.closing = ch.closing /\ ch2.closed = ch.closed
      /\ ch2.exits = n /\ ch2.got = ch.got
  BY <1>1 DEF ChildRecs
<1> HIDE DEF ch2
<1>5. Life(ch2, p) /\ Answers(ch2, p, e)
  BY <1>4 DEF Local, Life, Answers
<1>6. Streams(ch2)
  BY <1>3, <1>4 DEF Local, Streams
<1>7. ASSUME NEW i \in Stdio PROVE Flow(c, ch2, p, ps[i], i)
  <2>1. Flow(c, ch, p, ps[i], i)
    BY DEF Local
  <2> QED
    BY <1>4, <2>1 DEF Flow
<1>8. Local(c, ch2, p, ps, e)
  BY <1>4, <1>5, <1>6, <1>7 DEF Local
<1>9. ch.code \in Answer /\ ch.code = p.status
  BY <1>1 DEF Local, Life, ChildRecs, Answer
<1>10. Local(c, ch2, p, ps, ExitHandler(e, ch.code))
  BY <1>4, <1>8, <1>9, AnswerKeeps
<1> QED
  BY <1>2, <1>10 DEF ch2

\* The process is gone and all streams are closed.
LastClosed(ch) == ch.gotCHLD /\ {1, 2} \ ch.custom \subseteq ch.closed

MayExitAgain(ch) == ch.readable = {} /\ ch.closing = {} /\ ch.exits <= 1

\* A stream says that it is closed; the last one emits 'exit' once the
\* process is gone.
LEMMA CloseLocal ==
    ASSUME NEW c, NEW ch, NEW p, NEW ps, NEW e, Local(c, ch, p, ps, e), NEW i \in {1, 2}, i \in ch.closing,
           NEW ch2, ch2 = [ch EXCEPT !.closing = ch.closing \ {i}, !.closed = ch.closed \cup {i}]
    PROVE  /\ Local(c, ch2, p, ps, e)
           /\ LastClosed(ch2) => MayExitAgain(ch2)
<1>1. ch \in ChildRecs /\ Streams(ch)
  BY DEF Local
<1>2. PICK l \in SUBSET {1, 2}, d \in SUBSET {1, 2} : l = ch.closing \ {i} /\ d = ch.closed \cup {i}
  BY <1>1 DEF ChildRecs
<1>3. ch2 = [ch EXCEPT !.closing = l, !.closed = d]
  BY <1>2
<1>4. /\ ch2 \in ChildRecs /\ ch2.st = ch.st /\ ch2.pid = ch.pid /\ ch2.watcher = ch.watcher
      /\ ch2.refs = ch.refs /\ ch2.custom = ch.custom /\ ch2.gotCHLD = ch.gotCHLD /\ ch2.code = ch.code
      /\ ch2.readable = ch.readable /\ ch2.closing = l /\ ch2.closed = d
      /\ ch2.exits = ch.exits /\ ch2.got = ch.got
  BY <1>1, <1>3 DEF ChildRecs
<1>5. ch.st = "spawned" /\ ch.exits <= 1
  BY <1>1 DEF Streams
<1>6. /\ ch.readable \cap l = {} /\ ch.readable \cap d = {} /\ l \cap d = {}
      /\ ch.readable \cup l \cup d = {1, 2} \ ch.custom
  BY <1>1, <1>2, <1>5 DEF Streams
<1>7. Streams(ch2)
  BY <1>1, <1>4, <1>5, <1>6 DEF Streams
<1>8. Life(ch2, p) /\ Answers(ch2, p, e)
  BY <1>4 DEF Local, Life, Answers
<1>9. ASSUME NEW j \in Stdio PROVE Flow(c, ch2, p, ps[j], j)
  <2>1. Flow(c, ch, p, ps[j], j)
    BY DEF Local
  <2> QED
    BY <1>4, <2>1 DEF Flow
<1>10. Local(c, ch2, p, ps, e)
  BY <1>4, <1>7, <1>8, <1>9 DEF Local
<1>11. {1, 2} \ ch2.custom \subseteq ch2.closed => ch2.readable = {} /\ ch2.closing = {}
  BY <1>4, <1>6
<1> QED
  BY <1>4, <1>5, <1>10, <1>11 DEF LastClosed, MayExitAgain

\* The 'close' listener.
LEMMA StreamCloseKeeps ==
    ASSUME ChildInv, NEW c \in Child, NEW i \in {1, 2}, OnStreamClose(c, i)
    PROVE  ChildInv'
<1>1. PICK ch, p, ps, e : ch = child[c] /\ p = proc[c] /\ ps = pipes[c] /\ e = execs[c]
  OBVIOUS
<1>2. Local(c, ch, p, ps, e)
  BY <1>1 DEF ChildInv
<1>3. PICK ch2 : ch2 = [ch EXCEPT !.closing = ch.closing \ {i}, !.closed = ch.closed \cup {i}]
  OBVIOUS
<1>4. i \in ch.closing
  BY <1>1 DEF OnStreamClose
<1>5. Local(c, ch2, p, ps, e) /\ (LastClosed(ch2) => MayExitAgain(ch2))
  BY <1>2, <1>3, <1>4, CloseLocal
<1> DEFINE chs == [child EXCEPT ![c].closing = @ \ {i}, ![c].closed = @ \cup {i}]
<1>6. chs = [child EXCEPT ![c] = ch2] /\ chs[c] = ch2
  BY <1>1, <1>3 DEF ChildInv
<1>7. IF LastClosed(ch2)
      THEN EmitExit(chs, execs, c) ELSE NoExit(chs, execs)
  <2>1. IF chs[c].gotCHLD /\ {1, 2} \ chs[c].custom \subseteq chs[c].closed
        THEN EmitExit(chs, execs, c) ELSE NoExit(chs, execs)
    BY DEF OnStreamClose
  <2> QED
    BY <1>6, <2>1 DEF LastClosed
<1> HIDE DEF chs
<1>8. proc' = [proc EXCEPT ![c] = p] /\ pipes' = [pipes EXCEPT ![c] = ps]
  BY <1>1 DEF OnStreamClose, ChildInv
<1>9. CASE LastClosed(ch2)
  <2>1. /\ child' = [chs EXCEPT ![c].exits = @ + 1]
        /\ execs' = [execs EXCEPT ![c] = ExitHandler(execs[c], chs[c].code)]
    BY <1>7, <1>9 DEF EmitExit
  <2> DEFINE ch3 == [ch2 EXCEPT !.exits = @ + 1]
  <2>2. child' = [child EXCEPT ![c] = ch3]
    BY <1>6, <2>1 DEF ChildInv
  <2>3. execs' = [execs EXCEPT ![c] = ExitHandler(e, ch2.code)]
    BY <1>1, <1>6, <2>1
  <2>4. Local(c, ch3, p, ps, ExitHandler(e, ch2.code))
    BY <1>5, <1>9, EmitKeeps DEF LastClosed, MayExitAgain
  <2> HIDE DEF ch3
  <2> QED
    BY <1>8, <2>2, <2>3, <2>4, AloneKeeps
<1>10. CASE ~LastClosed(ch2)
  <2>1. child' = [child EXCEPT ![c] = ch2] /\ execs' = [execs EXCEPT ![c] = e]
    BY <1>1, <1>6, <1>7, <1>10 DEF NoExit, ChildInv
  <2> QED
    BY <1>5, <1>8, <2>1, AloneKeeps
<1> QED
  BY <1>9, <1>10

\* The end of the process is known, and was not told yet.
JustReported(ch) == ch.gotCHLD /\ ch.exits = 0

Reported(ch, p) == [Stop(ch) EXCEPT !.gotCHLD = TRUE, !.code = p.status]

StdinEnded(ps) == [ps EXCEPT ![0].writers = @ \ {"node"}]

\* The report of the end: the watcher is stopped and the object let go, and
\* 'exit' is emitted unless there is output to read.
LEMMA ExitLocal ==
    ASSUME NEW c, NEW ch, NEW p, NEW ps, NEW e, Local(c, ch, p, ps, e), ch.watcher, p.st = "reaped",
           NEW ch2, ch2 = Reported(ch, p), NEW ps2, ps2 = StdinEnded(ps)
    PROVE  Local(c, ch2, p, ps2, e) /\ JustReported(ch2)
<1>1. ch \in ChildRecs /\ p \in ProcRecs /\ ps \in [Stdio -> PipeRecs] /\ e \in ExecRecs
  BY DEF Local
<1>2. Life(ch, p) /\ Streams(ch) /\ Answers(ch, p, e)
  BY DEF Local
<1>3. ch.st = "spawned" /\ ~ch.gotCHLD /\ ch.refs = 1
  BY <1>2 DEF Life
<1>4. ch.exits = 0
  BY <1>1, <1>2, <1>3 DEF Streams, ChildRecs
<1>5. PICK n \in Nat : n = 0
  OBVIOUS
<1>6. PICK s \in Status : s = p.status
  BY <1>1 DEF ProcRecs
<1>7. /\ ch2 \in ChildRecs /\ ch2.st = ch.st /\ ~ch2.pid /\ ~ch2.watcher
      /\ ch2.refs = 0 /\ ch2.custom = ch.custom /\ ch2.gotCHLD /\ ch2.code = p.status
      /\ ch2.readable = ch.readable /\ ch2.closing = ch.closing /\ ch2.closed = ch.closed
      /\ ch2.exits = ch.exits /\ ch2.got = ch.got
  <2>1. PICK m : m = IF ch.watcher THEN ch.refs - 1 ELSE ch.refs
    OBVIOUS
  <2>2. m = n
    BY <1>3, <1>5, <2>1
  <2>3. Stop(ch) = [ch EXCEPT !.watcher = FALSE, !.refs = m, !.pid = FALSE]
    BY <2>1 DEF Stop
  <2> DEFINE s1 == [ch EXCEPT !.watcher = FALSE, !.refs = n, !.pid = FALSE]
             s2 == [s1 EXCEPT !.gotCHLD = TRUE, !.code = s]
  <2>4. ch2 = s2
    BY <1>6, <2>2, <2>3 DEF Reported
  <2>5. s1 \in ChildRecs
    BY <1>1 DEF ChildRecs
  <2>6. /\ s1.st = ch.st /\ ~s1.pid /\ ~s1.watcher /\ s1.refs = n /\ s1.custom = ch.custom
        /\ s1.readable = ch.readable /\ s1.closing = ch.closing /\ s1.closed = ch.closed
        /\ s1.exits = ch.exits /\ s1.got = ch.got
    BY <1>1 DEF ChildRecs
  <2> HIDE DEF s1
  <2>7. s2 \in ChildRecs
    BY <2>5 DEF ChildRecs
  <2>8. /\ s2.st = s1.st /\ s2.pid = s1.pid /\ s2.watcher = s1.watcher /\ s2.refs = s1.refs
        /\ s2.custom = s1.custom /\ s2.gotCHLD /\ s2.code = s
        /\ s2.readable = s1.readable /\ s2.closing = s1.closing /\ s2.closed = s1.closed
        /\ s2.exits = s1.exits /\ s2.got = s1.got
    BY <2>5 DEF ChildRecs
  <2> HIDE DEF s2
  <2> QED
    BY <1>5, <1>6, <2>4, <2>6, <2>7, <2>8
<1>8. PICK q \in PipeRecs : q = ps[0]
  BY <1>1, StdioIs
<1>9. PICK w \in SUBSET Holder : w = q.writers \ {"node"}
  BY DEF PipeRecs
<1> DEFINE q2 == [q EXCEPT !.writers = w]
<1>10. /\ q2 \in PipeRecs /\ q2.made = q.made /\ q2.cloexec = q.cloexec /\ q2.readers = q.readers
       /\ q2.writers = w /\ q2.data = q.data
  BY DEF PipeRecs
<1>11. ps2 = [ps EXCEPT ![0] = q2]
  BY <1>8, <1>9 DEF StdinEnded
<1> HIDE DEF q2
<1>12. ps2 \in [Stdio -> PipeRecs] /\ ps2[0] = q2 /\ \A j \in Stdio \ {0} : ps2[j] = ps[j]
  BY <1>1, <1>10, <1>11, StdioIs
<1>13. Life(ch2, p)
  BY <1>3, <1>7 DEF Life
<1>14. Streams(ch2)
  BY <1>2, <1>3, <1>4, <1>7 DEF Streams
<1>15. ASSUME NEW j \in Stdio PROVE Flow(c, ch2, p, ps2[j], j)
  <2>1. Flow(c, ch, p, ps[j], j)
    BY DEF Local
  <2>2. CASE j = 0
    <3>1. Flow(c, ch, p, q, 0)
      BY <1>8, <2>1, <2>2
    <3>2. q.writers \subseteq {"node"} /\ w = {}
      BY <1>3, <1>9, <3>1 DEF Flow
    <3>3. Flow(c, ch2, p, q2, 0)
      BY <1>3, <1>7, <1>10, <3>1, <3>2 DEF Flow
    <3> QED
      BY <1>12, <2>2, <3>3
  <2>3. CASE j # 0
    <3>1. ps2[j] = ps[j]
      BY <1>12, <2>3
    <3> QED
      BY <1>7, <2>1, <2>3, <3>1 DEF Flow
  <2> QED
    BY <2>2, <2>3
<1>16. Answers(ch2, p, e)
  BY <1>2, <1>7 DEF Answers
<1>17. Local(c, ch2, p, ps2, e)
  BY <1>1, <1>7, <1>12, <1>13, <1>14, <1>15, <1>16 DEF Local
<1> QED
  BY <1>4, <1>7, <1>17 DEF JustReported

\* ChildProcess::OnExit and internal.onexit.
LEMMA ExitKeeps == ASSUME ChildInv, NEW c \in Child, OnExit(c) PROVE ChildInv'
<1>1. PICK ch, p, ps, e : ch = child[c] /\ p = proc[c] /\ ps = pipes[c] /\ e = execs[c]
  OBVIOUS
<1>2. Local(c, ch, p, ps, e)
  BY <1>1 DEF ChildInv
<1>3. PICK ch2 : ch2 = Reported(ch, p)
  OBVIOUS
<1>4. PICK ps2 : ps2 = StdinEnded(ps)
  OBVIOUS
<1>5. ch.watcher /\ p.st = "reaped"
  BY <1>1 DEF OnExit
<1>6. Local(c, ch2, p, ps2, e) /\ JustReported(ch2)
  BY <1>2, <1>3, <1>4, <1>5, ExitLocal
<1> DEFINE chs == [child EXCEPT ![c] = [Stop(child[c]) EXCEPT !.gotCHLD = TRUE, !.code = proc[c].status]]
<1>7. chs = [child EXCEPT ![c] = ch2] /\ chs[c] = ch2
  BY <1>1, <1>3 DEF ChildInv, Reported
<1>8. IF ExitsNow(ch2) THEN EmitExit(chs, execs, c) ELSE NoExit(chs, execs)
  <2>1. IF ExitsNow(chs[c]) THEN EmitExit(chs, execs, c) ELSE NoExit(chs, execs)
    BY DEF OnExit
  <2> QED
    BY <1>7, <2>1
<1> HIDE DEF chs
<1>9. proc' = [proc EXCEPT ![c] = p] /\ pipes' = [pipes EXCEPT ![c] = ps2]
  <2>1. UNCHANGED proc /\ pipes' = [pipes EXCEPT ![c][0].writers = @ \ {"node"}]
    BY DEF OnExit
  <2> QED
    BY <1>1, <1>4, <2>1 DEF ChildInv, StdinEnded
<1>10. CASE ExitsNow(ch2)
  <2>1. /\ child' = [chs EXCEPT ![c].exits = @ + 1]
        /\ execs' = [execs EXCEPT ![c] = ExitHandler(execs[c], chs[c].code)]
    BY <1>8, <1>10 DEF EmitExit
  <2> DEFINE ch3 == [ch2 EXCEPT !.exits = @ + 1]
  <2>2. child' = [child EXCEPT ![c] = ch3]
    BY <1>7, <2>1 DEF ChildInv
  <2>3. execs' = [execs EXCEPT ![c] = ExitHandler(e, ch2.code)]
    BY <1>1, <1>7, <2>1
  <2>4. ch2.readable = {} /\ ch2.exits <= 1
    BY <1>6, <1>10 DEF ExitsNow, JustReported
  <2>5. Local(c, ch3, p, ps2, ExitHandler(e, ch2.code))
    BY <1>6, <2>4, EmitKeeps DEF JustReported
  <2> HIDE DEF ch3
  <2> QED
    BY <1>9, <2>2, <2>3, <2>5, AloneKeeps
<1>11. CASE ~ExitsNow(ch2)
  <2>1. child' = [child EXCEPT ![c] = ch2] /\ execs' = [execs EXCEPT ![c] = e]
    BY <1>1, <1>7, <1>8, <1>11 DEF NoExit, ChildInv
  <2> QED
    BY <1>6, <1>9, <2>1, AloneKeeps
<1> QED
  BY <1>10, <1>11

-----------------------------------------------------------------------------
(* Spawning. *)

\* A pipe of a child that is being spawned: made and closed on exec where no
\* descriptor was given, empty, with ends at node and at the child only.
Fresh(c, some, q, i) ==
    /\ q \in PipeRecs
    /\ i \in some => q.made
    /\ i \notin some => ~q.made
    /\ q.made => q.cloexec
    /\ ~q.made => q.readers = {} /\ q.writers = {}
    /\ q.data = 0
    /\ i = 0 => q.readers \subseteq {"node", c} /\ q.writers \subseteq {"node"}
    /\ i # 0 => q.readers \subseteq {"node"} /\ q.writers \subseteq {"node", c}

\* pipe() and SetCloseOnExec.
LEMMA MadeAreFresh ==
    ASSUME NEW c \in Child, NEW some \in SUBSET Stdio
    PROVE  /\ MakePipes(some) \in [Stdio -> PipeRecs]
           /\ \A i \in Stdio : Fresh(c, some, MakePipes(some)[i], i)
<1> DEFINE q == [ChildSetCloseOnExec(NewPipe) EXCEPT !.made = TRUE, !.readers = {"node"}, !.writers = {"node"}]
<1>1. {"node"} \in SUBSET Holder /\ {} \in SUBSET Holder
  BY DEF Holder
<1>2. q \in PipeRecs /\ q.made /\ q.cloexec /\ q.readers = {"node"} /\ q.writers = {"node"} /\ q.data = 0
  BY <1>1 DEF ChildSetCloseOnExec, NewPipe, PipeRecs
<1>3. NewPipe \in PipeRecs /\ ~NewPipe.made /\ NewPipe.readers = {} /\ NewPipe.writers = {} /\ NewPipe.data = 0
  BY <1>1 DEF NewPipe, PipeRecs
<1>4. MakePipes(some) = [i \in Stdio |-> IF i \in some THEN q ELSE NewPipe]
  BY DEF MakePipes
<1> HIDE DEF q
<1>5. MakePipes(some) \in [Stdio -> PipeRecs]
  BY <1>2, <1>3, <1>4
<1>6. ASSUME NEW i \in Stdio PROVE Fresh(c, some, MakePipes(some)[i], i)
  <2>1. CASE i \in some
    <3>1. MakePipes(some)[i] = q
      BY <1>4, <2>1
    <3> QED
      BY <1>2, <2>1, <3>1 DEF Fresh
  <2>2. CASE i \notin some
    <3>1. MakePipes(some)[i] = NewPipe
      BY <1>4, <2>2
    <3> QED
      BY <1>3, <2>2, <3>1 DEF Fresh
  <2> QED
    BY <2>1, <2>2
<1> QED
  BY <1>5, <1>6

\* Because every pipe that is made is closed on exec, a child inherits none.
LEMMA NothingInherited ==
    ASSUME NEW c \in Child, NEW ps \in [Child -> [Stdio -> PipeRecs]],
           \A d \in Child, i \in Stdio :
               /\ ps[d][i].made => ps[d][i].cloexec
               /\ ~ps[d][i].made => ps[d][i].readers = {} /\ ps[d][i].writers = {}
    PROVE  Inherit(ps, c) = ps
<1> DEFINE h(q) == IF q.cloexec THEN q
                   ELSE [q EXCEPT !.readers = IF "node" \in @ THEN @ \cup {c} ELSE @,
                                  !.writers = IF "node" \in @ THEN @ \cup {c} ELSE @]
<1>1. ASSUME NEW d \in Child, NEW i \in Stdio PROVE h(ps[d][i]) = ps[d][i]
  <2>1. PICK q \in PipeRecs : q = ps[d][i]
    OBVIOUS
  <2>2. q.made \in BOOLEAN /\ q.cloexec \in BOOLEAN
    BY DEF PipeRecs
  <2>3. ~q.cloexec => q.readers = {} /\ q.writers = {}
    BY <2>1, <2>2
  <2>4. CASE ~q.cloexec
    <3>1. [q EXCEPT !.readers = IF "node" \in @ THEN @ \cup {c} ELSE @,
                    !.writers = IF "node" \in @ THEN @ \cup {c} ELSE @] = [q EXCEPT !.readers = {}, !.writers = {}]
      BY <2>3, <2>4
    <3>2. [q EXCEPT !.readers = {}, !.writers = {}] = q
      BY <2>3, <2>4 DEF PipeRecs
    <3>3. h(q) = q
      BY <2>4, <3>1, <3>2
    <3> QED
      BY <2>1, <3>3
  <2>5. CASE q.cloexec
    BY <2>1, <2>5
  <2> QED
    BY <2>2, <2>4, <2>5
<1>2. Inherit(ps, c) = [d \in Child |-> [i \in Stdio |-> h(ps[d][i])]]
  BY DEF Inherit
<1> HIDE DEF h
<1>3. \A d \in Child : [i \in Stdio |-> h(ps[d][i])] = ps[d]
  BY <1>1
<1> QED
  BY <1>2, <1>3

\* dup2(): the child gets its own sides of its own pipes.
LEMMA DupIsFresh ==
    ASSUME NEW c \in Child, NEW some, NEW ps \in [Child -> [Stdio -> PipeRecs]],
           \A i \in Stdio : Fresh(c, some, ps[c][i], i)
    PROVE  /\ Dup(ps, c) \in [Child -> [Stdio -> PipeRecs]]
           /\ \A d \in Child \ {c} : Dup(ps, c)[d] = ps[d]
           /\ \A i \in Stdio : Fresh(c, some, Dup(ps, c)[c][i], i)
<1> DEFINE u(i) == IF ~ps[c][i].made THEN ps[c][i]
                   ELSE IF i = 0 THEN [ps[c][i] EXCEPT !.readers = @ \cup {c}]
                                 ELSE [ps[c][i] EXCEPT !.writers = @ \cup {c}]
<1>1. ASSUME NEW i \in Stdio PROVE u(i) \in PipeRecs /\ Fresh(c, some, u(i), i)
  <2>1. PICK q \in PipeRecs : q = ps[c][i]
    OBVIOUS
  <2>2. Fresh(c, some, q, i)
    BY <2>1
  <2>3. PICK r \in SUBSET Holder, w \in SUBSET Holder : r = q.readers \cup {c} /\ w = q.writers \cup {c}
    BY DEF PipeRecs, Holder
  <2>5. CASE ~q.made
    <3>1. u(i) = q
      BY <2>1, <2>5
    <3> QED
      BY <2>2, <3>1
  <2>6. CASE q.made /\ i = 0
    <3>1. PICK n : n = [q EXCEPT !.readers = r]
      OBVIOUS
    <3>2. /\ n \in PipeRecs /\ n.made = q.made /\ n.cloexec = q.cloexec /\ n.data = q.data
          /\ n.readers = r /\ n.writers = q.writers
      BY <3>1 DEF PipeRecs
    <3>3. u(i) = n
      BY <2>1, <2>3, <2>6, <3>1
    <3>4. Fresh(c, some, n, i)
      BY <2>2, <2>3, <2>6, <3>2 DEF Fresh
    <3> QED
      BY <3>2, <3>3, <3>4
  <2>7. CASE q.made /\ i # 0
    <3>1. PICK n : n = [q EXCEPT !.writers = w]
      OBVIOUS
    <3>2. /\ n \in PipeRecs /\ n.made = q.made /\ n.cloexec = q.cloexec /\ n.data = q.data
          /\ n.readers = q.readers /\ n.writers = w
      BY <3>1 DEF PipeRecs
    <3>3. u(i) = n
      BY <2>1, <2>3, <2>7, <3>1
    <3>4. Fresh(c, some, n, i)
      BY <2>2, <2>3, <2>7, <3>2 DEF Fresh
    <3> QED
      BY <3>2, <3>3, <3>4
  <2>8. q.made \in BOOLEAN
    BY DEF PipeRecs
  <2> HIDE DEF u
  <2> QED
    BY <2>5, <2>6, <2>7, <2>8
<1>2. Dup(ps, c) = [ps EXCEPT ![c] = [i \in Stdio |-> u(i)]]
  BY DEF Dup
<1> HIDE DEF u
<1>3. [i \in Stdio |-> u(i)] \in [Stdio -> PipeRecs]
  BY <1>1
<1>4. \A i \in Stdio : Dup(ps, c)[c][i] = u(i)
  BY <1>2
<1>5. Dup(ps, c) \in [Child -> [Stdio -> PipeRecs]] /\ \A d \in Child \ {c} : Dup(ps, c)[d] = ps[d]
  BY <1>2, <1>3
<1> QED
  BY <1>1, <1>4, <1>5

\* The parent lets go of the child's sides.
LEMMA ParentKeepsItsEnds ==
    ASSUME NEW c \in Child, NEW some, NEW ps \in [Child -> [Stdio -> PipeRecs]],
           \A i \in Stdio : Fresh(c, some, ps[c][i], i)
    PROVE  /\ ParentEnds(ps, c) \in [Child -> [Stdio -> PipeRecs]]
           /\ \A d \in Child \ {c} : ParentEnds(ps, c)[d] = ps[d]
           /\ \A i \in Stdio :
                /\ Fresh(c, some, ParentEnds(ps, c)[c][i], i)
                /\ ParentEnds(ps, c)[c][i].readers \subseteq ps[c][i].readers
                /\ ParentEnds(ps, c)[c][i].writers \subseteq ps[c][i].writers
                /\ i = 0 => "node" \notin ParentEnds(ps, c)[c][i].readers
                /\ i # 0 => "node" \notin ParentEnds(ps, c)[c][i].writers
<1> DEFINE u(i) == IF i = 0 THEN [ps[c][i] EXCEPT !.readers = @ \ {"node"}]
                            ELSE [ps[c][i] EXCEPT !.writers = @ \ {"node"}]
<1>1. ASSUME NEW i \in Stdio
      PROVE  /\ u(i) \in PipeRecs /\ Fresh(c, some, u(i), i)
             /\ u(i).readers \subseteq ps[c][i].readers /\ u(i).writers \subseteq ps[c][i].writers
             /\ i = 0 => "node" \notin u(i).readers
             /\ i # 0 => "node" \notin u(i).writers
  <2>1. PICK q \in PipeRecs : q = ps[c][i]
    OBVIOUS
  <2>2. Fresh(c, some, q, i)
    BY <2>1
  <2>3. PICK r \in SUBSET Holder, w \in SUBSET Holder : r = q.readers \ {"node"} /\ w = q.writers \ {"node"}
    BY DEF PipeRecs
  <2>5. CASE i = 0
    <3>1. PICK n : n = [q EXCEPT !.readers = r]
      OBVIOUS
    <3>2. /\ n \in PipeRecs /\ n.made = q.made /\ n.cloexec = q.cloexec /\ n.data = q.data
          /\ n.readers = r /\ n.writers = q.writers
      BY <3>1 DEF PipeRecs
    <3>3. u(i) = n
      BY <2>1, <2>3, <2>5, <3>1
    <3>4. Fresh(c, some, n, i)
      BY <2>2, <2>3, <2>5, <3>2 DEF Fresh
    <3> HIDE DEF u
    <3> QED
      BY <2>1, <2>3, <2>5, <3>2, <3>3, <3>4
  <2>6. CASE i # 0
    <3>1. PICK n : n = [q EXCEPT !.writers = w]
      OBVIOUS
    <3>2. /\ n \in PipeRecs /\ n.made = q.made /\ n.cloexec = q.cloexec /\ n.data = q.data
          /\ n.readers = q.readers /\ n.writers = w
      BY <3>1 DEF PipeRecs
    <3>3. u(i) = n
      BY <2>1, <2>3, <2>6, <3>1
    <3>4. Fresh(c, some, n, i)
      BY <2>2, <2>3, <2>6, <3>2 DEF Fresh
    <3> HIDE DEF u
    <3> QED
      BY <2>1, <2>3, <2>6, <3>2, <3>3, <3>4
  <2> HIDE DEF u
  <2> QED
    BY <2>5, <2>6
<1>2. ParentEnds(ps, c) = [ps EXCEPT ![c] = [i \in Stdio |-> u(i)]]
  BY DEF ParentEnds
<1> HIDE DEF u
<1>3. [i \in Stdio |-> u(i)] \in [Stdio -> PipeRecs]
  BY <1>1
<1>4. \A i \in Stdio : ParentEnds(ps, c)[c][i] = u(i)
  BY <1>2
<1>5. ParentEnds(ps, c) \in [Child -> [Stdio -> PipeRecs]] /\ \A d \in Child \ {c} : ParentEnds(ps, c)[d] = ps[d]
  BY <1>2, <1>3
<1> QED
  BY <1>1, <1>4, <1>5

\* A child that cannot start lets go of its ends at once.
LEMMA WithoutIsFresh ==
    ASSUME NEW c, NEW some, NEW ps \in [Stdio -> PipeRecs], \A i \in Stdio : Fresh(c, some, ps[i], i)
    PROVE  \A i \in Stdio : Fresh(c, some, Without(ps, c)[i], i)
<1>1. SUFFICES ASSUME NEW i \in Stdio PROVE Fresh(c, some, Without(ps, c)[i], i)
  OBVIOUS
<1>2. PICK q, n : q = ps[i] /\ n = Without(ps, c)[i]
  OBVIOUS
<1>3. Shrunk(Without(ps, c), ps)
  BY WithoutShrinks
<1>4. /\ n \in PipeRecs /\ n.made = q.made /\ n.cloexec = q.cloexec /\ n.data = q.data
      /\ n.readers \subseteq q.readers /\ n.writers \subseteq q.writers
  BY <1>2, <1>3 DEF Shrunk
<1>5. Fresh(c, some, n, i)
  BY <1>2, <1>4 DEF Fresh
<1> QED
  BY <1>2, <1>5

\* What spawning leaves of the pipes: node and the child hold the ends on
\* their own sides of the child's pipes, and nobody got an end of another one's.
LEMMA SpawnPipes ==
    ASSUME ChildInv, NEW c \in Child, NEW custom \in SUBSET Stdio, NEW starts \in BOOLEAN,
           Spawn(c, custom, starts)
    PROVE  /\ pipes' \in [Child -> [Stdio -> PipeRecs]]
           /\ \A d \in Child \ {c} : Shrunk(pipes'[d], pipes[d])
           /\ \A i \in Stdio :
                /\ Fresh(c, Stdio \ custom, pipes'[c][i], i)
                /\ i = 0 => "node" \notin pipes'[c][i].readers
                /\ i # 0 => "node" \notin pipes'[c][i].writers
                /\ ~starts => c \notin pipes'[c][i].readers /\ c \notin pipes'[c][i].writers
<1>1. PICK some \in SUBSET Stdio : some = Stdio \ custom
  OBVIOUS
<1>2. PICK ps0 : ps0 = [pipes EXCEPT ![c] = MakePipes(some)]
  OBVIOUS
<1>3. /\ ps0 \in [Child -> [Stdio -> PipeRecs]] /\ ps0[c] = MakePipes(some)
      /\ \A d \in Child \ {c} : ps0[d] = pipes[d]
  BY <1>2, MadeAreFresh DEF ChildInv
<1>4. \A i \in Stdio : Fresh(c, some, ps0[c][i], i)
  BY <1>3, MadeAreFresh
<1>5. ASSUME NEW d \in Child, NEW i \in Stdio
      PROVE  /\ ps0[d][i].made => ps0[d][i].cloexec
             /\ ~ps0[d][i].made => ps0[d][i].readers = {} /\ ps0[d][i].writers = {}
  <2>1. CASE d = c
    BY <1>4, <2>1 DEF Fresh
  <2>2. CASE d # c
    <3>1. Flow(d, child[d], proc[d], pipes[d][i], i)
      BY DEF ChildInv, Local
    <3> QED
      BY <1>3, <2>2, <3>1 DEF Flow
  <2> QED
    BY <2>1, <2>2
<1>6. Inherit(ps0, c) = ps0
  BY <1>3, <1>5, NothingInherited
<1>7. PICK forked : forked = Dup(ps0, c)
  OBVIOUS
<1>8. /\ forked \in [Child -> [Stdio -> PipeRecs]]
      /\ \A d \in Child \ {c} : forked[d] = pipes[d]
      /\ \A i \in Stdio : Fresh(c, some, forked[c][i], i)
  BY <1>3, <1>4, <1>7, DupIsFresh
<1>9. PICK mid : mid = IF starts THEN forked ELSE [d \in Child |-> Without(forked[d], c)]
  OBVIOUS
<1>10. pipes' = ParentEnds(mid, c)
  <2>1. pipes' = ParentEnds(IF starts THEN forked ELSE
                     [d \in Child |-> [i \in Stdio |->
                         [forked[d][i] EXCEPT !.readers = @ \ {c}, !.writers = @ \ {c}]]], c)
    BY <1>1, <1>2, <1>6, <1>7 DEF Spawn
  <2> QED
    BY <1>9, <2>1 DEF Without
<1>11. /\ mid \in [Child -> [Stdio -> PipeRecs]]
       /\ \A d \in Child \ {c} : Shrunk(mid[d], pipes[d])
       /\ \A i \in Stdio : Fresh(c, some, mid[c][i], i)
       /\ ~starts => \A i \in Stdio : c \notin mid[c][i].readers /\ c \notin mid[c][i].writers
  <2>1. CASE starts
    <3>1. mid = forked
      BY <1>9, <2>1
    <3>2. \A d \in Child \ {c} : Shrunk(forked[d], pipes[d])
      BY <1>8 DEF Shrunk
    <3> QED
      BY <1>8, <2>1, <3>1, <3>2
  <2>2. CASE ~starts
    <3>1. \A d \in Child : mid[d] = Without(forked[d], c) /\ forked[d] \in [Stdio -> PipeRecs]
      BY <1>8, <1>9, <2>2
    <3>2. \A d \in Child : Shrunk(mid[d], forked[d])
      BY <3>1, WithoutShrinks
    <3>3. \A d \in Child : mid[d] \in [Stdio -> PipeRecs]
      BY <3>2 DEF Shrunk
    <3>4. mid \in [Child -> [Stdio -> PipeRecs]]
      <4>1. mid = [d \in Child |-> Without(forked[d], c)]
        BY <1>9, <2>2
      <4>2. mid = [d \in Child |-> mid[d]]
        BY <4>1
      <4> QED
        BY <3>3, <4>2
    <3>5. \A i \in Stdio : Fresh(c, some, mid[c][i], i)
      BY <1>8, <3>1, WithoutIsFresh
    <3>6. \A i \in Stdio : c \notin mid[c][i].readers /\ c \notin mid[c][i].writers
      BY <3>1, WithoutShrinks
    <3>7. \A d \in Child \ {c} : Shrunk(mid[d], pipes[d])
      BY <1>8, <3>2
    <3> QED
      BY <3>4, <3>5, <3>6, <3>7
  <2> QED
    BY <2>1, <2>2
<1>12. /\ pipes' \in [Child -> [Stdio -> PipeRecs]]
       /\ \A d \in Child \ {c} : pipes'[d] = mid[d]
       /\ \A i \in Stdio :
            /\ Fresh(c, some, pipes'[c][i], i)
            /\ pipes'[c][i].readers \subseteq mid[c][i].readers
            /\ pipes'[c][i].writers \subseteq mid[c][i].writers
            /\ i = 0 => "node" \notin pipes'[c][i].readers
            /\ i # 0 => "node" \notin pipes'[c][i].writers
  <2>1. mid \in [Child -> [Stdio -> PipeRecs]] /\ \A i \in Stdio : Fresh(c, some, mid[c][i], i)
    BY <1>11
  <2>2. PICK new : new = ParentEnds(mid, c)
    OBVIOUS
  <2>3. new \in [Child -> [Stdio -> PipeRecs]] /\ \A d \in Child \ {c} : new[d] = mid[d]
    <3>1. ParentEnds(mid, c) \in [Child -> [Stdio -> PipeRecs]]
      BY <2>1, ParentKeepsItsEnds
    <3>2. \A d \in Child \ {c} : ParentEnds(mid, c)[d] = mid[d]
      BY <2>1 DEF ParentEnds
    <3> QED
      BY <2>2, <3>1, <3>2
  <2>4. \A i \in Stdio :
            /\ Fresh(c, some, new[c][i], i)
            /\ new[c][i].readers \subseteq mid[c][i].readers
            /\ new[c][i].writers \subseteq mid[c][i].writers
            /\ i = 0 => "node" \notin new[c][i].readers
            /\ i # 0 => "node" \notin new[c][i].writers
    BY <2>1, <2>2, ParentKeepsItsEnds
  <2>5. pipes' = new
    BY <1>10, <2>2
  <2> QED
    BY <2>3, <2>4, <2>5
<1>13. \A d \in Child \ {c} : Shrunk(pipes'[d], pipes[d])
  BY <1>11, <1>12
<1>14. ASSUME NEW i \in Stdio, ~starts PROVE c \notin pipes'[c][i].readers /\ c \notin pipes'[c][i].writers
  <2>1. c \notin mid[c][i].readers /\ c \notin mid[c][i].writers
    BY <1>11, <1>14
  <2>2. pipes'[c][i].readers \subseteq mid[c][i].readers /\ pipes'[c][i].writers \subseteq mid[c][i].writers
    BY <1>12
  <2> QED
    BY <2>1, <2>2
<1> QED
  BY <1>1, <1>12, <1>13, <1>14

\* ChildProcess::Spawn, within spawn() or execFile().
LEMMA SpawnKeeps ==
    ASSUME ChildInv, NEW c \in Child, NEW custom \in SUBSET Stdio, NEW starts \in BOOLEAN,
           Spawn(c, custom, starts), NEW e2 \in ExecRecs, execs' = [execs EXCEPT ![c] = e2],
           e2.on => custom = {}, e2.exited = execs[c].exited, e2.answers = execs[c].answers
    PROVE  ChildInv'
<1>1. PICK ch, p, ps, e : ch = child[c] /\ p = proc[c] /\ ps = pipes[c] /\ e = execs[c]
  OBVIOUS
<1>2. Local(c, ch, p, ps, e)
  BY <1>1 DEF ChildInv
<1>3. ch \in ChildRecs /\ p \in ProcRecs /\ ps \in [Stdio -> PipeRecs] /\ e \in ExecRecs
  BY <1>2 DEF Local
<1>4. Life(ch, p) /\ Streams(ch) /\ Output(p) /\ Answers(ch, p, e)
  BY <1>2 DEF Local
<1>5. ch.st = "new" /\ ~ch.gotCHLD /\ ~ch.watcher /\ ch.refs = 0
  BY <1>1, <1>4 DEF Spawn, Life
<1>6. /\ ch.closing = {} /\ ch.closed = {} /\ ch.exits = 0 /\ \A i \in Stdio : ch.got[i] = 0
  BY <1>3, <1>4, <1>5 DEF Streams, ChildRecs
<1>7. PICK r \in SUBSET {1, 2} : r = {1, 2} \ custom
  OBVIOUS
<1>8. PICK n \in Nat : n = ch.refs + 1
  BY <1>5
<1> DEFINE ch2 == [ch EXCEPT !.st = "spawned", !.pid = TRUE, !.watcher = TRUE, !.refs = n,
                             !.custom = custom, !.readable = r]
<1>9. child' = [child EXCEPT ![c] = ch2]
  BY <1>1, <1>7, <1>8 DEF Spawn, Watched
<1>10. ch2 \in ChildRecs
  BY <1>3 DEF ChildRecs
<1>11. /\ ch2.st = "spawned" /\ ch2.pid /\ ch2.watcher /\ ch2.refs = n /\ ch2.custom = custom
       /\ ch2.readable = r /\ ch2.closing = ch.closing /\ ch2.closed = ch.closed
       /\ ch2.gotCHLD = ch.gotCHLD /\ ch2.exits = ch.exits /\ ch2.got = ch.got
  BY <1>3 DEF ChildRecs
<1> HIDE DEF ch2
<1>12. PICK s \in {"running", "zombie"}, t \in Status :
           s = (IF starts THEN "running" ELSE "zombie") /\ t = (IF starts THEN "none" ELSE "failed")
  BY DEF Status
<1> DEFINE p2 == [p EXCEPT !.st = s, !.status = t]
<1>13. proc' = [proc EXCEPT ![c] = p2]
  BY <1>1, <1>12 DEF Spawn
<1>14. p2 \in ProcRecs /\ p2.st = s /\ p2.written = p.written
  BY <1>3 DEF ProcRecs
<1> HIDE DEF p2
<1>15. PICK ps2 : ps2 = pipes'[c]
  OBVIOUS
<1>16. ps2 \in [Stdio -> PipeRecs]
  BY <1>15, SpawnPipes
<1>17. Life(ch2, p2)
  <2>1. n = 1
    BY <1>5, <1>8
  <2> QED
    BY <1>5, <1>11, <1>12, <1>14, <2>1 DEF Life
<1>18. Streams(ch2)
  BY <1>6, <1>7, <1>11 DEF Streams
<1>19. Output(p2)
  BY <1>4, <1>14 DEF Output
<1>20. ASSUME NEW i \in Stdio PROVE Flow(c, ch2, p2, ps2[i], i)
  <2>1. PICK q : q = ps2[i]
    OBVIOUS
  <2>2. /\ Fresh(c, Stdio \ custom, q, i)
        /\ i = 0 => "node" \notin q.readers
        /\ i # 0 => "node" \notin q.writers
        /\ ~starts => c \notin q.readers /\ c \notin q.writers
    BY <1>15, <2>1, SpawnPipes
  <2>3. q.data = 0 /\ ch.got[i] = 0 /\ p.written[i] = 0
    <3>1. Flow(c, ch, p, ps[i], i)
      BY <1>2 DEF Local
    <3>2. ch.readable = {}
      BY <1>4, <1>5 DEF Streams
    <3>3. p.written[i] = 0
      <4>1. CASE i = 0
        BY <3>1, <4>1 DEF Flow
      <4>2. CASE i # 0
        BY <1>6, <3>1, <3>2, <4>2 DEF Flow
      <4> QED
        BY <4>1, <4>2
    <3> QED
      BY <1>6, <2>2, <3>3 DEF Fresh
  <2>4. ch2.got[i] + q.data = p2.written[i] /\ p2.written[i] = 0
    BY <1>11, <1>14, <2>3
  <2>5. i # 0 /\ i \notin r => q.readers = {} /\ q.writers = {}
    <3>1. i # 0 /\ i \notin r => i \notin Stdio \ custom
      BY <1>7, StdioIs
    <3> QED
      BY <2>2, <3>1 DEF Fresh
  <2>6. s # "running" => ~starts
    BY <1>12
  <2>7. /\ i = 0 => q.readers \subseteq {c} /\ q.writers \subseteq {"node"}
        /\ i # 0 => q.readers \subseteq {"node"} /\ q.writers \subseteq {c}
    BY <2>2 DEF Fresh
  <2>8. (q.made => q.cloexec) /\ (~q.made => q.readers = {} /\ q.writers = {})
    BY <2>2 DEF Fresh
  <2>9. Flow(c, ch2, p2, q, i)
    BY <1>5, <1>11, <1>14, <2>2, <2>3, <2>4, <2>5, <2>6, <2>7, <2>8 DEF Flow
  <2> QED
    BY <2>1, <2>9
<1>21. Answers(ch2, p2, e2)
  <2>1. e2.exited = e.exited /\ e2.answers = e.answers
    BY <1>1
  <2>2. e.answers # <<"ok">>
    BY <1>4, <1>5 DEF Answers
  <2>3. ch2.got[1] = 0 /\ ch2.got[2] = 0
    BY <1>6, <1>11, StdioIs
  <2>4. 0 <= MaxBuffer
    BY ChildAssumption
  <2> QED
    BY <1>4, <1>11, <2>1, <2>2, <2>3, <2>4 DEF Answers
<1>22. Local(c, ch2, p2, ps2, e2)
  BY <1>10, <1>14, <1>16, <1>17, <1>18, <1>19, <1>20, <1>21 DEF Local
<1>23. pipes' \in [Child -> [Stdio -> PipeRecs]] /\ \A d \in Child \ {c} : Shrunk(pipes'[d], pipes[d])
  BY SpawnPipes
<1> QED
  BY <1>9, <1>13, <1>15, <1>22, <1>23, FrameKeeps

\* spawn().
LEMMA SpawnOnlyKeeps ==
    ASSUME ChildInv, NEW c \in Child, NEW custom \in Customs, NEW starts \in BOOLEAN,
           SpawnOnly(c, custom, starts)
    PROVE  ChildInv'
<1>1. PICK e \in ExecRecs : e = execs[c]
  BY DEF ChildInv
<1>2. Spawn(c, custom, starts) /\ execs' = [execs EXCEPT ![c] = e]
  BY <1>1 DEF SpawnOnly, ChildInv
<1>3. custom \in SUBSET Stdio
  BY ChildAssumption DEF Stdio
<1>4. ~e.on
  <2>1. Answers(child[c], proc[c], e) /\ child[c].st = "new"
    BY <1>1, <1>2 DEF ChildInv, Local, Spawn
  <2> QED
    BY <2>1 DEF Answers
<1> QED
  BY <1>1, <1>2, <1>3, <1>4, SpawnKeeps

\* execFile().
LEMMA ExecFileKeeps ==
    ASSUME ChildInv, NEW c \in Child, NEW starts \in BOOLEAN, NEW timeout \in BOOLEAN,
           ExecFile(c, starts, timeout)
    PROVE  ChildInv'
<1>1. PICK e \in ExecRecs : e = execs[c]
  BY DEF ChildInv
<1>2. PICK e2 : e2 = [e EXCEPT !.on = TRUE, !.timer = timeout]
  OBVIOUS
<1>3. e2 \in ExecRecs /\ e2.exited = e.exited /\ e2.answers = e.answers
  BY <1>2 DEF ExecRecs
<1>4. Spawn(c, {}, starts) /\ execs' = [execs EXCEPT ![c] = e2]
  BY <1>1, <1>2 DEF ExecFile
<1>5. {} \in SUBSET Stdio
  OBVIOUS
<1> QED
  BY <1>1, <1>3, <1>4, <1>5, SpawnKeeps

\* A failed spawn leaves the pipes that were made with node, and nothing else.
LEMMA SpawnFailsKeeps ==
    ASSUME ChildInv, NEW c \in Child, NEW made \in {{}, {0}, {0, 1}, {0, 1, 2}}, SpawnFails(c, made)
    PROVE  ChildInv'
<1>1. PICK ch, p, ps, e : ch = child[c] /\ p = proc[c] /\ ps = pipes[c] /\ e = execs[c]
  OBVIOUS
<1>2. Local(c, ch, p, ps, e)
  BY <1>1 DEF ChildInv
<1>3. ch \in ChildRecs /\ p \in ProcRecs /\ e \in ExecRecs /\ Life(ch, p) /\ Streams(ch) /\ Answers(ch, p, e)
  BY <1>2 DEF Local
<1>4. ch.st = "new"
  BY <1>1 DEF SpawnFails
<1>5. PICK ps2 : ps2 = MakePipes(made)
  OBVIOUS
<1>6. made \in SUBSET Stdio
  BY StdioIs
<1>7. ps2 \in [Stdio -> PipeRecs] /\ \A i \in Stdio : Fresh(c, made, ps2[i], i)
  BY <1>5, <1>6, MadeAreFresh
<1> DEFINE ch2 == [ch EXCEPT !.st = "failed"]
<1>8. /\ ch2 \in ChildRecs /\ ch2.st = "failed" /\ ch2.pid = ch.pid /\ ch2.watcher = ch.watcher
      /\ ch2.refs = ch.refs /\ ch2.gotCHLD = ch.gotCHLD /\ ch2.code = ch.code /\ ch2.custom = ch.custom
      /\ ch2.readable = ch.readable /\ ch2.closing = ch.closing /\ ch2.closed = ch.closed
      /\ ch2.exits = ch.exits /\ ch2.got = ch.got
  BY <1>3 DEF ChildRecs
<1>9. /\ child' = [child EXCEPT ![c] = ch2] /\ pipes' = [pipes EXCEPT ![c] = ps2]
      /\ proc' = [proc EXCEPT ![c] = p] /\ execs' = [execs EXCEPT ![c] = e]
  BY <1>1, <1>5 DEF SpawnFails, ChildInv
<1> HIDE DEF ch2
<1>10. Life(ch2, p)
  BY <1>3, <1>4, <1>8 DEF Life
<1>11. Streams(ch2)
  BY <1>3, <1>4, <1>8 DEF Streams
<1>12. ASSUME NEW i \in Stdio PROVE Flow(c, ch2, p, ps2[i], i)
  <2>1. PICK q : q = ps2[i]
    OBVIOUS
  <2>2. Fresh(c, made, q, i)
    BY <1>7, <2>1
  <2>3. Flow(c, ch, p, ps[i], i)
    BY <1>2 DEF Local
  <2>4. ch.readable = {} /\ ch.got[i] = 0
    BY <1>3, <1>4 DEF Streams
  <2>5. p.written[i] = 0
    <3>1. CASE i = 0
      BY <2>3, <3>1 DEF Flow
    <3>2. CASE i # 0
      BY <2>3, <2>4, <3>2 DEF Flow
    <3> QED
      BY <3>1, <3>2
  <2>6. q.data = 0
    BY <2>2 DEF Fresh
  <2>7. ch2.got[i] + q.data = p.written[i]
    BY <1>8, <2>4, <2>5, <2>6
  <2>8. Flow(c, ch2, p, q, i)
    BY <1>8, <2>2, <2>5, <2>6, <2>7 DEF Flow, Fresh
  <2> QED
    BY <2>1, <2>8
<1>13. Answers(ch2, p, e)
  BY <1>3, <1>4, <1>8 DEF Answers
<1>14. Local(c, ch2, p, ps2, e)
  BY <1>2, <1>7, <1>8, <1>10, <1>11, <1>12, <1>13 DEF Local
<1> QED
  BY <1>9, <1>14, AloneKeeps

-----------------------------------------------------------------------------
(* The theorem. *)

\* Every step of any child keeps the invariant.
LEMMA ChildStep == ASSUME ChildInv, [ChildNext]_childVars PROVE ChildInv'
<1>1. CASE \E c \in Child, custom \in Customs, starts \in BOOLEAN : SpawnOnly(c, custom, starts)
  BY <1>1, SpawnOnlyKeeps
<1>2. CASE \E c \in Child, made \in {{}, {0}, {0, 1}, {0, 1, 2}} : SpawnFails(c, made)
  BY <1>2, SpawnFailsKeeps
<1>3. CASE \E c \in Child, starts \in BOOLEAN, timeout \in BOOLEAN : ExecFile(c, starts, timeout)
  BY <1>3, ExecFileKeeps
<1>4. CASE \E c \in Child, i \in {1, 2} : ProcessWrites(c, i)
  BY <1>4, WritesKeeps
<1>5. CASE \E c \in Child, i \in {1, 2} : ChildOnData(c, i)
  BY <1>5, DataKeeps
<1>6. CASE \E c \in Child, i \in {1, 2} : OnEndOfOutput(c, i)
  BY <1>6, EndOfOutputKeeps
<1>7. CASE \E c \in Child, i \in {1, 2} : OnStreamClose(c, i)
  BY <1>7, StreamCloseKeeps
<1>8. CASE \E c \in Child, status \in {"ok", "failed", "signal"} : ProcessEnds(c, status)
  BY <1>8, EndsKeeps
<1>9. CASE \E c \in Child : Kill(c)
  BY <1>9, KillKeeps
<1>10. CASE \E c \in Child : ExecTimeout(c)
  BY <1>10, TimeoutKeeps
<1>11. CASE \E c \in Child : ExecTick(c)
  BY <1>11, TickKeeps
<1>12. CASE \E c \in Child : OnExit(c)
  BY <1>12, ExitKeeps
<1>13. CASE Reap
  BY <1>13, ReapKeeps
<1>14. CASE UNCHANGED childVars
  BY <1>14 DEF childVars, ChildInv
<1> QED
  BY <1>1, <1>2, <1>3, <1>4, <1>5, <1>6, <1>7, <1>8, <1>9, <1>10, <1>11, <1>12, <1>13, <1>14 DEF ChildNext

\* What the invariant says of one child is what ChildSafe says of it.
LEMMA ChildIsSafe ==
    ASSUME NEW c \in Child, NEW ch, NEW p, NEW ps, NEW e, Local(c, ch, p, ps, e)
    PROVE  /\ ch.refs \in 0..1 /\ ch.exits \in 0..2
           /\ ch.readable \cup ch.closing \cup ch.closed \subseteq {1, 2}
           /\ \A i \in Stdio : ch.got[i] <= MaxOutput
           /\ e.ticks \in Nat
           /\ \A i \in Stdio : ps[i].readers \subseteq Holder /\ ps[i].writers \subseteq Holder
           /\ (ch.watcher <=> ch.refs = 1) /\ (ch.watcher <=> ch.pid) /\ (ch.watcher => p.st # "none")
           /\ ch.exits > 0 =>
                /\ p.st = "reaped" /\ ch.code = p.status
                /\ \A i \in {1, 2} \ ch.custom : ch.got[i] = p.written[i]
           /\ Len(e.answers) <= 1
           /\ e.answers = <<"ok">> =>
                p.status = "ok" /\ \A i \in {1, 2} : ch.got[i] = p.written[i] /\ ch.got[i] <= MaxBuffer
           /\ \A i \in Stdio : ch.st = "spawned" =>
                /\ ps[i].readers \cup ps[i].writers \subseteq {"node", c}
                /\ i # 0 => "node" \notin ps[i].writers
                /\ ch.gotCHLD /\ ch.readable = {} => ps[i].readers \cup ps[i].writers = {}
<1>1. ch \in ChildRecs /\ p \in ProcRecs /\ ps \in [Stdio -> PipeRecs] /\ e \in ExecRecs
  BY DEF Local
<1>2. Life(ch, p) /\ Streams(ch) /\ Output(p) /\ Answers(ch, p, e)
  BY DEF Local
<1>3. /\ ch.watcher \in BOOLEAN /\ ch.refs \in Nat /\ ch.exits \in Nat /\ e.ticks \in Nat
      /\ ch.readable \cup ch.closing \cup ch.closed \subseteq {1, 2}
  BY <1>1 DEF ChildRecs, ExecRecs
<1>4. ch.refs \in 0..1 /\ ch.exits \in 0..2 /\ (ch.watcher <=> ch.refs = 1)
  <2>1. ch.watcher => ch.refs = 1
    BY <1>2 DEF Life
  <2>2. ~ch.watcher => ch.refs = 0
    BY <1>2 DEF Life
  <2>3. ch.exits <= 2
    BY <1>2 DEF Streams
  <2> QED
    BY <1>3, <2>1, <2>2, <2>3
<1>5. \A i \in Stdio : ps[i].readers \subseteq Holder /\ ps[i].writers \subseteq Holder /\ ps[i].data \in Nat
  BY <1>1 DEF PipeRecs
<1>6. \A i \in Stdio : ch.got[i] \in Nat /\ p.written[i] \in Nat
  BY <1>1 DEF ChildRecs, ProcRecs
<1>7. \A i \in Stdio : /\ ch.got[i] + ps[i].data = p.written[i]
                       /\ i = 0 => p.written[i] = 0
                       /\ i # 0 /\ i \notin ch.readable => ps[i].data = 0
  BY DEF Local, Flow
<1>8. \A i \in Stdio : ch.got[i] <= MaxOutput
  <2>1. p.written[1] + p.written[2] <= MaxOutput
    BY <1>2 DEF Output
  <2>2. \A i \in Stdio : p.written[i] <= MaxOutput
    BY <1>6, <1>7, <2>1, StdioIs, ChildAssumption
  <2>3. \A i \in Stdio : ch.got[i] <= p.written[i]
    BY <1>5, <1>6, <1>7
  <2> QED
    BY <1>6, <2>2, <2>3, ChildAssumption
<1>9. ch.readable = {} => \A i \in {1, 2} : ch.got[i] = p.written[i]
  <2>1. ASSUME ch.readable = {}, NEW i \in {1, 2} PROVE ch.got[i] = p.written[i]
    <3>1. i \in Stdio /\ ps[i].data = 0
      BY <1>7, <2>1, StdioIs
    <3> QED
      BY <1>6, <1>7, <3>1
  <2> QED
    BY <2>1
<1>10. ch.exits > 0 => p.st = "reaped" /\ ch.code = p.status /\ ch.readable = {}
  BY <1>2 DEF Life, Streams
<1>11. (ch.watcher <=> ch.pid) /\ (ch.watcher => p.st # "none")
  BY <1>2 DEF Life
<1>12. Len(e.answers) <= 1
  BY <1>2 DEF Answers
<1>13. ASSUME e.answers = <<"ok">>
       PROVE  p.status = "ok" /\ ch.readable = {} /\ \A i \in {1, 2} : ch.got[i] <= MaxBuffer
  <2>1. p.status = "ok" /\ ch.readable = {} /\ ch.got[1] <= MaxBuffer /\ ch.got[2] <= MaxBuffer
    BY <1>2, <1>13 DEF Answers
  <2> QED
    BY <2>1
<1>14. ASSUME NEW i \in Stdio, ch.st = "spawned"
       PROVE  /\ ps[i].readers \cup ps[i].writers \subseteq {"node", c}
              /\ i # 0 => "node" \notin ps[i].writers
              /\ ch.gotCHLD /\ ch.readable = {} => ps[i].readers \cup ps[i].writers = {}
  <2>1. Flow(c, ch, p, ps[i], i)
    BY DEF Local
  <2>2. c # "node"
    BY ChildAssumption
  <2>3. ps[i].readers \cup ps[i].writers \subseteq {"node", c}
    BY <1>14, <2>1 DEF Flow
  <2>4. i # 0 => "node" \notin ps[i].writers
    BY <1>14, <2>1, <2>2 DEF Flow
  <2>5. ASSUME ch.gotCHLD, ch.readable = {} PROVE ps[i].readers \cup ps[i].writers = {}
    <3>1. p.st # "running"
      BY <1>2, <2>5 DEF Life
    <3> QED
      BY <1>14, <2>1, <2>5, <3>1 DEF Flow
  <2> QED
    BY <2>3, <2>4, <2>5
<1> QED
  BY <1>3, <1>4, <1>5, <1>8, <1>9, <1>10, <1>11, <1>12, <1>13, <1>14

\* Child processes are safe: 'exit' comes after the end of the process and
\* after all the output it wrote to its pipes, execFile calls back once and
\* without an error only with the whole output, and the ends of a child's pipes
\* are held by that child and by node alone, and by nobody in the end.
THEOREM ChildrenAreSafe == ChildSpec => []ChildSafe
<1>1. ChildInit => ChildInv
  BY ChildStarts
<1>2. ChildInv /\ [ChildNext]_childVars => ChildInv'
  BY ChildStep
<1>3. ChildInv => ChildSafe
  <2>1. SUFFICES ASSUME ChildInv PROVE ChildSafe
    OBVIOUS
  <2>2. \A c \in Child : Local(c, child[c], proc[c], pipes[c], execs[c])
    BY <2>1 DEF ChildInv
  <2>3. ChildTypeOK
    BY <2>2, ChildIsSafe DEF ChildTypeOK
  <2>4. WatchedIsHeld
    BY <2>2, ChildIsSafe DEF WatchedIsHeld
  <2>5. ExitAfterOutput
    BY <2>2, ChildIsSafe DEF ExitAfterOutput
  <2>6. ExecAnswersOnce
    BY <2>2, ChildIsSafe DEF ExecAnswersOnce
  <2>7. PipesArePrivate
    BY <2>2, ChildIsSafe DEF PipesArePrivate
  <2> QED
    BY <2>3, <2>4, <2>5, <2>6, <2>7 DEF ChildSafe
<1> QED
  BY <1>1, <1>2, <1>3, PTL DEF ChildSpec

-----------------------------------------------------------------------------
(***************************************************************************)
(* The terminal.  StdioSafe of NodeStdio, for any message and any number   *)
(* of switches and stops, when a continued process finds the shell's       *)
(* settings and signals come between the mode switches: with other values  *)
(* of ContModes and Interrupts TLC refutes it.  The invariant says, for    *)
(* every place in the functions of the binding, how the terminal, the      *)
(* static variables and the rest of a message belong together.             *)
(***************************************************************************)
TermRecs == [mode : {"shell", "raw"}, nonblock : BOOLEAN]

StdioRecs ==
    [st : {"running", "stopped", "exited", "killed"}, rawmode : BOOLEAN, orig : {"none", "shell", "raw"},
     stdin_flags : BOOLEAN, stdout_flags : BOOLEAN,
     pc : {"js", "enable", "set", "flag", "disable", "unflag", "write", "done"}, then : {"js", "done"},
     switches : Nat]

StderrRecs == [out : Seq(STRING), left : Seq(STRING), calls : Nat]

\* The settings of the terminal, and what node knows of them, at each place.
ModeOK(t, s) ==
    /\ s.rawmode => s.orig = "shell"
    /\ s.st = "stopped" => s.pc = "js" /\ t.mode = "shell"
    /\ s.st = "running" /\ s.pc \in {"js", "write", "disable"} => (s.rawmode <=> t.mode = "raw")
    /\ s.pc \in {"enable", "set"} => ~s.rawmode /\ t.mode = "shell"
    /\ s.pc \in {"set", "flag"} => ~s.rawmode /\ s.orig = "shell"
    /\ s.pc = "flag" => t.mode = "raw"
    /\ s.pc = "unflag" => t.mode = "shell"
    /\ s.pc = "done" => t.mode = "shell"
    /\ s.st \in {"exited", "killed"} => s.pc = "done"

\* The terminal does not block as long as some stream has its flags to give
\* back, and blocks from the start of the exit on.
BlockOK(t, s) ==
    /\ t.nonblock => s.stdin_flags \/ s.stdout_flags
    /\ s.then = "done" => ~t.nonblock /\ s.pc \in {"disable", "unflag", "done"}
    /\ s.pc = "done" /\ s.st # "killed" => ~t.nonblock

\* What was written and what is left is the message.
ErrorOK(s, x) ==
    /\ x.calls = 0 => x.out = <<>> /\ x.left = <<>>
    /\ x.calls # 0 => x.out \o x.left = Message
    /\ s.pc # "write" => x.left = <<>>

StdioOK(t, s, x) ==
    t \in TermRecs /\ s \in StdioRecs /\ x \in StderrRecs /\ ModeOK(t, s) /\ BlockOK(t, s) /\ ErrorOK(s, x)

StdioInv == StdioOK(term, stdio, stderr)

\* When node starts, the terminal has the shell's settings.
LEMMA StdioStarts == ASSUME StdioInit PROVE StdioInv
<1>1. /\ term \in TermRecs /\ term.mode = "shell" /\ term.nonblock = StdoutIsTTY
  BY StdioAssumption DEF StdioInit, TermRecs
<1>2. /\ stdio \in StdioRecs /\ stdio.st = "running" /\ ~stdio.rawmode /\ stdio.stdout_flags = StdoutIsTTY
      /\ stdio.pc = "js" /\ stdio.then = "js"
  BY StdioAssumption DEF StdioInit, StdioRecs
<1>3. stderr \in StderrRecs /\ stderr.out = <<>> /\ stderr.left = <<>> /\ stderr.calls = 0
  <2>1. <<>> \in Seq(STRING)
    BY EmptySeq
  <2> QED
    BY <2>1 DEF StdioInit, StderrRecs
<1>4. ModeOK(term, stdio) /\ BlockOK(term, stdio) /\ ErrorOK(stdio, stderr)
  BY <1>1, <1>2, <1>3 DEF ModeOK, BlockOK, ErrorOK
<1> QED
  BY <1>1, <1>2, <1>3, <1>4 DEF StdioInv, StdioOK

\* EnableRawMode, in its three steps.
LEMMA EnableKeeps == ASSUME StdioInv, stdio.st = "running", EnableRawMode PROVE StdioInv'
<1>1. PICK t \in TermRecs, s \in StdioRecs, x \in StderrRecs : t = term /\ s = stdio /\ x = stderr
  BY DEF StdioInv, StdioOK
<1>2. ModeOK(t, s) /\ BlockOK(t, s) /\ ErrorOK(s, x) /\ s.st = "running"
  BY <1>1 DEF StdioInv, StdioOK
<1>3. CASE s.pc = "enable" /\ stdio' = [s EXCEPT !.orig = t.mode, !.pc = "set"] /\ term' = t /\ stderr' = x
  <2>1. PICK s2 : s2 = stdio'
    OBVIOUS
  <2>2. /\ s2 \in StdioRecs /\ s2.st = s.st /\ s2.rawmode = s.rawmode /\ s2.orig = t.mode /\ s2.pc = "set"
        /\ s2.then = s.then /\ s2.stdin_flags = s.stdin_flags /\ s2.stdout_flags = s.stdout_flags
    BY <1>3, <2>1 DEF StdioRecs, TermRecs
  <2>3. ModeOK(t, s2) /\ BlockOK(t, s2) /\ ErrorOK(s2, x)
    BY <1>2, <1>3, <2>2 DEF ModeOK, BlockOK, ErrorOK
  <2> QED
    BY <1>3, <2>1, <2>2, <2>3 DEF StdioInv, StdioOK
<1>4. CASE s.pc = "set" /\ stdio' = [s EXCEPT !.pc = "flag"] /\ term' = [t EXCEPT !.mode = "raw"] /\ stderr' = x
  <2>1. PICK s2, t2 : s2 = stdio' /\ t2 = term'
    OBVIOUS
  <2>2. /\ s2 \in StdioRecs /\ s2.st = s.st /\ s2.rawmode = s.rawmode /\ s2.orig = s.orig /\ s2.pc = "flag"
        /\ s2.then = s.then /\ s2.stdin_flags = s.stdin_flags /\ s2.stdout_flags = s.stdout_flags
    BY <1>4, <2>1 DEF StdioRecs
  <2>3. t2 \in TermRecs /\ t2.mode = "raw" /\ t2.nonblock = t.nonblock
    BY <1>4, <2>1 DEF TermRecs
  <2>4. ModeOK(t2, s2) /\ BlockOK(t2, s2) /\ ErrorOK(s2, x)
    BY <1>2, <1>4, <2>2, <2>3 DEF ModeOK, BlockOK, ErrorOK
  <2> QED
    BY <1>4, <2>1, <2>2, <2>3, <2>4 DEF StdioInv, StdioOK
<1>5. CASE s.pc = "flag" /\ stdio' = [s EXCEPT !.rawmode = TRUE, !.pc = "js"] /\ term' = t /\ stderr' = x
  <2>1. PICK s2 : s2 = stdio'
    OBVIOUS
  <2>2. /\ s2 \in StdioRecs /\ s2.st = s.st /\ s2.rawmode /\ s2.orig = s.orig /\ s2.pc = "js"
        /\ s2.then = s.then /\ s2.stdin_flags = s.stdin_flags /\ s2.stdout_flags = s.stdout_flags
    BY <1>5, <2>1 DEF StdioRecs
  <2>3. ModeOK(t, s2) /\ BlockOK(t, s2) /\ ErrorOK(s2, x)
    BY <1>2, <1>5, <2>2 DEF ModeOK, BlockOK, ErrorOK
  <2> QED
    BY <1>5, <2>1, <2>2, <2>3 DEF StdioInv, StdioOK
<1> QED
  BY <1>1, <1>3, <1>4, <1>5 DEF EnableRawMode

\* DisableRawMode, in its two steps; what follows is JavaScript or the end.
LEMMA DisableKeeps == ASSUME StdioInv, stdio.st = "running", DisableRawMode PROVE StdioInv'
<1>1. PICK t \in TermRecs, s \in StdioRecs, x \in StderrRecs : t = term /\ s = stdio /\ x = stderr
  BY DEF StdioInv, StdioOK
<1>2. ModeOK(t, s) /\ BlockOK(t, s) /\ ErrorOK(s, x) /\ s.st = "running"
  BY <1>1 DEF StdioInv, StdioOK
<1>3. CASE /\ s.pc = "disable" /\ stdio' = [s EXCEPT !.pc = "unflag"] /\ stderr' = x
           /\ term' = IF s.rawmode THEN [t EXCEPT !.mode = s.orig] ELSE t
  <2>1. PICK s2, t2 : s2 = stdio' /\ t2 = term'
    OBVIOUS
  <2>2. /\ s2 \in StdioRecs /\ s2.st = s.st /\ s2.rawmode = s.rawmode /\ s2.orig = s.orig /\ s2.pc = "unflag"
        /\ s2.then = s.then /\ s2.stdin_flags = s.stdin_flags /\ s2.stdout_flags = s.stdout_flags
    BY <1>3, <2>1 DEF StdioRecs
  <2>3. t2 \in TermRecs /\ t2.mode = "shell" /\ t2.nonblock = t.nonblock
    <3>1. CASE s.rawmode
      <4>1. t2 = [t EXCEPT !.mode = "shell"]
        BY <1>2, <1>3, <2>1, <3>1 DEF ModeOK
      <4> QED
        BY <4>1 DEF TermRecs
    <3>2. CASE ~s.rawmode
      <4>1. t2 = t /\ t.mode # "raw"
        BY <1>2, <1>3, <2>1, <3>2 DEF ModeOK
      <4> QED
        BY <4>1 DEF TermRecs
    <3> QED
      BY <3>1, <3>2 DEF StdioRecs
  <2>4. ModeOK(t2, s2) /\ BlockOK(t2, s2) /\ ErrorOK(s2, x)
    BY <1>2, <1>3, <2>2, <2>3 DEF ModeOK, BlockOK, ErrorOK
  <2> QED
    BY <1>3, <2>1, <2>2, <2>3, <2>4 DEF StdioInv, StdioOK
<1>4. CASE s.pc = "unflag" /\ stdio' = [s EXCEPT !.rawmode = FALSE, !.pc = s.then] /\ term' = t /\ stderr' = x
  <2>1. PICK s2 : s2 = stdio'
    OBVIOUS
  <2>2. s.then \in {"js", "done"}
    BY DEF StdioRecs
  <2>3. /\ s2 \in StdioRecs /\ s2.st = s.st /\ ~s2.rawmode /\ s2.orig = s.orig /\ s2.pc = s.then
        /\ s2.then = s.then /\ s2.stdin_flags = s.stdin_flags /\ s2.stdout_flags = s.stdout_flags
    BY <1>4, <2>1, <2>2 DEF StdioRecs
  <2>4. ModeOK(t, s2) /\ BlockOK(t, s2) /\ ErrorOK(s2, x)
    BY <1>2, <1>4, <2>2, <2>3 DEF ModeOK, BlockOK, ErrorOK
  <2> QED
    BY <1>4, <2>1, <2>3, <2>4 DEF StdioInv, StdioOK
<1> QED
  BY <1>1, <1>3, <1>4 DEF DisableRawMode

\* setRawMode.
LEMMA SetRawModeKeeps == ASSUME StdioInv, NEW on \in BOOLEAN, SetRawMode(on) PROVE StdioInv'
<1>1. PICK t \in TermRecs, s \in StdioRecs, x \in StderrRecs : t = term /\ s = stdio /\ x = stderr
  BY DEF StdioInv, StdioOK
<1>2. ModeOK(t, s) /\ BlockOK(t, s) /\ ErrorOK(s, x)
  BY <1>1 DEF StdioInv, StdioOK
<1>3. s.st = "running" /\ s.pc = "js" /\ term' = t /\ stderr' = x
  BY <1>1 DEF SetRawMode, InJs
<1>4. PICK n \in Nat : n = s.switches + 1
  BY DEF StdioRecs
<1>5. PICK c : c = IF ~on THEN "disable" ELSE IF s.rawmode THEN "js" ELSE "enable"
  OBVIOUS
<1>6. c \in {"disable", "js", "enable"} /\ (c = "enable" => ~s.rawmode)
  BY <1>5
<1>7. stdio' = [s EXCEPT !.switches = n, !.pc = c, !.then = "js"]
  BY <1>1, <1>4, <1>5 DEF SetRawMode
<1>8. PICK s2 : s2 = stdio'
  OBVIOUS
<1>9. /\ s2 \in StdioRecs /\ s2.st = s.st /\ s2.rawmode = s.rawmode /\ s2.orig = s.orig /\ s2.pc = c
      /\ s2.then = "js" /\ s2.stdin_flags = s.stdin_flags /\ s2.stdout_flags = s.stdout_flags
  BY <1>6, <1>7, <1>8 DEF StdioRecs
<1>10. t.mode \in {"shell", "raw"}
  BY DEF TermRecs
<1>11. ModeOK(t, s2) /\ BlockOK(t, s2) /\ ErrorOK(s2, x)
  BY <1>2, <1>3, <1>6, <1>9, <1>10 DEF ModeOK, BlockOK, ErrorOK
<1> QED
  BY <1>3, <1>8, <1>9, <1>11 DEF StdioInv, StdioOK

\* A stop gives the terminal to the shell.
LEMMA StopJobKeeps == ASSUME StdioInv, ~Interrupts, StopJob PROVE StdioInv'
<1>1. PICK t \in TermRecs, s \in StdioRecs, x \in StderrRecs : t = term /\ s = stdio /\ x = stderr
  BY DEF StdioInv, StdioOK
<1>2. ModeOK(t, s) /\ BlockOK(t, s) /\ ErrorOK(s, x)
  BY <1>1 DEF StdioInv, StdioOK
<1>3. s.st = "running" /\ s.pc = "js" /\ stderr' = x
  BY <1>1 DEF StopJob, MayInterrupt
<1>4. PICK n \in Nat : n = s.switches + 1
  BY DEF StdioRecs
<1>5. PICK s2, t2 : s2 = stdio' /\ t2 = term'
  OBVIOUS
<1>6. s2 = [s EXCEPT !.st = "stopped", !.switches = n] /\ t2 = [t EXCEPT !.mode = "shell"]
  BY <1>1, <1>4, <1>5 DEF StopJob
<1>7. /\ s2 \in StdioRecs /\ s2.st = "stopped" /\ s2.rawmode = s.rawmode /\ s2.orig = s.orig /\ s2.pc = s.pc
      /\ s2.then = s.then /\ s2.stdin_flags = s.stdin_flags /\ s2.stdout_flags = s.stdout_flags
  BY <1>6 DEF StdioRecs
<1>8. t2 \in TermRecs /\ t2.mode = "shell" /\ t2.nonblock = t.nonblock
  BY <1>6 DEF TermRecs
<1>9. ModeOK(t2, s2) /\ BlockOK(t2, s2) /\ ErrorOK(s2, x)
  BY <1>2, <1>3, <1>7, <1>8 DEF ModeOK, BlockOK, ErrorOK
<1> QED
  BY <1>3, <1>5, <1>7, <1>8, <1>9 DEF StdioInv, StdioOK

\* HandleSIGCONT takes raw mode again and remembers the shell's settings.
LEMMA ContinueJobKeeps == ASSUME StdioInv, ContModes \subseteq {"shell"}, ContinueJob PROVE StdioInv'
<1>1. PICK t \in TermRecs, s \in StdioRecs, x \in StderrRecs : t = term /\ s = stdio /\ x = stderr
  BY DEF StdioInv, StdioOK
<1>2. ModeOK(t, s) /\ BlockOK(t, s) /\ ErrorOK(s, x)
  BY <1>1 DEF StdioInv, StdioOK
<1>3. s.st = "stopped" /\ s.pc = "js" /\ stderr' = x
  BY <1>1, <1>2 DEF ContinueJob, ModeOK
<1>4. PICK h : h = HandleSIGCONT("shell")
  OBVIOUS
<1>5. /\ term' = [t EXCEPT !.mode = h.term]
      /\ stdio' = [s EXCEPT !.st = "running", !.rawmode = h.rawmode, !.orig = h.orig]
  <2>1. PICK mode \in ContModes \cup {"shell"} :
            LET g == HandleSIGCONT(IF stdio.rawmode THEN mode ELSE "shell") IN
            /\ term' = [term EXCEPT !.mode = g.term]
            /\ stdio' = [stdio EXCEPT !.st = "running", !.rawmode = g.rawmode, !.orig = g.orig]
    BY DEF ContinueJob
  <2>2. mode = "shell" /\ (IF stdio.rawmode THEN mode ELSE "shell") = "shell"
    OBVIOUS
  <2> QED
    BY <1>1, <1>4, <2>1, <2>2
<1>6. PICK a \in {"shell", "raw"}, b \in BOOLEAN, o \in {"none", "shell", "raw"} :
          /\ h.term = a /\ h.rawmode = b /\ h.orig = o
          /\ b <=> s.rawmode
          /\ b <=> a = "raw"
          /\ b => o = "shell"
  <2>1. CASE s.rawmode
    <3>1. h.term = "raw" /\ h.rawmode = TRUE /\ h.orig = "shell"
      BY <1>1, <1>4, <2>1 DEF HandleSIGCONT
    <3> QED
      BY <2>1, <3>1
  <2>2. CASE ~s.rawmode
    <3>1. h.term = "shell" /\ h.rawmode = FALSE /\ h.orig = s.orig
      BY <1>1, <1>4, <2>2 DEF HandleSIGCONT
    <3>2. s.orig \in {"none", "shell", "raw"}
      BY DEF StdioRecs
    <3> QED
      BY <2>2, <3>1, <3>2
  <2> QED
    BY <2>1, <2>2 DEF StdioRecs
<1>7. PICK s2, t2 : s2 = stdio' /\ t2 = term'
  OBVIOUS
<1>8. s2 = [s EXCEPT !.st = "running", !.rawmode = b, !.orig = o] /\ t2 = [t EXCEPT !.mode = a]
  BY <1>5, <1>6, <1>7
<1>9. /\ s2 \in StdioRecs /\ s2.st = "running" /\ s2.rawmode = b /\ s2.orig = o /\ s2.pc = s.pc
      /\ s2.then = s.then /\ s2.stdin_flags = s.stdin_flags /\ s2.stdout_flags = s.stdout_flags
  BY <1>8 DEF StdioRecs
<1>10. t2 \in TermRecs /\ t2.mode = a /\ t2.nonblock = t.nonblock
  BY <1>8 DEF TermRecs
<1>11. ModeOK(t2, s2)
  BY <1>3, <1>6, <1>9, <1>10 DEF ModeOK
<1>12. BlockOK(t2, s2) /\ ErrorOK(s2, x)
  BY <1>2, <1>3, <1>9, <1>10 DEF BlockOK, ErrorOK
<1> QED
  BY <1>3, <1>7, <1>9, <1>10, <1>11, <1>12 DEF StdioInv, StdioOK

\* SIGINT and SIGTERM leave raw mode if node is in it.
LEMMA SignalExitKeeps == ASSUME StdioInv, ~Interrupts, SignalExit PROVE StdioInv'
<1>1. PICK t \in TermRecs, s \in StdioRecs, x \in StderrRecs : t = term /\ s = stdio /\ x = stderr
  BY DEF StdioInv, StdioOK
<1>2. ModeOK(t, s) /\ BlockOK(t, s) /\ ErrorOK(s, x)
  BY <1>1 DEF StdioInv, StdioOK
<1>3. s.st = "running" /\ s.pc = "js" /\ stderr' = x
  BY <1>1 DEF SignalExit, MayInterrupt
<1>4. PICK s2, t2 : s2 = stdio' /\ t2 = term'
  OBVIOUS
<1>5. /\ s2 = [s EXCEPT !.st = "killed", !.pc = "done"]
      /\ t2 = IF s.rawmode THEN [t EXCEPT !.mode = s.orig] ELSE t
  BY <1>1, <1>4 DEF SignalExit
<1>6. /\ s2 \in StdioRecs /\ s2.st = "killed" /\ s2.rawmode = s.rawmode /\ s2.orig = s.orig /\ s2.pc = "done"
      /\ s2.then = s.then /\ s2.stdin_flags = s.stdin_flags /\ s2.stdout_flags = s.stdout_flags
  BY <1>5 DEF StdioRecs
<1>7. t2 \in TermRecs /\ t2.mode = "shell" /\ t2.nonblock = t.nonblock
  <2>1. CASE s.rawmode
    <3>1. t2 = [t EXCEPT !.mode = "shell"]
      BY <1>2, <1>5, <2>1 DEF ModeOK
    <3> QED
      BY <3>1 DEF TermRecs
  <2>2. CASE ~s.rawmode
    <3>1. t2 = t /\ t.mode # "raw"
      BY <1>2, <1>3, <1>5, <2>2 DEF ModeOK
    <3> QED
      BY <3>1 DEF TermRecs
  <2> QED
    BY <2>1, <2>2 DEF StdioRecs
<1>8. ModeOK(t2, s2) /\ BlockOK(t2, s2) /\ ErrorOK(s2, x)
  BY <1>2, <1>3, <1>6, <1>7 DEF ModeOK, BlockOK, ErrorOK
<1> QED
  BY <1>3, <1>4, <1>6, <1>7, <1>8 DEF StdioInv, StdioOK

\* AtExit flushes and goes on to leave raw mode.
LEMMA AtExitKeeps == ASSUME StdioInv, AtExit PROVE StdioInv'
<1>1. PICK t \in TermRecs, s \in StdioRecs, x \in StderrRecs : t = term /\ s = stdio /\ x = stderr
  BY DEF StdioInv, StdioOK
<1>2. ModeOK(t, s) /\ BlockOK(t, s) /\ ErrorOK(s, x)
  BY <1>1 DEF StdioInv, StdioOK
<1>3. s.st = "running" /\ s.pc = "js" /\ stderr' = x
  BY <1>1 DEF AtExit, InJs
<1>4. PICK s2, t2 : s2 = stdio' /\ t2 = term'
  OBVIOUS
<1>5. /\ s2 = [s EXCEPT !.pc = "disable", !.then = "done"]
      /\ t2 = [t EXCEPT !.nonblock = IF s.stdin_flags \/ s.stdout_flags THEN FALSE ELSE @]
  BY <1>1, <1>4 DEF AtExit, StdioFlush
<1>6. /\ s2 \in StdioRecs /\ s2.st = s.st /\ s2.rawmode = s.rawmode /\ s2.orig = s.orig /\ s2.pc = "disable"
      /\ s2.then = "done" /\ s2.stdin_flags = s.stdin_flags /\ s2.stdout_flags = s.stdout_flags
  BY <1>5 DEF StdioRecs
<1>7. t2 \in TermRecs /\ t2.mode = t.mode /\ ~t2.nonblock
  <2>1. PICK b \in BOOLEAN : b = IF s.stdin_flags \/ s.stdout_flags THEN FALSE ELSE t.nonblock
    BY DEF TermRecs
  <2>2. ~b
    BY <1>2, <2>1 DEF BlockOK
  <2>3. t2 = [t EXCEPT !.nonblock = b]
    BY <1>5, <2>1
  <2> QED
    BY <2>2, <2>3 DEF TermRecs
<1>8. ModeOK(t2, s2) /\ BlockOK(t2, s2) /\ ErrorOK(s2, x)
  BY <1>2, <1>3, <1>6, <1>7 DEF ModeOK, BlockOK, ErrorOK
<1> QED
  BY <1>3, <1>4, <1>6, <1>7, <1>8 DEF StdioInv, StdioOK

\* The process is gone.
LEMMA ExitedKeeps == ASSUME StdioInv, Exited PROVE StdioInv'
<1>1. PICK t \in TermRecs, s \in StdioRecs, x \in StderrRecs : t = term /\ s = stdio /\ x = stderr
  BY DEF StdioInv, StdioOK
<1>2. ModeOK(t, s) /\ BlockOK(t, s) /\ ErrorOK(s, x)
  BY <1>1 DEF StdioInv, StdioOK
<1>3. s.st = "running" /\ s.pc = "done" /\ term' = t /\ stderr' = x
  BY <1>1 DEF Exited
<1>4. PICK s2 : s2 = stdio'
  OBVIOUS
<1>5. s2 = [s EXCEPT !.st = "exited"]
  BY <1>1, <1>4 DEF Exited
<1>6. /\ s2 \in StdioRecs /\ s2.st = "exited" /\ s2.rawmode = s.rawmode /\ s2.orig = s.orig /\ s2.pc = s.pc
      /\ s2.then = s.then /\ s2.stdin_flags = s.stdin_flags /\ s2.stdout_flags = s.stdout_flags
  BY <1>5 DEF StdioRecs
<1>7. ModeOK(t, s2) /\ BlockOK(t, s2) /\ ErrorOK(s2, x)
  BY <1>2, <1>3, <1>6 DEF ModeOK, BlockOK, ErrorOK
<1> QED
  BY <1>3, <1>4, <1>6, <1>7 DEF StdioInv, StdioOK

\* openStdin saves the flags before it changes them.
LEMMA OpenStdinKeeps == ASSUME StdioInv, OpenStdin PROVE StdioInv'
<1>1. PICK t \in TermRecs, s \in StdioRecs, x \in StderrRecs : t = term /\ s = stdio /\ x = stderr
  BY DEF StdioInv, StdioOK
<1>2. ModeOK(t, s) /\ BlockOK(t, s) /\ ErrorOK(s, x)
  BY <1>1 DEF StdioInv, StdioOK
<1>3. s.st = "running" /\ s.pc = "js" /\ stderr' = x
  BY <1>1 DEF OpenStdin, InJs
<1>4. PICK s2, t2 : s2 = stdio' /\ t2 = term'
  OBVIOUS
<1>5. s2 = [s EXCEPT !.stdin_flags = TRUE] /\ t2 = [t EXCEPT !.nonblock = TRUE]
  BY <1>1, <1>4 DEF OpenStdin
<1>6. /\ s2 \in StdioRecs /\ s2.st = s.st /\ s2.rawmode = s.rawmode /\ s2.orig = s.orig /\ s2.pc = s.pc
      /\ s2.then = s.then /\ s2.stdin_flags /\ s2.stdout_flags = s.stdout_flags
  BY <1>5 DEF StdioRecs
<1>7. t2 \in TermRecs /\ t2.mode = t.mode
  BY <1>5 DEF TermRecs
<1>8. ModeOK(t2, s2) /\ BlockOK(t2, s2) /\ ErrorOK(s2, x)
  BY <1>2, <1>3, <1>6, <1>7 DEF ModeOK, BlockOK, ErrorOK
<1> QED
  BY <1>3, <1>4, <1>6, <1>7, <1>8 DEF StdioInv, StdioOK

\* writeError has the whole message to write.
LEMMA WriteStartKeeps == ASSUME StdioInv, WriteErrorStart PROVE StdioInv'
<1>1. PICK t \in TermRecs, s \in StdioRecs, x \in StderrRecs : t = term /\ s = stdio /\ x = stderr
  BY DEF StdioInv, StdioOK
<1>2. ModeOK(t, s) /\ BlockOK(t, s) /\ ErrorOK(s, x)
  BY <1>1 DEF StdioInv, StdioOK
<1>3. s.st = "running" /\ s.pc = "js" /\ x.calls < 1 /\ term' = t
  BY <1>1 DEF WriteErrorStart, InJs
<1>4. x.calls = 0 /\ x.out = <<>>
  <2>1. x.calls \in Nat
    BY DEF StderrRecs
  <2>2. x.calls = 0
    BY <1>3, <2>1
  <2> QED
    BY <1>2, <2>2 DEF ErrorOK
<1>5. PICK n \in Nat : n = x.calls + 1
  BY <1>4
<1>6. PICK s2, x2 : s2 = stdio' /\ x2 = stderr'
  OBVIOUS
<1>7. s2 = [s EXCEPT !.pc = "write"] /\ x2 = [x EXCEPT !.left = Message, !.calls = n]
  BY <1>1, <1>5, <1>6 DEF WriteErrorStart
<1>8. /\ s2 \in StdioRecs /\ s2.st = s.st /\ s2.rawmode = s.rawmode /\ s2.orig = s.orig /\ s2.pc = "write"
      /\ s2.then = s.then /\ s2.stdin_flags = s.stdin_flags /\ s2.stdout_flags = s.stdout_flags
  BY <1>7 DEF StdioRecs
<1>9. Message \in Seq(STRING)
  BY StdioAssumption
<1>10. x2 \in StderrRecs /\ x2.out = <<>> /\ x2.left = Message /\ x2.calls = n
  BY <1>4, <1>7, <1>9 DEF StderrRecs
<1>11. n # 0 /\ <<>> \o Message = Message
  BY <1>4, <1>5, <1>9, ConcatEmptySeq
<1>12. ModeOK(t, s2) /\ BlockOK(t, s2)
  BY <1>2, <1>3, <1>8 DEF ModeOK, BlockOK
<1>13. ErrorOK(s2, x2)
  BY <1>8, <1>10, <1>11 DEF ErrorOK
<1> QED
  BY <1>3, <1>6, <1>8, <1>10, <1>12, <1>13 DEF StdioInv, StdioOK

\* A part of the rest that is written is still in its place in the message.
LEMMA WrittenInOrder ==
    ASSUME NEW a \in Seq(STRING), NEW l \in Seq(STRING), NEW n \in 1..Len(l)
    PROVE  /\ a \o SubSeq(l, 1, n) \in Seq(STRING) /\ SubSeq(l, n + 1, Len(l)) \in Seq(STRING)
           /\ (a \o SubSeq(l, 1, n)) \o SubSeq(l, n + 1, Len(l)) = a \o l
           /\ n = Len(l) => SubSeq(l, n + 1, Len(l)) = <<>>
<1>1. Len(l) \in Nat /\ n \in Nat /\ 1 <= n /\ n <= Len(l)
  BY LenProperties
<1>2. \A i \in 1..Len(l) : l[i] \in STRING
  BY ElementOfSeq
<1>3. SubSeq(l, 1, n) \in Seq(STRING)
  <2>1. \A i \in 1..n : l[i] \in STRING
    BY <1>1, <1>2
  <2> QED
    BY <1>1, <2>1, SubSeqProperties
<1>4. SubSeq(l, n + 1, Len(l)) \in Seq(STRING)
  <2>1. \A i \in (n + 1)..Len(l) : l[i] \in STRING
    BY <1>1, <1>2
  <2>2. n + 1 \in Int /\ Len(l) \in Int
    BY <1>1
  <2> QED
    BY <2>1, <2>2, SubSeqProperties
<1>5. SubSeq(l, 1, n) \o SubSeq(l, n + 1, Len(l)) = l
  <2>1. 1 \in 1..(Len(l) + 1) /\ n \in (1 - 1)..Len(l) /\ Len(l) \in n..Len(l)
    BY <1>1
  <2>2. SubSeq(l, 1, n) \o SubSeq(l, n + 1, Len(l)) = SubSeq(l, 1, Len(l))
    BY <2>1, ConcatAdjacentSubSeq
  <2> QED
    BY <2>2, SubSeqFull
<1>6. (a \o SubSeq(l, 1, n)) \o SubSeq(l, n + 1, Len(l)) = a \o l
  <2>1. PICK u \in Seq(STRING), v \in Seq(STRING) : u = SubSeq(l, 1, n) /\ v = SubSeq(l, n + 1, Len(l))
    BY <1>3, <1>4
  <2>2. u \o v = l
    BY <1>5, <2>1
  <2>3. (a \o u) \o v = a \o (u \o v)
    BY ConcatAssociative
  <2> QED
    BY <2>1, <2>2, <2>3
<1>7. a \o SubSeq(l, 1, n) \in Seq(STRING)
  BY <1>3, ConcatProperties
<1>8. n = Len(l) => SubSeq(l, n + 1, Len(l)) = <<>>
  <2>1. n = Len(l) => Len(l) < n + 1
    BY <1>1
  <2>2. n + 1 \in Int /\ Len(l) \in Int
    BY <1>1
  <2> QED
    BY <2>1, <2>2, SubSeqEmpty
<1> QED
  BY <1>4, <1>6, <1>7, <1>8

\* The loop of writeError.
LEMMA WriteErrorKeeps == ASSUME StdioInv, WriteError PROVE StdioInv'
<1>1. PICK t \in TermRecs, s \in StdioRecs, x \in StderrRecs : t = term /\ s = stdio /\ x = stderr
  BY DEF StdioInv, StdioOK
<1>2. ModeOK(t, s) /\ BlockOK(t, s) /\ ErrorOK(s, x)
  BY <1>1 DEF StdioInv, StdioOK
<1>3. s.st = "running" /\ s.pc = "write" /\ term' = t
  BY <1>1 DEF WriteError
<1>4. CASE UNCHANGED <<stdio, stderr>>
  BY <1>1, <1>2, <1>3, <1>4 DEF StdioInv, StdioOK
<1>5. CASE \E n \in 1..Len(stderr.left) :
              /\ stderr' = [stderr EXCEPT !.out = @ \o SubSeq(stderr.left, 1, n),
                                          !.left = SubSeq(stderr.left, n + 1, Len(stderr.left))]
              /\ stdio' = [stdio EXCEPT !.pc = IF n = Len(stderr.left) THEN "js" ELSE "write"]
  <2>1. PICK a \in Seq(STRING), l \in Seq(STRING) : a = x.out /\ l = x.left
    BY DEF StderrRecs
  <2>2. PICK n \in 1..Len(l) :
            /\ stderr' = [x EXCEPT !.out = a \o SubSeq(l, 1, n), !.left = SubSeq(l, n + 1, Len(l))]
            /\ stdio' = [s EXCEPT !.pc = IF n = Len(l) THEN "js" ELSE "write"]
    BY <1>1, <1>5, <2>1
  <2>3. PICK a2 \in Seq(STRING), l2 \in Seq(STRING) : a2 = a \o SubSeq(l, 1, n) /\ l2 = SubSeq(l, n + 1, Len(l))
    BY WrittenInOrder
  <2>4. a2 \o l2 = a \o l /\ (n = Len(l) => l2 = <<>>)
    BY <2>3, WrittenInOrder
  <2>5. PICK c \in {"js", "write"} : c = IF n = Len(l) THEN "js" ELSE "write"
    OBVIOUS
  <2>6. PICK s2, x2 : s2 = stdio' /\ x2 = stderr'
    OBVIOUS
  <2>7. s2 = [s EXCEPT !.pc = c] /\ x2 = [x EXCEPT !.out = a2, !.left = l2]
    BY <2>2, <2>3, <2>5, <2>6
  <2>8. /\ s2 \in StdioRecs /\ s2.st = s.st /\ s2.rawmode = s.rawmode /\ s2.orig = s.orig /\ s2.pc = c
        /\ s2.then = s.then /\ s2.stdin_flags = s.stdin_flags /\ s2.stdout_flags = s.stdout_flags
    BY <2>7 DEF StdioRecs
  <2>9. x2 \in StderrRecs /\ x2.out = a2 /\ x2.left = l2 /\ x2.calls = x.calls
    BY <2>7 DEF StderrRecs
  <2>10. ModeOK(t, s2) /\ BlockOK(t, s2)
    BY <1>2, <1>3, <2>8 DEF ModeOK, BlockOK
  <2>11. ErrorOK(s2, x2)
    <3>1. x.calls # 0
      <4>1. ASSUME x.calls = 0 PROVE FALSE
        <5>1. l = <<>>
          BY <1>2, <2>1, <4>1 DEF ErrorOK
        <5>2. 1..Len(l) = {}
          BY <5>1
        <5> QED
          BY <5>2
      <4> QED
        BY <4>1
    <3>2. a2 \o l2 = Message
      BY <1>2, <2>1, <2>4, <3>1 DEF ErrorOK
    <3>3. c # "write" => l2 = <<>>
      BY <2>4, <2>5
    <3> QED
      BY <2>8, <2>9, <3>1, <3>2, <3>3 DEF ErrorOK
  <2> QED
    BY <1>3, <2>6, <2>8, <2>9, <2>10, <2>11 DEF StdioInv, StdioOK
<1> QED
  BY <1>4, <1>5 DEF WriteError

\* The terminal is as it was when node has ended by itself or by a signal,
\* setRawMode reports how it is, and stderr gets messages whole: whenever a
\* continued process finds the shell's settings (HandleSIGCONT takes what it
\* finds for them) and no signal comes inside a mode switch.
THEOREM TerminalIsSafe ==
    ASSUME ContModes \subseteq {"shell"}, ~Interrupts
    PROVE  StdioSpec => []StdioSafe
<1>1. StdioInit => StdioInv
  BY StdioStarts
<1>2. StdioInv /\ [StdioNext]_stdioVars => StdioInv'
  <2>1. SUFFICES ASSUME StdioInv, [StdioNext]_stdioVars PROVE StdioInv'
    OBVIOUS
  <2>2. CASE stdio.st = "running" /\ EnableRawMode
    BY <2>1, <2>2, EnableKeeps
  <2>3. CASE stdio.st = "running" /\ DisableRawMode
    BY <2>1, <2>3, DisableKeeps
  <2>4. CASE \E on \in BOOLEAN : SetRawMode(on)
    BY <2>1, <2>4, SetRawModeKeeps
  <2>5. CASE StopJob
    BY <2>1, <2>5, StopJobKeeps
  <2>6. CASE ContinueJob
    BY <2>1, <2>6, ContinueJobKeeps
  <2>7. CASE SignalExit
    BY <2>1, <2>7, SignalExitKeeps
  <2>8. CASE AtExit
    BY <2>1, <2>8, AtExitKeeps
  <2>9. CASE Exited
    BY <2>1, <2>9, ExitedKeeps
  <2>10. CASE OpenStdin
    BY <2>1, <2>10, OpenStdinKeeps
  <2>11. CASE WriteErrorStart
    BY <2>1, <2>11, WriteStartKeeps
  <2>12. CASE WriteError
    BY <2>1, <2>12, WriteErrorKeeps
  <2>13. CASE UNCHANGED stdioVars
    BY <2>1, <2>13 DEF stdioVars, StdioInv
  <2> QED
    BY <2>1, <2>2, <2>3, <2>4, <2>5, <2>6, <2>7, <2>8, <2>9, <2>10, <2>11, <2>12, <2>13 DEF StdioNext
<1>3. StdioInv => StdioSafe
  <2>1. SUFFICES ASSUME StdioInv PROVE StdioSafe
    OBVIOUS
  <2>2. /\ term \in TermRecs /\ stdio \in StdioRecs /\ stderr \in StderrRecs
        /\ ModeOK(term, stdio) /\ BlockOK(term, stdio) /\ ErrorOK(stdio, stderr)
    BY <2>1 DEF StdioInv, StdioOK
  <2>3. StdioTypeOK
    BY <2>2 DEF StdioTypeOK, TermRecs, StdioRecs
  <2>4. TerminalRestored /\ BlocksAgain /\ RawModeIsTrue
    BY <2>2 DEF TerminalRestored, BlocksAgain, RawModeIsTrue, ModeOK, BlockOK, InJs
  <2>5. ErrorsAreWhole
    <3>1. ASSUME InJs PROVE stderr.left = <<>> /\ stderr.out \in {<<>>, Message}
      <4>1. stderr.left = <<>>
        BY <2>2, <3>1 DEF InJs, ErrorOK
      <4>2. stderr.out \in Seq(STRING)
        BY <2>2 DEF StderrRecs
      <4>3. stderr.out \o <<>> = stderr.out
        BY <4>2, ConcatEmptySeq
      <4> QED
        BY <2>2, <4>1, <4>3 DEF ErrorOK
    <3> QED
      BY <3>1 DEF ErrorsAreWhole
  <2> QED
    BY <2>3, <2>4, <2>5 DEF StdioSafe
<1> QED
  BY <1>1, <1>2, <1>3, PTL DEF StdioSpec

-----------------------------------------------------------------------------
(***************************************************************************)
(* The console of Windows.  TtySafe of NodeTty, for any width, any number  *)
(* of events, of repeats and of calls.  The invariant numbers the events:  *)
(* with b of them read, the queue holds the ones from b + 1 on, the keys   *)
(* told are of the first b in order, and each of those was told as often   *)
(* as it was repeated, up to the repeats that tty_poll still has to tell   *)
(* of event b and to the ones that were cut short.                         *)
(***************************************************************************)
TtyRecs ==
    [init : BOOLEAN, active : BOOLEAN, sent : BOOLEAN, wait : {"none", "armed", "done"}, calls : Nat, turns : Nat]

PollRecs == [on : BOOLEAN, i : Nat, j : Nat, at : Nat, calling : BOOLEAN]

Cells == 0..(Width - 1)

ScreenRecs ==
    [cell : [Cells -> {"text", "blank"}], x : Cells, wrap : BOOLEAN, asked : SUBSET Cells, ok : BOOLEAN,
     from : Cells, was : [Cells -> {"text", "blank"}]]

\* How often an event is told.
Tellings(ev) == IF IsTold(ev) THEN ev.repeat ELSE 0

QueueOK(b, queue, all) ==
    /\ Len(all) = b + Len(queue)
    /\ \A n \in 1..Len(queue) : queue[n] = b + n

OrderOK(b, keys) ==
    /\ \A n \in 1..Len(keys) : keys[n] \in 1..b
    /\ \A m, n \in 1..Len(keys) : m < n => keys[m] <= keys[n]

CountOK(b, keys, all, cut, at, j) ==
    \A k \in 1..b :
        k \in cut \/ Cardinality(Times(keys, k)) + (IF k = at THEN j ELSE 0) = Tellings(all[k])

KeysOK(b, queue, all, keys, cut, at, j) ==
    /\ b \in Nat /\ queue \in Seq(Nat) /\ all \in Seq(ConsoleEvent) /\ keys \in Seq(Nat) /\ at \in Nat /\ j \in Nat
    /\ QueueOK(b, queue, all) /\ OrderOK(b, keys) /\ CountOK(b, keys, all, cut, at, j)
    /\ at \in {0, b} /\ (at = 0 => j = 0) /\ j <= MaxRepeat

\* tty_poll is off the stack with nothing left to tell, or has counted events
\* that are all in the queue.
PollOK(q, queue) ==
    /\ ~q.on => q.at = 0 /\ q.j = 0 /\ ~q.calling
    /\ q.on => q.i <= Len(queue)

ArmedOK(t, q) == t.active /\ ~q.on => t.wait = "armed" \/ t.calls > 0 \/ t.sent

ScreenOK(s) ==
    s.asked # {} =>
        /\ s.ok => s.x = s.from /\ \A x \in s.asked : s.cell[x] = "blank"
        /\ \A x \in Cells \ s.asked : s.cell[x] = s.was[x]

TtyInv ==
    /\ tty \in TtyRecs /\ poll \in PollRecs /\ screen \in ScreenRecs
    /\ input = [queue |-> input.queue, all |-> input.all]
    /\ seen = [keys |-> seen.keys, cut |-> seen.cut]
    /\ \E b \in Nat : KeysOK(b, input.queue, input.all, seen.keys, seen.cut, poll.at, poll.j)
    /\ PollOK(poll, input.queue)
    /\ ArmedOK(tty, poll)
    /\ ScreenOK(screen)


\* An event is told no more often than it can be repeated.
LEMMA TellingsBound ==
    ASSUME NEW ev \in ConsoleEvent
    PROVE  Tellings(ev) \in Nat /\ Tellings(ev) <= MaxRepeat
<1>1. MaxRepeat \in Nat
  BY TtyAssumption
<1>2. CASE IsTold(ev)
  <2>1. ev \in [type : {"key"}, down : BOOLEAN, named : BOOLEAN, repeat : 1..MaxRepeat]
    BY <1>2 DEF ConsoleEvent, IsTold
  <2>2. ev.repeat \in 1..MaxRepeat
    BY <2>1
  <2> QED
    BY <1>1, <1>2, <2>2 DEF Tellings
<1>3. CASE ~IsTold(ev)
  BY <1>1, <1>3 DEF Tellings
<1> QED
  BY <1>2, <1>3

\* A key is told a finite number of times.
LEMMA TimesAreFinite ==
    ASSUME NEW keys \in Seq(Nat), NEW k \in Nat
    PROVE  IsFiniteSet(Times(keys, k)) /\ Cardinality(Times(keys, k)) \in Nat
<1>1. Len(keys) \in Nat /\ DOMAIN keys = 1..Len(keys)
  BY LenProperties
<1>2. IsFiniteSet(1..Len(keys))
  BY <1>1, FS_Interval
<1>3. Times(keys, k) \subseteq 1..Len(keys)
  BY <1>1 DEF Times
<1>4. IsFiniteSet(Times(keys, k))
  BY <1>2, <1>3, FS_Subset
<1> QED
  BY <1>4, FS_CardinalityType

\* One more call tells one key once more.
LEMMA TimesOfAppend ==
    ASSUME NEW keys \in Seq(Nat), NEW a \in Nat, NEW k \in Nat
    PROVE  Cardinality(Times(Append(keys, a), k)) = Cardinality(Times(keys, k)) + (IF k = a THEN 1 ELSE 0)
<1>1. Len(keys) \in Nat /\ DOMAIN keys = 1..Len(keys)
  BY LenProperties
<1>2. PICK more \in Seq(Nat) : more = Append(keys, a)
  BY AppendProperties
<1>3. /\ Len(more) = Len(keys) + 1
      /\ \A n \in 1..Len(keys) : more[n] = keys[n]
      /\ more[Len(keys) + 1] = a
  BY <1>2, AppendProperties
<1>4. DOMAIN more = 1..(Len(keys) + 1)
  BY <1>3, LenProperties
<1>5. CASE k = a
  <2>1. Times(more, k) = Times(keys, k) \cup {Len(keys) + 1}
    BY <1>1, <1>3, <1>4, <1>5 DEF Times
  <2>2. Len(keys) + 1 \notin Times(keys, k)
    BY <1>1 DEF Times
  <2>3. IsFiniteSet(Times(keys, k))
    BY TimesAreFinite
  <2>4. Cardinality(Times(more, k)) = Cardinality(Times(keys, k)) + 1
    BY <2>1, <2>2, <2>3, FS_AddElement
  <2> QED
    BY <1>2, <1>5, <2>4
<1>6. CASE k # a
  <2>1. Times(more, k) = Times(keys, k)
    BY <1>1, <1>3, <1>4, <1>6 DEF Times
  <2>2. Cardinality(Times(keys, k)) \in Nat
    BY TimesAreFinite
  <2> QED
    BY <1>2, <1>6, <2>1, <2>2
<1> QED
  BY <1>5, <1>6

\* An event that is typed goes to the end of the queue.
LEMMA TypedKeepsKeys ==
    ASSUME NEW b, NEW queue, NEW all, NEW keys, NEW cut, NEW at, NEW j, NEW e \in ConsoleEvent,
           KeysOK(b, queue, all, keys, cut, at, j)
    PROVE  /\ KeysOK(b, Append(queue, Len(all) + 1), Append(all, e), keys, cut, at, j)
           /\ Len(Append(queue, Len(all) + 1)) = Len(queue) + 1
<1>1. /\ b \in Nat /\ queue \in Seq(Nat) /\ all \in Seq(ConsoleEvent) /\ keys \in Seq(Nat) /\ at \in Nat /\ j \in Nat
      /\ QueueOK(b, queue, all) /\ OrderOK(b, keys) /\ CountOK(b, keys, all, cut, at, j)
      /\ at \in {0, b} /\ (at = 0 => j = 0) /\ j <= MaxRepeat
  BY DEF KeysOK
<1>2. Len(queue) \in Nat /\ Len(all) \in Nat /\ Len(all) = b + Len(queue)
  BY <1>1, LenProperties DEF QueueOK
<1>3. PICK a2 \in Seq(ConsoleEvent) : a2 = Append(all, e)
  BY <1>1, AppendProperties
<1>4. PICK q2 \in Seq(Nat) : q2 = Append(queue, Len(all) + 1)
  <2>1. Len(all) + 1 \in Nat
    BY <1>2
  <2> QED
    BY <1>1, <2>1, AppendProperties
<1>5. Len(a2) = Len(all) + 1 /\ (\A n \in 1..Len(all) : a2[n] = all[n])
  BY <1>1, <1>3, AppendProperties
<1>6. /\ Len(q2) = Len(queue) + 1 /\ (\A n \in 1..Len(queue) : q2[n] = queue[n])
      /\ q2[Len(queue) + 1] = Len(all) + 1
  BY <1>1, <1>2, <1>4, AppendProperties
<1>7. QueueOK(b, q2, a2)
  <2>1. ASSUME NEW n \in 1..Len(q2) PROVE q2[n] = b + n
    <3>1. CASE n \in 1..Len(queue)
      BY <1>1, <1>6, <3>1 DEF QueueOK
    <3>2. CASE n = Len(queue) + 1
      BY <1>1, <1>2, <1>6, <3>2
    <3> QED
      BY <1>2, <1>6, <3>1, <3>2
  <2> QED
    BY <1>1, <1>2, <1>5, <1>6, <2>1 DEF QueueOK
<1>8. CountOK(b, keys, a2, cut, at, j)
  <2>1. 1..b \subseteq 1..Len(all)
    BY <1>1, <1>2
  <2>2. \A k \in 1..b : a2[k] = all[k]
    BY <1>5, <2>1
  <2> QED
    BY <1>1, <2>2 DEF CountOK
<1>9. KeysOK(b, q2, a2, keys, cut, at, j)
  BY <1>1, <1>7, <1>8 DEF KeysOK
<1> QED
  BY <1>3, <1>4, <1>6, <1>9

\* The event that is read is the next one, and has not been told.
LEMMA ReadKeepsKeys ==
    ASSUME NEW b, NEW queue, NEW all, NEW keys, NEW cut, NEW at,
           KeysOK(b, queue, all, keys, cut, at, 0), queue # <<>>
    PROVE  /\ b + 1 \in Nat /\ Head(queue) = b + 1 /\ all[b + 1] \in ConsoleEvent
           /\ KeysOK(b + 1, Tail(queue), all, keys, cut, b + 1, Tellings(all[b + 1]))
           /\ Len(queue) \in Nat /\ Len(Tail(queue)) = Len(queue) - 1
<1>1. /\ b \in Nat /\ queue \in Seq(Nat) /\ all \in Seq(ConsoleEvent) /\ keys \in Seq(Nat)
      /\ QueueOK(b, queue, all) /\ OrderOK(b, keys) /\ CountOK(b, keys, all, cut, at, 0)
  BY DEF KeysOK
<1>2. Len(queue) \in Nat /\ Len(queue) # 0 /\ Len(all) = b + Len(queue)
  BY <1>1, EmptySeq, LenProperties DEF QueueOK
<1>3. Head(queue) = queue[1] /\ queue[1] = b + 1
  BY <1>1, <1>2, HeadTailProperties DEF QueueOK
<1>4. b + 1 \in 1..Len(all)
  BY <1>1, <1>2
<1>5. PICK ev \in ConsoleEvent : ev = all[b + 1]
  BY <1>1, <1>4, ElementOfSeq
<1>6. PICK j \in Nat : j = Tellings(ev) /\ j <= MaxRepeat
  BY TellingsBound
<1>7. PICK q2 \in Seq(Nat) : q2 = Tail(queue)
  BY <1>1, HeadTailProperties
<1>8. Len(q2) = Len(queue) - 1 /\ \A n \in 1..Len(q2) : q2[n] = queue[n + 1]
  BY <1>1, <1>7, HeadTailProperties
<1>9. QueueOK(b + 1, q2, all)
  <2>1. Len(all) = b + 1 + Len(q2)
    BY <1>1, <1>2, <1>8
  <2>2. ASSUME NEW n \in 1..Len(q2) PROVE q2[n] = b + 1 + n
    <3>1. n + 1 \in 1..Len(queue)
      BY <1>2, <1>8
    <3>2. queue[n + 1] = b + (n + 1)
      BY <1>1, <3>1 DEF QueueOK
    <3> QED
      BY <1>1, <1>8, <3>2
  <2> QED
    BY <2>1, <2>2 DEF QueueOK
<1>10. OrderOK(b + 1, keys)
  BY <1>1 DEF OrderOK
<1>11. CountOK(b + 1, keys, all, cut, b + 1, j)
  <2>1. ASSUME NEW k \in 1..(b + 1)
        PROVE  k \in cut \/ Cardinality(Times(keys, k)) + (IF k = b + 1 THEN j ELSE 0) = Tellings(all[k])
    <3>1. CASE k = b + 1
      <4>1. DOMAIN keys = 1..Len(keys)
        BY <1>1, LenProperties
      <4>2. Times(keys, k) = {}
        BY <1>1, <3>1, <4>1 DEF Times, OrderOK
      <4>3. Cardinality(Times(keys, k)) = 0
        BY <4>2, FS_EmptySet
      <4> QED
        BY <1>5, <1>6, <3>1, <4>3
    <3>2. CASE k # b + 1
      <4>1. k \in 1..b /\ k \in Nat
        BY <1>1, <3>2
      <4>2. Cardinality(Times(keys, k)) \in Nat
        BY <1>1, <4>1, TimesAreFinite
      <4> QED
        BY <1>1, <3>2, <4>1, <4>2 DEF CountOK
    <3> QED
      BY <3>1, <3>2
  <2> QED
    BY <2>1 DEF CountOK
<1>12. KeysOK(b + 1, q2, all, keys, cut, b + 1, j)
  BY <1>1, <1>6, <1>9, <1>10, <1>11 DEF KeysOK
<1> QED
  BY <1>1, <1>2, <1>3, <1>5, <1>6, <1>7, <1>8, <1>12

\* A call of the keypress callback tells the event that was read last.
LEMMA CallKeepsKeys ==
    ASSUME NEW b, NEW queue, NEW all, NEW keys, NEW cut, NEW at, NEW j,
           KeysOK(b, queue, all, keys, cut, at, j), j > 0
    PROVE  KeysOK(b, queue, all, Append(keys, at), cut, at, j - 1)
<1>1. /\ b \in Nat /\ queue \in Seq(Nat) /\ all \in Seq(ConsoleEvent) /\ keys \in Seq(Nat) /\ at \in Nat /\ j \in Nat
      /\ QueueOK(b, queue, all) /\ OrderOK(b, keys) /\ CountOK(b, keys, all, cut, at, j)
      /\ at \in {0, b} /\ (at = 0 => j = 0) /\ j <= MaxRepeat
  BY DEF KeysOK
<1>2. at = b /\ b > 0
  BY <1>1
<1>3. PICK more \in Seq(Nat) : more = Append(keys, at)
  BY <1>1, AppendProperties
<1>4. /\ Len(keys) \in Nat /\ Len(more) = Len(keys) + 1
      /\ \A n \in 1..Len(keys) : more[n] = keys[n]
      /\ more[Len(keys) + 1] = at
  BY <1>1, <1>3, AppendProperties, LenProperties
<1>5. OrderOK(b, more)
  <2>1. ASSUME NEW n \in 1..Len(more) PROVE more[n] \in 1..b
    <3>1. CASE n \in 1..Len(keys)
      BY <1>1, <1>4, <3>1 DEF OrderOK
    <3>2. CASE n = Len(keys) + 1
      BY <1>1, <1>2, <1>4, <3>2
    <3> QED
      BY <1>4, <3>1, <3>2
  <2>2. ASSUME NEW m \in 1..Len(more), NEW n \in 1..Len(more), m < n PROVE more[m] <= more[n]
    <3>1. m \in 1..Len(keys)
      BY <1>4, <2>2
    <3>2. CASE n \in 1..Len(keys)
      BY <1>1, <1>4, <2>2, <3>1, <3>2 DEF OrderOK
    <3>3. CASE n = Len(keys) + 1
      BY <1>2, <1>4, <2>1, <3>3
    <3> QED
      BY <1>4, <3>2, <3>3
  <2> QED
    BY <2>1, <2>2 DEF OrderOK
<1>6. CountOK(b, more, all, cut, at, j - 1)
  <2>1. ASSUME NEW k \in 1..b, k \notin cut
        PROVE  Cardinality(Times(more, k)) + (IF k = at THEN j - 1 ELSE 0) = Tellings(all[k])
    <3> k \in Nat
      BY <1>1
    <3>1. PICK c \in Nat : c = Cardinality(Times(keys, k))
      BY <1>1, TimesAreFinite
    <3>2. c + (IF k = at THEN j ELSE 0) = Tellings(all[k])
      BY <1>1, <2>1, <3>1 DEF CountOK
    <3>3. Cardinality(Times(more, k)) = c + (IF k = at THEN 1 ELSE 0)
      BY <1>1, <1>3, <3>1, TimesOfAppend
    <3> QED
      BY <1>1, <3>2, <3>3
  <2> QED
    BY <2>1 DEF CountOK
<1>7. j - 1 \in Nat /\ j - 1 <= MaxRepeat
  BY <1>1, TtyAssumption
<1>8. KeysOK(b, queue, all, more, cut, at, j - 1)
  BY <1>1, <1>2, <1>5, <1>6, <1>7 DEF KeysOK
<1> QED
  BY <1>3, <1>8

\* The repeats that are left are dropped, and the event counts as cut short.
LEMMA CutKeepsKeys ==
    ASSUME NEW b, NEW queue, NEW all, NEW keys, NEW cut, NEW at, NEW j,
           KeysOK(b, queue, all, keys, cut, at, j)
    PROVE  KeysOK(b, queue, all, keys, cut \cup {at}, at, 0)
<1>1. /\ b \in Nat /\ queue \in Seq(Nat) /\ all \in Seq(ConsoleEvent) /\ keys \in Seq(Nat) /\ at \in Nat /\ j \in Nat
      /\ QueueOK(b, queue, all) /\ OrderOK(b, keys) /\ CountOK(b, keys, all, cut, at, j)
      /\ at \in {0, b} /\ 0 <= MaxRepeat
  BY TtyAssumption DEF KeysOK
<1>2. CountOK(b, keys, all, cut \cup {at}, at, 0)
  <2>1. ASSUME NEW k \in 1..b, k \notin cut \cup {at}
        PROVE  Cardinality(Times(keys, k)) + (IF k = at THEN 0 ELSE 0) = Tellings(all[k])
    <3>1. Cardinality(Times(keys, k)) \in Nat
      <4>1. k \in Nat
        BY <1>1
      <4> QED
        BY <1>1, <4>1, TimesAreFinite
    <3>2. Cardinality(Times(keys, k)) + 0 = Tellings(all[k])
      BY <1>1, <2>1 DEF CountOK
    <3> QED
      BY <3>1, <3>2
  <2> QED
    BY <2>1 DEF CountOK
<1> QED
  BY <1>1, <1>2 DEF KeysOK

\* With nothing left to tell, the event that was read last is done with.
LEMMA DoneKeepsKeys ==
    ASSUME NEW b, NEW queue, NEW all, NEW keys, NEW cut, NEW at,
           KeysOK(b, queue, all, keys, cut, at, 0)
    PROVE  KeysOK(b, queue, all, keys, cut, 0, 0)
<1>1. /\ b \in Nat /\ queue \in Seq(Nat) /\ all \in Seq(ConsoleEvent) /\ keys \in Seq(Nat)
      /\ QueueOK(b, queue, all) /\ OrderOK(b, keys) /\ CountOK(b, keys, all, cut, at, 0) /\ 0 <= MaxRepeat
  BY TtyAssumption DEF KeysOK
<1>2. CountOK(b, keys, all, cut, 0, 0)
  BY <1>1 DEF CountOK
<1> QED
  BY <1>1, <1>2 DEF KeysOK

\* A step of the watcher alone keeps the rest.
LEMMA WatcherFrame ==
    ASSUME TtyInv, UNCHANGED <<input, poll, seen, screen>>, tty' \in TtyRecs, ArmedOK(tty', poll)
    PROVE  TtyInv'
BY DEF TtyInv

\* A step of the screen, too, counts as a turn of the application.
LEMMA ScreenFrame ==
    ASSUME TtyInv, UNCHANGED <<input, poll, seen>>, tty' = [tty EXCEPT !.turns = @ + 1],
           screen' \in ScreenRecs, ScreenOK(screen')
    PROVE  TtyInv'
<1>1. PICK t \in TtyRecs, q \in PollRecs : t = tty /\ q = poll /\ ArmedOK(t, q)
  BY DEF TtyInv
<1>2. PICK n \in Nat : n = t.turns + 1
  BY DEF TtyRecs
<1>3. PICK t2 : t2 = [t EXCEPT !.turns = n]
  OBVIOUS
<1>4. t2 \in TtyRecs /\ t2.active = t.active /\ t2.wait = t.wait /\ t2.calls = t.calls /\ t2.sent = t.sent
  BY <1>3 DEF TtyRecs
<1>5. tty' = t2
  BY <1>1, <1>2, <1>3
<1>6. ArmedOK(t2, q)
  BY <1>1, <1>4 DEF ArmedOK
<1> QED
  BY <1>1, <1>4, <1>5, <1>6 DEF TtyInv

\* A console with no input, a watcher that is made and not started, a line of text.
LEMMA TtyStarts == TtyInit => TtyInv
<1>1. SUFFICES ASSUME TtyInit PROVE TtyInv
  OBVIOUS
<1>2. tty \in TtyRecs /\ poll \in PollRecs
  BY <1>1 DEF TtyInit, InitTTYWatcher, NoPoll, TtyRecs, PollRecs
<1>3. screen \in ScreenRecs /\ ScreenOK(screen)
  BY <1>1, TtyAssumption DEF TtyInit, ScreenRecs, ScreenOK, Cells
<1>4. PollOK(poll, input.queue) /\ ArmedOK(tty, poll)
  BY <1>1 DEF TtyInit, InitTTYWatcher, NoPoll, PollOK, ArmedOK
<1>5. /\ input = [queue |-> input.queue, all |-> input.all] /\ input.queue = <<>> /\ input.all = <<>>
      /\ seen = [keys |-> seen.keys, cut |-> seen.cut] /\ seen.keys = <<>> /\ seen.cut = {}
      /\ poll.at = 0 /\ poll.j = 0
  BY <1>1 DEF TtyInit, NoPoll
<1>6. KeysOK(0, <<>>, <<>>, <<>>, {}, 0, 0)
  <2>1. QueueOK(0, <<>>, <<>>) /\ OrderOK(0, <<>>) /\ CountOK(0, <<>>, <<>>, {}, 0, 0)
    BY DEF QueueOK, OrderOK, CountOK
  <2> QED
    BY <2>1, TtyAssumption DEF KeysOK
<1> QED
  BY <1>2, <1>3, <1>4, <1>5, <1>6 DEF TtyInv

\* Typing changes the queue only at its end, so tty_poll still has what it counted.
LEMMA TypedKeeps ==
    ASSUME TtyInv, NEW e \in ConsoleEvent, Typed(e)
    PROVE  TtyInv'
<1>1. PICK b \in Nat : KeysOK(b, input.queue, input.all, seen.keys, seen.cut, poll.at, poll.j)
  BY DEF TtyInv
<1>2. PICK queue, all : queue = Append(input.queue, Len(input.all) + 1) /\ all = Append(input.all, e)
  OBVIOUS
<1>3. KeysOK(b, queue, all, seen.keys, seen.cut, poll.at, poll.j) /\ Len(queue) = Len(input.queue) + 1
  BY <1>1, <1>2, TypedKeepsKeys
<1>4. input' = [queue |-> queue, all |-> all] /\ UNCHANGED <<tty, poll, seen, screen>>
  BY <1>2 DEF Typed
<1>5. input'.queue = queue /\ input'.all = all
  BY <1>4
<1>6. PollOK(poll, queue)
  <2>1. Len(input.queue) \in Nat
    BY <1>1, LenProperties DEF KeysOK
  <2>2. poll.i \in Nat
    BY DEF TtyInv, PollRecs
  <2> QED
    BY <1>3, <2>1, <2>2 DEF TtyInv, PollOK
<1>7. input' = [queue |-> input'.queue, all |-> input'.all]
  BY <1>4, <1>5
<1>8. \E c \in Nat : KeysOK(c, input'.queue, input'.all, seen'.keys, seen'.cut, poll'.at, poll'.j)
  BY <1>3, <1>4, <1>5
<1>9. PollOK(poll', input'.queue)
  BY <1>4, <1>5, <1>6
<1> QED
  BY <1>4, <1>7, <1>8, <1>9 DEF TtyInv

\* The wait that is over leaves a call of tty_want_poll to come.
LEMMA WaitThreadKeeps ==
    ASSUME TtyInv, WaitThread
    PROVE  TtyInv'
<1>1. PICK t \in TtyRecs, q \in PollRecs : t = tty /\ q = poll /\ ArmedOK(t, q)
  BY DEF TtyInv
<1>2. PICK n \in Nat : n = t.calls + 1 /\ n > 0
  BY DEF TtyRecs
<1>3. PICK t2 : t2 = [t EXCEPT !.wait = "done", !.calls = n]
  OBVIOUS
<1>4. t2 \in TtyRecs /\ t2.calls = n
  BY <1>3 DEF TtyRecs
<1>5. tty' = t2 /\ UNCHANGED <<input, poll, seen, screen>>
  BY <1>1, <1>2, <1>3 DEF WaitThread
<1>6. ArmedOK(t2, q)
  BY <1>2, <1>4 DEF ArmedOK
<1> QED
  BY <1>1, <1>4, <1>5, <1>6, WatcherFrame

\* tty_want_poll leaves the loop told.
LEMMA WantPollKeeps ==
    ASSUME TtyInv, tty_want_poll
    PROVE  TtyInv'
<1>1. PICK t \in TtyRecs, q \in PollRecs : t = tty /\ q = poll /\ ArmedOK(t, q)
  BY DEF TtyInv
<1>2. PICK n \in Nat : n = t.calls - 1
  BY <1>1 DEF TtyRecs, tty_want_poll
<1>3. PICK t2 : t2 = [t EXCEPT !.calls = n, !.sent = TRUE]
  OBVIOUS
<1>4. t2 \in TtyRecs /\ t2.sent = TRUE
  BY <1>3 DEF TtyRecs
<1>5. tty' = t2 /\ UNCHANGED <<input, poll, seen, screen>>
  BY <1>1, <1>2, <1>3 DEF tty_want_poll
<1>6. ArmedOK(t2, q)
  BY <1>4 DEF ArmedOK
<1> QED
  BY <1>1, <1>4, <1>5, <1>6, WatcherFrame

\* Counting the call changes nothing that the watcher does.
LEMMA TurnKeeps ==
    ASSUME TtyInv, NEW t \in TtyRecs, Turn(t), ArmedOK(t, poll)
    PROVE  TtyInv'
<1>1. PICK n \in Nat : n = t.turns + 1
  BY DEF TtyRecs
<1>2. PICK t2 : t2 = [t EXCEPT !.turns = n]
  OBVIOUS
<1>3. t2 \in TtyRecs /\ t2.active = t.active /\ t2.wait = t.wait /\ t2.calls = t.calls /\ t2.sent = t.sent
  BY <1>2 DEF TtyRecs
<1>4. tty' = t2 /\ UNCHANGED <<input, poll, seen, screen>>
  BY <1>1, <1>2 DEF Turn
<1>5. ArmedOK(t2, poll)
  BY <1>3 DEF ArmedOK
<1> QED
  BY <1>3, <1>4, <1>5, WatcherFrame

\* A watcher that starts forgets what was sent before, and is armed.
LEMMA StartTTYKeeps ==
    ASSUME TtyInv, StartTTYWatcher
    PROVE  TtyInv'
<1>1. PICK t \in TtyRecs : t = tty /\ ~t.active /\ Turn(tty_watcher_start(t))
  BY DEF TtyInv, StartTTYWatcher
<1>2. PICK t2 : t2 = [t EXCEPT !.active = TRUE, !.sent = FALSE]
  OBVIOUS
<1>3. t2 \in TtyRecs /\ t2.active = TRUE
  BY <1>2 DEF TtyRecs
<1>4. PICK t3 : t3 = [t2 EXCEPT !.wait = "armed"]
  OBVIOUS
<1>5. t3 \in TtyRecs /\ t3.wait = "armed"
  BY <1>3, <1>4 DEF TtyRecs
<1>6. tty_watcher_start(t) = t3
  BY <1>1, <1>2, <1>3, <1>4 DEF tty_watcher_start, tty_watcher_arm
<1>7. ArmedOK(t3, poll)
  BY <1>5 DEF ArmedOK
<1> QED
  BY <1>1, <1>5, <1>6, <1>7, TurnKeeps

\* A stopped watcher waits for nothing.
LEMMA StoppedWatcher ==
    ASSUME NEW t \in TtyRecs
    PROVE  tty_watcher_stop(t) \in TtyRecs /\ tty_watcher_stop(t).active = FALSE
<1>1. CASE t.active
  <2>1. PICK t2 : t2 = [t EXCEPT !.wait = "none"]
    OBVIOUS
  <2>2. t2 \in TtyRecs
    BY <2>1 DEF TtyRecs
  <2>3. tty_watcher_stop(t) = [t2 EXCEPT !.active = FALSE]
    BY <1>1, <2>1 DEF tty_watcher_stop, tty_watcher_disarm
  <2> QED
    BY <2>2, <2>3 DEF TtyRecs
<1>2. CASE ~t.active
  <2>1. tty_watcher_stop(t) = t
    BY <1>2 DEF tty_watcher_stop
  <2>2. t.active \in BOOLEAN
    BY DEF TtyRecs
  <2> QED
    BY <1>2, <2>1, <2>2
<1> QED
  BY <1>1, <1>2

\* pause stops the watcher.
LEMMA StopTTYKeeps ==
    ASSUME TtyInv, StopTTYWatcher
    PROVE  TtyInv'
<1>1. PICK t \in TtyRecs : t = tty
  BY DEF TtyInv
<1>2. PICK t2 : t2 = tty_watcher_stop(t)
  OBVIOUS
<1>3. t2 \in TtyRecs /\ t2.active = FALSE
  BY <1>2, StoppedWatcher
<1>4. Turn(t2)
  BY <1>1, <1>2 DEF StopTTYWatcher
<1>5. ArmedOK(t2, poll)
  BY <1>3 DEF ArmedOK
<1> QED
  BY <1>3, <1>4, <1>5, TurnKeeps

\* destroy stops the watcher for good.
LEMMA DestroyTTYKeeps ==
    ASSUME TtyInv, DestroyTTYWatcher
    PROVE  TtyInv'
<1>1. PICK t \in TtyRecs : t = tty
  BY DEF TtyInv
<1>2. PICK t2 : t2 = tty_watcher_stop(t)
  OBVIOUS
<1>3. t2 \in TtyRecs /\ t2.active = FALSE
  BY <1>2, StoppedWatcher
<1>4. PICK t3 : t3 = [t2 EXCEPT !.init = FALSE]
  OBVIOUS
<1>5. t3 \in TtyRecs /\ t3.active = FALSE
  BY <1>3, <1>4 DEF TtyRecs
<1>6. Turn(t3)
  BY <1>1, <1>2, <1>4 DEF DestroyTTYWatcher
<1>7. ArmedOK(t3, poll)
  BY <1>5 DEF ArmedOK
<1> QED
  BY <1>5, <1>6, <1>7, TurnKeeps

\* tty_poll counts the events that are in the queue.
LEMMA TtyPollKeeps ==
    ASSUME TtyInv, tty_poll
    PROVE  TtyInv'
<1>1. PICK t \in TtyRecs, q \in PollRecs : t = tty /\ q = poll
  BY DEF TtyInv
<1>2. PICK b \in Nat : KeysOK(b, input.queue, input.all, seen.keys, seen.cut, poll.at, poll.j)
  BY DEF TtyInv
<1>3. PICK n \in Nat : n = Len(input.queue)
  BY <1>2, LenProperties DEF KeysOK
<1>4. poll.at = 0 /\ poll.j = 0
  BY DEF tty_poll, TtyInv, PollOK
<1>5. PICK q0 \in PollRecs : q0 = NoPoll /\ q0.j = 0 /\ q0.at = 0
  <2>1. NoPoll \in PollRecs
    BY DEF NoPoll, PollRecs
  <2>2. NoPoll.j = 0 /\ NoPoll.at = 0
    BY DEF NoPoll
  <2> QED
    BY <2>1, <2>2
<1> DEFINE q2 == [q0 EXCEPT !.on = TRUE, !.i = n]
<1>6. q2 \in PollRecs /\ q2.on = TRUE /\ q2.i = n /\ q2.j = 0 /\ q2.at = 0
  BY <1>5 DEF PollRecs
<1>7. PICK t2 : t2 = [t EXCEPT !.sent = FALSE]
  OBVIOUS
<1>8. t2 \in TtyRecs
  BY <1>7 DEF TtyRecs
<1>9. tty' = t2 /\ poll' = q2 /\ UNCHANGED <<input, seen, screen>>
  BY <1>1, <1>3, <1>5, <1>7 DEF tty_poll
<1> HIDE DEF q2
<1>10. PollOK(q2, input.queue) /\ ArmedOK(t2, q2)
  BY <1>3, <1>6 DEF PollOK, ArmedOK
<1>11. KeysOK(b, input.queue, input.all, seen.keys, seen.cut, q2.at, q2.j)
  BY <1>2, <1>4, <1>6
<1> QED
  BY <1>6, <1>8, <1>9, <1>10, <1>11 DEF TtyInv

\* The next event is the one after the last that was read; a key is to be told
\* as often as it was repeated.
LEMMA ReadKeeps ==
    ASSUME TtyInv, ReadConsoleInput
    PROVE  TtyInv'
<1>1. PICK q \in PollRecs : q = poll /\ q.on /\ ~q.calling /\ q.j = 0 /\ q.i > 0
  BY DEF TtyInv, ReadConsoleInput
<1>2. PICK queue, all, keys, cut :
          queue = input.queue /\ all = input.all /\ keys = seen.keys /\ cut = seen.cut
  OBVIOUS
<1>3. input = [queue |-> queue, all |-> all] /\ seen = [keys |-> keys, cut |-> cut] /\ queue # <<>>
  BY <1>2 DEF TtyInv, ReadConsoleInput
<1>4. PICK b \in Nat : KeysOK(b, queue, all, keys, cut, q.at, 0)
  BY <1>1, <1>2 DEF TtyInv
<1>5. PICK c \in Nat : c = b + 1
  OBVIOUS
<1>6. /\ Head(queue) = c /\ all[c] \in ConsoleEvent
      /\ KeysOK(c, Tail(queue), all, keys, cut, c, Tellings(all[c]))
      /\ Len(queue) \in Nat /\ Len(Tail(queue)) = Len(queue) - 1
  BY <1>3, <1>4, <1>5, ReadKeepsKeys
<1>7. PICK j \in Nat : j = Tellings(all[c])
  BY <1>6, TellingsBound
<1>8. PICK i \in Nat : i = q.i - 1
  BY <1>1 DEF PollRecs
<1>9. PICK g \in BOOLEAN : g = (all[c].type = "resize")
  OBVIOUS
<1>10. PICK q2 : q2 = [q EXCEPT !.i = i, !.at = c, !.j = j, !.calling = g]
  OBVIOUS
<1>11. q2 \in PollRecs /\ q2.on = TRUE /\ q2.i = i /\ q2.at = c /\ q2.j = j
  BY <1>1, <1>10 DEF PollRecs
<1>12. poll' = q2
  BY <1>1, <1>2, <1>6, <1>7, <1>8, <1>9, <1>10 DEF ReadConsoleInput, Tellings
<1>13. input' = [queue |-> Tail(queue), all |-> all] /\ UNCHANGED <<tty, seen, screen>>
  BY <1>2, <1>3 DEF ReadConsoleInput
<1>14. input'.queue = Tail(queue) /\ input'.all = all
  BY <1>13
<1>15. PollOK(q2, Tail(queue))
  <2>1. q.i <= Len(queue) /\ q.i \in Nat
    BY <1>1, <1>2 DEF TtyInv, PollOK, PollRecs
  <2> QED
    BY <1>6, <1>8, <1>11, <2>1 DEF PollOK
<1>16. ArmedOK(tty, q2)
  BY <1>11 DEF ArmedOK
<1>17. \E d \in Nat : KeysOK(d, input'.queue, input'.all, seen'.keys, seen'.cut, poll'.at, poll'.j)
  BY <1>2, <1>6, <1>7, <1>11, <1>12, <1>13, <1>14
<1>18. input' = [queue |-> input'.queue, all |-> input'.all]
  BY <1>13, <1>14
<1>19. PollOK(poll', input'.queue) /\ ArmedOK(tty', poll')
  BY <1>12, <1>13, <1>14, <1>15, <1>16
<1> QED
  BY <1>11, <1>12, <1>13, <1>17, <1>18, <1>19 DEF TtyInv

\* The keypress callback is told of the event that tty_poll is at.
LEMMA CallKeypressKeeps ==
    ASSUME TtyInv, CallKeypress
    PROVE  TtyInv'
<1>1. PICK q \in PollRecs : q = poll /\ q.on /\ q.j > 0
  BY DEF TtyInv, CallKeypress
<1>2. PICK keys, cut : keys = seen.keys /\ cut = seen.cut
  OBVIOUS
<1>3. seen = [keys |-> keys, cut |-> cut]
  BY <1>2 DEF TtyInv
<1>4. PICK b \in Nat : KeysOK(b, input.queue, input.all, keys, cut, q.at, q.j)
  BY <1>1, <1>2 DEF TtyInv
<1>5. KeysOK(b, input.queue, input.all, Append(keys, q.at), cut, q.at, q.j - 1)
  BY <1>1, <1>4, CallKeepsKeys
<1>6. PICK j \in Nat : j = q.j - 1
  BY <1>1 DEF PollRecs
<1>7. PICK q2 : q2 = [q EXCEPT !.j = j, !.calling = TRUE]
  OBVIOUS
<1>8. q2 \in PollRecs /\ q2.on = TRUE /\ q2.i = q.i /\ q2.at = q.at /\ q2.j = j
  BY <1>1, <1>7 DEF PollRecs
<1>9. /\ poll' = q2 /\ seen' = [keys |-> Append(keys, q.at), cut |-> cut]
      /\ UNCHANGED <<input, tty, screen>>
  BY <1>1, <1>2, <1>3, <1>6, <1>7 DEF CallKeypress
<1>10. PollOK(q2, input.queue) /\ ArmedOK(tty, q2)
  BY <1>1, <1>8 DEF TtyInv, PollOK, ArmedOK
<1>11. seen'.keys = Append(keys, q.at) /\ seen'.cut = cut
  BY <1>9
<1>12. KeysOK(b, input'.queue, input'.all, seen'.keys, seen'.cut, poll'.at, poll'.j)
  BY <1>5, <1>6, <1>8, <1>9, <1>11
<1>13. seen' = [keys |-> seen'.keys, cut |-> seen'.cut]
  BY <1>9, <1>11
<1> QED
  BY <1>8, <1>9, <1>10, <1>12, <1>13 DEF TtyInv

\* A callback that stopped the stream cuts the event short; any other changes nothing.
LEMMA CallbackReturnsKeeps ==
    ASSUME TtyInv, CallbackReturns
    PROVE  TtyInv'
<1>1. PICK q \in PollRecs : q = poll /\ q.calling
  BY DEF TtyInv, CallbackReturns
<1>2. PICK keys, cut : keys = seen.keys /\ cut = seen.cut
  OBVIOUS
<1>3. seen = [keys |-> keys, cut |-> cut]
  BY <1>2 DEF TtyInv
<1>4. PICK b \in Nat : KeysOK(b, input.queue, input.all, keys, cut, q.at, q.j)
  BY <1>1, <1>2 DEF TtyInv
<1>5. q.on /\ q.on \in BOOLEAN /\ q.j \in Nat
  BY <1>1 DEF TtyInv, PollOK, PollRecs
<1> DEFINE cut2 == IF ~tty.active /\ q.j > 0 THEN cut \cup {q.at} ELSE cut
<1>6. PICK j \in Nat : j = (IF tty.active THEN q.j ELSE 0)
  BY <1>5
<1>7. KeysOK(b, input.queue, input.all, keys, cut2, q.at, j)
  <2>1. CASE tty.active
    BY <1>4, <1>6, <2>1
  <2>2. CASE ~tty.active /\ q.j > 0
    BY <1>4, <1>6, <2>2, CutKeepsKeys
  <2>3. CASE ~tty.active /\ ~(q.j > 0)
    <3>1. q.j = 0
      BY <1>5, <2>3
    <3> QED
      BY <1>4, <1>6, <2>3, <3>1
  <2> QED
    BY <2>1, <2>2, <2>3
<1>8. PICK q2 : q2 = [q EXCEPT !.calling = FALSE, !.j = j]
  OBVIOUS
<1>9. q2 \in PollRecs /\ q2.on = TRUE /\ q2.i = q.i /\ q2.at = q.at /\ q2.j = j
  BY <1>5, <1>8 DEF PollRecs
<1>10. poll' = q2 /\ seen' = [keys |-> keys, cut |-> cut2] /\ UNCHANGED <<input, tty, screen>>
  BY <1>1, <1>2, <1>3, <1>6, <1>8 DEF CallbackReturns
<1> HIDE DEF cut2
<1>11. PollOK(q2, input.queue) /\ ArmedOK(tty, q2)
  BY <1>1, <1>5, <1>9 DEF TtyInv, PollOK, ArmedOK
<1>12. seen'.keys = keys /\ seen'.cut = cut2
  BY <1>10
<1>13. KeysOK(b, input'.queue, input'.all, seen'.keys, seen'.cut, poll'.at, poll'.j)
  BY <1>7, <1>9, <1>10, <1>12
<1>14. seen' = [keys |-> seen'.keys, cut |-> seen'.cut]
  BY <1>10, <1>12
<1> QED
  BY <1>9, <1>10, <1>11, <1>13, <1>14 DEF TtyInv

\* tty_poll leaves with nothing to tell; an active watcher has a new wait.
LEMMA RearmKeeps ==
    ASSUME TtyInv, RearmWatcher
    PROVE  TtyInv'
<1>1. PICK t \in TtyRecs, q \in PollRecs : t = tty /\ q = poll /\ q.j = 0
  BY DEF TtyInv, RearmWatcher
<1>2. PICK b \in Nat : KeysOK(b, input.queue, input.all, seen.keys, seen.cut, q.at, 0)
  BY <1>1 DEF TtyInv
<1>3. KeysOK(b, input.queue, input.all, seen.keys, seen.cut, 0, 0)
  BY <1>2, DoneKeepsKeys
<1>4. PICK w \in {"none", "armed", "done"} : w = IF t.active THEN "armed" ELSE "none"
  OBVIOUS
<1>5. PICK t2 : t2 = [t EXCEPT !.wait = w]
  OBVIOUS
<1>6. t2 \in TtyRecs /\ t2.active = t.active /\ t2.wait = w
  BY <1>5 DEF TtyRecs
<1>7. tty' = t2 /\ poll' = NoPoll /\ UNCHANGED <<input, seen, screen>>
  BY <1>1, <1>4, <1>5 DEF RearmWatcher, tty_watcher_arm
<1>8. NoPoll \in PollRecs /\ NoPoll.on = FALSE /\ NoPoll.j = 0 /\ NoPoll.at = 0 /\ NoPoll.calling = FALSE
  BY DEF NoPoll, PollRecs
<1>9. ArmedOK(t2, NoPoll) /\ PollOK(NoPoll, input.queue)
  BY <1>4, <1>6, <1>8 DEF ArmedOK, PollOK
<1>10. KeysOK(b, input'.queue, input'.all, seen'.keys, seen'.cut, poll'.at, poll'.j)
  BY <1>3, <1>7, <1>8
<1> QED
  BY <1>6, <1>7, <1>8, <1>9, <1>10 DEF TtyInv

\* The cursor is put into the line, whatever the number.
LEMMA CursorInLine ==
    ASSUME NEW s \in ScreenRecs, s = screen, NEW relative \in BOOLEAN, NEW dx \in Int
    PROVE  SetCursor(relative, dx) \in Cells
<1>1. Width \in Nat /\ Width > 0 /\ ShortMax \in Nat
  BY TtyAssumption
<1>2. ASSUME NEW n \in Int PROVE Short(n) \in Int
  <2>1. PICK m \in Nat : m = 2 * ShortMax + 2 /\ m > 0
    BY <1>1
  <2>2. PICK p \in Int : p = n + ShortMax + 1
    BY <1>1
  <2>3. p % m \in Int
    BY <2>1
  <2>4. Short(n) = (p % m) - ShortMax - 1
    BY <2>1, <2>2 DEF Short
  <2> QED
    BY <1>1, <2>3, <2>4
<1>3. ASSUME NEW n \in Int PROVE InLine(n) \in Cells
  BY <1>1 DEF InLine, Cells
<1>4. s.x \in Int
  BY <1>1 DEF ScreenRecs, Cells
<1>5. PICK n \in Int : n = IF relative THEN s.x + Short(dx) ELSE dx
  BY <1>2, <1>4
<1>6. SetCursor(relative, dx) = InLine(Short(n))
  BY <1>5 DEF SetCursor
<1> QED
  BY <1>2, <1>3, <1>6

\* moveCursor and cursorTo leave the cursor in the line.
LEMMA MoveCursorKeeps ==
    ASSUME TtyInv, MoveCursor
    PROVE  TtyInv'
<1>1. PICK s \in ScreenRecs : s = screen
  BY DEF TtyInv
<1>2. PICK relative \in BOOLEAN, dx \in -(2 * ShortMax)..(2 * ShortMax) :
          Draws([screen EXCEPT !.x = SetCursor(relative, dx), !.asked = {}])
  BY DEF MoveCursor
<1>3. dx \in Int
  BY TtyAssumption
<1>4. PICK x \in Cells : x = SetCursor(relative, dx)
  BY <1>1, <1>3, CursorInLine
<1>5. PICK s2 : s2 = [s EXCEPT !.x = x, !.asked = {}]
  OBVIOUS
<1>6. s2 \in ScreenRecs /\ s2.asked = {}
  BY <1>5 DEF ScreenRecs
<1>7. UNCHANGED <<input, poll, seen>> /\ tty' = [tty EXCEPT !.turns = @ + 1] /\ screen' = s2
  BY <1>1, <1>2, <1>4, <1>5 DEF Draws
<1>8. ScreenOK(s2)
  BY <1>6 DEF ScreenOK
<1> QED
  BY <1>6, <1>7, <1>8, ScreenFrame

\* clearLine blanks the cells it was asked to clear, and no others.
LEMMA ClearsWhatWasAsked ==
    ASSUME NEW s \in ScreenRecs, s = screen, NEW dir \in {-1, 0, 1}
    PROVE  /\ ClearLine(dir) = Asked(dir) /\ Asked(dir) \subseteq Cells
           /\ Blanked(ClearLine(dir)) \in [Cells -> {"text", "blank"}]
           /\ \A x \in Asked(dir) : Blanked(ClearLine(dir))[x] = "blank"
           /\ \A x \in Cells \ Asked(dir) : Blanked(ClearLine(dir))[x] = s.cell[x]
<1>1. Width \in Nat /\ Width > 0
  BY TtyAssumption
<1>2. s.cell \in [Cells -> {"text", "blank"}] /\ s.x \in Cells
  BY DEF ScreenRecs
<1>3. DOMAIN screen.cell = Cells
  BY <1>2
<1>4. ClearLine(dir) = Asked(dir)
  <2>1. CASE dir = 0
    BY <1>1, <1>2, <1>3, <2>1 DEF ClearLine, Asked, Cells
  <2>2. CASE dir = 1
    BY <1>1, <1>2, <1>3, <2>2 DEF ClearLine, Asked, Cells
  <2>3. CASE dir = -1
    BY <1>1, <1>2, <1>3, <2>3 DEF ClearLine, Asked, Cells
  <2> QED
    BY <2>1, <2>2, <2>3
<1>5. Asked(dir) \subseteq Cells
  BY <1>3 DEF Asked
<1>6. Blanked(ClearLine(dir)) = [x \in Cells |-> IF x \in Asked(dir) THEN "blank" ELSE s.cell[x]]
  BY <1>3, <1>4 DEF Blanked
<1> QED
  BY <1>2, <1>4, <1>5, <1>6

\* clearLine, whichever of its calls fails.
LEMMA ClearLineKeeps ==
    ASSUME TtyInv, NEW dir \in {-1, 0, 1}, ClearLineCall(dir)
    PROVE  TtyInv'
<1>1. PICK s \in ScreenRecs : s = screen
  BY DEF TtyInv
<1>2. PICK asked \in SUBSET Cells, blanked \in [Cells -> {"text", "blank"}] :
          /\ asked = Asked(dir) /\ blanked = Blanked(ClearLine(dir))
          /\ \A x \in asked : blanked[x] = "blank"
          /\ \A x \in Cells \ asked : blanked[x] = s.cell[x]
  BY <1>1, ClearsWhatWasAsked
<1>3. 0 \in Cells /\ s.x \in Cells /\ s.cell \in [Cells -> {"text", "blank"}]
  BY TtyAssumption DEF ScreenRecs, Cells
<1>4. PICK x1 \in Cells : x1 = IF dir <= 0 THEN 0 ELSE s.x
  BY <1>3
<1>5. PICK s1 : s1 = [s EXCEPT !.asked = asked, !.from = s.x, !.was = s.cell, !.ok = FALSE]
  OBVIOUS
<1>6. /\ s1 \in ScreenRecs /\ s1.asked = asked /\ s1.from = s.x /\ s1.was = s.cell /\ s1.ok = FALSE
      /\ s1.x = s.x /\ s1.cell = s.cell
  BY <1>3, <1>5 DEF ScreenRecs
<1>7. PICK s2 : Draws(s2) /\ s2 \in {s1, [s1 EXCEPT !.x = x1], [s1 EXCEPT !.x = x1, !.wrap = FALSE],
                                     [s1 EXCEPT !.cell = blanked, !.wrap = FALSE],
                                     [s1 EXCEPT !.cell = blanked, !.ok = TRUE]}
  BY <1>1, <1>2, <1>4, <1>5 DEF ClearLineCall
<1>8. s2 \in ScreenRecs /\ ScreenOK(s2)
  <2>1. CASE s2 \in {s1, [s1 EXCEPT !.x = x1], [s1 EXCEPT !.x = x1, !.wrap = FALSE]}
    <3>1. /\ s2 \in ScreenRecs /\ s2.asked = asked /\ s2.cell = s.cell /\ s2.was = s.cell
          /\ s2.ok = FALSE
      BY <1>6, <2>1 DEF ScreenRecs
    <3> QED
      BY <3>1 DEF ScreenOK
  <2>2. CASE s2 = [s1 EXCEPT !.cell = blanked, !.wrap = FALSE]
    <3>1. /\ s2 \in ScreenRecs /\ s2.asked = asked /\ s2.cell = blanked /\ s2.was = s.cell
          /\ s2.ok = FALSE
      BY <1>6, <2>2 DEF ScreenRecs
    <3> QED
      BY <1>2, <3>1 DEF ScreenOK
  <2>3. CASE s2 = [s1 EXCEPT !.cell = blanked, !.ok = TRUE]
    <3>1. /\ s2 \in ScreenRecs /\ s2.asked = asked /\ s2.cell = blanked /\ s2.was = s.cell
          /\ s2.x = s.x /\ s2.from = s.x
      BY <1>6, <2>3 DEF ScreenRecs
    <3> QED
      BY <1>2, <3>1 DEF ScreenOK
  <2> QED
    BY <1>7, <2>1, <2>2, <2>3
<1>9. UNCHANGED <<input, poll, seen>> /\ tty' = [tty EXCEPT !.turns = @ + 1] /\ screen' = s2
  BY <1>7 DEF Draws
<1> QED
  BY <1>8, <1>9, ScreenFrame

\* What the invariant says of the keys is KeysInOrder.
LEMMA KeysAreInOrder ==
    ASSUME TtyInv
    PROVE  KeysInOrder
<1>1. PICK q \in PollRecs : q = poll
  BY DEF TtyInv
<1>2. PICK queue, all, keys, cut :
          queue = input.queue /\ all = input.all /\ keys = seen.keys /\ cut = seen.cut
  OBVIOUS
<1>3. PICK b \in Nat : KeysOK(b, queue, all, keys, cut, q.at, q.j)
  BY <1>1, <1>2 DEF TtyInv
<1>4. /\ queue \in Seq(Nat) /\ all \in Seq(ConsoleEvent) /\ keys \in Seq(Nat)
      /\ QueueOK(b, queue, all) /\ OrderOK(b, keys) /\ CountOK(b, keys, all, cut, q.at, q.j)
  BY <1>3 DEF KeysOK
<1>5. /\ Len(queue) \in Nat /\ DOMAIN queue = 1..Len(queue)
      /\ Len(all) \in Nat /\ DOMAIN all = 1..Len(all)
      /\ DOMAIN keys = 1..Len(keys)
  BY <1>4, LenProperties
<1>6. \A m, n \in DOMAIN keys : m < n => keys[m] <= keys[n]
  BY <1>4, <1>5 DEF OrderOK
<1>7. ASSUME NEW k \in DOMAIN all
      PROVE  \/ \E n \in DOMAIN queue : queue[n] = k
             \/ q.on /\ q.at = k
             \/ k \in cut
             \/ Cardinality(Times(keys, k)) = (IF IsTold(all[k]) THEN all[k].repeat ELSE 0)
  <2>1. k \in Nat /\ k > 0
    BY <1>5
  <2>2. CASE k > b
    <3>1. k - b \in DOMAIN queue
      BY <1>4, <1>5, <2>1, <2>2 DEF QueueOK
    <3>2. queue[k - b] = k
      BY <1>4, <1>5, <2>1, <3>1 DEF QueueOK
    <3> QED
      BY <3>1, <3>2
  <2>3. CASE k \in 1..b /\ q.at = k
    <3>1. q.on
      BY <1>1, <2>1, <2>3 DEF TtyInv, PollOK
    <3> QED
      BY <2>3, <3>1
  <2>4. CASE k \in 1..b /\ q.at # k
    <3>1. Cardinality(Times(keys, k)) \in Nat
      BY <1>4, <2>1, TimesAreFinite
    <3>2. k \in cut \/ Cardinality(Times(keys, k)) + 0 = Tellings(all[k])
      BY <1>4, <2>4 DEF CountOK
    <3> QED
      BY <3>1, <3>2 DEF Tellings
  <2> QED
    BY <2>1, <2>2, <2>3, <2>4
<1> QED
  BY <1>1, <1>2, <1>6, <1>7 DEF KeysInOrder

\* The Windows console for every width, number of events and number of calls:
\* tty_poll never waits for input that is not there, keys are told in order and
\* as often as repeated (unless the stream is stopped during one), an active
\* watcher hears of input, and clearLine clears its part.
THEOREM WindowsConsoleIsSafe == TtySpec => []TtySafe
<1>1. TtyInit => TtyInv
  BY TtyStarts
<1>2. TtyInv /\ [TtyNext]_ttyVars => TtyInv'
  <2>1. SUFFICES ASSUME TtyInv, [TtyNext]_ttyVars PROVE TtyInv'
    OBVIOUS
  <2>2. CASE \E e \in ConsoleEvent : Typed(e)
    BY <2>1, <2>2, TypedKeeps
  <2>3. CASE WaitThread
    BY <2>1, <2>3, WaitThreadKeeps
  <2>4. CASE tty_want_poll
    BY <2>1, <2>4, WantPollKeeps
  <2>5. CASE StartTTYWatcher
    BY <2>1, <2>5, StartTTYKeeps
  <2>6. CASE StopTTYWatcher
    BY <2>1, <2>6, StopTTYKeeps
  <2>7. CASE DestroyTTYWatcher
    BY <2>1, <2>7, DestroyTTYKeeps
  <2>8. CASE tty_poll
    BY <2>1, <2>8, TtyPollKeeps
  <2>9. CASE ReadConsoleInput
    BY <2>1, <2>9, ReadKeeps
  <2>10. CASE CallKeypress
    BY <2>1, <2>10, CallKeypressKeeps
  <2>11. CASE CallbackReturns
    BY <2>1, <2>11, CallbackReturnsKeeps
  <2>12. CASE RearmWatcher
    BY <2>1, <2>12, RearmKeeps
  <2>13. CASE MoveCursor
    BY <2>1, <2>13, MoveCursorKeeps
  <2>14. CASE \E dir \in {-1, 0, 1} : ClearLineCall(dir)
    BY <2>1, <2>14, ClearLineKeeps
  <2>15. CASE UNCHANGED ttyVars
    BY <2>1, <2>15 DEF ttyVars, TtyInv
  <2> QED
    BY <2>1, <2>2, <2>3, <2>4, <2>5, <2>6, <2>7, <2>8, <2>9, <2>10, <2>11, <2>12, <2>13, <2>14, <2>15 DEF TtyNext
<1>3. TtyInv => TtySafe
  <2>1. SUFFICES ASSUME TtyInv PROVE TtySafe
    OBVIOUS
  <2>2. TtyTypeOK
    <3>1. PICK b \in Nat : KeysOK(b, input.queue, input.all, seen.keys, seen.cut, poll.at, poll.j)
      BY <2>1 DEF TtyInv
    <3>2. poll.j \in Nat /\ poll.j <= MaxRepeat
      BY <3>1 DEF KeysOK
    <3>3. poll.j \in 0..MaxRepeat
      BY <3>2, TtyAssumption
    <3> QED
      BY <2>1, <3>3 DEF TtyInv, TtyTypeOK, TtyRecs, PollRecs, ScreenRecs, Cells
  <2>3. ReadHasInput /\ WatcherIsArmed
    BY <2>1 DEF TtyInv, ReadHasInput, WatcherIsArmed, PollOK, ArmedOK
  <2>4. KeysInOrder
    BY <2>1, KeysAreInOrder
  <2>5. ClearsItsPart
    <3>1. DOMAIN screen.cell = Cells
      BY <2>1 DEF TtyInv, ScreenRecs
    <3> QED
      BY <2>1, <3>1 DEF TtyInv, ScreenOK, ClearsItsPart
  <2> QED
    BY <2>2, <2>3, <2>4, <2>5 DEF TtySafe
<1> QED
  BY <1>1, <1>2, <1>3, PTL DEF TtySpec

\* The terminal of a POSIX system and the console of Windows, in one statement.
THEOREM ConsoleIsSafe ==
    ASSUME ContModes \subseteq {"shell"}, ~Interrupts
    PROVE  StdioSpec /\ TtySpec => []ConsoleSafe
<1>1. StdioSpec => []StdioSafe
  BY TerminalIsSafe
<1>2. TtySpec => []TtySafe
  BY WindowsConsoleIsSafe
<1>3. StdioSafe /\ TtySafe => ConsoleSafe
  BY DEF ConsoleSafe
<1> QED
  BY <1>1, <1>2, <1>3, PTL

-----------------------------------------------------------------------------
(***************************************************************************)
(* Files.  FileSafe of NodeFile for any names, any number of calls, sizes  *)
(* and positions.  A descriptor that is open has exactly one holder: it    *)
(* is JavaScript's, or the result of an open whose callback has still to   *)
(* come, or what a close in the pool has still to close.  A thread of the  *)
(* pool that opens or closes something can therefore take no descriptor    *)
(* from JavaScript, in whatever order the requests are executed.           *)
(***************************************************************************)
FdRecs == [ino : {0} \cup Inode, pos : Nat, flags : {"r", "w", "a"}, cloexec : BOOLEAN]

DiskRecs == [names : [FileName -> {0} \cup Inode], data : [Inode -> Seq(Nat)], fds : [Fd -> FdRecs]]

DiskOK(d) == d \in DiskRecs /\ \A i \in Inode : Len(d.data[i]) <= MaxSize

\* What a call or request asks for.
OpOK(op) ==
    /\ op.fn = "open" => op.path \in FileName /\ op.flags \in {"r", "w", "a"}
    /\ op.fn \in {"close", "read", "write", "truncate", "sendfile"} => op.fd \in Fd
    /\ op.fn \in {"read", "write"} => op.asked \in Int /\ op.pos = GetOffset(op.asked) /\ op.len \in Nat
    /\ op.fn = "sendfile" => op.in \in Fd /\ op.asked \in Nat /\ op.pos = op.asked /\ op.len \in Nat
    /\ op.fn \in {"write", "sendfile"} => op.byte \in Nat
    /\ op.fn = "truncate" => op.len \in 0..1
    /\ op.fn \in {"rename", "link", "unlink"} => op.path \in FileName
    /\ op.fn \in {"rename", "link"} => op.dest \in FileName

\* Where it happened is where it was asked for.
Landed(at, asked) == at \in Int /\ (at >= 0 /\ asked \in 0..MaxInt32 => at = asked)

MovesBytes(op) == op.fn \in {"read", "write", "sendfile"}

\* A request in the pool, executed, and done with.
QueuedOK(req) == req.cb \in {"own", "noop"} /\ OpOK(req.op) /\ req.fn = req.op.fn

ExecutedOK(req) ==
    /\ QueuedOK(req) /\ req.res.err \in BOOLEAN
    /\ req.fn = "open" /\ ~req.res.err => req.res.val \in Fd
    /\ req.res.at \in Int /\ (MovesBytes(req.op) => Landed(req.res.at, req.op.asked))

DoneOK(req) == req.cb = "none" /\ Landed(req.at, req.asked)

ReqOK(req) ==
    \/ req.st = "queued" /\ QueuedOK(req)
    \/ req.st = "executed" /\ ExecutedOK(req)
    \/ req.st = "done" /\ DoneOK(req)

\* The requests that hold a descriptor.
HoldsFd(req, f) ==
    \/ req.st = "executed" /\ req.fn = "open" /\ ~req.res.err /\ req.res.val = f
    \/ req.st = "queued" /\ req.fn = "close" /\ req.op.fd = f

\* One holder of a descriptor ino of which is the file, own the file JavaScript knows.
HeldOnce(f, ino, cloexec, own, reqs) ==
    /\ own # 0 => own = ino /\ cloexec /\ \A i \in 1..Len(reqs) : ~HoldsFd(reqs[i], f)
    /\ own = 0 /\ ino # 0 => \E i \in 1..Len(reqs) : HoldsFd(reqs[i], f)
    /\ \A i \in 1..Len(reqs) : HoldsFd(reqs[i], f) => ino # 0
    /\ \A i, j \in 1..Len(reqs) : HoldsFd(reqs[i], f) /\ HoldsFd(reqs[j], f) => i = j

IsSequence(s) == Len(s) \in Nat /\ s = [i \in 1..Len(s) |-> s[i]]

PendingReqs(reqs) == {i \in 1..Len(reqs) : reqs[i].st # "done"}

ReqsOK(reqs) ==
    /\ IsSequence(reqs) /\ Len(reqs) <= FileMaxCalls
    /\ \A i \in 1..Len(reqs) : ReqOK(reqs[i])

HoldersOK(d, own, reqs) == \A f \in Fd : HeldOnce(f, d.fds[f].ino, d.fds[f].cloexec, own[f], reqs)

FileInv ==
    /\ DiskOK(disk)
    /\ ReqsOK(fsReqs)
    /\ fsRefs = Cardinality(PendingReqs(fsReqs))
    /\ owned \in [Fd -> {0} \cup Inode]
    /\ HoldersOK(disk, owned, fsReqs)
    /\ noopBuf \in 0..FileMaxCalls

\* One more call.
LEMMA SequenceGrows ==
    ASSUME NEW s, IsSequence(s), NEW x
    PROVE  /\ IsSequence(Append(s, x)) /\ Len(Append(s, x)) = Len(s) + 1
           /\ Append(s, x)[Len(s) + 1] = x /\ \A i \in 1..Len(s) : Append(s, x)[i] = s[i]
<1>1. PICK S : S = {s[i] : i \in 1..Len(s)} \cup {x}
  OBVIOUS
<1>2. s \in Seq(S) /\ x \in S
  <2>1. \A i \in 1..Len(s) : s[i] \in S
    BY <1>1
  <2>2. s \in [1..Len(s) -> S] /\ Len(s) \in Nat
    BY <2>1 DEF IsSequence
  <2> QED
    BY <1>1, <2>2, IsASeq DEF IsSequence
<1>3. PICK t \in Seq(S) : t = Append(s, x)
  BY <1>2, AppendProperties
<1>4. Len(t) = Len(s) + 1 /\ Len(s) \in Nat /\ t[Len(s) + 1] = x /\ \A i \in 1..Len(s) : t[i] = s[i]
  BY <1>2, <1>3, AppendProperties, LenProperties
<1>5. IsSequence(t)
  BY <1>3, LenProperties DEF IsSequence
<1> QED
  BY <1>3, <1>4, <1>5

\* A request goes on.
LEMMA SequenceChanges ==
    ASSUME NEW s, IsSequence(s), NEW x, NEW i \in 1..Len(s)
    PROVE  /\ IsSequence([s EXCEPT ![i] = x]) /\ Len([s EXCEPT ![i] = x]) = Len(s)
           /\ [s EXCEPT ![i] = x][i] = x
           /\ \A j \in 1..Len(s) : j # i => [s EXCEPT ![i] = x][j] = s[j]
<1>1. PICK S : S = {s[j] : j \in 1..Len(s)} \cup {x}
  OBVIOUS
<1>2. s \in Seq(S) /\ x \in S
  <2>1. \A j \in 1..Len(s) : s[j] \in S
    BY <1>1
  <2>2. s \in [1..Len(s) -> S] /\ Len(s) \in Nat
    BY <2>1 DEF IsSequence
  <2> QED
    BY <1>1, <2>2, IsASeq DEF IsSequence
<1>3. PICK t \in Seq(S) : t = [s EXCEPT ![i] = x]
  BY <1>2, ExceptSeq
<1>4. Len(t) = Len(s) /\ t[i] = x /\ \A j \in 1..Len(s) : j # i => t[j] = s[j]
  BY <1>2, <1>3, ExceptSeq
<1>5. IsSequence(t)
  BY <1>3, LenProperties DEF IsSequence
<1> QED
  BY <1>3, <1>4, <1>5

\* The requests that are out are finitely many.
LEMMA PendingIsFinite ==
    ASSUME NEW reqs, Len(reqs) \in Nat
    PROVE  /\ IsFiniteSet(PendingReqs(reqs)) /\ Cardinality(PendingReqs(reqs)) \in 0..Len(reqs)
<1>1. IsFiniteSet(1..Len(reqs)) /\ Cardinality(1..Len(reqs)) = Len(reqs)
  BY FS_Interval
<1>2. PendingReqs(reqs) \subseteq 1..Len(reqs)
  BY DEF PendingReqs
<1>3. IsFiniteSet(PendingReqs(reqs)) /\ Cardinality(PendingReqs(reqs)) <= Len(reqs)
  BY <1>1, <1>2, FS_Subset
<1>4. Cardinality(PendingReqs(reqs)) \in Nat
  BY <1>3, FS_CardinalityType
<1> QED
  BY <1>3, <1>4

\* A request is one more, a call without a callback is not.
LEMMA PendingGrows ==
    ASSUME NEW reqs, IsSequence(reqs), NEW req
    PROVE  Cardinality(PendingReqs(Append(reqs, req))) =
               Cardinality(PendingReqs(reqs)) + (IF req.st = "done" THEN 0 ELSE 1)
<1>1. PICK n \in Nat : n = Len(reqs)
  BY DEF IsSequence
<1>2. PICK more : more = Append(reqs, req)
  OBVIOUS
<1>3. Len(more) = n + 1 /\ more[n + 1] = req /\ \A i \in 1..n : more[i] = reqs[i]
  BY <1>1, <1>2, SequenceGrows
<1>4. PICK k \in Nat : k = Cardinality(PendingReqs(reqs)) /\ IsFiniteSet(PendingReqs(reqs))
  BY <1>1, PendingIsFinite
<1>5. CASE req.st = "done"
  <2>1. PendingReqs(more) = PendingReqs(reqs)
    BY <1>1, <1>3, <1>5 DEF PendingReqs
  <2> QED
    BY <1>2, <1>4, <1>5, <2>1
<1>6. CASE req.st # "done"
  <2>1. PendingReqs(more) = PendingReqs(reqs) \cup {n + 1} /\ n + 1 \notin PendingReqs(reqs)
    BY <1>1, <1>3, <1>6 DEF PendingReqs
  <2>2. Cardinality(PendingReqs(more)) = k + 1
    BY <1>4, <2>1, FS_AddElement
  <2> QED
    BY <1>2, <1>4, <1>6, <2>2
<1> QED
  BY <1>5, <1>6

\* A request that a thread executes is still out; one whose callback is called no longer.
LEMMA PendingChanges ==
    ASSUME NEW reqs, IsSequence(reqs), NEW i \in 1..Len(reqs), reqs[i].st # "done", NEW req
    PROVE  Cardinality(PendingReqs([reqs EXCEPT ![i] = req])) =
               Cardinality(PendingReqs(reqs)) - (IF req.st = "done" THEN 1 ELSE 0)
<1>1. PICK n \in Nat : n = Len(reqs)
  BY DEF IsSequence
<1>2. PICK more : more = [reqs EXCEPT ![i] = req]
  OBVIOUS
<1>3. Len(more) = n /\ more[i] = req /\ \A j \in 1..n : j # i => more[j] = reqs[j]
  BY <1>1, <1>2, SequenceChanges
<1>4. PICK k \in Nat : k = Cardinality(PendingReqs(reqs)) /\ IsFiniteSet(PendingReqs(reqs))
  BY <1>1, PendingIsFinite
<1>5. CASE req.st # "done"
  <2>1. PendingReqs(more) = PendingReqs(reqs)
    BY <1>1, <1>3, <1>5 DEF PendingReqs
  <2> QED
    BY <1>2, <1>4, <1>5, <2>1
<1>6. CASE req.st = "done"
  <2>1. PendingReqs(more) = PendingReqs(reqs) \ {i} /\ i \in PendingReqs(reqs)
    BY <1>1, <1>3, <1>6 DEF PendingReqs
  <2>2. Cardinality(PendingReqs(more)) = k - 1
    BY <1>4, <2>1, FS_RemoveElement
  <2> QED
    BY <1>2, <1>4, <1>6, <2>2
<1> QED
  BY <1>5, <1>6

\* The descriptors of a disk are those of another.
SameFds(d, e) == \A f \in Fd : e.fds[f].ino = d.fds[f].ino /\ e.fds[f].cloexec = d.fds[f].cloexec

\* A file gets other bytes.
LEMMA DataChanges ==
    ASSUME NEW d, DiskOK(d), NEW i \in Inode, NEW s \in Seq(Nat), Len(s) <= MaxSize
    PROVE  DiskOK([d EXCEPT !.data[i] = s]) /\ [d EXCEPT !.data[i] = s].fds = d.fds
<1>1. PICK e : e = [d EXCEPT !.data[i] = s]
  OBVIOUS
<1>2. d \in DiskRecs /\ d.data \in [Inode -> Seq(Nat)] /\ \A j \in Inode : Len(d.data[j]) <= MaxSize
  BY DEF DiskOK, DiskRecs
<1>3. e \in DiskRecs /\ e.fds = d.fds /\ e.data = [d.data EXCEPT ![i] = s]
  BY <1>1, <1>2 DEF DiskRecs
<1>4. \A j \in Inode : Len(e.data[j]) <= MaxSize
  BY <1>2, <1>3
<1> QED
  BY <1>1, <1>3, <1>4 DEF DiskOK

\* A descriptor is another.
LEMMA FdChanges ==
    ASSUME NEW d, DiskOK(d), NEW f \in Fd, NEW q \in FdRecs
    PROVE  /\ DiskOK([d EXCEPT !.fds[f] = q]) /\ [d EXCEPT !.fds[f] = q].data = d.data
           /\ [d EXCEPT !.fds[f] = q].fds = [d.fds EXCEPT ![f] = q]
<1>1. PICK e : e = [d EXCEPT !.fds[f] = q]
  OBVIOUS
<1>2. d \in DiskRecs /\ d.fds \in [Fd -> FdRecs]
  BY DEF DiskOK, DiskRecs
<1>3. e \in DiskRecs /\ e.data = d.data /\ e.fds = [d.fds EXCEPT ![f] = q]
  BY <1>1, <1>2 DEF DiskRecs
<1> QED
  BY <1>1, <1>3 DEF DiskOK

\* The position of a descriptor is another.
LEMMA PosChanges ==
    ASSUME NEW d, DiskOK(d), NEW f \in Fd, NEW p \in Nat
    PROVE  /\ DiskOK([d EXCEPT !.fds[f].pos = p]) /\ [d EXCEPT !.fds[f].pos = p].data = d.data
           /\ SameFds(d, [d EXCEPT !.fds[f].pos = p])
<1>1. PICK q \in FdRecs : q = d.fds[f]
  BY DEF DiskOK, DiskRecs
<1>2. PICK q2 : q2 = [q EXCEPT !.pos = p]
  OBVIOUS
<1>3. q2 \in FdRecs /\ q2.ino = q.ino /\ q2.cloexec = q.cloexec
  BY <1>2 DEF FdRecs
<1>4. [d EXCEPT !.fds[f].pos = p] = [d EXCEPT !.fds[f] = q2]
  BY <1>1, <1>2
<1>5. PICK e : e = [d EXCEPT !.fds[f] = q2]
  OBVIOUS
<1>6. DiskOK(e) /\ e.data = d.data /\ e.fds = [d.fds EXCEPT ![f] = q2] /\ d.fds \in [Fd -> FdRecs]
  BY <1>3, <1>5, FdChanges DEF DiskOK, DiskRecs
<1>7. SameFds(d, e)
  BY <1>1, <1>3, <1>6 DEF SameFds
<1> QED
  BY <1>4, <1>5, <1>6, <1>7

\* What read and write leave: the same descriptors, at the position that was given.
BytesMoved(d, op, r) ==
    /\ r = [disk |-> r.disk, err |-> r.err, val |-> r.val, at |-> r.at]
    /\ DiskOK(r.disk) /\ SameFds(d, r.disk) /\ r.err \in BOOLEAN
    /\ r.at \in Int /\ (op.pos >= 0 => r.at \in {-1, op.pos})

\* So does a call that fails.
LEMMA NothingMoved ==
    ASSUME NEW d, DiskOK(d), NEW op
    PROVE  BytesMoved(d, op, SysFails(d))
BY DEF BytesMoved, SysFails, SameFds

\* read and pread.
LEMMA ReadMoves ==
    ASSUME NEW d, DiskOK(d), NEW op, op.fd \in Fd, op.pos \in Int, op.len \in Nat
    PROVE  /\ BytesMoved(d, op, SysRead(d, op))
           /\ ~SysRead(d, op).err => Len(SysRead(d, op).val) \in Nat
<1>1. PICK f \in FdRecs : f = d.fds[op.fd]
  BY DEF DiskOK, DiskRecs
<1>2. CASE f.ino = 0 \/ f.flags # "r"
  <2>1. SysRead(d, op) = SysFails(d)
    BY <1>1, <1>2 DEF SysRead
  <2> QED
    BY <2>1, NothingMoved DEF SysFails
<1>3. CASE f.ino # 0 /\ f.flags = "r"
  <2>1. PICK data \in Seq(Nat) : data = d.data[f.ino]
    BY <1>3 DEF FdRecs, DiskOK, DiskRecs
  <2>2. PICK at \in Nat : at = IF op.pos < 0 THEN f.pos ELSE op.pos
    BY DEF FdRecs
  <2>3. PICK to \in Nat : to = IF at + op.len < Len(data) THEN at + op.len ELSE Len(data)
    BY LenProperties
  <2>4. PICK bytes : bytes = SubSeq(data, at + 1, to)
    OBVIOUS
  <2>5. PICK n \in Nat : n = Len(bytes)
    <3>1. Len(SubSeq(data, at + 1, to)) = IF at + 1 <= to THEN to - (at + 1) + 1 ELSE 0
      BY <2>3, SubSeqProperties, LenProperties
    <3>2. CASE at + 1 <= to
      <4>1. PICK n \in Nat : n = to - (at + 1) + 1
        BY <3>2
      <4> QED
        BY <2>4, <3>1, <3>2, <4>1
    <3>3. CASE ~(at + 1 <= to)
      BY <2>4, <3>1, <3>3
    <3> QED
      BY <3>2, <3>3
  <2>6. PICK moved : moved = IF op.pos < 0 THEN [d EXCEPT !.fds[op.fd].pos = @ + Len(bytes)] ELSE d
    OBVIOUS
  <2>7. SysRead(d, op) = [SysGives(moved, bytes) EXCEPT !.at = at]
    BY <1>1, <1>3, <2>1, <2>2, <2>3, <2>4, <2>6 DEF SysRead
  <2>8. PICK r : r = SysRead(d, op) /\ r = [disk |-> moved, err |-> FALSE, val |-> bytes, at |-> at]
    BY <2>7 DEF SysGives
  <2>9. DiskOK(moved) /\ SameFds(d, moved)
    <3>1. CASE op.pos < 0
      <4>1. PICK p \in Nat : p = f.pos + n
        BY DEF FdRecs
      <4>2. moved = [d EXCEPT !.fds[op.fd].pos = p]
        BY <1>1, <2>5, <2>6, <3>1, <4>1
      <4> QED
        BY <4>2, PosChanges
    <3>2. CASE ~(op.pos < 0)
      BY <2>6, <3>2 DEF SameFds
    <3> QED
      BY <3>1, <3>2
  <2>10. BytesMoved(d, op, r) /\ r.val = bytes
    BY <2>2, <2>8, <2>9 DEF BytesMoved
  <2> QED
    BY <2>5, <2>8, <2>10
<1> QED
  BY <1>2, <1>3

\* write and pwrite, at the end of a file that is open for appending.
LEMMA WriteMoves ==
    ASSUME NEW d, DiskOK(d), NEW op, op.fd \in Fd, op.pos \in Int, op.len \in Nat, op.byte \in Nat
    PROVE  BytesMoved(d, op, SysWrite(d, op))
<1>1. PICK f \in FdRecs : f = d.fds[op.fd]
  BY DEF DiskOK, DiskRecs
<1>2. CASE f.ino = 0 \/ f.flags = "r"
  <2>1. SysWrite(d, op) = SysFails(d)
    BY <1>1, <1>2 DEF SysWrite
  <2> QED
    BY <2>1, NothingMoved
<1>3. CASE ~(f.ino = 0 \/ f.flags = "r")
  <2>1. PICK data \in Seq(Nat) : data = d.data[f.ino] /\ Len(data) <= MaxSize
    BY <1>3 DEF FdRecs, DiskOK, DiskRecs
  <2>2. PICK l \in Nat : l = Len(data) /\ \A k \in 1..l : data[k] \in Nat
    BY LenProperties, ElementOfSeq
  <2>3. PICK at \in Nat : at = IF f.flags = "a" THEN Len(data) ELSE IF op.pos < 0 THEN f.pos ELSE op.pos
    BY <2>2 DEF FdRecs
  <2>4. CASE at >= MaxSize
    <3>1. SysWrite(d, op) = SysFails(d)
      BY <1>1, <2>1, <2>3, <2>4 DEF SysWrite
    <3> QED
      BY <3>1, NothingMoved
  <2>5. CASE ~(at >= MaxSize)
    <3>1. PICK end \in Nat : end = (IF at + op.len < MaxSize THEN at + op.len ELSE MaxSize) /\ end <= MaxSize
      BY FileAssumption
    <3>2. PICK size \in Nat : size = (IF end > Len(data) THEN end ELSE Len(data)) /\ size <= MaxSize
      BY <2>1, <2>2, <3>1
    <3>3. PICK bytes : bytes = [k \in 1..size |-> IF k \in at + 1..end THEN op.byte
                                                  ELSE IF k <= Len(data) THEN data[k] ELSE 0]
      OBVIOUS
    <3>4. bytes \in Seq(Nat) /\ Len(bytes) = size
      <4>1. ASSUME NEW k \in 1..size PROVE (IF k \in at + 1..end THEN op.byte
                                            ELSE IF k <= Len(data) THEN data[k] ELSE 0) \in Nat
        BY <2>2
      <4>2. bytes \in [1..size -> Nat]
        BY <3>3, <4>1
      <4> QED
        BY <4>2, IsASeq
    <3>5. PICK moved : moved = IF op.pos < 0 THEN [d EXCEPT !.fds[op.fd].pos = end] ELSE d
      OBVIOUS
    <3>6. DiskOK(moved) /\ SameFds(d, moved)
      <4>1. CASE op.pos < 0
        BY <3>5, <4>1, PosChanges
      <4>2. CASE ~(op.pos < 0)
        BY <3>5, <4>2 DEF SameFds
      <4> QED
        BY <4>1, <4>2
    <3>7. f.ino \in Inode
      BY <1>3 DEF FdRecs
    <3>8. PICK e : e = [moved EXCEPT !.data[f.ino] = bytes] /\ DiskOK(e) /\ e.fds = moved.fds
      BY <3>2, <3>4, <3>6, <3>7, DataChanges
    <3>9. SameFds(d, e)
      BY <3>6, <3>8 DEF SameFds
    <3>10. PICK where \in Int : where = (IF f.flags = "a" THEN -1 ELSE at)
      OBVIOUS
    <3>11. SysWrite(d, op) = [SysGives(e, end - at) EXCEPT !.at = where]
      BY <1>1, <1>3, <2>1, <2>3, <2>5, <3>1, <3>2, <3>3, <3>5, <3>8, <3>10 DEF SysWrite
    <3>12. PICK r : r = SysWrite(d, op) /\ r = [disk |-> e, err |-> FALSE, val |-> end - at, at |-> where]
      BY <3>11 DEF SysGives
    <3>13. BytesMoved(d, op, r)
      BY <2>3, <3>8, <3>9, <3>10, <3>12 DEF BytesMoved
    <3> QED
      BY <3>12, <3>13
  <2> QED
    BY <2>4, <2>5
<1> QED
  BY <1>2, <1>3

\* What a system call leaves of the disk d.
Outcome(d, op, r) ==
    /\ DiskOK(r.disk) /\ r.err \in BOOLEAN /\ r.at \in Int
    /\ op.fn \notin {"open", "close"} => SameFds(d, r.disk)
    /\ op.fn = "open" =>
         \/ r.err /\ r.disk = d
         \/ /\ ~r.err /\ r.val \in Fd /\ d.fds[r.val].ino = 0 /\ r.disk.fds[r.val].ino # 0
            /\ \A f \in Fd : f # r.val => r.disk.fds[f] = d.fds[f]
    /\ op.fn = "close" => r.disk.fds[op.fd].ino = 0 /\ \A f \in Fd : f # op.fd => r.disk.fds[f] = d.fds[f]
    /\ MovesBytes(op) => Landed(r.at, op.asked)

\* The least of some numbers of a finite range is one of them.
LEMMA LeastIsIn ==
    ASSUME NEW S, S \in SUBSET Fd \/ S \in SUBSET Inode, S # {}
    PROVE  Least(S) \in S
<1>1. \E x \in S : \A y \in S : x <= y
  <2>1. CASE S \in SUBSET Fd
    <3>1. S \subseteq {3, 4}
      BY <2>1 DEF Fd
    <3>2. CASE 3 \in S
      BY <3>1, <3>2
    <3>3. CASE 3 \notin S
      <4>1. S = {4}
        BY <3>1, <3>3
      <4> QED
        BY <4>1
    <3> QED
      BY <3>2, <3>3
  <2>2. CASE S \in SUBSET Inode
    <3>1. \A y \in S : y \in {1, 2, 3}
      BY <2>2 DEF Inode
    <3>2. CASE 1 \in S
      BY <3>1, <3>2
    <3>3. CASE 1 \notin S /\ 2 \in S
      BY <3>1, <3>3
    <3>4. CASE 1 \notin S /\ 2 \notin S
      BY <3>1, <3>4
    <3> QED
      BY <3>2, <3>3, <3>4
  <2> QED
    BY <2>1, <2>2
<1> QED
  BY <1>1 DEF Least

\* open takes a descriptor that was free, and no other changes.
LEMMA OpenOutcome ==
    ASSUME NEW d, DiskOK(d), NEW op, OpOK(op), op.fn = "open"
    PROVE  Outcome(d, op, SysOpen(d, op))
<1>1. PICK new \in BOOLEAN : new = (d.names[op.path] = 0)
  OBVIOUS
<1>2. op.path \in FileName /\ op.flags \in {"r", "w", "a"}
  BY DEF OpOK
<1>3. CASE FreeFds(d) = {} \/ (new /\ (op.flags = "r" \/ FreeInodes(d) = {}))
  <2>1. SysOpen(d, op) = SysFails(d)
    BY <1>1, <1>3 DEF SysOpen
  <2> QED
    BY <2>1 DEF Outcome, SysFails, MovesBytes
<1>4. CASE ~(FreeFds(d) = {} \/ (new /\ (op.flags = "r" \/ FreeInodes(d) = {})))
  <2>1. PICK f \in Fd : f = Least(FreeFds(d)) /\ d.fds[f].ino = 0
    <3>1. Least(FreeFds(d)) \in FreeFds(d)
      BY <1>4, LeastIsIn DEF FreeFds
    <3> QED
      BY <3>1 DEF FreeFds
  <2>2. PICK i \in Inode : i = IF new THEN Least(FreeInodes(d)) ELSE d.names[op.path]
    <3>1. CASE new
      <4>1. Least(FreeInodes(d)) \in FreeInodes(d)
        BY <1>4, <3>1, LeastIsIn DEF FreeInodes
      <4> QED
        BY <3>1, <4>1 DEF FreeInodes
    <3>2. CASE ~new
      BY <1>1, <1>2, <3>2 DEF DiskOK, DiskRecs
    <3> QED
      BY <3>1, <3>2
  <2>3. PICK data, fds : /\ d \in DiskRecs /\ data = d.data /\ fds = d.fds
                         /\ data \in [Inode -> Seq(Nat)] /\ fds \in [Fd -> FdRecs]
    BY DEF DiskOK, DiskRecs
  <2>4. PICK s : s = IF new \/ op.flags = "w" THEN <<>> ELSE data[i]
    OBVIOUS
  <2> s \in Seq(Nat) /\ Len(s) <= MaxSize
    <3>1. PICK none : none = <<>>
      OBVIOUS
    <3> none \in Seq(Nat) /\ Len(none) = 0
      BY <3>1
    <3>2. data[i] \in Seq(Nat) /\ Len(data[i]) <= MaxSize
      BY <2>3 DEF DiskOK
    <3>3. s = none \/ s = data[i]
      BY <2>4, <3>1
    <3>4. Len(none) <= MaxSize
      BY FileAssumption
    <3> QED
      BY <3>2, <3>3, <3>4, Zenon
  <2>5. PICK q : q = [ino |-> i, pos |-> 0, flags |-> op.flags, cloexec |-> FALSE]
    OBVIOUS
  <2> q \in FdRecs /\ q.ino = i
    BY <1>2, <2>5 DEF FdRecs
  <2>6. PICK e : e = [d EXCEPT !.names[op.path] = i, !.data[i] = s, !.fds[f] = q]
    OBVIOUS
  <2>7. SysOpen(d, op) = SysGives(e, f)
    BY <1>1, <1>4, <2>1, <2>2, <2>3, <2>4, <2>5, <2>6 DEF SysOpen
  <2>8. e \in DiskRecs /\ e.data = [data EXCEPT ![i] = s] /\ e.fds = [fds EXCEPT ![f] = q]
    BY <1>2, <2>3, <2>6 DEF DiskRecs
  <2>9. DiskOK(e)
    <3>1. \A j \in Inode : Len(data[j]) <= MaxSize
      BY <2>3 DEF DiskOK
    <3> QED
      BY <2>3, <2>8, <3>1 DEF DiskOK
  <2> e.fds[f].ino # 0 /\ \A g \in Fd : g # f => e.fds[g] = d.fds[g]
    BY <2>3, <2>5, <2>8 DEF Inode
  <2>10. PICK r : r = SysOpen(d, op) /\ r = [disk |-> e, err |-> FALSE, val |-> f, at |-> -1]
    BY <2>7 DEF SysGives
  <2>11. Outcome(d, op, r)
    BY <2>1, <2>9, <2>10 DEF Outcome, MovesBytes
  <2> QED
    BY <2>10, <2>11
<1> QED
  BY <1>3, <1>4

\* close leaves the descriptor free, and no other changes.
LEMMA CloseOutcome ==
    ASSUME NEW d, DiskOK(d), NEW op, OpOK(op), op.fn = "close"
    PROVE  Outcome(d, op, SysClose(d, op))
<1>1. op.fd \in Fd
  BY DEF OpOK
<1>2. CASE d.fds[op.fd].ino = 0
  <2>1. SysClose(d, op) = SysFails(d)
    BY <1>2 DEF SysClose
  <2> QED
    BY <1>2, <2>1 DEF Outcome, SysFails, MovesBytes
<1>3. CASE d.fds[op.fd].ino # 0
  <2>1. NoFile \in FdRecs /\ NoFile.ino = 0
    BY DEF NoFile, FdRecs
  <2>2. PICK q \in FdRecs : q = NoFile /\ q.ino = 0
    BY <2>1
  <2>3. PICK e : e = [d EXCEPT !.fds[op.fd] = q]
    OBVIOUS
  <2>4. DiskOK(e) /\ e.fds[op.fd] = q /\ \A f \in Fd : f # op.fd => e.fds[f] = d.fds[f]
    <3>1. DiskOK(e) /\ e.fds = [d.fds EXCEPT ![op.fd] = q]
      BY <1>1, <2>3, FdChanges
    <3>2. d.fds \in [Fd -> FdRecs]
      BY DEF DiskOK, DiskRecs
    <3> QED
      BY <1>1, <3>1, <3>2
  <2>5. PICK r : r = SysClose(d, op) /\ r = [disk |-> e, err |-> FALSE, val |-> 0, at |-> -1]
    BY <1>3, <2>2, <2>3 DEF SysClose, SysGives
  <2>6. Outcome(d, op, r)
    BY <1>1, <2>2, <2>4, <2>5 DEF Outcome, MovesBytes
  <2> QED
    BY <2>5, <2>6
<1> QED
  BY <1>2, <1>3

\* A disk with the same descriptors and other names.
LEMMA NamesChange ==
    ASSUME NEW d, DiskOK(d), NEW m \in [FileName -> {0} \cup Inode]
    PROVE  DiskOK([d EXCEPT !.names = m]) /\ SameFds(d, [d EXCEPT !.names = m])
<1>1. PICK e : e = [d EXCEPT !.names = m]
  OBVIOUS
<1>2. e \in DiskRecs /\ e.fds = d.fds /\ e.data = d.data
  BY <1>1 DEF DiskOK, DiskRecs
<1> QED
  BY <1>1, <1>2 DEF DiskOK, SameFds

\* rename, link and unlink change names, truncate the bytes of a file.
LEMMA NameOutcome ==
    ASSUME NEW d, DiskOK(d), NEW op, OpOK(op), op.fn \in {"rename", "link", "unlink"}
    PROVE  /\ op.fn = "rename" => Outcome(d, op, SysRename(d, op))
           /\ op.fn = "link" => Outcome(d, op, SysLink(d, op))
           /\ op.fn = "unlink" => Outcome(d, op, SysUnlink(d, op))
<1> DEFINE Res == {SysFails(d)} \cup
                  {SysGives([d EXCEPT !.names = m], 0) : m \in [FileName -> {0} \cup Inode]}
<1>1. op.path \in FileName /\ (op.fn # "unlink" => op.dest \in FileName)
  BY DEF OpOK
<1>2. d \in DiskRecs /\ d.names \in [FileName -> {0} \cup Inode]
  BY DEF DiskOK, DiskRecs
<1>3. ASSUME NEW r \in Res PROVE Outcome(d, op, r)
  <2>1. CASE r = SysFails(d)
    BY <2>1 DEF Outcome, SysFails, MovesBytes, SameFds
  <2>2. CASE \E m \in [FileName -> {0} \cup Inode] : r = SysGives([d EXCEPT !.names = m], 0)
    <3>1. PICK m \in [FileName -> {0} \cup Inode] : r = SysGives([d EXCEPT !.names = m], 0)
      BY <2>2
    <3>2. PICK e : e = [d EXCEPT !.names = m] /\ DiskOK(e) /\ SameFds(d, e)
      BY NamesChange
    <3>3. r = [disk |-> e, err |-> FALSE, val |-> 0, at |-> -1]
      BY <3>1, <3>2 DEF SysGives
    <3> QED
      BY <3>2, <3>3 DEF Outcome, MovesBytes
  <2> QED
    BY <1>3, <2>1, <2>2
<1>4. op.fn = "rename" => SysRename(d, op) \in Res
  <2>1. SUFFICES ASSUME op.fn = "rename" PROVE SysRename(d, op) \in Res
    OBVIOUS
  <2>2. PICK names : names = d.names /\ names \in [FileName -> {0} \cup Inode]
    BY <1>2
  <2>3. d = [d EXCEPT !.names = names]
    BY <1>2, <2>2 DEF DiskRecs
  <2>4. PICK m \in [FileName -> {0} \cup Inode] :
            m = [[names EXCEPT ![op.dest] = names[op.path]] EXCEPT ![op.path] = 0]
    BY <1>1, <2>1, <2>2
  <2>5. [d EXCEPT !.names[op.dest] = d.names[op.path], !.names[op.path] = 0] = [d EXCEPT !.names = m]
    BY <1>1, <1>2, <2>2, <2>4 DEF DiskRecs
  <2> QED
    BY <2>2, <2>3, <2>5 DEF SysRename
<1>5. op.fn = "link" => SysLink(d, op) \in Res
  <2>1. SUFFICES ASSUME op.fn = "link" PROVE SysLink(d, op) \in Res
    OBVIOUS
  <2>2. PICK m \in [FileName -> {0} \cup Inode] : m = [d.names EXCEPT ![op.dest] = d.names[op.path]]
    BY <1>1, <1>2, <2>1
  <2>3. [d EXCEPT !.names[op.dest] = d.names[op.path]] = [d EXCEPT !.names = m]
    BY <1>2, <2>2 DEF DiskRecs
  <2> QED
    BY <2>3 DEF SysLink
<1>6. op.fn = "unlink" => SysUnlink(d, op) \in Res
  <2>1. PICK m \in [FileName -> {0} \cup Inode] : m = [d.names EXCEPT ![op.path] = 0]
    BY <1>1, <1>2
  <2>2. [d EXCEPT !.names[op.path] = 0] = [d EXCEPT !.names = m]
    BY <1>2, <2>1 DEF DiskRecs
  <2> QED
    BY <2>2 DEF SysUnlink
<1> HIDE DEF Res
<1> QED
  BY <1>3, <1>4, <1>5, <1>6

\* truncate leaves a byte or none.
LEMMA TruncateOutcome ==
    ASSUME NEW d, DiskOK(d), NEW op, OpOK(op), op.fn = "truncate"
    PROVE  Outcome(d, op, SysTruncate(d, op))
<1>1. PICK f \in FdRecs : f = d.fds[op.fd]
  BY DEF DiskOK, DiskRecs, OpOK
<1>2. CASE f.ino = 0 \/ f.flags = "r"
  <2>1. SysTruncate(d, op) = SysFails(d)
    BY <1>1, <1>2 DEF SysTruncate
  <2> QED
    BY <2>1 DEF Outcome, SysFails, MovesBytes, SameFds
<1>3. CASE ~(f.ino = 0 \/ f.flags = "r")
  <2>1. PICK data \in Seq(Nat) : data = d.data[f.ino]
    BY <1>3 DEF FdRecs, DiskOK, DiskRecs
  <2>2. PICK size \in Nat : size = op.len /\ size <= MaxSize
    BY FileAssumption DEF OpOK
  <2>3. PICK bytes : bytes = [k \in 1..op.len |-> IF k <= Len(data) THEN data[k] ELSE 0]
    OBVIOUS
  <2>4. bytes \in Seq(Nat) /\ Len(bytes) = size
    <3>1. \A k \in 1..Len(data) : data[k] \in Nat
      BY ElementOfSeq
    <3>2. PICK l \in Nat : l = Len(data)
      BY LenProperties
    <3>3. ASSUME NEW k \in 1..size PROVE (IF k <= Len(data) THEN data[k] ELSE 0) \in Nat
      BY <3>1, <3>2
    <3>4. bytes \in [1..size -> Nat]
      BY <2>2, <2>3, <3>3
    <3> QED
      BY <3>4, IsASeq
  <2>5. f.ino \in Inode
    BY <1>3 DEF FdRecs
  <2>6. PICK e : e = [d EXCEPT !.data[f.ino] = bytes]
    OBVIOUS
  <2>7. DiskOK(e) /\ e.fds = d.fds
    BY <2>2, <2>4, <2>5, <2>6, DataChanges
  <2>8. PICK r : r = SysTruncate(d, op) /\ r = [disk |-> e, err |-> FALSE, val |-> 0, at |-> -1]
    BY <1>1, <1>3, <2>1, <2>3, <2>6 DEF SysTruncate, SysGives
  <2>9. Outcome(d, op, r)
    BY <2>7, <2>8 DEF Outcome, MovesBytes, SameFds
  <2> QED
    BY <2>8, <2>9
<1> QED
  BY <1>2, <1>3

\* read and write, at the position that was asked for.
LEMMA TransferOutcome ==
    ASSUME NEW d, DiskOK(d), NEW op, OpOK(op), op.fn \in {"read", "write"}, NEW r, BytesMoved(d, op, r)
    PROVE  Outcome(d, op, r)
<1>1. PICK p \in Int, q \in Int : p = op.asked /\ q = op.pos /\ q = IF p \in 0..MaxInt32 THEN p ELSE -1
  BY FileAssumption DEF OpOK, GetOffset
<1>2. r.at \in Int /\ (q >= 0 => r.at \in {-1, q})
  BY <1>1 DEF BytesMoved
<1>3. Landed(r.at, op.asked)
  BY <1>1, <1>2, FileAssumption DEF Landed
<1> QED
  BY <1>3 DEF BytesMoved, Outcome

\* sendfile.
LEMMA SendFileOutcome ==
    ASSUME NEW d, DiskOK(d), NEW op, OpOK(op), op.fn = "sendfile"
    PROVE  Outcome(d, op, SysSendFile(d, op))
<1>1. /\ op.fd \in Fd /\ op.in \in Fd /\ op.asked \in Nat /\ op.pos = op.asked /\ op.len \in Nat
      /\ op.byte \in Nat
  BY DEF OpOK
<1>2. PICK from : from = [fd |-> op.in, pos |-> op.pos, len |-> op.len]
  OBVIOUS
<1>3. PICK read : read = SysRead(d, from)
  OBVIOUS
<1>4. ~read.err => Len(read.val) \in Nat
  BY <1>1, <1>2, <1>3, ReadMoves
<1>5. CASE read.err
  <2>1. SysSendFile(d, op) = SysFails(d)
    BY <1>2, <1>3, <1>5 DEF SysSendFile
  <2> QED
    BY <1>1, <2>1 DEF Outcome, SysFails, MovesBytes, SameFds, Landed
<1>6. CASE ~read.err /\ read.val = <<>>
  <2>1. SysSendFile(d, op) = SysGives(d, 0)
    BY <1>2, <1>3, <1>6 DEF SysSendFile
  <2> QED
    BY <1>1, <2>1 DEF Outcome, SysGives, MovesBytes, SameFds, Landed
<1>7. CASE ~read.err /\ read.val # <<>>
  <2>1. PICK n \in Nat : n = Len(read.val)
    BY <1>4, <1>7
  <2>2. PICK to : to = [fd |-> op.fd, pos |-> -1, len |-> n, byte |-> op.byte]
    OBVIOUS
  <2>3. PICK w : w = SysWrite(d, to)
    OBVIOUS
  <2>4. BytesMoved(d, to, w)
    BY <1>1, <2>2, <2>3, WriteMoves
  <2>5. PICK r : r = SysSendFile(d, op) /\ r = [w EXCEPT !.at = op.pos]
    BY <1>2, <1>3, <1>7, <2>1, <2>2, <2>3 DEF SysSendFile
  <2>6. r.disk = w.disk /\ r.err = w.err /\ r.at = op.pos
    <3>1. w = [disk |-> w.disk, err |-> w.err, val |-> w.val, at |-> w.at]
      BY <2>4 DEF BytesMoved
    <3> QED
      BY <2>5, <3>1
  <2>7. Outcome(d, op, r)
    BY <1>1, <2>4, <2>6 DEF Outcome, BytesMoved, MovesBytes, Landed
  <2> QED
    BY <2>5, <2>7
<1> QED
  BY <1>5, <1>6, <1>7

\* Every system call.
LEMMA PerformOutcome ==
    ASSUME NEW d, DiskOK(d), NEW op, OpOK(op), NEW r \in Perform(d, op)
    PROVE  Outcome(d, op, r)
<1>1. CASE op.fn = "open"
  BY <1>1, OpenOutcome DEF Perform
<1>2. CASE op.fn = "close"
  BY <1>2, CloseOutcome DEF Perform
<1>3. CASE op.fn = "read"
  <2>1. op.fd \in Fd /\ op.pos \in Int /\ op.len \in Nat
    BY <1>3, FileAssumption DEF OpOK, GetOffset
  <2>2. r = SysRead(d, op) /\ BytesMoved(d, op, r)
    BY <1>3, <2>1, ReadMoves DEF Perform
  <2> QED
    BY <1>3, <2>2, TransferOutcome
<1>4. CASE op.fn = "write"
  <2>1. op.fd \in Fd /\ op.pos \in Int /\ op.len \in Nat /\ op.byte \in Nat
    BY <1>4, FileAssumption DEF OpOK, GetOffset
  <2>2. r = SysWrite(d, op) /\ BytesMoved(d, op, r)
    BY <1>4, <2>1, WriteMoves DEF Perform
  <2> QED
    BY <1>4, <2>2, TransferOutcome
<1>5. CASE op.fn = "truncate"
  BY <1>5, TruncateOutcome DEF Perform
<1>6. CASE op.fn = "sendfile"
  BY <1>6, SendFileOutcome DEF Perform
<1>7. CASE op.fn \in {"rename", "link", "unlink"}
  <2>1. CASE op.fn = "rename"
    BY <2>1, NameOutcome DEF Perform
  <2>2. CASE op.fn = "link"
    BY <2>2, NameOutcome DEF Perform
  <2>3. CASE op.fn = "unlink"
    BY <2>3, NameOutcome DEF Perform
  <2> QED
    BY <1>7, <2>1, <2>2, <2>3
<1>8. CASE op.fn \notin {"open", "close", "read", "write", "truncate", "sendfile", "rename", "link", "unlink"}
  <2>1. r = SysFails(d) \/ r = SysGives(d, 0)
    BY <1>8 DEF Perform
  <2>2. r.disk = d /\ r.err \in BOOLEAN /\ r.at \in Int
    <3>1. CASE r = SysFails(d)
      BY <3>1 DEF SysFails
    <3>2. CASE r = SysGives(d, 0)
      BY <3>2 DEF SysGives
    <3> QED
      BY <2>1, <3>1, <3>2
  <2>3. SameFds(d, d) /\ ~MovesBytes(op)
    BY <1>8 DEF MovesBytes, SameFds
  <2> QED
    BY <1>8, <2>2, <2>3 DEF Outcome
<1> QED
  BY <1>1, <1>2, <1>3, <1>4, <1>5, <1>6, <1>7, <1>8

-----------------------------------------------------------------------------
\* The requests that hold a descriptor are the same.
SameHolders(f, reqs, more) ==
    /\ Len(reqs) \in Nat /\ Len(more) \in Nat /\ Len(reqs) <= Len(more)
    /\ \A i \in 1..Len(more) : HoldsFd(more[i], f) <=> i <= Len(reqs) /\ HoldsFd(reqs[i], f)

\* Then one of them holds it as before.
LEMMA HeldAsBefore ==
    ASSUME NEW f, NEW ino, NEW cloexec, NEW own, NEW reqs, NEW more,
           HeldOnce(f, ino, cloexec, own, reqs), SameHolders(f, reqs, more)
    PROVE  HeldOnce(f, ino, cloexec, own, more)
<1>1. PICK m \in Nat, n \in Nat : m = Len(reqs) /\ n = Len(more) /\ m <= n
  BY DEF SameHolders
<1>2. ASSUME NEW i \in 1..n, HoldsFd(more[i], f) PROVE i \in 1..m /\ HoldsFd(reqs[i], f)
  BY <1>1, <1>2 DEF SameHolders
<1>3. ASSUME NEW i \in 1..m, HoldsFd(reqs[i], f) PROVE i \in 1..n /\ HoldsFd(more[i], f)
  BY <1>1, <1>3 DEF SameHolders
<1> QED
  BY <1>1, <1>2, <1>3 DEF HeldOnce

\* A request that holds nothing is added.
LEMMA HoldersOfMore ==
    ASSUME NEW reqs, IsSequence(reqs), NEW req, NEW f, ~HoldsFd(req, f)
    PROVE  SameHolders(f, reqs, Append(reqs, req))
<1>1. PICK n \in Nat : n = Len(reqs)
  BY DEF IsSequence
<1>2. PICK more : more = Append(reqs, req)
  OBVIOUS
<1>3. Len(more) = n + 1 /\ more[n + 1] = req /\ \A i \in 1..n : more[i] = reqs[i]
  BY <1>1, <1>2, SequenceGrows
<1>4. ASSUME NEW i \in 1..(n + 1) PROVE HoldsFd(more[i], f) <=> i <= n /\ HoldsFd(reqs[i], f)
  <2>1. CASE i = n + 1
    BY <1>3, <2>1
  <2>2. CASE i # n + 1
    <3>1. i \in 1..n /\ i <= n
      BY <2>2
    <3> QED
      BY <1>3, <3>1
  <2> QED
    BY <2>1, <2>2
<1>5. SameHolders(f, reqs, more)
  BY <1>1, <1>3, <1>4 DEF SameHolders
<1> QED
  BY <1>2, <1>5

\* A request that goes on holds what it held.
LEMMA HoldersOfChanged ==
    ASSUME NEW reqs, IsSequence(reqs), NEW i \in 1..Len(reqs), NEW req, NEW f,
           HoldsFd(req, f) <=> HoldsFd(reqs[i], f)
    PROVE  SameHolders(f, reqs, [reqs EXCEPT ![i] = req])
<1>1. PICK n \in Nat : n = Len(reqs)
  BY DEF IsSequence
<1>2. PICK more : more = [reqs EXCEPT ![i] = req]
  OBVIOUS
<1>3. Len(more) = n /\ more[i] = req /\ \A j \in 1..n : j # i => more[j] = reqs[j]
  BY <1>1, <1>2, SequenceChanges
<1>4. ASSUME NEW j \in 1..n PROVE HoldsFd(more[j], f) <=> j <= n /\ HoldsFd(reqs[j], f)
  BY <1>3
<1>5. SameHolders(f, reqs, more)
  BY <1>1, <1>3, <1>4 DEF SameHolders
<1> QED
  BY <1>2, <1>5

\* SetCloseOnExec changes nothing else.
ClosedOnExec(d, f, e) ==
    /\ DiskOK(e) /\ e.fds[f].ino = d.fds[f].ino /\ e.fds[f].cloexec
    /\ \A g \in Fd : g # f => e.fds[g] = d.fds[g]

\* So it is.
LEMMA CloseOnExecOK ==
    ASSUME NEW d, DiskOK(d), NEW f \in Fd
    PROVE  ClosedOnExec(d, f, FileSetCloseOnExec(d, f))
<1>1. PICK q \in FdRecs : q = d.fds[f]
  BY DEF DiskOK, DiskRecs
<1>2. PICK q2 : q2 = [q EXCEPT !.cloexec = TRUE]
  OBVIOUS
<1>3. q2 \in FdRecs /\ q2.ino = q.ino /\ q2.cloexec = TRUE
  BY <1>2 DEF FdRecs
<1>4. PICK e : e = FileSetCloseOnExec(d, f) /\ e = [d EXCEPT !.fds[f] = q2]
  BY <1>1, <1>2 DEF FileSetCloseOnExec
<1>5. DiskOK(e) /\ e.fds = [d.fds EXCEPT ![f] = q2]
  BY <1>3, <1>4, FdChanges
<1>6. e.fds[f] = q2 /\ \A g \in Fd : g # f => e.fds[g] = d.fds[g]
  <2>1. d.fds \in [Fd -> FdRecs]
    BY DEF DiskOK, DiskRecs
  <2> QED
    BY <1>5, <2>1
<1>7. ClosedOnExec(d, f, e)
  BY <1>1, <1>3, <1>5, <1>6 DEF ClosedOnExec
<1> QED
  BY <1>4, <1>7

\* The disk and JavaScript's descriptors after a call without a callback.
DiskAfter(op, r) == IF op.fn = "open" /\ ~r.err THEN FileSetCloseOnExec(r.disk, r.val) ELSE r.disk

OwnedAfter(own, op, r) ==
    IF op.fn = "close" THEN [own EXCEPT ![op.fd] = 0]
    ELSE IF op.fn = "open" /\ ~r.err THEN [own EXCEPT ![r.val] = r.disk.fds[r.val].ino] ELSE own

\* A call without a callback: what it opens is JavaScript's, what it closes was.
LEMMA SyncHolds ==
    ASSUME NEW d, NEW e, NEW own \in [Fd -> {0} \cup Inode], NEW own2, NEW reqs, NEW req, NEW op, NEW r,
           DiskOK(d), OpOK(op), Outcome(d, op, r), IsSequence(reqs), HoldersOK(d, own, reqs), req.st = "done",
           op.fn = "close" => own[op.fd] # 0,
           e = DiskAfter(op, r), own2 = OwnedAfter(own, op, r)
    PROVE  DiskOK(e) /\ own2 \in [Fd -> {0} \cup Inode] /\ HoldersOK(e, own2, Append(reqs, req))
<1>1. PICK more : more = Append(reqs, req)
  OBVIOUS
<1>2. \A f \in Fd : SameHolders(f, reqs, more)
  BY <1>1, HoldersOfMore DEF HoldsFd
<1>3. \A f \in Fd : HeldOnce(f, d.fds[f].ino, d.fds[f].cloexec, own[f], more)
  BY <1>2, HeldAsBefore DEF HoldersOK
<1>4. CASE (op.fn # "open" /\ op.fn # "close") \/ (op.fn = "open" /\ r.err)
  <2>1. e = r.disk /\ own2 = own /\ SameFds(d, e)
    BY <1>4 DEF Outcome, SameFds, DiskAfter, OwnedAfter
  <2> QED
    BY <1>1, <1>3, <2>1 DEF HoldersOK, SameFds, Outcome
<1>5. CASE op.fn = "close"
  <2>1. op.fd \in Fd /\ e = r.disk /\ DiskOK(e)
    BY <1>5 DEF OpOK, Outcome, DiskAfter
  <2>2. e.fds[op.fd].ino = 0 /\ \A f \in Fd : f # op.fd => e.fds[f] = d.fds[f]
    BY <1>5, <2>1 DEF Outcome
  <2>3. own2[op.fd] = 0 /\ (\A f \in Fd : f # op.fd => own2[f] = own[f]) /\ own2 \in [Fd -> {0} \cup Inode]
    BY <1>5, <2>1 DEF OwnedAfter
  <2>4. HeldOnce(op.fd, e.fds[op.fd].ino, e.fds[op.fd].cloexec, own2[op.fd], more)
    BY <1>3, <1>5, <2>1, <2>2, <2>3 DEF HeldOnce
  <2> QED
    BY <1>1, <1>3, <2>1, <2>2, <2>3, <2>4 DEF HoldersOK
<1>6. CASE op.fn = "open" /\ ~r.err
  <2>1. PICK v \in Fd : v = r.val /\ d.fds[v].ino = 0
    BY <1>6 DEF Outcome
  <2>2. DiskOK(r.disk) /\ r.disk.fds[v].ino # 0 /\ \A f \in Fd : f # v => r.disk.fds[f] = d.fds[f]
    BY <1>6, <2>1 DEF Outcome
  <2>3. PICK e2 : e2 = r.disk
    OBVIOUS
  <2>4. e = FileSetCloseOnExec(e2, v) /\ DiskOK(e2)
    BY <1>6, <2>1, <2>2, <2>3 DEF DiskAfter
  <2>5. ClosedOnExec(e2, v, e)
    BY <2>4, CloseOnExecOK
  <2>6. DiskOK(e) /\ e.fds[v].ino = e2.fds[v].ino /\ e.fds[v].cloexec
    BY <2>5 DEF ClosedOnExec
  <2>7. \A f \in Fd : f # v => e.fds[f] = d.fds[f]
    BY <2>2, <2>3, <2>5 DEF ClosedOnExec
  <2>8. PICK i \in Inode : i = e2.fds[v].ino
    BY <2>2, <2>3, <2>4 DEF DiskOK, DiskRecs, FdRecs
  <2>9. own2[v] = i /\ (\A f \in Fd : f # v => own2[f] = own[f]) /\ own2 \in [Fd -> {0} \cup Inode]
    BY <1>6, <2>1, <2>3, <2>8 DEF OwnedAfter
  <2>10. HeldOnce(v, e.fds[v].ino, e.fds[v].cloexec, own2[v], more)
    BY <1>3, <2>1, <2>6, <2>8, <2>9 DEF HeldOnce
  <2> QED
    BY <1>1, <1>3, <2>6, <2>7, <2>9, <2>10 DEF HoldersOK
<1> QED
  <2>1. CASE op.fn = "open" /\ r.err
    BY <1>4, <2>1
  <2>2. CASE op.fn = "open" /\ ~r.err
    BY <1>6, <2>2
  <2>3. CASE op.fn = "close"
    BY <1>5, <2>3
  <2>4. CASE op.fn # "open" /\ op.fn # "close"
    BY <1>4, <2>4
  <2> QED
    BY <2>1, <2>2, <2>3, <2>4

\* A close with a callback: the request holds what was JavaScript's.
LEMMA AsyncHolds ==
    ASSUME NEW d, NEW own \in [Fd -> {0} \cup Inode], NEW own2, NEW reqs, NEW req, NEW op,
           OpOK(op), IsSequence(reqs), HoldersOK(d, own, reqs), op.fn = "close" => own[op.fd] # 0,
           req.st = "queued", req.fn = op.fn, req.op = op,
           own2 = IF op.fn = "close" THEN [own EXCEPT ![op.fd] = 0] ELSE own
    PROVE  own2 \in [Fd -> {0} \cup Inode] /\ HoldersOK(d, own2, Append(reqs, req))
<1>1. PICK more : more = Append(reqs, req)
  OBVIOUS
<1>2. CASE op.fn # "close"
  <2>1. own2 = own /\ \A f \in Fd : ~HoldsFd(req, f)
    BY <1>2 DEF HoldsFd
  <2>2. \A f \in Fd : SameHolders(f, reqs, more)
    BY <1>1, <2>1, HoldersOfMore
  <2>3. \A f \in Fd : HeldOnce(f, d.fds[f].ino, d.fds[f].cloexec, own[f], more)
    BY <2>2, HeldAsBefore DEF HoldersOK
  <2> QED
    BY <1>1, <2>1, <2>3 DEF HoldersOK
<1>3. CASE op.fn = "close"
  <2>1. PICK v \in Fd : v = op.fd /\ own[v] # 0
    BY <1>3 DEF OpOK
  <2>2. own2[v] = 0 /\ (\A f \in Fd : f # v => own2[f] = own[f]) /\ own2 \in [Fd -> {0} \cup Inode]
    BY <1>3, <2>1
  <2>3. HoldsFd(req, v) /\ \A f \in Fd : f # v => ~HoldsFd(req, f)
    BY <1>3, <2>1 DEF HoldsFd
  <2>4. ASSUME NEW f \in Fd, f # v PROVE HeldOnce(f, d.fds[f].ino, d.fds[f].cloexec, own2[f], more)
    <3>1. SameHolders(f, reqs, more)
      BY <1>1, <2>3, <2>4, HoldersOfMore
    <3>2. HeldOnce(f, d.fds[f].ino, d.fds[f].cloexec, own[f], more)
      BY <3>1, HeldAsBefore DEF HoldersOK
    <3> QED
      BY <2>2, <2>4, <3>2
  <2>5. HeldOnce(v, d.fds[v].ino, d.fds[v].cloexec, own2[v], more)
    <3>1. PICK n \in Nat : /\ n = Len(reqs) /\ Len(more) = n + 1 /\ more[n + 1] = req
                          /\ \A i \in 1..n : more[i] = reqs[i]
      BY <1>1, SequenceGrows DEF IsSequence
    <3>2. own[v] = d.fds[v].ino /\ \A i \in 1..n : ~HoldsFd(reqs[i], v)
      BY <2>1, <3>1 DEF HoldersOK, HeldOnce
    <3>3. HoldsFd(more[n + 1], v)
      BY <2>3, <3>1
    <3>4. ASSUME NEW i \in 1..(n + 1), HoldsFd(more[i], v) PROVE i = n + 1
      BY <3>1, <3>2, <3>4
    <3> QED
      BY <2>1, <2>2, <3>1, <3>2, <3>3, <3>4 DEF HeldOnce
  <2> QED
    BY <1>1, <2>2, <2>4, <2>5 DEF HoldersOK
<1> QED
  BY <1>2, <1>3

\* A thread of the pool: what it opens waits for its callback, and what it closes is not JavaScript's.
LEMMA ExecuteHolds ==
    ASSUME NEW d, NEW own \in [Fd -> {0} \cup Inode], NEW reqs, NEW i \in 1..Len(reqs), NEW old, NEW req, NEW r,
           old = reqs[i], old.st = "queued", QueuedOK(old), IsSequence(reqs), HoldersOK(d, own, reqs),
           Outcome(d, old.op, r), req.st = "executed", req.fn = old.fn, req.res.err = r.err, req.res.val = r.val
    PROVE  HoldersOK(r.disk, own, [reqs EXCEPT ![i] = req])
<1>1. PICK more : more = [reqs EXCEPT ![i] = req]
  OBVIOUS
<1>2. PICK n \in Nat : /\ n = Len(reqs) /\ Len(more) = n /\ more[i] = req
                       /\ \A j \in 1..n : j # i => more[j] = reqs[j]
  BY <1>1, SequenceChanges DEF IsSequence
<1>3. PICK e, op : e = r.disk /\ op = old.op
  OBVIOUS
<1>4. old.fn = op.fn /\ OpOK(op)
  BY <1>3 DEF QueuedOK
<1>5. ASSUME NEW f \in Fd, ~HoldsFd(old, f), ~HoldsFd(req, f),
             e.fds[f].ino = d.fds[f].ino, e.fds[f].cloexec = d.fds[f].cloexec
      PROVE  HeldOnce(f, e.fds[f].ino, e.fds[f].cloexec, own[f], more)
  <2>1. SameHolders(f, reqs, more)
    BY <1>1, <1>5, HoldersOfChanged
  <2> QED
    BY <1>5, <2>1, HeldAsBefore DEF HoldersOK
<1>6. CASE (op.fn # "open" /\ op.fn # "close") \/ (op.fn = "open" /\ r.err)
  <2>1. SameFds(d, e)
    BY <1>3, <1>6 DEF Outcome, SameFds
  <2>2. ASSUME NEW f \in Fd PROVE ~HoldsFd(old, f) /\ ~HoldsFd(req, f)
    BY <1>4, <1>6 DEF HoldsFd
  <2> QED
    BY <1>1, <1>3, <1>5, <2>1, <2>2 DEF HoldersOK, SameFds
<1>7. CASE op.fn = "open" /\ ~r.err
  <2>1. PICK v \in Fd : /\ v = r.val /\ d.fds[v].ino = 0 /\ e.fds[v].ino # 0
                        /\ \A f \in Fd : f # v => e.fds[f] = d.fds[f]
    BY <1>3, <1>7 DEF Outcome
  <2>2. \A f \in Fd : f # v => ~HoldsFd(old, f) /\ ~HoldsFd(req, f)
    BY <1>4, <1>7, <2>1 DEF HoldsFd
  <2>3. HeldOnce(v, e.fds[v].ino, e.fds[v].cloexec, own[v], more)
    <3>1. own[v] = 0 /\ \A j \in 1..n : ~HoldsFd(reqs[j], v)
      BY <1>2, <2>1 DEF HoldersOK, HeldOnce
    <3>2. HoldsFd(more[i], v)
      BY <1>2, <1>4, <1>7, <2>1 DEF HoldsFd
    <3>3. ASSUME NEW j \in 1..n, HoldsFd(more[j], v) PROVE j = i
      BY <1>2, <3>1, <3>3
    <3> QED
      BY <1>2, <2>1, <3>1, <3>2, <3>3 DEF HeldOnce
  <2> QED
    BY <1>1, <1>3, <1>5, <2>1, <2>2, <2>3 DEF HoldersOK
<1>8. CASE op.fn = "close"
  <2>1. PICK v \in Fd : v = op.fd /\ e.fds[v].ino = 0 /\ \A f \in Fd : f # v => e.fds[f] = d.fds[f]
    BY <1>3, <1>4, <1>8 DEF Outcome, OpOK
  <2>2. \A f \in Fd : f # v => ~HoldsFd(old, f) /\ ~HoldsFd(req, f)
    BY <1>3, <1>4, <1>8, <2>1 DEF HoldsFd
  <2>3. HeldOnce(v, e.fds[v].ino, e.fds[v].cloexec, own[v], more)
    <3>1. HoldsFd(reqs[i], v) /\ ~HoldsFd(req, v)
      BY <1>3, <1>4, <1>8, <2>1 DEF HoldsFd
    <3>2. own[v] = 0 /\ \A j \in 1..n : HoldsFd(reqs[j], v) => j = i
      BY <1>2, <3>1 DEF HoldersOK, HeldOnce
    <3>3. ASSUME NEW j \in 1..n PROVE ~HoldsFd(more[j], v)
      BY <1>2, <3>1, <3>2
    <3> QED
      BY <1>2, <2>1, <3>2, <3>3 DEF HeldOnce
  <2> QED
    BY <1>1, <1>3, <1>5, <2>1, <2>2, <2>3 DEF HoldersOK
<1> QED
  <2>1. CASE op.fn = "open" /\ r.err
    BY <1>6, <2>1
  <2>2. CASE op.fn = "open" /\ ~r.err
    BY <1>7, <2>2
  <2>3. CASE op.fn = "close"
    BY <1>8, <2>3
  <2>4. CASE op.fn # "open" /\ op.fn # "close"
    BY <1>6, <2>4
  <2> QED
    BY <2>1, <2>2, <2>3, <2>4

\* The disk and JavaScript's descriptors after a callback.
DiskCalled(d, opened, v) == IF opened THEN FileSetCloseOnExec(d, v) ELSE d

OwnedCalled(own, d, opened, v) == IF opened THEN [own EXCEPT ![v] = d.fds[v].ino] ELSE own

\* The callback of an open: JavaScript gets what the request held, as it is by now.
LEMMA AfterHolds ==
    ASSUME NEW d, DiskOK(d), NEW e, NEW own \in [Fd -> {0} \cup Inode], NEW own2, NEW reqs,
           NEW i \in 1..Len(reqs), NEW old, NEW req, NEW opened \in BOOLEAN,
           old = reqs[i], ExecutedOK(old), old.st = "executed", IsSequence(reqs), HoldersOK(d, own, reqs),
           opened = (old.fn = "open" /\ ~old.res.err), req.st = "done",
           e = DiskCalled(d, opened, old.res.val), own2 = OwnedCalled(own, d, opened, old.res.val)
    PROVE  DiskOK(e) /\ own2 \in [Fd -> {0} \cup Inode] /\ HoldersOK(e, own2, [reqs EXCEPT ![i] = req])
<1>1. PICK more : more = [reqs EXCEPT ![i] = req]
  OBVIOUS
<1>2. PICK n \in Nat : /\ n = Len(reqs) /\ Len(more) = n /\ more[i] = req
                       /\ \A j \in 1..n : j # i => more[j] = reqs[j]
  BY <1>1, SequenceChanges DEF IsSequence
<1>3. ASSUME NEW f \in Fd, ~HoldsFd(old, f) PROVE HeldOnce(f, d.fds[f].ino, d.fds[f].cloexec, own[f], more)
  <2>1. ~HoldsFd(req, f)
    BY DEF HoldsFd
  <2>2. SameHolders(f, reqs, more)
    BY <1>1, <1>3, <2>1, HoldersOfChanged
  <2> QED
    BY <2>2, HeldAsBefore DEF HoldersOK
<1>4. CASE ~opened
  <2>1. e = d /\ own2 = own /\ \A f \in Fd : ~HoldsFd(old, f)
    BY <1>4 DEF HoldsFd, DiskCalled, OwnedCalled
  <2> QED
    BY <1>1, <1>3, <2>1 DEF HoldersOK
<1>5. CASE opened
  <2>1. PICK v \in Fd : v = old.res.val
    BY <1>5 DEF ExecutedOK
  <2>2. HoldsFd(reqs[i], v) /\ \A f \in Fd : f # v => ~HoldsFd(old, f)
    BY <1>5, <2>1 DEF HoldsFd
  <2>3. own[v] = 0 /\ d.fds[v].ino # 0 /\ \A j \in 1..n : HoldsFd(reqs[j], v) => j = i
    BY <1>2, <2>2 DEF HoldersOK, HeldOnce
  <2>4. ClosedOnExec(d, v, e)
    <3>1. e = FileSetCloseOnExec(d, v)
      BY <1>5, <2>1 DEF DiskCalled
    <3> QED
      BY <3>1, CloseOnExecOK
  <2>5. PICK k \in Inode : k = d.fds[v].ino
    BY <2>3 DEF DiskOK, DiskRecs, FdRecs
  <2>6. own2[v] = k /\ (\A f \in Fd : f # v => own2[f] = own[f]) /\ own2 \in [Fd -> {0} \cup Inode]
    BY <1>5, <2>1, <2>5 DEF OwnedCalled
  <2>7. ASSUME NEW j \in 1..n PROVE ~HoldsFd(more[j], v)
    BY <1>2, <2>3 DEF HoldsFd
  <2>8. HeldOnce(v, e.fds[v].ino, e.fds[v].cloexec, own2[v], more)
    BY <1>2, <2>3, <2>4, <2>5, <2>6, <2>7 DEF HeldOnce, ClosedOnExec
  <2>9. ASSUME NEW f \in Fd, f # v PROVE HeldOnce(f, e.fds[f].ino, e.fds[f].cloexec, own2[f], more)
    BY <1>3, <2>2, <2>4, <2>6, <2>9 DEF ClosedOnExec
  <2>10. HoldersOK(e, own2, more)
    BY <2>8, <2>9 DEF HoldersOK
  <2> QED
    BY <1>1, <2>4, <2>6, <2>10 DEF ClosedOnExec
<1> QED
  BY <1>4, <1>5

\* The call it was is forgotten, but for where it happened.
LEMMA DoneIsOK ==
    ASSUME NEW op, NEW r, r.at \in Int, MovesBytes(op) => Landed(r.at, op.asked)
    PROVE  FsDone(op, r).st = "done" /\ ReqOK(FsDone(op, r))
<1>1. PICK req : req = FsDone(op, r)
  OBVIOUS
<1>2. req.st = "done" /\ req.cb = "none" /\ req.at = r.at /\ req.asked = IF MovesBytes(op) THEN op.asked ELSE -1
  BY <1>1 DEF FsDone, MovesBytes
<1>3. Landed(req.at, req.asked)
  BY <1>2, FileAssumption DEF Landed
<1> QED
  BY <1>1, <1>2, <1>3 DEF ReqOK, DoneOK

\* One more request.
LEMMA ReqsGrow ==
    ASSUME NEW reqs, ReqsOK(reqs), Len(reqs) < FileMaxCalls, NEW req, ReqOK(req)
    PROVE  ReqsOK(Append(reqs, req))
<1>0. IsSequence(reqs)
  BY DEF ReqsOK
<1> PICK more : more = Append(reqs, req)
  OBVIOUS
<1> PICK n \in Nat : n = Len(reqs)
  BY <1>0 DEF IsSequence
<1>1. /\ n = Len(reqs) /\ more = Append(reqs, req) /\ IsSequence(more)
      /\ Len(more) = n + 1 /\ more[n + 1] = req /\ \A i \in 1..n : more[i] = reqs[i]
  BY <1>0, SequenceGrows
<1>2. ASSUME NEW i \in 1..(n + 1) PROVE ReqOK(more[i])
  BY <1>1 DEF ReqsOK
<1>3. n + 1 <= FileMaxCalls
  BY <1>1, FileAssumption
<1> QED
  BY <1>1, <1>2, <1>3 DEF ReqsOK

\* A request that goes on.
LEMMA ReqsChange ==
    ASSUME NEW reqs, ReqsOK(reqs), NEW i \in 1..Len(reqs), NEW req, ReqOK(req)
    PROVE  ReqsOK([reqs EXCEPT ![i] = req])
<1>1. PICK more : more = [reqs EXCEPT ![i] = req]
  OBVIOUS
<1>2. IsSequence(reqs)
  BY DEF ReqsOK
<1>3. PICK n \in Nat : n = Len(reqs)
  BY <1>2 DEF IsSequence
<1>4. IsSequence(more) /\ Len(more) = n /\ more[i] = req /\ \A j \in 1..n : j # i => more[j] = reqs[j]
  <2>1. IsSequence([reqs EXCEPT ![i] = req])
    BY <1>2, SequenceChanges
  <2>2. Len(more) = n /\ more[i] = req /\ \A j \in 1..n : j # i => more[j] = reqs[j]
    BY <1>1, <1>2, <1>3, SequenceChanges
  <2> QED
    BY <1>1, <2>1, <2>2
<1>5. ASSUME NEW j \in 1..n PROVE ReqOK(more[j])
  BY <1>3, <1>4 DEF ReqsOK
<1>6. ReqsOK(more)
  BY <1>3, <1>4, <1>5 DEF ReqsOK
<1> QED
  BY <1>1, <1>6

\* Nothing is open.
LEMMA FileStarts == FileInit => FileInv
<1>1. SUFFICES ASSUME FileInit PROVE FileInv
  OBVIOUS
<1>2. PICK none : none = <<>>
  OBVIOUS
<1>3. Len(none) = 0 /\ none \in Seq(Nat) /\ IsSequence(none)
  BY <1>2 DEF IsSequence
<1>4. ReqsOK(none) /\ PendingReqs(none) = {}
  BY <1>3, FileAssumption DEF ReqsOK, PendingReqs
<1>5. PICK q \in FdRecs : q = NoFile /\ q.ino = 0
  <2>1. NoFile \in FdRecs /\ NoFile.ino = 0
    BY DEF NoFile, FdRecs
  <2> QED
    BY <2>1
<1>6. PICK d : d = disk /\ d = [names |-> [n \in FileName |-> 0], data |-> [i \in Inode |-> none],
                                 fds |-> [f \in Fd |-> q]]
  BY <1>1, <1>2, <1>5 DEF FileInit
<1>7. d \in DiskRecs /\ (\A f \in Fd : d.fds[f].ino = 0) /\ \A i \in Inode : d.data[i] = none
  BY <1>3, <1>5, <1>6 DEF DiskRecs
<1>8. DiskOK(d)
  BY <1>3, <1>7, FileAssumption DEF DiskOK
<1>9. owned \in [Fd -> {0} \cup Inode] /\ \A f \in Fd : owned[f] = 0
  BY <1>1 DEF FileInit
<1>10. HoldersOK(d, owned, none)
  BY <1>3, <1>7, <1>9 DEF HoldersOK, HeldOnce
<1>11. fsRefs = Cardinality(PendingReqs(none))
  BY <1>1, <1>4, FS_EmptySet DEF FileInit
<1> QED
  BY <1>1, <1>2, <1>4, <1>6, <1>8, <1>9, <1>10, <1>11, FileAssumption DEF FileInit, FileInv

\* A call without a callback.
LEMMA SyncKeeps ==
    ASSUME FileInv, NEW op, OpOK(op), op.fn = "close" => owned[op.fd] # 0, Len(fsReqs) < FileMaxCalls, Sync(op)
    PROVE  FileInv'
<1>1. PICK r \in Perform(disk, op) :
          /\ disk' = DiskAfter(op, r)
          /\ fsReqs' = Append(fsReqs, FsDone(op, r))
          /\ owned' = OwnedAfter(owned, op, r)
          /\ UNCHANGED <<fsRefs, noopBuf>>
  BY DEF Sync, Given, DiskAfter, OwnedAfter
<1>2. Outcome(disk, op, r)
  BY <1>1, PerformOutcome DEF FileInv
<1>3. PICK req : req = FsDone(op, r)
  OBVIOUS
<1>4. req.st = "done" /\ ReqOK(req)
  BY <1>2, <1>3, DoneIsOK DEF Outcome
<1>5. ReqsOK(fsReqs')
  BY <1>1, <1>3, <1>4, ReqsGrow DEF FileInv
<1>6. Cardinality(PendingReqs(fsReqs')) = fsRefs
  <2>1. PICK k \in Nat : k = Cardinality(PendingReqs(fsReqs)) /\ k = fsRefs
    BY PendingIsFinite DEF FileInv, ReqsOK, IsSequence
  <2>2. Cardinality(PendingReqs(Append(fsReqs, req))) = k + 0
    BY <1>4, <2>1, PendingGrows DEF FileInv, ReqsOK
  <2> QED
    BY <1>1, <1>3, <2>1, <2>2
<1>7. DiskOK(disk') /\ owned' \in [Fd -> {0} \cup Inode] /\ HoldersOK(disk', owned', Append(fsReqs, req))
  BY <1>1, <1>2, <1>4, SyncHolds DEF FileInv, ReqsOK
<1> QED
  BY <1>1, <1>3, <1>5, <1>6, <1>7 DEF FileInv

\* A call with one.
LEMMA AsyncKeeps ==
    ASSUME FileInv, NEW op, OpOK(op), op.fn = "close" => owned[op.fd] # 0, Len(fsReqs) < FileMaxCalls,
           NEW cb \in {"own", "noop"}, ASYNC_CALL(op, cb)
    PROVE  FileInv'
<1>1. PICK req : req = [op |-> op, fn |-> op.fn, st |-> "queued", cb |-> cb]
  OBVIOUS
<1>2. req.op = op /\ req.fn = op.fn /\ req.st = "queued" /\ ReqOK(req)
  BY <1>1 DEF ReqOK, QueuedOK
<1>3. /\ fsReqs' = Append(fsReqs, req) /\ fsRefs' = fsRefs + 1 /\ disk' = disk
      /\ owned' = IF op.fn = "close" THEN [owned EXCEPT ![op.fd] = 0] ELSE owned
  BY <1>1 DEF ASYNC_CALL
<1>4. ReqsOK(fsReqs')
  BY <1>2, <1>3, ReqsGrow DEF FileInv
<1>5. Cardinality(PendingReqs(fsReqs')) = fsRefs'
  <2>1. PICK k \in Nat : k = Cardinality(PendingReqs(fsReqs)) /\ k = fsRefs
    BY PendingIsFinite DEF FileInv, ReqsOK, IsSequence
  <2>2. Cardinality(PendingReqs(Append(fsReqs, req))) = k + 1
    BY <1>2, <2>1, PendingGrows DEF FileInv, ReqsOK
  <2> QED
    BY <1>3, <2>1, <2>2
<1>6. owned' \in [Fd -> {0} \cup Inode] /\ HoldersOK(disk, owned', Append(fsReqs, req))
  BY <1>2, <1>3, AsyncHolds DEF FileInv, ReqsOK
<1>7. noopBuf' \in 0..FileMaxCalls
  <2>1. PICK n \in Nat : n = Len(fsReqs) /\ n < FileMaxCalls
    BY DEF FileInv, ReqsOK, IsSequence
  <2>2. noopBuf' = n + 1 \/ noopBuf' = noopBuf
    BY <2>1 DEF ASYNC_CALL
  <2> QED
    BY <2>1, <2>2, FileAssumption DEF FileInv
<1> QED
  BY <1>3, <1>4, <1>5, <1>6, <1>7 DEF FileInv

\* A call of the binding.
LEMMA CallKeeps ==
    ASSUME FileInv, NEW op, OpOK(op), op.fn = "close" => owned[op.fd] # 0, CallFs(op)
    PROVE  FileInv'
<1>1. Len(fsReqs) < FileMaxCalls
  BY DEF CallFs
<1>2. CASE Sync(op)
  BY <1>1, <1>2, SyncKeeps
<1>3. CASE ASYNC_CALL(op, "own")
  BY <1>1, <1>3, AsyncKeeps
<1>4. CASE ASYNC_CALL(op, "noop")
  BY <1>1, <1>4, AsyncKeeps
<1> QED
  BY <1>2, <1>3, <1>4 DEF CallFs

\* A thread of the pool makes the system call.
LEMMA ExecuteKeeps ==
    ASSUME FileInv, NEW i, EioExecute(i)
    PROVE  FileInv'
<1>1. PICK old : i \in 1..Len(fsReqs) /\ old = fsReqs[i] /\ old.st = "queued"
  BY DEF EioExecute
<1>2. QueuedOK(old)
  BY <1>1 DEF FileInv, ReqsOK, ReqOK
<1>3. PICK r \in Perform(disk, old.op) :
          /\ disk' = r.disk
          /\ fsReqs' = [fsReqs EXCEPT ![i] = [op |-> old.op, fn |-> old.fn, st |-> "executed", cb |-> old.cb,
                                               res |-> [err |-> r.err, val |-> r.val, at |-> r.at]]]
  BY <1>1 DEF EioExecute
<1>4. PICK req : req = [op |-> old.op, fn |-> old.fn, st |-> "executed", cb |-> old.cb,
                        res |-> [err |-> r.err, val |-> r.val, at |-> r.at]]
  OBVIOUS
<1>5. /\ req.op = old.op /\ req.fn = old.fn /\ req.st = "executed" /\ req.cb = old.cb
      /\ req.res.err = r.err /\ req.res.val = r.val /\ req.res.at = r.at
  BY <1>4
<1>6. Outcome(disk, old.op, r)
  BY <1>2, <1>3, PerformOutcome DEF FileInv, QueuedOK
<1>7. ReqOK(req)
  <2>1. QueuedOK(req)
    BY <1>2, <1>5 DEF QueuedOK
  <2>2. req.fn = "open" /\ ~req.res.err => req.res.val \in Fd
    BY <1>2, <1>5, <1>6 DEF Outcome, QueuedOK
  <2>3. req.res.err \in BOOLEAN /\ req.res.at \in Int /\ (MovesBytes(req.op) => Landed(req.res.at, req.op.asked))
    BY <1>5, <1>6 DEF Outcome, MovesBytes
  <2> QED
    BY <1>5, <2>1, <2>2, <2>3 DEF ReqOK, ExecutedOK
<1>8. IsSequence(fsReqs) /\ ReqsOK(fsReqs)
  BY DEF FileInv, ReqsOK
<1>9. fsReqs' = [fsReqs EXCEPT ![i] = req] /\ UNCHANGED <<fsRefs, owned, noopBuf>>
  BY <1>3, <1>4 DEF EioExecute
<1>10. ReqsOK(fsReqs')
  BY <1>1, <1>7, <1>8, <1>9, ReqsChange
<1>11. Cardinality(PendingReqs(fsReqs')) = fsRefs
  <2>1. PICK k \in Nat : k = Cardinality(PendingReqs(fsReqs)) /\ k = fsRefs
    BY <1>8, PendingIsFinite DEF FileInv, IsSequence
  <2>2. Cardinality(PendingReqs([fsReqs EXCEPT ![i] = req])) = k - 0
    BY <1>1, <1>5, <1>8, <2>1, PendingChanges
  <2> QED
    BY <1>9, <2>1, <2>2
<1>12. HoldersOK(disk', owned, fsReqs')
  <2>1. HoldersOK(disk, owned, fsReqs) /\ owned \in [Fd -> {0} \cup Inode]
    BY DEF FileInv
  <2>2. HoldersOK(r.disk, owned, [fsReqs EXCEPT ![i] = req])
    BY <1>1, <1>2, <1>5, <1>6, <1>8, <2>1, ExecuteHolds
  <2> QED
    BY <1>3, <1>9, <2>2
<1>13. DiskOK(disk')
  BY <1>3, <1>6 DEF Outcome
<1> QED
  BY <1>9, <1>10, <1>11, <1>12, <1>13 DEF FileInv

\* The callback of a request.
LEMMA AfterKeeps ==
    ASSUME FileInv, NEW i, AfterFs(i)
    PROVE  FileInv'
<1>1. PICK old : i \in 1..Len(fsReqs) /\ old = fsReqs[i] /\ old.st = "executed"
  BY DEF AfterFs
<1>2. ExecutedOK(old)
  BY <1>1 DEF FileInv, ReqsOK, ReqOK
<1>3. PICK opened \in BOOLEAN : opened = (old.fn = "open" /\ ~old.res.err)
  OBVIOUS
<1>4. PICK req : req = FsDone(old.op, old.res)
  OBVIOUS
<1>5. /\ fsRefs' = fsRefs - 1 /\ fsReqs' = [fsReqs EXCEPT ![i] = req] /\ noopBuf' = noopBuf
      /\ disk' = DiskCalled(disk, opened, old.res.val)
      /\ owned' = OwnedCalled(owned, disk, opened, old.res.val)
  BY <1>1, <1>3, <1>4 DEF AfterFs, After, DiskCalled, OwnedCalled
<1>6. req.st = "done" /\ ReqOK(req)
  BY <1>2, <1>4, DoneIsOK DEF ExecutedOK
<1>7. IsSequence(fsReqs) /\ ReqsOK(fsReqs)
  BY DEF FileInv, ReqsOK
<1>8. ReqsOK(fsReqs')
  BY <1>1, <1>5, <1>6, <1>7, ReqsChange
<1>9. Cardinality(PendingReqs(fsReqs')) = fsRefs'
  <2>1. PICK k \in Nat : k = Cardinality(PendingReqs(fsReqs)) /\ k = fsRefs
    BY <1>7, PendingIsFinite DEF FileInv, IsSequence
  <2>2. Cardinality(PendingReqs([fsReqs EXCEPT ![i] = req])) = k - 1
    BY <1>1, <1>6, <1>7, <2>1, PendingChanges
  <2> QED
    BY <1>5, <2>1, <2>2
<1>10. DiskOK(disk') /\ owned' \in [Fd -> {0} \cup Inode] /\ HoldersOK(disk', owned', fsReqs')
  <2>1. DiskOK(disk) /\ HoldersOK(disk, owned, fsReqs) /\ owned \in [Fd -> {0} \cup Inode]
    BY DEF FileInv
  <2>2. PICK more : more = [fsReqs EXCEPT ![i] = req]
    OBVIOUS
  <2>3. DiskOK(disk') /\ owned' \in [Fd -> {0} \cup Inode] /\ HoldersOK(disk', owned', more)
    BY <1>1, <1>2, <1>3, <1>5, <1>6, <1>7, <2>1, <2>2, AfterHolds
  <2> QED
    BY <1>5, <2>2, <2>3
<1> QED
  BY <1>5, <1>8, <1>9, <1>10 DEF FileInv

\* The functions that change files and descriptors ask for what there is.
LEMMA FileCallsKeep ==
    ASSUME FileInv,
           \/ FileClose \/ FileOpen \/ FileRead \/ FileWrite \/ Truncate \/ SendFile \/ Rename \/ Link \/ Unlink
    PROVE  FileInv'
<1>1. PICK n \in Nat : n = Len(fsReqs)
  BY DEF FileInv, ReqsOK, IsSequence
<1>2. CASE FileClose
  <2>1. PICK f \in Owned : CallFs([fn |-> "close", fd |-> f])
    BY <1>2 DEF FileClose
  <2>2. PICK op : op = [fn |-> "close", fd |-> f]
    OBVIOUS
  <2>3. OpOK(op) /\ op.fn = "close" /\ owned[op.fd] # 0
    BY <2>1, <2>2 DEF OpOK, Owned
  <2> QED
    BY <2>1, <2>2, <2>3, CallKeeps
<1>3. CASE FileOpen
  <2>1. PICK p \in FileName, w \in {"r", "w", "a"} : CallFs([fn |-> "open", path |-> p, flags |-> w])
    BY <1>3 DEF FileOpen
  <2>2. PICK op : op = [fn |-> "open", path |-> p, flags |-> w]
    OBVIOUS
  <2>3. OpOK(op) /\ op.fn # "close"
    BY <2>2 DEF OpOK
  <2> QED
    BY <2>1, <2>2, <2>3, CallKeeps
<1>4. CASE FileRead
  <2>1. PICK f \in Owned, p \in -1..MaxPosition :
            CallFs([fn |-> "read", fd |-> f, pos |-> GetOffset(p), asked |-> p, len |-> 2])
    BY <1>4 DEF FileRead
  <2>2. PICK op : op = [fn |-> "read", fd |-> f, pos |-> GetOffset(p), asked |-> p, len |-> 2]
    OBVIOUS
  <2>3. f \in Fd /\ p \in Int
    BY FileAssumption DEF Owned
  <2>4. OpOK(op) /\ op.fn # "close"
    BY <2>2, <2>3 DEF OpOK
  <2> QED
    BY <2>1, <2>2, <2>4, CallKeeps
<1>5. CASE FileWrite
  <2>1. PICK f \in Owned, p \in -1..MaxPosition :
            CallFs([fn |-> "write", fd |-> f, pos |-> GetOffset(p), asked |-> p, len |-> 2, byte |-> n + 1])
    BY <1>1, <1>5 DEF FileWrite
  <2>2. PICK op : op = [fn |-> "write", fd |-> f, pos |-> GetOffset(p), asked |-> p, len |-> 2, byte |-> n + 1]
    OBVIOUS
  <2>3. f \in Fd /\ p \in Int /\ n + 1 \in Nat
    BY FileAssumption DEF Owned
  <2>4. OpOK(op) /\ op.fn # "close"
    BY <2>2, <2>3 DEF OpOK
  <2> QED
    BY <2>1, <2>2, <2>4, CallKeeps
<1>6. CASE SendFile
  <2>1. PICK f \in Owned, g \in Owned, p \in 0..MaxPosition :
            CallFs([fn |-> "sendfile", fd |-> f, in |-> g, pos |-> p, asked |-> p, len |-> 1, byte |-> n + 1])
    BY <1>1, <1>6 DEF SendFile
  <2>2. PICK op : op = [fn |-> "sendfile", fd |-> f, in |-> g, pos |-> p, asked |-> p, len |-> 1, byte |-> n + 1]
    OBVIOUS
  <2>3. f \in Fd /\ g \in Fd /\ p \in Nat /\ n + 1 \in Nat
    BY FileAssumption DEF Owned
  <2>4. OpOK(op) /\ op.fn # "close"
    BY <2>2, <2>3 DEF OpOK
  <2> QED
    BY <2>1, <2>2, <2>4, CallKeeps
<1>7. CASE Truncate
  <2>1. PICK f \in Owned, l \in 0..1 : CallFs([fn |-> "truncate", fd |-> f, len |-> l])
    BY <1>7 DEF Truncate
  <2>2. PICK op : op = [fn |-> "truncate", fd |-> f, len |-> l]
    OBVIOUS
  <2>3. OpOK(op) /\ op.fn # "close"
    BY <2>2 DEF OpOK, Owned
  <2> QED
    BY <2>1, <2>2, <2>3, CallKeeps
<1>8. CASE Rename
  <2>1. PICK p \in FileName, t \in FileName : CallFs([fn |-> "rename", path |-> p, dest |-> t])
    BY <1>8 DEF Rename
  <2>2. PICK op : op = [fn |-> "rename", path |-> p, dest |-> t]
    OBVIOUS
  <2>3. OpOK(op) /\ op.fn # "close"
    BY <2>2 DEF OpOK
  <2> QED
    BY <2>1, <2>2, <2>3, CallKeeps
<1>9. CASE Link
  <2>1. PICK p \in FileName, t \in FileName : CallFs([fn |-> "link", path |-> p, dest |-> t])
    BY <1>9 DEF Link
  <2>2. PICK op : op = [fn |-> "link", path |-> p, dest |-> t]
    OBVIOUS
  <2>3. OpOK(op) /\ op.fn # "close"
    BY <2>2 DEF OpOK
  <2> QED
    BY <2>1, <2>2, <2>3, CallKeeps
<1>10. CASE Unlink
  <2>1. PICK p \in FileName : CallFs([fn |-> "unlink", path |-> p])
    BY <1>10 DEF Unlink
  <2>2. PICK op : op = [fn |-> "unlink", path |-> p]
    OBVIOUS
  <2>3. OpOK(op) /\ op.fn # "close"
    BY <2>2 DEF OpOK
  <2> QED
    BY <2>1, <2>2, <2>3, CallKeeps
<1> QED
  BY <1>2, <1>3, <1>4, <1>5, <1>6, <1>7, <1>8, <1>9, <1>10

\* The other functions.
PlainFns == {"fsync", "fdatasync", "stat", "lstat", "fstat", "symlink", "readlink", "rmdir", "mkdir", "readdir",
             "chmod", "chown"}

\* They ask for nothing that is in the model.
LEMMA PlainCallKeeps ==
    ASSUME FileInv, NEW fn \in PlainFns, PlainCall(fn)
    PROVE  FileInv'
<1>1. PICK op : op = [fn |-> fn]
  OBVIOUS
<1>2. op.fn \in PlainFns /\ CallFs(op)
  BY <1>1 DEF PlainCall
<1>3. OpOK(op) /\ op.fn # "close"
  BY <1>2 DEF OpOK, PlainFns
<1> QED
  BY <1>2, <1>3, CallKeeps

\* Files: the loop stays alive exactly for the requests that are out, every
\* descriptor that JavaScript has is the file that was opened for it, and no
\* other is open once all are answered, whatever the pool executes first;
\* bytes move at the position that was asked for.
THEOREM FilesAreSafe == FileSpec => []FileSafe
<1>1. FileInit => FileInv
  BY FileStarts
<1>2. FileInv /\ [FileNext]_fileVars => FileInv'
  <2>1. SUFFICES ASSUME FileInv, [FileNext]_fileVars PROVE FileInv'
    OBVIOUS
  <2>2. CASE \/ FileClose \/ FileOpen \/ FileRead \/ FileWrite \/ Truncate \/ SendFile \/ Rename \/ Link \/ Unlink
    BY <2>1, <2>2, FileCallsKeep
  <2>3. CASE \/ Fsync \/ Fdatasync \/ Stat \/ LStat \/ FStat \/ Symlink \/ ReadLink
             \/ RMDir \/ MKDir \/ ReadDir \/ Chmod \/ Chown
    <3>1. PICK fn \in PlainFns : PlainCall(fn)
      BY <2>3 DEF PlainFns, Fsync, Fdatasync, Stat, LStat, FStat, Symlink, ReadLink, RMDir, MKDir, ReadDir,
                  Chmod, Chown
    <3> QED
      BY <2>1, <3>1, PlainCallKeeps
  <2>4. CASE \E i \in 1..FileMaxCalls : EioExecute(i)
    BY <2>1, <2>4, ExecuteKeeps
  <2>5. CASE \E i \in 1..FileMaxCalls : AfterFs(i)
    BY <2>1, <2>5, AfterKeeps
  <2>6. CASE UNCHANGED fileVars
    BY <2>1, <2>6 DEF fileVars, FileInv
  <2> QED
    BY <2>1, <2>2, <2>3, <2>4, <2>5, <2>6 DEF FileNext
<1>3. FileInv => FileSafe
  <2>1. SUFFICES ASSUME FileInv PROVE FileSafe
    OBVIOUS
  <2>2. PICK n \in Nat : n = Len(fsReqs) /\ n <= FileMaxCalls
    BY <2>1 DEF FileInv, ReqsOK, IsSequence
  <2>3. \A i \in 1..n : ReqOK(fsReqs[i])
    BY <2>1, <2>2 DEF FileInv, ReqsOK
  <2>4. fsRefs \in 0..n /\ IsFiniteSet(PendingReqs(fsReqs)) /\ fsRefs = Cardinality(PendingReqs(fsReqs))
    BY <2>1, <2>2, PendingIsFinite DEF FileInv
  <2>5. FileTypeOK
    <3>1. /\ \A i \in Inode : Len(disk.data[i]) <= MaxSize
          /\ \A p \in FileName : disk.names[p] \in {0} \cup Inode
      BY <2>1 DEF FileInv, DiskOK, DiskRecs
    <3>2. \A f \in Fd : disk.fds[f].ino \in {0} \cup Inode /\ owned[f] \in {0} \cup Inode
      BY <2>1 DEF FileInv, DiskOK, DiskRecs, FdRecs
    <3>3. \A i \in 1..Len(fsReqs) : /\ fsReqs[i].st \in {"queued", "executed", "done"}
                                    /\ fsReqs[i].cb \in {"none", "own", "noop"}
      BY <2>2, <2>3 DEF ReqOK, QueuedOK, ExecutedOK, DoneOK
    <3>4. fsRefs \in 0..FileMaxCalls /\ noopBuf \in 0..FileMaxCalls
      BY <2>1, <2>2, <2>4, FileAssumption DEF FileInv
    <3> QED
      BY <3>1, <3>2, <3>3, <3>4 DEF FileTypeOK
  <2>6. RefsArePending
    BY <2>4 DEF RefsArePending, PendingReqs
  <2>7. OwnedStaysOpen
    BY <2>1 DEF FileInv, HoldersOK, HeldOnce, OwnedStaysOpen, Owned
  <2>8. NoFdLeaks
    <3>1. SUFFICES ASSUME fsRefs = 0, NEW f \in Fd PROVE disk.fds[f].ino = owned[f]
      BY DEF NoFdLeaks
    <3>2. PendingReqs(fsReqs) = {}
      BY <2>4, <3>1, FS_EmptySet
    <3>3. \A i \in 1..n : ~HoldsFd(fsReqs[i], f)
      BY <2>2, <3>2 DEF PendingReqs, HoldsFd
    <3>4. HeldOnce(f, disk.fds[f].ino, disk.fds[f].cloexec, owned[f], fsReqs)
      BY <2>1 DEF FileInv, HoldersOK
    <3> QED
      BY <2>2, <3>3, <3>4 DEF HeldOnce
  <2>9. LandsAtPosition
    <3>1. ASSUME NEW i \in 1..n, fsReqs[i].st = "done" PROVE DoneOK(fsReqs[i])
      BY <2>3, <3>1 DEF ReqOK
    <3> QED
      BY <2>2, <3>1 DEF LandsAtPosition, DoneOK, Landed
  <2> QED
    BY <2>5, <2>6, <2>7, <2>8, <2>9 DEF FileSafe
<1> QED
  BY <1>1, <1>2, <1>3, PTL DEF FileSpec

-----------------------------------------------------------------------------
(* Children on Windows. *)

\* The records of NodeChildWin32; what a command line looks like does not matter to the threads.
KidRecs ==
    [st : {"new", "spawned"}, refs : 0..1, did_start : BOOLEAN, kill_me : BOOLEAN, exit_signal : BOOLEAN,
     pid : {"undefined", "null", "number", "zero"}, handle : BOOLEAN, stdio : BOOLEAN, exits : 0..1,
     cmd : Command \cup {NoCommand}, arg : Argument \cup {<<>>},
     arguments : {QuoteCmdArg(arg) : arg \in Argument} \cup {<<>>},
     runs : {WalkPath(cmd)[SearchPath(cmd)] : cmd \in Command \cup {NoCommand}} \cup {<<>>},
     after : BOOLEAN, registered : BOOLEAN]

EioPlaces == {"none", "search", "enter", "create", "watch", "leave", "fails", "done"}

CsOwners == {Free, "eio"}

Lives == {"none", "running", "ended"}

WaiterRecs == [pc : {"idle"}] \cup [pc : {"wait"}, kid : Kid]

MainRecs == [pc : {"idle"}] \cup [pc : {"kill", "notify"}, kid : Kid]

SlotRecs == [lock : {Free, "taken"}, child : {Free} \cup Kid, sent : BOOLEAN, num_active : Nat, active : BOOLEAN]

\* Where the end of a child can be besides its own record.
WithWaiter(wt, k) == wt.pc = "wait" /\ wt.kid = k

InSlot(sl, k) == sl.sent /\ sl.child = k

Notified(mn, k) == mn.pc = "notify" /\ mn.kid = k

\* The end of a spawned child is in exactly one place; w, s and n say whether it is with the
\* wait thread, in the slot or in the main thread.
InOnePlace(q, e, w, s, n) ==
    /\ \/ e \in {"search", "enter", "create", "watch", "fails"}
       \/ e \in {"leave", "done"} /\ q.registered
       \/ w \/ s \/ n \/ q.exits = 1
    /\ e \in {"search", "enter", "create", "watch", "fails"} => ~w /\ ~s /\ ~n /\ q.exits = 0 /\ ~q.registered
    /\ q.registered => ~w /\ ~s /\ ~n /\ q.exits = 0
    /\ w => ~s /\ ~n /\ q.exits = 0
    /\ s => ~n /\ q.exits = 0
    /\ n => q.exits = 0

\* A child, the place of do_spawn, the owner of its critical section and its process fit.
KidFits(q, e, c, a, w, s, n) ==
    /\ (q.st = "new") <=> (e = "none")
    /\ e = "none" => q.refs = 0 /\ q.exits = 0 /\ ~q.registered /\ ~w /\ ~s /\ ~n /\ ~q.exit_signal
    /\ e # "none" => (q.refs = 1 <=> q.exits = 0) /\ InOnePlace(q, e, w, s, n)
    /\ e = "leave" => q.exits = 0
    /\ (c = "eio") <=> (e \in {"create", "watch", "leave"})
    /\ e \in {"none", "search", "enter", "create", "fails"} => a = "none"
    /\ q.did_start <=> (a # "none")
    /\ a = "running" => q.handle /\ (e = "watch" \/ q.registered)
    /\ q.exit_signal /\ ~q.did_start => q.kill_me
    /\ q.exit_signal => a # "running"

\* The slot is full exactly while the semaphore is taken.
SlotFits(sl) ==
    /\ sl \in SlotRecs
    /\ (sl.lock = Free) <=> ~sl.sent
    /\ sl.sent => sl.child \in Kid
    /\ sl.active <=> sl.num_active > 0

\* The children whose end the main thread has still to take from the slot.
AwaitedKids(kids, mn) == {k \in Kid : kids[k].refs = 1 /\ ~Notified(mn, k)}

\* What the threads keep between them.
Win32Inv ==
    /\ kid \in [Kid -> KidRecs]
    /\ win32Eio \in [Kid -> EioPlaces]
    /\ cs \in [Kid -> CsOwners]
    /\ alive \in [Kid -> Lives]
    /\ waiter \in WaiterRecs
    /\ win32Main \in MainRecs
    /\ SlotFits(slot)
    /\ slot.num_active = Cardinality(AwaitedKids(kid, win32Main))
    /\ win32Main.pc = "kill" => kid[win32Main.kid].st # "new"
    /\ \A k \in Kid : KidFits(kid[k], win32Eio[k], cs[k], alive[k],
                              WithWaiter(waiter, k), InSlot(slot, k), Notified(win32Main, k))

\* A step that changes one child, and leaves it with q, e, c and a.
Becomes(k, q, e, c, a) ==
    /\ kid' = [kid EXCEPT ![k] = q]
    /\ win32Eio' = [win32Eio EXCEPT ![k] = e]
    /\ cs' = [cs EXCEPT ![k] = c]
    /\ alive' = [alive EXCEPT ![k] = a]

\* One child changes: if it fits its surroundings again and the ends of the others are where
\* they were, the invariant is kept.
LEMMA KidChanges ==
    ASSUME Win32Inv, NEW k \in Kid,
           NEW q \in KidRecs, NEW e \in EioPlaces, NEW c \in CsOwners, NEW a \in Lives,
           Becomes(k, q, e, c, a),
           waiter' \in WaiterRecs, win32Main' \in MainRecs, SlotFits(slot'),
           slot'.num_active = Cardinality(AwaitedKids(kid', win32Main')),
           win32Main'.pc = "kill" => kid'[win32Main'.kid].st # "new",
           \A j \in Kid \ {k} : /\ WithWaiter(waiter', j) <=> WithWaiter(waiter, j)
                                /\ InSlot(slot', j) <=> InSlot(slot, j)
                                /\ Notified(win32Main', j) <=> Notified(win32Main, j),
           KidFits(q, e, c, a, WithWaiter(waiter', k), InSlot(slot', k), Notified(win32Main', k))
    PROVE  Win32Inv'
<1>1. /\ kid' \in [Kid -> KidRecs] /\ win32Eio' \in [Kid -> EioPlaces]
      /\ cs' \in [Kid -> CsOwners] /\ alive' \in [Kid -> Lives]
  BY DEF Win32Inv, Becomes
<1>2. ASSUME NEW j \in Kid
      PROVE  KidFits(kid'[j], win32Eio'[j], cs'[j], alive'[j],
                     WithWaiter(waiter', j), InSlot(slot', j), Notified(win32Main', j))
  <2>1. CASE j = k
    <3>1. kid'[j] = q /\ win32Eio'[j] = e /\ cs'[j] = c /\ alive'[j] = a
      BY <2>1 DEF Win32Inv, Becomes
    <3> QED
      BY <2>1, <3>1
  <2>2. CASE j # k
    <3>1. kid'[j] = kid[j] /\ win32Eio'[j] = win32Eio[j] /\ cs'[j] = cs[j] /\ alive'[j] = alive[j]
      BY <2>2 DEF Win32Inv, Becomes
    <3>2. KidFits(kid[j], win32Eio[j], cs[j], alive[j],
                  WithWaiter(waiter, j), InSlot(slot, j), Notified(win32Main, j))
      BY DEF Win32Inv
    <3>3. /\ WithWaiter(waiter', j) <=> WithWaiter(waiter, j)
          /\ InSlot(slot', j) <=> InSlot(slot, j)
          /\ Notified(win32Main', j) <=> Notified(win32Main, j)
      BY <2>2
    <3> QED
      BY <3>1, <3>2, <3>3 DEF KidFits, InOnePlace
  <2> QED
    BY <2>1, <2>2
<1> QED
  BY <1>1, <1>2 DEF Win32Inv

\* No child is there.
LEMMA Win32Starts == Win32Init => Win32Inv
<1>1. SUFFICES ASSUME Win32Init PROVE Win32Inv
  OBVIOUS
<1>2. PICK q \in KidRecs : /\ q = NewKid /\ q.st = "new" /\ q.refs = 0 /\ q.exits = 0 /\ ~q.registered
                           /\ ~q.exit_signal /\ ~q.did_start
  <2>1. NewKid \in KidRecs
    BY DEF NewKid, KidRecs
  <2>2. /\ NewKid.st = "new" /\ NewKid.refs = 0 /\ NewKid.exits = 0 /\ ~NewKid.registered
        /\ ~NewKid.exit_signal /\ ~NewKid.did_start
    BY DEF NewKid
  <2> QED
    BY <2>1, <2>2
<1>3. kid = [k \in Kid |-> q]
  BY <1>1, <1>2 DEF Win32Init
<1>4. waiter \in WaiterRecs /\ waiter.pc = "idle" /\ win32Main \in MainRecs /\ win32Main.pc = "idle"
  BY <1>1 DEF Win32Init, WaiterRecs, MainRecs
<1>5. SlotFits(slot) /\ ~slot.sent /\ slot.num_active = 0
  BY <1>1 DEF Win32Init, SlotFits, SlotRecs, Free
<1>6. AwaitedKids(kid, win32Main) = {}
  BY <1>2, <1>3 DEF AwaitedKids
<1>7. slot.num_active = Cardinality(AwaitedKids(kid, win32Main))
  BY <1>5, <1>6, FS_EmptySet
<1>8. ASSUME NEW k \in Kid
      PROVE  KidFits(kid[k], win32Eio[k], cs[k], alive[k],
                     WithWaiter(waiter, k), InSlot(slot, k), Notified(win32Main, k))
  <2>1. kid[k] = q /\ win32Eio[k] = "none" /\ cs[k] = Free /\ alive[k] = "none"
    BY <1>1, <1>3 DEF Win32Init
  <2> QED
    BY <1>2, <1>4, <1>5, <2>1 DEF KidFits, WithWaiter, InSlot, Notified, Free
<1>9. /\ kid \in [Kid -> KidRecs] /\ win32Eio \in [Kid -> EioPlaces]
      /\ cs \in [Kid -> CsOwners] /\ alive \in [Kid -> Lives]
  BY <1>1, <1>2, <1>3 DEF Win32Init, EioPlaces, CsOwners, Lives
<1> QED
  BY <1>3, <1>4, <1>5, <1>7, <1>8, <1>9 DEF Win32Inv

\* The children to wait for are the same if the changed one is held as before.
LEMMA AwaitedSame ==
    ASSUME Win32Inv, NEW k \in Kid, NEW q \in KidRecs, kid' = [kid EXCEPT ![k] = q],
           (q.refs = 1 /\ ~Notified(win32Main', k)) <=> (kid[k].refs = 1 /\ ~Notified(win32Main, k)),
           \A j \in Kid \ {k} : Notified(win32Main', j) <=> Notified(win32Main, j)
    PROVE  AwaitedKids(kid', win32Main') = AwaitedKids(kid, win32Main)
<1>1. kid'[k] = q /\ \A j \in Kid \ {k} : kid'[j] = kid[j]
  BY DEF Win32Inv
<1>2. ASSUME NEW j \in Kid
      PROVE  (kid'[j].refs = 1 /\ ~Notified(win32Main', j)) <=> (kid[j].refs = 1 /\ ~Notified(win32Main, j))
  BY <1>1
<1> QED
  BY <1>2 DEF AwaitedKids

\* A step of do_spawn, of the process or of after_spawn touches nothing that the threads share.
LEMMA OnlyKidChanges ==
    ASSUME Win32Inv, NEW k \in Kid,
           NEW q \in KidRecs, NEW e \in EioPlaces, NEW c \in CsOwners, NEW a \in Lives,
           Becomes(k, q, e, c, a),
           waiter' = waiter, win32Main' = win32Main, slot' = slot,
           q.refs = kid[k].refs, q.st = kid[k].st,
           KidFits(q, e, c, a, WithWaiter(waiter, k), InSlot(slot, k), Notified(win32Main, k))
    PROVE  Win32Inv'
<1>1. waiter' = waiter /\ win32Main' = win32Main /\ slot' = slot
  OBVIOUS
<1>2. /\ waiter' \in WaiterRecs /\ win32Main' \in MainRecs /\ SlotFits(slot')
  BY <1>1 DEF Win32Inv
<1>3. \A j \in Kid : /\ WithWaiter(waiter', j) <=> WithWaiter(waiter, j)
                     /\ InSlot(slot', j) <=> InSlot(slot, j)
                     /\ Notified(win32Main', j) <=> Notified(win32Main, j)
  BY <1>1
<1>4. slot'.num_active = Cardinality(AwaitedKids(kid', win32Main'))
  BY <1>1, <1>3, AwaitedSame DEF Win32Inv, Becomes
<1>5. win32Main'.pc = "kill" => kid'[win32Main'.kid].st # "new"
  BY <1>1 DEF Win32Inv, MainRecs, Becomes
<1>6. KidFits(q, e, c, a, WithWaiter(waiter', k), InSlot(slot', k), Notified(win32Main', k))
  BY <1>1
<1> QED
  BY <1>2, <1>3, <1>4, <1>5, <1>6, KidChanges

\* What the invariant says of one child, with names for its parts.
LEMMA KidNamed ==
    ASSUME Win32Inv, NEW k \in Kid
    PROVE  \E q \in KidRecs, e \in EioPlaces, c \in CsOwners, a \in Lives :
              /\ q = kid[k] /\ e = win32Eio[k] /\ c = cs[k] /\ a = alive[k]
              /\ KidFits(q, e, c, a, WithWaiter(waiter, k), InSlot(slot, k), Notified(win32Main, k))
              /\ kid = [kid EXCEPT ![k] = q] /\ win32Eio = [win32Eio EXCEPT ![k] = e]
              /\ cs = [cs EXCEPT ![k] = c] /\ alive = [alive EXCEPT ![k] = a]
BY DEF Win32Inv

\* do_spawn searches the path outside the critical section.
LEMMA SearchKeeps == ASSUME Win32Inv, NEW k \in Kid, Win32Search(k) PROVE Win32Inv'
<1>1. PICK q \in KidRecs, e \in EioPlaces, c \in CsOwners, a \in Lives :
          /\ q = kid[k] /\ e = win32Eio[k] /\ c = cs[k] /\ a = alive[k]
          /\ KidFits(q, e, c, a, WithWaiter(waiter, k), InSlot(slot, k), Notified(win32Main, k))
          /\ kid = [kid EXCEPT ![k] = q] /\ win32Eio = [win32Eio EXCEPT ![k] = e]
          /\ cs = [cs EXCEPT ![k] = c] /\ alive = [alive EXCEPT ![k] = a]
  BY KidNamed
<1>2. e = "search" /\ UNCHANGED <<kid, waiter, win32Main, cs, slot, alive>>
  BY <1>1 DEF Win32Search, Eio
<1>3. PICK f \in {"fails", "enter"} : win32Eio' = [win32Eio EXCEPT ![k] = f]
  BY DEF Win32Search, Eio
<1>4. f \in EioPlaces
  BY DEF EioPlaces
<1>5. KidFits(q, f, c, a, WithWaiter(waiter, k), InSlot(slot, k), Notified(win32Main, k))
  BY <1>1, <1>2 DEF KidFits, InOnePlace
<1>6. kid' = [kid EXCEPT ![k] = q] /\ cs' = [cs EXCEPT ![k] = c] /\ alive' = [alive EXCEPT ![k] = a]
  BY <1>1, <1>2
<1>7. Becomes(k, q, f, c, a)
  BY <1>1, <1>2, <1>3, <1>4, <1>5, <1>6 DEF Becomes
<1>8. waiter' = waiter /\ win32Main' = win32Main /\ slot' = slot /\ q = kid[k]
  BY <1>1, <1>2
<1> QED
  BY <1>3, <1>4, <1>5, <1>6, <1>7, <1>8, OnlyKidChanges

\* do_spawn enters the critical section.
LEMMA EnterKeeps == ASSUME Win32Inv, NEW k \in Kid, Enter(k) PROVE Win32Inv'
<1>1. PICK q \in KidRecs, e \in EioPlaces, c \in CsOwners, a \in Lives :
          /\ q = kid[k] /\ e = win32Eio[k] /\ c = cs[k] /\ a = alive[k]
          /\ KidFits(q, e, c, a, WithWaiter(waiter, k), InSlot(slot, k), Notified(win32Main, k))
          /\ kid = [kid EXCEPT ![k] = q] /\ win32Eio = [win32Eio EXCEPT ![k] = e]
          /\ cs = [cs EXCEPT ![k] = c] /\ alive = [alive EXCEPT ![k] = a]
  BY KidNamed
<1>2. e = "enter" /\ UNCHANGED <<kid, waiter, win32Main, slot, alive>>
  BY <1>1 DEF Enter, Eio
<1>3. win32Eio' = [win32Eio EXCEPT ![k] = "create"] /\ cs' = [cs EXCEPT ![k] = "eio"]
  BY DEF Enter, Eio
<1>4. "create" \in EioPlaces /\ "eio" \in CsOwners
  BY DEF EioPlaces, CsOwners
<1>5. KidFits(q, "create", "eio", a, WithWaiter(waiter, k), InSlot(slot, k), Notified(win32Main, k))
  BY <1>1, <1>2 DEF KidFits, InOnePlace
<1>6. kid' = [kid EXCEPT ![k] = q] /\ alive' = [alive EXCEPT ![k] = a]
  BY <1>1, <1>2
<1>7. Becomes(k, q, "create", "eio", a)
  BY <1>1, <1>2, <1>3, <1>4, <1>5, <1>6 DEF Becomes
<1>8. waiter' = waiter /\ win32Main' = win32Main /\ slot' = slot /\ q = kid[k]
  BY <1>1, <1>2
<1> QED
  BY <1>3, <1>4, <1>5, <1>6, <1>7, <1>8, OnlyKidChanges

\* do_spawn creates the process, unless kill_me says not to, or gives up.
LEMMA DoSpawnKeeps ==
    ASSUME Win32Inv, NEW k \in Kid, NEW success \in BOOLEAN, DoSpawn(k, success) PROVE Win32Inv'
<1>1. PICK q \in KidRecs, e \in EioPlaces, c \in CsOwners, a \in Lives :
          /\ q = kid[k] /\ e = win32Eio[k] /\ c = cs[k] /\ a = alive[k]
          /\ KidFits(q, e, c, a, WithWaiter(waiter, k), InSlot(slot, k), Notified(win32Main, k))
          /\ kid = [kid EXCEPT ![k] = q] /\ win32Eio = [win32Eio EXCEPT ![k] = e]
          /\ cs = [cs EXCEPT ![k] = c] /\ alive = [alive EXCEPT ![k] = a]
  BY KidNamed
<1>2. e = "create" /\ UNCHANGED <<waiter, win32Main, slot>>
  BY <1>1 DEF DoSpawn, Eio
<1>3. CASE success
  <2>1. /\ ~q.kill_me /\ win32Eio' = [win32Eio EXCEPT ![k] = "watch"]
        /\ alive' = [alive EXCEPT ![k] = "running"] /\ UNCHANGED cs
        /\ kid' = [kid EXCEPT ![k] = [q EXCEPT !.handle = TRUE, !.did_start = TRUE,
                                               !.runs = WalkPath(q.cmd)[SearchPath(q.cmd)]]]
    BY <1>1, <1>3 DEF DoSpawn, Eio, MayStart
  <2>2. PICK file : file = WalkPath(q.cmd)[SearchPath(q.cmd)]
    OBVIOUS
  <2>3. PICK q2 : q2 = [q EXCEPT !.handle = TRUE, !.did_start = TRUE, !.runs = file]
    OBVIOUS
  <2>4. file \in {WalkPath(cmd)[SearchPath(cmd)] : cmd \in Command \cup {NoCommand}} \cup {<<>>}
    BY <2>2 DEF KidRecs
  <2>5. q2 \in KidRecs /\ q2.handle /\ q2.did_start /\ q2.st = q.st /\ q2.refs = q.refs /\ q2.exits = q.exits
        /\ q2.registered = q.registered /\ q2.exit_signal = q.exit_signal /\ q2.kill_me = q.kill_me
    BY <2>3, <2>4 DEF KidRecs
  <2>6. "watch" \in EioPlaces /\ "running" \in Lives
    BY DEF EioPlaces, Lives
  <2>7. KidFits(q2, "watch", c, "running", WithWaiter(waiter, k), InSlot(slot, k), Notified(win32Main, k))
    BY <1>1, <1>2, <2>1, <2>5 DEF KidFits, InOnePlace
  <2>8. kid' = [kid EXCEPT ![k] = q2] /\ cs' = [cs EXCEPT ![k] = c]
    BY <1>1, <2>1, <2>2, <2>3
  <2>9. Becomes(k, q2, "watch", c, "running")
    BY <2>1, <2>8 DEF Becomes
  <2>10. waiter' = waiter /\ win32Main' = win32Main /\ slot' = slot /\ q = kid[k]
    BY <1>1, <1>2
  <2> QED
    BY <2>5, <2>6, <2>7, <2>9, <2>10, OnlyKidChanges
<1>4. CASE ~success
  <2>1. /\ win32Eio' = [win32Eio EXCEPT ![k] = "fails"] /\ cs' = [cs EXCEPT ![k] = Free] /\ UNCHANGED <<kid, alive>>
    BY <1>4 DEF DoSpawn, Eio
  <2>2. "fails" \in EioPlaces /\ Free \in CsOwners /\ Free # "eio"
    BY DEF EioPlaces, CsOwners, Free
  <2>3. KidFits(q, "fails", Free, a, WithWaiter(waiter, k), InSlot(slot, k), Notified(win32Main, k))
    BY <1>1, <1>2, <2>2 DEF KidFits, InOnePlace
  <2>4. kid' = [kid EXCEPT ![k] = q] /\ alive' = [alive EXCEPT ![k] = a]
    BY <1>1, <2>1
  <2>5. Becomes(k, q, "fails", Free, a)
    BY <2>1, <2>4 DEF Becomes
  <2>6. waiter' = waiter /\ win32Main' = win32Main /\ slot' = slot /\ q = kid[k]
    BY <1>1, <1>2
  <2> QED
    BY <2>2, <2>3, <2>5, <2>6, OnlyKidChanges
<1> QED
  BY <1>3, <1>4

\* watch registers the wait for the process.
LEMMA WatchKeeps == ASSUME Win32Inv, NEW k \in Kid, Watch(k) PROVE Win32Inv'
<1>1. PICK q \in KidRecs, e \in EioPlaces, c \in CsOwners, a \in Lives :
          /\ q = kid[k] /\ e = win32Eio[k] /\ c = cs[k] /\ a = alive[k]
          /\ KidFits(q, e, c, a, WithWaiter(waiter, k), InSlot(slot, k), Notified(win32Main, k))
          /\ kid = [kid EXCEPT ![k] = q] /\ win32Eio = [win32Eio EXCEPT ![k] = e]
          /\ cs = [cs EXCEPT ![k] = c] /\ alive = [alive EXCEPT ![k] = a]
  BY KidNamed
<1>2. e = "watch" /\ UNCHANGED <<waiter, win32Main, cs, slot, alive>>
  BY <1>1 DEF Watch, Eio
<1>3. PICK q2 : q2 = [q EXCEPT !.registered = TRUE]
  OBVIOUS
<1>4. q2 \in KidRecs /\ q2.registered /\ q2.st = q.st /\ q2.refs = q.refs /\ q2.exits = q.exits /\ q2.handle = q.handle
      /\ q2.did_start = q.did_start /\ q2.exit_signal = q.exit_signal /\ q2.kill_me = q.kill_me
  BY <1>3 DEF KidRecs
<1>5. win32Eio' = [win32Eio EXCEPT ![k] = "leave"] /\ kid' = [kid EXCEPT ![k] = q2]
  BY <1>1, <1>3 DEF Watch, Eio
<1>6. "leave" \in EioPlaces
  BY DEF EioPlaces
<1>7. KidFits(q2, "leave", c, a, WithWaiter(waiter, k), InSlot(slot, k), Notified(win32Main, k))
  BY <1>1, <1>2, <1>4 DEF KidFits, InOnePlace
<1>8. cs' = [cs EXCEPT ![k] = c] /\ alive' = [alive EXCEPT ![k] = a]
  BY <1>1, <1>2
<1>9. Becomes(k, q2, "leave", c, a)
  BY <1>1, <1>2, <1>4, <1>5, <1>6, <1>7, <1>8 DEF Becomes
<1>10. waiter' = waiter /\ win32Main' = win32Main /\ slot' = slot /\ q = kid[k]
  BY <1>1, <1>2
<1> QED
  BY <1>4, <1>5, <1>6, <1>7, <1>8, <1>9, <1>10, OnlyKidChanges

\* do_spawn leaves the critical section; the wait thread may already have been called.
LEMMA LeaveKeeps == ASSUME Win32Inv, NEW k \in Kid, Leave(k) PROVE Win32Inv'
<1>1. PICK q \in KidRecs, e \in EioPlaces, c \in CsOwners, a \in Lives :
          /\ q = kid[k] /\ e = win32Eio[k] /\ c = cs[k] /\ a = alive[k]
          /\ KidFits(q, e, c, a, WithWaiter(waiter, k), InSlot(slot, k), Notified(win32Main, k))
          /\ kid = [kid EXCEPT ![k] = q] /\ win32Eio = [win32Eio EXCEPT ![k] = e]
          /\ cs = [cs EXCEPT ![k] = c] /\ alive = [alive EXCEPT ![k] = a]
  BY KidNamed
<1>2. e = "leave" /\ UNCHANGED <<waiter, win32Main, slot, alive>>
  BY <1>1 DEF Leave, Eio
<1>3. PICK q2 : q2 = [q EXCEPT !.after = TRUE]
  OBVIOUS
<1>4. q2 \in KidRecs /\ q2.registered = q.registered /\ q2.st = q.st /\ q2.refs = q.refs /\ q2.exits = q.exits
      /\ q2.handle = q.handle /\ q2.did_start = q.did_start /\ q2.exit_signal = q.exit_signal /\ q2.kill_me = q.kill_me
  BY <1>3 DEF KidRecs
<1>5. /\ win32Eio' = [win32Eio EXCEPT ![k] = "done"] /\ cs' = [cs EXCEPT ![k] = Free]
      /\ kid' = [kid EXCEPT ![k] = q2]
  BY <1>1, <1>3 DEF Leave, Eio
<1>6. "done" \in EioPlaces /\ Free \in CsOwners /\ Free # "eio"
  BY DEF EioPlaces, CsOwners, Free
<1>7. KidFits(q2, "done", Free, a, WithWaiter(waiter, k), InSlot(slot, k), Notified(win32Main, k))
  BY <1>1, <1>2, <1>4, <1>6 DEF KidFits, InOnePlace
<1>8. alive' = [alive EXCEPT ![k] = a]
  BY <1>1, <1>2
<1>9. Becomes(k, q2, "done", Free, a)
  BY <1>1, <1>2, <1>4, <1>5, <1>6, <1>7, <1>8 DEF Becomes
<1>10. waiter' = waiter /\ win32Main' = win32Main /\ slot' = slot /\ q = kid[k]
  BY <1>1, <1>2
<1> QED
  BY <1>4, <1>5, <1>6, <1>7, <1>8, <1>9, <1>10, OnlyKidChanges

\* The process ends.
LEMMA ProcessEndsKeeps == ASSUME Win32Inv, NEW k \in Kid, ProcessEnds32(k) PROVE Win32Inv'
<1>1. PICK q \in KidRecs, e \in EioPlaces, c \in CsOwners, a \in Lives :
          /\ q = kid[k] /\ e = win32Eio[k] /\ c = cs[k] /\ a = alive[k]
          /\ KidFits(q, e, c, a, WithWaiter(waiter, k), InSlot(slot, k), Notified(win32Main, k))
          /\ kid = [kid EXCEPT ![k] = q] /\ win32Eio = [win32Eio EXCEPT ![k] = e]
          /\ cs = [cs EXCEPT ![k] = c] /\ alive = [alive EXCEPT ![k] = a]
  BY KidNamed
<1>2. a = "running" /\ alive' = [alive EXCEPT ![k] = "ended"] /\ "ended" \in Lives
      /\ UNCHANGED <<kid, win32Eio, waiter, win32Main, cs, slot>>
  BY <1>1 DEF ProcessEnds32, Lives
<1>3. KidFits(q, e, c, "ended", WithWaiter(waiter, k), InSlot(slot, k), Notified(win32Main, k))
  BY <1>1, <1>2 DEF KidFits, InOnePlace
<1>4. kid' = [kid EXCEPT ![k] = q] /\ win32Eio' = [win32Eio EXCEPT ![k] = e] /\ cs' = [cs EXCEPT ![k] = c]
  BY <1>1, <1>2
<1>5. Becomes(k, q, e, c, "ended")
  BY <1>1, <1>2, <1>3, <1>4 DEF Becomes
<1>6. waiter' = waiter /\ win32Main' = win32Main /\ slot' = slot /\ q = kid[k]
  BY <1>1, <1>2
<1> QED
  BY <1>3, <1>4, <1>2, <1>5, <1>6, OnlyKidChanges

\* after_spawn.
LEMMA AfterSpawnKeeps == ASSUME Win32Inv, NEW k \in Kid, AfterSpawn(k) PROVE Win32Inv'
<1>1. PICK q \in KidRecs, e \in EioPlaces, c \in CsOwners, a \in Lives :
          /\ q = kid[k] /\ e = win32Eio[k] /\ c = cs[k] /\ a = alive[k]
          /\ KidFits(q, e, c, a, WithWaiter(waiter, k), InSlot(slot, k), Notified(win32Main, k))
          /\ kid = [kid EXCEPT ![k] = q] /\ win32Eio = [win32Eio EXCEPT ![k] = e]
          /\ cs = [cs EXCEPT ![k] = c] /\ alive = [alive EXCEPT ![k] = a]
  BY KidNamed
<1>2. UNCHANGED <<win32Eio, waiter, win32Main, cs, slot, alive>>
  BY DEF AfterSpawn
<1>3. PICK p \in {"null", "number", "zero"} : kid' = [kid EXCEPT ![k] = [q EXCEPT !.after = FALSE, !.pid = p]]
  BY <1>1 DEF AfterSpawn
<1>4. PICK q2 : q2 = [q EXCEPT !.after = FALSE, !.pid = p]
  OBVIOUS
<1>5. q2 \in KidRecs /\ q2.registered = q.registered /\ q2.st = q.st /\ q2.refs = q.refs /\ q2.exits = q.exits
      /\ q2.handle = q.handle /\ q2.did_start = q.did_start /\ q2.exit_signal = q.exit_signal /\ q2.kill_me = q.kill_me
  BY <1>4 DEF KidRecs
<1>6. KidFits(q2, e, c, a, WithWaiter(waiter, k), InSlot(slot, k), Notified(win32Main, k))
  BY <1>1, <1>5 DEF KidFits, InOnePlace
<1>7. /\ kid' = [kid EXCEPT ![k] = q2] /\ win32Eio' = [win32Eio EXCEPT ![k] = e]
      /\ cs' = [cs EXCEPT ![k] = c] /\ alive' = [alive EXCEPT ![k] = a]
  BY <1>1, <1>2, <1>3, <1>4
<1>8. Becomes(k, q2, e, c, a)
  BY <1>1, <1>2, <1>5, <1>6, <1>7 DEF Becomes
<1>9. waiter' = waiter /\ win32Main' = win32Main /\ slot' = slot /\ q = kid[k]
  BY <1>1, <1>2
<1> QED
  BY <1>5, <1>6, <1>7, <1>8, <1>9, OnlyKidChanges

\* The places of the main thread, the wait thread and the slot, as the invariant has them.
LEMMA SharedNamed ==
    ASSUME Win32Inv
    PROVE  /\ waiter \in WaiterRecs /\ win32Main \in MainRecs /\ SlotFits(slot)
           /\ slot.num_active = Cardinality(AwaitedKids(kid, win32Main))
           /\ IsFiniteSet(AwaitedKids(kid, win32Main)) /\ AwaitedKids(kid, win32Main) \subseteq Kid
<1>1. AwaitedKids(kid, win32Main) \subseteq Kid
  BY DEF AwaitedKids
<1> QED
  BY <1>1, Win32Assumption, FS_Subset DEF Win32Inv

\* Spawn: one more child is awaited.
LEMMA SpawnWin32Keeps ==
    ASSUME Win32Inv, NEW k \in Kid, NEW cmd \in Command, NEW arg \in Argument, SpawnWin32(k, cmd, arg)
    PROVE  Win32Inv'
<1>1. PICK q \in KidRecs, e \in EioPlaces, c \in CsOwners, a \in Lives :
          /\ q = kid[k] /\ e = win32Eio[k] /\ c = cs[k] /\ a = alive[k]
          /\ KidFits(q, e, c, a, WithWaiter(waiter, k), InSlot(slot, k), Notified(win32Main, k))
          /\ kid = [kid EXCEPT ![k] = q] /\ win32Eio = [win32Eio EXCEPT ![k] = e]
          /\ cs = [cs EXCEPT ![k] = c] /\ alive = [alive EXCEPT ![k] = a]
  BY KidNamed
<1>2. win32Main.pc = "idle" /\ q.st = "new" /\ waiter' = waiter /\ win32Main' = win32Main /\ cs' = cs /\ alive' = alive
  BY <1>1 DEF SpawnWin32
<1>3. e = "none" /\ q.refs = 0
  BY <1>1, <1>2 DEF KidFits
<1>4. PICK line : line = QuoteCmdArg(arg)
  OBVIOUS
<1> PICK one \in 0..1 : one = 1
  OBVIOUS
<1>5. PICK q2 : q2 = [q EXCEPT !.st = "spawned", !.refs = one, !.stdio = TRUE, !.cmd = cmd, !.arg = arg, !.arguments = line]
  OBVIOUS
<1>6. line \in {QuoteCmdArg(x) : x \in Argument} \cup {<<>>}
  BY <1>4
<1>7. q2 \in KidRecs /\ q2.registered = q.registered /\ q2.st = "spawned" /\ q2.refs = one /\ q2.exits = q.exits
      /\ q2.handle = q.handle /\ q2.did_start = q.did_start /\ q2.exit_signal = q.exit_signal /\ q2.kill_me = q.kill_me
  BY <1>5, <1>6 DEF KidRecs
<1>8. kid' = [kid EXCEPT ![k] = q2] /\ win32Eio' = [win32Eio EXCEPT ![k] = "search"]
  <2>1. kid' = [kid EXCEPT ![k] = [q EXCEPT !.st = "spawned", !.refs = q.refs + 1, !.stdio = TRUE,
                                            !.cmd = cmd, !.arg = arg, !.arguments = line]]
    BY <1>1, <1>4 DEF SpawnWin32
  <2>2. q.refs + 1 = one
    BY <1>3
  <2> QED
    BY <1>5, <2>1, <2>2 DEF SpawnWin32
<1>9. Becomes(k, q2, "search", c, a) /\ "search" \in EioPlaces
  BY <1>1, <1>2, <1>8 DEF Becomes, EioPlaces
<1>10. PICK sl \in SlotRecs : sl = slot /\ SlotFits(sl)
  BY SharedNamed DEF SlotFits
<1>11. PICK n \in Nat : n = sl.num_active /\ n = Cardinality(AwaitedKids(kid, win32Main))
  BY <1>10, SharedNamed DEF SlotRecs
<1> PICK more \in Nat : more = n + 1
  OBVIOUS
<1>12. PICK sl2 : sl2 = [sl EXCEPT !.num_active = more, !.active = TRUE]
  OBVIOUS
<1>13. sl2 \in SlotRecs /\ sl2.num_active = more /\ sl2.active /\ sl2.lock = sl.lock /\ sl2.sent = sl.sent
       /\ sl2.child = sl.child
  BY <1>12 DEF SlotRecs
<1>14. slot' = sl2
  BY <1>10, <1>11, <1>12 DEF SpawnWin32
<1>15. SlotFits(slot') /\ \A j \in Kid : InSlot(slot', j) <=> InSlot(slot, j)
  BY <1>10, <1>13, <1>14 DEF SlotFits, InSlot
<1>16. KidFits(q2, "search", c, a, WithWaiter(waiter', k), InSlot(slot', k), Notified(win32Main', k))
  BY <1>1, <1>2, <1>3, <1>7, <1>15 DEF KidFits, InOnePlace
<1>17. slot'.num_active = Cardinality(AwaitedKids(kid', win32Main'))
  <2>1. k \notin AwaitedKids(kid, win32Main)
    BY <1>1, <1>3 DEF AwaitedKids
  <2>2. AwaitedKids(kid', win32Main') = AwaitedKids(kid, win32Main) \cup {k}
    <3>1. kid'[k] = q2 /\ \A j \in Kid \ {k} : kid'[j] = kid[j]
      BY <1>8 DEF Win32Inv
    <3>2. ASSUME NEW j \in Kid
          PROVE  (kid'[j].refs = 1 /\ ~Notified(win32Main', j)) <=> (j = k \/ (kid[j].refs = 1 /\ ~Notified(win32Main, j)))
      BY <1>2, <1>7, <3>1 DEF Notified
    <3> QED
      BY <3>2 DEF AwaitedKids
  <2> QED
    BY <1>11, <1>13, <1>14, <2>1, <2>2, SharedNamed, FS_AddElement
<1>18. waiter' \in WaiterRecs /\ win32Main' \in MainRecs /\ win32Main'.pc # "kill"
  BY <1>2, SharedNamed
<1>19. \A j \in Kid \ {k} : /\ WithWaiter(waiter', j) <=> WithWaiter(waiter, j)
                            /\ InSlot(slot', j) <=> InSlot(slot, j)
                            /\ Notified(win32Main', j) <=> Notified(win32Main, j)
  BY <1>2, <1>15
<1> QED
  BY <1>7, <1>9, <1>15, <1>16, <1>17, <1>18, <1>19, KidChanges

\* Only the main thread moves, and the ends it knows of are the same.
LEMMA MainMoves ==
    ASSUME Win32Inv, NEW k \in Kid, NEW q \in KidRecs, NEW a \in Lives,
           Becomes(k, q, win32Eio[k], cs[k], a), waiter' = waiter, slot' = slot,
           win32Main.pc \in {"idle", "kill"}, win32Main' \in MainRecs, win32Main'.pc \in {"idle", "kill"},
           win32Main'.pc = "kill" => win32Main'.kid = k /\ q.st # "new",
           q.refs = kid[k].refs,
           KidFits(q, win32Eio[k], cs[k], a, WithWaiter(waiter, k), InSlot(slot, k), Notified(win32Main, k))
    PROVE  Win32Inv'
<1>1. win32Eio[k] \in EioPlaces /\ cs[k] \in CsOwners
  BY DEF Win32Inv
<1>2. kid' = [kid EXCEPT ![k] = q] /\ kid'[k] = q
  BY DEF Becomes, Win32Inv
<1>3. \A j \in Kid : /\ WithWaiter(waiter', j) <=> WithWaiter(waiter, j)
                     /\ InSlot(slot', j) <=> InSlot(slot, j)
                     /\ Notified(win32Main', j) <=> Notified(win32Main, j)
  BY DEF Notified
<1>4. AwaitedKids(kid', win32Main') = AwaitedKids(kid, win32Main)
  BY <1>2, <1>3, AwaitedSame
<1>5. waiter' \in WaiterRecs /\ SlotFits(slot') /\ slot'.num_active = Cardinality(AwaitedKids(kid', win32Main'))
  BY <1>4, SharedNamed
<1>6. win32Main'.pc = "kill" => kid'[win32Main'.kid].st # "new"
  BY <1>2
<1>7. KidFits(q, win32Eio[k], cs[k], a, WithWaiter(waiter', k), InSlot(slot', k), Notified(win32Main', k))
  BY <1>3 DEF KidFits, InOnePlace
<1> QED
  BY <1>1, <1>3, <1>5, <1>6, <1>7, KidChanges

\* Kill goes for the critical section of the child.
LEMMA KillCallKeeps == ASSUME Win32Inv, NEW k \in Kid, KillCall(k) PROVE Win32Inv'
<1>1. PICK q \in KidRecs, e \in EioPlaces, c \in CsOwners, a \in Lives :
          /\ q = kid[k] /\ e = win32Eio[k] /\ c = cs[k] /\ a = alive[k]
          /\ KidFits(q, e, c, a, WithWaiter(waiter, k), InSlot(slot, k), Notified(win32Main, k))
          /\ kid = [kid EXCEPT ![k] = q] /\ win32Eio = [win32Eio EXCEPT ![k] = e]
          /\ cs = [cs EXCEPT ![k] = c] /\ alive = [alive EXCEPT ![k] = a]
  BY KidNamed
<1>2. /\ win32Main.pc = "idle" /\ q.st # "new" /\ waiter' = waiter /\ slot' = slot
      /\ win32Main' = [pc |-> "kill", kid |-> k] /\ UNCHANGED <<kid, win32Eio, cs, alive>>
  BY <1>1 DEF KillCall
<1>3. win32Main' \in MainRecs /\ win32Main'.pc = "kill" /\ win32Main'.kid = k
  BY <1>2 DEF MainRecs
<1>4. Becomes(k, q, win32Eio[k], cs[k], a)
  BY <1>1, <1>2 DEF Becomes
<1>5. q.refs = kid[k].refs /\ win32Main.pc \in {"idle", "kill"} /\ win32Main'.pc \in {"idle", "kill"}
  BY <1>1, <1>2, <1>3
<1>6. KidFits(q, win32Eio[k], cs[k], a, WithWaiter(waiter, k), InSlot(slot, k), Notified(win32Main, k))
  BY <1>1
<1> QED
  BY <1>2, <1>3, <1>4, <1>5, <1>6, MainMoves

\* do_kill: a process that runs ends, and one that does not yet is not going to.
LEMMA DoKillKeeps == ASSUME Win32Inv, DoKill PROVE Win32Inv'
<1>0. PICK k \in Kid : k = win32Main.kid /\ win32Main.pc = "kill" /\ kid[k].st # "new"
  BY DEF DoKill, Win32Inv, MainRecs
<1>1. PICK q \in KidRecs, e \in EioPlaces, c \in CsOwners, a \in Lives :
          /\ q = kid[k] /\ e = win32Eio[k] /\ c = cs[k] /\ a = alive[k]
          /\ KidFits(q, e, c, a, WithWaiter(waiter, k), InSlot(slot, k), Notified(win32Main, k))
          /\ kid = [kid EXCEPT ![k] = q] /\ win32Eio = [win32Eio EXCEPT ![k] = e]
          /\ cs = [cs EXCEPT ![k] = c] /\ alive = [alive EXCEPT ![k] = a]
  BY <1>0, KidNamed
<1>2. /\ c = Free /\ win32Main' = [pc |-> "idle"] /\ win32Eio' = win32Eio /\ waiter' = waiter /\ cs' = cs /\ slot' = slot
      /\ kid' = [kid EXCEPT ![k] = [q EXCEPT !.exit_signal = TRUE, !.kill_me = q.kill_me \/ ~q.did_start]]
      /\ alive' = IF q.did_start /\ q.handle /\ a = "running" THEN [alive EXCEPT ![k] = "ended"] ELSE alive
  BY <1>0, <1>1 DEF DoKill
<1>3. PICK q2 : q2 = [q EXCEPT !.exit_signal = TRUE, !.kill_me = q.kill_me \/ ~q.did_start]
  OBVIOUS
<1>4. q2 \in KidRecs /\ q2.registered = q.registered /\ q2.st = q.st /\ q2.refs = q.refs /\ q2.exits = q.exits
      /\ q2.handle = q.handle /\ q2.did_start = q.did_start /\ q2.exit_signal /\ (q2.kill_me <=> q.kill_me \/ ~q.did_start)
  BY <1>3 DEF KidRecs
<1>5. PICK b \in Lives : /\ b = IF q.did_start /\ q.handle /\ a = "running" THEN "ended" ELSE a
                         /\ alive' = [alive EXCEPT ![k] = b]
  BY <1>1, <1>2 DEF Lives
<1>6. Becomes(k, q2, win32Eio[k], cs[k], b)
  BY <1>1, <1>2, <1>3, <1>5 DEF Becomes
<1>7. KidFits(q2, win32Eio[k], cs[k], b, WithWaiter(waiter, k), InSlot(slot, k), Notified(win32Main, k))
  <2>1. e # "none"
    BY <1>0, <1>1 DEF KidFits
  <2>2. b # "running" /\ (b = "none" <=> a = "none")
    BY <1>1, <1>5 DEF KidFits
  <2>3. KidFits(q2, e, c, b, WithWaiter(waiter, k), InSlot(slot, k), Notified(win32Main, k))
    BY <1>1, <1>4, <2>1, <2>2 DEF KidFits, InOnePlace
  <2> QED
    BY <1>1, <2>3
<1>8. win32Main' \in MainRecs /\ win32Main'.pc = "idle"
  BY <1>2 DEF MainRecs
<1>9. q2.refs = kid[k].refs /\ win32Main.pc \in {"idle", "kill"} /\ win32Main'.pc \in {"idle", "kill"}
      /\ (win32Main'.pc = "kill" => win32Main'.kid = k /\ q2.st # "new")
  BY <1>0, <1>1, <1>4, <1>8
<1> QED
  BY <1>2, <1>4, <1>6, <1>7, <1>8, <1>9, MainMoves

\* The slot is filled: only by one thread, for the others find the semaphore taken.
LEMMA SlotFills ==
    ASSUME Win32Inv, NEW k \in Kid, slot.lock = Free, slot' = SendSlot(k)
    PROVE  /\ SlotFits(slot') /\ slot'.num_active = slot.num_active
           /\ \A j \in Kid : (InSlot(slot', j) <=> j = k) /\ ~InSlot(slot, j)
<1>1. PICK sl \in SlotRecs : sl = slot /\ SlotFits(sl)
  BY SharedNamed DEF SlotFits
<1>2. PICK sl2 : sl2 = [sl EXCEPT !.lock = "taken", !.child = k, !.sent = TRUE]
  OBVIOUS
<1>3. sl2 \in SlotRecs /\ sl2.lock = "taken" /\ sl2.child = k /\ sl2.sent /\ sl2.num_active = sl.num_active
      /\ sl2.active = sl.active
  BY <1>2 DEF SlotRecs
<1>4. slot' = sl2 /\ ~sl.sent
  BY <1>1, <1>2 DEF SendSlot, SlotFits
<1> QED
  BY <1>1, <1>3, <1>4 DEF SlotFits, InSlot, Free

\* A step of the wait thread or of a failed spawn leaves the main thread and the references
\* as they are.
LEMMA ReportMoves ==
    ASSUME Win32Inv, NEW k \in Kid, NEW q \in KidRecs, NEW e \in EioPlaces,
           Becomes(k, q, e, cs[k], alive[k]), win32Main' = win32Main, waiter' \in WaiterRecs,
           SlotFits(slot'), slot'.num_active = slot.num_active, q.refs = kid[k].refs, q.st = kid[k].st,
           \A j \in Kid \ {k} : /\ WithWaiter(waiter', j) <=> WithWaiter(waiter, j)
                                /\ InSlot(slot', j) <=> InSlot(slot, j),
           KidFits(q, e, cs[k], alive[k], WithWaiter(waiter', k), InSlot(slot', k), Notified(win32Main, k))
    PROVE  Win32Inv'
<1>1. cs[k] \in CsOwners /\ alive[k] \in Lives
  BY DEF Win32Inv
<1>2. kid' = [kid EXCEPT ![k] = q] /\ kid'[k] = q /\ \A j \in Kid \ {k} : kid'[j] = kid[j]
  BY DEF Becomes, Win32Inv
<1>3. AwaitedKids(kid', win32Main') = AwaitedKids(kid, win32Main)
  BY <1>2, AwaitedSame
<1>4. win32Main' \in MainRecs /\ slot'.num_active = Cardinality(AwaitedKids(kid', win32Main'))
  BY <1>3, SharedNamed
<1>5. win32Main'.pc = "kill" => kid'[win32Main'.kid].st # "new"
  BY <1>2 DEF Win32Inv, MainRecs
<1>6. KidFits(q, e, cs[k], alive[k], WithWaiter(waiter', k), InSlot(slot', k), Notified(win32Main', k))
  OBVIOUS
<1>7. \A j \in Kid \ {k} : /\ WithWaiter(waiter', j) <=> WithWaiter(waiter, j)
                           /\ InSlot(slot', j) <=> InSlot(slot, j)
                           /\ Notified(win32Main', j) <=> Notified(win32Main, j)
  OBVIOUS
<1> QED
  BY <1>1, <1>4, <1>5, <1>6, <1>7, KidChanges

\* notify_spawn_failure.
LEMMA SpawnFailureKeeps == ASSUME Win32Inv, NEW k \in Kid, NotifySpawnFailure(k) PROVE Win32Inv'
<1>1. PICK q \in KidRecs, e \in EioPlaces, c \in CsOwners, a \in Lives :
          /\ q = kid[k] /\ e = win32Eio[k] /\ c = cs[k] /\ a = alive[k]
          /\ KidFits(q, e, c, a, WithWaiter(waiter, k), InSlot(slot, k), Notified(win32Main, k))
          /\ kid = [kid EXCEPT ![k] = q] /\ win32Eio = [win32Eio EXCEPT ![k] = e]
          /\ cs = [cs EXCEPT ![k] = c] /\ alive = [alive EXCEPT ![k] = a]
  BY KidNamed
<1>2. /\ slot.lock = Free /\ e = "fails" /\ slot' = SendSlot(k) /\ win32Eio' = [win32Eio EXCEPT ![k] = "done"]
      /\ waiter' = waiter /\ win32Main' = win32Main /\ cs' = cs /\ alive' = alive
      /\ kid' = [kid EXCEPT ![k] = [[q EXCEPT !.stdio = FALSE] EXCEPT !.after = TRUE]]
  BY <1>1 DEF NotifySpawnFailure, Eio, CloseStdio
<1>3. PICK q1 : q1 = [q EXCEPT !.stdio = FALSE]
  OBVIOUS
<1>4. PICK q2 : q2 = [q1 EXCEPT !.after = TRUE]
  OBVIOUS
<1>5. q1 \in KidRecs /\ q1.registered = q.registered /\ q1.st = q.st /\ q1.refs = q.refs /\ q1.exits = q.exits
      /\ q1.handle = q.handle /\ q1.did_start = q.did_start /\ q1.exit_signal = q.exit_signal /\ q1.kill_me = q.kill_me
  BY <1>3 DEF KidRecs
<1>6. q2 \in KidRecs /\ q2.registered = q.registered /\ q2.st = q.st /\ q2.refs = q.refs /\ q2.exits = q.exits
      /\ q2.handle = q.handle /\ q2.did_start = q.did_start /\ q2.exit_signal = q.exit_signal /\ q2.kill_me = q.kill_me
  BY <1>4, <1>5 DEF KidRecs
<1>7. Becomes(k, q2, "done", cs[k], alive[k]) /\ "done" \in EioPlaces
  BY <1>1, <1>2, <1>3, <1>4 DEF Becomes, EioPlaces
<1>8. /\ SlotFits(slot') /\ slot'.num_active = slot.num_active
      /\ \A j \in Kid : (InSlot(slot', j) <=> j = k) /\ ~InSlot(slot, j)
  BY <1>2, SlotFills
<1>9. KidFits(q2, "done", c, a, WithWaiter(waiter', k), InSlot(slot', k), Notified(win32Main, k))
  BY <1>1, <1>2, <1>6, <1>8 DEF KidFits, InOnePlace
<1>10. waiter' \in WaiterRecs /\ win32Main' = win32Main /\ q2.refs = kid[k].refs /\ q2.st = kid[k].st
  BY <1>1, <1>2, <1>6, SharedNamed
<1>11. \A j \in Kid \ {k} : /\ WithWaiter(waiter', j) <=> WithWaiter(waiter, j)
                            /\ InSlot(slot', j) <=> InSlot(slot, j)
  BY <1>2, <1>8
<1> QED
  BY <1>1, <1>6, <1>7, <1>8, <1>9, <1>10, <1>11, ReportMoves

\* watch_wait_callback takes the end of the process.
LEMMA WaitCallbackKeeps == ASSUME Win32Inv, NEW k \in Kid, WaitCallback(k) PROVE Win32Inv'
<1>1. PICK q \in KidRecs, e \in EioPlaces, c \in CsOwners, a \in Lives :
          /\ q = kid[k] /\ e = win32Eio[k] /\ c = cs[k] /\ a = alive[k]
          /\ KidFits(q, e, c, a, WithWaiter(waiter, k), InSlot(slot, k), Notified(win32Main, k))
          /\ kid = [kid EXCEPT ![k] = q] /\ win32Eio = [win32Eio EXCEPT ![k] = e]
          /\ cs = [cs EXCEPT ![k] = c] /\ alive = [alive EXCEPT ![k] = a]
  BY KidNamed
<1>2. /\ waiter.pc = "idle" /\ q.registered /\ a = "ended" /\ waiter' = [pc |-> "wait", kid |-> k]
      /\ win32Eio' = win32Eio /\ win32Main' = win32Main /\ cs' = cs /\ slot' = slot /\ alive' = alive
      /\ kid' = [kid EXCEPT ![k] = [[q EXCEPT !.stdio = FALSE] EXCEPT !.registered = FALSE]]
  BY <1>1 DEF WaitCallback, CloseStdio
<1>3. PICK q1 : q1 = [q EXCEPT !.stdio = FALSE]
  OBVIOUS
<1>4. PICK q2 : q2 = [q1 EXCEPT !.registered = FALSE]
  OBVIOUS
<1>5. q1 \in KidRecs /\ q1.registered = q.registered /\ q1.st = q.st /\ q1.refs = q.refs /\ q1.exits = q.exits
      /\ q1.handle = q.handle /\ q1.did_start = q.did_start /\ q1.exit_signal = q.exit_signal /\ q1.kill_me = q.kill_me
  BY <1>3 DEF KidRecs
<1>6. q2 \in KidRecs /\ ~q2.registered /\ q2.st = q.st /\ q2.refs = q.refs /\ q2.exits = q.exits
      /\ q2.handle = q.handle /\ q2.did_start = q.did_start /\ q2.exit_signal = q.exit_signal /\ q2.kill_me = q.kill_me
  BY <1>4, <1>5 DEF KidRecs
<1>7. Becomes(k, q2, e, cs[k], alive[k])
  BY <1>1, <1>2, <1>3, <1>4 DEF Becomes
<1>8. waiter' \in WaiterRecs /\ \A j \in Kid : (WithWaiter(waiter', j) <=> j = k) /\ ~WithWaiter(waiter, j)
  BY <1>2 DEF WaiterRecs, WithWaiter
<1>9. KidFits(q2, e, c, a, WithWaiter(waiter', k), InSlot(slot', k), Notified(win32Main, k))
  BY <1>1, <1>2, <1>6, <1>8 DEF KidFits, InOnePlace
<1>10. SlotFits(slot') /\ slot'.num_active = slot.num_active /\ q2.refs = kid[k].refs /\ q2.st = kid[k].st
  BY <1>1, <1>2, <1>6, SharedNamed
<1>11. \A j \in Kid \ {k} : /\ WithWaiter(waiter', j) <=> WithWaiter(waiter, j)
                            /\ InSlot(slot', j) <=> InSlot(slot, j)
  BY <1>2, <1>8
<1> QED
  BY <1>1, <1>2, <1>6, <1>7, <1>8, <1>9, <1>10, <1>11, ReportMoves

\* watch_wait_callback fills the slot.
LEMMA WaitSendsKeeps == ASSUME Win32Inv, WaitSends PROVE Win32Inv'
<1>0. PICK k \in Kid : k = waiter.kid /\ waiter.pc = "wait"
  BY DEF WaitSends, Win32Inv, WaiterRecs
<1>1. PICK q \in KidRecs, e \in EioPlaces, c \in CsOwners, a \in Lives :
          /\ q = kid[k] /\ e = win32Eio[k] /\ c = cs[k] /\ a = alive[k]
          /\ KidFits(q, e, c, a, WithWaiter(waiter, k), InSlot(slot, k), Notified(win32Main, k))
          /\ kid = [kid EXCEPT ![k] = q] /\ win32Eio = [win32Eio EXCEPT ![k] = e]
          /\ cs = [cs EXCEPT ![k] = c] /\ alive = [alive EXCEPT ![k] = a]
  BY <1>0, KidNamed
<1>2. /\ slot.lock = Free /\ slot' = SendSlot(k) /\ waiter' = [pc |-> "idle"]
      /\ kid' = kid /\ win32Eio' = win32Eio /\ win32Main' = win32Main /\ cs' = cs /\ alive' = alive
  BY <1>0 DEF WaitSends
<1>3. Becomes(k, q, e, cs[k], alive[k])
  BY <1>1, <1>2 DEF Becomes
<1>4. /\ SlotFits(slot') /\ slot'.num_active = slot.num_active
      /\ \A j \in Kid : (InSlot(slot', j) <=> j = k) /\ ~InSlot(slot, j)
  BY <1>2, SlotFills
<1>5. /\ waiter' \in WaiterRecs /\ waiter'.pc = "idle"
      /\ \A j \in Kid : ~WithWaiter(waiter', j) /\ (WithWaiter(waiter, j) <=> j = k)
  BY <1>0, <1>2 DEF WaiterRecs, WithWaiter
<1>6. KidFits(q, e, c, a, WithWaiter(waiter', k), InSlot(slot', k), Notified(win32Main, k))
  BY <1>1, <1>4, <1>5 DEF KidFits, InOnePlace
<1>7. q.refs = kid[k].refs /\ q.st = kid[k].st
  BY <1>1
<1>8. \A j \in Kid \ {k} : /\ WithWaiter(waiter', j) <=> WithWaiter(waiter, j)
                           /\ InSlot(slot', j) <=> InSlot(slot, j)
  BY <1>4, <1>5
<1> QED
  BY <1>1, <1>2, <1>3, <1>4, <1>5, <1>6, <1>7, <1>8, ReportMoves

\* notify_exit empties the slot and no longer counts the child.
LEMMA NotifyExitKeeps == ASSUME Win32Inv, NotifyExit PROVE Win32Inv'
<1>0. PICK sl \in SlotRecs : sl = slot /\ SlotFits(sl) /\ sl.sent /\ sl.active /\ sl.child \in Kid
  BY SharedNamed DEF SlotFits, NotifyExit
<1> PICK k \in Kid : k = sl.child
  BY <1>0
<1>1. PICK q \in KidRecs, e \in EioPlaces, c \in CsOwners, a \in Lives :
          /\ q = kid[k] /\ e = win32Eio[k] /\ c = cs[k] /\ a = alive[k]
          /\ KidFits(q, e, c, a, WithWaiter(waiter, k), InSlot(slot, k), Notified(win32Main, k))
          /\ kid = [kid EXCEPT ![k] = q] /\ win32Eio = [win32Eio EXCEPT ![k] = e]
          /\ cs = [cs EXCEPT ![k] = c] /\ alive = [alive EXCEPT ![k] = a]
  BY KidNamed
<1>2. /\ win32Main.pc = "idle" /\ win32Main' = [pc |-> "notify", kid |-> k]
      /\ kid' = kid /\ win32Eio' = win32Eio /\ waiter' = waiter /\ cs' = cs /\ alive' = alive
  BY <1>0 DEF NotifyExit
<1>3. PICK n \in Nat : n = sl.num_active /\ n = Cardinality(AwaitedKids(kid, win32Main)) /\ n > 0
  BY <1>0, SharedNamed DEF SlotRecs, SlotFits
<1>4. PICK sl1 : sl1 = [sl EXCEPT !.num_active = n - 1, !.active = n > 1]
  OBVIOUS
<1>5. PICK sl2 : sl2 = [sl1 EXCEPT !.lock = Free, !.sent = FALSE]
  OBVIOUS
<1>6. slot' = sl2
  BY <1>0, <1>3, <1>4, <1>5 DEF NotifyExit, StopWatcher
<1>7. n - 1 \in Nat /\ (n > 1) \in BOOLEAN /\ (n > 1 <=> n - 1 > 0)
  BY <1>3
<1>8. sl1 \in SlotRecs /\ sl1.num_active = n - 1 /\ (sl1.active <=> n > 1)
  BY <1>4, <1>7 DEF SlotRecs
<1>9. sl2 \in SlotRecs /\ sl2.num_active = n - 1 /\ (sl2.active <=> n > 1) /\ sl2.lock = Free /\ ~sl2.sent
  BY <1>5, <1>8 DEF SlotRecs
<1>10. SlotFits(slot') /\ \A j \in Kid : ~InSlot(slot', j) /\ (InSlot(slot, j) <=> j = k)
  BY <1>0, <1>6, <1>7, <1>9 DEF SlotFits, InSlot
<1>11. win32Main' \in MainRecs /\ win32Main'.pc # "kill"
       /\ \A j \in Kid : (Notified(win32Main', j) <=> j = k) /\ ~Notified(win32Main, j)
  BY <1>2 DEF MainRecs, Notified
<1>12. e # "none" /\ q.refs = 1 /\ q.exits = 0
  BY <1>1, <1>10 DEF KidFits, InOnePlace
<1>13. KidFits(q, e, c, a, WithWaiter(waiter', k), InSlot(slot', k), Notified(win32Main', k))
  BY <1>1, <1>2, <1>10, <1>11, <1>12 DEF KidFits, InOnePlace
<1>14. slot'.num_active = Cardinality(AwaitedKids(kid', win32Main'))
  <2>1. k \in AwaitedKids(kid, win32Main)
    BY <1>1, <1>11, <1>12 DEF AwaitedKids
  <2>2. AwaitedKids(kid', win32Main') = AwaitedKids(kid, win32Main) \ {k}
    BY <1>2, <1>11 DEF AwaitedKids
  <2>3. Cardinality(AwaitedKids(kid, win32Main) \ {k}) = n - 1
    <3>1. PICK kids : kids = AwaitedKids(kid, win32Main)
      OBVIOUS
    <3>2. IsFiniteSet(kids) /\ k \in kids /\ Cardinality(kids) = n
      BY <1>3, <2>1, <3>1, SharedNamed
    <3>3. Cardinality(kids \ {k}) = n - 1
      BY <3>2, FS_RemoveElement
    <3> QED
      BY <3>1, <3>3
  <2> QED
    BY <1>6, <1>9, <2>2, <2>3
<1>15. Becomes(k, q, e, c, a)
  BY <1>1, <1>2 DEF Becomes
<1>16. waiter' \in WaiterRecs
  BY <1>2, SharedNamed
<1>17. \A j \in Kid \ {k} : /\ WithWaiter(waiter', j) <=> WithWaiter(waiter, j)
                            /\ InSlot(slot', j) <=> InSlot(slot, j)
                            /\ Notified(win32Main', j) <=> Notified(win32Main, j)
  BY <1>2, <1>10, <1>11
<1> QED
  BY <1>10, <1>11, <1>13, <1>14, <1>15, <1>16, <1>17, KidChanges

\* OnExit calls back and lets go of the child.
LEMMA OnExit32Keeps == ASSUME Win32Inv, OnExit32 PROVE Win32Inv'
<1>0. PICK k \in Kid : k = win32Main.kid /\ win32Main.pc = "notify"
  BY DEF OnExit32, Win32Inv, MainRecs
<1>1. PICK q \in KidRecs, e \in EioPlaces, c \in CsOwners, a \in Lives :
          /\ q = kid[k] /\ e = win32Eio[k] /\ c = cs[k] /\ a = alive[k]
          /\ KidFits(q, e, c, a, WithWaiter(waiter, k), InSlot(slot, k), Notified(win32Main, k))
          /\ kid = [kid EXCEPT ![k] = q] /\ win32Eio = [win32Eio EXCEPT ![k] = e]
          /\ cs = [cs EXCEPT ![k] = c] /\ alive = [alive EXCEPT ![k] = a]
  BY <1>0, KidNamed
<1>2. /\ win32Main' = [pc |-> "idle"] /\ c = Free
      /\ win32Eio' = win32Eio /\ waiter' = waiter /\ cs' = cs /\ slot' = slot /\ alive' = alive
      /\ kid' = [kid EXCEPT ![k] = [q EXCEPT !.handle = FALSE, !.refs = q.refs - 1, !.pid = "null", !.exits = q.exits + 1]]
  BY <1>0, <1>1 DEF OnExit32
<1>3. win32Main' \in MainRecs /\ win32Main'.pc = "idle"
      /\ \A j \in Kid : ~Notified(win32Main', j) /\ (Notified(win32Main, j) <=> j = k)
  BY <1>0, <1>2 DEF MainRecs, Notified
<1>4. q.refs = 1 /\ q.exits = 0 /\ a # "running"
  BY <1>1, <1>3 DEF KidFits, InOnePlace
<1> PICK zero \in 0..1, one \in 0..1 : zero = 0 /\ one = 1
  OBVIOUS
<1>5. q.refs - 1 = zero /\ q.exits + 1 = one
  BY <1>4
<1>6. PICK q2 : q2 = [q EXCEPT !.handle = FALSE, !.refs = zero, !.pid = "null", !.exits = one]
  OBVIOUS
<1>7. q2 \in KidRecs /\ q2.registered = q.registered /\ q2.st = q.st /\ q2.refs = zero /\ q2.exits = one
      /\ q2.did_start = q.did_start /\ q2.exit_signal = q.exit_signal /\ q2.kill_me = q.kill_me
  BY <1>6 DEF KidRecs
<1>8. kid' = [kid EXCEPT ![k] = q2]
  BY <1>2, <1>5, <1>6
<1>9. Becomes(k, q2, e, c, a)
  BY <1>1, <1>2, <1>8 DEF Becomes
<1>10. KidFits(q2, e, c, a, WithWaiter(waiter', k), InSlot(slot', k), Notified(win32Main', k))
  BY <1>1, <1>2, <1>3, <1>4, <1>7 DEF KidFits, InOnePlace, Free
<1>11. AwaitedKids(kid', win32Main') = AwaitedKids(kid, win32Main)
  <2>1. ~(q2.refs = 1) /\ kid[k] = q /\ Notified(win32Main, k)
    BY <1>1, <1>3, <1>7
  <2>2. \A j \in Kid \ {k} : Notified(win32Main', j) <=> Notified(win32Main, j)
    BY <1>3
  <2> QED
    BY <1>7, <1>8, <2>1, <2>2, AwaitedSame
<1>12. waiter' \in WaiterRecs /\ SlotFits(slot') /\ slot'.num_active = Cardinality(AwaitedKids(kid', win32Main'))
  BY <1>2, <1>11, SharedNamed
<1>13. \A j \in Kid \ {k} : /\ WithWaiter(waiter', j) <=> WithWaiter(waiter, j)
                            /\ InSlot(slot', j) <=> InSlot(slot, j)
                            /\ Notified(win32Main', j) <=> Notified(win32Main, j)
  BY <1>2, <1>3
<1>14. win32Main'.pc # "kill"
  BY <1>3
<1> QED
  BY <1>3, <1>7, <1>9, <1>10, <1>12, <1>13, <1>14, KidChanges

\* Exactly one of the places that EveryEndIsReported lists is taken.
LEMMA OneWay ==
    ASSUME NEW b \in [1..6 -> BOOLEAN], NEW i \in 1..6, b[i], \A j \in 1..6 : j # i => ~b[j]
    PROVE  Cardinality({j \in DOMAIN b : b[j]}) = 1
<1>1. {j \in DOMAIN b : b[j]} = {i}
  OBVIOUS
<1> QED
  BY <1>1, FS_Singleton

\* The slot that all threads share is never overwritten.
LEMMA EndsAreReported == ASSUME Win32Inv PROVE EveryEndIsReported
<1>1. SUFFICES ASSUME NEW k \in Kid, kid[k].st # "new"
               PROVE  LET ways == <<win32Eio[k] \in {"search", "enter", "create", "watch", "fails"},
                                    win32Eio[k] \in {"leave", "done"} /\ kid[k].registered,
                                    waiter.pc = "wait" /\ waiter.kid = k,
                                    slot.sent /\ slot.child = k,
                                    win32Main.pc = "notify" /\ win32Main.kid = k,
                                    kid[k].exits = 1>>
                      IN  Cardinality({i \in DOMAIN ways : ways[i]}) = 1
  BY DEF EveryEndIsReported
<1>2. PICK q \in KidRecs, e \in EioPlaces : /\ q = kid[k] /\ e = win32Eio[k] /\ e # "none"
                        /\ InOnePlace(q, e, WithWaiter(waiter, k), InSlot(slot, k), Notified(win32Main, k))
  BY <1>1 DEF Win32Inv, KidFits
<1> DEFINE b1 == e \in {"search", "enter", "create", "watch", "fails"}
           b2 == e \in {"leave", "done"} /\ q.registered
           b3 == WithWaiter(waiter, k)
           b4 == InSlot(slot, k)
           b5 == Notified(win32Main, k)
           b6 == q.exits = 1
           b == <<b1, b2, b3, b4, b5, b6>>
<1>3. b \in [1..6 -> BOOLEAN] /\ b[1] = b1 /\ b[2] = b2 /\ b[3] = b3 /\ b[4] = b4 /\ b[5] = b5 /\ b[6] = b6
  <2> b1 \in BOOLEAN /\ b2 \in BOOLEAN /\ b3 \in BOOLEAN /\ b4 \in BOOLEAN /\ b5 \in BOOLEAN /\ b6 \in BOOLEAN
    BY DEF KidRecs, WithWaiter, InSlot, Notified
  <2> HIDE DEF b1, b2, b3, b4, b5, b6
  <2> QED
    OBVIOUS
<1>4. /\ b1 \/ b2 \/ b3 \/ b4 \/ b5 \/ b6
      /\ b1 => ~b2 /\ ~b3 /\ ~b4 /\ ~b5 /\ ~b6
      /\ b2 => ~b3 /\ ~b4 /\ ~b5 /\ ~b6
      /\ b3 => ~b4 /\ ~b5 /\ ~b6
      /\ b4 => ~b5 /\ ~b6
      /\ b5 => ~b6
  BY <1>2 DEF InOnePlace
<1>5. Cardinality({i \in DOMAIN b : b[i]}) = 1
  <2> HIDE DEF b1, b2, b3, b4, b5, b6, b
  <2>1. \E i \in 1..6 : b[i] /\ \A j \in 1..6 : j # i => ~b[j]
    <3>1. \A j \in 1..6 : j = 1 \/ j = 2 \/ j = 3 \/ j = 4 \/ j = 5 \/ j = 6
      OBVIOUS
    <3>2. CASE b1
      <4>1. b[1] /\ ~b[2] /\ ~b[3] /\ ~b[4] /\ ~b[5] /\ ~b[6]
        BY <1>3, <1>4, <3>2
      <4> QED
        BY <3>1, <4>1
    <3>3. CASE b2
      <4>1. ~b[1] /\ b[2] /\ ~b[3] /\ ~b[4] /\ ~b[5] /\ ~b[6]
        BY <1>3, <1>4, <3>3
      <4> QED
        BY <3>1, <4>1
    <3>4. CASE b3
      <4>1. ~b[1] /\ ~b[2] /\ b[3] /\ ~b[4] /\ ~b[5] /\ ~b[6]
        BY <1>3, <1>4, <3>4
      <4> QED
        BY <3>1, <4>1
    <3>5. CASE b4
      <4>1. ~b[1] /\ ~b[2] /\ ~b[3] /\ b[4] /\ ~b[5] /\ ~b[6]
        BY <1>3, <1>4, <3>5
      <4> QED
        BY <3>1, <4>1
    <3>6. CASE b5
      <4>1. ~b[1] /\ ~b[2] /\ ~b[3] /\ ~b[4] /\ b[5] /\ ~b[6]
        BY <1>3, <1>4, <3>6
      <4> QED
        BY <3>1, <4>1
    <3>7. CASE b6
      <4>1. ~b[1] /\ ~b[2] /\ ~b[3] /\ ~b[4] /\ ~b[5] /\ b[6]
        BY <1>3, <1>4, <3>7
      <4> QED
        BY <3>1, <4>1
    <3> QED
      BY <1>4, <3>2, <3>3, <3>4, <3>5, <3>6, <3>7
  <2> QED
    BY <1>3, <2>1, OneWay
<1> QED
  BY <1>2, <1>5 DEF WithWaiter, InSlot, Notified

\* Children on Windows, for any number of them and every interleaving of the main thread, the
\* threads of the pool that spawn and the thread that waits: every end is reported once, the
\* loop is held for exactly the children whose end it has still to take, and no kill is lost.
THEOREM Win32ChildrenAreSafe == Win32Spec => []Win32Safe
<1>1. Win32Init => Win32Inv
  BY Win32Starts
<1>2. Win32Inv /\ [Win32Next]_win32Vars => Win32Inv'
  <2>1. SUFFICES ASSUME Win32Inv, [Win32Next]_win32Vars PROVE Win32Inv'
    OBVIOUS
  <2>2. CASE \E k \in Kid, cmd \in Command, arg \in Argument : SpawnWin32(k, cmd, arg)
    BY <2>1, <2>2, SpawnWin32Keeps
  <2>3. CASE \E k \in Kid : KillCall(k)
    BY <2>1, <2>3, KillCallKeeps
  <2>4. CASE \E k \in Kid : Win32Search(k) \/ Enter(k) \/ Watch(k) \/ Leave(k) \/ NotifySpawnFailure(k)
    BY <2>1, <2>4, SearchKeeps, EnterKeeps, WatchKeeps, LeaveKeeps, SpawnFailureKeeps
  <2>5. CASE \E k \in Kid, success \in BOOLEAN : DoSpawn(k, success)
    BY <2>1, <2>5, DoSpawnKeeps
  <2>6. CASE \E k \in Kid : ProcessEnds32(k) \/ WaitCallback(k) \/ AfterSpawn(k)
    BY <2>1, <2>6, ProcessEndsKeeps, WaitCallbackKeeps, AfterSpawnKeeps
  <2>7. CASE DoKill \/ WaitSends \/ NotifyExit \/ OnExit32
    BY <2>1, <2>7, DoKillKeeps, WaitSendsKeeps, NotifyExitKeeps, OnExit32Keeps
  <2>8. CASE UNCHANGED win32Vars
    BY <2>1, <2>8 DEF win32Vars, Win32Inv, KidFits, InOnePlace, SlotFits, WithWaiter, InSlot, Notified, AwaitedKids
  <2> QED
    BY <2>1, <2>2, <2>3, <2>4, <2>5, <2>6, <2>7, <2>8 DEF Win32Next
<1>3. Win32Inv => Win32Safe
  <2>1. SUFFICES ASSUME Win32Inv PROVE Win32Safe
    OBVIOUS
  <2>2. Win32TypeOK
    <3>1. \A k \in Kid : kid[k].refs \in 0..1 /\ kid[k].exits \in 0..1 /\ cs[k] \in {Free, "eio"}
      BY <2>1 DEF Win32Inv, KidRecs, CsOwners
    <3>2. slot.num_active \in 0..Cardinality(Kid)
      <4>1. PICK n \in Nat : n = Cardinality(AwaitedKids(kid, win32Main)) /\ n = slot.num_active
        BY <2>1, SharedNamed, FS_CardinalityType
      <4>2. PICK m \in Nat : m = Cardinality(Kid)
        BY Win32Assumption, FS_CardinalityType
      <4>3. n <= m
        BY <2>1, <4>1, <4>2, SharedNamed, Win32Assumption, FS_Subset
      <4> QED
        BY <4>1, <4>2, <4>3
    <3>3. slot.active <=> slot.num_active > 0
      BY <2>1 DEF Win32Inv, SlotFits
    <3>4. \A k \in Kid : win32Eio[k] \in {"none", "search", "enter", "create", "watch", "leave", "fails", "done"}
      BY <2>1 DEF Win32Inv, EioPlaces
    <3> QED
      BY <3>1, <3>2, <3>3, <3>4 DEF Win32TypeOK
  <2>3. EveryEndIsReported
    BY <2>1, EndsAreReported
  <2>4. WatcherCountsKids
    <3>1. slot.num_active =
              Cardinality({k \in Kid : kid[k].refs = 1 /\ ~(win32Main.pc = "notify" /\ win32Main.kid = k)})
      BY <2>1 DEF Win32Inv, AwaitedKids, Notified
    <3>2. ASSUME NEW k \in Kid, win32Eio[k] \notin {"none", "done"} PROVE kid[k].refs = 1
      <4>1. PICK q \in KidRecs, e \in EioPlaces, c \in CsOwners, a \in Lives :
                /\ q = kid[k] /\ e = win32Eio[k] /\ c = cs[k] /\ a = alive[k]
                /\ KidFits(q, e, c, a, WithWaiter(waiter, k), InSlot(slot, k), Notified(win32Main, k))
        BY <2>1 DEF Win32Inv
      <4>2. e # "leave" => q.refs = 1
        BY <3>2, <4>1 DEF KidFits, InOnePlace, EioPlaces
      <4>3. e = "leave" => q.refs = 1
        BY <4>1 DEF KidFits, InOnePlace
      <4> QED
        BY <4>1, <4>2, <4>3
    <3> QED
      BY <3>1, <3>2 DEF WatcherCountsKids
  <2>5. KillIsNotLost
    BY <2>1 DEF Win32Inv, KidFits, KillIsNotLost
  <2> QED
    BY <2>2, <2>3, <2>4, <2>5 DEF Win32Safe
<1> QED
  BY <1>1, <1>2, <1>3, PTL DEF Win32Spec
=============================================================================
