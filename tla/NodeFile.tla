------------------------------- MODULE NodeFile -------------------------------
(***************************************************************************)
(* The file binding of node v0.4.4, src/node_file.cc.  Every function has  *)
(* two forms.  Without a callback it makes the system call at once and     *)
(* returns its result or throws.  With a callback it hands a request to    *)
(* the thread pool of libeio, keeps the loop alive for it and returns;     *)
(* some thread makes the system call, in whatever order the threads take   *)
(* the requests, and After passes the result to the callback.              *)
(*                                                                         *)
(* The file system is modelled as far as the functions tell its states     *)
(* apart: names of files, files with bytes, and descriptors with a         *)
(* position.  A byte is the number of the call that wrote it.  A call that *)
(* neither opens, moves nor removes a file may succeed or fail.            *)
(***************************************************************************)
EXTENDS Integers, FiniteSets, Sequences

CONSTANTS
    FileName,     \* the names
    FileMaxCalls,     \* bound: calls of the binding
    MaxSize,      \* bound: bytes of a file; the disk is full then
    MaxInt32,     \* the largest position that is an int32
    MaxPosition,  \* bound: the largest position that is asked for
    MaxPlain      \* bound: only the first calls are ones that change nothing

ASSUME FileAssumption ==
    /\ FileMaxCalls \in Nat /\ MaxSize \in Nat \ {0}
    /\ MaxInt32 \in Nat /\ MaxPosition \in Nat /\ MaxPlain \in Nat

VARIABLES
    disk,     \* the file system and the descriptors of the process
    fsReqs,   \* the calls and requests to libeio, in the order they were made
    fsRefs,   \* how often ev_ref was called for them
    owned,    \* the descriptors that JavaScript was given, and their files
    noopBuf   \* the request whose buffer is the __buf of fs.js's noop

fileVars == <<disk, fsReqs, fsRefs, owned, noopBuf>>

Fd == {3, 4}
Inode == 1..3
NoFile == [ino |-> 0, pos |-> 0, flags |-> "r", cloexec |-> FALSE]

FileInit ==
    /\ disk = [names |-> [n \in FileName |-> 0], data |-> [i \in Inode |-> <<>>], fds |-> [f \in Fd |-> NoFile]]
    /\ fsReqs = <<>>
    /\ fsRefs = 0
    /\ owned = [f \in Fd |-> 0]
    /\ noopBuf = 0

-----------------------------------------------------------------------------
(* The system calls: what each does to the disk and what it returns. *)

SysFails(d) == [disk |-> d, err |-> TRUE, val |-> 0, at |-> -1]
SysGives(d, v) == [disk |-> d, err |-> FALSE, val |-> v, at |-> -1]

\* A file lives as long as it has a name or a descriptor.
FreeInodes(d) == {i \in Inode : (\A n \in FileName : d.names[n] # i) /\ \A f \in Fd : d.fds[f].ino # i}

FreeFds(d) == {f \in Fd : d.fds[f].ino = 0}

Least(S) == CHOOSE x \in S : \A y \in S : x <= y

SysOpen(d, op) ==
    LET new == d.names[op.path] = 0
        i == IF new THEN Least(FreeInodes(d)) ELSE d.names[op.path]
        f == Least(FreeFds(d))
    IN  IF FreeFds(d) = {} \/ (new /\ (op.flags = "r" \/ FreeInodes(d) = {})) THEN SysFails(d)
        ELSE SysGives([d EXCEPT !.names[op.path] = i,
                             !.data[i] = IF new \/ op.flags = "w" THEN <<>> ELSE @,
                             !.fds[f] = [ino |-> i, pos |-> 0, flags |-> op.flags, cloexec |-> FALSE]], f)

SysClose(d, op) ==
    IF d.fds[op.fd].ino = 0 THEN SysFails(d) ELSE SysGives([d EXCEPT !.fds[op.fd] = NoFile], 0)

\* write, and pwrite when there is a position.  What is written to a file
\* that was opened for appending goes to its end, at no position of the caller.
SysWrite(d, op) ==
    LET f == d.fds[op.fd]
        data == d.data[f.ino]
        at == IF f.flags = "a" THEN Len(data) ELSE IF op.pos < 0 THEN f.pos ELSE op.pos
        end == IF at + op.len < MaxSize THEN at + op.len ELSE MaxSize
        size == IF end > Len(data) THEN end ELSE Len(data)
        byte(k) == IF k \in at + 1..end THEN op.byte ELSE IF k <= Len(data) THEN data[k] ELSE 0
        moved == IF op.pos < 0 THEN [d EXCEPT !.fds[op.fd].pos = end] ELSE d
    IN  IF f.ino = 0 \/ f.flags = "r" \/ at >= MaxSize THEN SysFails(d)
        ELSE [SysGives([moved EXCEPT !.data[f.ino] = [k \in 1..size |-> byte(k)]], end - at) EXCEPT !.at = IF f.flags = "a" THEN -1 ELSE at]

SysRead(d, op) ==
    LET f == d.fds[op.fd]
        at == IF op.pos < 0 THEN f.pos ELSE op.pos
        size == Len(d.data[f.ino])
        bytes == SubSeq(d.data[f.ino], at + 1, IF at + op.len < size THEN at + op.len ELSE size)
        moved == IF op.pos < 0 THEN [d EXCEPT !.fds[op.fd].pos = @ + Len(bytes)] ELSE d
    IN  IF f.ino = 0 \/ f.flags # "r" THEN SysFails(d) ELSE [SysGives(moved, bytes) EXCEPT !.at = at]

SysTruncate(d, op) ==
    LET f == d.fds[op.fd]
        data == d.data[f.ino]
    IN  IF f.ino = 0 \/ f.flags = "r" THEN SysFails(d)
        ELSE SysGives([d EXCEPT !.data[f.ino] = [k \in 1..op.len |-> IF k <= Len(data) THEN data[k] ELSE 0]], 0)

\* sendfile reads at its own offset and writes at the position of the other.
SysSendFile(d, op) ==
    LET read == SysRead(d, [fd |-> op.in, pos |-> op.pos, len |-> op.len]) IN
    IF read.err THEN SysFails(d)
    ELSE IF read.val = <<>> THEN SysGives(d, 0)
    ELSE [SysWrite(d, [fd |-> op.fd, pos |-> -1, len |-> Len(read.val), byte |-> op.byte]) EXCEPT !.at = op.pos]

SysRename(d, op) ==
    IF d.names[op.path] = 0 THEN SysFails(d)
    ELSE IF d.names[op.path] = d.names[op.dest] THEN SysGives(d, 0)
    ELSE SysGives([d EXCEPT !.names[op.dest] = d.names[op.path], !.names[op.path] = 0], 0)

SysLink(d, op) ==
    IF d.names[op.path] = 0 \/ d.names[op.dest] # 0 THEN SysFails(d)
    ELSE SysGives([d EXCEPT !.names[op.dest] = d.names[op.path]], 0)

SysUnlink(d, op) ==
    IF d.names[op.path] = 0 THEN SysFails(d) ELSE SysGives([d EXCEPT !.names[op.path] = 0], 0)

\* The outcomes of a system call.
Perform(d, op) ==
    CASE op.fn = "open" -> {SysOpen(d, op)}
      [] op.fn = "close" -> {SysClose(d, op)}
      [] op.fn = "read" -> {SysRead(d, op)}
      [] op.fn = "write" -> {SysWrite(d, op)}
      [] op.fn = "truncate" -> {SysTruncate(d, op)}
      [] op.fn = "sendfile" -> {SysSendFile(d, op)}
      [] op.fn = "rename" -> {SysRename(d, op)}
      [] op.fn = "link" -> {SysLink(d, op)}
      [] op.fn = "unlink" -> {SysUnlink(d, op)}
      [] OTHER -> {SysFails(d), SysGives(d, 0)}

-----------------------------------------------------------------------------
(* Requests. *)

FileSetCloseOnExec(d, f) == [d EXCEPT !.fds[f].cloexec = TRUE]

\* A finished call: what is left of it are the facts the properties need.
FsDone(op, r) ==
    [st |-> "done", cb |-> "none", asked |-> IF op.fn \in {"read", "write", "sendfile"} THEN op.asked ELSE -1,
     at |-> r.at]

\* JavaScript gets a descriptor.
Given(op, r) == IF op.fn = "open" /\ ~r.err THEN [owned EXCEPT ![r.val] = r.disk.fds[r.val].ino] ELSE owned

\* Without a callback: the system call, and its result or an exception.
Sync(op) ==
    \E r \in Perform(disk, op) :
        /\ disk' = IF op.fn = "open" /\ ~r.err THEN FileSetCloseOnExec(r.disk, r.val) ELSE r.disk
        /\ fsReqs' = Append(fsReqs, FsDone(op, r))
        /\ owned' = IF op.fn = "close" THEN [owned EXCEPT ![op.fd] = 0] ELSE Given(op, r)
        /\ UNCHANGED <<fsRefs, noopBuf>>

\* With a callback: a request, for which the loop is referenced.  The
\* callback is a function of the caller or, when the caller gives none, the
\* noop of fs.js; the buffer of a read or a write becomes its __buf.
ASYNC_CALL(op, cb) ==
    /\ fsReqs' = Append(fsReqs, [op |-> op, fn |-> op.fn, st |-> "queued", cb |-> cb])
    /\ fsRefs' = fsRefs + 1
    /\ noopBuf' = IF cb = "noop" THEN Len(fsReqs) + 1 ELSE noopBuf
    /\ owned' = IF op.fn = "close" THEN [owned EXCEPT ![op.fd] = 0] ELSE owned
    /\ UNCHANGED disk

CallFs(op) ==
    /\ Len(fsReqs) < FileMaxCalls
    /\ \/ Sync(op)
       \/ ASYNC_CALL(op, "own")
       \/ op.fn \in {"read", "write"} /\ ASYNC_CALL(op, "noop")

\* A thread of libeio makes the system call of a request.
EioExecute(i) ==
    /\ i \in 1..Len(fsReqs) /\ fsReqs[i].st = "queued"
    /\ LET req == fsReqs[i] IN
       \E r \in Perform(disk, req.op) :
         /\ disk' = r.disk
         /\ fsReqs' = [fsReqs EXCEPT ![i] = [op |-> req.op, fn |-> req.fn, st |-> "executed", cb |-> req.cb,
                                              res |-> [err |-> r.err, val |-> r.val, at |-> r.at]]]
    /\ UNCHANGED <<fsRefs, owned, noopBuf>>

After_NoValue(i) ==
    LET req == fsReqs[i] IN
    /\ fsRefs' = fsRefs - 1
    /\ disk' = IF req.fn = "open" /\ ~req.res.err THEN FileSetCloseOnExec(disk, req.res.val) ELSE disk
    /\ fsReqs' = [fsReqs EXCEPT ![i] = FsDone(req.op, req.res)]
    /\ UNCHANGED <<owned, noopBuf>>

\* The callback of a request that was executed.
After(i) ==
    LET req == fsReqs[i]
        opened == req.fn = "open" /\ ~req.res.err
    IN  /\ fsRefs' = fsRefs - 1
        /\ disk' = IF opened THEN FileSetCloseOnExec(disk, req.res.val) ELSE disk
        /\ owned' = IF opened THEN [owned EXCEPT ![req.res.val] = disk.fds[req.res.val].ino] ELSE owned
        /\ fsReqs' = [fsReqs EXCEPT ![i] = FsDone(req.op, req.res)]
        /\ UNCHANGED noopBuf

AfterFs(i) == i \in 1..Len(fsReqs) /\ fsReqs[i].st = "executed" /\ After(i)

-----------------------------------------------------------------------------
(* The functions of the binding. *)

Owned == {f \in Fd : owned[f] # 0}

\* GET_OFFSET: a position that is no int32 is none, and the call is for the
\* current position.  -1 stands for the null of the caller.
GetOffset(pos) == IF pos \in 0..MaxInt32 THEN pos ELSE -1

FileClose == \E f \in Owned : CallFs([fn |-> "close", fd |-> f])

FileOpen == \E n \in FileName, w \in {"r", "w", "a"} : CallFs([fn |-> "open", path |-> n, flags |-> w])

FileWrite ==
    \E f \in Owned, p \in -1..MaxPosition :
        CallFs([fn |-> "write", fd |-> f, pos |-> GetOffset(p), asked |-> p, len |-> 2, byte |-> Len(fsReqs) + 1])

FileRead ==
    \E f \in Owned, p \in -1..MaxPosition :
        CallFs([fn |-> "read", fd |-> f, pos |-> GetOffset(p), asked |-> p, len |-> 2])

\* The offset of sendfile is a uint32 and no current position.
SendFile ==
    \E f \in Owned, g \in Owned, p \in 0..MaxPosition :
        CallFs([fn |-> "sendfile", fd |-> f, in |-> g, pos |-> p, asked |-> p, len |-> 1, byte |-> Len(fsReqs) + 1])

Truncate == \E f \in Owned, l \in 0..1 : CallFs([fn |-> "truncate", fd |-> f, len |-> l])

Rename == \E n \in FileName, t \in FileName : CallFs([fn |-> "rename", path |-> n, dest |-> t])

Link == \E n \in FileName, t \in FileName : CallFs([fn |-> "link", path |-> n, dest |-> t])

Unlink == \E n \in FileName : CallFs([fn |-> "unlink", path |-> n])

\* Calls that change no file and no descriptor of the model.
PlainCall(fn) == Len(fsReqs) < MaxPlain /\ CallFs([fn |-> fn])

Fsync == Owned # {} /\ PlainCall("fsync")
Fdatasync == Owned # {} /\ PlainCall("fdatasync")
FStat == Owned # {} /\ PlainCall("fstat")
Stat == PlainCall("stat")
LStat == PlainCall("lstat")
Symlink == PlainCall("symlink")
ReadLink == PlainCall("readlink")
RMDir == PlainCall("rmdir")
MKDir == PlainCall("mkdir")
ReadDir == PlainCall("readdir")
Chmod == PlainCall("chmod")
Chown == PlainCall("chown")

FileNext ==
    \/ FileClose \/ FileOpen \/ FileRead \/ FileWrite \/ Truncate \/ SendFile \/ Rename \/ Link \/ Unlink
    \/ Fsync \/ Fdatasync \/ Stat \/ LStat \/ FStat \/ Symlink \/ ReadLink
    \/ RMDir \/ MKDir \/ ReadDir \/ Chmod \/ Chown
    \/ \E i \in 1..FileMaxCalls : EioExecute(i) \/ AfterFs(i)

FileSpec == FileInit /\ [][FileNext]_fileVars

-----------------------------------------------------------------------------
(* Properties. *)

\* Types.
FileTypeOK ==
    /\ \A i \in Inode : Len(disk.data[i]) <= MaxSize
    /\ \A n \in FileName : disk.names[n] \in {0} \cup Inode
    /\ \A f \in Fd : disk.fds[f].ino \in {0} \cup Inode /\ owned[f] \in {0} \cup Inode
    /\ \A i \in 1..Len(fsReqs) : fsReqs[i].st \in {"queued", "executed", "done"} /\ fsReqs[i].cb \in {"none", "own", "noop"}
    /\ fsRefs \in 0..FileMaxCalls /\ noopBuf \in 0..FileMaxCalls

\* The loop stays alive exactly for the requests whose callbacks were not yet
\* called, whether they succeed or fail.
RefsArePending == fsRefs = Cardinality({i \in 1..Len(fsReqs) : fsReqs[i].st # "done"})

\* A descriptor that JavaScript was given, by open or by the callback, and
\* did not ask to close is open, is the file that was opened, whatever was
\* renamed, unlinked or closed since, and is closed in spawned processes.
OwnedStaysOpen == \A f \in Owned : disk.fds[f].ino = owned[f] /\ disk.fds[f].cloexec

\* Nothing stays open that JavaScript does not know of, once all the
\* requests are answered.
NoFdLeaks == fsRefs = 0 => \A f \in Fd : disk.fds[f].ino = owned[f]

\* A read or a write that was asked for a position within an int32 happens
\* there, position 0 included, unless the descriptor is open for appending by
\* then; one without a position happens at the current one.
LandsAtPosition ==
    \A i \in 1..Len(fsReqs) :
        fsReqs[i].st = "done" /\ fsReqs[i].at >= 0 /\ fsReqs[i].asked \in 0..MaxInt32 => fsReqs[i].at = fsReqs[i].asked

\* File operations: the loop waits for the requests that are out, no descriptor is lost or
\* closed for another, and bytes land at the position they were meant for.
FileSafe ==
    /\ FileTypeOK
    /\ RefsArePending
    /\ OwnedStaysOpen
    /\ NoFdLeaks
    /\ LandsAtPosition
=============================================================================
