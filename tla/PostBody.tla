------------------------------ MODULE PostBody ------------------------------
(***************************************************************************)
(* The body of a multipart POST or PUT: NXOAuth2PostBodyStream, an input   *)
(* stream that reads a list of other input streams one after the other,    *)
(* and the NXOAuth2Connection that makes one for each start, retry and     *)
(* resending of its request.  NSURLConnection opens, reads and closes it.  *)
(*                                                                         *)
(* A parameter gives two streams (delimiter and headers, content), the     *)
(* final delimiter one more.  A stream is its length; NSInputStream itself *)
(* is external: it delivers its bytes once, reports its end with 0 and a   *)
(* failure with -1, and cannot be opened again after close.                *)
(***************************************************************************)
EXTENDS Naturals

CONSTANTS
    N,          \* number of content streams
    Size,       \* bytes in each of them
    Wrapped,    \* contents that the application passed as a stream of its own
    Missing,    \* contents in a file that may be gone when it is opened
    MaxLen,     \* bytes that fit in NSURLConnection's buffer
    MaxBodies   \* bound: body streams made for one request

Stream == 1..N

ASSUME BodyAssumption ==
    /\ N \in Nat
    /\ Size \in [Stream -> Nat]
    /\ Wrapped \subseteq Stream
    /\ Missing \subseteq Stream
    /\ MaxLen \in Nat \ {0}
    /\ MaxBodies \in Nat

VARIABLES
    bodies,     \* body streams made so far; the last one is in use
    phase,      \* "new", "open", or without contentStreams: "closed", "reopened"
    current,    \* is currentStream "set" or "nil"?
    index,      \* streamIndex, from 1
    pos,        \* bytes that have been read from each stream
    status,     \* streamStatus of each stream
    got,        \* bytes of each stream that were sent as part of this body
    result      \* what the last read: returned

bodyVars == <<bodies, phase, current, index, pos, status, got, result>>

-----------------------------------------------------------------------------
BodyTypeOK ==
    /\ bodies \in Nat
    /\ phase \in {"new", "open", "closed", "reopened"}
    /\ current \in {"nil", "set"}
    /\ index \in 1..(N + 1)
    /\ current = "set" => index \in Stream
    /\ pos \in [Stream -> Nat]
    /\ \A i \in Stream : pos[i] <= Size[i]
    /\ status \in [Stream -> {"notOpen", "open", "error", "atEnd", "closed"}]
    /\ got \in [Stream -> Nat]
    /\ result \in {"none", "data", "end", "error"}

BodyInit ==
    /\ bodies = 1
    /\ phase = "new"
    /\ current = "nil"
    /\ index = 1
    /\ pos = [i \in Stream |-> 0]
    /\ status = [i \in Stream |-> "notOpen"]
    /\ got = [i \in Stream |-> 0]
    /\ result = "none"

\* What read:maxLength: of a single stream does.
Broken(i) == status[i] \in {"notOpen", "error", "closed"}

AtEnd(i) == ~Broken(i) /\ pos[i] = Size[i]

HasData(i) == ~Broken(i) /\ pos[i] < Size[i]

\* The recursion of read:maxLength: gets as far as stream j.
Reaches(j) == \A i \in index..(j - 1) : AtEnd(i)

-----------------------------------------------------------------------------
\* NSInputStream's open: a stream is opened once, and a file may be missing.
OpenAll ==
    \E gone \in SUBSET Missing :
        status' = [i \in Stream |-> IF status[i] # "notOpen" THEN status[i]
                                  ELSE IF i \in gone THEN "error" ELSE "open"]

\* open: all streams are opened and reading starts at the first.
Open ==
    /\ phase \in {"new", "open"}
    /\ phase' = "open"
    /\ OpenAll
    /\ current' = IF N > 0 THEN "set" ELSE "nil"
    /\ index' = 1
    /\ UNCHANGED <<bodies, pos, got, result>>

\* open after close: there are no streams any more.
Reopen ==
    /\ phase \in {"closed", "reopened"}
    /\ phase' = "reopened"
    /\ index' = 1
    /\ UNCHANGED <<bodies, current, pos, status, got, result>>

\* read:maxLength: without a current stream returns 0.
ReadNothing ==
    /\ current = "nil"
    /\ result' = "end"
    /\ UNCHANGED <<bodies, phase, current, index, pos, status, got>>

\* read:maxLength: when all that is left are exhausted streams.
ReadEnd ==
    /\ current = "set"
    /\ \A i \in index..N : AtEnd(i)
    /\ index' = N
    /\ current' = "nil"
    /\ result' = "end"
    /\ UNCHANGED <<bodies, phase, pos, status, got>>

\* read:maxLength: with n bytes as the result.  A stream that delivered its last
\* byte may already say so.
ReadData(n) ==
    /\ current = "set"
    /\ \E j \in index..N :
         /\ Reaches(j)
         /\ HasData(j)
         /\ pos[j] + n <= Size[j]
         /\ pos' = [pos EXCEPT ![j] = @ + n]
         /\ got' = [got EXCEPT ![j] = @ + n]
         /\ index' = j
         /\ \/ UNCHANGED status
            \/ pos'[j] = Size[j] /\ status' = [status EXCEPT ![j] = "atEnd"]
    /\ result' = "data"
    /\ UNCHANGED <<bodies, phase, current>>

\* read:maxLength: with the -1 of a stream that failed.
ReadError ==
    /\ current = "set"
    /\ \E j \in index..N : Reaches(j) /\ Broken(j) /\ index' = j
    /\ result' = "error"
    /\ UNCHANGED <<bodies, phase, current, pos, status, got>>

Close ==
    /\ phase # "closed"
    /\ phase' = "closed"
    /\ status' = [i \in Stream |-> "closed"]
    /\ current' = "nil"
    /\ UNCHANGED <<bodies, index, pos, got, result>>

\* Mutant: the contents are not made anew.
NewBody_SharesStreams ==
    /\ bodies < MaxBodies
    /\ bodies' = bodies + 1
    /\ phase' = "new"
    /\ current' = "nil"
    /\ index' = 1
    /\ got' = [i \in Stream |-> 0]
    /\ result' = "none"
    /\ UNCHANGED <<pos, status>>

\* A retry (createConnection) or a resent request (needNewBodyStream:) makes a
\* new body from the same parameters: data and files are read anew, a stream
\* that the application passed is the same object as before.
NewBody ==
    /\ bodies < MaxBodies
    /\ bodies' = bodies + 1
    /\ phase' = "new"
    /\ current' = "nil"
    /\ index' = 1
    /\ pos' = [i \in Stream |-> IF i \in Wrapped THEN pos[i] ELSE 0]
    /\ status' = [i \in Stream |-> IF i \in Wrapped THEN status[i] ELSE "notOpen"]
    /\ got' = [i \in Stream |-> 0]
    /\ result' = "none"

\* NSURLConnection reads until it is told the end or an error.
Read == /\ phase \in {"open", "reopened"}
        /\ result \notin {"end", "error"}
        /\ ReadNothing \/ ReadEnd \/ ReadError \/ \E n \in 1..MaxLen : ReadData(n)

\* streamStatus, seen from outside.
StreamStatus ==
    IF current = "nil" THEN "notOpen"
    ELSE IF status[index] \in {"atEnd", "closed"} /\ index < N THEN "reading"
    ELSE status[index]

BodyNext == Open \/ Reopen \/ Read \/ Close \/ NewBody

BodySpec == BodyInit /\ [][BodyNext]_bodyVars

-----------------------------------------------------------------------------
(* Properties                                                              *)

Complete == \A i \in Stream : got[i] = Size[i]

\* The bytes go out in the order of the streams: nothing is sent of a stream
\* before all of the streams before it (read:maxLength:, open).
InOrder == \A i, j \in Stream : i < j /\ got[j] > 0 => got[i] = Size[i]

\* When read:maxLength: reports the end, the body has been sent completely, and
\* so exactly as many bytes as Content-Length announced; a retry starts again
\* from the first byte.
CompleteAtEnd == phase = "open" /\ result = "end" => Complete

\* streamStatus reports the end of the body only when there is nothing left.
EndReportedAtEnd == StreamStatus = "atEnd" => Complete

\* Reading an opened body comes to an end or an error, unless it is closed or
\* replaced by another.
BodyEnds == phase = "open" /\ current = "set" ~> result \in {"end", "error"} \/ phase # "open"

\* A body is sent in order and completely, its end is reported at its end, and a retry
\* begins at its beginning (read:maxLength:, streamStatus).
BodySafe ==
    /\ BodyTypeOK
    /\ InOrder
    /\ CompleteAtEnd
    /\ EndReportedAtEnd
=============================================================================
