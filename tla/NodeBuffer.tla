------------------------------ MODULE NodeBuffer ------------------------------
(***************************************************************************)
(* Buffers of node v0.4.4: the SlowBuffer of src/node_buffer.cc, memory    *)
(* outside the heap with its conversions from and to strings, and the      *)
(* Buffer of lib/buffer.js, a stretch of a SlowBuffer, small ones cut one  *)
(* after the other from a pool.                                            *)
(*                                                                         *)
(* A string is a sequence of character codes.  A base64 string is modelled *)
(* by the values of its digits, 0 to 63, with Pad for '=' and Blank for a  *)
(* line break.  What was not written yet holds zeros.                      *)
(***************************************************************************)
EXTENDS Integers, FiniteSets, Sequences, FiniteSetsExt, SequencesExt, NodeSequences

CONSTANTS
    PoolLength,   \* Buffer.poolSize
    ByteValue,    \* the bytes that the application stores
    MaxBuffers,   \* bound: Buffers that are made
    MaxSlow,      \* bound: SlowBuffers that are made
    MaxStrings,   \* bound: strings that are made
    MaxStores     \* bound: strings that are written and Buffers that are copied

ASSUME BufferAssumption ==
    /\ PoolLength \in Nat \ {0} /\ MaxBuffers \in Nat /\ MaxSlow \in Nat /\ MaxStrings \in Nat /\ MaxStores \in Nat
    /\ ByteValue \subseteq 0..255

VARIABLES
    slow,     \* the SlowBuffers
    bufPool,  \* the pool: the SlowBuffer in use and how much of it is used
    bufs,     \* the Buffers of JavaScript
    bufStr,   \* the string that was made last
    stores,   \* how many strings were written and Buffers copied
    extMem,   \* what V8 was told of the memory outside its heap
    wrote     \* the last operation on bytes: its Buffer, its encoding, its return value

bufferVars == <<slow, bufPool, bufs, bufStr, stores, extMem, wrote>>

Pad == 64
Blank == 65

\* sizeof(Buffer)
HeaderSize == 1

NoSlow == [st |-> "none", data |-> <<>>, foreign |-> FALSE, frees |-> 0]
NoBuffer == [live |-> FALSE, parent |-> 0, offset |-> 0, length |-> 0, kind |-> "none"]
Nowhere == [op |-> "none", buf |-> 0, ret |-> 0]
NoString == [enc |-> "none", chars |-> <<>>, from |-> <<>>, made |-> 0]

BufferInit ==
    /\ slow = [s \in 1..MaxSlow |-> NoSlow]
    /\ bufPool = [id |-> 0, used |-> 0]
    /\ bufs = <<>>
    /\ bufStr = NoString
    /\ stores = 0
    /\ extMem = 0
    /\ wrote = Nowhere

Least2(a, b) == IF a < b THEN a ELSE b

-----------------------------------------------------------------------------
(* Encodings. *)

\* Base64Slice: groups of three bytes become four digits.
Base64Slice(bytes) ==
    LET n == Len(bytes)
        byte(g, i) == IF 3 * g + i <= n THEN bytes[3 * g + i] ELSE 0
        digit(g, k) ==
            CASE k = 0 -> byte(g, 1) \div 4
              [] k = 1 -> (byte(g, 1) % 4) * 16 + byte(g, 2) \div 16
              [] k = 2 -> IF 3 * g + 2 > n THEN Pad ELSE (byte(g, 2) % 16) * 4 + byte(g, 3) \div 64
              [] k = 3 -> IF 3 * g + 3 > n THEN Pad ELSE byte(g, 3) % 64
    IN  [j \in 1..((n + 2) \div 3) * 4 |-> digit((j - 1) \div 4, (j - 1) % 4)]

\* base64_decoded_size: from the length and the padding at the end.
base64_decoded_size(chars) ==
    LET n == Len(chars)
        whole == (n \div 4) * 3
        rest == n % 4
        size == IF rest = 0 \/ (whole = 0 /\ rest = 1) THEN whole ELSE whole + (IF rest = 3 THEN 2 ELSE 1)
        padding == Cardinality({k \in {n - 1, n} : k > 0 /\ chars[k] = Pad})
    IN  IF size > 0 THEN size - padding ELSE size

\* The loop of Base64Write: characters that are no digits are passed over.
Base64Bytes(chars) ==
    LET digits == Kept(chars, 0..63)
        d(g, k) == digits[4 * g + k]
        byte(g, i) ==
            CASE i = 0 -> d(g, 1) * 4 + d(g, 2) \div 16
              [] i = 1 -> (d(g, 2) % 16) * 16 + d(g, 3) \div 4
              [] i = 2 -> (d(g, 3) % 4) * 64 + d(g, 4)
    IN  [j \in 1..(Len(digits) * 3) \div 4 |-> byte((j - 1) \div 3, (j - 1) % 3)]

\* UTF-8, of which the model has the characters below 128 and one of two
\* bytes; whatever is not such a character reads as U+FFFD.
Replacement == 65533
TwoBytes == <<195, 169>>
Utf8Char(c) == IF c < 128 THEN <<c>> ELSE IF c = 233 THEN TwoBytes ELSE <<239, 191, 189>>

\* A lead byte without the byte that belongs to it, and what stands there instead.
Torn(b) == IF b = 195 THEN <<Replacement>> ELSE IF b < 128 THEN <<Replacement, b>> ELSE <<Replacement, Replacement>>

Utf8Step(acc, b) ==
    CASE acc.lead /\ b = 169 -> [chars |-> Append(acc.chars, 233), lead |-> FALSE]
      [] acc.lead /\ b # 169 -> [chars |-> acc.chars \o Torn(b), lead |-> b = 195]
      [] ~acc.lead /\ b = 195 -> [acc EXCEPT !.lead = TRUE]
      [] OTHER -> [acc EXCEPT !.chars = Append(@, IF b < 128 THEN b ELSE Replacement)]

Utf8Slice(bytes) ==
    LET end == FoldLeft(Utf8Step, [chars |-> <<>>, lead |-> FALSE], bytes)
    IN  IF end.lead THEN Append(end.chars, Replacement) ELSE end.chars

Utf8Bytes(chars) == FoldLeft(LAMBDA acc, c : acc \o Utf8Char(c), <<>>, chars)

\* The strings that toString makes of bytes.
AsciiSlice(bytes) == Utf8Slice(bytes)
BinarySlice(bytes) == bytes

Slice(bytes, enc) ==
    CASE enc = "utf8" -> Utf8Slice(bytes)
      [] enc = "ascii" -> AsciiSlice(bytes)
      [] enc = "binary" -> BinarySlice(bytes)
      [] enc = "base64" -> Base64Slice(bytes)

ByteLength(chars, enc) ==
    CASE enc = "utf8" -> Len(Utf8Bytes(chars))
      [] enc = "base64" -> base64_decoded_size(chars)
      [] OTHER -> Len(chars)

-----------------------------------------------------------------------------
(* Writing a string to a SlowBuffer: the bytes to store at the offset and  *)
(* the value returned, or an exception.                                    *)

Throws == [ok |-> FALSE, bytes |-> <<>>, ret |-> 0]
Stores(bytes, ret) == [ok |-> TRUE, bytes |-> bytes, ret |-> ret]

AsciiByte(c) == IF c = 0 THEN 32 ELSE c % 256

AsciiWrite(length, chars, offset, max) ==
    LET n == Least2(Len(chars), Least2(length - offset, max)) IN
    IF chars # <<>> /\ offset >= length THEN Throws
    ELSE Stores([k \in 1..n |-> AsciiByte(chars[k])], n)

\* DecodeWrite: the low bytes of the first n characters.
DecodeWrite(chars, n) == Stores([k \in 1..n |-> chars[k] % 256], n)

\* maxLength is not among the arguments that binaryWrite reads.
BinaryWrite(length, chars, offset, max) ==
    LET n == Least2(Len(chars), length - offset) IN
    IF chars # <<>> /\ offset >= length THEN Throws ELSE DecodeWrite(chars, n)

Utf8Write_IgnoresMax(length, chars, offset, max) ==
    LET body == Utf8Bytes(chars) IN
    IF chars # <<>> /\ offset >= length THEN Throws
    ELSE Stores(SubSeq(body, 1, Least2(Len(body), length - offset)), Len(body))

\* WriteUtf8 writes whole characters, and a NUL after them if all of them and
\* the NUL fit; a NUL at the end is not counted.
Utf8Write(length, chars, offset, max) ==
    LET room == Least2(length - offset, max)
        fitting == {k \in 0..Len(chars) : Len(Utf8Bytes(SubSeq(chars, 1, k))) <= room}
        body == Utf8Bytes(SubSeq(chars, 1, Max(fitting)))
        bytes == IF Max(fitting) = Len(chars) /\ Len(body) < room THEN Append(body, 0) ELSE body
    IN  IF chars # <<>> /\ offset >= length THEN Throws
        ELSE Stores(bytes, IF bytes # <<>> /\ Last(bytes) = 0 THEN Len(bytes) - 1 ELSE Len(bytes))

\* Neither does base64Write read maxLength; it throws rather than truncate.
Base64Write(length, chars, offset, max) ==
    IF offset = 0 /\ length = 0 THEN Stores(<<>>, 0)
    ELSE IF offset >= length \/ base64_decoded_size(chars) > length - offset THEN Throws
    ELSE Stores(Base64Bytes(chars), Len(Base64Bytes(chars)))

WriteTo(length, chars, enc, offset, max) ==
    CASE enc = "utf8" -> Utf8Write(length, chars, offset, max)
      [] enc = "ascii" -> AsciiWrite(length, chars, offset, max)
      [] enc = "binary" -> BinaryWrite(length, chars, offset, max)
      [] enc = "base64" -> Base64Write(length, chars, offset, max)

\* The memory after bytes were stored at an offset.
Stored(data, offset, bytes) ==
    [k \in 1..Len(data) |-> IF k \in offset + 1..offset + Len(bytes) THEN bytes[k - offset] ELSE data[k]]

-----------------------------------------------------------------------------
(* SlowBuffers. *)

UnusedSlow == {s \in 1..MaxSlow : slow[s].st = "none" /\ \A t \in 1..s - 1 : slow[t].st # "none"}

\* Replace: the old memory is given back, to its owner if it is foreign, and
\* V8 is told of what was allocated and what was freed.
Replace(sb, data, foreign) ==
    [sb |-> [sb EXCEPT !.st = "live", !.data = data, !.foreign = foreign, !.frees = IF sb.foreign THEN @ + 1 ELSE @],
     adjust |-> (IF ~foreign /\ data # <<>> THEN HeaderSize + Len(data) ELSE 0)
                - (IF ~sb.foreign /\ sb.data # <<>> THEN HeaderSize + Len(sb.data) ELSE 0)]

Zeros(n) == [k \in 1..n |-> 0]

\* new SlowBuffer(n), for the pool and for Buffers larger than the pool.
NewSlow(s, n) == Replace(slow[s], Zeros(n), FALSE)

\* Buffer::New(data, length, callback, hint) of an add-on: a SlowBuffer that is
\* made empty and then given memory of the add-on's own.
NewForeign ==
    \E s \in UnusedSlow :
        LET made == Replace(slow[s], <<>>, FALSE)
            given == Replace(made.sb, Zeros(1), TRUE)
        IN  /\ Len(bufs) < MaxBuffers
            /\ slow' = [slow EXCEPT ![s] = given.sb]
            /\ extMem' = extMem + made.adjust + given.adjust
            /\ bufs' = Append(bufs, [live |-> TRUE, parent |-> s, offset |-> 0, length |-> 1, kind |-> "new"])
            /\ wrote' = Nowhere
            /\ UNCHANGED <<bufPool, bufStr, stores>>

\* The collector takes a SlowBuffer that neither the pool nor a Buffer is
\* using; its destructor replaces its memory by nothing.
CollectSlow ==
    \E s \in 1..MaxSlow :
        LET freed == Replace(slow[s], <<>>, FALSE) IN
        /\ slow[s].st = "live" /\ bufPool.id # s
        /\ \A b \in 1..Len(bufs) : bufs[b].live => bufs[b].parent # s
        /\ slow' = [slow EXCEPT ![s] = [freed.sb EXCEPT !.st = "freed"]]
        /\ extMem' = extMem + freed.adjust
        /\ wrote' = Nowhere
        /\ UNCHANGED <<bufPool, bufs, bufStr, stores>>

-----------------------------------------------------------------------------
(* Buffers. *)

NeedsPool(n) == bufPool.id = 0 \/ PoolLength - bufPool.used < n

Allocations_Stays(n) ==
    IF NeedsPool(n)
    THEN {[slow |-> [slow EXCEPT ![s] = NewSlow(s, PoolLength).sb], adjust |-> NewSlow(s, PoolLength).adjust, pool |-> [id |-> s, used |-> 0],
           buf |-> [live |-> TRUE, parent |-> s, offset |-> 0, length |-> n, kind |-> "new"]] : s \in UnusedSlow}
    ELSE {[slow |-> slow, adjust |-> 0, pool |-> [bufPool EXCEPT !.used = n],
           buf |-> [live |-> TRUE, parent |-> bufPool.id, offset |-> bufPool.used, length |-> n, kind |-> "new"]]}

\* What the constructor allocates for n bytes: the SlowBuffers, the pool and
\* the place of the new Buffer.
Allocations(n) ==
    IF n > PoolLength
    THEN {[slow |-> [slow EXCEPT ![s] = NewSlow(s, n).sb], adjust |-> NewSlow(s, n).adjust, pool |-> bufPool,
           buf |-> [live |-> TRUE, parent |-> s, offset |-> 0, length |-> n, kind |-> "new"]] : s \in UnusedSlow}
    ELSE IF NeedsPool(n)
    THEN {[slow |-> [slow EXCEPT ![s] = NewSlow(s, PoolLength).sb], adjust |-> NewSlow(s, PoolLength).adjust, pool |-> [id |-> s, used |-> n],
           buf |-> [live |-> TRUE, parent |-> s, offset |-> 0, length |-> n, kind |-> "new"]] : s \in UnusedSlow}
    ELSE {[slow |-> slow, adjust |-> 0, pool |-> [bufPool EXCEPT !.used = @ + n],
           buf |-> [live |-> TRUE, parent |-> bufPool.id, offset |-> bufPool.used, length |-> n, kind |-> "new"]]}

\* new Buffer(array), and new Buffer(n), whose bytes may be anything.
NewBuffer(bytes) ==
    /\ Len(bufs) < MaxBuffers
    /\ \E a \in Allocations(Len(bytes)) :
         /\ slow' = [a.slow EXCEPT ![a.buf.parent].data = Stored(@, a.buf.offset, bytes)]
         /\ bufPool' = a.pool /\ extMem' = extMem + a.adjust
         /\ bufs' = Append(bufs, a.buf)
    /\ wrote' = Nowhere
    /\ UNCHANGED <<bufStr, stores>>

\* Strings with a U+FFFD, made of bytes that are no text, are not written again.
Writable == bufStr.enc # "none" /\ \A k \in 1..Len(bufStr.chars) : bufStr.chars[k] # Replacement

\* new Buffer(string, encoding): the length is that of the bytes written.
NewFromString ==
    /\ Len(bufs) < MaxBuffers /\ Writable
    /\ \E a \in Allocations(ByteLength(bufStr.chars, bufStr.enc)) :
         LET data == a.slow[a.buf.parent].data
             w == WriteTo(Len(data), bufStr.chars, bufStr.enc, a.buf.offset, a.buf.length)
         IN  /\ bufPool' = a.pool /\ extMem' = extMem + a.adjust
             /\ slow' = [a.slow EXCEPT ![a.buf.parent].data = Stored(data, a.buf.offset, w.bytes)]
             /\ bufs' = IF w.ok THEN Append(bufs, [a.buf EXCEPT !.length = w.ret]) ELSE bufs
             /\ wrote' = [op |-> IF w.ok THEN "from" ELSE "throws", buf |-> IF w.ok THEN Len(bufs) + 1 ELSE 0, ret |-> w.ret]
    /\ UNCHANGED <<bufStr, stores>>

\* slice: a Buffer on the same memory.
SliceBuffer(b, start, end) ==
    /\ Len(bufs) < MaxBuffers
    /\ bufs' = Append(bufs, [bufs[b] EXCEPT !.offset = @ + start, !.length = end - start, !.kind = "slice"])
    /\ wrote' = Nowhere
    /\ UNCHANGED <<slow, bufPool, bufStr, stores, extMem>>

BytesOf(b) == SubSeq(slow[bufs[b].parent].data, bufs[b].offset + 1, bufs[b].offset + bufs[b].length)

\* write(string, offset, encoding)
WriteString(b, offset) ==
    LET data == slow[bufs[b].parent].data
        w == WriteTo(Len(data), bufStr.chars, bufStr.enc, bufs[b].offset + offset, bufs[b].length - offset)
    IN  /\ Writable /\ offset <= bufs[b].length
        /\ slow' = [slow EXCEPT ![bufs[b].parent].data = Stored(data, bufs[b].offset + offset, w.bytes)]
        /\ wrote' = [op |-> bufStr.enc, buf |-> b, ret |-> w.ret, at |-> offset]
        /\ stores < MaxStores /\ stores' = stores + 1
        /\ UNCHANGED <<bufPool, bufs, bufStr, extMem>>

\* toString(encoding)
BufferToString(b, enc) ==
    /\ bufStr.made < MaxStrings
    /\ bufStr' = [enc |-> enc, chars |-> Slice(BytesOf(b), enc), from |-> BytesOf(b), made |-> bufStr.made + 1]
    /\ wrote' = Nowhere
    /\ UNCHANGED <<slow, bufPool, bufs, stores, extMem>>

\* A base64 string without its padding, or broken into lines.
OtherBase64 ==
    /\ bufStr.enc = "base64" /\ \A k \in 1..Len(bufStr.chars) : bufStr.chars[k] # Blank
    /\ \/ bufStr' = [bufStr EXCEPT !.chars = Kept(@, 0..63)]
       \/ bufStr.chars # <<>> /\ bufStr' = [bufStr EXCEPT !.chars = InsertAt(@, 2, Blank)]
    /\ bufStr' # bufStr
    /\ UNCHANGED <<slow, bufPool, bufs, stores, extMem, wrote>>

\* memmove: what was in the source before.
CopyBytes(data, from, at, n) ==
    [k \in 1..Len(data.to) |-> IF k \in at + 1..at + n THEN data.from[from + k - at] ELSE data.to[k]]

\* copy(target, targetStart): as many bytes as the target has room for.
CopyTo(b, t, at) ==
    LET s == bufs[b]
        n == Least2(s.length, bufs[t].length - at)
        data == [from |-> slow[s.parent].data, to |-> slow[bufs[t].parent].data, same |-> s.parent = bufs[t].parent]
    IN  /\ s.length > 0 /\ at < bufs[t].length
        /\ slow' = [slow EXCEPT ![bufs[t].parent].data = CopyBytes(data, s.offset, bufs[t].offset + at, n)]
        /\ wrote' = [op |-> "copy", buf |-> t, ret |-> n, from |-> SubSeq(BytesOf(b), 1, n), at |-> at]
        /\ stores < MaxStores /\ stores' = stores + 1
        /\ UNCHANGED <<bufPool, bufs, bufStr, extMem>>

\* The application forgets a Buffer.
DropBuffer(b) ==
    /\ bufs' = [bufs EXCEPT ![b] = NoBuffer]
    /\ wrote' = Nowhere
    /\ UNCHANGED <<slow, bufPool, bufStr, stores, extMem>>

BufferNext ==
    \/ \E n \in 0..PoolLength + 1 : \E bytes \in [1..n -> ByteValue] : NewBuffer(bytes)
    \/ NewFromString \/ NewForeign \/ CollectSlow \/ OtherBase64
    \/ \E b \in 1..Len(bufs) :
         /\ bufs[b].live
         /\ \/ \E i \in 0..PoolLength : WriteString(b, i)
            \/ \E i \in 0..bufs[b].length, j \in 0..bufs[b].length : i <= j /\ SliceBuffer(b, i, j)
            \/ \E enc \in {"utf8", "ascii", "binary", "base64"} : BufferToString(b, enc)
            \/ \E t \in 1..Len(bufs), at \in 0..1 : bufs[t].live /\ CopyTo(b, t, at)
            \/ DropBuffer(b)

BufferSpec == BufferInit /\ [][BufferNext]_bufferVars

-----------------------------------------------------------------------------
(* Properties. *)

\* Types.
BufferTypeOK ==
    /\ bufPool.id \in 0..MaxSlow /\ bufPool.used \in 0..PoolLength
    /\ \A s \in 1..MaxSlow : slow[s].st \in {"none", "live", "freed"} /\ \A k \in 1..Len(slow[s].data) : slow[s].data[k] \in 0..255
    /\ extMem \in Nat

\* A Buffer that is in use lies within memory that was not freed.
BuffersHaveMemory ==
    \A b \in 1..Len(bufs) : bufs[b].live =>
        slow[bufs[b].parent].st = "live" /\ bufs[b].offset + bufs[b].length <= Len(slow[bufs[b].parent].data)

\* Buffers that were made with new share no byte, although the pool hands out
\* the memory of many.
BuffersDisjoint ==
    \A b, c \in 1..Len(bufs) :
        b # c /\ bufs[b].live /\ bufs[c].live /\ bufs[b].parent = bufs[c].parent /\ bufs[b].kind = "new" /\ bufs[c].kind = "new" =>
            \/ bufs[b].offset + bufs[b].length <= bufs[c].offset
            \/ bufs[c].offset + bufs[c].length <= bufs[b].offset

\* What V8 was told of a SlowBuffer, and of all of them.
Held(sb) == IF sb.st = "live" /\ ~sb.foreign /\ sb.data # <<>> THEN HeaderSize + Len(sb.data) ELSE 0
HeldByAll(sbs) == FoldLeft(LAMBDA sum, sb : sum + Held(sb), 0, sbs)

\* V8 knows of exactly the memory that the live SlowBuffers allocated, and
\* memory of an add-on is given back to it once, when its Buffer is collected.
MemoryIsAccounted ==
    /\ extMem = HeldByAll(slow)
    /\ \A s \in 1..MaxSlow : slow[s].frees = (IF slow[s].st = "freed" /\ slow[s].frees > 0 THEN 1 ELSE 0)

\* Writing text and copying change no byte outside of the
\* Buffer, even where its neighbour in the pool begins.
OnlyItsOwnBytes ==
    [][wrote'.op \in {"utf8", "ascii", "copy"} =>
        \A s \in 1..MaxSlow : \A k \in 1..Len(slow[s].data) :
            \/ slow'[s].data[k] = slow[s].data[k]
            \/ LET b == bufs[wrote'.buf] IN b.parent = s /\ k \in b.offset + 1..b.offset + b.length]_bufferVars

\* copy gives the target what the source held before, if they overlap too.
CopyIsExact ==
    wrote.op = "copy" => SubSeq(BytesOf(wrote.buf), wrote.at + 1, wrote.at + wrote.ret) = wrote.from

\* What base64 makes of bytes is decoded to the same bytes, with its padding,
\* without it and broken into lines, and the length that is computed for the
\* buffer is enough, exactly enough for what has no line breaks.
Base64Exact ==
    bufStr.enc = "base64" =>
        /\ Base64Bytes(bufStr.chars) = bufStr.from
        /\ base64_decoded_size(bufStr.chars) >= Len(bufStr.from)
        /\ (\A k \in 1..Len(bufStr.chars) : bufStr.chars[k] # Blank) => base64_decoded_size(bufStr.chars) = Len(bufStr.from)

\* A text that does not fit is cut between two characters: the bytes that
\* write reports are the beginning of the text.
Utf8IsPrefix ==
    wrote.op = "utf8" => IsPrefix(Utf8Slice(SubSeq(BytesOf(wrote.buf), wrote.at + 1, wrote.at + wrote.ret)), bufStr.chars)

\* Buffers of the pool: their memory is there and their own, V8 knows how much it is, and
\* copies and encodings keep the bytes.
BufferSafe ==
    /\ BufferTypeOK
    /\ BuffersHaveMemory
    /\ BuffersDisjoint
    /\ MemoryIsAccounted
    /\ CopyIsExact
    /\ Base64Exact
    /\ Utf8IsPrefix
=============================================================================
