---------------------------- MODULE NodeCiphers ----------------------------
(***************************************************************************)
(* The Cipher and Decipher objects of node_crypto.cc: streams of bytes     *)
(* that the application gives and takes in pieces of any size, in texts    *)
(* whose units (3 bytes of base64, 2 digits of hex, a UTF-8 character) do  *)
(* not end where the pieces end.                                           *)
(*                                                                         *)
(* A byte is its position in the ciphertext or plaintext; 0 is a byte that *)
(* is in neither.  EVP is external: it works on blocks, and a block with a *)
(* wrong byte deciphers to nonsense.                                       *)
(***************************************************************************)
EXTENDS Naturals, Sequences, NodeSequences

CONSTANTS
    BlockSize,      \* bytes of a block of the cipher
    Plaintext,      \* the text to decipher: for each byte "1", the lead byte
                    \* "2", "3" or "4" of a longer character, or "c" after it
    MaxPiece,       \* bound: bytes or digits that one update takes
    MaxBytes        \* bound: bytes that are enciphered

\* What kind of byte a position is: 0 and padding count as single bytes.
Kind(i) == IF i \in 1..Len(Plaintext) THEN Plaintext[i] ELSE "1"

\* The bytes of the character that a lead byte begins.
CharacterBytes(lead) == CASE lead = "1" -> 1 [] lead = "2" -> 2 [] lead = "3" -> 3 [] lead = "4" -> 4

\* The plaintext is whole characters of UTF-8: an application that asks for utf8
\* deciphers a text.
ASSUME CipherAssumption ==
    /\ BlockSize \in Nat \ {0}
    /\ Plaintext \in Seq({"1", "2", "3", "4", "c"})
    /\ Kind(1) # "c"
    /\ \A p \in 1..Len(Plaintext) : Kind(p) # "c" =>
         LET next == p + CharacterBytes(Kind(p)) IN
         Kind(next) # "c" /\ \A q \in p+1..next-1 : Kind(q) = "c"
    /\ MaxPiece \in Nat
    /\ MaxBytes \in Nat

VARIABLES
    cipher,         \* the Cipher object
    decipher,       \* the Decipher object
    text,           \* the bytes in the texts that the object in use returned
    use             \* which object the application uses, and how

cipherVars == <<cipher, decipher, text, use>>

-----------------------------------------------------------------------------
Use == [object : {"Cipher"}, out : {"binary", "hex", "base64", "unknown"}]
         \cup [object : {"Decipher"}, from : {"binary", "hex", "base64"}, to : {"binary"},
               pad : {"pkcs", "zero", "bad"}, final : {"final", "finaltol"}]
         \cup [object : {"Decipher"}, from : {"binary"}, to : {"utf8"},
               pad : {"pkcs"}, final : {"final", "finaltol"}]

\* The positions m + 1 to n.
Stretch(m, n) == [i \in 1..(n - m) |-> m + i]

\* s without its last n elements, and those elements.
Without(s, n) == SubSeq(s, 1, Len(s) - n)

Overhang(s, n) == SubSeq(s, Len(s) - n + 1, Len(s))

\* New objects, before init.
NewCipher == [initialised |-> FALSE, given |-> 0, made |-> 0,
              incomplete_base64 |-> <<>>, over |-> FALSE]

NewDecipher == [initialised |-> FALSE, read |-> 0, fed |-> <<>>, made |-> 0, torn |-> FALSE,
                incomplete_utf8 |-> <<>>, hex_flag |-> FALSE, hex |-> 0, over |-> FALSE]

CiphersInit ==
    /\ use \in Use
    /\ cipher = NewCipher
    /\ decipher = NewDecipher
    /\ text = <<>>

\* What is kept of base64 and UTF-8 is less than a unit.
CiphersTypeOK ==
    /\ use \in Use
    /\ cipher \in [initialised : BOOLEAN, given : 0..MaxBytes, made : Nat,
                   incomplete_base64 : Seq(Nat), over : BOOLEAN]
    /\ decipher \in [initialised : BOOLEAN, read : Nat, fed : Seq(Nat), made : Nat,
                     torn : BOOLEAN, incomplete_utf8 : Seq(Nat), hex_flag : BOOLEAN, hex : Nat,
                     over : BOOLEAN]
    /\ Len(cipher.incomplete_base64) < 3 /\ Len(decipher.incomplete_utf8) < 4
    /\ text \in Seq(Nat)

-----------------------------------------------------------------------------
(* Cipher                                                                  *)

\* The context of a known cipher, with a key and an iv of the right length.
CipherContext(c) == [c EXCEPT !.initialised = TRUE]

\* init or initiv of a new object.  An unknown cipher, key or iv length throws,
\* and lib/crypto.js then has no object to hand out.
CipherInit ==
    /\ use.object = "Cipher" /\ cipher = NewCipher
    /\ cipher' = CipherContext([cipher EXCEPT !.incomplete_base64 = <<>>])
    /\ UNCHANGED <<decipher, text, use>>

\* Mutant: the overhang of an earlier update is not put before out.
CipherReturn_DropsOverhang(c, out) ==
    LET rest == IF use.out = "base64" THEN Len(out) % 3 ELSE 0 IN
    /\ text' = text \o Without(out, rest)
    /\ cipher' = [c EXCEPT !.incomplete_base64 = Overhang(out, rest)]

\* The text of update for the new bytes out: base64 only in whole groups of
\* three, and the rest is kept for the next update.
CipherReturn(c, out) ==
    LET all == IF use.out = "base64" THEN c.incomplete_base64 \o out ELSE out
        rest == IF use.out = "base64" THEN Len(all) % 3 ELSE 0
    IN  /\ text' = text \o Without(all, rest)
        /\ cipher' = [c EXCEPT !.incomplete_base64 = Overhang(all, rest)]

\* EVP turns whole blocks into ciphertext and keeps the rest.
CipherMade(given) == (given \div BlockSize) * BlockSize

\* At the end it pads the rest to a block of its own.
CipherMadeAtEnd(given) == CipherMade(given) + BlockSize

\* update with n bytes.  It throws when the object is not initialised; the text
\* is "" when no block was completed, and undefined in an unknown encoding.
CipherUpdate(n) ==
    /\ use.object = "Cipher" /\ cipher.initialised
    /\ cipher.given + n <= MaxBytes
    /\ LET given == cipher.given + n
           made == CipherMade(given)
           c == [cipher EXCEPT !.given = given, !.made = made]
       IN  IF made = cipher.made \/ use.out = "unknown"
           THEN cipher' = c /\ UNCHANGED text
           ELSE CipherReturn(c, Stretch(cipher.made, made))
    /\ UNCHANGED <<decipher, use>>

\* final pads the last block and returns it without the overhang of base64.
\* Once more, it returns "".
CipherFinal ==
    /\ use.object = "Cipher" /\ cipher.initialised
    /\ LET made == CipherMadeAtEnd(cipher.given) IN
       /\ cipher' = [cipher EXCEPT !.initialised = FALSE, !.over = TRUE, !.made = made]
       /\ text' = IF use.out = "unknown" THEN text ELSE text \o Stretch(cipher.made, made)
    /\ UNCHANGED <<decipher, use>>

-----------------------------------------------------------------------------
(* Decipher                                                                *)

\* The ciphertext is whole blocks: with padding of 1 to BlockSize bytes, or, as
\* other programs pad, with zeros up to the end of the block.
CipherLength ==
    IF use.pad = "zero" THEN ((Len(Plaintext) + BlockSize - 1) \div BlockSize) * BlockSize
    ELSE (Len(Plaintext) \div BlockSize + 1) * BlockSize

\* Units of the text of the ciphertext: bytes, digits or base64 characters.
TextLength ==
    CASE use.from = "binary" -> CipherLength
      [] use.from = "hex" -> 2 * CipherLength
      [] use.from = "base64" -> ((CipherLength + 2) \div 3) * 4

DecipherContext(d) == [d EXCEPT !.initialised = TRUE]

DecipherInit ==
    /\ use.object = "Decipher" /\ decipher = NewDecipher
    /\ decipher' = DecipherContext([decipher EXCEPT !.incomplete_utf8 = <<>>, !.hex_flag = FALSE])
    /\ UNCHANGED <<cipher, text, use>>

\* Two digits make a byte of the ciphertext if they are its digits.
HexDecode(digits) ==
    [k \in 1..(Len(digits) \div 2) |->
        IF digits[2 * k - 1] % 2 = 1 /\ digits[2 * k] = digits[2 * k - 1] + 1
        THEN digits[2 * k] \div 2 ELSE 0]

\* Groups of four characters make three bytes; characters that are left over
\* when the piece ends are dropped, and the last byte may be padding.
unbase64(from, n) ==
    LET bytes == [k \in 1..(3 * (n \div 4)) |->
                    IF from % 4 = 0 THEN 3 * (from \div 4) + k ELSE 0]
    IN  Kept(bytes, 0..CipherLength)

\* The digits that update decodes: the one kept before, then the piece.  The
\* flag is set when their number is odd, and never cleared.
HexPiece(piece) ==
    LET buf == IF decipher.hex_flag THEN <<decipher.hex>> \o piece ELSE piece IN
    [buf |-> buf, flag |-> decipher.hex_flag \/ Len(buf) % 2 = 1]

\* The object after it decoded the next n units of the text to bytes.
Decoded(n) ==
    LET piece == Stretch(decipher.read, decipher.read + n)
        d == [decipher EXCEPT !.read = @ + n]
        hex == HexPiece(piece)
        odd == Len(hex.buf) % 2
    IN  CASE use.from = "binary" -> [d EXCEPT !.fed = @ \o piece]
          [] use.from = "hex" ->
               [d EXCEPT !.fed = @ \o HexDecode(Without(hex.buf, odd)),
                         !.hex_flag = hex.flag,
                         !.hex = IF odd = 1 THEN hex.buf[Len(hex.buf)] ELSE @,
                         !.torn = @ \/ (decipher.hex_flag /\ decipher.read % 2 = 0)]
          [] use.from = "base64" ->
               [d EXCEPT !.fed = @ \o unbase64(decipher.read, n), !.torn = @ \/ n % 4 # 0]

\* The plaintext bytes m + 1 to n that EVP makes of the ciphertext fed.
Deciphered(fed, m, n) ==
    [i \in 1..(n - m) |->
        LET block == ((m + i - 1) \div BlockSize + 1) * BlockSize IN
        IF \A j \in 1..block : fed[j] = j THEN m + i ELSE 0]

\* Without a last character that is incomplete.  When the last character is
\* complete and has more than one byte, the code counts one byte too many.
LengthWithoutIncompleteUtf8(out) ==
    LET tail == {k \in 0..(Len(out) - 1) : \A j \in (Len(out) - k + 1)..Len(out) : Kind(out[j]) = "c"}
        seen == CHOOSE k \in tail : k = Len(out) - 1 \/ Kind(out[Len(out) - k]) # "c"
        answer == Len(out) - seen
        lead == Kind(out[answer])
    IN  CASE lead = "1" -> answer
          [] lead = "2" -> IF seen >= 1 THEN answer + 2 ELSE answer - 1
          [] lead = "3" -> IF seen >= 2 THEN answer + 3 ELSE answer - 1
          [] lead = "4" -> IF seen >= 3 THEN answer + 4 ELSE answer - 1
          [] lead = "c" -> 0

\* The bytes out with one more that is not the text's, if utf8_len exceeds them.
Encoded(out, utf8_len) ==
    IF utf8_len > Len(out) THEN out \o <<0>> ELSE SubSeq(out, 1, utf8_len)

\* EVP holds the last whole block back, since it may be the padding.
DecipherMade(fed) == IF fed = <<>> THEN 0 ELSE ((Len(fed) - 1) \div BlockSize) * BlockSize

\* update with the next n units of the text; it throws without an initialised
\* object.
DecipherUpdate(n) ==
    /\ use.object = "Decipher" /\ decipher.initialised
    /\ decipher.read + n <= TextLength
    /\ LET d == Decoded(n)
           made == DecipherMade(d.fed)
           out == Deciphered(d.fed, decipher.made, made)
           all == decipher.incomplete_utf8 \o out
           utf8_len == LengthWithoutIncompleteUtf8(all)
       IN  IF out = <<>> \/ use.to = "binary"
           THEN /\ decipher' = [d EXCEPT !.made = made]
                /\ text' = text \o out
           ELSE /\ decipher' = [d EXCEPT !.made = made,
                                         !.incomplete_utf8 = SubSeq(all, utf8_len + 1, Len(all))]
                /\ text' = text \o Encoded(all, utf8_len)
    /\ UNCHANGED <<cipher, use>>

\* What final returns: "" when there are no more bytes, even with an overhang.
FinalBytes(out) ==
    IF out = <<>> \/ use.to = "binary" THEN out ELSE decipher.incomplete_utf8 \o out

\* Whether the check of the padding in the last block fails.  The tolerant one,
\* local_EVP_DecryptFinal_ex, only differs in that a last byte 0 stands for no
\* padding, so the zeros of other programs are returned with the text.
PaddingFails ==
    \/ use.pad = "bad"
    \/ use.pad = "zero" /\ (use.final = "final" \/ Len(Plaintext) % BlockSize = 0)

\* The bytes of the last block without its padding: none unless the block is whole
\* and its padding right, which neither a block of the text nor nonsense is.
LastBytes ==
    LET last == decipher.made + BlockSize
        out == Deciphered(decipher.fed, decipher.made, last)
    IN  IF Len(decipher.fed) # last \/ last < CipherLength \/ PaddingFails \/ out[1] = 0 THEN <<>>
        ELSE SubSeq(out, 1, (IF use.pad = "zero" THEN last ELSE Len(Plaintext)) - decipher.made)

\* final or finaltol.  The object cannot be used again: final then returns "".
DecipherFinal ==
    /\ use.object = "Decipher" /\ decipher.initialised
    /\ text' = text \o FinalBytes(LastBytes)
    /\ decipher' = [decipher EXCEPT !.initialised = FALSE, !.over = TRUE]
    /\ UNCHANGED <<cipher, use>>

-----------------------------------------------------------------------------
CipherNext == CipherInit \/ (\E n \in 0..MaxPiece : CipherUpdate(n)) \/ CipherFinal

DecipherNext == DecipherInit \/ (\E n \in 0..MaxPiece : DecipherUpdate(n)) \/ DecipherFinal

CiphersNext == CipherNext \/ DecipherNext

CiphersSpec == CiphersInit /\ [][CiphersNext]_cipherVars

-----------------------------------------------------------------------------
\* The texts of update and final, with the overhang, are the bytes that the
\* cipher made, each once and in order, however the input is cut up; once final
\* was called nothing but an overhang of base64 is missing.
CipherKeepsBytes ==
    use.object = "Cipher" /\ use.out # "unknown" =>
        \/ ~cipher.over /\ text \o cipher.incomplete_base64 = Stretch(0, cipher.made)
        \/ cipher.over /\ Kept(Stretch(0, cipher.made),
                               (1..cipher.made) \ Range(cipher.incomplete_base64)) = text

\* The texts of update and final are the plaintext, apart from the byte too many
\* after a UTF-8 character, as long as no piece tore a unit of the text that the
\* code does not put together again: any characters of base64, and after two odd
\* pieces the digits of hex.
DecipherReturnsPlaintext ==
    LET right == Kept(text, Nat \ {0}) IN
    use.object = "Decipher" /\ ~decipher.torn =>
        /\ right \o (IF decipher.over THEN <<>> ELSE decipher.incomplete_utf8)
             = Stretch(0, Len(right) + (IF decipher.over THEN 0 ELSE Len(decipher.incomplete_utf8)))
        /\ decipher.over /\ decipher.read = TextLength /\ ~PaddingFails =>
             SubSeq(right, 1, Len(Plaintext)) = Stretch(0, Len(Plaintext))

\* No text of update ends within a character of UTF-8.
Utf8TextsAreWhole ==
    LET shown == Kept(text, Nat \ {0})
        next == Len(shown) + 1
    IN  use.object = "Decipher" /\ use.to = "utf8" => Kind(next) # "c"

\* Cipher and Decipher, however the text is cut into updates: no byte is lost between two
\* updates, the pieces joined are the whole, and no piece ends inside a character.
CiphersSafe ==
    /\ CiphersTypeOK
    /\ CipherKeepsBytes
    /\ DecipherReturnsPlaintext
    /\ Utf8TextsAreWhole
=============================================================================
