--------------------------- MODULE NodeConversions ---------------------------
(***************************************************************************)
(* Two places where node v0.4.4 turns what it is given into another form   *)
(* and hands it on: the command line of a child on Windows, and the text   *)
(* that a Cipher or Decipher makes of the pieces of another.               *)
(***************************************************************************)
EXTENDS NodeChildWin32, NodeCiphers

\* What node turns into another form and hands on: the command line of a child on
\* Windows runs the first program on the path, with its arguments quoted and inside
\* the buffer, and a text that was ciphered or deciphered in pieces, in any
\* encoding, is the whole text.
ConversionsSafe == CommandLineSafe /\ CiphersSafe
=============================================================================
