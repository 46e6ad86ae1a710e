---------------------------- MODULE NodeSequences ----------------------------
(***************************************************************************)
(* Sequences that the components of node go through element by element.   *)
(***************************************************************************)
EXTENDS SequencesExt

\* The elements of s that are in S, in the order of s.
Kept(s, S) == FoldLeft(LAMBDA got, x : IF x \in S THEN Append(got, x) ELSE got, <<>>, s)
=============================================================================
