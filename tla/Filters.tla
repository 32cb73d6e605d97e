------------------------------- MODULE Filters -------------------------------
(***************************************************************************)
(* Array.prototype.filter: the elements of s that are in T, in their order.*)
(* SequencesExt is reached by the name Seqs.                               *)
(***************************************************************************)
EXTENDS Sequences
Seqs == INSTANCE SequencesExt

Filtered(s, T) == Seqs!FlattenSeq([i \in DOMAIN s |-> IF s[i] \in T THEN <<s[i]>> ELSE <<>>])
==============================================================================
