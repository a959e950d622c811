----------------------------- MODULE Selections -----------------------------
(***************************************************************************)
(* Selections from a sequence, for Allocation and Chunking.                *)
(***************************************************************************)
EXTENDS Integers, SequencesExt

\* The elements of a sequence that are in a set, in their order.
Only(s, S) == FlattenSeq([i \in DOMAIN s |-> IF s[i] \in S THEN <<s[i]>> ELSE <<>>])
=============================================================================
