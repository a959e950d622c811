---------------------------- MODULE MCDocuments ----------------------------
(* Values for the constants of Documents.                                  *)
EXTENDS Documents

CONSTANTS d1, s1

MCOneDoc == {d1}
MCSessions == {s1}
MCOwner == [d \in Docs |-> s1]
=============================================================================
