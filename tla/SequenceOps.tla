---------------------------- MODULE SequenceOps -----------------------------
(***************************************************************************)
(* The few operations on sequences that the models with proofs need.  They *)
(* are InsertAt, RemoveAt, RemoveFirst and FlattenSeq of SequencesExt; a   *)
(* proof would carry all of that module, and those it extends, along with  *)
(* every obligation.                                                       *)
(***************************************************************************)
EXTENDS Integers, Sequences

\* s with e put in at position i, and s without its i-th element.
Inserted(s, i, e) == SubSeq(s, 1, i - 1) \o <<e>> \o SubSeq(s, i, Len(s))
Erased(s, i) == SubSeq(s, 1, i - 1) \o SubSeq(s, i + 1, Len(s))

\* s without e, which occurs in it at most once.
Unlinked(s, e) ==
  IF \E i \in DOMAIN s : s[i] = e THEN Erased(s, CHOOSE i \in DOMAIN s : s[i] = e) ELSE s

\* The sequences that s is a sequence of, one after the other.
Flattened(s) ==
  IF Len(s) = 0 THEN <<>>
  ELSE LET flat[i \in 1 .. Len(s)] == IF i = 1 THEN s[i] ELSE flat[i - 1] \o s[i]
       IN  flat[Len(s)]
=============================================================================
