----------------------------- MODULE Selection -----------------------------
(***************************************************************************)
(* What is left of a sequence when the elements outside a set are passed   *)
(* over: as SelectSeq, by a recursive function that can be proved about.   *)
(***************************************************************************)
EXTENDS Integers, Sequences

(* The elements of a sequence.                                             *)
Elements(s) == {s[i] : i \in DOMAIN s}

(* The elements of s that are in S, in their order (std::remove_if of the  *)
(* others).                                                                *)
Keep(s, S) ==
  LET kept[n \in 0..Len(s)] ==
        IF n = 0 THEN <<>>
        ELSE IF s[n] \in S THEN Append(kept[n - 1], s[n]) ELSE kept[n - 1]
  IN  kept[Len(s)]
=============================================================================
