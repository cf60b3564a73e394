---------------------------- MODULE Subsequences ----------------------------
(***************************************************************************)
(* The loops that walk a sequence and keep some of its elements.  They are *)
(* SelectSeq of a membership test; written as a recursive function, which  *)
(* SelectSeq is not for the prover, they can be reasoned about.            *)
(***************************************************************************)
EXTENDS Naturals, Sequences

\* The elements of s that are in S, in their order.
Within(s, S) ==
    LET upTo[n \in 0..Len(s)] ==
            IF n = 0 THEN <<>>
            ELSE IF s[n] \in S THEN Append(upTo[n - 1], s[n]) ELSE upTo[n - 1]
    IN  upTo[Len(s)]

\* Those of one of these kinds.
OfKind(s, kinds) == Within(s, {s[i] : i \in {j \in DOMAIN s : s[j].kind \in kinds}})
=============================================================================
