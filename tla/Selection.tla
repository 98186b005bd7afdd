----------------------------- MODULE Selection -----------------------------
(***************************************************************************)
(* Some elements of a sequence, in their order: the records a loop copies, *)
(* the variables a SAVE writes, the procedures a scan of the tokens finds. *)
(***************************************************************************)
EXTENDS Naturals, Sequences

\* Of the first n elements of s those at the positions in S.
Chosen(s, S, n) ==
    LET chosen[i \in Nat] == IF i = 0 THEN << >>
                             ELSE IF i \in S THEN Append(chosen[i - 1], s[i])
                             ELSE chosen[i - 1]
    IN  chosen[n]
=============================================================================
