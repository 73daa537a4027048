-------------------------------- MODULE Lists --------------------------------
(***************************************************************************)
(* Walks over linked lists, as recursive functions.                        *)
(***************************************************************************)
EXTENDS Naturals, Sequences

\* What a walk that unlinks the elements outside of S leaves of the list s: left[i]
\* is what it left of the elements before the i-th.
Filter(s, S) ==
  LET left[i \in 1 .. Len(s) + 1] ==
        IF i = 1 THEN <<>>
        ELSE IF s[i - 1] \in S THEN Append(left[i - 1], s[i - 1]) ELSE left[i - 1]
  IN left[Len(s) + 1]
=============================================================================
