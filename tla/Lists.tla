-------------------------------- MODULE Lists --------------------------------
(***************************************************************************)
(* A loop over a list that keeps some of its elements, in their order.     *)
(***************************************************************************)
EXTENDS Naturals, Sequences

Keep(s, S) ==
    LET K[i \in 0..Len(s)] == IF i = 0 THEN <<>>
                              ELSE IF s[i] \in S THEN Append(K[i - 1], s[i])
                              ELSE K[i - 1]
    IN K[Len(s)]
=============================================================================
