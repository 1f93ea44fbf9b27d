------------------------------ MODULE Selection ------------------------------
(* What a loop over a list with a predicate, given as a set, comes by.     *)
EXTENDS Integers, Sequences

(* The elements of s that are in P, in their order.                        *)
Those(s, P) ==
    LET f[i \in 0 .. Len(s)] ==
            IF i = 0 THEN <<>>
            ELSE IF s[i] \in P THEN Append(f[i - 1], s[i]) ELSE f[i - 1]
    IN  f[Len(s)]
=============================================================================
