------------------------------ MODULE Sublists ------------------------------
(* What the pages of the web client make of lists and sets: what Array.filter        *)
(* leaves, written as a recursive function, so that proofs can reason about it, and  *)
(* the lists that hold each element of a set once.                                   *)
EXTENDS Integers, Sequences, FiniteSets

\* The elements of s at the positions in K, in their order.
Kept(s, K) ==
    LET prefix[k \in 0..Len(s)] ==
          IF k = 0 THEN <<>>
          ELSE IF k \in K THEN Append(prefix[k - 1], s[k]) ELSE prefix[k - 1]
    IN  prefix[Len(s)]

\* The orders in which the elements of a set can come.
Orders(set) ==
    {s \in [1..Cardinality(set) -> set] :
       \A c \in set : \E k \in DOMAIN s : \A j \in DOMAIN s : s[j] = c <=> j = k}
=============================================================================
