------------------------------- MODULE Subseq -------------------------------
(***************************************************************************)
(* Order-preserving selection of elements of a sequence.  The bank's       *)
(* wakeup() moves "all messages of this set" from one list to the back of  *)
(* another in list order.  SelectSeq of the standard module says the same  *)
(* thing recursively; the definition by rank below has no recursion, so    *)
(* facts about it can be proved from cardinalities alone.                  *)
(***************************************************************************)
EXTENDS Integers, Sequences, FiniteSets

(* How many members of K are at or before i: i's place in K when i \in K. *)
Rank(K, i) == Cardinality({j \in K : j <= i})

(* The elements of s at the positions in K, in their order in s. *)
Pick(s, K) ==
  [i \in 1 .. Cardinality(K) |-> s[CHOOSE k \in K : Rank(K, k) = i]]

(* The elements of s that are not at the positions in K. *)
Drop(s, K) == Pick(s, (1 .. Len(s)) \ K)
=============================================================================
