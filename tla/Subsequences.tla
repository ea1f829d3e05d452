---------------------------- MODULE Subsequences ----------------------------
(***************************************************************************)
(* What Array.prototype.filter leaves of a list, by the positions kept     *)
(* instead of a test on the elements: the form the proofs can reason about *)
(* (SelectSeq of Sequences is recursive).                                  *)
(***************************************************************************)
EXTENDS Naturals, Sequences, FiniteSets

(* The positions of I up to i, and the k-th one *)
UpTo(I, i) == {j \in I : j <= i}
Nth(I, k) == CHOOSE i \in I : Cardinality(UpTo(I, i)) = k

(* The subsequence of q at the positions I. *)
Kept(q, I) == [k \in 1 .. Cardinality(I) |-> q[Nth(I, k)]]
=============================================================================
