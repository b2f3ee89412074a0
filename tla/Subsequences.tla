---------------------------- MODULE Subsequences ----------------------------
(***************************************************************************)
(* Array.prototype.filter, by the positions that stay: what SelectSeq      *)
(* yields, in a form without recursion that proofs can use.                *)
(***************************************************************************)
EXTENDS Naturals, FiniteSets

(* The place of a position among those that stay, and the n-th of them.    *)
Rank(kept, i) == Cardinality({j \in kept : j <= i})

Nth(kept, n) == CHOOSE i \in kept : Rank(kept, i) = n

ElementsAt(s, kept) == [n \in 1..Cardinality(kept) |-> s[Nth(kept, n)]]
=============================================================================
