------------------------------ MODULE Sublists ------------------------------
(***************************************************************************)
(* The part of a sequence that is left when some of its elements are taken *)
(* out: Array.filter, and what deleting keys of an object or detaching     *)
(* items of a list leaves of it.  It is SelectSeq, defined by the          *)
(* positions that stay and without recursion.                              *)
(***************************************************************************)
EXTENDS Naturals, Sequences, FiniteSets

Elems(s) == {s[i] : i \in DOMAIN s}

\* The k-th of the positions I.
Position(I, k) == CHOOSE i \in I : Cardinality({j \in I : j <= i}) = k

Pick(s, I) == [k \in 1 .. Cardinality(I) |-> s[Position(I, k)]]

Without(s, Test(_)) == Pick(s, {i \in DOMAIN s : ~ Test(s[i])})

=============================================================================
