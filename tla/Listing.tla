------------------------------ MODULE Listing ------------------------------
(***************************************************************************)
(* Sets of numbers as sequences, from the least on, and what a filter      *)
(* keeps of a sequence: Vec::retain, Iterator::filter and the sorts of the *)
(* code, in a form that can be reasoned about.                             *)
(***************************************************************************)
EXTENDS Naturals, Sequences, FiniteSets

(* The numbers of a finite set, from the least on. *)
InOrder(S) == [k \in 1 .. Cardinality(S) |->
                 CHOOSE i \in S : Cardinality({j \in S : j < i}) = k - 1]

(* What stands at the places S of a sequence, in its order. *)
Picked(s, S) == LET places == InOrder(S) IN [k \in DOMAIN places |-> s[places[k]]]
=============================================================================
