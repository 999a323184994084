----------------------------- MODULE MCOrderStore -----------------------------
(* OrderStore on small sets of sessions, parents, products and orders. *)
EXTENDS OrderStore, TLC

\* Sessions, parents, products and order ids are interchangeable.
Interchangeable == Permutations(Sessions) \cup Permutations(Users) \cup Permutations(Products) \cup Permutations(OrderIds)
=============================================================================
