---------------------------- MODULE MCDistribution ----------------------------
(* Small instances of Distribution: purchases of two buyers out of an inventory
   that cannot serve them all. *)
EXTENDS Distribution, TLC

CONSTANTS b1, b2

SomeCalls == {[buyer |-> b1, amount |-> 1], [buyer |-> b1, amount |-> 2], [buyer |-> b2, amount |-> 2]}

Everyone == Owners

Interchangeable == Permutations(Calculations) \cup Permutations(Readers) \cup Permutations(Requests)
=============================================================================
