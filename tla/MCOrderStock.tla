---------------------------- MODULE MCOrderStock -----------------------------
(* Small instances of OrderStock for TLC.                                  *)
EXTENDS OrderStock, TLC

(* All variants of an instance belong to its one listing.                  *)
MCListingOf == [v \in Variant |-> CHOOSE l \in Listing : TRUE]

MCScarceStock == [v \in Variant |-> 1]

(* Requests, orders and variants are interchangeable at the start.         *)
MCSymmetry == Permutations(Request) \cup Permutations(Order) \cup Permutations(Variant)
=============================================================================
