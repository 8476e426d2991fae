----------------------------- MODULE MCAddresses -----------------------------
(* Small instances of Addresses for TLC.                                   *)
EXTENDS Addresses, TLC

MCSymmetry == Permutations(Request) \cup Permutations(Address \ Saved)
=============================================================================
