---------------------------- MODULE MCPasswords -----------------------------
(* Small instances of Passwords for TLC.                                   *)
EXTENDS Passwords, TLC

MCSymmetry == Permutations(Request) \cup Permutations(PlatformUser) \cup Permutations(Secret)
=============================================================================
