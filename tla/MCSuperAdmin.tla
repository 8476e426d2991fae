---------------------------- MODULE MCSuperAdmin -----------------------------
(* Small instances of SuperAdmin for TLC.                                  *)
EXTENDS SuperAdmin, TLC

CONSTANTS a1, a2, a3, a4, u1, u2, u3

(* The founder, two members, and a second account of the third user.       *)
MCUserOf == (a1 :> u1) @@ (a2 :> u2) @@ (a3 :> u3) @@ (a4 :> u3)

MCSymmetry == Permutations(Request)
=============================================================================
