---------------------------- MODULE MCMembership -----------------------------
(* Small instances of Membership for TLC.                                  *)
EXTENDS Membership, TLC

CONSTANTS u1, u2, m1, m2

MCMappingOf == (u1 :> m1) @@ (u2 :> m2)

(* A PATCH names a user, a business, a role, a status, or user and role.   *)
Nothing == [business |-> None, user |-> None, role |-> None, status |-> FALSE]

MCBody ==
    {[Nothing EXCEPT !.user = Owner, !.role = k] : k \in {OwnerRole, None}}
    \cup {[Nothing EXCEPT !.role = OwnerRole], [Nothing EXCEPT !.status = TRUE]}
    \cup {[Nothing EXCEPT !.business = b] : b \in Business \ {Home}}

MCSymmetry == Permutations(Request) \cup Permutations(Mapping \ {m1, m2})
                \cup Permutations(Business \ {Home})
=============================================================================
