-------------------------- MODULE MCPlatformInvites --------------------------
(* Small instances of PlatformInvites for TLC.                             *)
EXTENDS PlatformInvites, TLC

MCSymmetry == Permutations(Request)
=============================================================================
