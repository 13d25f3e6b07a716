---------------------------- MODULE MCMembership ----------------------------
(***************************************************************************)
(* An instance of Membership for TLC: alice is an admin, bob applies.      *)
(***************************************************************************)
EXTENDS Membership

CONSTANTS alice, bob, b1, b2, validate, probe
=============================================================================
