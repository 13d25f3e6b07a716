------------------------------ MODULE MCRounds ------------------------------
(***************************************************************************)
(* Instances of Rounds for TLC: the caps of three members, and sessions     *)
(* that are interchangeable (no action and no safety property tells them    *)
(* apart).                                                                  *)
(***************************************************************************)
EXTENDS Rounds, TLC

CONSTANTS a, b, c, cron, click

UncappedMembers == [p \in Player |-> NoCap]
CapOne == [p \in Player |-> IF p = a THEN 1 ELSE NoCap]

AnySession == Permutations(Generator)
=============================================================================
