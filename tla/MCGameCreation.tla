--------------------------- MODULE MCGameCreation ---------------------------
(***************************************************************************)
(* Instances of GameCreation for TLC: a round of two games in which a      *)
(* plays both, with working and missing tokens.                            *)
(***************************************************************************)
EXTENDS GameCreation

CONSTANTS a, b, c, ab, ca

WhiteOf == [p \in Pairing |-> IF p = ab THEN a ELSE c]
BlackOf == [p \in Pairing |-> IF p = ab THEN b ELSE a]

AllGood == [u \in Player |-> "good"]
OneStranger == [u \in Player |-> IF u = c THEN "absent" ELSE "good"]
=============================================================================
