----------------------------- MODULE MCActivity -----------------------------
(***************************************************************************)
(* An instance of Activity for TLC: b has two challenges to accept in the  *)
(* first round, as its volunteer, and one in the second.                   *)
(***************************************************************************)
EXTENDS Activity

CONSTANTS a, b, c, ab1, cb1, ab2

WhiteOf == [p \in Pairing |-> IF p = cb1 THEN c ELSE a]
BlackOf == [p \in Pairing |-> b]
RoundNumber == [p \in Pairing |-> IF p = ab2 THEN 2 ELSE 1]
=============================================================================
