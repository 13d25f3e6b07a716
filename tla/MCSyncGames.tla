---------------------------- MODULE MCSyncGames ----------------------------
(***************************************************************************)
(* Instances of SyncGames for TLC: a is white and b black in both pairings; *)
(* rematch is a game of theirs that also fits ab2, their pairing of a later *)
(* round.                                                                   *)
(***************************************************************************)
EXTENDS SyncGames

CONSTANTS a, b, ab, ab2, g, rematch, job, cli, rebuilder

WhiteOf == [p \in Pairing |-> a]
BlackOf == [p \in Pairing |-> b]

(* g is ab's; a rematch fits both pairings. *)
FitsOf == [x \in Game |-> IF x = g THEN Pairing \cap {ab} ELSE Pairing]

(* create-games makes the rematch for the later pairing of the two, if any. *)
CreatedGames == (IF ab2 \in Pairing THEN {ab2} ELSE {ab}) \X {rematch}
=============================================================================
