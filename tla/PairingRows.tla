---------------------------- MODULE PairingRows ----------------------------
(***************************************************************************)
(* A row of the pairings table of a published round, the lists the jobs    *)
(* select rows by, and the UPDATE statements they change a row with.  Each *)
(* statement is one operator from a row to the row it leaves: a WHERE      *)
(* clause that does not hold leaves the row as it was.                     *)
(***************************************************************************)
CONSTANT NoGame   \* the NULL game id

Method == {"manual_external", "bulk", "challenge"}
Status == {"pending", "created", "in_progress", "completed", "failed"}

RowOf(gameIds) ==
    [method : Method, status : Status, game : gameIds \cup {NoGame}, ambiguous : BOOLEAN]

(* A pairing as its round's publication leaves it. *)
FreshRow == [method |-> "manual_external", status |-> "pending",
             game |-> NoGame, ambiguous |-> FALSE]

(* Mutant: the game id not looked at. *)
UnmatchedPending(row) == row.status = "pending" /\ ~row.ambiguous

(* ListUnmatchedPairings: what sync-games searches a game for. *)
Unmatched(row) == row.status = "pending" /\ row.game = NoGame /\ ~row.ambiguous

(* ListPairingsToCreate: what create-games makes a game for. *)
ToCreate(row) == Unmatched(row) /\ row.method = "manual_external"

(* Mutant: only the games fetched before. *)
ToRecheckInProgress(row) == row.game # NoGame /\ row.status = "in_progress"

(* ListPairingsToRecheck: what sync-games fetches by its game id. *)
ToRecheck(row) == row.game # NoGame /\ row.status \notin {"completed", "failed"}

(* Mutant: the guard on the status forgotten. *)
RecordableAnyStatus(row) == row.game = NoGame

(* The guard of RecordCreatedGame and RecordChallenge. *)
Recordable(row) == row.status = "pending" /\ row.game = NoGame

RecordCreatedGame(row, g) ==
    IF Recordable(row)
    THEN [row EXCEPT !.method = "bulk", !.status = "created", !.game = g] ELSE row

RecordChallenge(row, g) ==
    IF Recordable(row) THEN [row EXCEPT !.method = "challenge", !.game = g] ELSE row

(* sync-games' statements have no guard. *)
AttachGameToPairing(row, g, status) == [row EXCEPT !.game = g, !.status = status]
MarkPairingAmbiguous(row) == [row EXCEPT !.ambiguous = TRUE]
MarkPairingFailed(row) == [row EXCEPT !.status = "failed"]

(* The admin's Mark failed. *)
MarkPublishedPairingFailed(row) ==
    IF row.status = "pending" THEN [row EXCEPT !.status = "failed"] ELSE row

(* matching.Match on the games not taken: the only one, or too many to choose. *)
MatchFound(eligible, g) == eligible = {g}
MatchAmbiguous(eligible) == \E g, h \in eligible : g # h
=============================================================================
