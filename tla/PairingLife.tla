---------------------------- MODULE PairingLife ----------------------------
(***************************************************************************)
(* What a published round promises the players of its pairings, whatever   *)
(* jobs, admins and players do, and however often a job stops half way and *)
(* starts again: the league has a pairing's game made once; it gives a     *)
(* game or a challenge only to a pairing that waits for one, only while it *)
(* makes games, and with the word that fits; a game found on Lichess takes *)
(* the place of what was given only if the search for it began before; and *)
(* once the league makes no more games, everyone who waits has been told   *)
(* to start theirs.  It knows no run, token or attempt, and no list but    *)
(* that of the pairings searched for.                                      *)
(***************************************************************************)
CONSTANTS
    Pairing,   \* the round's pairings
    NoGame     \* no game yet

VARIABLES
    stage,     \* open, unclear, given, playing or failed
    game,      \* the game or challenge the round page shows
    word,      \* what the players were last told of it
    made,      \* the pairings the league has had a game made for
    making,    \* whether the league makes the round's games
    sought     \* the pairings a search under way may still find a game for

vars == <<stage, game, word, made, making, sought>>

Waiting == {p \in Pairing : stage[p] \in {"open", "unclear"}}

Init ==
    /\ stage = [p \in Pairing |-> "open"]
    /\ game = [p \in Pairing |-> NoGame]
    /\ word = [p \in Pairing |-> "none"]
    /\ made = {}
    /\ making = TRUE
    /\ sought = {}

(* A game nobody else plays. *)
Gets(p) == game'[p] # NoGame /\ \A q \in Pairing \ {p} : game'[q] # game'[p]

(* Searches end whenever they like, with their pairings or without. *)
NoNewSearch == sought' \subseteq sought

Seek ==
    /\ sought' \subseteq sought \cup {p \in Pairing : stage[p] = "open" /\ game[p] = NoGame}
    /\ UNCHANGED <<stage, game, word, made, making>>

Submit(some) ==
    /\ making
    /\ some \cap made = {}
    /\ made' = made \cup some
    /\ NoNewSearch
    /\ UNCHANGED <<stage, game, word, making>>

Give(some, how) ==
    /\ making
    /\ some \subseteq Waiting
    /\ how = "bulk" => some \subseteq made
    /\ \A p \in some : Gets(p)
    /\ stage' = [p \in Pairing |-> IF p \in some THEN "given" ELSE stage[p]]
    /\ game' = [p \in Pairing |-> IF p \in some THEN game'[p] ELSE game[p]]
    /\ word' = [p \in Pairing |-> IF p \in some THEN how ELSE word[p]]
    /\ NoNewSearch
    /\ UNCHANGED <<made, making>>

(* A game of the two players, taken for the pairing's. *)
Find(p) ==
    /\ p \in sought
    /\ Gets(p)
    /\ stage' = [stage EXCEPT ![p] = "playing"]
    /\ game' = [game EXCEPT ![p] = game'[p]]
    /\ NoNewSearch
    /\ UNCHANGED <<word, made, making>>

(* Games that could each be the pairing's: an admin chooses.  What it was  *)
(* given since stays.                                                      *)
Doubt(p) ==
    /\ p \in sought
    /\ stage' = [stage EXCEPT ![p] = IF @ = "open" THEN "unclear" ELSE @]
    /\ NoNewSearch
    /\ UNCHANGED <<game, word, made, making>>

Start(p) ==
    /\ stage[p] = "given"
    /\ stage' = [stage EXCEPT ![p] = "playing"]
    /\ NoNewSearch
    /\ UNCHANGED <<game, word, made, making>>

(* A game made in bulk has been made, and is not failed. *)
Fail(p) ==
    /\ p \in Waiting \/ (stage[p] = "given" /\ word[p] = "challenge")
    /\ stage' = [stage EXCEPT ![p] = "failed"]
    /\ NoNewSearch
    /\ UNCHANGED <<game, word, made, making>>

Close ==
    /\ making
    /\ making' = FALSE
    /\ word' = [p \in Pairing |-> IF stage[p] = "open" THEN "by_hand" ELSE word[p]]
    /\ NoNewSearch
    /\ UNCHANGED <<stage, game, made>>

Reopen ==
    /\ ~making
    /\ making' = TRUE
    /\ NoNewSearch
    /\ UNCHANGED <<stage, game, word, made>>

Next ==
    \/ Seek
    \/ \E some \in SUBSET Pairing : Submit(some) \/ Give(some, "bulk")
    \/ \E p \in Pairing :
          Give({p}, "challenge") \/ Find(p) \/ Doubt(p) \/ Start(p) \/ Fail(p)
    \/ Close
    \/ Reopen

Spec == Init /\ [][Next]_vars
=============================================================================
