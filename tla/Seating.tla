------------------------------ MODULE Seating ------------------------------
(***************************************************************************)
(* What internal/pairing promises the rounds it generates: who plays, how  *)
(* often, against whom.  Rounds relies on it without the solvers, and      *)
(* Blossom is checked to keep it.  A game is any record with the two       *)
(* fields white and black.                                                 *)
(***************************************************************************)
EXTENDS Integers, FiniteSets

GamesOf(pairs, p) == {m \in pairs : p \in {m.white, m.black}}

(* Exactly one game, and a volunteer's two: one of each colour, against two opponents. *)
PlaysOnce(pairs, p) == \E m \in pairs : GamesOf(pairs, p) = {m}

PlaysTwice(pairs, p) ==
    \E m, n \in pairs :
        /\ GamesOf(pairs, p) = {m, n}
        /\ {m.white, m.black} \cap {n.white, n.black} = {p}

OneOfEachColour(pairs, p) ==
    \E m, n \in pairs : m.white = p /\ n.black = p

(* chooseVolunteer before chooseBye for an odd pool; which of the valid      *)
(* volunteers, or which bye, is rotation and left open here.                 *)
OddOutcomes(pool, volunteers, strategy) ==
    CASE Cardinality(pool) % 2 = 0 -> {[byes |-> {}, doubles |-> {}]}
      [] /\ Cardinality(pool) % 2 = 1
         /\ strategy = "double_then_bye" /\ Cardinality(pool) >= 3
         /\ volunteers # {} -> {[byes |-> {}, doubles |-> {v}] : v \in volunteers}
      [] OTHER -> {[byes |-> {b}, doubles |-> {}] : b \in pool}

(* pairing.Generate's promise: the volunteer twice, the bye not at all,      *)
(* everybody else in the pool once.  Which matching is the solver's business. *)
Seated(pairs, pool, odd) ==
    /\ \A p \in odd.byes : GamesOf(pairs, p) = {}
    /\ \A p \in odd.doubles : PlaysTwice(pairs, p) /\ OneOfEachColour(pairs, p)
    /\ \A p \in pool \ (odd.byes \cup odd.doubles) : PlaysOnce(pairs, p)
=============================================================================
