--------------------------- MODULE PairingEngine ---------------------------
(***************************************************************************)
(* The pure part of internal/pairing: the pool, the odd player out, what a *)
(* pair costs, the greedy solver and the colours.  Blossom has the other   *)
(* solver, which runs in steps, and joins the two in Generate.             *)
(*                                                                         *)
(* A player is a record of what loadPool reads; players are numbered in    *)
(* the order of their ids, and a round number of 0 is one they never had.  *)
(* A mutant is a way the code could be wrong; nothing here uses one.       *)
(***************************************************************************)
EXTENDS Seating, Sequences, SequencesExt

CONSTANT NoCap   \* the NULL cap: unlimited

Abs(n) == IF n < 0 THEN -n ELSE n

(* Lexicographic order on triples: every total order of the engine is one. *)
Precedes(x, y) ==
    \/ x[1] < y[1]
    \/ x[1] = y[1] /\ x[2] < y[2]
    \/ x[1] = y[1] /\ x[2] = y[2] /\ x[3] < y[3]

First(S, Key(_)) == CHOOSE x \in S : \A y \in S \ {x} : Precedes(Key(x), Key(y))

SortedBy(S, Key(_)) ==
    [k \in 1..Cardinality(S) |->
        CHOOSE x \in S : Cardinality({y \in S : Precedes(Key(y), Key(x))}) = k - 1]

-----------------------------------------------------------------------------
(* buildPool, and the odd pool's volunteer or bye. *)

CapacityAllows(cap, ongoing) == cap = NoCap \/ ongoing < cap

ReasonOf(player) ==
    CASE player.status # "active" -> player.status
      [] player.status = "active" /\ ~CapacityAllows(player.cap, player.inFlight) -> "at_capacity"
      [] OTHER -> "none"

Pool(players) == {p \in DOMAIN players : ReasonOf(players[p]) = "none"}

Volunteers(players, pool) ==
    {p \in pool : players[p].accepts /\ CapacityAllows(players[p].cap, players[p].inFlight + 1)}

(* moreDueDouble and moreDueBye: the round they last had one, how many, the id. *)
ChooseVolunteer(players, volunteers) ==
    First(volunteers, LAMBDA p : <<players[p].lastDouble, players[p].doubles, p>>)

ChooseBye(players, pool) ==
    First(pool, LAMBDA p : <<players[p].lastBye, players[p].byes, p>>)

OddOutcome(players, cfg) ==
    LET pool == Pool(players)
        volunteers == Volunteers(players, pool)
    IN  CASE Cardinality(pool) % 2 = 0 -> [byes |-> {}, doubles |-> {}]
          [] /\ Cardinality(pool) % 2 = 1
             /\ cfg.oddPool # "bye_only" /\ Cardinality(pool) >= 3
             /\ volunteers # {}
             -> [byes |-> {}, doubles |-> {ChooseVolunteer(players, volunteers)}]
          [] OTHER -> [byes |-> {ChooseBye(players, pool)}, doubles |-> {}]

-----------------------------------------------------------------------------
(* Costs.  A history is a set of meetings [pair, number].                  *)

LastMet(history, a, b) == Max({0} \cup {h.number : h \in {x \in history : x.pair = {a, b}}})

(* Mutant: the window one round short. *)
RepeatOfShort(history, a, b, cfg) ==
    LET number == LastMet(history, a, b)
    IN  IF cfg.avoid <= 0 \/ number = 0 \/ number <= cfg.number - cfg.avoid THEN 0 ELSE number

(* repeatOf: the round a and b last met in, if within the window, else 0. *)
RepeatOf(history, a, b, cfg) ==
    LET number == LastMet(history, a, b)
    IN  IF cfg.avoid <= 0 \/ number = 0 \/ number < cfg.number - cfg.avoid THEN 0 ELSE number

LeftoverImbalance(white, black) == Abs(white.colour + 1) + Abs(black.colour - 1)

(* colourPenalty: the argmin, then the lower rated, then the lower id has white. *)
AWhite(players, a, b) ==
    LET aFirst == LeftoverImbalance(players[a], players[b])
        bFirst == LeftoverImbalance(players[b], players[a])
    IN  Precedes(<<aFirst, players[a].power, a>>, <<bFirst, players[b].power, b>>)

AssignColours(players, a, b) ==
    IF AWhite(players, a, b) THEN [white |-> a, black |-> b] ELSE [white |-> b, black |-> a]

PairCost(players, history, cfg, a, b) ==
    LET seated == AssignColours(players, a, b)
    IN  Abs(players[a].power - players[b].power)
        + cfg.colourWeight * LeftoverImbalance(players[seated.white], players[seated.black])
        + IF RepeatOf(history, a, b, cfg) = 0 THEN 0 ELSE cfg.repeatPenalty

(* The slots in the engine's order, strongest first; the volunteer's second is last. *)
Slots(players, odd) ==
    SortedBy(Pool(players) \ odd.byes, LAMBDA p : <<-players[p].power, p, 0>>)
    \o SetToSeq(odd.doubles)

(* The cost of every pair of slots, and which may be matched. *)
BuildGraph(players, history, cfg) ==
    LET slots == Slots(players, OddOutcome(players, cfg))
        N == DOMAIN slots
    IN  [slots |-> slots,
         cost |-> [i \in N |-> [j \in N |->
                      IF slots[i] = slots[j] THEN 0
                      ELSE PairCost(players, history, cfg, slots[i], slots[j])]],
         edges |-> {e \in {{i, j} : i, j \in N} : \E i, j \in e : slots[i] # slots[j]}]

(* Solver.Match: every slot paired exactly once, along an edge. *)
Perfect(g, matched) ==
    /\ matched \subseteq g.edges
    /\ \A i \in DOMAIN g.slots : \E e \in matched : {x \in matched : i \in x} = {e}

-----------------------------------------------------------------------------
(* What makes a matching a cheapest one. *)

TotalCost(g, matched) == SumFunction([e \in matched |-> g.cost[Min(e)][Max(e)]])

(* newMatcher: each edge weighs M - cost, M above every cost. *)
Costs(g) == {g.cost[i][j] : i, j \in DOMAIN g.slots}

Weights(g) ==
    LET N == DOMAIN g.slots
        M == Max(Costs(g)) + 1
    IN  [i \in N |-> [j \in N |-> M - g.cost[i][j]]]

(* The slack of an edge, the duals z of the blossoms it is inside included. *)
EdgeSlack(weight, dual, inside, z, e) ==
    dual[Min(e)] + dual[Max(e)] - 2 * weight[Min(e)][Max(e)]
        + 2 * SumFunctionOnSet(z, {b \in DOMAIN inside : e \subseteq inside[b]})

(* verifyOptimum's linear-programming certificate: no edge has negative      *)
(* slack, matched edges are tight, no blossom has a negative dual, and one   *)
(* with a positive dual is full (all of its slots but one are matched inside *)
(* it, which verifyOptimum reads off every other edge of its cycle).         *)
Certified(g, weight, dual, inside, z, matched) ==
    /\ \A e \in g.edges : EdgeSlack(weight, dual, inside, z, e) >= 0
    /\ \A e \in matched : EdgeSlack(weight, dual, inside, z, e) = 0
    /\ \A b \in DOMAIN inside :
          /\ z[b] >= 0
          /\ z[b] > 0 => 2 * Cardinality({e \in matched : e \subseteq inside[b]})
                             = Cardinality(inside[b]) - 1

-----------------------------------------------------------------------------
(* Greedy.Match. *)

(* Mutant: any free slot, the volunteer's own twin at no cost included. *)
CheapestPartnerOrSelf(g, i, free) ==
    First(free, LAMBDA j : <<g.cost[i][j], g.slots[j], j>>)

CheapestPartner(g, i, free) ==
    First({j \in free : {i, j} \in g.edges}, LAMBDA j : <<g.cost[i][j], g.slots[j], j>>)

MatchSlot(g, state, i) ==
    IF i \notin state.free THEN state
    ELSE LET partner == CheapestPartner(g, i, state.free \ {i})
         IN  [free |-> state.free \ {i, partner}, pairs |-> state.pairs \cup {{i, partner}}]

(* duplicateSlots: the volunteer's two, whose partners are found first, and  *)
(* never in each other's slot.                                               *)
DuplicateSlots(g) == {i \in DOMAIN g.slots : \E j \in DOMAIN g.slots \ {i} : g.slots[i] = g.slots[j]}

(* The slots in the order they look for a partner: those two, then all. *)
GreedyOrder(g) ==
    SortedBy(DuplicateSlots(g), LAMBDA i : <<i, 0, 0>>) \o [i \in DOMAIN g.slots |-> i]

GreedyMatch(g) ==
    LET order == GreedyOrder(g)
        State[k \in 0..Len(order)] ==
            IF k = 0 THEN [free |-> DOMAIN g.slots, pairs |-> {}]
            ELSE MatchSlot(g, State[k - 1], order[k])
    IN  State[Len(order)].pairs

-----------------------------------------------------------------------------
(* Colours and diagnostics of the matched slots. *)

(* The games in display order: by the places of their two players in the pool. *)
InOrder(g, matched) ==
    LET Place(i) == Min({j \in DOMAIN g.slots : g.slots[j] = g.slots[i]})
        Places(m) == {Place(i) : i \in m}
    IN  SortedBy(matched, LAMBDA x : <<Min(Places(x)), Max(Places(x)), 0>>)

OpponentOf(game, p) == IF game.white = p THEN game.black ELSE game.white

(* assignDoubleColours: one white and one black, the way round that leaves   *)
(* the two opponents better balanced, then the first game's own tie-break.   *)
DoubleColours(players, games, v) ==
    LET mine == {i \in DOMAIN games : v \in {games[i].white, games[i].black}}
        i == Min(mine)
        j == Max(mine)
        first == OpponentOf(games[i], v)
        second == OpponentOf(games[j], v)
        whiteFirst == Abs(players[first].colour - 1) + Abs(players[second].colour + 1)
        blackFirst == Abs(players[first].colour + 1) + Abs(players[second].colour - 1)
        VolunteerWhite(opponent) == [white |-> v, black |-> opponent]
        VolunteerBlack(opponent) == [white |-> opponent, black |-> v]
    IN  IF whiteFirst < blackFirst \/ (whiteFirst = blackFirst /\ AWhite(players, v, first))
        THEN [games EXCEPT ![i] = VolunteerWhite(first), ![j] = VolunteerBlack(second)]
        ELSE [games EXCEPT ![i] = VolunteerBlack(first), ![j] = VolunteerWhite(second)]

(* Mutant: the volunteer's two games coloured one by one. *)
ColoursOneByOne(players, g, odd, matched) ==
    LET order == InOrder(g, matched)
    IN  [k \in DOMAIN order |->
            LET i == Min(order[k]) j == Max(order[k])
            IN  AssignColours(players, g.slots[i], g.slots[j])]

Coloured(players, g, odd, matched) ==
    LET order == InOrder(g, matched)
        games == [k \in DOMAIN order |->
                     LET i == Min(order[k]) j == Max(order[k])
                     IN  AssignColours(players, g.slots[i], g.slots[j])]
    IN  IF odd.doubles = {} THEN games
        ELSE DoubleColours(players, games, CHOOSE v \in odd.doubles : TRUE)

(* newPairing: the diagnostics stored with each game. *)
Diagnosed(players, history, cfg, game) ==
    [white |-> game.white, black |-> game.black,
     gap |-> Abs(players[game.white].power - players[game.black].power),
     penalty |-> LeftoverImbalance(players[game.white], players[game.black]),
     repeat |-> RepeatOf(history, game.white, game.black, cfg)]

(* Mutant: the diagnostics of the games before the volunteer's are coloured. *)
GenerateUncoloured(players, history, cfg, g, matched) ==
    LET odd == OddOutcome(players, cfg)
        before == ColoursOneByOne(players, g, odd, matched)
        games == Coloured(players, g, odd, matched)
        Stale(k) == Diagnosed(players, history, cfg, before[k])
    IN  [pairings |-> [k \in DOMAIN games |->
                          [Stale(k) EXCEPT !.white = games[k].white, !.black = games[k].black]],
         byes |-> odd.byes, doubles |-> odd.doubles,
         excluded |-> [p \in DOMAIN players |->
                          IF p \in odd.byes THEN "bye" ELSE ReasonOf(players[p])],
         poolSize |-> Cardinality(Pool(players))]

(* Generate, from the matching a solver found. *)
Generate(players, history, cfg, g, matched) ==
    LET odd == OddOutcome(players, cfg)
        games == Coloured(players, g, odd, matched)
    IN  [pairings |-> [k \in DOMAIN games |-> Diagnosed(players, history, cfg, games[k])],
         byes |-> odd.byes, doubles |-> odd.doubles,
         excluded |-> [p \in DOMAIN players |->
                          IF p \in odd.byes THEN "bye" ELSE ReasonOf(players[p])],
         poolSize |-> Cardinality(Pool(players))]
=============================================================================
