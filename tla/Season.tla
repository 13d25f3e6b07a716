-------------------------------- MODULE Season --------------------------------
(***************************************************************************)
(* The league's rounds as one pool read after another sees them, whatever  *)
(* the solver: who is away, whose turn the bye is, who met whom how long   *)
(* ago.  Blossom adds the solver and implements this specification.        *)
(*                                                                         *)
(* Who meets whom is left open, but for what a perfect matching of the     *)
(* slots makes sure of.  The rest of a result is what Generate makes of    *)
(* the pool and the history.  Rounds are generated and published one       *)
(* after another.  A mutant is a way the code could be wrong; no action    *)
(* uses one.                                                               *)
(***************************************************************************)
EXTENDS PairingEngine

CONSTANTS
    Leagues,      \* the leagues to start from: [players, history, cfg]
    Absences,     \* bound: the sets of players who may be away for a round
    MaxRounds,    \* bound: how many rounds are generated in a row
    Gaps          \* bound: how many numbers a next round may skip

Status == {"active", "inactive", "paused", "auto_paused", "no_valid_token"}

Player == [status : Status, power : Int, colour : Int, inFlight : Nat,
           cap : Nat \cup {NoCap}, accepts : BOOLEAN,
           lastDouble : Nat, lastBye : Nat, doubles : Nat, byes : Nat]

Config == [number : Nat \ {0}, avoid : Nat, colourWeight : Nat, repeatPenalty : Nat,
           oddPool : {"double_then_bye", "bye_only"}, solver : {"greedy", "blossom"}]

(* What the pool's queries read for round n speaks of rounds before it. *)
IsLeague(l) ==
    /\ l = [players |-> l.players, history |-> l.history, cfg |-> l.cfg]
    /\ DOMAIN l.players \subseteq Nat /\ IsFiniteSet(DOMAIN l.players)
    /\ l.players \in [DOMAIN l.players -> Player]
    /\ l.cfg \in Config
    /\ \A p \in DOMAIN l.players : l.players[p].lastBye < l.cfg.number
    /\ \A h \in l.history : h.number \in Nat /\ h.number < l.cfg.number

ASSUME SeasonAssumption ==
    /\ NoCap \notin Int
    /\ MaxRounds \in Nat
    /\ Gaps \subseteq Nat
    /\ \A l \in Leagues : IsLeague(l)

VARIABLES
    league,    \* the members, who met whom, and the settings
    results    \* auxiliary: the rounds published so far

seasonVars == <<league, results>>

(* loadPool: who is active on the day. *)
Assemble(absent) ==
    /\ Len(results) < MaxRounds
    /\ league' = [league EXCEPT !.players =
                     [p \in DOMAIN @ |-> [@[p] EXCEPT !.status =
                         IF p \in absent THEN "inactive" ELSE "active"]]]
    /\ UNCHANGED results

(* Mutant: a bye not remembered. *)
PlayedNoByes(players, result, number) ==
    [p \in DOMAIN players |-> [players[p] EXCEPT
        !.colour = @ + Cardinality({k \in DOMAIN result.pairings : result.pairings[k].white = p})
                     - Cardinality({k \in DOMAIN result.pairings : result.pairings[k].black = p}),
        !.doubles = IF p \in result.doubles THEN @ + 1 ELSE @,
        !.lastDouble = IF p \in result.doubles THEN number ELSE @]]

(* A published round as the next pool reads it: its byes and doubles, and    *)
(* the colour scores once its games are over.                                *)
Played(players, result, number) ==
    [p \in DOMAIN players |-> [players[p] EXCEPT
        !.colour = @ + Cardinality({k \in DOMAIN result.pairings : result.pairings[k].white = p})
                     - Cardinality({k \in DOMAIN result.pairings : result.pairings[k].black = p}),
        !.byes = IF p \in result.byes THEN @ + 1 ELSE @,
        !.lastBye = IF p \in result.byes THEN number ELSE @,
        !.doubles = IF p \in result.doubles THEN @ + 1 ELSE @,
        !.lastDouble = IF p \in result.doubles THEN number ELSE @]]

(* ListRecentOpponents: the meetings of the last published rounds, however   *)
(* they are numbered.                                                        *)
Recent(meetings, number, window) ==
    LET numbers == {h.number : h \in {x \in meetings : x.number < number}}
    IN  {h \in meetings : h.number \in numbers /\ Cardinality({x \in numbers : x > h.number}) < window}

Meetings(result, number) ==
    {[pair |-> {result.pairings[k].white, result.pairings[k].black}, number |-> number] :
        k \in DOMAIN result.pairings}

(* The round is published, and played; the next has a later number. *)
PublishRound(result, gap) ==
    LET number == league.cfg.number
        next == number + 1 + gap
    IN  /\ results' = Append(results, [number |-> number, members |-> league.players,
                                       history |-> league.history, result |-> result])
        /\ league' = [players |-> Played(league.players, result, number),
                      history |-> Recent(league.history \cup Meetings(result, number), next,
                                         league.cfg.avoid),
                      cfg |-> [league.cfg EXCEPT !.number = next]]

(* What Generate returns, but for who meets whom. *)
Outcome(result) ==
    LET players == league.players
        odd == OddOutcome(players, league.cfg)
    IN  /\ result.byes = odd.byes
        /\ result.doubles = odd.doubles
        /\ result.excluded = [p \in DOMAIN players |->
                                 IF p \in odd.byes THEN "bye" ELSE ReasonOf(players[p])]
        /\ IsFiniteSet(DOMAIN result.pairings)
        /\ \A k \in DOMAIN result.pairings : LET x == result.pairings[k] IN
              x = Diagnosed(players, league.history, league.cfg, x)

GamesIn(result) == ToSet(result.pairings)

(* Who meets whom, as far as any perfect matching of the slots has it. *)
SeatsThePool(result) ==
    /\ Seated(GamesIn(result), Pool(league.players), OddOutcome(league.players, league.cfg))
    /\ Cardinality(GamesIn(result)) = Len(result.pairings)

(* The result is read off the season, which has it last. *)
PublishAny(gap) ==
    /\ Len(results') = Len(results) + 1
    /\ Outcome(results'[Len(results')].result)
    /\ SeatsThePool(results'[Len(results')].result)
    /\ PublishRound(results'[Len(results')].result, gap)

(* What the engine does: Generate, from a perfect matching of the graph. *)
PublishMatched(gap) ==
    LET graph == BuildGraph(league.players, league.history, league.cfg)
    IN  \E matched \in SUBSET graph.edges :
            /\ Perfect(graph, matched)
            /\ PublishRound(Generate(league.players, league.history, league.cfg, graph, matched), gap)

SeasonInit == league \in Leagues /\ results = <<>>

SeasonNext ==
    \/ \E absent \in Absences : Assemble(absent)
    \/ \E gap \in Gaps : PublishAny(gap)

SeasonSpec == SeasonInit /\ [][SeasonNext]_seasonVars

SolverNext ==
    \/ \E absent \in Absences : Assemble(absent)
    \/ \E gap \in Gaps : PublishMatched(gap)

(* Any solver that keeps Solver.Match's promise, and nothing else assumed. *)
SolverSpec == SeasonInit /\ [][SolverNext]_seasonVars

(* Generate, with the greedy solver. *)
PublishGreedy(gap) ==
    LET graph == BuildGraph(league.players, league.history, league.cfg)
    IN  /\ league.cfg.solver = "greedy"
        /\ PublishRound(Generate(league.players, league.history, league.cfg, graph,
                                 GreedyMatch(graph)), gap)

GreedyNext ==
    \/ \E absent \in Absences : Assemble(absent)
    \/ \E gap \in Gaps : PublishGreedy(gap)

(* The leagues that pair with the greedy solver. *)
GreedySpec == SeasonInit /\ [][GreedyNext]_seasonVars

-----------------------------------------------------------------------------
(* Properties. *)

(* Every round the engine makes keeps the contract the rounds rely on: the   *)
(* odd player out as the strategy says, the volunteer one game of each       *)
(* colour against two opponents, everyone else in the pool one.              *)
KeepsContract ==
    \A i \in DOMAIN results :
        LET x == results[i]
            pool == {p \in DOMAIN x.members : x.result.excluded[p] \in {"none", "bye"}}
            odd == [byes |-> x.result.byes, doubles |-> x.result.doubles]
        IN  /\ odd \in OddOutcomes(pool, Volunteers(x.members, pool), league.cfg.oddPool)
            /\ Seated(GamesIn(x.result), pool, odd)
            /\ Cardinality(GamesIn(x.result)) = Len(x.result.pairings)

(* Nobody has a second bye before everyone else in that pool has had one     *)
(* since their first (odd.go: rotation alone, "a bye must never look like    *)
(* punishment for being weak").                                              *)
ByesRotate ==
    \A i, j \in DOMAIN results : \A p \in results[i].result.byes \cap results[j].result.byes :
        i < j => \A q \in DOMAIN results[j].members :
            results[j].result.excluded[q] = "none" =>
                \E k \in i + 1 .. j - 1 : q \in results[k].result.byes

(* The last rounds published before the i-th, as many as the window has. *)
LastRounds(i) == {k \in 1 .. i - 1 : i - k <= league.cfg.avoid}

(* Two players who met in one of the last avoid_recent_rounds published      *)
(* rounds are a repeat and priced as one, a gap in the numbers or not        *)
(* (ListRecentOpponents: "arithmetic subtraction would silently shrink the   *)
(* window by counting the gap as if a round had happened").                  *)
RepeatsArePriced ==
    \A i \in DOMAIN results : \A x \in GamesIn(results[i].result) :
        (\E k \in LastRounds(i) : \E y \in GamesIn(results[k].result) :
            {x.white, x.black} = {y.white, y.black}) => x.repeat # 0
=============================================================================
