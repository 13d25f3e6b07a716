------------------------------ MODULE MCBlossom ------------------------------
(***************************************************************************)
(* Leagues for the engine.  The hard cases of the blossom solver are rare: *)
(* the leagues of Expansions were found by searching random ones for each  *)
(* way it can expand a blossom.                                            *)
(***************************************************************************)
EXTENDS Blossom

Member(power) ==
    [status |-> "active", power |-> power, colour |-> 0, inFlight |-> 0, cap |-> NoCap,
     accepts |-> FALSE, lastDouble |-> 0, lastBye |-> 0, doubles |-> 0, byes |-> 0]

Settings(solver, weight, penalty, oddPool) ==
    [number |-> 5, avoid |-> 2, colourWeight |-> weight, repeatPenalty |-> penalty,
     oddPool |-> oddPool, solver |-> solver]

Met(pairs) == {[pair |-> e, number |-> 4] : e \in pairs}
PairsOf(S) == {{i, j} : i, j \in S} \ {{i} : i \in S}

League(powers, pairs, cfg) ==
    [players |-> [p \in DOMAIN powers |-> Member(powers[p])], history |-> Met(pairs), cfg |-> cfg]

Repeats == Settings("blossom", 0, 20, "bye_only")

Expansions == {
    \* a T-blossom expanded from its base, and the even and odd way round
    League(<<7,7,12,11,9,10>>, {{1,3},{2,3},{2,6},{3,4},{3,5},{3,6},{4,5},{4,6},{5,6}}, Repeats),
    League(<<1,5,8,7,0,0>>, {{1,2},{1,4},{2,3},{2,4},{2,5},{3,4},{3,5},{4,5},{4,6}}, Repeats),
    League(<<4,12,9,12,7,12,5,5>>,
           {{1,2},{1,5},{2,3},{2,4},{2,7},{2,8},{3,4},{3,5},{3,6},{3,8},{4,5},{4,6},{4,7},{4,8},
            {5,7},{5,8},{6,7}}, Repeats),
    League(<<7,7,7,6,1,1,12,8>>,
           {{1,4},{1,5},{2,4},{2,5},{2,7},{3,6},{3,7},{3,8},{4,5},{4,8},{5,7},{5,8},{6,7},{6,8},
            {7,8}}, Repeats),
    \* one with a blossom inside, mid-stage and at the end of a stage
    League(<<11,4,3,4,3,10,10,4>>,
           {{1,5},{1,6},{1,7},{2,5},{2,7},{3,4},{3,7},{3,8},{4,6},{4,7},{5,8},{6,7},{6,8}}, Repeats),
    League(<<12,6,9,11,3,9,7,10>>, {{1,6},{2,8},{3,6},{3,8},{4,6},{5,7},{5,8}}, Repeats)}

(* Five players, for byes, volunteers and colours over several rounds. *)
Five(accepting, solver, weight, oddPool) ==
    LET club == League(<<10, 20, 20, 30, 40>>, {{1, 2}, {3, 4}},
                       Settings(solver, weight, 100, oddPool))
    IN  [club EXCEPT !.players = [p \in DOMAIN @ |->
            [@[p] EXCEPT !.accepts = p \in accepting,
                         !.cap = IF p = 5 THEN 1 ELSE NoCap]]]

Clubs == {Five(accepting, solver, weight, oddPool) :
              accepting \in {{}, {2, 3, 5}}, solver \in {"greedy", "blossom"},
              weight \in {0, 15}, oddPool \in {"double_then_bye", "bye_only"}}

TestLeagues == Expansions \cup Clubs

(* Everyone, one away (an even pool), and two away, so that byes come round. *)
Away == {{}, {1}, {3, 4}}
=============================================================================
