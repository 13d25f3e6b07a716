----------------------------- MODULE SeasonProofs -----------------------------
(***************************************************************************)
(* Theorems about Season, for every league, any absences and any solver:   *)
(* byes rotate, where no number is skipped repeats are priced, and what    *)
(* Generate makes of a perfect matching keeps the rounds' contract.        *)
(***************************************************************************)
EXTENDS Season, TLAPS, FiniteSetTheorems, WellFoundedInduction

IsSeason ==
    /\ IsLeague(league)
    /\ results \in Seq(ToSet(results))

(* The numbers rise, and the next round's is above them all. *)
NumbersRise ==
    /\ \A i \in DOMAIN results : results[i].number \in Nat \ {0}
                                 /\ results[i].number < league.cfg.number
    /\ \A i, j \in DOMAIN results : i < j => results[i].number < results[j].number

(* One bye at most, and the members are always the same. *)
OneBye ==
    \A i \in DOMAIN results :
        /\ DOMAIN results[i].members = DOMAIN league.players
        /\ \A p, q \in results[i].result.byes : p = q

(* The last bye is no earlier than a round just when that round or a later   *)
(* one gave it.                                                              *)
LastByesTrue ==
    \A i \in DOMAIN results : \A q \in DOMAIN league.players :
        league.players[q].lastBye >= results[i].number
            <=> \E k \in i .. Len(results) : q \in results[k].result.byes

ByeInv == IsSeason /\ NumbersRise /\ OneBye /\ LastByesTrue /\ ByesRotate

(* No number was skipped. *)
NoneSkipped ==
    \A i \in DOMAIN results : results[i].number + (Len(results) + 1 - i) = league.cfg.number

(* The meetings of the rounds in the next one's window are in the history. *)
Remembered ==
    \A i \in DOMAIN results : Len(results) + 1 - i <= league.cfg.avoid =>
        Meetings(results[i].result, results[i].number) \subseteq league.history

RepeatInv == IsSeason /\ NumbersRise /\ NoneSkipped /\ Remembered /\ RepeatsArePriced

-----------------------------------------------------------------------------
(* The operators. *)

(* A finite set whose triples differ has a first. *)
LEMMA LeastTriple ==
  ASSUME NEW S, IsFiniteSet(S), S # {}, NEW f,
         \A x \in S : f[x][1] \in Int /\ f[x][2] \in Int /\ f[x][3] \in Int,
         \A x, y \in S : x # y => f[x][3] # f[y][3]
  PROVE  \E x \in S : \A y \in S \ {x} : Precedes(f[x], f[y])
  <1> DEFINE UpTo(x) == {y \in S : ~Precedes(f[x], f[y])}
             T == {UpTo(x) : x \in S}
  <1>1. \A x \in S : UpTo(x) \in SUBSET S /\ IsFiniteSet(UpTo(x))
    BY FS_Subset
  <1>2. T \subseteq FiniteSubsetsOf(S) /\ T # {}
    <2>1. PICK x \in S : TRUE
      OBVIOUS
    <2>2. UpTo(x) \in T
      OBVIOUS
    <2>3. T \subseteq FiniteSubsetsOf(S)
      BY <1>1 DEF FiniteSubsetsOf
    <2> QED BY <2>2, <2>3
  <1> HIDE DEF T
  <1>3. PICK A \in T : \A B \in T : <<B, A>> \notin StrictSubsetOrdering(S)
    BY <1>2, FS_StrictSubsetOrderingWellFounded, WFMin
  <1>4. PICK x \in S : A = UpTo(x)
    BY <1>3 DEF T
  <1>5. ASSUME NEW y \in S \ {x} PROVE Precedes(f[x], f[y])
    <2>1. CASE ~Precedes(f[x], f[y])
      <3>1. Precedes(f[y], f[x])
        BY <2>1 DEF Precedes
      <3>2. \A z \in S : Precedes(f[x], f[z]) => Precedes(f[y], f[z])
        BY <3>1 DEF Precedes
      <3>3. ~Precedes(f[x], f[x])
        BY DEF Precedes
      <3>4. UpTo(y) \subseteq UpTo(x) /\ UpTo(y) # UpTo(x)
        BY <3>1, <3>2, <3>3
      <3>5. <<UpTo(y), UpTo(x)>> \in StrictSubsetOrdering(S)
        BY <1>1, <3>4 DEF StrictSubsetOrdering
      <3> QED BY <1>3, <1>4, <3>5 DEF T
    <2> QED BY <2>1
  <1> QED BY <1>5

(* Of the pool, the bye is one whose last bye is as long ago as any other's. *)
LEMMA ByeLeast ==
  ASSUME NEW players, DOMAIN players \subseteq Nat, players \in [DOMAIN players -> Player],
         NEW pool \in SUBSET DOMAIN players, IsFiniteSet(pool), pool # {}
  PROVE  /\ ChooseBye(players, pool) \in pool
         /\ \A q \in pool : players[q].lastBye >= players[ChooseBye(players, pool)].lastBye
  <1> DEFINE f == [p \in pool |-> <<players[p].lastBye, players[p].byes, p>>]
             Key(p) == <<players[p].lastBye, players[p].byes, p>>
  <1>1. \A p \in pool : players[p].lastBye \in Nat /\ players[p].byes \in Nat /\ p \in Nat
    BY DEF Player
  <1>2. \A p \in pool : /\ f[p][1] \in Int /\ f[p][2] \in Int /\ f[p][3] \in Int
                        /\ f[p][1] = players[p].lastBye /\ f[p][3] = p /\ f[p] = Key(p)
    BY <1>1
  <1> HIDE DEF f
  <1>3. \E p \in pool : \A q \in pool \ {p} : Precedes(f[p], f[q])
    BY <1>2, LeastTriple
  <1>4. \E p \in pool : \A q \in pool \ {p} : Precedes(Key(p), Key(q))
    BY <1>2, <1>3
  <1>5. /\ ChooseBye(players, pool) \in pool
        /\ \A q \in pool \ {ChooseBye(players, pool)} :
              Precedes(Key(ChooseBye(players, pool)), Key(q))
    BY <1>4 DEF ChooseBye, First
  <1> QED BY <1>1, <1>5 DEF Precedes

(* The volunteer is one of those who may play twice. *)
LEMMA VolunteerChosen ==
  ASSUME NEW players, DOMAIN players \subseteq Nat, players \in [DOMAIN players -> Player],
         NEW volunteers \in SUBSET DOMAIN players, IsFiniteSet(volunteers), volunteers # {}
  PROVE  ChooseVolunteer(players, volunteers) \in volunteers
  <1> DEFINE f == [p \in volunteers |-> <<players[p].lastDouble, players[p].doubles, p>>]
             Key(p) == <<players[p].lastDouble, players[p].doubles, p>>
  <1>1. \A p \in volunteers : players[p].lastDouble \in Nat /\ players[p].doubles \in Nat /\ p \in Nat
    BY DEF Player
  <1>2. \A p \in volunteers : /\ f[p][1] \in Int /\ f[p][2] \in Int /\ f[p][3] \in Int
                              /\ f[p][3] = p /\ f[p] = Key(p)
    BY <1>1
  <1> HIDE DEF f
  <1>3. \E p \in volunteers : \A q \in volunteers \ {p} : Precedes(f[p], f[q])
    BY <1>2, LeastTriple
  <1>4. \E p \in volunteers : \A q \in volunteers \ {p} : Precedes(Key(p), Key(q))
    BY <1>2, <1>3
  <1> QED BY <1>4 DEF ChooseVolunteer, First

LEMMA PoolFinite ==
  ASSUME NEW players, IsFiniteSet(DOMAIN players)
  PROVE  /\ Pool(players) \in SUBSET DOMAIN players /\ IsFiniteSet(Pool(players))
         /\ Cardinality(Pool(players)) \in Nat
         /\ Cardinality(Pool(players)) % 2 = 1 => Pool(players) # {}
  <1>1. Pool(players) \in SUBSET DOMAIN players
    BY DEF Pool
  <1>2. IsFiniteSet(Pool(players))
    BY <1>1, FS_Subset
  <1>3. Cardinality(Pool(players)) \in Nat
    BY <1>2, FS_CardinalityType
  <1>4. Cardinality(Pool(players)) % 2 = 1 => Pool(players) # {}
    BY FS_EmptySet
  <1> QED BY <1>1, <1>2, <1>3, <1>4

(* What pairing.Generate makes of the odd pool is what Seating promises, and *)
(* what Rounds relies on: a volunteer of the volunteers, or a bye of the     *)
(* pool, as the strategy says.                                               *)
THEOREM OddAsPromised ==
  ASSUME NEW l, IsLeague(l)
  PROVE  OddOutcome(l.players, l.cfg)
            \in OddOutcomes(Pool(l.players), Volunteers(l.players, Pool(l.players)), l.cfg.oddPool)
  <1> DEFINE players == l.players
             pool == Pool(players)
             volunteers == Volunteers(players, pool)
  <1>1. /\ DOMAIN players \subseteq Nat /\ players \in [DOMAIN players -> Player]
        /\ IsFiniteSet(DOMAIN players)
        /\ l.cfg.oddPool \in {"double_then_bye", "bye_only"}
    BY DEF IsLeague, Config
  <1>2. /\ pool \in SUBSET DOMAIN players /\ IsFiniteSet(pool) /\ Cardinality(pool) \in Nat
        /\ Cardinality(pool) % 2 = 1 => pool # {}
    BY <1>1, PoolFinite
  <1>3. volunteers \in SUBSET DOMAIN players /\ IsFiniteSet(volunteers)
    <2>1. volunteers \in SUBSET pool
      BY DEF Volunteers
    <2> QED BY <1>2, <2>1, FS_Subset
  <1>4. pool # {} => ChooseBye(players, pool) \in pool
    BY <1>1, <1>2, ByeLeast
  <1>5. volunteers # {} => ChooseVolunteer(players, volunteers) \in volunteers
    BY <1>1, <1>3, VolunteerChosen
  <1> HIDE DEF players, pool, volunteers
  <1>6. OddOutcome(players, l.cfg) \in OddOutcomes(pool, volunteers, l.cfg.oddPool)
    <2>1. CASE Cardinality(pool) % 2 = 0
      BY <2>1 DEF OddOutcome, OddOutcomes, pool
    <2>2. CASE /\ Cardinality(pool) % 2 = 1
               /\ l.cfg.oddPool = "double_then_bye" /\ Cardinality(pool) >= 3
               /\ volunteers # {}
      <3>1. OddOutcome(players, l.cfg)
               = [byes |-> {}, doubles |-> {ChooseVolunteer(players, volunteers)}]
        BY <2>2 DEF OddOutcome, pool, volunteers
      <3>2. OddOutcomes(pool, volunteers, l.cfg.oddPool)
               = {[byes |-> {}, doubles |-> {v}] : v \in volunteers}
        BY <2>2 DEF OddOutcomes
      <3> QED BY <1>5, <2>2, <3>1, <3>2
    <2>3. CASE /\ Cardinality(pool) % 2 = 1
               /\ ~(/\ l.cfg.oddPool = "double_then_bye" /\ Cardinality(pool) >= 3
                    /\ volunteers # {})
      <3>1. OddOutcome(players, l.cfg)
               = [byes |-> {ChooseBye(players, pool)}, doubles |-> {}]
        BY <1>1, <2>3 DEF OddOutcome, pool, volunteers
      <3>2. OddOutcomes(pool, volunteers, l.cfg.oddPool)
               = {[byes |-> {b}, doubles |-> {}] : b \in pool}
        BY <2>3 DEF OddOutcomes
      <3> QED BY <1>2, <1>4, <2>3, <3>1, <3>2
    <2> QED BY <1>2, <2>1, <2>2, <2>3
  <1> QED BY <1>6 DEF players, pool, volunteers

(* Whatever graph a round was matched on and whatever the solver made of it, *)
(* what Generate returns is an outcome of Season: byes, doubles, reasons and *)
(* diagnostics do not depend on the solver.                                  *)
THEOREM AnySolver ==
  ASSUME NEW g, NEW matched, IsFiniteSet(matched)
  PROVE  Outcome(Generate(league.players, league.history, league.cfg, g, matched))
  <1> DEFINE odd == OddOutcome(league.players, league.cfg)
             games == Coloured(league.players, g, odd, matched)
             result == Generate(league.players, league.history, league.cfg, g, matched)
  <1>0. IsFiniteSet(DOMAIN games)
    <2>1. Cardinality(matched) \in Nat
      BY FS_CardinalityType
    <2>2. DOMAIN InOrder(g, matched) = 1 .. Cardinality(matched)
      BY DEF InOrder, SortedBy
    <2>3. DOMAIN games = 1 .. Cardinality(matched)
      BY <2>2 DEF Coloured, DoubleColours
    <2> QED BY <2>1, <2>3, FS_Interval
  <1> HIDE DEF games
  <1>1. result.pairings = [k \in DOMAIN games |->
                  Diagnosed(league.players, league.history, league.cfg, games[k])]
    BY DEF Generate, games
  <1>2. /\ result.byes = OddOutcome(league.players, league.cfg).byes
        /\ result.doubles = OddOutcome(league.players, league.cfg).doubles
        /\ result.excluded = [p \in DOMAIN league.players |->
              IF p \in OddOutcome(league.players, league.cfg).byes THEN "bye"
              ELSE ReasonOf(league.players[p])]
    BY DEF Generate
  <1> HIDE DEF result
  <1>3. ASSUME NEW k \in DOMAIN result.pairings
        PROVE  result.pairings[k]
                 = Diagnosed(league.players, league.history, league.cfg, result.pairings[k])
    <2>1. result.pairings[k] = Diagnosed(league.players, league.history, league.cfg, games[k])
      BY <1>1, <1>3
    <2>2. result.pairings[k].white = games[k].white /\ result.pairings[k].black = games[k].black
      BY <2>1 DEF Diagnosed
    <2> QED BY <2>1, <2>2 DEF Diagnosed
  <1>4. Outcome(result)
    BY <1>0, <1>1, <1>2, <1>3 DEF Outcome
  <1> QED BY <1>4 DEF result

-----------------------------------------------------------------------------
(* The two steps. *)

LEMMA AppendOne ==
  ASSUME NEW s, s \in Seq(ToSet(s)), NEW e
  PROVE  LET t == Append(s, e) IN
         /\ Len(s) \in Nat /\ DOMAIN s = 1 .. Len(s)
         /\ Len(t) = Len(s) + 1 /\ DOMAIN t = 1 .. Len(s) + 1
         /\ \A i \in DOMAIN s : t[i] = s[i]
         /\ t[Len(s) + 1] = e
         /\ t \in Seq(ToSet(t))
  <1> DEFINE t == Append(s, e)
             S == ToSet(s)
  <1> HIDE DEF S
  <1>1. s \in Seq(S)
    BY DEF S
  <1>2. Len(s) \in Nat /\ DOMAIN s = 1 .. Len(s) /\ \A i \in DOMAIN s : s[i] \in S
    BY <1>1
  <1>3. s \in Seq(S \cup {e})
    BY <1>2, <1>1
  <1>4. /\ t \in Seq(S \cup {e}) /\ Len(t) = Len(s) + 1
        /\ \A i \in 1 .. Len(s) : t[i] = s[i] /\ t[Len(s) + 1] = e
    BY <1>3
  <1>5. DOMAIN t = 1 .. Len(s) + 1 /\ t[Len(s) + 1] = e
    BY <1>3, <1>4
  <1>6. t \in Seq(ToSet(t))
    <2>1. S \cup {e} \subseteq ToSet(t)
      <3>1. ASSUME NEW x \in S PROVE x \in ToSet(t)
        <4>1. PICK i \in DOMAIN s : x = s[i]
          BY DEF S, ToSet
        <4>2. i \in DOMAIN t /\ x = t[i]
          BY <1>2, <1>4, <1>5, <4>1
        <4> QED BY <4>2 DEF ToSet
      <3>2. e \in ToSet(t)
        <4>1. Len(s) + 1 \in DOMAIN t
          BY <1>2, <1>5
        <4> QED BY <1>5, <4>1 DEF ToSet
      <3> QED BY <3>1, <3>2
    <2>2. ToSet(t) \subseteq S \cup {e}
      BY <1>4 DEF ToSet
    <2>3. S \cup {e} = ToSet(t)
      BY <2>1, <2>2
    <2> QED BY <1>4, <2>3
  <1> QED BY <1>2, <1>4, <1>5, <1>6

LEMMA AssembleFrame ==
  ASSUME IsSeason, NEW absent, Assemble(absent)
  PROVE  /\ IsSeason'
         /\ results' = results
         /\ league'.cfg = league.cfg /\ league'.history = league.history
         /\ DOMAIN league'.players = DOMAIN league.players
         /\ \A p \in DOMAIN league.players : league'.players[p].lastBye = league.players[p].lastBye
  <1>1. /\ DOMAIN league.players \subseteq Nat /\ IsFiniteSet(DOMAIN league.players)
        /\ league.players \in [DOMAIN league.players -> Player]
        /\ league = [players |-> league.players, history |-> league.history, cfg |-> league.cfg]
    BY DEF IsSeason, IsLeague
  <1>2. /\ league'.cfg = league.cfg /\ league'.history = league.history
        /\ league' = [players |-> league'.players, history |-> league'.history,
                      cfg |-> league'.cfg]
        /\ league'.players = [p \in DOMAIN league.players |-> [league.players[p] EXCEPT !.status =
                         IF p \in absent THEN "inactive" ELSE "active"]]
    BY <1>1 DEF Assemble
  <1>3. \A p \in DOMAIN league.players :
            /\ league'.players[p] \in Player
            /\ league'.players[p].lastBye = league.players[p].lastBye
    BY <1>1, <1>2 DEF Player, Status
  <1>4. DOMAIN league'.players = DOMAIN league.players
    BY <1>2
  <1>5. league'.players \in [DOMAIN league'.players -> Player]
    BY <1>2, <1>3, <1>4
  <1>6. IsLeague(league')
    BY <1>1, <1>2, <1>3, <1>4, <1>5 DEF IsSeason, IsLeague
  <1>7. results' = results
    BY DEF Assemble
  <1> QED BY <1>2, <1>3, <1>4, <1>6, <1>7 DEF IsSeason

Updated(x, colour, byes, lastBye, doubles, lastDouble) ==
    [x EXCEPT !.colour = colour, !.byes = byes, !.lastBye = lastBye,
              !.doubles = doubles, !.lastDouble = lastDouble]

LEMMA PlayerUpdated ==
  ASSUME NEW x \in Player, NEW colour \in Int, NEW byes \in Nat, NEW lastBye \in Nat,
         NEW doubles \in Nat, NEW lastDouble \in Nat
  PROVE  /\ Updated(x, colour, byes, lastBye, doubles, lastDouble) \in Player
         /\ Updated(x, colour, byes, lastBye, doubles, lastDouble).lastBye = lastBye
  <1> DEFINE y == Updated(x, colour, byes, lastBye, doubles, lastDouble)
  <1>0. y = [x EXCEPT !.colour = colour, !.byes = byes, !.lastBye = lastBye,
                      !.doubles = doubles, !.lastDouble = lastDouble]
    BY DEF Updated
  <1> HIDE DEF y
  <1>1. x = [status |-> x.status, power |-> x.power, colour |-> x.colour, inFlight |-> x.inFlight,
             cap |-> x.cap, accepts |-> x.accepts, lastDouble |-> x.lastDouble,
             lastBye |-> x.lastBye, doubles |-> x.doubles, byes |-> x.byes]
    BY DEF Player
  <1>2. /\ x.status \in Status /\ x.power \in Int /\ x.inFlight \in Nat /\ x.cap \in Nat \cup {NoCap}
        /\ x.accepts \in BOOLEAN
    BY DEF Player
  <1>3. y = [status |-> x.status, power |-> x.power, colour |-> colour, inFlight |-> x.inFlight,
             cap |-> x.cap, accepts |-> x.accepts, lastDouble |-> lastDouble,
             lastBye |-> lastBye, doubles |-> doubles, byes |-> byes]
    BY <1>0, <1>1
  <1>4. y \in Player
    BY <1>2, <1>3 DEF Player
  <1> QED BY <1>3, <1>4 DEF y

(* A player after a round is a player; their last bye is this round's or as it was. *)
LEMMA PlayedOne ==
  ASSUME NEW players, NEW result, NEW number \in Nat, NEW p \in DOMAIN players,
         players[p] \in Player, IsFiniteSet(DOMAIN result.pairings)
  PROVE  LET y == Played(players, result, number)[p] IN
         /\ y \in Player
         /\ y.lastBye = IF p \in result.byes THEN number ELSE players[p].lastBye
  <1> DEFINE w == Cardinality({k \in DOMAIN result.pairings : result.pairings[k].white = p})
             b == Cardinality({k \in DOMAIN result.pairings : result.pairings[k].black = p})
             x == players[p]
             colour == x.colour + w - b
             byes == IF p \in result.byes THEN x.byes + 1 ELSE x.byes
             lastBye == IF p \in result.byes THEN number ELSE x.lastBye
             doubles == IF p \in result.doubles THEN x.doubles + 1 ELSE x.doubles
             lastDouble == IF p \in result.doubles THEN number ELSE x.lastDouble
  <1>1. w \in Nat /\ b \in Nat
    BY FS_Subset, FS_CardinalityType
  <1>2. Played(players, result, number)[p]
           = Updated(x, colour, byes, lastBye, doubles, lastDouble)
    BY DEF Played, Updated
  <1> HIDE DEF w, b
  <1>3. /\ colour \in Int /\ byes \in Nat /\ lastBye \in Nat
        /\ doubles \in Nat /\ lastDouble \in Nat
    <2>1. /\ x.colour \in Int /\ x.byes \in Nat /\ x.lastBye \in Nat
          /\ x.doubles \in Nat /\ x.lastDouble \in Nat
      BY DEF Player
    <2> HIDE DEF x
    <2> QED BY <1>1, <2>1
  <1> HIDE DEF x, colour, byes, lastBye, doubles, lastDouble
  <1>4. x \in Player
    BY DEF x
  <1>5. /\ Updated(x, colour, byes, lastBye, doubles, lastDouble) \in Player
        /\ Updated(x, colour, byes, lastBye, doubles, lastDouble).lastBye = lastBye
    BY <1>3, <1>4, PlayerUpdated
  <1> QED BY <1>2, <1>5 DEF lastBye, x

(* A published round is the last of the results, and the others stay. *)
LEMMA PublishFrame ==
  ASSUME IsSeason, NEW gap \in Nat, NEW result, Outcome(result), PublishRound(result, gap)
  PROVE  /\ Len(results) \in Nat /\ DOMAIN results = 1 .. Len(results)
         /\ Len(results') = Len(results) + 1 /\ DOMAIN results' = 1 .. Len(results) + 1
         /\ \A i \in DOMAIN results : results'[i] = results[i]
         /\ results'[Len(results) + 1]
               = [number |-> league.cfg.number, members |-> league.players,
                  history |-> league.history, result |-> result]
         /\ DOMAIN league'.players = DOMAIN league.players
         /\ \A p \in DOMAIN league.players :
               /\ league'.players[p].lastBye = IF p \in result.byes THEN league.cfg.number
                                               ELSE league.players[p].lastBye
               /\ league.players[p].lastBye \in Nat
               /\ league.players[p].lastBye < league.cfg.number
         /\ league'.history = Recent(league.history \cup Meetings(result, league.cfg.number),
                                     league'.cfg.number, league.cfg.avoid)
         /\ league'.cfg.number = league.cfg.number + 1 + gap
         /\ league'.cfg.avoid = league.cfg.avoid
         /\ league.cfg.number \in Nat \ {0} /\ league.cfg.avoid \in Nat
         /\ IsSeason'
  <1> DEFINE number == league.cfg.number
             next == number + 1 + gap
             players == league.players
  <1>1. /\ DOMAIN players \subseteq Nat /\ IsFiniteSet(DOMAIN players)
        /\ players \in [DOMAIN players -> Player]
        /\ league.cfg \in Config
        /\ \A p \in DOMAIN players : players[p].lastBye < number
        /\ \A h \in league.history : h.number \in Nat /\ h.number < number
    BY DEF IsSeason, IsLeague
  <1>2. number \in Nat \ {0} /\ league.cfg.avoid \in Nat /\ next \in Nat \ {0} /\ number < next
    BY <1>1 DEF Config
  <1>3. /\ results' = Append(results, [number |-> number, members |-> players,
                                       history |-> league.history, result |-> result])
        /\ league' = [players |-> Played(players, result, number),
                      history |-> Recent(league.history \cup Meetings(result, number), next,
                                         league.cfg.avoid),
                      cfg |-> [league.cfg EXCEPT !.number = next]]
    BY DEF PublishRound
  <1>4. /\ league'.players = Played(players, result, number)
        /\ league'.history = Recent(league.history \cup Meetings(result, number), next,
                                    league.cfg.avoid)
        /\ league'.cfg = [league.cfg EXCEPT !.number = next]
        /\ league' = [players |-> league'.players, history |-> league'.history,
                      cfg |-> league'.cfg]
    BY <1>3
  <1>5. league'.cfg \in Config /\ league'.cfg.number = next /\ league'.cfg.avoid = league.cfg.avoid
    BY <1>1, <1>2, <1>4 DEF Config
  <1>6. /\ DOMAIN league'.players = DOMAIN players
        /\ league'.players \in [DOMAIN players -> Player]
        /\ \A p \in DOMAIN players :
              /\ league'.players[p].lastBye < next
              /\ league'.players[p].lastBye = IF p \in result.byes THEN number
                                              ELSE players[p].lastBye
              /\ players[p].lastBye \in Nat /\ players[p].lastBye < number
    <2>1. DOMAIN league'.players = DOMAIN players
      BY <1>4 DEF Played
    <2>2. ASSUME NEW p \in DOMAIN players
          PROVE  /\ league'.players[p] \in Player /\ league'.players[p].lastBye < next
                 /\ league'.players[p].lastBye = IF p \in result.byes THEN number
                                                 ELSE players[p].lastBye
                 /\ players[p].lastBye \in Nat /\ players[p].lastBye < number
      <3>1. players[p] \in Player /\ number \in Nat /\ IsFiniteSet(DOMAIN result.pairings)
        BY <1>1, <1>2 DEF Outcome
      <3>2. /\ league'.players[p] \in Player
            /\ league'.players[p].lastBye = IF p \in result.byes THEN number
                                            ELSE players[p].lastBye
        BY <1>4, <3>1, PlayedOne
      <3>3. players[p].lastBye \in Nat /\ players[p].lastBye < number
        BY <1>1, <3>1 DEF Player
      <3> QED BY <1>2, <3>2, <3>3
    <2> QED BY <1>4, <2>1, <2>2 DEF Played
  <1>7. ASSUME NEW h \in league'.history PROVE h.number \in Nat /\ h.number < next
    <2>1. h \in league.history \cup Meetings(result, number)
      BY <1>4 DEF Recent
    <2>2. CASE h \in league.history
      BY <1>1, <1>2, <2>2
    <2>3. CASE h \in Meetings(result, number)
      BY <1>2, <2>3 DEF Meetings
    <2> QED BY <2>1, <2>2, <2>3
  <1>8. IsLeague(league')
    BY <1>1, <1>4, <1>5, <1>6, <1>7 DEF IsLeague
  <1>9. /\ Len(results) \in Nat /\ DOMAIN results = 1 .. Len(results)
        /\ Len(results') = Len(results) + 1 /\ DOMAIN results' = 1 .. Len(results) + 1
        /\ \A i \in DOMAIN results : results'[i] = results[i]
        /\ results'[Len(results) + 1] = [number |-> number, members |-> players,
                                         history |-> league.history, result |-> result]
        /\ results' \in Seq(ToSet(results'))
    <2> DEFINE e == [number |-> number, members |-> players,
                     history |-> league.history, result |-> result]
    <2>1. results' = Append(results, e) /\ results \in Seq(ToSet(results))
      BY <1>3 DEF IsSeason
    <2> HIDE DEF e
    <2>2. /\ Len(results) \in Nat /\ DOMAIN results = 1 .. Len(results)
          /\ Len(results') = Len(results) + 1 /\ DOMAIN results' = 1 .. Len(results) + 1
          /\ \A i \in DOMAIN results : results'[i] = results[i]
          /\ results'[Len(results) + 1] = e
          /\ results' \in Seq(ToSet(results'))
      BY <2>1, AppendOne
    <2> QED BY <2>2 DEF e
  <1> QED BY <1>2, <1>4, <1>5, <1>6, <1>8, <1>9 DEF IsSeason

LEMMA PublishAnyIsPublish ==
  ASSUME NEW gap \in Gaps, PublishAny(gap)
  PROVE  \E result : /\ Outcome(result) /\ SeatsThePool(result)
                     /\ PublishRound(result, gap) /\ gap \in Nat
  BY SeasonAssumption DEF PublishAny

(* The bye is one of the pool, and no other had theirs longer ago. *)
LEMMA OutcomeByes ==
  ASSUME IsLeague(league), NEW result, Outcome(result), NEW p \in result.byes
  PROVE  /\ \A q \in result.byes : q = p
         /\ p \in DOMAIN league.players
         /\ \A q \in DOMAIN league.players : result.excluded[q] = "none" =>
               q # p /\ league.players[q].lastBye >= league.players[p].lastBye
  <1> DEFINE players == league.players
             pool == Pool(players)
  <1>1. /\ DOMAIN players \subseteq Nat /\ players \in [DOMAIN players -> Player]
        /\ IsFiniteSet(DOMAIN players)
    BY DEF IsLeague
  <1>2. pool \in SUBSET DOMAIN players /\ IsFiniteSet(pool) /\ Cardinality(pool) \in Nat
        /\ (Cardinality(pool) % 2 = 1 => pool # {})
    BY <1>1, PoolFinite
  <1>3. result.byes = OddOutcome(players, league.cfg).byes
    BY DEF Outcome
  <1>4. result.byes = {ChooseBye(players, pool)} /\ pool # {}
    <2> HIDE DEF players, pool
    <2>1. \/ OddOutcome(players, league.cfg).byes = {}
          \/ /\ OddOutcome(players, league.cfg).byes = {ChooseBye(players, Pool(players))}
             /\ Cardinality(pool) % 2 # 0
      BY DEF OddOutcome, pool
    <2>2. Cardinality(pool) % 2 # 0 => pool # {}
      BY <1>2
    <2> QED BY <1>3, <2>1, <2>2 DEF pool
  <1>5. /\ p = ChooseBye(players, pool) /\ p \in pool
        /\ \A q \in pool : players[q].lastBye >= players[p].lastBye
    BY <1>1, <1>2, <1>4, ByeLeast
  <1>6. ASSUME NEW q \in DOMAIN players, result.excluded[q] = "none"
        PROVE  q # p /\ q \in pool
    <2>1. result.excluded[q] = IF q \in result.byes THEN "bye" ELSE ReasonOf(players[q])
      BY DEF Outcome
    <2>2. q \notin result.byes /\ ReasonOf(players[q]) = "none"
      BY <1>6, <2>1
    <2> QED BY <2>2 DEF Pool
  <1> QED BY <1>2, <1>4, <1>5, <1>6

LEMMA ByesKeptInTurn ==
  ASSUME ByeInv, SeasonNext
  PROVE  ByeInv'
  <1> USE DEF ByeInv
  <1>1. ASSUME NEW absent, Assemble(absent) PROVE ByeInv'
    <2>1. /\ IsSeason' /\ results' = results
          /\ league'.cfg = league.cfg
          /\ DOMAIN league'.players = DOMAIN league.players
          /\ \A p \in DOMAIN league.players :
                league'.players[p].lastBye = league.players[p].lastBye
      BY <1>1, AssembleFrame
    <2>2. NumbersRise' /\ OneBye'
      BY <2>1 DEF NumbersRise, OneBye
    <2>3. LastByesTrue'
      BY <2>1 DEF LastByesTrue
    <2>4. ByesRotate'
      BY <2>1 DEF ByesRotate
    <2> QED BY <2>1, <2>2, <2>3, <2>4
  <1>2. ASSUME NEW gap \in Nat, NEW result, Outcome(result), PublishRound(result, gap)
        PROVE  ByeInv'
    <2> DEFINE n == Len(results) + 1
               number == league.cfg.number
    <2>1. /\ n \in Nat \ {0} /\ DOMAIN results = 1 .. n - 1 /\ Len(results) = n - 1
          /\ Len(results') = n /\ DOMAIN results' = 1 .. n
          /\ \A i \in 1 .. n - 1 : results'[i] = results[i]
          /\ results'[n].number = number /\ results'[n].members = league.players
          /\ results'[n].result = result
          /\ IsSeason'
          /\ number \in Nat \ {0} /\ number < league'.cfg.number
          /\ league'.cfg.number \in Nat
          /\ DOMAIN league'.players = DOMAIN league.players
          /\ \A p \in DOMAIN league.players :
                /\ league'.players[p].lastBye = IF p \in result.byes THEN number
                                                ELSE league.players[p].lastBye
                /\ league.players[p].lastBye \in Nat /\ league.players[p].lastBye < number
      <3>1. /\ Len(results) \in Nat /\ DOMAIN results = 1 .. Len(results)
            /\ Len(results') = Len(results) + 1 /\ DOMAIN results' = 1 .. Len(results) + 1
            /\ \A i \in DOMAIN results : results'[i] = results[i]
            /\ results'[Len(results) + 1]
                  = [number |-> league.cfg.number, members |-> league.players,
                     history |-> league.history, result |-> result]
        BY <1>2, PublishFrame
      <3>2. /\ league'.cfg.number = league.cfg.number + 1 + gap
            /\ league.cfg.number \in Nat \ {0}
            /\ IsSeason'
            /\ DOMAIN league'.players = DOMAIN league.players
            /\ \A p \in DOMAIN league.players :
                  /\ league'.players[p].lastBye = IF p \in result.byes THEN league.cfg.number
                                                  ELSE league.players[p].lastBye
                  /\ league.players[p].lastBye \in Nat
                  /\ league.players[p].lastBye < league.cfg.number
        BY <1>2, PublishFrame
      <3>3. number < league'.cfg.number /\ league'.cfg.number \in Nat
        BY <1>2, <3>2
      <3> QED BY <3>1, <3>2, <3>3
    <2>2. \A p \in result.byes :
             /\ \A q \in result.byes : q = p
             /\ p \in DOMAIN league.players
             /\ \A q \in DOMAIN league.players : result.excluded[q] = "none" =>
                   q # p /\ league.players[q].lastBye >= league.players[p].lastBye
      BY <1>2, OutcomeByes DEF IsSeason
    <2> HIDE DEF n, number
    <2>3. NumbersRise'
      <3>1. \A i \in 1 .. n - 1 : /\ results'[i].number \in Nat \ {0}
                                   /\ results'[i].number < number
        BY <2>1 DEF NumbersRise, number
      <3>2. \A i \in 1 .. n : /\ results'[i].number \in Nat \ {0}
                               /\ results'[i].number < league'.cfg.number
        BY <2>1, <3>1
      <3>3. \A i, j \in 1 .. n - 1 : i < j => results'[i].number < results'[j].number
        BY <2>1 DEF NumbersRise
      <3>4. \A i, j \in 1 .. n : i < j => results'[i].number < results'[j].number
        BY <2>1, <3>1, <3>3
      <3> QED BY <2>1, <3>2, <3>4 DEF NumbersRise
    <2>4. OneBye'
      BY <2>1, <2>2 DEF OneBye
    <2>5. LastByesTrue'
      <3> SUFFICES ASSUME NEW i \in 1 .. n, NEW q \in DOMAIN league.players
                   PROVE  league'.players[q].lastBye >= results'[i].number
                             <=> \E k \in i .. n : q \in results'[k].result.byes
        BY <2>1 DEF LastByesTrue
      <3>1. CASE i = n
        <4>1. i .. n = {n} /\ results'[i].number = number /\ results'[n].result = result
          BY <2>1, <3>1
        <4>2. /\ league'.players[q].lastBye
                    = IF q \in result.byes THEN number ELSE league.players[q].lastBye
              /\ league.players[q].lastBye \in Nat /\ league.players[q].lastBye < number
              /\ number \in Nat
          BY <2>1
        <4>3. league'.players[q].lastBye >= number <=> q \in result.byes
          BY <4>2
        <4>4. (\E k \in i .. n : q \in results'[k].result.byes) <=> q \in result.byes
          BY <4>1, Zenon
        <4> QED BY <4>1, <4>3, <4>4, Zenon
      <3>2. CASE i # n /\ q \in result.byes
        <4>1. results'[i].number < number /\ results'[i].number \in Nat
          BY <2>1, <3>2 DEF NumbersRise, number
        <4>2. n \in i .. n /\ q \in results'[n].result.byes
          BY <2>1, <3>2
        <4>3. league'.players[q].lastBye = number /\ number \in Nat
          BY <2>1, <3>2
        <4>4. number >= results'[i].number
          BY <4>1, <4>3
        <4> QED BY <4>2, <4>3, <4>4
      <3>3. CASE i # n /\ q \notin result.byes
        <4>1. i \in 1 .. n - 1 /\ results'[i] = results[i]
          BY <2>1, <3>3
        <4>2. (\E k \in i .. n : q \in results'[k].result.byes)
                 <=> \E k \in i .. n - 1 : q \in results[k].result.byes
          BY <2>1, <3>3, <4>1
        <4>3. (league.players[q].lastBye >= results[i].number)
                 <=> \E k \in i .. n - 1 : q \in results[k].result.byes
          <5>1. i \in DOMAIN results /\ Len(results) = n - 1
            BY <2>1, <4>1
          <5> QED BY <5>1 DEF LastByesTrue
        <4>4. league'.players[q].lastBye = league.players[q].lastBye
          BY <2>1, <3>3
        <4> QED BY <4>1, <4>2, <4>3, <4>4
      <3> QED BY <3>1, <3>2, <3>3
    <2>6. ByesRotate'
      <3> SUFFICES ASSUME NEW i \in 1 .. n, NEW j \in 1 .. n, i < j,
                          NEW p \in results'[i].result.byes \cap results'[j].result.byes,
                          NEW q \in DOMAIN results'[j].members,
                          results'[j].result.excluded[q] = "none"
                   PROVE  \E k \in i + 1 .. j - 1 : q \in results'[k].result.byes
        BY <2>1 DEF ByesRotate
      <3>1. i \in 1 .. n - 1 /\ results'[i] = results[i]
        BY <2>1
      <3>2. CASE j # n
        <4>1. j \in 1 .. n - 1 /\ results'[j] = results[j]
          BY <2>1, <3>2
        <4>2. PICK k \in i + 1 .. j - 1 : q \in results[k].result.byes
          <5>1. /\ i \in DOMAIN results /\ j \in DOMAIN results
                /\ p \in results[i].result.byes \cap results[j].result.byes
                /\ q \in DOMAIN results[j].members /\ results[j].result.excluded[q] = "none"
            BY <2>1, <3>1, <4>1
          <5> QED BY <5>1 DEF ByesRotate
        <4> QED BY <2>1, <4>1, <4>2
      <3>3. CASE j = n
        <4>1. p \in result.byes /\ p \in results[i].result.byes /\ q \in DOMAIN league.players
              /\ result.excluded[q] = "none"
          BY <2>1, <3>1, <3>3
        <4>2. q # p /\ league.players[q].lastBye >= league.players[p].lastBye
              /\ p \in DOMAIN league.players
          BY <2>2, <4>1
        <4>3. league.players[p].lastBye >= results[i].number
          <5>1. i \in i .. Len(results)
            BY <2>1, <3>1
          <5> QED BY <2>1, <3>1, <4>1, <4>2, <5>1 DEF LastByesTrue
        <4>4. results[i].number \in Nat
          BY <2>1, <3>1 DEF NumbersRise
        <4>5. league.players[q].lastBye >= results[i].number
          BY <2>1, <4>1, <4>2, <4>3, <4>4
        <4>6. PICK k \in i .. Len(results) : q \in results[k].result.byes
          <5>1. i \in DOMAIN results
            BY <2>1, <3>1
          <5> QED BY <4>1, <4>5, <5>1 DEF LastByesTrue
        <4>7. k # i
          BY <2>1, <3>1, <4>1, <4>2, <4>6 DEF OneBye
        <4>8. k \in i + 1 .. j - 1 /\ results'[k] = results[k]
          BY <2>1, <3>1, <3>3, <4>6, <4>7
        <4> QED BY <4>6, <4>8
      <3> QED BY <3>2, <3>3
    <2> QED BY <2>1, <2>3, <2>4, <2>5, <2>6
  <1>3. ASSUME NEW gap \in Gaps, PublishAny(gap) PROVE ByeInv'
    <2>1. PICK result : Outcome(result) /\ PublishRound(result, gap) /\ gap \in Nat
      BY <1>3, PublishAnyIsPublish
    <2> QED BY <1>2, <2>1
  <1> QED BY <1>1, <1>3 DEF SeasonNext

LEMMA SeasonStarts ==
  ASSUME SeasonInit
  PROVE  ByeInv /\ RepeatInv
  <1>1. IsLeague(league)
    BY SeasonAssumption DEF SeasonInit
  <1>2. DOMAIN results = {} /\ results \in Seq(ToSet(results))
    BY DEF SeasonInit
  <1> QED BY <1>1, <1>2 DEF ByeInv, RepeatInv, IsSeason, NumbersRise, OneBye, LastByesTrue,
                            ByesRotate, NoneSkipped, Remembered, RepeatsArePriced

(* Nobody has a second bye before everyone else of that pool has had one     *)
(* since their first: chooseBye's rotation, over any sequence of rounds and  *)
(* absences, with any solver.                                                *)
THEOREM ByesTaken == SeasonSpec => []ByesRotate
  <1>1. SeasonInit => ByeInv
    BY SeasonStarts
  <1>2. ByeInv /\ [SeasonNext]_seasonVars => ByeInv'
    <2> SUFFICES ASSUME ByeInv, [SeasonNext]_seasonVars PROVE ByeInv'
      OBVIOUS
    <2>1. CASE SeasonNext
      BY <2>1, ByesKeptInTurn
    <2>2. CASE UNCHANGED seasonVars
      BY <2>2 DEF seasonVars, ByeInv, IsSeason, NumbersRise, OneBye, LastByesTrue, ByesRotate
    <2> QED BY <2>1, <2>2
  <1>3. ByeInv => ByesRotate
    BY DEF ByeInv
  <1> QED BY <1>1, <1>2, <1>3, PTL DEF SeasonSpec

-----------------------------------------------------------------------------
(* Repeats. *)

(* The round two players last met in is no earlier than any they met in. *)
LEMMA LastMetLatest ==
  ASSUME NEW history, NEW bound \in Nat,
         \A h \in history : h.number \in Nat /\ h.number < bound,
         NEW a, NEW b, NEW met \in history, met.pair = {a, b}
  PROVE  LastMet(history, a, b) \in Nat /\ LastMet(history, a, b) >= met.number
  <1> DEFINE S == {0} \cup {h.number : h \in {x \in history : x.pair = {a, b}}}
             f == [n \in S |-> <<-n, 0, n>>]
  <1>1. S \in SUBSET Nat /\ (\A n \in S : n <= bound) /\ met.number \in S /\ S # {}
    OBVIOUS
  <1>2. LastMet(history, a, b) = CHOOSE x \in S : \A y \in S : x >= y
    BY DEF LastMet, Max
  <1> HIDE DEF S
  <1>3. IsFiniteSet(S)
    BY <1>1, FS_BoundedSetOfNaturals
  <1>4. \A n \in S : /\ f[n][1] \in Int /\ f[n][2] \in Int /\ f[n][3] \in Int
                     /\ f[n][1] = -n /\ f[n][2] = 0 /\ f[n][3] = n
    BY <1>1
  <1> HIDE DEF f
  <1>5. \E x \in S : \A y \in S \ {x} : Precedes(f[x], f[y])
    <2>1. \A x, y \in S : x # y => f[x][3] # f[y][3]
      BY <1>4
    <2>2. \A x \in S : f[x][1] \in Int /\ f[x][2] \in Int /\ f[x][3] \in Int
      BY <1>4
    <2> QED BY <1>1, <1>3, <2>1, <2>2, LeastTriple
  <1>6. \E x \in S : \A y \in S : x >= y
    BY <1>1, <1>4, <1>5 DEF Precedes
  <1> QED BY <1>1, <1>2, <1>6

(* Of consecutive rounds, the last `window` before `next` are in the history. *)
LEMMA RecentKeeps ==
  ASSUME NEW meetings, NEW next \in Nat, NEW window \in Nat,
         \A h \in meetings : h.number \in Nat /\ h.number < next,
         NEW met \in meetings, next - met.number <= window
  PROVE  met \in Recent(meetings, next, window)
  <1> DEFINE numbers == {h.number : h \in {x \in meetings : x.number < next}}
             later == {x \in numbers : x > met.number}
  <1>1. met.number \in Nat /\ met.number < next /\ met.number \in numbers
    OBVIOUS
  <1>2. \A x \in numbers : x \in Nat /\ x < next
    OBVIOUS
  <1>3. later \subseteq met.number + 1 .. next - 1
    BY <1>1, <1>2
  <1>4. /\ IsFiniteSet(met.number + 1 .. next - 1)
        /\ Cardinality(met.number + 1 .. next - 1) < next - met.number
    <2>1. /\ IsFiniteSet(met.number + 1 .. next - 1)
          /\ Cardinality(met.number + 1 .. next - 1)
                = IF met.number + 1 > next - 1 THEN 0 ELSE (next - 1) - (met.number + 1) + 1
      <3>1. met.number + 1 \in Int /\ next - 1 \in Int
        BY <1>1
      <3> QED BY <3>1, FS_Interval
    <2> QED BY <1>1, <2>1
  <1> HIDE DEF later
  <1>5. Cardinality(later) \in Nat
        /\ Cardinality(later) <= Cardinality(met.number + 1 .. next - 1)
        /\ Cardinality(met.number + 1 .. next - 1) \in Nat
    BY <1>3, <1>4, FS_Subset, FS_CardinalityType
  <1>6. Cardinality(later) < window
    BY <1>1, <1>4, <1>5
  <1> QED BY <1>1, <1>6 DEF Recent, later

LEMMA RepeatsKeptPriced ==
  ASSUME Gaps \subseteq {0}, RepeatInv, SeasonNext
  PROVE  RepeatInv'
  <1> USE DEF RepeatInv
  <1>1. ASSUME NEW absent, Assemble(absent) PROVE RepeatInv'
    <2>1. /\ IsSeason' /\ results' = results
          /\ league'.cfg = league.cfg /\ league'.history = league.history
      BY <1>1, AssembleFrame
    <2>2. NumbersRise' /\ NoneSkipped'
      BY <2>1 DEF NumbersRise, NoneSkipped
    <2>3. Remembered'
      BY <2>1 DEF Remembered
    <2>4. RepeatsArePriced'
      BY <2>1 DEF RepeatsArePriced, LastRounds
    <2> QED BY <2>1, <2>2, <2>3, <2>4
  <1>2. ASSUME NEW result, Outcome(result), PublishRound(result, 0)
        PROVE  RepeatInv'
    <2> DEFINE n == Len(results) + 1
               number == league.cfg.number
               avoid == league.cfg.avoid
    <2>1. /\ n \in Nat \ {0} /\ DOMAIN results = 1 .. n - 1 /\ Len(results) = n - 1
          /\ Len(results') = n /\ DOMAIN results' = 1 .. n
          /\ \A i \in 1 .. n - 1 : results'[i] = results[i]
          /\ results'[n].number = number /\ results'[n].result = result
          /\ IsSeason'
          /\ number \in Nat \ {0} /\ avoid \in Nat
          /\ league'.cfg.number = number + 1 /\ league'.cfg.avoid = avoid
          /\ league'.history = Recent(league.history \cup Meetings(result, number),
                                      number + 1, avoid)
      <3>1. /\ Len(results) \in Nat /\ DOMAIN results = 1 .. Len(results)
            /\ Len(results') = Len(results) + 1 /\ DOMAIN results' = 1 .. Len(results) + 1
            /\ \A i \in DOMAIN results : results'[i] = results[i]
            /\ results'[Len(results) + 1]
                  = [number |-> league.cfg.number, members |-> league.players,
                     history |-> league.history, result |-> result]
        BY <1>2, PublishFrame
      <3>2. /\ league'.history = Recent(league.history \cup Meetings(result, league.cfg.number),
                                        league'.cfg.number, league.cfg.avoid)
            /\ league'.cfg.number = league.cfg.number + 1 + 0
            /\ league'.cfg.avoid = league.cfg.avoid
            /\ league.cfg.number \in Nat \ {0} /\ league.cfg.avoid \in Nat
            /\ IsSeason'
        BY <1>2, PublishFrame
      <3> QED BY <3>1, <3>2
    <2>2. \A h \in league.history : h.number \in Nat /\ h.number < number
      BY DEF IsSeason, IsLeague
    <2> HIDE DEF n, number, avoid
    <2>3. /\ \A i \in 1 .. n - 1 : /\ results[i].number \in Nat \ {0}
                                   /\ results[i].number < number
                                   /\ results[i].number + (n - i) = number
          /\ \A i, j \in 1 .. n - 1 : i < j => results[i].number < results[j].number
      <3>1. \A i \in 1 .. n - 1 : /\ results[i].number \in Nat \ {0}
                                  /\ results[i].number < number
        BY <2>1 DEF NumbersRise, number
      <3>2. \A i \in 1 .. n - 1 : results[i].number + (n - i) = number
        <4>1. \A i \in 1 .. n - 1 : results[i].number + (Len(results) + 1 - i) = number
          BY <2>1 DEF NoneSkipped, number
        <4>2. \A i \in 1 .. n - 1 : Len(results) + 1 - i = n - i
          BY <2>1
        <4> QED BY <4>1, <4>2
      <3> QED BY <2>1, <3>1, <3>2 DEF NumbersRise
    <2>4. NumbersRise'
      <3>1. \A i \in 1 .. n : /\ results'[i].number \in Nat \ {0}
                              /\ results'[i].number < league'.cfg.number
        BY <2>1, <2>3
      <3>2. \A i, j \in 1 .. n : i < j => results'[i].number < results'[j].number
        BY <2>1, <2>3
      <3> QED BY <2>1, <3>1, <3>2 DEF NumbersRise
    <2>5. \A i \in 1 .. n : results'[i].number + (n + 1 - i) = league'.cfg.number
      <3>1. ASSUME NEW i \in 1 .. n - 1
            PROVE  results'[i].number + (n + 1 - i) = league'.cfg.number
        <4>1. results[i].number + (n - i) = number /\ results[i].number \in Nat
          BY <2>3
        <4>2. results'[i].number = results[i].number
          BY <2>1
        <4>3. i \in Int /\ n \in Int /\ number \in Int /\ league'.cfg.number = number + 1
          BY <2>1
        <4> QED BY <4>1, <4>2, <4>3
      <3>2. results'[n].number + (n + 1 - n) = league'.cfg.number
        BY <2>1
      <3> QED BY <2>1, <3>1, <3>2
    <2>6. NoneSkipped'
      BY <2>1, <2>5 DEF NoneSkipped
    <2>7. Remembered'
      <3> SUFFICES ASSUME NEW i \in 1 .. n, n + 1 - i <= avoid,
                          NEW met \in Meetings(results'[i].result, results'[i].number)
                   PROVE  met \in league'.history
        BY <2>1 DEF Remembered
      <3> DEFINE meetings == league.history \cup Meetings(result, number)
      <3>1. met.number = results'[i].number
        BY DEF Meetings
      <3>2. met \in meetings
        <4>1. CASE i = n
          BY <2>1, <4>1
        <4>2. CASE i # n
          <5>1. i \in 1 .. n - 1 /\ results'[i] = results[i] /\ n - i <= avoid
            BY <2>1, <4>2
          <5> QED BY <2>1, <5>1 DEF Remembered, avoid
        <4> QED BY <4>1, <4>2
      <3>3. \A h \in meetings : h.number \in Nat /\ h.number < number + 1
        <4>1. \A h \in Meetings(result, number) : h.number = number
          BY DEF Meetings
        <4> QED BY <2>1, <2>2, <4>1
      <3>4. (number + 1) - met.number <= avoid
        BY <2>1, <2>5, <3>1, <3>2, <3>3
      <3> HIDE DEF meetings
      <3>5. met \in Recent(meetings, number + 1, avoid)
        BY <2>1, <3>2, <3>3, <3>4, RecentKeeps
      <3> QED BY <2>1, <3>5 DEF meetings
    <2>8. RepeatsArePriced'
      <3> SUFFICES ASSUME NEW i \in 1 .. n, NEW x \in GamesIn(results'[i].result),
                          NEW k \in 1 .. i - 1, i - k <= avoid,
                          NEW y \in GamesIn(results'[k].result),
                          {x.white, x.black} = {y.white, y.black}
                   PROVE  x.repeat # 0
        BY <2>1 DEF RepeatsArePriced, LastRounds
      <3>1. k \in 1 .. n - 1 /\ results'[k] = results[k]
        BY <2>1
      <3>2. CASE i # n
        <4>1. i \in DOMAIN results /\ results'[i] = results[i] /\ k \in LastRounds(i)
          BY <2>1, <3>2 DEF LastRounds, avoid
        <4> QED BY <3>1, <4>1 DEF RepeatsArePriced
      <3>3. CASE i = n
        <4> DEFINE met == [pair |-> {x.white, x.black}, number |-> results[k].number]
        <4>1. PICK j \in DOMAIN result.pairings : x = result.pairings[j]
          BY <2>1, <3>3 DEF GamesIn, ToSet
        <4>2. x.repeat = RepeatOf(league.history, x.white, x.black, league.cfg)
          <5>1. x = Diagnosed(league.players, league.history, league.cfg, x)
            BY <1>2, <4>1 DEF Outcome
          <5> QED BY <5>1 DEF Diagnosed
        <4>3. met \in league.history
          <5>1. PICK q \in DOMAIN results[k].result.pairings : y = results[k].result.pairings[q]
            BY <3>1 DEF GamesIn, ToSet
          <5>2. met \in Meetings(results[k].result, results[k].number)
            BY <5>1 DEF Meetings
          <5>3. k \in DOMAIN results /\ Len(results) + 1 - k <= league.cfg.avoid
            BY <2>1, <3>1, <3>3 DEF avoid
          <5> QED BY <5>2, <5>3 DEF Remembered
        <4>4. LastMet(league.history, x.white, x.black) \in Nat
              /\ LastMet(league.history, x.white, x.black) >= results[k].number
          BY <2>1, <2>2, <4>3, LastMetLatest
        <4>5. results[k].number + (n - k) = number /\ results[k].number \in Nat \ {0}
              /\ n - k <= avoid /\ n - k \in Nat \ {0}
          <5>1. results[k].number + (n - k) = number /\ results[k].number \in Nat \ {0}
            BY <2>3, <3>1
          <5>2. n \in Nat \ {0}
            BY <2>1
          <5> QED BY <3>1, <3>3, <5>1, <5>2
        <4> DEFINE last == LastMet(league.history, x.white, x.black)
        <4> HIDE DEF last
        <4>6. last \in Nat /\ last >= results[k].number
          BY <4>4 DEF last
        <4>7. number \in Nat /\ avoid \in Nat
          BY <2>1
        <4>8. avoid > 0 /\ last # 0 /\ ~(last < number - avoid)
          BY <4>5, <4>6, <4>7
        <4>9. RepeatOf(league.history, x.white, x.black, league.cfg) = last
          BY <4>7, <4>8 DEF RepeatOf, last, number, avoid
        <4> QED BY <4>2, <4>8, <4>9
      <3> QED BY <3>2, <3>3
    <2> QED BY <2>1, <2>4, <2>6, <2>7, <2>8
  <1>3. ASSUME NEW gap \in Gaps, PublishAny(gap) PROVE RepeatInv'
    <2>1. PICK result : Outcome(result) /\ PublishRound(result, gap) /\ gap \in Nat
      BY <1>3, PublishAnyIsPublish
    <2> QED BY <1>2, <2>1
  <1> QED BY <1>1, <1>3 DEF SeasonNext

(* Where no number is skipped, whoever met in one of the last                *)
(* avoid_recent_rounds published rounds is a repeat and priced as one: what  *)
(* ListRecentOpponents lists and what repeatOf's subtraction allows agree.   *)
THEOREM RepeatsPriced ==
  ASSUME Gaps \subseteq {0}
  PROVE  SeasonSpec => []RepeatsArePriced
  <1>1. SeasonInit => RepeatInv
    BY SeasonStarts
  <1>2. RepeatInv /\ [SeasonNext]_seasonVars => RepeatInv'
    <2> SUFFICES ASSUME RepeatInv, [SeasonNext]_seasonVars PROVE RepeatInv'
      OBVIOUS
    <2>1. CASE SeasonNext
      BY <2>1, RepeatsKeptPriced
    <2>2. CASE UNCHANGED seasonVars
      BY <2>2 DEF seasonVars, RepeatInv, IsSeason, NumbersRise, NoneSkipped, Remembered,
                  RepeatsArePriced, LastRounds
    <2> QED BY <2>1, <2>2
  <1>3. RepeatInv => RepeatsArePriced
    BY DEF RepeatInv
  <1> QED BY <1>1, <1>2, <1>3, PTL DEF SeasonSpec

-----------------------------------------------------------------------------
(* Sorting. *)

LEMMA CountTo ==
  ASSUME NEW n \in Nat
  PROVE  IsFiniteSet(1 .. n) /\ Cardinality(1 .. n) = n
  <1>1. 1 \in Int /\ n \in Int
    OBVIOUS
  <1>2. Cardinality(1 .. n) = IF 1 > n THEN 0 ELSE n - 1 + 1
    BY <1>1, FS_Interval
  <1>3. IsFiniteSet(1 .. n)
    BY <1>1, FS_Interval
  <1> QED BY <1>2, <1>3

(* s lists S in the order in which below[x] is what comes before x. *)
Lists(s, S, below) ==
    /\ IsFiniteSet(S) /\ below \in [S -> SUBSET S]
    /\ \A x \in S : x \notin below[x]
    /\ \A x, y \in S : x # y => x \in below[y] \/ y \in below[x]
    /\ \A x, y, z \in S : x \in below[y] /\ y \in below[z] => x \in below[z]
    /\ s = [k \in 1 .. Cardinality(S) |-> s[k]]
    /\ \A k \in 1 .. Cardinality(S) : (\E x \in S : Cardinality(below[x]) = k - 1) =>
            s[k] \in S /\ Cardinality(below[s[k]]) = k - 1

(* What is sorted by a total order is there once. *)
LEMMA SortedOnce ==
  ASSUME NEW S, NEW below, NEW s, Lists(s, S, below)
  PROVE  /\ Cardinality(S) \in Nat
         /\ s \in [1 .. Cardinality(S) -> S]
         /\ \A j, k \in 1 .. Cardinality(S) : s[j] = s[k] => j = k
         /\ \A x \in S : \E k \in 1 .. Cardinality(S) : s[k] = x
  <1> DEFINE n == Cardinality(S)
             rank == [x \in S |-> Cardinality(below[x]) + 1]
  <1> USE DEF Lists
  <1>1. n \in Nat
    BY FS_CardinalityType
  <1>2. \A x \in S : rank[x] = Cardinality(below[x]) + 1
    OBVIOUS
  <1>3. rank = [x \in S |-> rank[x]]
    OBVIOUS
  <1> HIDE DEF rank, n
  <1>4. ASSUME NEW x \in S
        PROVE  /\ IsFiniteSet(below[x]) /\ Cardinality(below[x]) \in Nat
               /\ rank[x] \in 1 .. n
    <2>1. below[x] \in SUBSET (S \ {x})
      OBVIOUS
    <2>2. IsFiniteSet(S \ {x}) /\ Cardinality(S \ {x}) = n - 1
      BY FS_RemoveElement DEF n
    <2>3. IsFiniteSet(below[x]) /\ Cardinality(below[x]) <= n - 1
      BY <2>1, <2>2, FS_Subset
    <2>4. Cardinality(below[x]) \in Nat
      BY <2>3, FS_CardinalityType
    <2> QED BY <1>1, <1>2, <2>3, <2>4
  <1>5. ASSUME NEW x \in S, NEW y \in S, x \in below[y]
        PROVE  rank[x] < rank[y]
    <2>1. below[x] \in SUBSET (below[y] \ {x})
      BY <1>5
    <2>2. IsFiniteSet(below[y] \ {x}) /\ Cardinality(below[y] \ {x}) = Cardinality(below[y]) - 1
      BY <1>4, <1>5, FS_RemoveElement
    <2>3. Cardinality(below[x]) <= Cardinality(below[y]) - 1
      BY <2>1, <2>2, FS_Subset
    <2> QED BY <1>2, <1>4, <2>3
  <1>6. ASSUME NEW x \in S, NEW y \in S, rank[x] = rank[y]
        PROVE  x = y
    <2>1. rank[x] \in Int /\ rank[y] \in Int
      BY <1>4
    <2>2. x \notin below[y] /\ y \notin below[x]
      BY <1>5, <1>6, <2>1
    <2> QED BY <2>2
  <1>7. rank \in Injection(S, 1 .. n)
    <2>1. rank \in [S -> 1 .. n] /\ DOMAIN rank = S
      BY <1>3, <1>4
    <2>2. IsInjective(rank)
      BY <1>6, <2>1 DEF IsInjective
    <2> QED BY <2>1, <2>2 DEF Injection
  <1>8. IsFiniteSet(1 .. n) /\ Cardinality(1 .. n) = n
    BY <1>1, CountTo
  <1>9. rank \in Surjection(S, 1 .. n)
    <2> DEFINE T == 1 .. n
    <2>1. rank \in Injection(S, T) /\ IsFiniteSet(T) /\ Cardinality(S) = Cardinality(T)
      BY <1>7, <1>8 DEF n
    <2> HIDE DEF T
    <2>2. rank \in Surjection(S, T)
      BY <2>1, FS_Injection
    <2> QED BY <2>2 DEF T
  <1>10. ASSUME NEW k \in 1 .. n
         PROVE  s[k] \in S /\ rank[s[k]] = k
    <2>1. PICK x \in S : rank[x] = k
      BY <1>9 DEF Surjection
    <2>2. Cardinality(below[x]) = k - 1
      BY <1>1, <1>2, <1>4, <2>1
    <2>3. s[k] \in S /\ Cardinality(below[s[k]]) = k - 1
      BY <2>2 DEF n
    <2> QED BY <1>1, <1>2, <1>4, <2>3
  <1>11. s \in [1 .. n -> S]
    BY <1>10 DEF n
  <1>12. \A x \in S : \E k \in 1 .. n : s[k] = x
    BY <1>4, <1>6, <1>10
  <1>13. \A j, k \in 1 .. n : s[j] = s[k] => j = k
    BY <1>10
  <1> QED BY <1>1, <1>11, <1>12, <1>13 DEF n

-----------------------------------------------------------------------------
(* The slots. *)

(* Every slot is a player's, a volunteer's are two, everyone else's is one. *)
SlotsOnce(slots, S, twice) ==
    LET N == DOMAIN slots
    IN  /\ N \subseteq Nat /\ IsFiniteSet(N)
        /\ \A i \in N : slots[i] \in S
        /\ \A p \in S \ twice : \E i \in N : {k \in N : slots[k] = p} = {i}
        /\ \A p \in twice : \E i, j \in N : i # j /\ {k \in N : slots[k] = p} = {i, j}
        /\ \A p, q \in twice : p = q

(* As many slots as players, and one more for the volunteer. *)
SlotsCounted(slots, S, twice) ==
    \E n \in Nat : DOMAIN slots = 1 .. n /\ n = Cardinality(S) + Cardinality(twice)

LEMMA SlotsMade ==
  ASSUME NEW l, IsLeague(l)
  PROVE  LET odd == OddOutcome(l.players, l.cfg)
             slots == Slots(l.players, odd)
             S == Pool(l.players) \ odd.byes
         IN  SlotsOnce(slots, S, odd.doubles) /\ SlotsCounted(slots, S, odd.doubles)
  <1> DEFINE players == l.players
             odd == OddOutcome(players, l.cfg)
             S == Pool(players) \ odd.byes
             n == Cardinality(S)
             Key(p) == <<-players[p].power, p, 0>>
             Pick(k) == CHOOSE x \in S : Cardinality({y \in S : Precedes(Key(y), Key(x))}) = k - 1
             s == [k \in 1 .. n |-> Pick(k)]
  <1>1. /\ DOMAIN players \subseteq Nat /\ players \in [DOMAIN players -> Player]
        /\ IsFiniteSet(DOMAIN players)
    BY DEF IsLeague
  <1>2. S \in SUBSET DOMAIN players /\ IsFiniteSet(S)
    <2>1. S \in SUBSET DOMAIN players
      BY DEF Pool
    <2> QED BY <1>1, <2>1, FS_Subset
  <1>3. /\ odd.doubles \subseteq S
        /\ odd.doubles = {} \/ \E v : odd.doubles = {v}
    <2> DEFINE pool == Pool(players)
               volunteers == Volunteers(players, pool)
    <2>1. odd \in OddOutcomes(pool, volunteers, l.cfg.oddPool)
      BY OddAsPromised
    <2>2. volunteers \subseteq pool
      BY DEF Volunteers
    <2> HIDE DEF odd, pool, volunteers
    <2>3. odd.doubles \subseteq pool \ odd.byes /\ (odd.doubles = {} \/ \E v : odd.doubles = {v})
      <3>1. CASE Cardinality(pool) % 2 = 0
        BY <2>1, <3>1 DEF OddOutcomes
      <3>2. CASE /\ Cardinality(pool) % 2 = 1
                 /\ l.cfg.oddPool = "double_then_bye" /\ Cardinality(pool) >= 3
                 /\ volunteers # {}
        <4>1. PICK v \in volunteers : odd = [byes |-> {}, doubles |-> {v}]
          BY <2>1, <3>2 DEF OddOutcomes
        <4> QED BY <2>2, <4>1
      <3>3. CASE /\ Cardinality(pool) % 2 # 0
                 /\ ~(/\ Cardinality(pool) % 2 = 1
                      /\ l.cfg.oddPool = "double_then_bye" /\ Cardinality(pool) >= 3
                      /\ volunteers # {})
        <4>1. PICK b \in pool : odd = [byes |-> {b}, doubles |-> {}]
          BY <2>1, <3>3 DEF OddOutcomes
        <4> QED BY <4>1
      <3> QED BY <3>1, <3>2, <3>3
    <2> QED BY <2>3 DEF pool
  <1>4. \A p \in S : players[p].power \in Int /\ p \in Int
    BY <1>1, <1>2 DEF Player
  <1> DEFINE Before(y, x) == Precedes(Key(y), Key(x))
             below == [x \in S |-> {y \in S : Before(y, x)}]
  <1>5. \A x, y \in S : Before(y, x) <=> \/ -players[y].power < -players[x].power
                                         \/ -players[y].power = -players[x].power /\ y < x
    BY <1>4 DEF Precedes
  <1> HIDE DEF S, Before
  <1>6. /\ below \in [S -> SUBSET S]
        /\ \A x, y \in S : y \in below[x] <=> Before(y, x)
    OBVIOUS
  <1>12. ASSUME NEW k \in 1 .. n, NEW x \in S, Cardinality(below[x]) = k - 1
         PROVE  s[k] \in S /\ Cardinality(below[s[k]]) = k - 1
    <2> DEFINE Below(z) == {y \in S : Before(y, z)}
    <2>1. s[k] = CHOOSE z \in S : Cardinality(Below(z)) = k - 1
      BY DEF Before
    <2>2. Cardinality(Below(x)) = k - 1
      BY <1>12
    <2> HIDE DEF Below, s
    <2>3. s[k] \in S /\ Cardinality(Below(s[k])) = k - 1
      BY <2>1, <2>2
    <2> QED BY <2>3 DEF Below
  <1>7. s = [k \in 1 .. n |-> s[k]]
    <2> HIDE DEF Pick
    <2> QED OBVIOUS
  <1>8. Slots(players, odd) = s \o SetToSeq(odd.doubles)
    BY DEF Slots, SortedBy, S
  <1> HIDE DEF s
  <1>9. /\ n \in Nat /\ s \in [1 .. n -> S]
        /\ \A j, k \in 1 .. n : s[j] = s[k] => j = k
        /\ \A x \in S : \E k \in 1 .. n : s[k] = x
    <2> HIDE DEF below
    <2>1. \A x \in S : x \notin below[x]
      BY <1>4, <1>5, <1>6
    <2>2. \A x, y \in S : x # y => x \in below[y] \/ y \in below[x]
      BY <1>4, <1>5, <1>6
    <2>3. \A x, y, z \in S : x \in below[y] /\ y \in below[z] => x \in below[z]
      BY <1>4, <1>5, <1>6
    <2>4. \A k \in 1 .. n : (\E x \in S : Cardinality(below[x]) = k - 1) =>
             s[k] \in S /\ Cardinality(below[s[k]]) = k - 1
      BY <1>12
    <2>5. Lists(s, S, below)
      BY <1>2, <1>6, <1>7, <2>1, <2>2, <2>3, <2>4 DEF Lists
    <2> QED BY <2>5, SortedOnce
  <1> HIDE DEF odd, n, players, Key, Pick, below
  <1>10. CASE odd.doubles = {}
    <2>1. SetToSeq({}) = <<>>
      BY FS_EmptySet DEF SetToSeq, IsInjective
    <2>2. s \o <<>> = s
      BY <1>9
    <2>3. Slots(players, odd) = s
      BY <1>8, <1>10, <2>1, <2>2
    <2>4. DOMAIN s = 1 .. n /\ 1 .. n \subseteq Nat /\ IsFiniteSet(1 .. n)
      BY <1>9, FS_Interval
    <2>5. ASSUME NEW p \in S PROVE \E i \in DOMAIN s : {k \in DOMAIN s : s[k] = p} = {i}
      BY <1>9, <2>4
    <2>6. \A i \in DOMAIN s : s[i] \in S
      BY <1>9, <2>4
    <2>7. DOMAIN s \subseteq Nat /\ IsFiniteSet(DOMAIN s)
      BY <2>4
    <2> HIDE DEF s
    <2>8. SlotsOnce(s, S, {})
      BY <2>5, <2>6, <2>7 DEF SlotsOnce
    <2>9. SlotsCounted(s, S, {})
      <3>1. n = Cardinality(S) + Cardinality({}) /\ n \in Nat
        BY <1>9, FS_EmptySet DEF n
      <3> QED BY <2>4, <3>1 DEF SlotsCounted
    <2> QED BY <1>10, <2>3, <2>8, <2>9 DEF players, odd, S
  <1>11. ASSUME NEW v, odd.doubles = {v}
         PROVE  /\ SlotsOnce(Slots(players, odd), S, odd.doubles)
                /\ SlotsCounted(Slots(players, odd), S, odd.doubles)
    <2>1. SetToSeq({v}) = <<v>>
      <3>1. Cardinality({v}) = 1
        BY FS_Singleton
      <3> DEFINE one == [k \in 1 .. 1 |-> v]
      <3>2. one \in [1..1 -> {v}] /\ IsInjective(one)
        BY DEF IsInjective
      <3>3. \A g \in [1..1 -> {v}] : g = one
        OBVIOUS
      <3>4. one = <<v>>
        OBVIOUS
      <3> HIDE DEF one
      <3>5. SetToSeq({v}) = one
        BY <3>1, <3>2, <3>3 DEF SetToSeq
      <3> QED BY <3>4, <3>5
    <2> DEFINE slots == s \o <<v>>
    <2>2. s \in Seq(S) /\ Len(s) = n
      BY <1>9
    <2>3. /\ DOMAIN slots = 1 .. n + 1
          /\ \A k \in 1 .. n : slots[k] = s[k]
          /\ slots[n + 1] = v
      BY <1>9, <2>2
    <2>4. Slots(players, odd) = slots
      BY <1>8, <1>11, <2>1
    <2> HIDE DEF slots
    <2>5. 1 .. n + 1 \subseteq Nat /\ IsFiniteSet(1 .. n + 1)
      BY <1>9, FS_Interval
    <2>6. v \in S
      BY <1>3, <1>11
    <2>7. \A k \in 1 .. n + 1 : k \in 1 .. n \/ k = n + 1
      BY <1>9
    <2>8. ASSUME NEW p \in S, p # v
          PROVE  \E i \in 1 .. n + 1 : {k \in 1 .. n + 1 : slots[k] = p} = {i}
      <3>1. PICK i \in 1 .. n : s[i] = p
        BY <1>9
      <3>2. i \in 1 .. n + 1 /\ \A k \in 1 .. n + 1 : slots[k] = p <=> k = i
        BY <1>9, <2>3, <2>7, <2>8, <3>1
      <3> QED BY <3>2
    <2>9. \E i, j \in 1 .. n + 1 : i # j /\ {k \in 1 .. n + 1 : slots[k] = v} = {i, j}
      <3>1. PICK i \in 1 .. n : s[i] = v
        BY <1>9, <2>6
      <3>2. /\ i \in 1 .. n + 1 /\ n + 1 \in 1 .. n + 1 /\ i # n + 1
            /\ \A k \in 1 .. n + 1 : slots[k] = v <=> k = i \/ k = n + 1
        BY <1>9, <2>3, <2>7, <3>1
      <3> QED BY <3>2
    <2>10. \A k \in 1 .. n + 1 : slots[k] \in S
      BY <1>9, <2>3, <2>6, <2>7
    <2>11. SlotsOnce(slots, S, {v})
      BY <2>3, <2>5, <2>8, <2>9, <2>10 DEF SlotsOnce
    <2>12. SlotsCounted(slots, S, {v})
      <3>0. Cardinality({v}) = 1
        BY FS_Singleton
      <3>1. n + 1 = Cardinality(S) + Cardinality({v}) /\ n + 1 \in Nat
        BY <1>9, <3>0 DEF n
      <3> QED BY <2>3, <3>1 DEF SlotsCounted
    <2> QED BY <1>11, <2>4, <2>11, <2>12
  <1> QED BY <1>3, <1>10, <1>11 DEF players, odd, S

-----------------------------------------------------------------------------
(* The pairs in display order. *)

LEMMA MinMaxTwo ==
  ASSUME NEW a \in Int, NEW b \in Int, a < b, NEW e, e = {a, b}
  PROVE  Min(e) = a /\ Max(e) = b
  BY DEF Min, Max

(* The slots in pairs of two players, no slot in two pairs. *)
Paired(slots, matched) ==
    /\ \A e \in matched : \E i, j \in DOMAIN slots : e = {i, j} /\ slots[i] # slots[j]
    /\ \A i \in DOMAIN slots : \E e \in matched : i \in e /\ \A x \in matched : i \in x => x = e

Sides(slots, e) == {slots[i] : i \in e}

(* Two players have one game against each other at most: only one of them    *)
(* has a second slot.                                                        *)
LEMMA SidesDiffer ==
  ASSUME NEW slots, NEW S, NEW twice, SlotsOnce(slots, S, twice),
         NEW matched, Paired(slots, matched),
         NEW d \in matched, NEW e \in matched, Sides(slots, d) = Sides(slots, e)
  PROVE  d = e
  <1> DEFINE N == DOMAIN slots
  <1>1. PICK i, j \in N : d = {i, j} /\ slots[i] # slots[j]
    BY DEF Paired
  <1>2. slots[i] \in Sides(slots, e) /\ slots[j] \in Sides(slots, e)
    <2>1. slots[i] \in Sides(slots, d) /\ slots[j] \in Sides(slots, d)
      BY <1>1 DEF Sides
    <2> QED BY <2>1
  <1>3. PICK k \in e, l \in e : slots[k] = slots[i] /\ slots[l] = slots[j]
    BY <1>2 DEF Sides
  <1>4. k \in N /\ l \in N
    BY DEF Paired
  <1>5. ASSUME NEW a \in N, NEW b \in N, a # b, slots[a] = slots[b]
        PROVE  slots[a] \in twice
    <2>1. slots[a] \in S
      BY DEF SlotsOnce
    <2>2. ASSUME slots[a] \notin twice PROVE FALSE
      <3>1. PICK c \in N : {n \in N : slots[n] = slots[a]} = {c}
        BY <2>1, <2>2 DEF SlotsOnce
      <3>2. a \in {n \in N : slots[n] = slots[a]} /\ b \in {n \in N : slots[n] = slots[a]}
        BY <1>5
      <3> QED BY <1>5, <3>1, <3>2
    <2> QED BY <2>2
  <1>6. \/ k = i \/ l = j
    <2>1. ASSUME k # i, l # j PROVE FALSE
      <3>1. slots[i] \in twice /\ slots[j] \in twice
        BY <1>3, <1>4, <1>5, <2>1
      <3> QED BY <1>1, <3>1 DEF SlotsOnce
    <2> QED BY <2>1
  <1>7. \A a \in N : a \in d /\ a \in e => d = e
    BY DEF Paired
  <1> QED BY <1>1, <1>3, <1>6, <1>7

Enumerates(order, matched, n) ==
    /\ n \in Nat /\ order \in [1 .. n -> matched]
    /\ \A j, k \in 1 .. n : order[j] = order[k] => j = k
    /\ \A e \in matched : \E k \in 1 .. n : order[k] = e

(* InOrder lists the matched pairs, each once. *)
LEMMA OrderedOnce ==
  ASSUME NEW g, NEW S, NEW twice, SlotsOnce(g.slots, S, twice),
         NEW matched, IsFiniteSet(matched), Paired(g.slots, matched)
  PROVE  LET n == Cardinality(matched)
             order == InOrder(g, matched)
         IN  Enumerates(order, matched, n)
  <1> DEFINE slots == g.slots
             N == DOMAIN slots
             n == Cardinality(matched)
             Place(i) == Min({j \in N : slots[j] = slots[i]})
             Places(m) == {Place(i) : i \in m}
             Key(m) == <<Min(Places(m)), Max(Places(m)), 0>>
             Before(d, e) == Precedes(Key(d), Key(e))
             below == [e \in matched |-> {d \in matched : Before(d, e)}]
             Pick(k) == CHOOSE x \in matched :
                           Cardinality({y \in matched : Precedes(Key(y), Key(x))}) = k - 1
             s == [k \in 1 .. n |-> Pick(k)]
  <1>1. InOrder(g, matched) = s
    BY DEF InOrder, SortedBy
  <1>2. N \subseteq Nat
    BY DEF SlotsOnce
  <1>3. ASSUME NEW i \in N PROVE Place(i) \in N /\ slots[Place(i)] = slots[i]
    <2> DEFINE T == {j \in N : slots[j] = slots[i]}
    <2>1. \E a, b \in N : T = {a, b}
      <3>1. slots[i] \in S
        BY DEF SlotsOnce
      <3>2. CASE slots[i] \in twice
        BY <3>2 DEF SlotsOnce
      <3>3. CASE slots[i] \notin twice
        <4>1. PICK a \in N : T = {a}
          BY <3>1, <3>3 DEF SlotsOnce
        <4> QED BY <4>1
      <3> QED BY <3>2, <3>3
    <2>2. PICK a, b \in N : T = {a, b}
      BY <2>1
    <2>3. a \in Int /\ b \in Int
      BY <1>2
    <2> HIDE DEF T
    <2>4. Min(T) \in T
      <3>1. Min({a, b}) \in {a, b}
        <4>1. CASE a < b
          BY <2>3, <4>1, MinMaxTwo
        <4>2. CASE b < a
          BY <2>3, <4>2, MinMaxTwo
        <4>3. CASE a = b
          BY <2>3, <4>3 DEF Min
        <4> QED BY <2>3, <4>1, <4>2, <4>3
      <3> QED BY <2>2, <3>1
    <2> QED BY <2>4 DEF T
  <1>4. \A i, j \in N : slots[i] = slots[j] => Place(i) = Place(j)
    OBVIOUS
  <1> HIDE DEF Place
  <1>5. ASSUME NEW e \in matched
        PROVE  \E a, b \in N : /\ a < b /\ Places(e) = {a, b} /\ Min(Places(e)) = a
                               /\ Max(Places(e)) = b /\ Sides(slots, e) = {slots[a], slots[b]}
    <2>1. PICK i, j \in N : e = {i, j} /\ slots[i] # slots[j]
      BY DEF Paired
    <2>2. /\ Places(e) = {Place(i), Place(j)}
          /\ Sides(slots, e) = {slots[Place(i)], slots[Place(j)]}
      BY <1>3, <2>1 DEF Sides
    <2>3. Place(i) # Place(j) /\ Place(i) \in Int /\ Place(j) \in Int
      BY <1>2, <1>3, <2>1
    <2> HIDE DEF Places
    <2>4. CASE Place(i) < Place(j)
      BY <1>3, <2>2, <2>3, <2>4, MinMaxTwo
    <2>5. CASE Place(j) < Place(i)
      BY <1>3, <2>2, <2>3, <2>5, MinMaxTwo
    <2> QED BY <2>3, <2>4, <2>5
  <1> HIDE DEF Places
  <1> DEFINE lo == [e \in matched |-> Min(Places(e))]
             hi == [e \in matched |-> Max(Places(e))]
  <1>6. \A e \in matched : /\ lo[e] \in Int /\ hi[e] \in Int
                           /\ Sides(slots, e) = {slots[lo[e]], slots[hi[e]]}
    BY <1>2, <1>5
  <1>7. \A d, e \in matched : Before(d, e) <=> lo[d] < lo[e] \/ (lo[d] = lo[e] /\ hi[d] < hi[e])
    BY DEF Precedes
  <1> HIDE DEF lo, hi, Before
  <1>8. \A d, e \in matched : lo[d] = lo[e] /\ hi[d] = hi[e] => d = e
    <2> SUFFICES ASSUME NEW d \in matched, NEW e \in matched, lo[d] = lo[e], hi[d] = hi[e]
                 PROVE  d = e
      OBVIOUS
    <2>1. Sides(slots, d) = Sides(slots, e)
      BY <1>6
    <2> QED BY <2>1, SidesDiffer
  <1>9. /\ below \in [matched -> SUBSET matched]
        /\ \A d, e \in matched : d \in below[e] <=> Before(d, e)
    OBVIOUS
  <1>10. ASSUME NEW k \in 1 .. n, NEW x \in matched, Cardinality(below[x]) = k - 1
         PROVE  s[k] \in matched /\ Cardinality(below[s[k]]) = k - 1
    <2> DEFINE Below(z) == {y \in matched : Before(y, z)}
    <2>1. s[k] = CHOOSE z \in matched : Cardinality(Below(z)) = k - 1
      BY DEF Before
    <2>2. Cardinality(Below(x)) = k - 1
      BY <1>10
    <2> HIDE DEF Below, s
    <2>3. s[k] \in matched /\ Cardinality(Below(s[k])) = k - 1
      BY <2>1, <2>2
    <2> QED BY <2>3 DEF Below
  <1>11. s = [k \in 1 .. n |-> s[k]]
    <2> HIDE DEF Pick
    <2> QED OBVIOUS
  <1> HIDE DEF s, below, Key, Pick
  <1>12. Lists(s, matched, below)
    <2>1. \A x \in matched : x \notin below[x]
      BY <1>6, <1>7, <1>9
    <2>2. \A x, y \in matched : x # y => x \in below[y] \/ y \in below[x]
      <3> SUFFICES ASSUME NEW x \in matched, NEW y \in matched, x # y
                   PROVE  Before(x, y) \/ Before(y, x)
        BY <1>9
      <3>1. lo[x] # lo[y] \/ hi[x] # hi[y]
        BY <1>8
      <3> QED BY <1>6, <1>7, <3>1
    <2>3. \A x, y, z \in matched : x \in below[y] /\ y \in below[z] => x \in below[z]
      BY <1>6, <1>7, <1>9
    <2>4. \A k \in 1 .. n : (\E x \in matched : Cardinality(below[x]) = k - 1) =>
             s[k] \in matched /\ Cardinality(below[s[k]]) = k - 1
      BY <1>10
    <2> QED BY <1>9, <1>11, <2>1, <2>2, <2>3, <2>4 DEF Lists
  <1> QED BY <1>1, <1>12, SortedOnce DEF Enumerates

-----------------------------------------------------------------------------
(* The games. *)

(* Whoever has white, the k-th game is the k-th pair's. *)
ColouredAs(games, slots, order, n) ==
    /\ games = [k \in 1 .. n |-> games[k]]
    /\ \A k \in 1 .. n : {games[k].white, games[k].black} = Sides(slots, order[k])

BothColours(games, n, v) == \E k, l \in 1 .. n : games[k].white = v /\ games[l].black = v

(* The i-th and the j-th are v's two games. *)
TheirTwo(slots, order, n, v, i, j) ==
    /\ i \in 1 .. n /\ j \in 1 .. n /\ i < j
    /\ \A k \in 1 .. n : v \in Sides(slots, order[k]) <=> k = i \/ k = j

(* The volunteer's two slots are in two games. *)
LEMMA TwoGames ==
  ASSUME NEW slots, NEW S, NEW twice, SlotsOnce(slots, S, twice),
         NEW matched, Paired(slots, matched),
         NEW n, NEW order, Enumerates(order, matched, n), NEW v \in twice, v \in S
  PROVE  \E i, j : TheirTwo(slots, order, n, v, i, j)
  <1> DEFINE N == DOMAIN slots
  <1> USE DEF Enumerates
  <1>1. PICK a, b \in N : a # b /\ {k \in N : slots[k] = v} = {a, b}
    BY DEF SlotsOnce
  <1>2. slots[a] = v /\ slots[b] = v /\ \A k \in N : slots[k] = v => k = a \/ k = b
    BY <1>1
  <1>3. PICK d \in matched : a \in d /\ \A x \in matched : a \in x => x = d
    BY DEF Paired
  <1>4. PICK e \in matched : b \in e /\ \A x \in matched : b \in x => x = e
    BY DEF Paired
  <1>5. d # e
    <2>1. PICK i, j \in N : d = {i, j} /\ slots[i] # slots[j]
      BY DEF Paired
    <2>2. b \notin d
      BY <1>1, <1>2, <1>3, <2>1
    <2> QED BY <1>4, <2>2
  <1>6. PICK i \in 1 .. n : order[i] = d
    OBVIOUS
  <1>7. PICK j \in 1 .. n : order[j] = e
    OBVIOUS
  <1>8. ASSUME NEW k \in 1 .. n PROVE v \in Sides(slots, order[k]) <=> k = i \/ k = j
    <2>1. order[k] \in matched
      OBVIOUS
    <2>2. order[k] \subseteq N
      <3>1. PICK x, y \in N : order[k] = {x, y}
        BY <2>1 DEF Paired
      <3> QED BY <3>1
    <2>3. v \in Sides(slots, order[k]) <=> a \in order[k] \/ b \in order[k]
      BY <1>2, <2>2 DEF Sides
    <2>4. a \in order[k] <=> order[k] = d
      BY <1>3, <2>1
    <2>5. b \in order[k] <=> order[k] = e
      BY <1>4, <2>1
    <2> QED BY <1>6, <1>7, <2>3, <2>4, <2>5
  <1>9. i # j /\ i \in Int /\ j \in Int
    BY <1>5, <1>6, <1>7
  <1>10. CASE i < j
    <2>1. TheirTwo(slots, order, n, v, i, j)
      BY <1>8, <1>10 DEF TheirTwo
    <2> QED BY <2>1
  <1>11. CASE j < i
    <2>1. TheirTwo(slots, order, n, v, j, i)
      BY <1>8, <1>11 DEF TheirTwo
    <2> QED BY <2>1
  <1> QED BY <1>9, <1>10, <1>11

(* The volunteer's two games keep their players, and are one of each colour. *)
LEMMA DoubleColoured ==
  ASSUME NEW players, NEW slots, NEW order, NEW n \in Nat,
         NEW games, ColouredAs(games, slots, order, n),
         NEW v, NEW i, NEW j, TheirTwo(slots, order, n, v, i, j)
  PROVE  LET coloured == DoubleColours(players, games, v)
         IN  /\ ColouredAs(coloured, slots, order, n)
             /\ BothColours(coloured, n, v)
  <1> DEFINE mine == {k \in DOMAIN games : v \in {games[k].white, games[k].black}}
             first == OpponentOf(games[i], v)
             second == OpponentOf(games[j], v)
             White(opponent) == [white |-> v, black |-> opponent]
             Black(opponent) == [white |-> opponent, black |-> v]
             one == [games EXCEPT ![i] = White(first), ![j] = Black(second)]
             two == [games EXCEPT ![i] = Black(first), ![j] = White(second)]
             coloured == DoubleColours(players, games, v)
  <1>0. i \in 1 .. n /\ j \in 1 .. n /\ i < j
        /\ \A k \in 1 .. n : v \in Sides(slots, order[k]) <=> k = i \/ k = j
    BY DEF TheirTwo
  <1>1. /\ games = [k \in 1 .. n |-> games[k]] /\ DOMAIN games = 1 .. n
        /\ \A k \in 1 .. n : {games[k].white, games[k].black} = Sides(slots, order[k])
    BY DEF ColouredAs
  <1>2. mine = {i, j}
    BY <1>0, <1>1
  <1>3. Min(mine) = i /\ Max(mine) = j
    <2>1. i \in Int /\ j \in Int /\ i < j
      BY <1>0
    <2> HIDE DEF mine
    <2> QED BY <1>2, <2>1, MinMaxTwo
  <1>4. coloured \in {one, two}
    BY <1>3 DEF DoubleColours
  <1>5. i # j
    BY <1>0
  <1>6. /\ {v, first} = Sides(slots, order[i])
        /\ {v, second} = Sides(slots, order[j])
    BY <1>0, <1>1 DEF OpponentOf
  <1> HIDE DEF first, second, coloured
  <1>7. /\ DOMAIN one = 1 .. n /\ one[i] = White(first) /\ one[j] = Black(second)
        /\ \A k \in 1 .. n : k # i /\ k # j => one[k] = games[k]
        /\ one = [k \in 1 .. n |-> one[k]]
    BY <1>0, <1>1, <1>5
  <1>8. /\ DOMAIN two = 1 .. n /\ two[i] = Black(first) /\ two[j] = White(second)
        /\ \A k \in 1 .. n : k # i /\ k # j => two[k] = games[k]
        /\ two = [k \in 1 .. n |-> two[k]]
    BY <1>0, <1>1, <1>5
  <1> HIDE DEF one, two
  <1>9. ColouredAs(one, slots, order, n) /\ one[i].white = v /\ one[j].black = v
    <2>1. ASSUME NEW k \in 1 .. n PROVE {one[k].white, one[k].black} = Sides(slots, order[k])
      <3>1. CASE k = i
        BY <1>6, <1>7, <3>1
      <3>2. CASE k = j
        BY <1>6, <1>7, <3>2
      <3>3. CASE k # i /\ k # j
        BY <1>1, <1>7, <3>3
      <3> QED BY <3>1, <3>2, <3>3
    <2>2. ColouredAs(one, slots, order, n)
      BY <1>7, <2>1 DEF ColouredAs
    <2> QED BY <1>7, <2>2
  <1>10. ColouredAs(two, slots, order, n) /\ two[j].white = v /\ two[i].black = v
    <2>1. ASSUME NEW k \in 1 .. n PROVE {two[k].white, two[k].black} = Sides(slots, order[k])
      <3>1. CASE k = i
        BY <1>6, <1>8, <3>1
      <3>2. CASE k = j
        BY <1>6, <1>8, <3>2
      <3>3. CASE k # i /\ k # j
        BY <1>1, <1>8, <3>3
      <3> QED BY <3>1, <3>2, <3>3
    <2>2. ColouredAs(two, slots, order, n)
      BY <1>8, <2>1 DEF ColouredAs
    <2> QED BY <1>8, <2>2
  <1>11. CASE coloured = one
    BY <1>0, <1>9, <1>11 DEF coloured, BothColours
  <1>12. CASE coloured = two
    BY <1>0, <1>10, <1>12 DEF coloured, BothColours
  <1> QED BY <1>4, <1>11, <1>12

Solved(slots, S, twice, matched) ==
    /\ SlotsOnce(slots, S, twice) /\ twice \subseteq S
    /\ IsFiniteSet(matched) /\ Paired(slots, matched)

(* Coloured gives every pair its game, and the volunteer one of each colour. *)
LEMMA ColouredOnce ==
  ASSUME NEW players, NEW g, NEW odd, NEW S, NEW matched,
         Solved(g.slots, S, odd.doubles, matched)
  PROVE  LET n == Cardinality(matched)
             games == Coloured(players, g, odd, matched)
         IN  /\ ColouredAs(games, g.slots, InOrder(g, matched), n)
             /\ \A v \in odd.doubles : BothColours(games, n, v)
  <1> DEFINE slots == g.slots
             n == Cardinality(matched)
             order == InOrder(g, matched)
             Game(k) == AssignColours(players, slots[Min(order[k])], slots[Max(order[k])])
             games == [k \in DOMAIN order |-> Game(k)]
             coloured == Coloured(players, g, odd, matched)
  <1> USE DEF Solved
  <1>0. Enumerates(order, matched, n)
    BY OrderedOnce
  <1>1. n \in Nat /\ order \in [1 .. n -> matched]
    BY <1>0 DEF Enumerates
  <1>2. coloured = IF odd.doubles = {} THEN games
                   ELSE DoubleColours(players, games, CHOOSE v \in odd.doubles : TRUE)
    BY DEF Coloured
  <1> HIDE DEF n, order, coloured
  <1>3. ASSUME NEW k \in 1 .. n PROVE {Game(k).white, Game(k).black} = Sides(slots, order[k])
    <2>1. order[k] \in matched
      BY <1>1
    <2>2. PICK i, j \in DOMAIN slots : order[k] = {i, j} /\ slots[i] # slots[j]
      BY <2>1 DEF Paired
    <2>3. i \in Int /\ j \in Int /\ i # j
      BY <2>2 DEF SlotsOnce
    <2>4. Sides(slots, order[k]) = {slots[i], slots[j]}
      BY <2>2 DEF Sides
    <2>5. CASE i < j
      <3>1. Min(order[k]) = i /\ Max(order[k]) = j
        BY <2>2, <2>3, <2>5, MinMaxTwo
      <3>2. Game(k) = AssignColours(players, slots[i], slots[j])
        BY <3>1
      <3> HIDE DEF Game
      <3>3. {Game(k).white, Game(k).black} = {slots[i], slots[j]}
        <4> DEFINE made == AssignColours(players, slots[i], slots[j])
        <4>1. {made.white, made.black} = {slots[i], slots[j]}
          BY DEF AssignColours
        <4> QED BY <3>2, <4>1
      <3> QED BY <2>4, <3>3
    <2>6. CASE j < i
      <3>1. order[k] = {j, i}
        BY <2>2
      <3>2. Min(order[k]) = j /\ Max(order[k]) = i
        BY <2>3, <2>6, <3>1, MinMaxTwo
      <3>3. {slots[i], slots[j]} = {slots[j], slots[i]}
        OBVIOUS
      <3>4. Game(k) = AssignColours(players, slots[j], slots[i])
        BY <3>2
      <3> HIDE DEF Game
      <3>5. {Game(k).white, Game(k).black} = {slots[j], slots[i]}
        <4> DEFINE made == AssignColours(players, slots[j], slots[i])
        <4>1. {made.white, made.black} = {slots[j], slots[i]}
          BY DEF AssignColours
        <4> QED BY <3>4, <4>1
      <3> QED BY <2>4, <3>3, <3>5
    <2> QED BY <2>3, <2>5, <2>6
  <1> HIDE DEF Game
  <1>4. ColouredAs(games, slots, order, n)
    <2>1. DOMAIN order = 1 .. n
      BY <1>1
    <2>2. games = [k \in 1 .. n |-> games[k]] /\ \A k \in 1 .. n : games[k] = Game(k)
      BY <2>1
    <2> QED BY <1>3, <2>2 DEF ColouredAs
  <1> HIDE DEF games
  <1>5. ColouredAs(coloured, slots, order, n)
        /\ \A v \in odd.doubles : BothColours(coloured, n, v)
    <2>1. CASE odd.doubles = {}
      BY <1>2, <1>4, <2>1
    <2>2. CASE odd.doubles # {}
      <3> DEFINE v == CHOOSE v \in odd.doubles : TRUE
      <3>1. v \in odd.doubles /\ v \in S /\ \A w \in odd.doubles : w = v
        BY <2>2 DEF SlotsOnce
      <3>2. coloured = DoubleColours(players, games, v)
        BY <1>2, <2>2
      <3> HIDE DEF v
      <3>3. PICK i, j : TheirTwo(slots, order, n, v, i, j)
        BY <1>0, <3>1, TwoGames
      <3>4. /\ ColouredAs(coloured, slots, order, n)
            /\ BothColours(coloured, n, v)
        BY <1>1, <1>4, <3>2, <3>3, DoubleColoured, SMT
      <3> QED BY <3>1, <3>4
    <2> QED BY <2>1, <2>2
  <1> QED BY <1>5 DEF n, order, coloured

(* Everyone's games follow from their slots. *)
LEMMA SeatedOnce ==
  ASSUME NEW slots, NEW S, NEW twice, SlotsOnce(slots, S, twice), twice \subseteq S,
         NEW matched, Paired(slots, matched),
         NEW n, NEW order, Enumerates(order, matched, n),
         NEW games, ColouredAs(games, slots, order, n)
  PROVE  LET pairs == ToSet(games)
         IN  /\ \A p : p \notin S => GamesOf(pairs, p) = {}
             /\ \A p \in S \ twice : PlaysOnce(pairs, p)
             /\ \A p \in twice : PlaysTwice(pairs, p)
             /\ Cardinality(pairs) = n
  <1> DEFINE N == DOMAIN slots
             pairs == ToSet(games)
             On(k) == Sides(slots, order[k])
  <1>1. /\ n \in Nat /\ order \in [1 .. n -> matched]
        /\ \A j, k \in 1 .. n : order[j] = order[k] => j = k
        /\ \A e \in matched : \E k \in 1 .. n : order[k] = e
    BY DEF Enumerates
  <1>2. /\ DOMAIN games = 1 .. n
        /\ \A k \in 1 .. n : {games[k].white, games[k].black} = On(k)
    BY DEF ColouredAs
  <1>3. \A j, k \in 1 .. n : On(j) = On(k) => j = k
    <2> SUFFICES ASSUME NEW j \in 1 .. n, NEW k \in 1 .. n, On(j) = On(k)
                 PROVE  order[j] = order[k]
      BY <1>1
    <2>1. order[j] \in matched /\ order[k] \in matched
      BY <1>1
    <2> QED BY <2>1, SidesDiffer
  <1>4. ASSUME NEW k \in 1 .. n
        PROVE  \E i, j \in N : order[k] = {i, j} /\ slots[i] # slots[j]
                               /\ On(k) = {slots[i], slots[j]}
    <2>1. order[k] \in matched
      BY <1>1
    <2>2. PICK i, j \in N : order[k] = {i, j} /\ slots[i] # slots[j]
      BY <2>1 DEF Paired
    <2> QED BY <2>2 DEF Sides
  <1>5. pairs = {games[k] : k \in 1 .. n}
    BY <1>2 DEF ToSet
  <1>6. ASSUME NEW p PROVE GamesOf(pairs, p) = {games[k] : k \in {l \in 1 .. n : p \in On(l)}}
    <2>1. \A k \in 1 .. n : p \in {games[k].white, games[k].black} <=> p \in On(k)
      BY <1>2
    <2>2. GamesOf(pairs, p) = {m \in pairs : p \in {m.white, m.black}}
      BY DEF GamesOf
    <2> HIDE DEF On, pairs
    <2> QED BY <1>5, <2>1, <2>2
  <1>7. ASSUME NEW p, p \notin S PROVE GamesOf(pairs, p) = {}
    <2>1. \A k \in 1 .. n : p \notin On(k)
      <3> SUFFICES ASSUME NEW k \in 1 .. n PROVE p \notin On(k)
        OBVIOUS
      <3>1. PICK i, j \in N : On(k) = {slots[i], slots[j]}
        BY <1>4
      <3> QED BY <1>7, <3>1 DEF SlotsOnce
    <2> HIDE DEF On
    <2> QED BY <1>6, <2>1
  <1>8. ASSUME NEW p \in S \ twice PROVE PlaysOnce(pairs, p)
    <2>1. PICK i \in N : {k \in N : slots[k] = p} = {i}
      BY DEF SlotsOnce
    <2>2. slots[i] = p /\ \A k \in N : slots[k] = p => k = i
      BY <2>1
    <2>3. PICK e \in matched : i \in e /\ \A x \in matched : i \in x => x = e
      BY DEF Paired
    <2>4. PICK k \in 1 .. n : order[k] = e
      BY <1>1
    <2>5. ASSUME NEW l \in 1 .. n PROVE p \in On(l) <=> l = k
      <3>1. order[l] \in matched
        BY <1>1
      <3>2. PICK x, y \in N : order[l] = {x, y} /\ On(l) = {slots[x], slots[y]}
        BY <1>4
      <3>3. p \in On(l) <=> i \in order[l]
        BY <2>2, <3>2
      <3>4. i \in order[l] <=> order[l] = e
        BY <2>3, <3>1
      <3> QED BY <1>1, <2>4, <3>3, <3>4
    <2> HIDE DEF On, pairs
    <2>6. {l \in 1 .. n : p \in On(l)} = {k}
      BY <2>5
    <2>7. GamesOf(pairs, p) = {games[k]} /\ games[k] \in pairs
      BY <1>5, <1>6, <2>6
    <2> QED BY <2>7 DEF PlaysOnce
  <1>9. ASSUME NEW p \in twice PROVE PlaysTwice(pairs, p)
    <2>1. PICK i, j : TheirTwo(slots, order, n, p, i, j)
      BY TwoGames
    <2>2. i \in 1 .. n /\ j \in 1 .. n /\ i # j /\ \A k \in 1 .. n : p \in On(k) <=> k = i \/ k = j
      BY <1>1, <2>1 DEF TheirTwo
    <2>3. PICK a, b \in N : slots[a] # slots[b] /\ On(i) = {slots[a], slots[b]}
      BY <1>4, <2>2
    <2>4. PICK c, d \in N : slots[c] # slots[d] /\ On(j) = {slots[c], slots[d]}
      BY <1>4, <2>2
    <2>5. On(i) # On(j)
      BY <1>3, <2>2
    <2> HIDE DEF On, pairs
    <2>6. On(i) \cap On(j) = {p}
      <3>1. p \in On(i) /\ p \in On(j)
        BY <2>2
      <3>2. \E q : q # p /\ On(i) = {p, q}
        BY <2>3, <3>1
      <3>3. \E q : q # p /\ On(j) = {p, q}
        BY <2>4, <3>1
      <3> QED BY <2>5, <3>2, <3>3
    <2>7. {l \in 1 .. n : p \in On(l)} = {i, j}
      BY <2>2
    <2>8. GamesOf(pairs, p) = {games[i], games[j]} /\ games[i] \in pairs /\ games[j] \in pairs
      BY <1>5, <1>6, <2>2, <2>7
    <2>9. {games[i].white, games[i].black} \cap {games[j].white, games[j].black} = {p}
      BY <1>2, <2>2, <2>6
    <2> QED BY <2>8, <2>9 DEF PlaysTwice
  <1>10. Cardinality(pairs) = n
    <2> DEFINE T == 1 .. n
    <2>1. IsFiniteSet(T) /\ Cardinality(T) = n
      BY <1>1, CountTo
    <2>2. games \in [T -> pairs]
      <3>1. games = [k \in T |-> games[k]]
        BY DEF ColouredAs
      <3> QED BY <1>5, <3>1
    <2>3. \A j, k \in T : games[j] = games[k] => j = k
      BY <1>2, <1>3
    <2>4. \A x \in pairs : \E k \in T : games[k] = x
      BY <1>5
    <2> HIDE DEF T, pairs, On
    <2>5. games \in Injection(T, pairs) /\ games \in Surjection(T, pairs)
      BY <2>2, <2>3, <2>4 DEF Injection, Surjection, IsInjective
    <2> QED BY <2>1, <2>5, FS_Surjection
  <1> HIDE DEF pairs
  <1> QED BY <1>7, <1>8, <1>9, <1>10 DEF pairs

(* Whatever perfect matching the solver finds, of the slots of any league,   *)
(* the round Generate makes of it seats the pool as the rounds rely on:      *)
(* nobody is dropped, seated twice, or against themselves, and the           *)
(* volunteer has both colours against two opponents.                         *)
THEOREM PerfectSeats ==
  ASSUME IsLeague(league), NEW matched,
         Perfect(BuildGraph(league.players, league.history, league.cfg), matched)
  PROVE  LET result == Generate(league.players, league.history, league.cfg,
                                BuildGraph(league.players, league.history, league.cfg), matched)
         IN  Outcome(result) /\ SeatsThePool(result)
  <1> DEFINE players == league.players
             g == BuildGraph(players, league.history, league.cfg)
             odd == OddOutcome(players, league.cfg)
             S == Pool(players) \ odd.byes
             slots == g.slots
             n == Cardinality(matched)
             order == InOrder(g, matched)
             games == Coloured(players, g, odd, matched)
             result == Generate(players, league.history, league.cfg, g, matched)
             pairings == result.pairings
  <1>1. slots = Slots(players, odd)
    BY DEF BuildGraph
  <1>2. SlotsOnce(slots, S, odd.doubles)
    BY <1>1, SlotsMade
  <1>3. odd.doubles \subseteq S
    <2> HIDE DEF slots, S, odd
    <2> SUFFICES ASSUME NEW v \in odd.doubles PROVE v \in S
      OBVIOUS
    <2>1. PICK i, j \in DOMAIN slots : {k \in DOMAIN slots : slots[k] = v} = {i, j}
      BY <1>2 DEF SlotsOnce
    <2>2. i \in DOMAIN slots /\ slots[i] = v
      BY <2>1
    <2> QED BY <1>2, <2>2 DEF SlotsOnce
  <1>4. Paired(slots, matched)
    <2>1. ASSUME NEW e \in matched
          PROVE  \E i, j \in DOMAIN slots : e = {i, j} /\ slots[i] # slots[j]
      <3>1. e \in g.edges
        BY DEF Perfect
      <3>2. /\ \E i, j \in DOMAIN slots : e = {i, j}
            /\ \E i, j \in e : slots[i] # slots[j]
        BY <3>1, <1>1 DEF BuildGraph
      <3> HIDE DEF slots
      <3>3. PICK i, j \in DOMAIN slots : e = {i, j}
        BY <3>2
      <3> QED BY <3>2, <3>3
    <2>2. ASSUME NEW i \in DOMAIN slots
          PROVE  \E e \in matched : i \in e /\ \A x \in matched : i \in x => x = e
      <3>1. PICK e \in matched : {x \in matched : i \in x} = {e}
        BY DEF Perfect
      <3> QED BY <3>1
    <2> QED BY <2>1, <2>2 DEF Paired
  <1>5. IsFiniteSet(matched)
    <2>1. IsFiniteSet(SUBSET DOMAIN slots)
      BY <1>2, FS_SUBSET DEF SlotsOnce
    <2>2. matched \subseteq SUBSET DOMAIN slots
      BY <1>4 DEF Paired
    <2> QED BY <2>1, <2>2, FS_Subset
  <1>6. pairings = [k \in DOMAIN games |-> Diagnosed(players, league.history, league.cfg, games[k])]
    BY DEF Generate
  <1>17. Outcome(result)
    BY <1>5, AnySolver
  <1> HIDE DEF players, g, odd, S
  <1>7. /\ Enumerates(order, matched, n)
        /\ ColouredAs(games, slots, order, n)
        /\ \A v \in odd.doubles : BothColours(games, n, v)
    <2>1. Enumerates(order, matched, n)
      BY <1>2, <1>4, <1>5, OrderedOnce
    <2>2. /\ ColouredAs(games, slots, order, n)
          /\ \A v \in odd.doubles : BothColours(games, n, v)
      <3>1. Solved(g.slots, S, odd.doubles, matched)
        BY <1>2, <1>3, <1>4, <1>5 DEF Solved
      <3> QED BY <3>1, ColouredOnce
    <2> QED BY <2>1, <2>2
  <1> HIDE DEF slots, order, games, result, n, pairings
  <1>8. DOMAIN games = 1 .. n /\ n \in Nat
    BY <1>7 DEF ColouredAs, Enumerates
  <1>9. \A k \in 1 .. n : /\ pairings[k].white = games[k].white
                          /\ pairings[k].black = games[k].black
    BY <1>6, <1>8 DEF Diagnosed
  <1>10. pairings = [k \in 1 .. n |-> pairings[k]] /\ DOMAIN pairings = 1 .. n
    BY <1>6, <1>8
  <1>11. ColouredAs(pairings, slots, order, n)
    BY <1>7, <1>9, <1>10 DEF ColouredAs
  <1> DEFINE pairs == ToSet(pairings)
  <1>12. /\ \A p : p \notin S => GamesOf(pairs, p) = {}
         /\ \A p \in S \ odd.doubles : PlaysOnce(pairs, p)
         /\ \A p \in odd.doubles : PlaysTwice(pairs, p)
         /\ Cardinality(pairs) = n
    BY <1>2, <1>3, <1>4, <1>7, <1>11, SeatedOnce
  <1>13. ASSUME NEW v \in odd.doubles PROVE OneOfEachColour(pairs, v)
    <2>1. PICK k, l \in 1 .. n : games[k].white = v /\ games[l].black = v
      BY <1>7 DEF BothColours
    <2>2. pairings[k] \in pairs /\ pairings[l] \in pairs
      BY <1>10 DEF ToSet
    <2>3. pairings[k].white = v /\ pairings[l].black = v
      BY <1>9, <2>1
    <2> QED BY <2>2, <2>3 DEF OneOfEachColour
  <1>14. Len(pairings) = n
    <2>1. pairings \in [1 .. n -> {pairings[k] : k \in 1 .. n}]
      BY <1>10
    <2> QED BY <1>8, <2>1
  <1> HIDE DEF pairs
  <1>15. Seated(pairs, Pool(players), odd)
    BY <1>12, <1>13 DEF Seated, S
  <1>16. SeatsThePool(result)
    BY <1>12, <1>14, <1>15 DEF SeatsThePool, GamesIn, pairs, pairings, players, odd
  <1> QED BY <1>16, <1>17 DEF result, g, players

-----------------------------------------------------------------------------
(* The rounds of a season. *)

ContractInv == IsSeason /\ KeepsContract

(* Who is in the pool, and who had the bye, can be read off the reasons. *)
LEMMA PoolOfReasons ==
  ASSUME IsLeague(league), NEW result, Outcome(result)
  PROVE  LET pool == {p \in DOMAIN league.players : result.excluded[p] \in {"none", "bye"}}
             odd == [byes |-> result.byes, doubles |-> result.doubles]
         IN  /\ pool = Pool(league.players)
             /\ odd = OddOutcome(league.players, league.cfg)
             /\ odd \in OddOutcomes(pool, Volunteers(league.players, pool), league.cfg.oddPool)
  <1> DEFINE players == league.players
             pool == {p \in DOMAIN players : result.excluded[p] \in {"none", "bye"}}
             odd == OddOutcome(players, league.cfg)
             inPool == Pool(players)
  <1>1. /\ result.byes = odd.byes /\ result.doubles = odd.doubles
        /\ \A p \in DOMAIN players :
              result.excluded[p] = IF p \in odd.byes THEN "bye" ELSE ReasonOf(players[p])
    BY DEF Outcome
  <1>2. odd \in OddOutcomes(inPool, Volunteers(players, inPool), league.cfg.oddPool)
    BY OddAsPromised
  <1>3. odd = [byes |-> odd.byes, doubles |-> odd.doubles] /\ odd.byes \subseteq inPool
    <2> DEFINE volunteers == Volunteers(players, inPool)
    <2> HIDE DEF odd, inPool, volunteers
    <2>1. CASE Cardinality(inPool) % 2 = 0
      BY <1>2, <2>1 DEF OddOutcomes, volunteers
    <2>2. CASE /\ Cardinality(inPool) % 2 = 1
               /\ league.cfg.oddPool = "double_then_bye" /\ Cardinality(inPool) >= 3
               /\ volunteers # {}
      <3>1. PICK v \in volunteers : odd = [byes |-> {}, doubles |-> {v}]
        BY <1>2, <2>2 DEF OddOutcomes, volunteers
      <3> QED BY <3>1
    <2>3. CASE /\ Cardinality(inPool) % 2 # 0
               /\ ~(/\ Cardinality(inPool) % 2 = 1
                    /\ league.cfg.oddPool = "double_then_bye" /\ Cardinality(inPool) >= 3
                    /\ volunteers # {})
      <3>1. PICK b \in inPool : odd = [byes |-> {b}, doubles |-> {}]
        BY <1>2, <2>3 DEF OddOutcomes, volunteers
      <3> QED BY <3>1
    <2> QED BY <2>1, <2>2, <2>3
  <1>4. \A p \in DOMAIN players : ReasonOf(players[p]) # "bye"
    <2> SUFFICES ASSUME NEW p \in DOMAIN players PROVE ReasonOf(players[p]) # "bye"
      OBVIOUS
    <2>1. players[p].status \in Status
      BY DEF IsLeague, Player
    <2> HIDE DEF players
    <2> QED BY <2>1 DEF ReasonOf, Status
  <1>5. inPool = {p \in DOMAIN players : ReasonOf(players[p]) = "none"}
    BY DEF Pool
  <1> HIDE DEF players, odd, inPool
  <1>6. pool = inPool
    BY <1>1, <1>3, <1>4, <1>5
  <1> HIDE DEF pool
  <1>7. [byes |-> result.byes, doubles |-> result.doubles] = odd
    BY <1>1, <1>3
  <1>8. /\ pool = inPool /\ [byes |-> result.byes, doubles |-> result.doubles] = odd
        /\ odd \in OddOutcomes(pool, Volunteers(players, pool), league.cfg.oddPool)
    BY <1>2, <1>6, <1>7
  <1> QED BY <1>7, <1>8 DEF pool, inPool, odd, players

LEMMA ContractStep ==
  ASSUME ContractInv, SeasonNext
  PROVE  ContractInv'
  <1> USE DEF ContractInv
  <1>1. ASSUME NEW absent, Assemble(absent) PROVE ContractInv'
    <2>1. IsSeason' /\ results' = results /\ league'.cfg = league.cfg
      BY <1>1, AssembleFrame
    <2>2. KeepsContract'
      BY <2>1 DEF KeepsContract
    <2> QED BY <2>1, <2>2
  <1>2. ASSUME NEW gap \in Gaps, PublishAny(gap) PROVE ContractInv'
    <2>1. PICK result : /\ Outcome(result) /\ SeatsThePool(result)
                        /\ PublishRound(result, gap) /\ gap \in Nat
      BY <1>2, PublishAnyIsPublish
    <2> DEFINE n == Len(results) + 1
    <2>2. /\ n \in Nat /\ DOMAIN results = 1 .. n - 1 /\ DOMAIN results' = 1 .. n
          /\ \A i \in 1 .. n - 1 : results'[i] = results[i]
          /\ results'[n].members = league.players /\ results'[n].result = result
          /\ IsSeason'
      <3>1. /\ Len(results) \in Nat /\ DOMAIN results = 1 .. Len(results)
            /\ DOMAIN results' = 1 .. Len(results) + 1
            /\ \A i \in DOMAIN results : results'[i] = results[i]
            /\ results'[Len(results) + 1]
                  = [number |-> league.cfg.number, members |-> league.players,
                     history |-> league.history, result |-> result]
            /\ IsSeason'
        BY <2>1, PublishFrame
      <3> QED BY <3>1
    <2>3. league'.cfg.oddPool = league.cfg.oddPool
      <3>1. league.cfg \in Config
        BY DEF IsSeason, IsLeague
      <3>2. league'.cfg = [league.cfg EXCEPT !.number = league.cfg.number + 1 + gap]
        BY <2>1 DEF PublishRound
      <3> QED BY <3>1, <3>2 DEF Config
    <2> HIDE DEF n
    <2> DEFINE Kept(x, strategy) ==
                 LET pool == {p \in DOMAIN x.members : x.result.excluded[p] \in {"none", "bye"}}
                     odd == [byes |-> x.result.byes, doubles |-> x.result.doubles]
                 IN  /\ odd \in OddOutcomes(pool, Volunteers(x.members, pool), strategy)
                     /\ Seated(GamesIn(x.result), pool, odd)
                     /\ Cardinality(GamesIn(x.result)) = Len(x.result.pairings)
    <2>4. \A i \in 1 .. n - 1 : Kept(results[i], league.cfg.oddPool)
      BY <2>2 DEF KeepsContract
    <2>5. Kept(results'[n], league.cfg.oddPool)
      <3> DEFINE pool == {p \in DOMAIN league.players : result.excluded[p] \in {"none", "bye"}}
                 odd == [byes |-> result.byes, doubles |-> result.doubles]
      <3>1. /\ pool = Pool(league.players) /\ odd = OddOutcome(league.players, league.cfg)
            /\ odd \in OddOutcomes(pool, Volunteers(league.players, pool), league.cfg.oddPool)
        BY <2>1, PoolOfReasons DEF IsSeason
      <3> HIDE DEF pool, odd
      <3>2. /\ Seated(GamesIn(result), pool, odd)
            /\ Cardinality(GamesIn(result)) = Len(result.pairings)
        BY <2>1, <3>1 DEF SeatsThePool
      <3> QED BY <2>2, <3>1, <3>2 DEF pool, odd
    <2>6. \A i \in 1 .. n : Kept(results'[i], league'.cfg.oddPool)
      <3> HIDE DEF Kept
      <3>1. ASSUME NEW i \in 1 .. n PROVE Kept(results'[i], league.cfg.oddPool)
        <4>1. CASE i = n
          BY <2>5, <4>1
        <4>2. CASE i # n
          BY <2>2, <2>4, <4>2
        <4> QED BY <4>1, <4>2
      <3> QED BY <2>3, <3>1
    <2>7. KeepsContract'
      BY <2>2, <2>6 DEF KeepsContract
    <2> QED BY <2>2, <2>7
  <1> QED BY <1>1, <1>2 DEF SeasonNext

(* Every round of every season keeps the contract the rounds rely on, if the *)
(* solver's matchings are perfect (PerfectSeats): the odd player out as the  *)
(* strategy says, the volunteer one game of each colour against two          *)
(* opponents, everyone else in the pool one.                                 *)
THEOREM ContractKept == SeasonSpec => []KeepsContract
  <1>1. SeasonInit => ContractInv
    <2>1. SeasonInit => IsSeason /\ DOMAIN results = {}
      BY SeasonStarts DEF SeasonInit, ByeInv
    <2> QED BY <2>1 DEF ContractInv, KeepsContract
  <1>2. ContractInv /\ [SeasonNext]_seasonVars => ContractInv'
    <2> SUFFICES ASSUME ContractInv, [SeasonNext]_seasonVars PROVE ContractInv'
      OBVIOUS
    <2>1. CASE SeasonNext
      BY <2>1, ContractStep
    <2>2. CASE UNCHANGED seasonVars
      BY <2>2 DEF seasonVars, ContractInv, IsSeason, KeepsContract
    <2> QED BY <2>1, <2>2
  <1>3. ContractInv => KeepsContract
    BY DEF ContractInv
  <1> QED BY <1>1, <1>2, <1>3, PTL DEF SeasonSpec

LEMMA MatchedIsAny ==
  ASSUME IsSeason, NEW gap \in Gaps, PublishMatched(gap)
  PROVE  PublishAny(gap) /\ IsSeason'
  <1> DEFINE g == BuildGraph(league.players, league.history, league.cfg)
  <1>1. PICK matched : /\ Perfect(g, matched)
                       /\ PublishRound(Generate(league.players, league.history, league.cfg, g,
                                                matched), gap)
    BY DEF PublishMatched
  <1> DEFINE result == Generate(league.players, league.history, league.cfg, g, matched)
  <1>2. Outcome(result) /\ SeatsThePool(result)
    BY <1>1, PerfectSeats DEF IsSeason
  <1> HIDE DEF result
  <1>3. PublishRound(result, gap) /\ gap \in Nat
    BY <1>1, SeasonAssumption DEF result
  <1>4. /\ Len(results) \in Nat /\ Len(results') = Len(results) + 1
        /\ results'[Len(results) + 1]
              = [number |-> league.cfg.number, members |-> league.players,
                 history |-> league.history, result |-> result]
        /\ IsSeason'
    BY <1>2, <1>3, PublishFrame
  <1>5. Len(results') = Len(results) + 1 /\ results'[Len(results')].result = result
    BY <1>4
  <1> QED BY <1>2, <1>3, <1>4, <1>5 DEF PublishAny

(* An engine with any solver that finds perfect matchings is Season: what    *)
(* Season says of a round, from the bye to the seating, is all pairing.go's  *)
(* own work.                                                                 *)
THEOREM SolverImplements == SolverSpec => SeasonSpec
  <1>1. SeasonInit => IsSeason
    BY SeasonStarts DEF ByeInv
  <1>2. IsSeason /\ [SolverNext]_seasonVars => IsSeason' /\ [SeasonNext]_seasonVars
    <2> SUFFICES ASSUME IsSeason, [SolverNext]_seasonVars
                 PROVE  IsSeason' /\ [SeasonNext]_seasonVars
      OBVIOUS
    <2>1. ASSUME NEW absent \in Absences, Assemble(absent)
          PROVE  IsSeason' /\ [SeasonNext]_seasonVars
      BY <2>1, AssembleFrame DEF SeasonNext
    <2>2. ASSUME NEW gap \in Gaps, PublishMatched(gap)
          PROVE  IsSeason' /\ [SeasonNext]_seasonVars
      BY <2>2, MatchedIsAny DEF SeasonNext
    <2>3. CASE UNCHANGED seasonVars
      BY <2>3 DEF seasonVars, IsSeason
    <2> QED BY <2>1, <2>2, <2>3 DEF SolverNext
  <1> QED BY <1>1, <1>2, PTL DEF SolverSpec, SeasonSpec
=============================================================================
