---------------------------- MODULE SeatingProofs ----------------------------
(***************************************************************************)
(* Who plays in a live round, and how much at once.  Every member is       *)
(* accounted for, whatever the admin does to the draft: the theorem behind *)
(* "exactly one new pairing per round".  And no member plays more games at *)
(* once than the cap allows, except through two rounds of which neither    *)
(* counted the other when its pool was read.                               *)
(***************************************************************************)
EXTENDS RoundsProofs, FiniteSetTheorems, WellFoundedInduction

(* The statements' operators are transparent in every proof below. *)
USE DEF CreateGeneratedRound, CancelRound, CancelPairings, FlipPairingColours,
        InsertEditedPairing, InsertExclusions

(* One member's place in a round's content. *)
Place(c, p) ==
    IF p \in c.doubles
    THEN PlaysTwice(c.pairings, p) /\ c.excluded[p] = "none"
    ELSE IF c.excluded[p] = "none"
    THEN PlaysOnce(c.pairings, p)
    ELSE GamesOf(c.pairings, p) = {}

(* Nobody meets himself and at most one member plays twice; without this a *)
(* swap next to the volunteer's games could not be shown harmless.         *)
Placed(c) ==
    /\ \A m \in c.pairings : m.white # m.black
    /\ \A p, q \in c.doubles : p = q
    /\ \A p \in Player : Place(c, p)

AllPlaced == \A r \in Live : Placed(content[r])

(* A pool read names volunteers of its own pool only. *)
PoolsSound == \A g \in Generator : session[g].pool.volunteers \subseteq PoolOf(session[g].pool)

SeatInv == IInv /\ AllPlaced /\ PoolsSound

-----------------------------------------------------------------------------
(* What a draw writes. *)
LEMMA WrittenPlaced ==
  ASSUME NEW read \in PoolRead, read.volunteers \subseteq PoolOf(read),
         NEW d \in Draws(PoolOf(read), read.volunteers)
  PROVE  Placed(Written(read, d))
  <1> DEFINE pool == PoolOf(read)
             c == Written(read, d)
             img(m) == [white |-> m.white, black |-> m.black, status |-> "pending"]
  <1>1. PICK odd \in OddChoices(pool, read.volunteers), s \in GameSets[pool] :
            /\ d = [pairs |-> s, byes |-> odd.byes, doubles |-> odd.doubles]
            /\ Seated(s, pool, odd)
    BY DEF Draws
  <1>2. pool \subseteq Player
    BY DEF PoolOf
  <1>3. /\ odd.byes \subseteq pool /\ odd.doubles \subseteq pool
        /\ odd.byes = {} \/ odd.doubles = {}
        /\ \A p, q \in odd.doubles : p = q
    <2>1. CASE Cardinality(pool) % 2 = 0
      BY <2>1 DEF OddChoices, OddOutcomes
    <2>2. CASE Cardinality(pool) % 2 # 0
      BY <2>2 DEF OddChoices, OddOutcomes
    <2>3. QED BY <2>1, <2>2
  <1>4. \A m \in s : m \in [white : pool, black : pool] /\ m.white # m.black
    BY <1>2 DEF GameSets
  <1>5. c.pairings = {img(m) : m \in s} /\ c.doubles = odd.doubles
    BY <1>1 DEF Written
  <1>6. \A m \in c.pairings : m.white # m.black
    BY <1>4, <1>5
  <1>7. ASSUME NEW p \in Player
        PROVE  GamesOf(c.pairings, p) = {img(m) : m \in GamesOf(s, p)}
    BY <1>5 DEF GamesOf
  <1>8. ASSUME NEW p \in Player
        PROVE  Place(c, p)
    <2>1. CASE p \in odd.doubles
      <3>1. PICK m, n \in s : GamesOf(s, p) = {m, n}
                              /\ {m.white, m.black} \cap {n.white, n.black} = {p}
        BY <1>1, <2>1 DEF Seated, PlaysTwice
      <3>2. GamesOf(c.pairings, p) = {img(m), img(n)}
        BY <1>7, <3>1
      <3>3. img(m) \in c.pairings /\ img(n) \in c.pairings
        BY <1>5
      <3>4. PlaysTwice(c.pairings, p)
        <4>1. {img(m).white, img(m).black} \cap {img(n).white, img(n).black} = {p}
          BY <3>1
        <4>2. QED BY <3>2, <3>3, <4>1 DEF PlaysTwice
      <3>5. c.excluded[p] = "none"
        BY <1>1, <1>2, <1>3, <2>1 DEF Written, PoolOf
      <3>6. QED BY <1>5, <2>1, <3>4, <3>5 DEF Place
    <2>2. CASE p \in pool \ (odd.byes \cup odd.doubles)
      <3>1. PICK m \in s : GamesOf(s, p) = {m}
        BY <1>1, <2>2 DEF Seated, PlaysOnce
      <3>2. GamesOf(c.pairings, p) = {img(m)} /\ img(m) \in c.pairings
        BY <1>5, <1>7, <3>1
      <3>3. c.excluded[p] = "none" /\ p \notin c.doubles
        BY <1>1, <1>5, <2>2 DEF Written, PoolOf
      <3>4. QED BY <3>2, <3>3 DEF Place, PlaysOnce
    <2>3. CASE p \notin pool \/ p \in odd.byes
      <3>1. GamesOf(s, p) = {}
        BY <1>1, <1>4, <2>3 DEF Seated, GamesOf
      <3>2. GamesOf(c.pairings, p) = {}
        BY <1>7, <3>1
      <3>3. c.excluded[p] # "none" /\ p \notin c.doubles
        BY <1>1, <1>3, <1>5, <2>3 DEF Written, PoolOf
      <3>4. QED BY <3>2, <3>3 DEF Place
    <2>4. QED BY <2>1, <2>2, <2>3
  <1>9. QED BY <1>3, <1>5, <1>6, <1>8 DEF Placed

(* A pairing exchanged for one between the same two players. *)
LEMMA ReplacePlaced ==
  ASSUME NEW c \in Content, Placed(c), NEW m \in c.pairings, NEW n,
         {n.white, n.black} = {m.white, m.black}
  PROVE  Placed([c EXCEPT !.pairings = (c.pairings \ {m}) \cup {n}])
  <1> DEFINE S == (c.pairings \ {m}) \cup {n}
             e == [c EXCEPT !.pairings = S]
  <1>1. e.pairings = S /\ e.doubles = c.doubles /\ e.excluded = c.excluded
    BY DEF Content
  <1>2. m.white # m.black /\ n.white # n.black
    BY DEF Placed
  <1>3. ASSUME NEW p \in Player PROVE Place(e, p)
    <2>0. Place(c, p)
      BY DEF Placed
    <2>1. GamesOf(S, p) = IF p \in {m.white, m.black}
                          THEN (GamesOf(c.pairings, p) \ {m}) \cup {n}
                          ELSE GamesOf(c.pairings, p)
      BY DEF GamesOf
    <2>2. PlaysOnce(c.pairings, p) => PlaysOnce(S, p)
      BY <2>1 DEF PlaysOnce, GamesOf
    <2>3. PlaysTwice(c.pairings, p) => PlaysTwice(S, p)
      <3>1. SUFFICES ASSUME NEW x \in c.pairings, NEW y \in c.pairings,
                            GamesOf(c.pairings, p) = {x, y},
                            {x.white, x.black} \cap {y.white, y.black} = {p}
                     PROVE  PlaysTwice(S, p)
        BY DEF PlaysTwice
      <3>2. x # y
        BY <3>1 DEF Placed
      <3>3. CASE p \notin {m.white, m.black}
        <4>1. x # m /\ y # m
          BY <3>1, <3>3 DEF GamesOf
        <4>2. QED BY <2>1, <3>1, <3>3, <4>1 DEF PlaysTwice
      <3>4. CASE p \in {m.white, m.black} /\ m = x
        <4>1. GamesOf(S, p) = {n, y}
          BY <2>1, <3>1, <3>2, <3>4
        <4>2. {n.white, n.black} \cap {y.white, y.black} = {p}
          BY <3>1, <3>4
        <4>3. QED BY <3>2, <3>4, <4>1, <4>2 DEF PlaysTwice
      <3>5. CASE p \in {m.white, m.black} /\ m = y
        <4>1. GamesOf(S, p) = {x, n}
          BY <2>1, <3>1, <3>2, <3>5
        <4>2. {x.white, x.black} \cap {n.white, n.black} = {p}
          BY <3>1, <3>5
        <4>3. QED BY <3>2, <3>5, <4>1, <4>2 DEF PlaysTwice
      <3>6. p \in {m.white, m.black} => m \in {x, y}
        BY <3>1 DEF GamesOf
      <3>7. QED BY <3>3, <3>4, <3>5, <3>6
    <2>4. GamesOf(c.pairings, p) = {} => GamesOf(S, p) = {}
      BY <2>1 DEF GamesOf
    <2>5. QED BY <1>1, <2>0, <2>2, <2>3, <2>4 DEF Place
  <1>4. \A x \in S : x.white # x.black
    BY <1>2 DEF Placed
  <1>5. QED BY <1>1, <1>3, <1>4 DEF Placed

(* One pairing taken out, as RemovePairing does. *)
LEMMA RemovePlaced ==
  ASSUME NEW c \in Content, Placed(c), NEW m \in c.pairings
  PROVE  Placed([c EXCEPT
            !.pairings = @ \ {m},
            !.doubles = @ \ {m.white, m.black},
            !.excluded = [p \in Player |->
                IF p \in {m.white, m.black} \ c.doubles THEN "removed_by_admin" ELSE @[p]]])
  <1> DEFINE S == c.pairings \ {m}
             X == [p \in Player |->
                    IF p \in {m.white, m.black} \ c.doubles THEN "removed_by_admin"
                                                          ELSE c.excluded[p]]
             e == [c EXCEPT !.pairings = S, !.doubles = c.doubles \ {m.white, m.black},
                            !.excluded = X]
  <1>1. /\ e.pairings = S /\ e.doubles = c.doubles \ {m.white, m.black}
        /\ e.excluded = X
    BY DEF Content
  <1>2. \A p \in Player : GamesOf(S, p) = GamesOf(c.pairings, p) \ {m}
    BY DEF GamesOf
  <1>3. ASSUME NEW p \in Player PROVE Place(e, p)
    <2>0. Place(c, p)
      BY DEF Placed
    <2>1. CASE p \notin {m.white, m.black}
      <3>1. GamesOf(S, p) = GamesOf(c.pairings, p) /\ m \notin GamesOf(c.pairings, p)
        BY <1>2, <2>1 DEF GamesOf
      <3>2. PlaysOnce(c.pairings, p) => PlaysOnce(S, p)
        BY <3>1 DEF PlaysOnce
      <3>3. PlaysTwice(c.pairings, p) => PlaysTwice(S, p)
        BY <3>1 DEF PlaysTwice
      <3>4. QED BY <1>1, <2>0, <2>1, <3>1, <3>2, <3>3 DEF Place
    <2>2. CASE p \in {m.white, m.black} /\ p \in c.doubles
      <3>1. PICK x, y \in c.pairings : GamesOf(c.pairings, p) = {x, y}
                              /\ {x.white, x.black} \cap {y.white, y.black} = {p}
        BY <2>0, <2>2 DEF Place, PlaysTwice
      <3>2. x # y /\ m \in {x, y}
        BY <2>2, <3>1 DEF Placed, GamesOf
      <3>3. PlaysOnce(S, p)
        BY <1>2, <3>1, <3>2 DEF PlaysOnce
      <3>4. e.excluded[p] = "none" /\ p \notin e.doubles
        BY <1>1, <2>0, <2>2 DEF Place
      <3>5. QED BY <1>1, <3>3, <3>4 DEF Place
    <2>3. CASE p \in {m.white, m.black} /\ p \notin c.doubles
      <3>1. PlaysOnce(c.pairings, p) /\ m \in GamesOf(c.pairings, p)
        BY <2>0, <2>3 DEF Place, GamesOf
      <3>2. GamesOf(S, p) = {}
        BY <1>2, <3>1 DEF PlaysOnce
      <3>3. e.excluded[p] = "removed_by_admin" /\ p \notin e.doubles
        BY <1>1, <2>3
      <3>4. QED BY <1>1, <3>2, <3>3 DEF Place
    <2>4. QED BY <2>1, <2>2, <2>3
  <1>4. QED BY <1>1, <1>3 DEF Placed

(* Two pairings exchange opponents.  The volunteer's two opponents stay      *)
(* distinct because nobody else plays twice.                                 *)
LEMMA SwapPlaced ==
  ASSUME NEW c \in Content, Placed(c),
         NEW a \in c.pairings, NEW b \in c.pairings, a # b,
         a.white # b.black, b.white # a.black,
         NEW x, NEW y, x # y,
         {x.white, x.black} = {a.white, b.black},
         {y.white, y.black} = {b.white, a.black}
  PROVE  Placed([c EXCEPT !.pairings = (c.pairings \ {a, b}) \cup {x, y}])
  <1> DEFINE S == (c.pairings \ {a, b}) \cup {x, y}
             e == [c EXCEPT !.pairings = S]
             Who(m) == {m.white, m.black}
  <1>1. e.pairings = S /\ e.doubles = c.doubles /\ e.excluded = c.excluded
    BY DEF Content
  <1>2. \A m \in c.pairings : m.white \in Player /\ m.black \in Player /\ m.white # m.black
    BY DEF Content, Pairing, Placed
  <1>3. x.white # x.black /\ y.white # y.black
    OBVIOUS
  <1>4. ASSUME NEW p \in Player
        PROVE  GamesOf(S, p) = (GamesOf(c.pairings, p) \ {a, b})
                                 \cup {m \in {x, y} : p \in Who(m)}
    BY DEF GamesOf
  <1>5. ASSUME NEW p \in Player, NEW z \in c.pairings, NEW w \in c.pairings, z # w,
               p \in Who(z), p \in Who(w)
        PROVE  p \in c.doubles
    <2>1. ~PlaysOnce(c.pairings, p) /\ GamesOf(c.pairings, p) # {}
      BY <1>5 DEF PlaysOnce, GamesOf
    <2>2. QED BY <2>1 DEF Placed, Place
  <1>6. ASSUME NEW p \in Player PROVE Place(e, p)
    <2>0. Place(c, p)
      BY DEF Placed
    <2>1. CASE p \notin Who(a) /\ p \notin Who(b)
      <3>1. GamesOf(S, p) = GamesOf(c.pairings, p)
        BY <1>4, <2>1 DEF GamesOf
      <3>2. \A m \in GamesOf(c.pairings, p) : m \in S
        BY <2>1 DEF GamesOf
      <3>3. PlaysOnce(c.pairings, p) => PlaysOnce(S, p)
        BY <3>1, <3>2 DEF PlaysOnce
      <3>4. PlaysTwice(c.pairings, p) => PlaysTwice(S, p)
        BY <3>1, <3>2 DEF PlaysTwice
      <3>5. CASE p \in c.doubles
        BY <1>1, <2>0, <3>4, <3>5 DEF Place
      <3>6. CASE p \notin c.doubles
        BY <1>1, <2>0, <3>1, <3>3, <3>6 DEF Place
      <3>7. QED BY <3>5, <3>6
    <2>2. CASE p \in Who(a) \cup Who(b) /\ p \notin c.doubles
      <3>1. PICK g \in c.pairings : GamesOf(c.pairings, p) = {g}
        BY <2>0, <2>2 DEF Place, PlaysOnce, GamesOf
      <3>2. \/ g = a /\ p \in Who(a) /\ p \notin Who(b)
            \/ g = b /\ p \in Who(b) /\ p \notin Who(a)
        BY <1>5, <2>2, <3>1 DEF GamesOf
      <3>3. PICK z \in {x, y} : {m \in {x, y} : p \in Who(m)} = {z}
        <4>1. p \in Who(x) \/ p \in Who(y)
          BY <3>2
        <4>2. ~(p \in Who(x) /\ p \in Who(y))
          BY <1>2, <3>2
        <4>3. CASE p \in Who(x)
          BY <4>2, <4>3
        <4>4. CASE p \in Who(y)
          BY <4>2, <4>4
        <4>5. QED BY <4>1, <4>3, <4>4
      <3>4. GamesOf(S, p) = {z}
        <4>1. GamesOf(c.pairings, p) \ {a, b} = {}
          BY <3>1, <3>2
        <4>2. QED BY <1>4, <3>3, <4>1
      <3>5. PlaysOnce(S, p)
        BY <3>4 DEF PlaysOnce
      <3>6. c.excluded[p] = "none"
        BY <2>0, <2>2, <3>1 DEF Place
      <3>7. QED BY <1>1, <2>2, <3>5, <3>6 DEF Place
    <2>3. CASE p \in Who(a) \cup Who(b) /\ p \in c.doubles
      <3>0. PICK g, h \in c.pairings : /\ GamesOf(c.pairings, p) = {g, h}
                                       /\ Who(g) \cap Who(h) = {p}
        BY <2>0, <2>3 DEF Place, PlaysTwice
      <3>1. g # h /\ p \in Who(g) /\ p \in Who(h)
        BY <1>2, <3>0
      <3>2. \A q \in c.doubles : q = p
        BY <2>3 DEF Placed
      <3>3. c.excluded[p] = "none"
        BY <2>0, <2>3 DEF Place
      <3>4. CASE p \in Who(a) /\ p \in Who(b)
        <4>1. {a, b} = {g, h} /\ Who(a) \cap Who(b) = {p}
          BY <3>0, <3>1, <3>4 DEF GamesOf
        <4>2. \/ p = a.white /\ p = b.white
              \/ p = a.black /\ p = b.black
          BY <3>4
        <4>3. p \in Who(x) /\ p \in Who(y) /\ Who(x) \cap Who(y) = {p}
          BY <1>2, <4>1, <4>2
        <4>4. GamesOf(S, p) = {x, y}
          BY <1>4, <3>0, <4>1, <4>3
        <4>5. PlaysTwice(S, p)
          BY <4>3, <4>4 DEF PlaysTwice
        <4>6. QED BY <1>1, <2>3, <3>3, <4>5 DEF Place
      <3>5. CASE ~(p \in Who(a) /\ p \in Who(b))
        (* k is the volunteer's pairing that is swapped, o the other of the   *)
        (* two, and l the pairing it is swapped with, where he does not play. *)
        <4>1. PICK k, l \in {a, b} : k # l /\ p \in Who(k) /\ p \notin Who(l)
          BY <2>3, <3>5
        <4>2. PICK o \in {g, h} : {g, h} = {k, o} /\ o # k
          BY <3>0, <3>1, <4>1 DEF GamesOf
        <4>3. o \in c.pairings /\ p \in Who(o) /\ o # l
          BY <3>0, <3>1, <4>1, <4>2
        <4>4. PICK z \in {x, y} : /\ {m \in {x, y} : p \in Who(m)} = {z}
                                  /\ \E q \in Who(l) : Who(z) = {p, q}
          BY <1>2, <4>1
        <4>5. PICK q \in Who(l) : Who(z) = {p, q}
          BY <4>4
        <4>6. q \in Player /\ q # p
          BY <1>2, <4>1
        <4>7. q \notin Who(o)
          BY <1>5, <3>2, <4>1, <4>3, <4>6
        <4>8. Who(z) \cap Who(o) = {p}
          BY <4>3, <4>5, <4>7
        <4>9. GamesOf(S, p) = {z, o}
          BY <1>4, <3>0, <4>1, <4>2, <4>3, <4>4
        <4>10. z \in S /\ o \in S
          BY <4>1, <4>2, <4>3
        <4>11. PlaysTwice(S, p)
          BY <4>8, <4>9, <4>10 DEF PlaysTwice
        <4>12. QED BY <1>1, <2>3, <3>3, <4>11 DEF Place
      <3>6. QED BY <3>4, <3>5
    <2>4. QED BY <2>1, <2>2, <2>3
  <1>7. QED BY <1>1, <1>2, <1>3, <1>6 DEF Placed

-----------------------------------------------------------------------------
(* The inductive step. *)

LEMMA LoadPoolSound == LoadPool.volunteers \subseteq PoolOf(LoadPool)
  BY RoundsAssumption DEF LoadPool, PoolOf

LEMMA IdleSound == IdleSession.pool.volunteers \subseteq PoolOf(IdleSession.pool)
  BY DEF IdleSession, NoPool

(* A step that gives one session a sound pool and touches no content. *)
LEMMA SessionSound ==
  ASSUME SeatInv, NEW g \in Generator,
         \/ GenerateNumber(g) \/ GeneratePool(g) \/ GenerateFails(g)
         \/ GenerateInsert(g) \/ RegenerateWrite(g)
         \/ \E r \in Reviewed : RegenerateRead(g, r)
  PROVE  PoolsSound'
  <1> USE DEF SeatInv, IInv
  <1>1. \A h \in Generator \ {g} : session'[h] = session[h]
    BY DEF TypeOK, GenerateNumber, GeneratePool, GenerateFails, GenerateInsert,
           RegenerateWrite, RegenerateRead
  <1>2. session'[g].pool \in {IdleSession.pool, LoadPool}
    <2>1. CASE GenerateNumber(g)
      <3>1. session \in [Generator -> Session]
        BY DEF TypeOK
      <3>2. PICK n \in 1..(MaxRounds + 1) :
               session' = [session EXCEPT ![g] = [IdleSession EXCEPT
                              !.pc = "numbered", !.number = n,
                              !.mode = cfg.mode, !.creation = cfg.creation]]
        BY <2>1 DEF GenerateNumber
      <3>3. session'[g].pool = IdleSession.pool
        BY <3>1, <3>2 DEF IdleSession
      <3>4. QED BY <3>3
    <2>2. CASE GeneratePool(g)
      <3>1. /\ session \in [Generator -> Session]
            /\ session' = [session EXCEPT ![g] =
                              [session[g] EXCEPT !.pc = "paired", !.pool = LoadPool]]
        BY <2>2 DEF GeneratePool, TypeOK
      <3>2. session'[g] = [session[g] EXCEPT !.pc = "paired", !.pool = LoadPool]
        BY <3>1
      <3>3. session[g] \in Session
        BY <3>1
      <3>4. session'[g].pool = LoadPool
        BY <3>2, <3>3 DEF Session
      <3>5. QED BY <3>4
    <2>3. CASE GenerateFails(g) \/ GenerateInsert(g) \/ RegenerateWrite(g)
      BY <2>3 DEF GenerateFails, GenerateInsert, RegenerateWrite, TypeOK
    <2>4. CASE \E r \in Reviewed : RegenerateRead(g, r)
      BY <2>4 DEF RegenerateRead, TypeOK, IdleSession
    <2>5. QED BY <2>1, <2>2, <2>3, <2>4
  <1>3. session'[g].pool.volunteers \subseteq PoolOf(session'[g].pool)
    BY <1>2, LoadPoolSound, IdleSound
  <1>4. \A h \in Generator :
           session'[h].pool.volunteers \subseteq PoolOf(session'[h].pool)
    BY <1>1, <1>3 DEF PoolsSound
  <1>5. QED BY <1>4 DEF PoolsSound, PoolOf

(* Only round r changes, and what it then holds is placed. *)
LEMMA OnePlaced ==
  ASSUME AllPlaced, NEW r \in RoundId,
         \A s \in RoundId \ {r} : content'[s] = content[s] /\ rounds'[s] = rounds[s],
         r \in Live' => Placed(content'[r])
  PROVE  AllPlaced'
  <1>1. ASSUME NEW s \in Live' PROVE Placed(content'[s])
    BY <1>1 DEF AllPlaced, Live
  <1>2. QED BY <1>1 DEF AllPlaced, Placed, Place

LEMMA GeneratePlaces ==
  ASSUME SeatInv, NEW g \in Generator, GenerateStep(g)
  PROVE  AllPlaced' /\ PoolsSound'
  <1> USE DEF SeatInv, IInv
  <1>0. PoolsSound'
    BY SessionSound DEF GenerateStep
  <1>1. session[g].pool \in PoolRead
        /\ session[g].pool.volunteers \subseteq PoolOf(session[g].pool)
    BY DEF TypeOK, Session, PoolsSound
  <1>2. CASE GenerateInsert(g)
    <2>1. PICK r \in RoundId, d \in Draws(PoolOf(session[g].pool), session[g].pool.volunteers) :
             /\ content' = [content EXCEPT ![r] = Written(session[g].pool, d)]
             /\ \A s \in RoundId \ {r} : rounds'[s] = rounds[s]
      BY <1>2 DEF GenerateInsert, TypeOK
    <2>2. content'[r] = Written(session[g].pool, d)
          /\ \A s \in RoundId \ {r} : content'[s] = content[s]
      BY <2>1 DEF TypeOK
    <2>3. Placed(content'[r])
      BY <1>1, <2>2, WrittenPlaced
    <2>4. QED BY <1>0, <2>1, <2>2, <2>3, OnePlaced
  <1>3. CASE RegenerateWrite(g)
    <2> DEFINE r == session[g].round
    <2>1. r \in RoundId /\ UNCHANGED rounds
      BY <1>3 DEF RegenerateWrite, LockHeld
    <2>2. PICK d \in Draws(PoolOf(session[g].pool), session[g].pool.volunteers) :
             content' = [content EXCEPT ![r] = Written(session[g].pool, d)]
      BY <1>3 DEF RegenerateWrite
    <2>3. content'[r] = Written(session[g].pool, d)
          /\ \A s \in RoundId \ {r} : content'[s] = content[s]
      BY <2>1, <2>2 DEF TypeOK
    <2>4. Placed(content'[r])
      BY <1>1, <2>3, WrittenPlaced
    <2>5. QED BY <1>0, <2>1, <2>3, <2>4, OnePlaced
  <1>4. CASE UNCHANGED <<rounds, content>>
    BY <1>0, <1>4 DEF AllPlaced, Live, Placed, Place
  <1>5. QED
    BY <1>2, <1>3, <1>4
       DEF GenerateStep, GenerateNumber, GeneratePool, GenerateFails, RegenerateRead

LEMMA RoundStepPlaces ==
  ASSUME SeatInv, NEW r \in RoundId, RoundStep(r)
  PROVE  AllPlaced' /\ PoolsSound'
  <1> USE DEF SeatInv, IInv
  <1>0. PoolsSound'
    BY DEF RoundStep, PublishNow, PublishJob, PublishJobLost, PublishDue, WindowEnds,
           Cancel, PoolsSound, PoolOf
  <1>1. CASE Cancel(r)
    <2>1. /\ \A s \in RoundId \ {r} : content'[s] = content[s] /\ rounds'[s] = rounds[s]
          /\ rounds'[r].state = "cancelled"
      BY <1>1 DEF Cancel, TypeOK, Round
    <2>2. r \notin Live'
      BY <2>1 DEF Live
    <2>3. QED BY <1>0, <2>1, <2>2, OnePlaced
  <1>2. CASE WindowEnds(r)
    BY <1>0, <1>2, OnePlaced DEF WindowEnds, TypeOK, Live, AllPlaced
  <1>3. CASE Publish(r) /\ UNCHANGED content
    BY <1>0, <1>3, OnePlaced DEF Publish, TypeOK, Live, AllPlaced
  <1>4. CASE UNCHANGED <<rounds, content>>
    BY <1>0, <1>4 DEF AllPlaced, Live, Placed, Place
  <1>5. QED
    BY <1>1, <1>2, <1>3, <1>4
       DEF RoundStep, PublishNow, PublishJob, PublishJobLost, PublishDue

LEMMA EditPlaces ==
  ASSUME SeatInv, NEW r \in RoundId, NEW m \in content[r].pairings,
         EditStep(r, m) \/ PairingStep(r, m)
  PROVE  AllPlaced' /\ PoolsSound'
  <1> USE DEF SeatInv, IInv
  <1> DEFINE c == content[r]
  <1>0. PoolsSound'
    BY DEF EditStep, FlipColours, RemovePairing, SwapPairings, PairingStep, MarkFailed,
           GameOver, SetStatus, PoolsSound, PoolOf
  <1>1. c \in Content /\ m \in Pairing
    BY DEF TypeOK, Content
  <1>2. r \in Live => Placed(c)
    BY DEF AllPlaced
  <1>3. ASSUME NEW e, content' = [content EXCEPT ![r] = e], UNCHANGED rounds,
               r \in Live => Placed(e)
        PROVE  AllPlaced'
    BY <1>3, OnePlaced DEF TypeOK, Live
  <1>4. ASSUME NEW n, {n.white, n.black} = {m.white, m.black}, UNCHANGED rounds,
               content' = [content EXCEPT ![r].pairings = (@ \ {m}) \cup {n}]
        PROVE  AllPlaced'
    <2> DEFINE e == [c EXCEPT !.pairings = (c.pairings \ {m}) \cup {n}]
    <2>1. content' = [content EXCEPT ![r] = e]
      BY <1>4 DEF TypeOK
    <2>2. r \in Live => Placed(e)
      BY <1>1, <1>2, <1>4, ReplacePlaced
    <2>3. QED BY <1>3, <1>4, <2>1, <2>2
  <1>5. CASE FlipColours(r, m)
    <2> DEFINE n == [m EXCEPT !.white = m.black, !.black = m.white]
    <2>1. {n.white, n.black} = {m.white, m.black}
      BY <1>1 DEF Pairing
    <2>2. content' = [content EXCEPT ![r].pairings = (@ \ {m}) \cup {n}] /\ UNCHANGED rounds
      BY <1>5 DEF FlipColours
    <2>3. QED
      <3> HIDE DEF n
      <3> QED BY <1>0, <1>4, <2>1, <2>2
  <1>6. CASE RemovePairing(r, m)
    <2> DEFINE e == [c EXCEPT
                        !.pairings = @ \ {m},
                        !.doubles = @ \ {m.white, m.black},
                        !.excluded = [p \in Player |->
                            IF p \in {m.white, m.black} \ c.doubles
                            THEN "removed_by_admin" ELSE @[p]]]
    <2>1. content' = [content EXCEPT ![r] = e] /\ UNCHANGED rounds
      BY <1>6 DEF RemovePairing, TypeOK
    <2>2. r \in Live => Placed(e)
      BY <1>1, <1>2, RemovePlaced
    <2>3. QED BY <1>0, <1>3, <2>1, <2>2
  <1>7. ASSUME NEW n \in c.pairings, SwapPairings(r, m, n)
        PROVE  AllPlaced'
    <2>1. PICK x \in ColourChoices(m.white, n.black), y \in ColourChoices(n.white, m.black) :
             /\ <<x.white, x.black>> # <<y.white, y.black>>
             /\ content' = [content EXCEPT ![r].pairings = (c.pairings \ {m, n}) \cup {x, y}]
      BY <1>7 DEF SwapPairings
    <2>2. m # n /\ m.white # n.black /\ n.white # m.black /\ UNCHANGED rounds
      BY <1>7 DEF SwapPairings
    <2>3. /\ {x.white, x.black} = {m.white, n.black}
          /\ {y.white, y.black} = {n.white, m.black}
      BY <2>1 DEF ColourChoices
    <2> DEFINE e == [c EXCEPT !.pairings = (c.pairings \ {m, n}) \cup {x, y}]
    <2>4. content' = [content EXCEPT ![r] = e]
      BY <2>1 DEF TypeOK
    <2>5. r \in Live => Placed(e)
      BY <1>1, <1>2, <2>1, <2>2, <2>3, SwapPlaced
    <2>6. QED BY <1>3, <2>2, <2>4, <2>5
  <1>8. ASSUME NEW status, SetStatus(r, m, status)
        PROVE  AllPlaced'
    <2> DEFINE n == [m EXCEPT !.status = status]
    <2>1. {n.white, n.black} = {m.white, m.black}
      BY <1>1 DEF Pairing
    <2>2. content' = [content EXCEPT ![r].pairings = (@ \ {m}) \cup {n}] /\ UNCHANGED rounds
      BY <1>8 DEF SetStatus
    <2>3. QED
      <3> HIDE DEF n
      <3> QED BY <1>4, <2>1, <2>2
  <1>9. QED
    BY <1>0, <1>5, <1>6, <1>7, <1>8 DEF EditStep, PairingStep, MarkFailed, GameOver

LEMMA SeatKept == SeatInv /\ [Next]_vars => SeatInv'
  <1> SUFFICES ASSUME SeatInv, [Next]_vars PROVE SeatInv'
    OBVIOUS
  <1>0. IInv' /\ Reviewed \subseteq RoundId
    BY NextKeeps, RoundsAssumption DEF SeatInv, RoundId
  <1>1. ASSUME NEW g \in Generator, GenerateStep(g) PROVE AllPlaced' /\ PoolsSound'
    BY <1>1, GeneratePlaces
  <1>2. ASSUME NEW r \in RoundId, RoundStep(r) PROVE AllPlaced' /\ PoolsSound'
    BY <1>2, RoundStepPlaces
  <1>3. ASSUME NEW r \in RoundId, NEW m \in content[r].pairings,
               EditStep(r, m) \/ PairingStep(r, m)
        PROVE  AllPlaced' /\ PoolsSound'
    BY <1>3, EditPlaces
  <1>4. ASSUME UNCHANGED <<rounds, content, session>>
        PROVE  AllPlaced' /\ PoolsSound'
    <2>1. AllPlaced /\ PoolsSound
      BY DEF SeatInv
    <2>2. PoolsSound'
      BY <1>4, <2>1 DEF PoolsSound, PoolOf
    <2>3. Live' = Live /\ content' = content
      BY <1>4 DEF Live
    <2>4. AllPlaced'
      BY <2>1, <2>3 DEF AllPlaced, Placed, Place
    <2>5. QED BY <2>2, <2>4
  <1>5. ASSUME \/ \E mode \in Modes, creation \in Creations : SetCfg(mode, creation)
               \/ \E p \in Restless : ToggleAway(p)
               \/ UNCHANGED vars
        PROVE  AllPlaced' /\ PoolsSound'
    BY <1>4, <1>5 DEF SetCfg, ToggleAway, vars
  <1>6. AllPlaced' /\ PoolsSound'
    BY <1>0, <1>1, <1>2, <1>3, <1>5 DEF Next
  <1>7. QED BY <1>0, <1>6 DEF SeatInv

LEMMA SeatInit == Init => SeatInv
  <1> SUFFICES ASSUME Init PROVE SeatInv
    OBVIOUS
  <1>1. AllPlaced
    BY DEF Init, AllPlaced, Live, NoRound
  <1>2. PoolsSound
    BY IdleSound DEF Init, PoolsSound
  <1>3. QED BY <1>1, <1>2, InitHolds DEF SeatInv

LEMMA PlacedAccounts == SeatInv => EveryoneAccountedFor
  BY DEF SeatInv, AllPlaced, Placed, Place, EveryoneAccountedFor

(* Whatever a draft goes through (flips, swaps, removals, regenerations,     *)
(* concurrent generations), every member of every live round plays exactly   *)
(* one game, or two as its double-game volunteer against two opponents, or   *)
(* none with the reason recorded.                                            *)
THEOREM Accounted == Spec => []EveryoneAccountedFor
  BY SeatInit, SeatKept, PlacedAccounts, PTL DEF Spec

-----------------------------------------------------------------------------
(* The caps. *)

(* A member's games under way in the rounds S, as content c has them. *)
Pending(c, p) == {n \in GamesOf(c.pairings, p) : n.status = "pending"}

Playing(c, S, p) == UNION {{<<r, m>> : m \in Pending(c[r], p)} : r \in S}

(* With k games more the member is still below the cap. *)
Room(c, S, p, k) == CapacityAllows(p, Cardinality(Playing(c, S, p)) + k)

(* What a pool read established of the rounds it counted, and what of it is  *)
(* left: one more game for each member it has in, two for those of `twice`.  *)
Roomy(c, counted, excluded, twice) ==
    \A p \in Player : /\ excluded[p] = "none" => Room(c, counted, p, 0)
                      /\ p \in twice => Room(c, counted, p, 1)

(* The sets of rounds that pool reads counted. *)
Reads == {session[g].pool.counted : g \in Generator} \cup {content[r].counted : r \in RoundId}

(* A read counts the published rounds, which only become more. *)
ReadsNested ==
    \A x \in Reads : /\ x \subseteq Published
                     /\ \A y \in Reads : x \subseteq y \/ y \subseteq x

PoolsRoomy ==
    \A g \in Generator : session[g].pc \in {"paired", "regenerating"} =>
        LET read == session[g].pool
        IN  Roomy(content, read.counted, read.excluded, read.volunteers)

SeatsRoomy ==
    \A r \in Live : LET c == content[r] IN
        /\ r \notin c.counted
        /\ Roomy(content, c.counted, c.excluded, c.doubles)

CapInv == SeatInv /\ ReadsNested /\ PoolsRoomy /\ SeatsRoomy

-----------------------------------------------------------------------------
(* The operators. *)

LEMMA AddOne ==
  ASSUME NEW S, NEW x, IsFiniteSet(S)
  PROVE  /\ IsFiniteSet(S \cup {x})
         /\ Cardinality(S \cup {x}) \in Nat
         /\ Cardinality(S \cup {x}) <= Cardinality(S) + 1
  <1>1. IsFiniteSet(S \cup {x}) /\ Cardinality(S) \in Nat
    BY FS_AddElement, FS_CardinalityType
  <1>2. Cardinality(S \cup {x}) = IF x \in S THEN Cardinality(S) ELSE Cardinality(S) + 1
    BY FS_AddElement
  <1> QED BY <1>1, <1>2

LEMMA RoundsFinite == IsFiniteSet(RoundId)
  BY RoundsAssumption, FS_Interval DEF RoundId

(* Who is placed is pending at most once in his round, twice as a double, *)
(* and not at all when he is out.                                          *)
LEMMA PendingFew ==
  ASSUME NEW c, NEW p \in Player, Placed(c)
  PROVE  /\ \E m, n : Pending(c, p) \subseteq {m, n}
         /\ p \notin c.doubles => \E m : Pending(c, p) \subseteq {m}
         /\ Pending(c, p) # {} => c.excluded[p] = "none"
  <1>1. Place(c, p)
    BY DEF Placed
  <1>2. Pending(c, p) \subseteq GamesOf(c.pairings, p)
    BY DEF Pending
  <1>3. CASE p \in c.doubles
    <2>1. PICK m, n \in c.pairings : GamesOf(c.pairings, p) = {m, n}
      BY <1>1, <1>3 DEF Place, PlaysTwice
    <2>2. c.excluded[p] = "none"
      BY <1>1, <1>3 DEF Place
    <2> QED BY <1>2, <1>3, <2>1, <2>2
  <1>4. CASE p \notin c.doubles /\ c.excluded[p] = "none"
    <2>1. PICK m \in c.pairings : GamesOf(c.pairings, p) = {m}
      BY <1>1, <1>4 DEF Place, PlaysOnce
    <2>2. Pending(c, p) \subseteq {m} /\ {m} = {m, m}
      BY <1>2, <2>1
    <2> QED BY <1>4, <2>2
  <1>5. CASE p \notin c.doubles /\ c.excluded[p] # "none"
    <2>1. Pending(c, p) = {}
      BY <1>1, <1>2, <1>5 DEF Place
    <2> QED BY <2>1
  <1> QED BY <1>3, <1>4, <1>5

LEMMA PlayingFinite ==
  ASSUME NEW c, NEW p \in Player, NEW S \in SUBSET RoundId,
         \A r \in S : Placed(c[r])
  PROVE  IsFiniteSet(Playing(c, S, p))
  <1> DEFINE Here(r) == {<<r, m>> : m \in Pending(c[r], p)}
             All == {Here(r) : r \in S}
             f == [r \in S |-> Here(r)]
  <1>1. ASSUME NEW r \in S PROVE IsFiniteSet(Here(r))
    <2>1. PICK m, n : Pending(c[r], p) \subseteq {m, n}
      BY PendingFew
    <2>2. Here(r) \subseteq {<<r, m>>} \cup {<<r, n>>}
      BY <2>1
    <2>3. IsFiniteSet({<<r, m>>} \cup {<<r, n>>})
      BY FS_Singleton, FS_AddElement
    <2> QED BY <2>2, <2>3, FS_Subset
  <1>2. IsFiniteSet(S)
    BY RoundsFinite, FS_Subset
  <1>3. f \in Surjection(S, All)
    BY DEF Surjection
  <1>4. IsFiniteSet(All)
    BY <1>2, <1>3, FS_Surjection
  <1>5. \A T \in All : IsFiniteSet(T)
    BY <1>1
  <1>6. Playing(c, S, p) = UNION All
    BY DEF Playing
  <1> HIDE DEF All
  <1> QED BY <1>4, <1>5, <1>6, FS_UNION

(* Room is not lost when games end, nor by asking for less. *)
LEMMA RoomKept ==
  ASSUME NEW c, NEW d, NEW S, NEW T, NEW p \in Player, NEW k \in Nat, NEW j \in Nat,
         j <= k, Playing(d, T, p) \subseteq Playing(c, S, p),
         IsFiniteSet(Playing(c, S, p)), Room(c, S, p, k)
  PROVE  Room(d, T, p, j)
  <1> DEFINE X == Playing(c, S, p)
             Y == Playing(d, T, p)
  <1>1. Cardinality(Y) <= Cardinality(X) /\ Cardinality(X) \in Nat /\ Cardinality(Y) \in Nat
    BY FS_Subset, FS_CardinalityType
  <1>2. Cap[p] = NoCap \/ Cap[p] \in Nat
    BY RoundsAssumption
  <1> HIDE DEF X, Y
  <1>3. Cap[p] = NoCap \/ Cardinality(X) + k < Cap[p]
    BY DEF Room, CapacityAllows, X
  <1>4. Cap[p] = NoCap \/ Cardinality(Y) + j < Cap[p]
    BY <1>1, <1>2, <1>3
  <1> QED BY <1>4 DEF Room, CapacityAllows, Y

(* Of the rounds R, each with the rounds f[r] it counted, one counted all others. *)
SomeReadLast(R, f) == \E t \in R : \A s \in R : s = t \/ s \in f[t]

(* When what they counted is nested, the one that counted most is such a round. *)
LEMMA LastReader ==
  ASSUME NEW R \in SUBSET RoundId, R # {}, NEW f,
         \A r \in R : f[r] \subseteq RoundId /\ r \notin f[r],
         \A r, s \in R : f[r] \subseteq f[s] \/ f[s] \subseteq f[r],
         \A r, s \in R : r = s \/ r \in f[s] \/ s \in f[r]
  PROVE  SomeReadLast(R, f)
  <1> DEFINE Unseen(r) == RoundId \ f[r]
             T == {Unseen(r) : r \in R}
  <1>1. \A r \in R : Unseen(r) \in SUBSET RoundId /\ IsFiniteSet(Unseen(r))
    <2>1. \A r \in R : Unseen(r) \in SUBSET RoundId
      OBVIOUS
    <2> QED BY <2>1, RoundsFinite, FS_Subset
  <1>2. T \subseteq FiniteSubsetsOf(RoundId) /\ T # {}
    <2>1. PICK r \in R : TRUE
      OBVIOUS
    <2>2. Unseen(r) \in T
      OBVIOUS
    <2>3. T \subseteq FiniteSubsetsOf(RoundId)
      BY <1>1 DEF FiniteSubsetsOf
    <2> QED BY <2>2, <2>3
  <1> HIDE DEF T
  <1>3. PICK A \in T : \A B \in T : <<B, A>> \notin StrictSubsetOrdering(RoundId)
    BY <1>2, FS_StrictSubsetOrderingWellFounded, WFMin
  <1>4. PICK t \in R : A = Unseen(t)
    BY <1>3 DEF T
  <1>5. ASSUME NEW s \in R PROVE f[s] \subseteq f[t]
    <2>1. CASE ~(f[s] \subseteq f[t])
      <3>1. f[t] \subseteq f[s] /\ f[t] # f[s]
        BY <2>1
      <3>2. Unseen(s) \subseteq Unseen(t) /\ Unseen(s) # Unseen(t)
        BY <3>1
      <3>3. <<Unseen(s), Unseen(t)>> \in StrictSubsetOrdering(RoundId)
        BY <1>1, <3>2 DEF StrictSubsetOrdering
      <3> QED BY <1>3, <1>4, <3>3 DEF T
    <2> QED BY <2>1
  <1>6. \A s \in R : s = t \/ s \in f[t]
    BY <1>5
  <1> QED BY <1>6 DEF SomeReadLast

-----------------------------------------------------------------------------
(* The rounds a member is playing in, when of every two one counted the      *)
(* other: the one that counted all the others left room for its own games.   *)

LEMMA PlayingNow == \A p \in Player : InFlight(p) = Playing(content, Published, p)
  BY DEF InFlight, Playing, Pending

LEMMA ReadsOf ==
  /\ \A r \in RoundId : content[r].counted \in Reads
  /\ \A g \in Generator : session[g].pool.counted \in Reads
  BY DEF Reads

LEMMA CapFollows == CapInv => CapBoundsGames
  <1> SUFFICES ASSUME CapInv, NEW p \in Player, Cap[p] # NoCap,
                      NEW R, R = {x[1] : x \in InFlight(p)},
                      ~ \E r, s \in R : r # s /\ r \notin content[s].counted
                                              /\ s \notin content[r].counted
               PROVE  Cardinality(InFlight(p)) <= Cap[p]
    BY DEF CapBoundsGames
  <1> USE DEF CapInv
  <1>0. PICK f : \A r \in RoundId : f[r] = content[r].counted
    <2> DEFINE g == [r \in RoundId |-> content[r].counted]
    <2>1. \A r \in RoundId : g[r] = content[r].counted
      OBVIOUS
    <2> HIDE DEF g
    <2> QED BY <2>1
  <1>1. /\ Published \subseteq RoundId /\ Published \subseteq Live
        /\ \A r \in Published : Placed(content[r]) /\ content[r] \in Content
    BY DEF Published, Live, SeatInv, AllPlaced, IInv, TypeOK
  <1>2. Cap[p] \in Nat
    BY RoundsAssumption
  <1>3. InFlight(p) = Playing(content, R, p) /\ R \subseteq Published
    BY PlayingNow DEF Playing
  <1>4. CASE R = {}
    <2>1. InFlight(p) = {}
      BY <1>4
    <2> QED BY <1>2, <2>1, FS_EmptySet
  <1>5. CASE R # {}
    <2>1. /\ R \in SUBSET RoundId
          /\ \A r \in R : r \notin f[r] /\ f[r] \in Reads
      BY <1>0, <1>1, <1>3, ReadsOf DEF SeatsRoomy
    <2>2. /\ \A r \in R : f[r] \subseteq Published
          /\ \A r, s \in R : f[r] \subseteq f[s] \/ f[s] \subseteq f[r]
      BY <2>1 DEF ReadsNested
    <2>3. \A r, s \in R : r = s \/ r \in f[s] \/ s \in f[r]
      BY <1>0, <1>1, <1>3
    <2>4. PICK t \in R : \A s \in R : s = t \/ s \in f[t]
      <3>1. \A r \in R : f[r] \subseteq RoundId /\ r \notin f[r]
        BY <1>1, <2>1, <2>2
      <3>2. SomeReadLast(R, f)
        BY <1>5, <2>1, <2>2, <2>3, <3>1, LastReader
      <3> QED BY <3>2 DEF SomeReadLast
    <2> DEFINE c == content[t]
               Old == Playing(content, c.counted, p)
               Own == {<<t, m>> : m \in Pending(c, p)}
    <2>5. t \in Published /\ t \in Live /\ t \in RoundId /\ f[t] = c.counted
      BY <1>0, <1>1, <1>3
    <2>6. InFlight(p) \subseteq Old \cup Own
      <3>1. \A s \in R : s = t \/ s \in c.counted
        BY <2>4, <2>5
      <3>2. Playing(content, R, p) \subseteq Old \cup Own
        BY <3>1 DEF Playing
      <3> QED BY <1>3, <3>2
    <2>7. Pending(c, p) # {}
      <3>1. PICK x \in InFlight(p) : x[1] = t
        OBVIOUS
      <3>2. PICK s \in R : \E m \in Pending(content[s], p) : x = <<s, m>>
        BY <1>3, <3>1 DEF Playing
      <3>3. s = t
        BY <3>1, <3>2
      <3> QED BY <3>2, <3>3
    <2>8. Placed(c) /\ c.excluded[p] = "none"
      BY <1>1, <2>5, <2>7, PendingFew
    <2>9. IsFiniteSet(Old)
      BY <1>1, <2>2, <2>5, PlayingFinite
    <2>10. Cardinality(Old) \in Nat
      BY <2>9, FS_CardinalityType
    <2>11. Roomy(content, c.counted, c.excluded, c.doubles)
      BY <2>5 DEF SeatsRoomy
    <2> HIDE DEF c, Old, Own
    <2>12. ASSUME NEW m, Pending(c, p) \subseteq {m}
           PROVE  /\ IsFiniteSet(Old \cup {<<t, m>>})
                  /\ Cardinality(Old \cup {<<t, m>>}) \in Nat
                  /\ Cardinality(Old \cup {<<t, m>>}) <= Cardinality(Old) + 1
      BY <2>9, AddOne
    <2>13. CASE p \notin c.doubles
      <3>1. PICK m : Pending(c, p) \subseteq {m}
        BY <2>8, <2>13, PendingFew
      <3>2. InFlight(p) \subseteq Old \cup {<<t, m>>}
        <4>1. Own \subseteq {<<t, m>>}
          BY <3>1 DEF Own
        <4> QED BY <2>6, <4>1
      <3>3. Cardinality(InFlight(p)) <= Cardinality(Old \cup {<<t, m>>})
            /\ Cardinality(InFlight(p)) \in Nat
        BY <2>12, <3>1, <3>2, FS_Subset, FS_CardinalityType
      <3>4. Cardinality(Old) < Cap[p]
        BY <2>8, <2>10, <2>11 DEF Roomy, Room, CapacityAllows, Old
      <3> QED BY <1>2, <2>10, <2>12, <3>1, <3>3, <3>4
    <2>14. CASE p \in c.doubles
      <3>1. PICK m, n : Pending(c, p) \subseteq {m, n}
        BY <2>8, PendingFew
      <3> DEFINE Two == (Old \cup {<<t, m>>}) \cup {<<t, n>>}
      <3>2. InFlight(p) \subseteq Two
        <4>1. Own \subseteq {<<t, m>>, <<t, n>>}
          BY <3>1 DEF Own
        <4> QED BY <2>6, <4>1
      <3>3. IsFiniteSet(Two) /\ Cardinality(Two) <= Cardinality(Old) + 2
            /\ Cardinality(Two) \in Nat
        <4>1. /\ IsFiniteSet(Old \cup {<<t, m>>})
              /\ Cardinality(Old \cup {<<t, m>>}) \in Nat
              /\ Cardinality(Old \cup {<<t, m>>}) <= Cardinality(Old) + 1
          BY <2>9, AddOne
        <4>2. /\ IsFiniteSet(Two)
              /\ Cardinality(Two) \in Nat
              /\ Cardinality(Two) <= Cardinality(Old \cup {<<t, m>>}) + 1
          BY <4>1, AddOne
        <4> QED BY <2>10, <4>1, <4>2
      <3> HIDE DEF Two
      <3>4. Cardinality(InFlight(p)) <= Cardinality(Two)
            /\ Cardinality(InFlight(p)) \in Nat
        BY <3>2, <3>3, FS_Subset, FS_CardinalityType
      <3>5. Cardinality(Old) + 1 < Cap[p]
        BY <2>10, <2>11, <2>14 DEF Roomy, Room, CapacityAllows, Old
      <3> QED BY <1>2, <2>10, <3>3, <3>4, <3>5
    <2> QED BY <2>13, <2>14
  <1> QED BY <1>4, <1>5

-----------------------------------------------------------------------------
(* What any step may do to the room that the pool reads left. *)

(* A round keeps what it counted, and promises no one a game it had not. *)
Narrowed(c, d) ==
    /\ d.counted = c.counted
    /\ \A p \in Player : d.excluded[p] = "none" => c.excluded[p] = "none"
    /\ d.doubles \subseteq c.doubles

GamesEnd ==
    \A r \in Published, p \in Player : Pending(content'[r], p) \subseteq Pending(content[r], p)

(* What a session holds next: what it held, nothing, or a pool read now. *)
SessionsRead ==
    \A g \in Generator :
        \/ session'[g] = session[g]
        \/ session'[g].pc \in {"idle", "numbered"} /\ session'[g].pool.counted = {}
        \/ session'[g].pool = LoadPool

(* What a round holds next: less than it did, or what a session found room for. *)
RoundsFill ==
    \A r \in RoundId :
        \/ Narrowed(content[r], content'[r]) /\ (r \in Live' => r \in Live)
        \/ /\ r \notin Published
           /\ content'[r].counted \in Reads
           /\ Roomy(content, content'[r].counted, content'[r].excluded, content'[r].doubles)

LEMMA RoomyKept ==
  ASSUME SeatInv, GamesEnd, NEW S \in SUBSET Published,
         NEW excluded, NEW twice, Roomy(content, S, excluded, twice),
         NEW out, \A p \in Player : out[p] = "none" => excluded[p] = "none",
         NEW both \in SUBSET twice
  PROVE  Roomy(content', S, out, both)
  <1> SUFFICES ASSUME NEW p \in Player
               PROVE  /\ out[p] = "none" => Room(content', S, p, 0)
                      /\ p \in both => Room(content', S, p, 1)
    BY DEF Roomy
  <1>1. /\ S \in SUBSET RoundId
        /\ \A r \in S : Placed(content[r])
    BY DEF SeatInv, AllPlaced, Live, Published
  <1>2. IsFiniteSet(Playing(content, S, p))
    BY <1>1, PlayingFinite
  <1>3. Playing(content', S, p) \subseteq Playing(content, S, p)
    BY DEF GamesEnd, Playing
  <1>4. ASSUME NEW k \in {0, 1}, Room(content, S, p, k) PROVE Room(content', S, p, k)
    <2>1. k \in Nat /\ k <= k
      OBVIOUS
    <2> QED BY <1>2, <1>3, <1>4, <2>1, RoomKept
  <1> QED BY <1>4 DEF Roomy

LEMMA LoadRoomy ==
  ASSUME SeatInv
  PROVE  /\ LoadPool.counted = Published
         /\ Roomy(content, Published, LoadPool.excluded, LoadPool.volunteers)
  <1>1. LoadPool.counted = Published
    BY DEF LoadPool
  <1>2. ASSUME NEW p \in Player
        PROVE  /\ LoadPool.excluded[p] = "none" => Room(content, Published, p, 0)
               /\ p \in LoadPool.volunteers => Room(content, Published, p, 1)
    <2>1. \A r \in Published : Placed(content[r])
      BY DEF SeatInv, AllPlaced, Live, Published
    <2>2. IsFiniteSet(Playing(content, Published, p))
      BY <2>1, PlayingFinite DEF Published
    <2>3. /\ InFlight(p) = Playing(content, Published, p)
          /\ Cardinality(InFlight(p)) + 0 = Cardinality(InFlight(p))
      BY <2>2, PlayingNow, FS_CardinalityType
    <2>4. LoadPool.excluded[p] = "none" => CapacityAllows(p, Cardinality(InFlight(p)))
      BY DEF LoadPool
    <2>5. p \in LoadPool.volunteers => CapacityAllows(p, Cardinality(InFlight(p)) + 1)
      BY DEF LoadPool
    <2> QED BY <2>3, <2>4, <2>5 DEF Room
  <1> QED BY <1>1, <1>2 DEF Roomy

LEMMA WrittenRoomy ==
  ASSUME NEW c, NEW read \in PoolRead, read.volunteers \subseteq PoolOf(read),
         NEW d \in Draws(PoolOf(read), read.volunteers),
         Roomy(c, read.counted, read.excluded, read.volunteers)
  PROVE  LET w == Written(read, d)
         IN  w.counted = read.counted /\ Roomy(c, w.counted, w.excluded, w.doubles)
  <1> DEFINE w == Written(read, d)
  <1>1. w.counted = read.counted /\ w.doubles = d.doubles
    BY DEF Written
  <1>2. d.doubles \subseteq read.volunteers
    <2>1. PICK odd \in OddChoices(PoolOf(read), read.volunteers) : d.doubles = odd.doubles
      BY DEF Draws
    <2>2. CASE Cardinality(PoolOf(read)) % 2 = 0
      BY <2>1, <2>2 DEF OddChoices, OddOutcomes
    <2>3. CASE Cardinality(PoolOf(read)) % 2 # 0
      BY <2>1, <2>3 DEF OddChoices, OddOutcomes
    <2> QED BY <2>2, <2>3
  <1>3. \A p \in Player : w.excluded[p] = "none" => read.excluded[p] = "none"
    BY DEF Written
  <1> HIDE DEF w
  <1>4. Roomy(c, w.counted, w.excluded, w.doubles)
    BY <1>1, <1>2, <1>3 DEF Roomy
  <1> QED BY <1>1, <1>4 DEF w

(* Such a step keeps the nesting and the room. *)
LEMMA RoomFrame ==
  ASSUME CapInv, GamesEnd, SessionsRead, RoundsFill, Published \subseteq Published'
  PROVE  ReadsNested' /\ PoolsRoomy' /\ SeatsRoomy'
  <1> USE DEF CapInv
  <1>1. Reads' \subseteq Reads \cup {Published, {}}
    <2>1. \A g \in Generator : session'[g].pool.counted \in Reads \cup {Published, {}}
      BY ReadsOf, LoadRoomy DEF SessionsRead
    <2>2. \A r \in RoundId : content'[r].counted \in Reads
      BY ReadsOf DEF RoundsFill, Narrowed
    <2> QED BY <2>1, <2>2 DEF Reads
  <1>2. ReadsNested'
    <2>1. ASSUME NEW x \in Reads \cup {Published, {}}, NEW y \in Reads \cup {Published, {}}
          PROVE  x \subseteq Published' /\ (x \subseteq y \/ y \subseteq x)
      BY DEF ReadsNested
    <2> QED BY <1>1, <2>1 DEF ReadsNested
  <1>3. ASSUME NEW g \in Generator, session'[g].pc \in {"paired", "regenerating"}
        PROVE  Roomy(content', session'[g].pool.counted, session'[g].pool.excluded,
                     session'[g].pool.volunteers)
    <2>1. CASE session'[g] = session[g]
      <3> DEFINE read == session[g].pool
      <3>1. Roomy(content, read.counted, read.excluded, read.volunteers)
        BY <1>3, <2>1 DEF PoolsRoomy
      <3>2. read.counted \subseteq Published
        BY ReadsOf DEF ReadsNested
      <3> HIDE DEF read
      <3>3. Roomy(content', read.counted, read.excluded, read.volunteers)
        BY <3>1, <3>2, RoomyKept
      <3> QED BY <2>1, <3>3 DEF read
    <2>2. CASE session'[g].pool = LoadPool
      <3>1. Roomy(content', Published, LoadPool.excluded, LoadPool.volunteers)
        BY LoadRoomy, RoomyKept
      <3> QED BY <2>2, <3>1, LoadRoomy
    <2> QED BY <1>3, <2>1, <2>2 DEF SessionsRead
  <1>4. ASSUME NEW r \in RoundId, r \in Live'
        PROVE  /\ r \notin content'[r].counted
               /\ Roomy(content', content'[r].counted, content'[r].excluded, content'[r].doubles)
    <2> DEFINE c == content[r]
               d == content'[r]
    <2>1. CASE Narrowed(c, d) /\ r \in Live
      <3>1. /\ r \notin c.counted /\ c.counted \subseteq Published
            /\ Roomy(content, c.counted, c.excluded, c.doubles)
        BY <2>1, ReadsOf DEF SeatsRoomy, ReadsNested
      <3>2. /\ d.counted = c.counted /\ d.doubles \subseteq c.doubles
            /\ \A p \in Player : d.excluded[p] = "none" => c.excluded[p] = "none"
        BY <2>1 DEF Narrowed
      <3> HIDE DEF c, d
      <3>3. Roomy(content', c.counted, d.excluded, d.doubles)
        BY <3>1, <3>2, RoomyKept
      <3> QED BY <3>1, <3>2, <3>3 DEF d
    <2>2. CASE /\ r \notin Published /\ d.counted \in Reads
               /\ Roomy(content, d.counted, d.excluded, d.doubles)
      <3>1. d.counted \subseteq Published
        BY <2>2 DEF ReadsNested
      <3> HIDE DEF d
      <3>2. Roomy(content', d.counted, d.excluded, d.doubles)
        BY <2>2, <3>1, RoomyKept
      <3> QED BY <2>2, <3>1, <3>2 DEF d
    <2> QED BY <1>4, <2>1, <2>2 DEF RoundsFill
  <1>5. PoolsRoomy'
    BY <1>3 DEF PoolsRoomy
  <1>6. SeatsRoomy'
    BY <1>4 DEF SeatsRoomy, Live
  <1> QED BY <1>2, <1>5, <1>6

-----------------------------------------------------------------------------
(* Every step of Rounds is such a step. *)

Fits == GamesEnd /\ SessionsRead /\ RoundsFill /\ Published \subseteq Published'

LEMMA SameNarrowed ==
  ASSUME UNCHANGED content, \A r \in RoundId : r \in Live' => r \in Live
  PROVE  GamesEnd /\ RoundsFill
  BY DEF GamesEnd, RoundsFill, Narrowed

LEMMA SameSessions == UNCHANGED session => SessionsRead
  BY DEF SessionsRead

(* What a session writes into a round that is not published. *)
LEMMA WriteFits ==
  ASSUME CapInv, NEW g \in Generator, session[g].pc \in {"paired", "regenerating"},
         NEW r \in RoundId, r \notin Published,
         NEW d \in Draws(PoolOf(session[g].pool), session[g].pool.volunteers),
         content' = [content EXCEPT ![r] = Written(session[g].pool, d)],
         \A s \in RoundId \ {r} : rounds'[s] = rounds[s]
  PROVE  GamesEnd /\ RoundsFill
  <1> USE DEF CapInv, SeatInv, IInv
  <1> DEFINE read == session[g].pool
             w == Written(read, d)
  <1>1. /\ read \in PoolRead /\ read.volunteers \subseteq PoolOf(read)
        /\ read.counted \in Reads
    BY ReadsOf DEF TypeOK, Session, PoolsSound
  <1>2. Roomy(content, read.counted, read.excluded, read.volunteers)
    BY DEF PoolsRoomy
  <1>3. w.counted = read.counted /\ Roomy(content, w.counted, w.excluded, w.doubles)
    BY <1>1, <1>2, WrittenRoomy
  <1>4. content'[r] = w /\ \A s \in RoundId \ {r} : content'[s] = content[s]
    BY DEF TypeOK
  <1> HIDE DEF w
  <1>5. GamesEnd
    BY <1>4 DEF GamesEnd, Published
  <1>6. ASSUME NEW s \in RoundId \ {r}
        PROVE  Narrowed(content[s], content'[s]) /\ (s \in Live' => s \in Live)
    BY <1>4 DEF Narrowed, Live
  <1>7. RoundsFill
    BY <1>1, <1>3, <1>4, <1>6 DEF RoundsFill
  <1> QED BY <1>5, <1>7

LEMMA GenerateFits ==
  ASSUME CapInv, NEW g \in Generator, GenerateStep(g)
  PROVE  Fits
  <1> USE DEF CapInv, SeatInv, IInv
  <1>1. \A h \in Generator \ {g} : session'[h] = session[h]
    BY DEF TypeOK, GenerateStep, GenerateNumber, GeneratePool, GenerateFails,
           GenerateInsert, RegenerateWrite, RegenerateRead
  <1>2. IdleSession.pc = "idle" /\ IdleSession.pool.counted = {}
    BY DEF IdleSession, NoPool
  <1>3. CASE GenerateNumber(g)
    <2>1. PICK n \in 1..(MaxRounds + 1) :
             session' = [session EXCEPT ![g] = [IdleSession EXCEPT
                            !.pc = "numbered", !.number = n,
                            !.mode = cfg.mode, !.creation = cfg.creation]]
      BY <1>3 DEF GenerateNumber
    <2>2. session'[g].pc = "numbered" /\ session'[g].pool.counted = {}
      BY <2>1 DEF IdleSession, NoPool, TypeOK
    <2>3. SessionsRead
      BY <1>1, <2>2 DEF SessionsRead
    <2>4. UNCHANGED <<rounds, content>>
      BY <1>3 DEF GenerateNumber
    <2> QED BY <2>3, <2>4, SameNarrowed DEF Fits, Live, Published
  <1>4. CASE GeneratePool(g) \/ \E r \in Reviewed : RegenerateRead(g, r)
    <2>1. session'[g].pool = LoadPool
      <3>1. CASE GeneratePool(g)
        <4>1. session' = [session EXCEPT ![g] =
                              [session[g] EXCEPT !.pc = "paired", !.pool = LoadPool]]
          BY <3>1 DEF GeneratePool, TypeOK
        <4>2. session[g] \in Session
          BY DEF TypeOK
        <4>3. session'[g] = [session[g] EXCEPT !.pc = "paired", !.pool = LoadPool]
          BY <4>1 DEF TypeOK
        <4> QED BY <4>2, <4>3 DEF Session
      <3>2. CASE \E r \in Reviewed : RegenerateRead(g, r)
        BY <3>2 DEF RegenerateRead, TypeOK, IdleSession
      <3> QED BY <1>4, <3>1, <3>2
    <2>2. SessionsRead
      BY <1>1, <2>1 DEF SessionsRead
    <2>3. UNCHANGED <<rounds, content>>
      BY <1>4 DEF GeneratePool, RegenerateRead
    <2> QED BY <2>2, <2>3, SameNarrowed DEF Fits, Live, Published
  <1>5. CASE GenerateFails(g)
    <2>1. session'[g] = IdleSession /\ UNCHANGED <<rounds, content>>
      BY <1>5 DEF GenerateFails, TypeOK
    <2>2. SessionsRead
      BY <1>1, <1>2, <2>1 DEF SessionsRead
    <2> QED BY <2>1, <2>2, SameNarrowed DEF Fits, Live, Published
  <1>6. CASE GenerateInsert(g)
    <2>1. PICK r \in RoundId, d \in Draws(PoolOf(session[g].pool), session[g].pool.volunteers) :
             /\ IsNextId(r)
             /\ content' = [content EXCEPT ![r] = Written(session[g].pool, d)]
             /\ \A s \in RoundId \ {r} : rounds'[s] = rounds[s]
      BY <1>6 DEF GenerateInsert, TypeOK
    <2>2. r \notin Published /\ session[g].pc = "paired" /\ session'[g] = IdleSession
      BY <1>6, <2>1 DEF GenerateInsert, TypeOK, IsNextId, Published
    <2>3. GamesEnd /\ RoundsFill
      BY <2>1, <2>2, WriteFits
    <2>4. SessionsRead
      BY <1>1, <1>2, <2>2 DEF SessionsRead
    <2>5. Published \subseteq Published'
      BY <2>1, <2>2 DEF Published
    <2> QED BY <2>3, <2>4, <2>5 DEF Fits
  <1>7. CASE RegenerateWrite(g)
    <2> DEFINE r == session[g].round
    <2>1. /\ r \in RoundId /\ rounds[r].state = "draft" /\ UNCHANGED rounds
          /\ session[g].pc = "regenerating" /\ session'[g] = IdleSession
      BY <1>7 DEF RegenerateWrite, LockHeld, TypeOK
    <2>2. PICK d \in Draws(PoolOf(session[g].pool), session[g].pool.volunteers) :
             content' = [content EXCEPT ![r] = Written(session[g].pool, d)]
      BY <1>7 DEF RegenerateWrite
    <2>3. r \notin Published
      BY <2>1 DEF Published
    <2>4. GamesEnd /\ RoundsFill
      BY <2>1, <2>2, <2>3, WriteFits
    <2>5. SessionsRead
      BY <1>1, <1>2, <2>1 DEF SessionsRead
    <2> QED BY <2>1, <2>4, <2>5 DEF Fits, Published
  <1> QED BY <1>3, <1>4, <1>5, <1>6, <1>7 DEF GenerateStep

(* A round whose pairings change, and nothing else but fewer members in it. *)
LEMMA EditFits ==
  ASSUME CapInv, NEW r \in RoundId, NEW d, content' = [content EXCEPT ![r] = d],
         Narrowed(content[r], d), UNCHANGED session,
         \A s \in RoundId : s \in Live' => s \in Live,
         Published \subseteq Published',
         r \in Published => \A p \in Player : Pending(d, p) \subseteq Pending(content[r], p)
  PROVE  Fits
  <1>1. content'[r] = d /\ \A s \in RoundId \ {r} : content'[s] = content[s]
    BY DEF CapInv, SeatInv, IInv, TypeOK
  <1>2. \A s \in RoundId : Narrowed(content[s], content'[s])
    BY <1>1 DEF Narrowed
  <1>3. GamesEnd
    BY <1>1 DEF GamesEnd, Published
  <1> QED BY <1>2, <1>3, SameSessions DEF Fits, RoundsFill

LEMMA RoundStepFits ==
  ASSUME CapInv, NEW r \in RoundId, RoundStep(r)
  PROVE  Fits
  <1> USE DEF CapInv, SeatInv, IInv
  <1>1. CASE Cancel(r)
    <2> DEFINE d == [content[r] EXCEPT !.pairings = CancelPairings(content[r].pairings)]
    <2>1. content[r] \in Content
      BY DEF TypeOK
    <2>2. content' = [content EXCEPT ![r] = d] /\ UNCHANGED session
      BY <1>1 DEF Cancel, TypeOK
    <2>3. Narrowed(content[r], d)
      BY <2>1 DEF Narrowed, Content
    <2>4. /\ r \notin Published
          /\ Published \subseteq Published'
          /\ \A s \in RoundId : s \in Live' => s \in Live
      BY <1>1 DEF Cancel, TypeOK, Round, Published, Live
    <2> HIDE DEF d
    <2> QED BY <2>2, <2>3, <2>4, EditFits
  <1>2. ASSUME UNCHANGED <<content, session>>, Published \subseteq Published',
               \A s \in RoundId : s \in Live' => s \in Live
        PROVE  Fits
    BY <1>2, SameNarrowed, SameSessions DEF Fits
  <1>3. CASE WindowEnds(r)
    <2>1. \A s \in RoundId : rounds'[s].state = rounds[s].state
      BY <1>3 DEF WindowEnds, TypeOK, Round
    <2> QED BY <1>2, <1>3, <2>1 DEF WindowEnds, Published, Live
  <1>4. CASE Publish(r) /\ UNCHANGED <<content, session>>
    <2>1. /\ rounds[r].state = "draft"
          /\ \A s \in RoundId : s = r \/ rounds'[s] = rounds[s]
      BY <1>4 DEF Publish, TypeOK
    <2> QED BY <1>2, <1>4, <2>1 DEF Published, Live
  <1>5. CASE UNCHANGED <<rounds, content, session>>
    BY <1>2, <1>5 DEF Published, Live
  <1> QED
    BY <1>1, <1>3, <1>4, <1>5
       DEF RoundStep, PublishNow, PublishJob, PublishJobLost, PublishDue

LEMMA EditStepFits ==
  ASSUME CapInv, NEW r \in RoundId, NEW m \in content[r].pairings,
         EditStep(r, m) \/ PairingStep(r, m)
  PROVE  Fits
  <1> USE DEF CapInv, SeatInv, IInv
  <1> DEFINE c == content[r]
  <1>1. c \in Content /\ content \in [RoundId -> Content] /\ m \in Pairing
    BY DEF TypeOK, Content
  <1>2. ASSUME UNCHANGED rounds
        PROVE  Published' = Published /\ \A s \in RoundId : s \in Live' => s \in Live
    BY <1>2 DEF Published, Live
  <1>3. ASSUME NEW S, content' = [content EXCEPT ![r].pairings = S],
               UNCHANGED <<rounds, session>>,
               \/ r \notin Published
               \/ \A n \in S : n.status = "pending" => n \in c.pairings
        PROVE  Fits
    <2> DEFINE d == [c EXCEPT !.pairings = S]
    <2>1. content' = [content EXCEPT ![r] = d]
      BY <1>1, <1>3
    <2>2. Narrowed(c, d) /\ d.pairings = S
      BY <1>1 DEF Narrowed, Content
    <2> HIDE DEF d
    <2>3. r \in Published => \A p \in Player : Pending(d, p) \subseteq Pending(c, p)
      BY <1>3, <2>2 DEF Pending, GamesOf
    <2> QED BY <1>2, <1>3, <2>1, <2>2, <2>3, EditFits
  <1>4. CASE FlipColours(r, m)
    <2>1. r \notin Published
      BY <1>4 DEF FlipColours, Editable, Published
    <2> QED BY <1>3, <1>4, <2>1 DEF FlipColours
  <1>5. CASE RemovePairing(r, m)
    <2> DEFINE d == [c EXCEPT
                        !.pairings = @ \ {m},
                        !.doubles = @ \ {m.white, m.black},
                        !.excluded = [p \in Player |->
                            IF p \in {m.white, m.black} \ c.doubles
                            THEN "removed_by_admin" ELSE @[p]]]
    <2>0. UNCHANGED <<rounds, session>>
      BY <1>5 DEF RemovePairing
    <2>1. content' = [content EXCEPT ![r] = d]
      BY <1>5 DEF RemovePairing, InsertExclusions, TypeOK
    <2>2. Narrowed(c, d)
      BY <1>1 DEF Narrowed, Content
    <2>3. r \notin Published
      BY <1>5 DEF RemovePairing, Editable, Published
    <2> HIDE DEF d
    <2> QED BY <1>2, <2>0, <2>1, <2>2, <2>3, EditFits
  <1>6. CASE \E n \in c.pairings : SwapPairings(r, m, n)
    <2>1. r \notin Published
      BY <1>6 DEF SwapPairings, Editable, Published
    <2>2. UNCHANGED <<rounds, session>>
      BY <1>6 DEF SwapPairings
    <2>3. PICK n \in c.pairings : SwapPairings(r, m, n)
      BY <1>6
    <2>4. PICK x \in ColourChoices(m.white, n.black), y \in ColourChoices(n.white, m.black) :
             content' = [content EXCEPT ![r].pairings = (c.pairings \ {m, n}) \cup {x, y}]
      BY <2>3 DEF SwapPairings
    <2> QED BY <1>3, <2>1, <2>2, <2>4
  <1>7. ASSUME NEW status \in {"failed", "completed"}, SetStatus(r, m, status)
        PROVE  Fits
    <2> DEFINE n == [m EXCEPT !.status = status]
               S == (c.pairings \ {m}) \cup {n}
    <2>1. n.status # "pending"
      BY <1>1 DEF Pairing
    <2>2. content' = [content EXCEPT ![r].pairings = S] /\ UNCHANGED <<rounds, session>>
      BY <1>7 DEF SetStatus
    <2> HIDE DEF n
    <2>3. \A x \in S : x.status = "pending" => x \in c.pairings
      BY <2>1
    <2> HIDE DEF S
    <2> QED BY <1>3, <2>2, <2>3
  <1> QED
    BY <1>4, <1>5, <1>6, <1>7 DEF EditStep, PairingStep, MarkFailed, GameOver

LEMMA CapKept == CapInv /\ [Next]_vars => CapInv'
  <1> SUFFICES ASSUME CapInv, [Next]_vars PROVE CapInv'
    OBVIOUS
  <1>0. SeatInv' /\ Reviewed \subseteq RoundId
    BY SeatKept, RoundsAssumption DEF CapInv, RoundId
  <1>1. ASSUME NEW g \in Generator, GenerateStep(g) PROVE Fits
    BY <1>1, GenerateFits
  <1>2. ASSUME NEW r \in RoundId, RoundStep(r) PROVE Fits
    BY <1>2, RoundStepFits
  <1>3. ASSUME NEW r \in RoundId, NEW m \in content[r].pairings,
               EditStep(r, m) \/ PairingStep(r, m)
        PROVE  Fits
    BY <1>3, EditStepFits
  <1>4. ASSUME UNCHANGED <<rounds, content, session>> PROVE Fits
    BY <1>4, SameNarrowed, SameSessions DEF Fits, Published, Live
  <1>5. ASSUME \/ \E mode \in Modes, creation \in Creations : SetCfg(mode, creation)
               \/ \E p \in Restless : ToggleAway(p)
               \/ UNCHANGED vars
        PROVE  Fits
    BY <1>4, <1>5 DEF SetCfg, ToggleAway, vars
  <1>6. Fits
    BY <1>0, <1>1, <1>2, <1>3, <1>5 DEF Next
  <1> QED BY <1>0, <1>6, RoomFrame DEF Fits, CapInv

LEMMA CapInit == Init => CapInv
  <1> SUFFICES ASSUME Init PROVE CapInv
    OBVIOUS
  <1>1. SeatInv
    BY SeatInit
  <1>2. Reads \subseteq {{}}
    BY DEF Init, Reads, IdleSession, NoPool, NoContent
  <1>3. ReadsNested
    BY <1>2 DEF ReadsNested
  <1>4. PoolsRoomy
    BY DEF Init, PoolsRoomy, IdleSession
  <1>5. SeatsRoomy
    BY DEF Init, SeatsRoomy, Live, NoRound
  <1> QED BY <1>1, <1>3, <1>4, <1>5 DEF CapInv

(* However many sessions generate at once, and whatever is published between *)
(* their reads and their writes, a member is in more games than the cap only *)
(* through two rounds of which neither counted the other: the games that a   *)
(* round added, the volunteer's two included, had room beside all the games  *)
(* of the rounds it counted (buildPool, chooseVolunteer).                    *)
THEOREM CapsHold == Spec => []CapBoundsGames
  BY CapInit, CapKept, CapFollows, PTL DEF Spec
=============================================================================
