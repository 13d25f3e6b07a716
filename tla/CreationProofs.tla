--------------------------- MODULE CreationProofs ---------------------------
(***************************************************************************)
(* Theorems about GameCreation, for every round, every token its players   *)
(* may hold, and every number of attempts, submissions and retries.        *)
(***************************************************************************)
EXTENDS GameCreation, FiniteSetTheorems, TLAPS

(* Games and challenges are numbered by counting, so they are finite. *)
Typed == TypeOK /\ IsFiniteSet(games) /\ IsFiniteSet(challenges)

(* A run is the work of a running job, and an attempt is left to a waiting one. *)
RunIsJobs ==
    /\ run.pc # "idle" => job.state = "running"
    /\ job.state = "waiting" => job.attempt < MaxAttempts

(* While a run makes games nobody else ends the round's creation. *)
Making == {"adopt", "probe", "revoke", "bulk", "record", "list", "challenge", "sent",
           "finish"}
CreatingWhileMaking == run.pc \in Making => creation = "creating"

(* A pairing holds a game, or a challenge, of its own players. *)
GamesTheirs == \A p \in Pairing : rows[p].game # NoGame => rows[p].game.pairing = p

(* The challenges left to send, and the one sent and not recorded, are for *)
(* pairings without a game, unless someone overtook the run.               *)
NoGameYet(p) == rows[p].status = "pending" => rows[p].game = NoGame

ChallengesWanted ==
    /\ \A g \in challenges : g.by = "challenge"
    /\ run.pc \in {"challenge", "sent"} => \A p \in run.todo : NoGameYet(p)
    /\ run.pc = "sent" =>
          \E g \in challenges : /\ run.made = {g}
                                /\ NoGameYet(g.pairing)
                                /\ g.pairing \notin run.todo

(* Adoption looks at every pairing without a game, and what is left to the *)
(* bulk after it has no bulk game on Lichess.                              *)
AdoptSeesAll == run.pc = "adopt" => Left \subseteq run.todo

NoBulkYet ==
    run.pc \in {"probe", "revoke", "bulk"} =>
        \A p \in run.todo, g \in games : g.by = "bulk" => g.pairing # p

(* Before anything is recorded for a pairing its players have no notice of *)
(* a game, and none of playing by hand either, but for an admin's retry.   *)
Untold ==
    \A p \in Pairing : Recordable(rows[p]) =>
        /\ rows[p].method = "manual_external"
        /\ told[p].created = "none"
        /\ ~job.retry /\ creation = "creating" => told[p].paired = "none"

(* Challenges no pairing knows of, the one in the run's hands aside, were *)
(* each left by an attempt cut short or an answer lost.                   *)
Unknown == {g \in challenges \ AttachedGames : rows[g.pairing].status = "pending"}
InHand == IF run.pc = "sent" THEN run.made ELSE {}
OrphansCounted == Cardinality(Unknown \ InHand) <= failures

CInv ==
    /\ Typed
    /\ RunIsJobs
    /\ CreatingWhileMaking
    /\ GamesTheirs
    /\ ChallengesWanted
    /\ AdoptSeesAll
    /\ NoBulkYet
    /\ BulkOnce
    /\ Untold
    /\ ToldOfGame
    /\ LeftAreTold
    /\ OrphansCounted

-----------------------------------------------------------------------------
(* What a step can make of a row, and what that leaves true of it. *)
RowChange(p) ==
    \/ rows'[p] = rows[p]
    \/ \E g \in Game :
          /\ g.pairing = p
          /\ \/ rows'[p] = RecordCreatedGame(rows[p], g)
             \/ rows'[p] = RecordChallenge(rows[p], g)
             \/ rows'[p] = AttachGameToPairing(rows[p], g, "in_progress")
    \/ rows'[p] = MarkPairingAmbiguous(rows[p])
    \/ rows'[p] = MarkPublishedPairingFailed(rows[p])

RowsChange == rows' \in [Pairing -> RowOf(Game)] /\ \A p \in Pairing : RowChange(p)

LEMMA RowChangeKeeps ==
  ASSUME Typed, GamesTheirs, NEW p \in Pairing, RowChange(p)
  PROVE  /\ rows'[p] \in RowOf(Game)
         /\ rows'[p].game # NoGame => rows'[p].game.pairing = p
         /\ ToCreate(rows'[p]) => rows'[p] = rows[p]
         /\ Recordable(rows'[p]) => Recordable(rows[p]) /\ rows'[p].method = rows[p].method
         /\ rows'[p].status = "pending" => rows[p].status = "pending"
         /\ rows'[p].status = "pending" /\ rows[p].game # NoGame =>
                rows'[p].game = rows[p].game
         /\ rows'[p].method # rows[p].method => Recordable(rows[p])
  <1> DEFINE r == rows[p]
  <1> DEFINE s == rows'[p]
  <1>1. /\ r \in RowOf(Game) /\ NoGame \notin Game
        /\ r.game # NoGame => r.game.pairing = p
    BY CreationAssumption DEF Typed, TypeOK, GamesTheirs
  <1>2. CASE s = r
    BY <1>1, <1>2 DEF Recordable
  <1>3. CASE \E g \in Game : /\ g.pairing = p
                            /\ \/ s = RecordCreatedGame(r, g)
                               \/ s = RecordChallenge(r, g)
                               \/ s = AttachGameToPairing(r, g, "in_progress")
    BY <1>1, <1>3 DEF RowOf, Method, Status, RecordCreatedGame, RecordChallenge,
       AttachGameToPairing, Recordable, ToCreate, Unmatched
  <1>4. CASE s = MarkPairingAmbiguous(r) \/ s = MarkPublishedPairingFailed(r)
    BY <1>1, <1>4 DEF RowOf, Method, Status, MarkPairingAmbiguous,
       MarkPublishedPairingFailed, Recordable, ToCreate, Unmatched
  <1>5. QED BY <1>2, <1>3, <1>4 DEF RowChange

LEMMA ChosenIsMember ==
  ASSUME NEW S, S # {}
  PROVE  (CHOOSE g \in S : TRUE) \in S
  OBVIOUS

(* One record of a bulk's games, row by row. *)
LEMMA RecordRows ==
  ASSUME TypeOK, NEW made \in SUBSET Game, NEW todo, Record(made, todo)
  PROVE  /\ DOMAIN rows' = Pairing /\ DOMAIN told' = Pairing
         /\ rows' = [p \in Pairing |-> rows'[p]] /\ told' = [p \in Pairing |-> told'[p]]
         /\ \A p \in Pairing :
              \/ /\ ~(p \in todo /\ Recordable(rows[p]) /\ \E g \in made : g.pairing = p)
                 /\ rows'[p] = rows[p] /\ told'[p] = told[p]
              \/ /\ p \in todo /\ Recordable(rows[p])
                 /\ \E g \in made : g.pairing = p
                                  /\ rows'[p] = RecordCreatedGame(rows[p], g)
                 /\ told'[p] = TellMade(told[p], "bulk", job.retry)
  <1> DEFINE of(p) == {g \in made : g.pairing = p}
  <1> DEFINE takes == {p \in todo : Recordable(rows[p]) /\ of(p) # {}}
  <1>1. /\ rows' = [p \in Pairing |-> IF p \in takes
                       THEN RecordCreatedGame(rows[p], CHOOSE g \in of(p) : TRUE)
                       ELSE rows[p]]
        /\ told' = [p \in Pairing |-> IF p \in takes
                       THEN TellMade(told[p], "bulk", job.retry) ELSE told[p]]
    BY DEF Record
  <1>2. ASSUME NEW p \in Pairing, p \in takes
        PROVE  /\ p \in todo /\ Recordable(rows[p])
               /\ \E g \in made : g.pairing = p /\ rows'[p] = RecordCreatedGame(rows[p], g)
               /\ told'[p] = TellMade(told[p], "bulk", job.retry)
    <2>1. (CHOOSE g \in of(p) : TRUE) \in of(p)
      BY <1>2, ChosenIsMember
    <2> HIDE DEF of
    <2>2. rows'[p] = RecordCreatedGame(rows[p], CHOOSE g \in of(p) : TRUE)
      BY <1>1, <1>2
    <2>3. \E g \in of(p) : rows'[p] = RecordCreatedGame(rows[p], g)
      BY <2>1, <2>2
    <2>4. told'[p] = TellMade(told[p], "bulk", job.retry)
      BY <1>1, <1>2
    <2>5. p \in todo /\ Recordable(rows[p])
      BY <1>2
    <2>6. QED BY <2>3, <2>4, <2>5 DEF of
  <1>3. ASSUME NEW p \in Pairing, p \notin takes
        PROVE  /\ ~(p \in todo /\ Recordable(rows[p]) /\ \E g \in made : g.pairing = p)
               /\ rows'[p] = rows[p] /\ told'[p] = told[p]
    <2>1. ~(p \in todo /\ Recordable(rows[p]) /\ \E g \in made : g.pairing = p)
      BY <1>3
    <2>2. rows'[p] = rows[p] /\ told'[p] = told[p]
      BY <1>1, <1>3
    <2>3. QED BY <2>1, <2>2
  <1>4. DOMAIN rows' = Pairing /\ DOMAIN told' = Pairing
    BY <1>1
  <1>5. rows' = [p \in Pairing |-> rows'[p]] /\ told' = [p \in Pairing |-> told'[p]]
    BY <1>1
  <1> HIDE DEF takes
  <1>6. QED BY <1>2, <1>3, <1>4, <1>5

LEMMA RecordRow ==
  ASSUME TypeOK, NEW made \in SUBSET Game, NEW todo, Record(made, todo), NEW p \in Pairing
  PROVE  \/ /\ ~(p \in todo /\ Recordable(rows[p]) /\ \E g \in made : g.pairing = p)
            /\ rows'[p] = rows[p] /\ told'[p] = told[p]
         \/ /\ p \in todo /\ Recordable(rows[p])
            /\ \E g \in made : rows'[p] = RecordCreatedGame(rows[p], g)
            /\ told'[p] = TellMade(told[p], "bulk", job.retry)
  <1>1. \/ /\ ~(p \in todo /\ Recordable(rows[p]) /\ \E g \in made : g.pairing = p)
           /\ rows'[p] = rows[p] /\ told'[p] = told[p]
        \/ /\ p \in todo /\ Recordable(rows[p])
           /\ \E g \in made : g.pairing = p
                            /\ rows'[p] = RecordCreatedGame(rows[p], g)
           /\ told'[p] = TellMade(told[p], "bulk", job.retry)
    BY RecordRows
  <1>2. QED BY <1>1

(* One pairing matched to what its players have played. *)
LEMMA MatchRows ==
  ASSUME TypeOK, NEW p \in Pairing, MatchOne(p)
  PROVE  RowsChange
  <1>2. CASE \E g \in games :
                /\ g.pairing = p
                /\ rows' = [rows EXCEPT ![p] = AttachGameToPairing(@, g, "in_progress")]
    <2>1. PICK g \in Game :
             /\ g.pairing = p
             /\ rows' = [rows EXCEPT ![p] = AttachGameToPairing(@, g, "in_progress")]
      BY <1>2 DEF TypeOK
    <2>2. AttachGameToPairing(rows[p], g, "in_progress") \in RowOf(Game)
      BY DEF TypeOK, AttachGameToPairing, RowOf, Status
    <2>3. QED BY <2>1, <2>2 DEF RowsChange, RowChange, TypeOK
  <1>3. CASE rows' = [rows EXCEPT ![p] = MarkPairingAmbiguous(@)]
    <2>1. MarkPairingAmbiguous(rows[p]) \in RowOf(Game)
      BY DEF TypeOK, MarkPairingAmbiguous, RowOf
    <2>2. QED BY <1>3, <2>1 DEF RowsChange, RowChange, TypeOK
  <1>4. CASE rows' = rows
    BY <1>4 DEF RowsChange, RowChange, TypeOK
  <1>5. QED BY <1>2, <1>3, <1>4 DEF MatchOne

-----------------------------------------------------------------------------
(* Numbers and notices. *)
LEMMA NextNrTyped ==
  ASSUME NEW S, IsFiniteSet(S)
  PROVE  NextNr(S) \in Nat
  <1> DEFINE nrs == {g.nr : g \in S}
  <1> DEFINE f == [g \in S |-> g.nr]
  <1>1. f \in Surjection(S, nrs)
    BY DEF Surjection
  <1>2. IsFiniteSet(nrs)
    <2> HIDE DEF nrs, f
    <2>1. QED BY <1>1, FS_Surjection
  <1>3. Cardinality(nrs) \in Nat
    <2> HIDE DEF nrs
    <2>1. QED BY <1>2, FS_CardinalityType
  <1>4. QED BY <1>3 DEF NextNr

LEMMA BulkForTyped ==
  ASSUME Typed, NEW todo \in SUBSET Pairing
  PROVE  /\ BulkFor(todo) \in SUBSET Game
         /\ IsFiniteSet(BulkFor(todo))
         /\ \A g \in BulkFor(todo) : g.by = "bulk" /\ g.pairing \in todo
         /\ \A g, h \in BulkFor(todo) : g.pairing = h.pairing => g = h
  <1> DEFINE nr == NextNr(OrganiserBulks)
  <1> DEFINE f == [p \in todo |-> [by |-> "bulk", pairing |-> p, nr |-> nr]]
  <1>1. IsFiniteSet(OrganiserBulks)
    BY FS_Subset DEF Typed, OrganiserBulks
  <1>2. nr \in Nat
    BY <1>1, NextNrTyped
  <1>3. BulkFor(todo) = {[by |-> "bulk", pairing |-> p, nr |-> nr] : p \in todo}
    BY DEF BulkFor
  <1> HIDE DEF nr
  <1>4. f \in Surjection(todo, BulkFor(todo))
    BY <1>3 DEF Surjection
  <1>5. IsFiniteSet(todo)
    BY CreationAssumption, FS_Subset
  <1>6. IsFiniteSet(BulkFor(todo))
    <2> HIDE DEF f
    <2>1. QED BY <1>4, <1>5, FS_Surjection
  <1>7. BulkFor(todo) \in SUBSET Game
    BY <1>2, <1>3 DEF Game
  <1>8. \A g \in BulkFor(todo) : g.by = "bulk" /\ g.pairing \in todo
    BY <1>3
  <1>9. \A g, h \in BulkFor(todo) : g.pairing = h.pairing => g = h
    BY <1>3
  <1>10. QED BY <1>6, <1>7, <1>8, <1>9

LEMMA ChallengeTyped ==
  ASSUME Typed, NEW p \in Pairing
  PROVE  /\ Challenge(p) \in Game
         /\ Challenge(p).by = "challenge" /\ Challenge(p).pairing = p
         /\ IsFiniteSet(challenges \cup {Challenge(p)})
  <1>1. IsFiniteSet({g \in challenges : g.pairing = p})
    BY FS_Subset DEF Typed
  <1>2. NextNr({g \in challenges : g.pairing = p}) \in Nat
    BY <1>1, NextNrTyped
  <1>3. IsFiniteSet(challenges \cup {Challenge(p)})
    BY FS_AddElement DEF Typed
  <1>4. QED BY <1>2, <1>3 DEF Challenge, Game

LEMMA NoticesTyped ==
  ASSUME TypeOK
  PROVE  /\ \A p \in Pairing : TellByHand(told[p]) \in Told
         /\ NotifyByHand \in [Pairing -> Told]
         /\ \A p \in Pairing, how \in {"bulk", "challenge"} :
               TellMade(told[p], how, job.retry) \in Told
  <1>1. \A p \in Pairing : TellByHand(told[p]) \in Told
    BY DEF TypeOK, Told, TellByHand, InsertNotification
  <1>2. NotifyByHand \in [Pairing -> Told]
    BY <1>1 DEF TypeOK, NotifyByHand
  <1>3. \A p \in Pairing, how \in {"bulk", "challenge"} :
               TellMade(told[p], how, job.retry) \in Told
    BY DEF TypeOK, Told, TellMade, InsertNotification
  <1>4. QED BY <1>1, <1>2, <1>3

LEMMA FinishTyped ==
  ASSUME TypeOK, NEW outcome \in {"created", "gave_up"}, FinishGameCreation(outcome)
  PROVE  /\ creation' \in {"creating", "created", "gave_up"}
         /\ told' \in [Pairing -> Told]
  BY NoticesTyped DEF TypeOK, FinishGameCreation

LEMMA RecordTyped ==
  ASSUME TypeOK, NEW made \in SUBSET Game, NEW todo, Record(made, todo)
  PROVE  RowsChange /\ told' \in [Pairing -> Told]
  <1>0. \A p \in Pairing :
          \/ rows'[p] = rows[p] /\ told'[p] = told[p]
          \/ /\ \E g \in made : g.pairing = p /\ rows'[p] = RecordCreatedGame(rows[p], g)
             /\ told'[p] = TellMade(told[p], "bulk", job.retry)
    <2>1. ASSUME NEW p \in Pairing
          PROVE  \/ rows'[p] = rows[p] /\ told'[p] = told[p]
                 \/ /\ \E g \in made :
                          g.pairing = p /\ rows'[p] = RecordCreatedGame(rows[p], g)
                    /\ told'[p] = TellMade(told[p], "bulk", job.retry)
      BY RecordRows
    <2>2. QED BY <2>1
  <1>1. ASSUME NEW p \in Pairing
        PROVE  RowChange(p) /\ rows'[p] \in RowOf(Game) /\ told'[p] \in Told
    <2>1. CASE rows'[p] = rows[p] /\ told'[p] = told[p]
      BY <2>1 DEF TypeOK, RowChange
    <2>2. CASE /\ \E g \in made : g.pairing = p /\ rows'[p] = RecordCreatedGame(rows[p], g)
               /\ told'[p] = TellMade(told[p], "bulk", job.retry)
      <3>1. PICK g \in Game : g.pairing = p /\ rows'[p] = RecordCreatedGame(rows[p], g)
        BY <2>2
      <3>2. rows'[p] \in RowOf(Game)
        BY <3>1 DEF TypeOK, RecordCreatedGame, RowOf, Method, Status
      <3>3. told'[p] \in Told
        BY <2>2, NoticesTyped
      <3>4. QED BY <3>1, <3>2, <3>3 DEF RowChange
    <2>3. QED BY <1>0, <2>1, <2>2
  <1>2. rows' = [p \in Pairing |-> rows'[p]] /\ told' = [p \in Pairing |-> told'[p]]
    BY RecordRows
  <1>3. QED BY <1>1, <1>2 DEF RowsChange

-----------------------------------------------------------------------------
(* Type correctness, step by step. *)
Core == Typed /\ RunIsJobs

LEMMA SameRows == ASSUME TypeOK, rows' = rows PROVE RowsChange
  BY DEF TypeOK, RowsChange, RowChange

LEMMA SetsTyped ==
  ASSUME TypeOK
  PROVE  /\ Left \in SUBSET Pairing
         /\ \A p \in Pairing : PlayersOf(p) \subseteq Player
         /\ UNION {PlayersOf(p) : p \in run.todo} \subseteq Player
         /\ MayRefuse \subseteq Player
         /\ OrganiserBulks \ AttachedGames \in SUBSET Game
         /\ run.todo \in SUBSET Pairing /\ run.made \in SUBSET Game
         /\ run.working \in SUBSET Player /\ run.tries \in Nat
         /\ \A working : BothWorking(run.todo, working) \in SUBSET Pairing
  <1>1. \A p \in Pairing : PlayersOf(p) \subseteq Player
    BY CreationAssumption DEF PlayersOf
  <1>2. /\ run.todo \in SUBSET Pairing /\ run.made \in SUBSET Game
        /\ run.working \in SUBSET Player /\ run.tries \in Nat
    BY DEF TypeOK, Run
  <1>3. UNION {PlayersOf(p) : p \in run.todo} \subseteq Player
    BY <1>1, <1>2
  <1>4. MayRefuse \subseteq Player
    BY <1>2 DEF MayRefuse
  <1>5. OrganiserBulks \ AttachedGames \in SUBSET Game
    BY DEF TypeOK, OrganiserBulks
  <1>6. Left \in SUBSET Pairing
    BY DEF Left
  <1>7. \A working : BothWorking(run.todo, working) \in SUBSET Pairing
    BY <1>2 DEF BothWorking
  <1>8. QED BY <1>1, <1>2, <1>3, <1>4, <1>5, <1>6, <1>7

LEMMA RunStepTyped ==
  ASSUME Core, RunStep
  PROVE  Core' /\ RowsChange
  <1> USE DEF Core, Typed, RunIsJobs
  <1>1. CASE StartRun
    <2>1. {p \in Pairing : Unmatched(rows[p])} \subseteq Pairing
      OBVIOUS
    <2>2. PICK pc \in {"search", "load"}, todo \in SUBSET Pairing :
             run' = [IdleRun EXCEPT !.setting = setting, !.pc = pc, !.todo = todo]
      BY <1>1, <2>1 DEF StartRun
    <2>3. run' \in Run
      BY <2>2 DEF TypeOK, Run, IdleRun
    <2>4. /\ job' \in [state : {"none", "waiting", "running"}, attempt : 0..MaxAttempts,
                      retry : BOOLEAN]
          /\ job'.state = "running"
      <3>1. job.attempt + 1 \in 0..MaxAttempts
        BY <1>1, CreationAssumption DEF StartRun, TypeOK
      <3>2. job' = [job EXCEPT !.state = "running", !.attempt = job.attempt + 1]
        BY <1>1 DEF StartRun
      <3>3. job \in [state : {"none", "waiting", "running"}, attempt : 0..MaxAttempts,
                     retry : BOOLEAN]
        BY DEF TypeOK
      <3> HIDE DEF Core, Typed, RunIsJobs
      <3>4. QED BY <3>1, <3>2, <3>3
    <2>5. QED BY <1>1, <2>3, <2>4, SameRows DEF StartRun, TypeOK, onLichess
  <1>2. CASE SearchByHand
    <2>1. RowsChange
      BY <1>2, SameRows, SetsTyped, MatchRows DEF SearchByHand
    <2>2. run' \in Run /\ RunIsJobs'
      BY <1>2, SetsTyped DEF SearchByHand, TypeOK, Run
    <2>3. QED BY <1>2, <2>1, <2>2 DEF SearchByHand, TypeOK, onLichess, RowsChange
  <1>3. CASE Load
    <2>1. creation' \in {"creating", "created", "gave_up"} /\ told' \in [Pairing -> Told]
      BY <1>3, FinishTyped DEF Load, GiveUp, TypeOK
    <2>2. run' \in Run /\ RunIsJobs'
      BY <1>3, SetsTyped DEF Load, TypeOK, Run
    <2>3. QED BY <1>3, <2>1, <2>2, SameRows DEF Load, TypeOK, onLichess
  <1>4. CASE Adopt
    <2>1. RowsChange /\ told' \in [Pairing -> Told]
      BY <1>4, RecordTyped, SetsTyped DEF Adopt
    <2>2. {p \in Pairing : ToCreate(rows'[p])} \subseteq Pairing
      OBVIOUS
    <2>3. run' \in Run /\ RunIsJobs'
      BY <1>4, <2>2 DEF Adopt, TypeOK, Run
    <2>4. QED BY <1>4, <2>1, <2>3 DEF Adopt, TypeOK, onLichess, RowsChange
  <1>5. CASE ProbeRead
    <2>1. run' \in Run /\ RunIsJobs'
      BY <1>5, SetsTyped DEF ProbeRead, TypeOK, Run
    <2>2. QED BY <1>5, <2>1, SameRows DEF ProbeRead, TypeOK, onLichess
  <1>6. CASE ProbeAnswer
    <2>1. token' \in [Player -> TokenState]
      BY <1>6 DEF ProbeAnswer, Revoke, TypeOK, TokenState
    <2>2. PICK refused \in SUBSET MayRefuse :
             LET working == run.working \ refused IN
             run' = [run EXCEPT !.working = working,
                        !.todo = BothWorking(run.todo, working),
                        !.pc = IF BothWorking(run.todo, working) = {} THEN "list" ELSE "bulk"]
      BY <1>6 DEF ProbeAnswer
    <2>a. run.working \ refused \in SUBSET Player
      BY SetsTyped
    <2>b. run' \in Run /\ RunIsJobs'
      BY <1>6, <2>2, <2>a, SetsTyped DEF ProbeAnswer, TypeOK, Run
    <2>3. QED BY <1>6, <2>1, <2>b, SameRows DEF ProbeAnswer, TypeOK, onLichess
  <1>7. CASE BulkAccepted
    <2>1. BulkFor(run.todo) \in SUBSET Game /\ IsFiniteSet(BulkFor(run.todo))
      BY SetsTyped, BulkForTyped
    <2>2. games' \subseteq Game /\ IsFiniteSet(games')
      BY <1>7, <2>1, FS_Union DEF BulkAccepted, TypeOK
    <2>3. run' \in Run /\ RunIsJobs'
      BY <1>7, <2>1 DEF BulkAccepted, TypeOK, Run
    <2>4. QED BY <1>7, <2>2, <2>3, SameRows DEF BulkAccepted, TypeOK
  <1>8. CASE BulkRefused
    <2>1. token' \in [Player -> TokenState]
      BY <1>8 DEF BulkRefused, Revoke, TypeOK, TokenState
    <2>2. PICK refused \in (SUBSET MayRefuse) \ {{}}, pc \in {"failed", "list", "bulk"} :
             LET working == run.working \ refused IN
             run' = [run EXCEPT !.tries = @ + 1, !.working = working,
                        !.todo = BothWorking(run.todo, working), !.pc = pc]
      BY <1>8 DEF BulkRefused
    <2>a. run.working \ refused \in SUBSET Player /\ run.tries + 1 \in Nat
      BY SetsTyped
    <2>b. run' \in Run /\ RunIsJobs'
      BY <1>8, <2>2, <2>a, SetsTyped DEF BulkRefused, TypeOK, Run
    <2>3. QED BY <1>8, <2>1, <2>b, SameRows DEF BulkRefused, TypeOK, onLichess
  <1>9. CASE RecordBulk
    <2>1. RowsChange /\ told' \in [Pairing -> Told]
      BY <1>9, RecordTyped, SetsTyped DEF RecordBulk
    <2>2. run' \in Run /\ RunIsJobs'
      BY <1>9 DEF RecordBulk, TypeOK, Run
    <2>3. QED BY <1>9, <2>1, <2>2 DEF RecordBulk, TypeOK, onLichess, RowsChange
  <1>10. CASE ListChallenges
    <2>1. run' \in Run /\ RunIsJobs'
      BY <1>10, SetsTyped DEF ListChallenges, TypeOK, Run
    <2>2. QED BY <1>10, <2>1, SameRows DEF ListChallenges, TypeOK, onLichess
  <1>11. CASE SendChallenge
    <2>1. PICK p \in run.todo :
            /\ challenges' \in {challenges, challenges \cup {Challenge(p)}}
            /\ failures' \in {failures, failures + 1}
            /\ \/ run' = [run EXCEPT !.todo = @ \ {p}]
               \/ run' = [run EXCEPT !.pc = "sent", !.todo = @ \ {p}, !.made = {Challenge(p)}]
      BY <1>11 DEF SendChallenge
    <2>2. /\ Challenge(p) \in Game /\ IsFiniteSet(challenges \cup {Challenge(p)})
          /\ run.pc = "challenge"
      BY <1>11, SetsTyped, ChallengeTyped DEF SendChallenge
    <2>a. run.todo \ {p} \in SUBSET Pairing /\ {Challenge(p)} \in SUBSET Game
      BY <2>2, SetsTyped
    <2>3. run' \in Run /\ RunIsJobs'
      BY <1>11, <2>1, <2>2, <2>a DEF SendChallenge, TypeOK, Run
    <2>b. challenges' \subseteq Game /\ IsFiniteSet(challenges')
      <3>1. challenges \subseteq Game /\ challenges \cup {Challenge(p)} \subseteq Game
        BY <2>2 DEF TypeOK
      <3>2. QED BY <2>1, <2>2, <3>1
    <2>c. failures' \in Nat
      BY <2>1 DEF TypeOK
    <2>4. challenges' \subseteq Game /\ IsFiniteSet(challenges') /\ failures' \in Nat
      BY <2>b, <2>c
    <2>5. UNCHANGED <<creation, rows, told, token, setting, job, games, listed, retries>>
      BY <1>11 DEF SendChallenge
    <2>6. QED BY <2>3, <2>4, <2>5, SameRows DEF TypeOK
  <1>12. CASE RecordSent
    <2>1. PICK g \in run.made :
            /\ rows' = [rows EXCEPT ![g.pairing] = RecordChallenge(@, g)]
            /\ told' = [told EXCEPT ![g.pairing] =
                  IF Recordable(rows[g.pairing])
                  THEN TellMade(@, "challenge", job.retry) ELSE @]
      BY <1>12 DEF RecordSent
    <2>2. g \in Game /\ g.pairing \in Pairing
      BY SetsTyped DEF Game
    <2>a. rows[g.pairing] \in RowOf(Game)
      BY <2>2 DEF TypeOK
    <2>3. RecordChallenge(rows[g.pairing], g) \in RowOf(Game)
      BY <2>2, <2>a DEF RecordChallenge, RowOf, Method
    <2>4. RowsChange
      BY <2>1, <2>2, <2>3 DEF TypeOK, RowsChange, RowChange
    <2>5. told' \in [Pairing -> Told]
      BY <2>1, <2>2, NoticesTyped DEF TypeOK
    <2>6. run' \in Run /\ RunIsJobs'
      BY <1>12 DEF RecordSent, TypeOK, Run
    <2>7. QED BY <1>12, <2>4, <2>5, <2>6 DEF RecordSent, TypeOK, onLichess, RowsChange
  <1>13. CASE ChallengesDone
    <2>1. run' \in Run /\ RunIsJobs'
      BY <1>13 DEF ChallengesDone, TypeOK, Run
    <2>2. QED BY <1>13, <2>1, SameRows DEF ChallengesDone, TypeOK, onLichess
  <1>14. CASE Finish
    <2>1. creation' \in {"creating", "created", "gave_up"} /\ told' \in [Pairing -> Told]
      BY <1>14, FinishTyped DEF Finish
    <2>2. run' \in Run /\ RunIsJobs'
      BY <1>14 DEF Finish, TypeOK, Run
    <2>3. QED BY <1>14, <2>1, <2>2, SameRows DEF Finish, TypeOK, onLichess
  <1>15. CASE JobCompleted
    <2>1. run' \in Run /\ RunIsJobs' /\ job' \in
            [state : {"none", "waiting", "running"}, attempt : 0..MaxAttempts, retry : BOOLEAN]
      BY <1>15 DEF JobCompleted, TypeOK, Run, IdleRun
    <2>2. QED BY <1>15, <2>1, SameRows DEF JobCompleted, TypeOK, onLichess
  <1>16. QED
    BY <1>1, <1>2, <1>3, <1>4, <1>5, <1>6, <1>7, <1>8, <1>9, <1>10, <1>11, <1>12, <1>13,
       <1>14, <1>15 DEF RunStep

LEMMA OtherStepTyped ==
  ASSUME Core, GamesTheirs, BadEnd \/ OtherStep \/ UNCHANGED vars
  PROVE  Core' /\ RowsChange
  <1> USE DEF Core, Typed, RunIsJobs
  <1> DEFINE Job == [state : {"none", "waiting", "running"}, attempt : 0..MaxAttempts,
                     retry : BOOLEAN]
  <1>a. IdleRun \in Run /\ IdleRun.pc = "idle"
    BY DEF IdleRun, Run
  <1>b. job \in Job
    BY DEF TypeOK
  <1>1. CASE BulkAnswerLost
    <2>1. BulkFor(run.todo) \in SUBSET Game /\ IsFiniteSet(BulkFor(run.todo))
      BY SetsTyped, BulkForTyped
    <2>2. games' \subseteq Game /\ IsFiniteSet(games')
      BY <1>1, <2>1, FS_Union DEF BulkAnswerLost, TypeOK
    <2>3. run' \in Run /\ RunIsJobs'
      BY <1>1 DEF BulkAnswerLost, TypeOK, Run
    <2>4. QED BY <1>1, <2>2, <2>3, SameRows DEF BulkAnswerLost, TypeOK
  <1>2. CASE Interrupted
    <2>1. job' \in Job /\ job'.attempt < MaxAttempts
      BY <1>2, <1>b DEF Interrupted
    <2>2. QED BY <1>2, <1>a, <2>1, SameRows DEF Interrupted, TypeOK, onLichess
  <1>3. CASE LastAttemptFails
    <2>1. creation' \in {"creating", "created", "gave_up"} /\ told' \in [Pairing -> Told]
      BY <1>3, FinishTyped DEF LastAttemptFails, GiveUp
    <2>2. job' \in Job /\ job'.state = "none"
      BY <1>3, <1>b DEF LastAttemptFails
    <2>3. QED
      BY <1>3, <1>a, <2>1, <2>2, SameRows DEF LastAttemptFails, TypeOK, onLichess
  <1>4. CASE LastAttemptLost
    <2>1. job' \in Job /\ job'.state = "none"
      BY <1>4, <1>b DEF LastAttemptLost
    <2>2. QED BY <1>4, <1>a, <2>1, SameRows DEF LastAttemptLost, TypeOK, onLichess
  <1>5. CASE RetryGameCreation
    <2>1. /\ job' \in Job /\ job'.attempt < MaxAttempts
          /\ retries' \in 0..MaxRetries
          /\ run'.pc = "idle"
      BY <1>5, CreationAssumption DEF RetryGameCreation, TypeOK, Run
    <2>2. QED BY <1>5, <2>1, SameRows DEF RetryGameCreation, TypeOK, onLichess
  <1>6. CASE SwitchSetting
    BY <1>6, SameRows DEF SwitchSetting, TypeOK, onLichess
  <1>7. CASE \E p \in Failable : MarkFailed(p)
    <2>1. PICK p \in Pairing : MarkFailed(p)
      BY <1>7, CreationAssumption
    <2>2. MarkPublishedPairingFailed(rows[p]) \in RowOf(Game)
      BY DEF TypeOK, MarkPublishedPairingFailed, RowOf, Status
    <2>3. RowsChange
      BY <2>1, <2>2 DEF MarkFailed, RowsChange, RowChange, TypeOK
    <2>4. QED BY <2>1, <2>3 DEF MarkFailed, TypeOK, onLichess, RowsChange
  <1>s. CASE SyncList
    BY <1>s, SameRows, CreationAssumption DEF SyncList, TypeOK, onLichess
  <1>m. CASE \E p \in Pairing : SyncMatch(p)
    BY <1>m, MatchRows DEF SyncMatch, TypeOK, onLichess, RowsChange
  <1>8. CASE \E p \in Pairing : SyncRecheck(p)
    <2>1. PICK p \in Pairing : SyncRecheck(p)
      BY <1>8
    <2>2. rows[p] \in RowOf(Game) /\ rows[p].game \in Game
      BY <2>1 DEF SyncRecheck, TypeOK
    <2>3. AttachGameToPairing(rows[p], rows[p].game, "in_progress") \in RowOf(Game)
      BY <2>2 DEF AttachGameToPairing, RowOf, Status
    <2>4. rows[p].game.pairing = p
      BY <2>1 DEF SyncRecheck, GamesTheirs, ToRecheck
    <2>5. RowsChange
      BY <2>1, <2>2, <2>3, <2>4 DEF SyncRecheck, RowsChange, RowChange, TypeOK
    <2>6. QED BY <2>1, <2>5 DEF SyncRecheck, TypeOK, onLichess, RowsChange
  <1>9. CASE \E p \in ByHand : StartByHand(p)
    <2>1. PICK p \in Pairing : StartByHand(p)
      BY <1>9, CreationAssumption
    <2>2. PICK g \in Game : games' = games \cup {g}
      BY <2>1 DEF StartByHand, Game
    <2>3. games' \subseteq Game /\ IsFiniteSet(games')
      BY <2>2, FS_AddElement DEF TypeOK
    <2>4. QED BY <2>1, <2>3, SameRows DEF StartByHand, TypeOK
  <1>10. CASE AcceptChallenge
    <2>1. PICK g \in challenges : games' = games \cup {g}
      BY <1>10 DEF AcceptChallenge
    <2>2. games' \subseteq Game /\ IsFiniteSet(games')
      BY <2>1, FS_AddElement DEF TypeOK
    <2>3. QED BY <1>10, <2>2, SameRows DEF AcceptChallenge, TypeOK
  <1>11. CASE \E u \in Fickle : TokenDies(u)
    BY <1>11, SameRows DEF TokenDies, TypeOK, TokenState, onLichess
  <1>12. CASE \E u \in Fickle : SignIn(u)
    <2>1. PICK u \in Fickle : SignIn(u)
      BY <1>12
    <2>2. run.renewed \cup (run.working \cap {u}) \in SUBSET Player
      BY DEF TypeOK, Run
    <2>3. run' \in Run /\ RunIsJobs'
      BY <2>1, <2>2 DEF SignIn, TypeOK, Run
    <2>4. QED BY <2>1, <2>3, SameRows DEF SignIn, TypeOK, TokenState, onLichess
  <1>13. CASE UNCHANGED vars
    BY <1>13, SameRows DEF vars, TypeOK
  <1>14. QED
    BY <1>1, <1>2, <1>3, <1>4, <1>5, <1>6, <1>7, <1>s, <1>m, <1>8, <1>9, <1>10, <1>11, <1>12,
       <1>13
    DEF BadEnd, OtherStep

-----------------------------------------------------------------------------
(* What the parts of the invariant rest on. *)
LEMMA CoreStep ==
  ASSUME CInv, [Next]_vars
  PROVE  Core' /\ RowsChange
  BY RunStepTyped, OtherStepTyped DEF CInv, Core, Next

LEMMA RowsKeep ==
  ASSUME CInv, RowsChange
  PROVE  /\ GamesTheirs'
         /\ Left' \subseteq Left
         /\ \A g : g \in Unknown' => g \in challenges' /\ (g \in challenges => g \in Unknown)
  <1>1. \A p \in Pairing :
           /\ rows'[p].game # NoGame => rows'[p].game.pairing = p
           /\ ToCreate(rows'[p]) => rows'[p] = rows[p]
           /\ rows'[p].status = "pending" => rows[p].status = "pending"
           /\ rows'[p].status = "pending" /\ rows[p].game # NoGame =>
                 rows'[p].game = rows[p].game
    BY RowChangeKeeps DEF CInv, RowsChange
  <1>2. GamesTheirs'
    BY <1>1 DEF GamesTheirs
  <1>3. Left' \subseteq Left
    BY <1>1 DEF Left
  <1>4. ASSUME NEW g, g \in Unknown', g \in challenges
        PROVE  g \in Unknown
    <2>1. g.pairing \in Pairing
      BY <1>4 DEF CInv, Typed, TypeOK, Game
    <2>2. rows[g.pairing].status = "pending"
      BY <1>1, <1>4, <2>1 DEF Unknown
    <2>3. ASSUME g \in AttachedGames
          PROVE  FALSE
      <3>1. PICK q \in Pairing : g = rows[q].game /\ g # NoGame
        BY <2>3 DEF AttachedGames
      <3>2. q = g.pairing
        BY <3>1 DEF CInv, GamesTheirs
      <3>3. rows'[q].game = g
        BY <1>1, <1>4, <3>1, <3>2 DEF Unknown
      <3>4. QED BY <1>4, <3>1, <3>3 DEF Unknown, AttachedGames
    <2>4. QED BY <1>4, <2>2, <2>3 DEF Unknown
  <1>5. QED BY <1>2, <1>3, <1>4 DEF Unknown

(* At most one more challenge is orphaned, by one more failure. *)
LEMMA OrphansKept ==
  ASSUME CInv, Core',
         \/ Unknown' \ InHand' \subseteq Unknown \ InHand /\ failures' >= failures
         \/ /\ \E x : Unknown' \ InHand' \subseteq (Unknown \ InHand) \cup {x}
            /\ failures' >= failures + 1
  PROVE  OrphansCounted'
  <1> DEFINE S == Unknown \ InHand
  <1> DEFINE T == Unknown' \ InHand'
  <1>1. failures \in Nat /\ failures' \in Nat
    BY DEF CInv, Core, Typed, TypeOK
  <1>2. IsFiniteSet(S)
    BY FS_Subset DEF CInv, Typed, Unknown
  <1>3. Cardinality(S) <= failures
    BY DEF CInv, OrphansCounted
  <1>4. Cardinality(S) \in Nat
    BY <1>2, FS_CardinalityType
  <1> HIDE DEF S
  <1>5. CASE T \subseteq S /\ failures' >= failures
    <2>1. Cardinality(T) <= Cardinality(S) /\ IsFiniteSet(T)
      BY <1>2, <1>5, FS_Subset
    <2>2. Cardinality(T) \in Nat
      BY <2>1, FS_CardinalityType
    <2>3. Cardinality(T) <= failures'
      <3> HIDE DEF T
      <3>1. QED BY <1>1, <1>3, <1>4, <1>5, <2>1, <2>2
    <2>4. QED BY <2>3 DEF OrphansCounted
  <1>6. CASE /\ \E x : T \subseteq S \cup {x}
             /\ failures' >= failures + 1
    <2>1. PICK x : T \subseteq S \cup {x}
      BY <1>6
    <2>2. /\ IsFiniteSet(S \cup {x})
          /\ Cardinality(S \cup {x}) = IF x \in S THEN Cardinality(S) ELSE Cardinality(S) + 1
      BY <1>2, FS_AddElement
    <2>3. Cardinality(T) <= Cardinality(S \cup {x}) /\ IsFiniteSet(T)
      BY <2>1, <2>2, FS_Subset
    <2>4. Cardinality(T) \in Nat
      BY <2>3, FS_CardinalityType
    <2>5. Cardinality(T) <= failures'
      <3> HIDE DEF T
      <3>1. QED BY <1>1, <1>3, <1>4, <1>6, <2>2, <2>3, <2>4
    <2>6. QED BY <2>5 DEF OrphansCounted
  <1>7. QED BY <1>5, <1>6 DEF S

(* A step that records nothing and tells nobody. *)
LEMMA QuietKeeps ==
  ASSUME CInv, RowsChange, told' = told,
         \A p \in Pairing : rows'[p].method = rows[p].method,
         \/ creation' = creation /\ job'.retry = job.retry
         \/ creation' = "creating" /\ job'.retry,
         \A g \in games' : g \in games \/ g.by # "bulk"
  PROVE  BulkOnce' /\ Untold' /\ ToldOfGame' /\ LeftAreTold'
  <1>1. \A p \in Pairing : Recordable(rows'[p]) => Recordable(rows[p])
    BY RowChangeKeeps DEF CInv, RowsChange
  <1>2. Untold'
    BY <1>1 DEF CInv, Untold
  <1>3. ToldOfGame'
    BY DEF CInv, ToldOfGame, LastWord
  <1>4. LeftAreTold'
    BY RowsKeep DEF CInv, LeftAreTold
  <1>5. BulkOnce'
    BY DEF CInv, BulkOnce
  <1>6. QED BY <1>2, <1>3, <1>4, <1>5

(* The end of a creation: those left are told. *)
LEMMA FinishKeeps ==
  ASSUME CInv, rows' = rows, games' = games, job'.retry = job.retry,
         NEW outcome \in {"created", "gave_up"}, FinishGameCreation(outcome)
  PROVE  BulkOnce' /\ Untold' /\ ToldOfGame' /\ LeftAreTold'
  <1>1. CASE UNCHANGED <<creation, told>>
    BY <1>1 DEF CInv, BulkOnce, Untold, ToldOfGame, LastWord, LeftAreTold, Left
  <1>2. CASE creation' = outcome /\ told' = NotifyByHand
    <2>1. \A p \in Pairing :
             told'[p] = IF p \in Left THEN TellByHand(told[p]) ELSE told[p]
      BY <1>2 DEF NotifyByHand
    <2>2. \A p \in Pairing : /\ told'[p].created = told[p].created
                             /\ p \in Left => told'[p].paired # "none"
                             /\ p \notin Left => told'[p] = told[p]
      <3>1. \A p \in Pairing : told[p] \in Told
        BY DEF CInv, Typed, TypeOK
      <3>2. QED BY <2>1, <3>1 DEF TellByHand, InsertNotification, Told
    <2>3. \A p \in Left : rows[p].method = "manual_external"
      BY DEF Left, ToCreate
    <2>4. Untold'
      BY <1>2, <2>2 DEF CInv, Untold
    <2>5. ToldOfGame'
      BY <2>2, <2>3 DEF CInv, ToldOfGame, LastWord
    <2>6. LeftAreTold'
      BY <2>2 DEF LeftAreTold, Left
    <2>7. QED BY <2>4, <2>5, <2>6 DEF CInv, BulkOnce
  <1>3. QED BY <1>1, <1>2 DEF FinishGameCreation

(* Rows as sync-games and the admins change them: none comes to be pending *)
(* or, pending, to hold a game.                                            *)
RowsQuiet ==
    \A p \in Pairing :
        /\ rows'[p].method = rows[p].method
        /\ rows'[p].status = "pending" =>
              rows[p].status = "pending" /\ rows'[p].game = rows[p].game

LEMMA SameRowsQuiet == ASSUME rows' = rows PROVE RowsQuiet
  BY DEF RowsQuiet

LEMMA AttachQuiet ==
  ASSUME TypeOK, NEW p \in Pairing, NEW g \in Game,
         rows' = [rows EXCEPT ![p] = AttachGameToPairing(@, g, "in_progress")]
  PROVE  RowsQuiet
  <1>1. rows[p] \in RowOf(Game)
    BY DEF TypeOK
  <1>2. /\ AttachGameToPairing(rows[p], g, "in_progress").status = "in_progress"
        /\ AttachGameToPairing(rows[p], g, "in_progress").method = rows[p].method
    BY <1>1 DEF AttachGameToPairing, RowOf
  <1>3. \A q \in Pairing :
           rows'[q] = IF q = p THEN AttachGameToPairing(rows[p], g, "in_progress") ELSE rows[q]
    BY DEF TypeOK
  <1>4. QED BY <1>2, <1>3 DEF RowsQuiet

LEMMA MatchQuiet ==
  ASSUME TypeOK, NEW p \in Pairing, MatchOne(p)
  PROVE  RowsQuiet
  <1>1. CASE \E g \in games :
                rows' = [rows EXCEPT ![p] = AttachGameToPairing(@, g, "in_progress")]
    BY <1>1, AttachQuiet DEF TypeOK
  <1>2. CASE rows' = [rows EXCEPT ![p] = MarkPairingAmbiguous(@)]
    BY <1>2 DEF TypeOK, RowOf, MarkPairingAmbiguous, RowsQuiet
  <1>3. CASE rows' = rows
    BY <1>3, SameRowsQuiet
  <1>4. QED BY <1>1, <1>2, <1>3 DEF MatchOne

LEMMA SyncQuiet ==
  ASSUME TypeOK, NEW p \in Pairing, SyncMatch(p) \/ SyncRecheck(p)
  PROVE  RowsQuiet
  <1>1. CASE SyncMatch(p)
    BY <1>1, MatchQuiet DEF SyncMatch
  <1>2. CASE SyncRecheck(p)
    BY <1>2, AttachQuiet DEF SyncRecheck, TypeOK
  <1>3. QED BY <1>1, <1>2

LEMMA MarkQuiet ==
  ASSUME TypeOK, NEW p \in Pairing, MarkFailed(p)
  PROVE  RowsQuiet
  BY DEF MarkFailed, TypeOK, RowOf, MarkPublishedPairingFailed, RowsQuiet

-----------------------------------------------------------------------------
(* The others. *)
LEMMA OutsideFacts ==
  ASSUME CInv, OtherStep \/ UNCHANGED vars
  PROVE  /\ run'.pc = run.pc /\ run'.todo = run.todo /\ run'.made = run.made
         /\ told' = told /\ challenges' = challenges /\ failures' = failures
         /\ RowsQuiet
         /\ \/ creation' = creation /\ job'.retry = job.retry
            \/ creation' = "creating" /\ job'.retry
         /\ \A g \in games' : g \in games \/ g.by # "bulk"
  <1> USE DEF CInv, Typed
  <1>0. run \in Run
    BY DEF TypeOK
  <1>1. CASE RetryGameCreation
    BY <1>1, SameRowsQuiet DEF RetryGameCreation, onLichess
  <1>2. CASE SwitchSetting
    BY <1>2, SameRowsQuiet DEF SwitchSetting, onLichess
  <1>3. CASE \E p \in Failable : MarkFailed(p)
    <2>1. PICK p \in Pairing : MarkFailed(p)
      BY <1>3, CreationAssumption
    <2>2. QED BY <2>1, MarkQuiet DEF MarkFailed, onLichess
  <1>s. CASE SyncList
    BY <1>s, SameRowsQuiet DEF SyncList, onLichess
  <1>4. CASE \E p \in Pairing : SyncMatch(p) \/ SyncRecheck(p)
    BY <1>4, SyncQuiet DEF SyncMatch, SyncRecheck, onLichess
  <1>5. CASE \E p \in ByHand : StartByHand(p)
    BY <1>5, SameRowsQuiet DEF StartByHand
  <1>6. CASE AcceptChallenge
    BY <1>6, SameRowsQuiet DEF AcceptChallenge, ChallengesWanted
  <1>7. CASE \E u \in Fickle : TokenDies(u)
    BY <1>7, SameRowsQuiet DEF TokenDies, onLichess
  <1>8. CASE \E u \in Fickle : SignIn(u)
    BY <1>0, <1>8, SameRowsQuiet DEF SignIn, onLichess, Run
  <1>9. CASE UNCHANGED vars
    BY <1>9, SameRowsQuiet DEF vars
  <1>10. QED
    BY <1>1, <1>2, <1>3, <1>s, <1>4, <1>5, <1>6, <1>7, <1>8, <1>9 DEF OtherStep

LEMMA OutsideKeeps ==
  ASSUME CInv, OtherStep \/ UNCHANGED vars
  PROVE  CInv'
  <1> USE OutsideFacts
  <1>1. Core' /\ RowsChange
    BY OtherStepTyped DEF CInv, Core
  <1>2. GamesTheirs' /\ Left' \subseteq Left /\ Unknown' \subseteq Unknown
    BY <1>1, RowsKeep
  <1>3. BulkOnce' /\ Untold' /\ ToldOfGame' /\ LeftAreTold'
    BY <1>1, QuietKeeps DEF RowsQuiet
  <1>4. CreatingWhileMaking'
    BY DEF CInv, CreatingWhileMaking
  <1>5. \A p \in Pairing : NoGameYet(p) => NoGameYet(p)'
    BY DEF RowsQuiet, NoGameYet
  <1>6. run.todo \subseteq Pairing /\ \A g \in challenges : g.pairing \in Pairing
    BY SetsTyped DEF CInv, Typed, TypeOK, Game
  <1>7. ChallengesWanted'
    BY <1>5, <1>6 DEF CInv, ChallengesWanted
  <1>8. AdoptSeesAll'
    BY <1>2 DEF CInv, AdoptSeesAll
  <1>9. NoBulkYet'
    BY DEF CInv, NoBulkYet
  <1>10. InHand' = InHand
    BY DEF InHand
  <1>11. failures' >= failures
    BY DEF CInv, Typed, TypeOK
  <1>12. OrphansCounted'
    BY <1>1, <1>2, <1>10, <1>11, OrphansKept
  <1>13. QED
    BY <1>1, <1>2, <1>3, <1>4, <1>7, <1>8, <1>9, <1>12 DEF CInv, Core

-----------------------------------------------------------------------------
(* Attempts that end badly. *)
LEMMA EndedRun ==
  ASSUME CInv, Core', RowsChange, rows' = rows,
         run'.pc \notin Making, challenges' = challenges,
         run.pc = "sent" => failures' >= failures + 1, failures' >= failures
  PROVE  /\ GamesTheirs' /\ CreatingWhileMaking' /\ ChallengesWanted' /\ AdoptSeesAll'
         /\ NoBulkYet' /\ OrphansCounted'
  <1>1. /\ run'.pc # "sent" /\ run'.pc # "challenge" /\ run'.pc # "adopt"
        /\ run'.pc \notin {"probe", "revoke", "bulk"}
    BY DEF Making
  <1>2. \E x : InHand \subseteq {x}
    <2>1. CASE run.pc = "sent"
      BY <2>1 DEF CInv, ChallengesWanted, InHand
    <2>2. CASE run.pc # "sent"
      BY <2>2 DEF InHand
    <2>3. QED BY <2>1, <2>2
  <1>3. Unknown' \subseteq Unknown /\ GamesTheirs'
    BY RowsKeep
  <1>4. InHand = {} \/ failures' >= failures + 1
    BY DEF InHand
  <1>5. OrphansCounted'
    BY <1>2, <1>3, <1>4, OrphansKept
  <1>6. QED
    BY <1>1, <1>3, <1>5
    DEF CInv, CreatingWhileMaking, ChallengesWanted, AdoptSeesAll, NoBulkYet

LEMMA BulkMadeOnce ==
  ASSUME CInv, run.pc = "bulk", games' = games \cup BulkFor(run.todo)
  PROVE  BulkOnce'
  <1>1. /\ \A g \in BulkFor(run.todo) : g.by = "bulk" /\ g.pairing \in run.todo
        /\ \A g, h \in BulkFor(run.todo) : g.pairing = h.pairing => g = h
    BY SetsTyped, BulkForTyped DEF CInv, Typed
  <1>2. \A g \in games, h \in BulkFor(run.todo) : g.by = "bulk" => g.pairing # h.pairing
    BY <1>1 DEF CInv, NoBulkYet
  <1>3. \A g, h \in games : g.by = "bulk" /\ h.by = "bulk" /\ g.pairing = h.pairing => g = h
    BY DEF CInv, BulkOnce
  <1>4. QED BY <1>1, <1>2, <1>3 DEF BulkOnce

LEMMA BadEndKeeps ==
  ASSUME CInv, BadEnd
  PROVE  CInv'
  <1>1. Core' /\ RowsChange
    BY OtherStepTyped DEF CInv, Core
  <1>2. /\ rows' = rows /\ challenges' = challenges /\ failures' >= failures
        /\ run.pc = "sent" => failures' >= failures + 1
        /\ job'.retry = job.retry
        /\ run'.pc \notin Making
    <2>1. run \in Run /\ job \in [state : {"none", "waiting", "running"},
                               attempt : 0..MaxAttempts, retry : BOOLEAN]
          /\ failures \in Nat
      BY DEF CInv, Typed, TypeOK
    <2>2. CASE BulkAnswerLost
      BY <2>1, <2>2 DEF BulkAnswerLost, Making, Run
    <2>3. CASE Interrupted
      BY <2>1, <2>3 DEF Interrupted, Making, IdleRun, onLichess
    <2>4. CASE LastAttemptFails
      BY <2>1, <2>4 DEF LastAttemptFails, Making, IdleRun, onLichess
    <2>5. CASE LastAttemptLost
      BY <2>1, <2>5 DEF LastAttemptLost, Making, IdleRun, onLichess
    <2>6. QED BY <2>2, <2>3, <2>4, <2>5 DEF BadEnd
  <1>3. /\ GamesTheirs' /\ CreatingWhileMaking' /\ ChallengesWanted' /\ AdoptSeesAll'
        /\ NoBulkYet' /\ OrphansCounted'
    BY <1>1, <1>2, EndedRun
  <1>4. BulkOnce' /\ Untold' /\ ToldOfGame' /\ LeftAreTold'
    <2>1. CASE BulkAnswerLost
      <3>1. BulkOnce'
        BY <2>1, BulkMadeOnce DEF BulkAnswerLost
      <3>2. UNCHANGED <<creation, rows, told, job>>
        BY <2>1 DEF BulkAnswerLost
      <3>3. QED BY <3>1, <3>2 DEF CInv, Untold, ToldOfGame, LastWord, LeftAreTold, Left
    <2>2. CASE Interrupted \/ LastAttemptLost
      <3>1. UNCHANGED <<creation, told, games>>
        BY <2>2 DEF Interrupted, LastAttemptLost, onLichess
      <3>2. QED BY <1>1, <1>2, <3>1, QuietKeeps
    <2>3. CASE LastAttemptFails
      BY <1>2, <2>3, FinishKeeps DEF LastAttemptFails, GiveUp, onLichess
    <2>4. QED BY <2>1, <2>2, <2>3 DEF BadEnd
  <1>5. QED BY <1>1, <1>3, <1>4 DEF CInv, Core

-----------------------------------------------------------------------------
(* The run. *)
LEMMA QuietRunKeeps ==
  ASSUME CInv, Core', RowsChange, RowsQuiet,
         UNCHANGED <<told, creation, games, challenges>>, job'.retry = job.retry,
         failures' = failures, run.pc # "sent", run'.pc # "sent",
         run'.pc \in Making => creation = "creating",
         run'.pc = "adopt" => Left \subseteq run'.todo,
         run'.pc \in {"probe", "revoke", "bulk"} =>
             run.pc \in {"probe", "revoke", "bulk"} /\ run'.todo \subseteq run.todo,
         run'.pc = "challenge" => \A p \in run'.todo : NoGameYet(p)
  PROVE  CInv'
  <1>1. GamesTheirs' /\ Left' \subseteq Left /\ Unknown' \subseteq Unknown
    BY RowsKeep
  <1>2. BulkOnce' /\ Untold' /\ ToldOfGame' /\ LeftAreTold'
    BY QuietKeeps DEF RowsQuiet
  <1>3. CreatingWhileMaking' /\ AdoptSeesAll'
    BY <1>1 DEF CreatingWhileMaking, AdoptSeesAll
  <1>4. run'.todo \subseteq Pairing
    BY DEF Core, Typed, TypeOK, Run
  <1>5. \A p \in Pairing : NoGameYet(p) => NoGameYet(p)'
    BY DEF RowsQuiet, NoGameYet
  <1>6. ChallengesWanted'
    BY <1>4, <1>5 DEF CInv, ChallengesWanted
  <1>7. NoBulkYet'
    BY DEF CInv, NoBulkYet
  <1>8. failures' >= failures /\ InHand' = {} /\ InHand = {}
    BY DEF CInv, Typed, TypeOK, InHand
  <1>9. OrphansCounted'
    BY <1>1, <1>8, OrphansKept
  <1>10. QED
    BY <1>1, <1>2, <1>3, <1>6, <1>7, <1>9 DEF CInv, Core

LEMMA QuietStepKeeps ==
  ASSUME CInv, Core', RowsChange,
         \/ StartRun \/ SearchByHand \/ ProbeRead \/ ProbeAnswer \/ BulkRefused
         \/ ListChallenges \/ ChallengesDone \/ JobCompleted
  PROVE  CInv'
  <1>0. /\ TypeOK /\ run \in Run
        /\ job \in [state : {"none", "waiting", "running"}, attempt : 0..MaxAttempts,
                    retry : BOOLEAN]
    BY DEF CInv, Typed, TypeOK
  <1>1. CASE StartRun
    <2>1. run.pc = "idle" /\ run'.pc \in {"search", "load"}
      BY <1>0, <1>1 DEF StartRun, CInv, RunIsJobs, IdleRun
    <2>2. job'.retry = job.retry /\ run'.pc \notin Making
      BY <1>0, <1>1, <2>1 DEF StartRun, Making
    <2>3. QED
      BY <1>1, <2>1, <2>2, QuietRunKeeps, SameRowsQuiet DEF StartRun, onLichess
  <1>2. CASE SearchByHand
    <2>1. RowsQuiet
      BY <1>0, <1>2, SetsTyped, MatchQuiet, SameRowsQuiet DEF SearchByHand
    <2>2. run'.pc \in {"search", "load"} /\ run'.pc \notin Making
      BY <1>0, <1>2 DEF SearchByHand, Run, Making
    <2>3. QED
      BY <1>2, <2>1, <2>2, QuietRunKeeps DEF SearchByHand, onLichess
  <1>3. CASE ProbeRead
    <2>1. run'.pc = "revoke" /\ run'.todo = run.todo /\ run.pc = "probe"
      BY <1>0, <1>3 DEF ProbeRead, Run
    <2>2. creation = "creating"
      BY <2>1 DEF CInv, CreatingWhileMaking, Making
    <2>3. QED
      BY <1>3, <2>1, <2>2, QuietRunKeeps, SameRowsQuiet DEF ProbeRead, onLichess
  <1>4. CASE ProbeAnswer \/ BulkRefused
    <2>1. /\ run.pc \in {"revoke", "bulk"} /\ run'.pc \in {"list", "bulk", "failed"}
          /\ run'.todo \subseteq run.todo
      <3>1. run.pc \in {"revoke", "bulk"}
        BY <1>4 DEF ProbeAnswer, BulkRefused
      <3>2. \A w : BothWorking(run.todo, w) \subseteq run.todo
        BY DEF BothWorking
      <3>3. CASE ProbeAnswer
        <4>1. PICK refused \in SUBSET MayRefuse :
                 LET working == run.working \ refused IN
                 run' = [run EXCEPT !.working = working,
                            !.todo = BothWorking(run.todo, working),
                            !.pc = IF BothWorking(run.todo, working) = {}
                                   THEN "list" ELSE "bulk"]
          BY <3>3 DEF ProbeAnswer
        <4>2. QED BY <1>0, <3>1, <3>2, <4>1 DEF Run
      <3>4. CASE BulkRefused
        <4>1. PICK refused \in (SUBSET MayRefuse) \ {{}}, pc \in {"failed", "list", "bulk"} :
                 LET working == run.working \ refused IN
                 run' = [run EXCEPT !.tries = @ + 1, !.working = working,
                            !.todo = BothWorking(run.todo, working), !.pc = pc]
          BY <3>4 DEF BulkRefused
        <4>2. QED BY <1>0, <3>1, <3>2, <4>1 DEF Run
      <3>5. QED BY <1>4, <3>3, <3>4
    <2>2. creation = "creating"
      BY <2>1 DEF CInv, CreatingWhileMaking, Making
    <2>3. UNCHANGED <<told, creation, rows, games, challenges, job, failures>>
      BY <1>4 DEF ProbeAnswer, BulkRefused, onLichess
    <2>4. QED
      BY <2>1, <2>2, <2>3, QuietRunKeeps, SameRowsQuiet
  <1>5. CASE ListChallenges
    <2>1. /\ run'.pc = "challenge" /\ run.pc = "list"
          /\ run'.todo = {p \in Left : Challengeable(p)}
      BY <1>0, <1>5 DEF ListChallenges, Run
    <2>2. creation = "creating"
      BY <2>1 DEF CInv, CreatingWhileMaking, Making
    <2>3. \A p \in run'.todo : NoGameYet(p)
      BY <2>1 DEF Left, ToCreate, Unmatched, NoGameYet
    <2>4. QED
      BY <1>5, <2>1, <2>2, <2>3, QuietRunKeeps, SameRowsQuiet
      DEF ListChallenges, onLichess
  <1>6. CASE ChallengesDone
    <2>1. run'.pc = "finish" /\ run.pc = "challenge"
      BY <1>0, <1>6 DEF ChallengesDone, Run
    <2>2. creation = "creating"
      BY <2>1 DEF CInv, CreatingWhileMaking, Making
    <2>3. QED
      BY <1>6, <2>1, <2>2, QuietRunKeeps, SameRowsQuiet DEF ChallengesDone, onLichess
  <1>7. CASE JobCompleted
    <2>1. run'.pc = "idle" /\ run.pc = "done" /\ "idle" \notin Making
      BY <1>7 DEF JobCompleted, IdleRun, Making
    <2>2. job'.retry = job.retry
      BY <1>0, <1>7 DEF JobCompleted
    <2>3. QED
      BY <1>7, <2>1, <2>2, QuietRunKeeps, SameRowsQuiet DEF JobCompleted, onLichess
  <1>8. QED BY <1>1, <1>2, <1>3, <1>4, <1>5, <1>6, <1>7

LEMMA LoadKeeps ==
  ASSUME CInv, Core', RowsChange, Load
  PROVE  CInv'
  <1>0. run \in Run
    BY DEF CInv, Typed, TypeOK
  <1>1. CASE creation # "creating"
    <2>1. run'.pc = "done" /\ run.pc = "load" /\ "done" \notin Making
      BY <1>0, <1>1 DEF Load, Run, Making
    <2>2. QED
      BY <1>1, <2>1, QuietRunKeeps, SameRowsQuiet DEF Load, onLichess
  <1>2. CASE creation = "creating" /\ run.setting = "manual"
    <2>1. run'.pc = "done" /\ run.pc = "load" /\ "done" \notin Making
      BY <1>0, <1>2 DEF Load, Run, Making
    <2>2. UNCHANGED <<rows, games, challenges, job, failures>> /\ GiveUp
      BY <1>2 DEF Load, onLichess
    <2>3. BulkOnce' /\ Untold' /\ ToldOfGame' /\ LeftAreTold'
      BY <2>2, FinishKeeps DEF GiveUp
    <2>4. failures' >= failures
      BY <2>2 DEF CInv, Typed, TypeOK
    <2>5. /\ GamesTheirs' /\ CreatingWhileMaking' /\ ChallengesWanted' /\ AdoptSeesAll'
          /\ NoBulkYet' /\ OrphansCounted'
      BY <2>1, <2>2, <2>4, EndedRun
    <2>6. QED BY <2>3, <2>5 DEF CInv, Core
  <1>3. CASE creation = "creating" /\ run.setting # "manual"
    <2>1. /\ run'.pc \in {"finish", "adopt"} /\ run.pc = "load" /\ run'.todo = Left
      BY <1>0, <1>3 DEF Load, Run
    <2>2. UNCHANGED <<creation, told, rows, games, challenges, job, failures>>
      BY <1>3 DEF Load, onLichess
    <2>3. QED
      BY <1>3, <2>1, <2>2, QuietRunKeeps, SameRowsQuiet
  <1>4. QED BY <1>1, <1>2, <1>3

LEMMA FinishStepKeeps ==
  ASSUME CInv, Core', RowsChange, Finish
  PROVE  CInv'
  <1>0. run \in Run
    BY DEF CInv, Typed, TypeOK
  <1>1. run'.pc = "done" /\ run.pc = "finish" /\ "done" \notin Making
    BY <1>0 DEF Finish, Run, Making
  <1>2. UNCHANGED <<rows, games, challenges, job, failures>> /\ FinishGameCreation("created")
    BY DEF Finish, onLichess
  <1>3. BulkOnce' /\ Untold' /\ ToldOfGame' /\ LeftAreTold'
    BY <1>2, FinishKeeps
  <1>4. failures' >= failures
    BY <1>2 DEF CInv, Typed, TypeOK
  <1>5. /\ GamesTheirs' /\ CreatingWhileMaking' /\ ChallengesWanted' /\ AdoptSeesAll'
        /\ NoBulkYet' /\ OrphansCounted'
    BY <1>1, <1>2, <1>4, EndedRun
  <1>6. QED BY <1>3, <1>5 DEF CInv, Core

(* Recording a bulk's games: each row takes one, with the notice that fits. *)
LEMMA RecordKeeps ==
  ASSUME CInv, RowsChange, NEW made \in SUBSET Game, NEW todo, Record(made, todo),
         creation = "creating", creation' = creation, job' = job, games' = games
  PROVE  BulkOnce' /\ Untold' /\ ToldOfGame' /\ LeftAreTold'
  <1>1. \A p \in Pairing :
          \/ rows'[p] = rows[p] /\ told'[p] = told[p]
          \/ /\ Recordable(rows[p])
             /\ \E g \in Game : rows'[p] = RecordCreatedGame(rows[p], g)
             /\ told'[p] = TellMade(told[p], "bulk", job.retry)
    <2>1. TypeOK
      BY DEF CInv, Typed
    <2>2. ASSUME NEW p \in Pairing
          PROVE  \/ rows'[p] = rows[p] /\ told'[p] = told[p]
                 \/ /\ Recordable(rows[p])
                    /\ \E g \in made : rows'[p] = RecordCreatedGame(rows[p], g)
                    /\ told'[p] = TellMade(told[p], "bulk", job.retry)
      BY <2>1, RecordRow
    <2>3. QED BY <2>2
  <1>2. ASSUME NEW p \in Pairing
        PROVE  /\ Recordable(rows'[p]) => rows'[p] = rows[p] /\ told'[p] = told[p]
               /\ rows'[p].method # "manual_external" =>
                     rows'[p].method = IF told'[p].created = "none"
                                       THEN told'[p].paired ELSE told'[p].created
    <2>1. CASE rows'[p] = rows[p] /\ told'[p] = told[p]
      BY <2>1 DEF CInv, ToldOfGame, LastWord
    <2>2. CASE /\ Recordable(rows[p])
               /\ \E g \in Game : rows'[p] = RecordCreatedGame(rows[p], g)
               /\ told'[p] = TellMade(told[p], "bulk", job.retry)
      <3>1. /\ rows'[p].method = "bulk" /\ rows'[p].status = "created"
        BY <2>2 DEF RecordCreatedGame, RowOf, CInv, Typed, TypeOK
      <3>2. /\ told[p] \in Told /\ told[p].created = "none"
            /\ ~job.retry => told[p].paired = "none"
        BY <2>2 DEF CInv, Untold, Typed, TypeOK
      <3>3. \/ told'[p].created = "bulk"
            \/ told'[p].created = "none" /\ told'[p].paired = "bulk"
        BY <2>2, <3>2 DEF TellMade, InsertNotification, Told
      <3>4. QED BY <3>1, <3>3 DEF Recordable
    <2>3. QED BY <1>1, <2>1, <2>2
  <1>3. Untold'
    BY <1>2 DEF CInv, Untold
  <1>4. ToldOfGame'
    BY <1>2 DEF ToldOfGame, LastWord
  <1>5. QED BY <1>3, <1>4 DEF CInv, BulkOnce, LeftAreTold

LEMMA AdoptKeeps ==
  ASSUME CInv, Core', RowsChange, Adopt
  PROVE  CInv'
  <1> DEFINE made == OrganiserBulks \ AttachedGames
  <1>0. run \in Run
    BY DEF CInv, Typed, TypeOK
  <1>1. /\ run'.pc \in {"finish", "probe"} /\ run.pc = "adopt"
        /\ run'.todo = Left'
    BY <1>0 DEF Adopt, Run, Left
  <1>2. creation = "creating" /\ creation' = creation
    BY <1>1 DEF CInv, CreatingWhileMaking, Making, Adopt
  <1>3. UNCHANGED <<games, challenges, job, failures>> /\ Record(made, run.todo)
    BY DEF Adopt, onLichess
  <1>4. made \in SUBSET Game
    BY SetsTyped DEF CInv, Typed
  <1>5. BulkOnce' /\ Untold' /\ ToldOfGame' /\ LeftAreTold'
    BY <1>2, <1>3, <1>4, RecordKeeps
  <1>6. GamesTheirs' /\ Left' \subseteq Left /\ Unknown' \subseteq Unknown
    BY <1>3, RowsKeep
  <1>7. ASSUME NEW p \in Left', NEW g \in games, g.by = "bulk", g.pairing = p
        PROVE  FALSE
    <2>1. p \in Pairing /\ p \in Left /\ p \in run.todo
      BY <1>1, <1>6 DEF CInv, AdoptSeesAll, Left
    <2>2. (Recordable(rows[p]) /\ ~Recordable(rows'[p])) \/ g \notin made
      <3>1. Recordable(rows[p])
        BY <2>1 DEF Left, ToCreate, Unmatched, Recordable
      <3>2. \/ ~(p \in run.todo /\ Recordable(rows[p]) /\ \E h \in made : h.pairing = p)
            \/ \E h \in made : rows'[p] = RecordCreatedGame(rows[p], h)
        <4>1. TypeOK
          BY DEF CInv, Typed
        <4> HIDE DEF made
        <4>2. QED BY <1>3, <1>4, <2>1, <4>1, RecordRow
      <3>3. CASE g \in made
        <4>1. PICK h \in made : rows'[p] = RecordCreatedGame(rows[p], h)
          BY <1>7, <2>1, <3>1, <3>2, <3>3
        <4>2. rows'[p].status = "created"
          BY <2>1, <3>1, <4>1 DEF RecordCreatedGame, RowOf, CInv, Typed, TypeOK
        <4>3. QED BY <3>1, <4>2 DEF Recordable
      <3>4. QED BY <3>3
    <2>3. Recordable(rows'[p])
      BY DEF Left, ToCreate, Unmatched, Recordable
    <2>4. g \in AttachedGames
      BY <1>7, <2>2, <2>3 DEF OrganiserBulks
    <2>5. PICK q \in Pairing : rows[q].game = g /\ g # NoGame
      BY <2>4 DEF AttachedGames
    <2>6. q = p
      BY <1>7, <2>5 DEF CInv, GamesTheirs
    <2>7. QED BY <2>1, <2>5, <2>6 DEF Left, ToCreate, Unmatched
  <1>8. CreatingWhileMaking' /\ AdoptSeesAll'
    BY <1>1, <1>2 DEF CreatingWhileMaking, AdoptSeesAll
  <1>9. ChallengesWanted'
    BY <1>1, <1>3 DEF CInv, ChallengesWanted
  <1>10. NoBulkYet'
    BY <1>1, <1>3, <1>7 DEF NoBulkYet
  <1>11. failures' >= failures /\ InHand' = {} /\ InHand = {}
    BY <1>1, <1>3 DEF CInv, Typed, TypeOK, InHand
  <1>12. OrphansCounted'
    BY <1>6, <1>11, OrphansKept
  <1>13. QED
    BY <1>5, <1>6, <1>8, <1>9, <1>10, <1>12 DEF CInv, Core

LEMMA BulkAcceptedKeeps ==
  ASSUME CInv, Core', RowsChange, BulkAccepted
  PROVE  CInv'
  <1>0. run \in Run
    BY DEF CInv, Typed, TypeOK
  <1>1. run'.pc = "record" /\ run.pc = "bulk"
    BY <1>0 DEF BulkAccepted, Run
  <1>2. UNCHANGED <<creation, rows, told, job, challenges, failures>>
    BY DEF BulkAccepted
  <1>3. BulkOnce'
    BY <1>1, BulkMadeOnce DEF BulkAccepted
  <1>4. Untold' /\ ToldOfGame' /\ LeftAreTold'
    BY <1>2 DEF CInv, Untold, ToldOfGame, LastWord, LeftAreTold, Left
  <1>5. GamesTheirs' /\ Unknown' \subseteq Unknown
    BY <1>2, RowsKeep
  <1>6. CreatingWhileMaking' /\ AdoptSeesAll' /\ NoBulkYet' /\ ChallengesWanted'
    BY <1>1, <1>2
    DEF CInv, CreatingWhileMaking, Making, AdoptSeesAll, NoBulkYet, ChallengesWanted
  <1>7. failures' >= failures /\ InHand' = {} /\ InHand = {}
    BY <1>1, <1>2 DEF CInv, Typed, TypeOK, InHand
  <1>8. OrphansCounted'
    BY <1>5, <1>7, OrphansKept
  <1>9. QED BY <1>3, <1>4, <1>5, <1>6, <1>8 DEF CInv, Core

LEMMA RecordBulkKeeps ==
  ASSUME CInv, Core', RowsChange, RecordBulk
  PROVE  CInv'
  <1>0. run \in Run
    BY DEF CInv, Typed, TypeOK
  <1>1. run'.pc = "list" /\ run.pc = "record"
    BY <1>0 DEF RecordBulk, Run
  <1>2. creation = "creating" /\ creation' = creation
    BY <1>1 DEF CInv, CreatingWhileMaking, Making, RecordBulk
  <1>3. UNCHANGED <<games, challenges, job, failures>> /\ Record(run.made, run.todo)
    BY DEF RecordBulk, onLichess
  <1>4. BulkOnce' /\ Untold' /\ ToldOfGame' /\ LeftAreTold'
    BY <1>2, <1>3, SetsTyped, RecordKeeps DEF CInv, Typed
  <1>5. GamesTheirs' /\ Unknown' \subseteq Unknown
    BY <1>3, RowsKeep
  <1>6. CreatingWhileMaking' /\ AdoptSeesAll' /\ NoBulkYet' /\ ChallengesWanted'
    BY <1>1, <1>2, <1>3
    DEF CInv, CreatingWhileMaking, AdoptSeesAll, NoBulkYet, ChallengesWanted
  <1>7. failures' >= failures /\ InHand' = {} /\ InHand = {}
    BY <1>1, <1>3 DEF CInv, Typed, TypeOK, InHand
  <1>8. OrphansCounted'
    BY <1>5, <1>7, OrphansKept
  <1>9. QED BY <1>4, <1>5, <1>6, <1>8 DEF CInv, Core

LEMMA SendChallengeKeeps ==
  ASSUME CInv, Core', RowsChange, SendChallenge
  PROVE  CInv'
  <1>0. run \in Run /\ failures \in Nat
    BY DEF CInv, Typed, TypeOK
  <1>1. PICK p \in run.todo :
          \/ /\ challenges' = challenges \cup {Challenge(p)}
             /\ run' = [run EXCEPT !.pc = "sent", !.todo = @ \ {p}, !.made = {Challenge(p)}]
             /\ UNCHANGED failures
          \/ /\ run' = [run EXCEPT !.todo = @ \ {p}]
             /\ \/ UNCHANGED <<challenges, failures>>
                \/ challenges' = challenges \cup {Challenge(p)} /\ failures' = failures + 1
    BY DEF SendChallenge
  <1>2. /\ run.pc = "challenge"
        /\ UNCHANGED <<creation, rows, told, job, games>>
    BY DEF SendChallenge
  <1>3. p \in Pairing /\ Challenge(p).by = "challenge" /\ Challenge(p).pairing = p
    BY SetsTyped, ChallengeTyped DEF CInv, Typed
  <1>4. creation = "creating"
    BY <1>2 DEF CInv, CreatingWhileMaking, Making
  <1>5. run'.todo = run.todo \ {p}
    BY <1>0, <1>1 DEF Run
  <1>6. run'.pc \in {"challenge", "sent"}
    BY <1>0, <1>1, <1>2 DEF Run
  <1>7. CASE UNCHANGED <<challenges, failures>> /\ run'.pc # "sent"
    <2>1. \A q \in run'.todo : NoGameYet(q)
      BY <1>2, <1>5 DEF CInv, ChallengesWanted
    <2>2. QED
      BY <1>2, <1>4, <1>5, <1>6, <1>7, <2>1, QuietRunKeeps, SameRowsQuiet
  <1>8. CASE /\ challenges' = challenges \cup {Challenge(p)}
             /\ \/ run'.pc = "sent" /\ run'.made = {Challenge(p)} /\ failures' = failures
                \/ run'.pc = "challenge" /\ failures' = failures + 1
    <2>1. BulkOnce' /\ Untold' /\ ToldOfGame' /\ LeftAreTold'
      BY <1>2, QuietKeeps
    <2>2. GamesTheirs' /\ \A g \in Unknown' : g \in challenges => g \in Unknown
      BY RowsKeep
    <2>3. CreatingWhileMaking' /\ AdoptSeesAll' /\ NoBulkYet'
      BY <1>2, <1>4, <1>6 DEF CreatingWhileMaking, AdoptSeesAll, NoBulkYet
    <2>4. NoGameYet(p) /\ \A q \in run.todo : NoGameYet(q)' <=> NoGameYet(q)
      BY <1>2 DEF CInv, ChallengesWanted, NoGameYet
    <2>5. ChallengesWanted'
      <3>1. \A g \in challenges' : g.by = "challenge"
        BY <1>3, <1>8 DEF CInv, ChallengesWanted
      <3>2. \A q \in run'.todo : NoGameYet(q)'
        BY <1>2, <1>5, <2>4 DEF CInv, ChallengesWanted
      <3>3. PICK c : c = Challenge(p)
        OBVIOUS
      <3>4. c \in challenges' /\ c.pairing = p /\ p \notin run'.todo
        BY <1>3, <1>5, <1>8, <3>3
      <3>5. NoGameYet(p)'
        BY <2>4
      <3>6. run'.pc = "sent" =>
              \E g \in challenges' : /\ run'.made = {g}
                                     /\ NoGameYet(g.pairing)'
                                     /\ g.pairing \notin run'.todo
        BY <1>8, <3>3, <3>4, <3>5
      <3>7. QED BY <3>1, <3>2, <3>6 DEF ChallengesWanted
    <2>6. InHand = {}
      BY <1>2 DEF InHand
    <2>7. Unknown' \subseteq Unknown \cup {Challenge(p)}
      <3>1. Unknown' \subseteq challenges'
        BY DEF Unknown
      <3>2. QED BY <1>8, <2>2, <3>1
    <2>8. CASE run'.pc = "sent" /\ run'.made = {Challenge(p)} /\ failures' = failures
      <3>1. InHand' = {Challenge(p)}
        BY <2>8 DEF InHand
      <3>2. Unknown' \ InHand' \subseteq Unknown \ InHand
        BY <2>6, <2>7, <3>1
      <3>3. OrphansCounted'
        BY <1>0, <2>8, <3>2, OrphansKept
      <3>4. QED BY <2>1, <2>2, <2>3, <2>5, <3>3 DEF CInv, Core
    <2>9. CASE run'.pc = "challenge" /\ failures' = failures + 1
      <3>1. Unknown' \ InHand' \subseteq (Unknown \ InHand) \cup {Challenge(p)}
        BY <2>6, <2>7
      <3>2. OrphansCounted'
        BY <1>0, <2>9, <3>1, OrphansKept
      <3>3. QED BY <2>1, <2>2, <2>3, <2>5, <3>2 DEF CInv, Core
    <2>10. QED BY <1>8, <2>8, <2>9
  <1>9. QED
    BY <1>0, <1>1, <1>2, <1>7, <1>8 DEF Run

LEMMA RecordSentKeeps ==
  ASSUME CInv, Core', RowsChange, RecordSent
  PROVE  CInv'
  <1>0. run \in Run /\ failures \in Nat /\ TypeOK
    BY DEF CInv, Typed, TypeOK
  <1>1. run.pc = "sent" /\ run'.pc = "challenge" /\ run'.todo = run.todo
    BY <1>0 DEF RecordSent, Run
  <1>2. PICK g \in challenges : run.made = {g} /\ NoGameYet(g.pairing) /\ g.pairing \notin run.todo
    BY <1>1 DEF CInv, ChallengesWanted
  <1> DEFINE p == g.pairing
  <1>3. g \in Game /\ p \in Pairing /\ g # NoGame
    BY <1>0, <1>2, CreationAssumption DEF TypeOK, Game
  <1>4. /\ rows' = [rows EXCEPT ![p] = RecordChallenge(@, g)]
        /\ told' = [told EXCEPT ![p] = IF Recordable(rows[p])
                                       THEN TellMade(@, "challenge", job.retry) ELSE @]
    BY <1>2 DEF RecordSent
  <1>5. UNCHANGED <<creation, job, games, challenges, failures>>
    BY DEF RecordSent, onLichess
  <1>6. creation = "creating"
    BY <1>1 DEF CInv, CreatingWhileMaking, Making
  <1>7. rows[p] \in RowOf(Game) /\ told[p] \in Told
    BY <1>0, <1>3 DEF TypeOK
  <1>8. \A q \in Pairing \ {p} : rows'[q] = rows[q] /\ told'[q] = told[q]
    BY <1>0, <1>4 DEF TypeOK
  <1>9. /\ ~Recordable(rows[p]) => rows'[p] = rows[p] /\ told'[p] = told[p]
        /\ Recordable(rows[p]) =>
              /\ rows'[p].method = "challenge" /\ rows'[p].game = g
              /\ told'[p] = TellMade(told[p], "challenge", job.retry)
    BY <1>0, <1>3, <1>4, <1>7 DEF RecordChallenge, RowOf, TypeOK
  <1>10. Recordable(rows[p]) =>
           \/ told'[p].created = "challenge"
           \/ told'[p].created = "none" /\ told'[p].paired = "challenge"
    <2>1. SUFFICES ASSUME Recordable(rows[p])
                   PROVE  \/ told'[p].created = "challenge"
                          \/ told'[p].created = "none" /\ told'[p].paired = "challenge"
      OBVIOUS
    <2>2. told[p].created = "none" /\ (~job.retry => told[p].paired = "none")
      BY <1>3, <1>6, <2>1 DEF CInv, Untold
    <2>3. QED BY <1>7, <1>9, <2>1, <2>2 DEF TellMade, InsertNotification, Told
  <1>11. ~Recordable(rows'[p])
    BY <1>3, <1>9 DEF Recordable
  <1>12. Untold'
    BY <1>5, <1>8, <1>11 DEF CInv, Untold
  <1>13. ToldOfGame'
    <2>1. ASSUME NEW q \in Pairing, rows'[q].method # "manual_external"
          PROVE  rows'[q].method = IF told'[q].created = "none"
                                   THEN told'[q].paired ELSE told'[q].created
      <3>1. CASE q # p \/ ~Recordable(rows[p])
        <4>1. rows'[q] = rows[q] /\ told'[q] = told[q]
          BY <1>8, <1>9, <3>1
        <4>2. QED BY <2>1, <4>1 DEF CInv, ToldOfGame, LastWord
      <3>2. CASE q = p /\ Recordable(rows[p])
        BY <1>9, <1>10, <3>2
      <3>3. QED BY <3>1, <3>2
    <2>2. QED BY <2>1 DEF ToldOfGame, LastWord
  <1>14. BulkOnce' /\ LeftAreTold'
    BY <1>5, <1>6 DEF CInv, BulkOnce, LeftAreTold
  <1>15. GamesTheirs' /\ Unknown' \subseteq Unknown
    BY <1>5, RowsKeep
  <1>16. CreatingWhileMaking' /\ AdoptSeesAll' /\ NoBulkYet'
    BY <1>1, <1>5, <1>6 DEF CreatingWhileMaking, AdoptSeesAll, NoBulkYet
  <1>17. ChallengesWanted'
    <2>1. \A q \in run.todo : NoGameYet(q)'
      <3>1. run.todo \subseteq Pairing \ {p}
        BY <1>0, <1>2 DEF Run
      <3>2. \A q \in run.todo : NoGameYet(q)
        BY <1>1 DEF CInv, ChallengesWanted
      <3>3. QED BY <1>8, <3>1, <3>2 DEF NoGameYet
    <2>2. QED BY <1>1, <1>5, <2>1 DEF CInv, ChallengesWanted
  <1>18. g \notin Unknown'
    <2>1. CASE Recordable(rows[p])
      BY <1>3, <1>9, <2>1 DEF Unknown, AttachedGames
    <2>2. CASE ~Recordable(rows[p])
      BY <1>2, <1>9, <2>2 DEF Unknown, NoGameYet, Recordable
    <2>3. QED BY <2>1, <2>2
  <1>19. InHand = {g} /\ InHand' = {}
    BY <1>1, <1>2 DEF InHand
  <1>20. Unknown' \ InHand' \subseteq Unknown \ InHand
    BY <1>15, <1>18, <1>19
  <1>21. OrphansCounted'
    BY <1>0, <1>5, <1>20, OrphansKept
  <1>22. QED
    BY <1>12, <1>13, <1>14, <1>15, <1>16, <1>17, <1>21 DEF CInv, Core

LEMMA RunStepKeeps ==
  ASSUME CInv, RunStep
  PROVE  CInv'
  <1>1. Core' /\ RowsChange
    BY RunStepTyped DEF CInv, Core
  <1>2. QED
    BY <1>1, QuietStepKeeps, LoadKeeps, FinishStepKeeps, AdoptKeeps, BulkAcceptedKeeps,
       RecordBulkKeeps, SendChallengeKeeps, RecordSentKeeps DEF RunStep

-----------------------------------------------------------------------------
LEMMA InitOK == ASSUME Init PROVE CInv
  <1> USE DEF Init
  <1>1. FreshRow \in RowOf(Game)
    BY DEF FreshRow, RowOf, Method, Status
  <1>2. IdleRun \in Run /\ IdleRun.pc = "idle"
    BY DEF IdleRun, Run
  <1>3. 0 \in 0..MaxAttempts /\ 0 < MaxAttempts /\ 0 \in 0..MaxRetries
    BY CreationAssumption
  <1>4. TypeOK
    <2>1. job \in [state : {"none", "waiting", "running"}, attempt : 0..MaxAttempts,
                   retry : BOOLEAN]
      BY <1>3
    <2>2. told \in [Pairing -> Told]
      BY DEF Told
    <2>3. QED BY <1>1, <1>2, <1>3, <2>1, <2>2, CreationAssumption DEF TypeOK
  <1>5. Typed
    BY <1>4, FS_EmptySet DEF Typed
  <1>6. OrphansCounted
    <2>1. Unknown \ InHand = {}
      BY DEF Unknown
    <2>2. QED BY <2>1, FS_EmptySet DEF OrphansCounted
  <1>7. RunIsJobs /\ CreatingWhileMaking /\ AdoptSeesAll /\ NoBulkYet /\ ChallengesWanted
    BY <1>2, <1>3
    DEF RunIsJobs, CreatingWhileMaking, Making, AdoptSeesAll, NoBulkYet, ChallengesWanted
  <1>8. GamesTheirs /\ Untold /\ ToldOfGame
    BY DEF GamesTheirs, Untold, ToldOfGame, LastWord, FreshRow
  <1>9. BulkOnce /\ LeftAreTold
    BY DEF BulkOnce, LeftAreTold
  <1>10. QED BY <1>5, <1>6, <1>7, <1>8, <1>9 DEF CInv

LEMMA NextKeeps == ASSUME CInv, [Next]_vars PROVE CInv'
  BY RunStepKeeps, BadEndKeeps, OutsideKeeps DEF Next

(* The invariant of create-games, its retries, and everyone who overtakes it. *)
THEOREM CreationInvariant == Spec => []CInv
  <1>1. Init => CInv
    BY InitOK
  <1>2. CInv /\ [Next]_vars => CInv'
    BY NextKeeps
  <1>3. QED BY <1>1, <1>2, PTL DEF Spec

(* Every reachable state of a round's creation is well typed. *)
THEOREM TypeCorrect == Spec => []TypeOK
  <1>1. CInv => TypeOK
    BY DEF CInv, Typed
  <1>2. QED BY <1>1, CreationInvariant, PTL

(* However often the run is cut short, its answers lost and the job retried, *)
(* Lichess holds at most one bulk game of the league for a pairing.          *)
THEOREM NeverTwoBulkGames == Spec => []BulkOnce
  <1>1. CInv => BulkOnce
    BY DEF CInv
  <1>2. QED BY <1>1, CreationInvariant, PTL

(* When a creation is over nobody is left waiting in silence: the players *)
(* of a pairing without a game have been told to start it by hand.        *)
THEOREM LeftPlayersAreTold == Spec => []LeftAreTold
  <1>1. CInv => LeftAreTold
    BY DEF CInv
  <1>2. QED BY <1>1, CreationInvariant, PTL

(* Whoever has a recorded game or challenge was last told of just that. *)
THEOREM NoticesMatchGames == Spec => []ToldOfGame
  <1>1. CInv => ToldOfGame
    BY DEF CInv
  <1>2. QED BY <1>1, CreationInvariant, PTL

(* Challenges no pairing knows of are at most as many as the attempts cut *)
(* short and the answers lost, with the one being sent.                   *)
THEOREM OrphansExplained == Spec => []ChallengesExplained
  <1>1. CInv => ChallengesExplained
    <2> SUFFICES ASSUME CInv PROVE ChallengesExplained
      OBVIOUS
    <2>1. IsFiniteSet(challenges)
      BY DEF CInv, Typed
    <2>2. IsFiniteSet(Unknown) /\ IsFiniteSet(Unknown \ InHand)
      BY <2>1, FS_Subset DEF Unknown
    <2>3. Cardinality(Unknown) \in Nat /\ Cardinality(Unknown \ InHand) \in Nat
      BY <2>2, FS_CardinalityType
    <2>4. failures \in Nat /\ Cardinality(Unknown \ InHand) <= failures
      BY DEF CInv, Typed, TypeOK, OrphansCounted
    <2>5. CASE run.pc # "sent"
      <3>1. Unknown \ InHand = Unknown
        BY <2>5 DEF InHand
      <3>2. Cardinality(Unknown) <= failures + 0
        BY <2>3, <2>4, <3>1
      <3>3. QED BY <2>5, <3>2 DEF ChallengesExplained, Unknown
    <2>6. CASE run.pc = "sent"
      <3>1. PICK g : InHand = {g}
        BY <2>6 DEF CInv, ChallengesWanted, InHand
      <3>2. Cardinality(Unknown \ {g}) =
              IF g \in Unknown THEN Cardinality(Unknown) - 1 ELSE Cardinality(Unknown)
        BY <2>2, FS_RemoveElement
      <3>3. Cardinality(Unknown) <= failures + 1
        BY <2>3, <2>4, <3>1, <3>2
      <3>4. QED BY <2>6, <3>3 DEF ChallengesExplained, Unknown
    <2>7. QED BY <2>5, <2>6
  <1>2. QED BY <1>1, CreationInvariant, PTL

(* A game or a challenge is recorded only for a pairing still pending and *)
(* without a game, whoever overtook the run since it listed the pairing.  *)
THEOREM OnlyWaitingRecorded == Spec => RecordsOnlyWaiting
  <1>1. CInv /\ [Next]_vars => [RecordedStep]_vars
    <2> SUFFICES ASSUME CInv, [Next]_vars PROVE RecordedStep
      OBVIOUS
    <2>2. RowsChange
      BY CoreStep
    <2>3. \A p \in Pairing :
             rows'[p].method # rows[p].method => Recordable(rows[p])
      BY <2>2, RowChangeKeeps DEF CInv, RowsChange
    <2>4. QED BY <2>3 DEF RecordedStep, Recordable
  <1>2. QED BY <1>1, CreationInvariant, PTL DEF Spec, RecordsOnlyWaiting

(* A token Lichess takes is never marked revoked, whenever its player signed *)
(* in during the run that tests or submits it.                               *)
THEOREM TokensThatWorkStay == Spec => WorkingTokensKept
  <1>1. CInv /\ [Next]_vars => [RevokedStep]_vars
    <2>1. SUFFICES ASSUME CInv, [Next]_vars, NEW u \in Player, token[u] = "good"
                   PROVE  token'[u] # "revoked"
      BY DEF RevokedStep
    <2>2. CASE ProbeAnswer \/ BulkRefused
      <3>1. PICK refused \in SUBSET MayRefuse : Revoke(refused)
        BY <2>2 DEF ProbeAnswer, BulkRefused
      <3>2. u \in refused => u \in run.renewed
        BY <2>1, <3>1 DEF MayRefuse
      <3>3. token'[u] = token[u]
        BY <3>1, <3>2 DEF Revoke
      <3>4. QED BY <2>1, <3>3
    <2>3. CASE \E v \in Fickle : TokenDies(v) \/ SignIn(v)
      BY <2>1, <2>3 DEF CInv, Typed, TypeOK, TokenDies, SignIn
    <2>4. CASE token' = token
      BY <2>1, <2>4
    <2>5. QED
      BY <2>1, <2>2, <2>3, <2>4
      DEF Next, RunStep, BadEnd, OtherStep, vars, StartRun, SearchByHand, Load, Adopt,
          ProbeRead, BulkAccepted, RecordBulk, ListChallenges, SendChallenge, RecordSent,
          ChallengesDone, Finish, JobCompleted, BulkAnswerLost, Interrupted,
          LastAttemptFails, LastAttemptLost, RetryGameCreation, SwitchSetting, MarkFailed,
          SyncList, SyncMatch, SyncRecheck, StartByHand, AcceptChallenge
  <1>2. QED BY <1>1, CreationInvariant, PTL DEF Spec, WorkingTokensKept

-----------------------------------------------------------------------------
(* What PairingLife promises.  The simulation rests on three facts more: the *)
(* players of a pairing the league gave nothing were told of nothing, what a *)
(* run is about to record exists on Lichess, and a pending pairing has no    *)
(* game but its challenge.                                                   *)
ToldOfNothing ==
    \A p \in Pairing :
        rows[p].method = "manual_external" => LastWord(told[p]) \in {"none", "by_hand"}

RecordsMade == run.pc = "record" => run.made \subseteq OrganiserBulks

PendingIsChallenge ==
    \A p \in Pairing :
        rows[p].status = "pending" /\ rows[p].game # NoGame => rows[p].method = "challenge"

LifeInv == CInv /\ ToldOfNothing /\ RecordsMade /\ PendingIsChallenge

LEMMA MethodStays ==
  ASSUME TypeOK, NEW p \in Pairing, RowChange(p), rows'[p].method = "manual_external"
  PROVE  rows[p].method = "manual_external"
  <1>1. rows[p] \in RowOf(Game)
    BY DEF TypeOK
  <1>2. QED
    BY <1>1 DEF RowChange, RowOf, RecordCreatedGame, RecordChallenge, Recordable,
       AttachGameToPairing, MarkPairingAmbiguous, MarkPublishedPairingFailed

(* The end of a creation tells those left to play by hand, and nobody else. *)
LEMMA ByHandWord ==
  ASSUME CInv, ToldOfNothing, NEW p \in Pairing
  PROVE  LastWord(NotifyByHand[p]) = IF p \in Left THEN "by_hand" ELSE LastWord(told[p])
  <1>1. CASE p \in Left
    <2>1. Recordable(rows[p]) /\ rows[p].method = "manual_external"
      BY <1>1 DEF Left, ToCreate, Unmatched, Recordable
    <2>2. told[p] \in Told /\ told[p].created = "none"
      BY <2>1 DEF CInv, Typed, TypeOK, Untold
    <2>3. told[p].paired \in {"none", "by_hand"}
      BY <2>1, <2>2 DEF ToldOfNothing, LastWord
    <2>4. NotifyByHand[p] = TellByHand(told[p])
      BY <1>1 DEF NotifyByHand
    <2>5. QED
      BY <1>1, <2>2, <2>3, <2>4 DEF TellByHand, InsertNotification, LastWord, Told
  <1>2. CASE p \notin Left
    BY <1>2 DEF NotifyByHand
  <1>3. QED BY <1>1, <1>2

(* The word with which a game or a challenge is recorded. *)
LEMMA MadeWord ==
  ASSUME CInv, creation = "creating", NEW p \in Pairing, Recordable(rows[p]),
         NEW how \in {"bulk", "challenge"}
  PROVE  LastWord(TellMade(told[p], how, job.retry)) = how
  <1>1. /\ told[p] \in Told /\ told[p].created = "none"
        /\ ~job.retry => told[p].paired = "none"
    BY DEF CInv, Typed, TypeOK, Untold
  <1>2. QED BY <1>1 DEF TellMade, InsertNotification, LastWord, Told

(* What is told in a step, and when. *)
Telling ==
    \/ told' = told
    \/ told' = NotifyByHand
    \/ \A p \in Pairing :
          told'[p] = told[p] \/ rows'[p].method # "manual_external"

LEMMA TellingStep == ASSUME CInv, [Next]_vars PROVE Telling
  <1> USE DEF Telling
  <1>0. TypeOK
    BY DEF CInv, Typed
  <1>1. CASE Load \/ Finish \/ LastAttemptFails
    BY <1>1 DEF Load, Finish, LastAttemptFails, GiveUp, FinishGameCreation
  <1>2. ASSUME NEW made \in SUBSET Game, NEW todo, Record(made, todo)
        PROVE  Telling
    <2>1. ASSUME NEW p \in Pairing
          PROVE  told'[p] = told[p] \/ rows'[p].method # "manual_external"
      <3>1. \/ told'[p] = told[p]
            \/ Recordable(rows[p]) /\ \E g \in made : rows'[p] = RecordCreatedGame(rows[p], g)
        BY <1>0, <1>2, RecordRow
      <3>2. rows[p] \in RowOf(Game)
        BY <1>0 DEF TypeOK
      <3>3. QED BY <3>1, <3>2 DEF RecordCreatedGame, RowOf
    <2>2. QED BY <2>1
  <1>3. CASE Adopt \/ RecordBulk
    BY <1>0, <1>2, <1>3, SetsTyped DEF Adopt, RecordBulk
  <1>4. CASE RecordSent
    <2>1. PICK g \in run.made :
            /\ rows' = [rows EXCEPT ![g.pairing] = RecordChallenge(@, g)]
            /\ told' = [told EXCEPT ![g.pairing] =
                  IF Recordable(rows[g.pairing])
                  THEN TellMade(@, "challenge", job.retry) ELSE @]
      BY <1>4 DEF RecordSent
    <2>2. g.pairing \in Pairing
      BY <1>0, SetsTyped DEF Game
    <2>3. rows[g.pairing] \in RowOf(Game)
      BY <1>0, <2>2 DEF TypeOK
    <2>4. ASSUME NEW p \in Pairing
          PROVE  told'[p] = told[p] \/ rows'[p].method # "manual_external"
      <3>1. CASE p # g.pairing \/ ~Recordable(rows[p])
        BY <1>0, <2>1, <3>1 DEF TypeOK
      <3>2. CASE p = g.pairing /\ Recordable(rows[p])
        BY <1>0, <2>1, <2>2, <2>3, <3>2 DEF TypeOK, RecordChallenge, RowOf
      <3>3. QED BY <3>1, <3>2
    <2>5. QED BY <2>4
  <1>5. CASE told' = told
    BY <1>5
  <1>6. QED
    BY <1>1, <1>3, <1>4, <1>5
    DEF Next, RunStep, BadEnd, OtherStep, vars, StartRun, SearchByHand,
        ProbeRead, ProbeAnswer, BulkAccepted, BulkRefused, ListChallenges, SendChallenge,
        ChallengesDone, JobCompleted, BulkAnswerLost, Interrupted,
        LastAttemptLost, RetryGameCreation, SwitchSetting, MarkFailed,
        SyncList, SyncMatch, SyncRecheck, StartByHand, AcceptChallenge, TokenDies, SignIn

LEMMA ToldOfNothingKept ==
  ASSUME LifeInv, [Next]_vars
  PROVE  ToldOfNothing'
  <1> USE DEF LifeInv
  <1>1. Telling /\ RowsChange
    BY TellingStep, CoreStep
  <1>2. ASSUME NEW p \in Pairing, rows'[p].method = "manual_external"
        PROVE  LastWord(told'[p]) \in {"none", "by_hand"}
    <2>1. rows[p].method = "manual_external"
      BY <1>1, <1>2, MethodStays DEF RowsChange, CInv, Typed
    <2>2. LastWord(told[p]) \in {"none", "by_hand"}
      BY <2>1 DEF ToldOfNothing
    <2>3. QED BY <1>1, <1>2, <2>2, ByHandWord DEF Telling
  <1>3. QED BY <1>2 DEF ToldOfNothing, LastWord

LEMMA PendingStep ==
  ASSUME LifeInv, RowsChange
  PROVE  PendingIsChallenge'
  <1>1. ASSUME NEW p \in Pairing, rows'[p].status = "pending", rows'[p].game # NoGame
        PROVE  rows'[p].method = "challenge"
    <2>1. /\ rows[p] \in RowOf(Game) /\ RowChange(p)
          /\ rows[p].status = "pending" /\ rows[p].game # NoGame =>
                rows[p].method = "challenge"
      BY DEF LifeInv, CInv, Typed, TypeOK, RowsChange, PendingIsChallenge
    <2>2. QED
      BY <1>1, <2>1 DEF RowChange, RowOf, RecordCreatedGame, RecordChallenge, Recordable,
         AttachGameToPairing, MarkPairingAmbiguous, MarkPublishedPairingFailed
  <1>2. QED BY <1>1 DEF PendingIsChallenge

(* Which steps leave a run searching, and which about to record. *)
LEMMA NextPc ==
  ASSUME run \in Run, RunStep
  PROVE  /\ run'.pc = "search" => StartRun \/ SearchByHand
         /\ run'.pc = "record" => BulkAccepted
  <1>1. CASE StartRun
    BY <1>1 DEF StartRun, IdleRun
  <1>2. CASE SearchByHand
    BY <1>2 DEF SearchByHand, Run
  <1>3. CASE Load \/ Adopt \/ ProbeRead \/ RecordBulk
    BY <1>3 DEF Load, Adopt, ProbeRead, RecordBulk, Run
  <1>4. CASE ProbeAnswer
    <2>1. run'.pc \in {"list", "bulk"}
      BY <1>4 DEF ProbeAnswer, Run
    <2>2. QED BY <2>1
  <1>5. CASE BulkRefused
    <2>1. run'.pc \in {"failed", "list", "bulk"}
      BY <1>5 DEF BulkRefused, Run
    <2>2. QED BY <2>1
  <1>6. CASE BulkAccepted
    BY <1>6 DEF BulkAccepted, Run
  <1>7. CASE ListChallenges \/ SendChallenge \/ RecordSent
    BY <1>7 DEF ListChallenges, SendChallenge, RecordSent, Run
  <1>8. CASE ChallengesDone \/ Finish \/ JobCompleted
    BY <1>8 DEF ChallengesDone, Finish, JobCompleted, IdleRun, Run
  <1>9. QED
    BY <1>1, <1>2, <1>3, <1>4, <1>5, <1>6, <1>7, <1>8 DEF RunStep

(* A search starts with a list of pairings that wait, and only goes on. *)
Going == SearchedFor' \subseteq SearchedFor

LEMMA SearchesGoOn ==
  ASSUME TypeOK, [Next]_vars, ~StartRun, ~SyncList
  PROVE  Going
  <1>0. run \in Run /\ run.todo \subseteq Pairing
    BY DEF TypeOK, Run
  <1>1. CASE SearchByHand
    <2>1. /\ run.pc = "search" /\ listed' = listed
          /\ run'.todo \subseteq run.todo
      BY <1>0, <1>1 DEF SearchByHand, Run
    <2>2. QED BY <2>1 DEF Going, SearchedFor
  <1>2. CASE RunStep /\ ~SearchByHand
    <2>1. run'.pc # "search"
      BY <1>0, <1>2, NextPc
    <2>2. listed' = listed
      BY <1>2 DEF RunStep, Load, Adopt, ProbeRead, ProbeAnswer, BulkAccepted, BulkRefused,
         RecordBulk, ListChallenges, SendChallenge, RecordSent, ChallengesDone, Finish,
         JobCompleted
    <2>3. QED BY <2>1, <2>2 DEF Going, SearchedFor
  <1>3. CASE BadEnd
    <2>1. run'.pc # "search" /\ listed' = listed
      BY <1>0, <1>3 DEF BadEnd, BulkAnswerLost, Interrupted, LastAttemptFails,
         LastAttemptLost, IdleRun, Run
    <2>2. QED BY <2>1 DEF Going, SearchedFor
  <1>4. CASE \E u \in Fickle : SignIn(u)
    <2>1. run'.pc = run.pc /\ run'.todo = run.todo /\ listed' = listed
      BY <1>0, <1>4 DEF SignIn, Run
    <2>2. QED BY <2>1 DEF Going, SearchedFor
  <1>5. CASE \E p \in Pairing : SyncMatch(p)
    <2>1. run' = run /\ listed' \subseteq listed
      BY <1>5 DEF SyncMatch
    <2>2. QED BY <2>1 DEF Going, SearchedFor
  <1>6. CASE UNCHANGED <<run, listed>>
    BY <1>6 DEF Going, SearchedFor
  <1>7. QED
    BY <1>1, <1>2, <1>3, <1>4, <1>5, <1>6
    DEF Next, OtherStep, vars, RetryGameCreation, SwitchSetting, MarkFailed, SyncRecheck,
        StartByHand, AcceptChallenge, TokenDies

LEMMA RecordsKept ==
  ASSUME LifeInv, [Next]_vars
  PROVE  RecordsMade'
  <1> USE DEF LifeInv
  <1>0. TypeOK /\ run \in Run /\ run.todo \in SUBSET Pairing
    BY DEF CInv, Typed, TypeOK, Run
  <1>1. CASE BulkAccepted
    <2>1. run'.made = BulkFor(run.todo) /\ games' = games \cup BulkFor(run.todo)
      BY <1>0, <1>1 DEF BulkAccepted, Run
    <2>2. \A g \in BulkFor(run.todo) : g.by = "bulk"
      BY <1>0, BulkForTyped DEF CInv
    <2>3. QED BY <2>1, <2>2 DEF RecordsMade, OrganiserBulks
  <1>2. CASE OtherStep \/ UNCHANGED vars
    <2>1. run'.pc = run.pc /\ run'.made = run.made
      BY <1>2, OutsideFacts
    <2>2. games \subseteq games'
      BY <1>2 DEF OtherStep, vars, RetryGameCreation, SwitchSetting, MarkFailed, SyncList,
         SyncMatch, SyncRecheck, StartByHand, AcceptChallenge, TokenDies, SignIn, onLichess
    <2>3. QED BY <2>1, <2>2 DEF RecordsMade, OrganiserBulks
  <1>3. CASE RunStep /\ ~BulkAccepted
    <2>1. run'.pc # "record"
      BY <1>0, <1>3, NextPc
    <2>2. QED BY <2>1 DEF RecordsMade
  <1>4. CASE BadEnd
    <2>1. run'.pc # "record"
      BY <1>0, <1>4 DEF BadEnd, BulkAnswerLost, Interrupted, LastAttemptFails,
         LastAttemptLost, IdleRun, Run
    <2>2. QED BY <2>1 DEF RecordsMade
  <1>5. QED BY <1>1, <1>2, <1>3, <1>4 DEF Next

LEMMA LifeInvariant == Spec => []LifeInv
  <1>1. Init => ToldOfNothing /\ RecordsMade /\ PendingIsChallenge
    BY DEF Init, ToldOfNothing, LastWord, RecordsMade, PendingIsChallenge, IdleRun, FreshRow
  <1>2. Init => LifeInv
    BY <1>1, InitOK DEF LifeInv
  <1>3. LifeInv /\ [Next]_vars => LifeInv'
    <2> SUFFICES ASSUME LifeInv, [Next]_vars PROVE LifeInv'
      OBVIOUS
    <2>1. CInv' /\ RowsChange
      BY NextKeeps, CoreStep DEF LifeInv
    <2>2. QED
      BY <2>1, ToldOfNothingKept, RecordsKept, PendingStep DEF LifeInv
  <1>4. QED BY <1>2, <1>3, PTL DEF Spec

-----------------------------------------------------------------------------
(* What a row and its notices show of a pairing. *)
LEMMA StageIs ==
  ASSUME NEW row \in RowOf(Game)
  PROVE  /\ StageOf(row) \in {"open", "unclear"} <=> Recordable(row)
         /\ StageOf(row) = "open" <=> Recordable(row) /\ ~row.ambiguous
         /\ row.status = "failed" => StageOf(row) = "failed"
         /\ row.status = "in_progress" => StageOf(row) = "playing"
         /\ row.status \in {"pending", "created"} /\ ~Recordable(row) =>
               StageOf(row) = "given"
  <1>1. row.status \in {"pending", "created", "in_progress", "completed", "failed"}
    BY DEF RowOf, Status
  <1>2. row.ambiguous \in BOOLEAN
    BY DEF RowOf
  <1>3. QED BY <1>1, <1>2 DEF StageOf, Recordable

(* The stages the statements bring a row to. *)
LEMMA StatementStages ==
  ASSUME NEW row \in RowOf(Game), NEW g \in Game
  PROVE  /\ Recordable(row) =>
               /\ StageOf(RecordCreatedGame(row, g)) = "given"
               /\ RecordCreatedGame(row, g).game = g
               /\ StageOf(RecordChallenge(row, g)) = "given"
               /\ RecordChallenge(row, g).game = g
         /\ StageOf(AttachGameToPairing(row, g, "in_progress")) = "playing"
         /\ AttachGameToPairing(row, g, "in_progress").game = g
         /\ StageOf(MarkPairingAmbiguous(row)) =
               IF Recordable(row) THEN "unclear" ELSE StageOf(row)
         /\ MarkPairingAmbiguous(row).game = row.game
         /\ row.status = "pending" => StageOf(MarkPublishedPairingFailed(row)) = "failed"
         /\ MarkPublishedPairingFailed(row).game = row.game
  <1>0. g # NoGame
    BY CreationAssumption
  <1>1. Recordable(row) =>
           /\ StageOf(RecordCreatedGame(row, g)) = "given"
           /\ RecordCreatedGame(row, g).game = g
    BY <1>0 DEF RecordCreatedGame, Recordable, RowOf, StageOf
  <1>2. Recordable(row) =>
           /\ StageOf(RecordChallenge(row, g)) = "given"
           /\ RecordChallenge(row, g).game = g
    BY <1>0 DEF RecordChallenge, Recordable, RowOf, StageOf
  <1>3. /\ StageOf(AttachGameToPairing(row, g, "in_progress")) = "playing"
        /\ AttachGameToPairing(row, g, "in_progress").game = g
    BY DEF AttachGameToPairing, Recordable, RowOf, StageOf
  <1>4. /\ StageOf(MarkPairingAmbiguous(row)) =
               IF Recordable(row) THEN "unclear" ELSE StageOf(row)
        /\ MarkPairingAmbiguous(row).game = row.game
    BY DEF MarkPairingAmbiguous, Recordable, RowOf, StageOf
  <1>5. /\ row.status = "pending" => StageOf(MarkPublishedPairingFailed(row)) = "failed"
        /\ MarkPublishedPairingFailed(row).game = row.game
    BY DEF MarkPublishedPairingFailed, Recordable, RowOf, StageOf
  <1>6. QED BY <1>1, <1>2, <1>3, <1>4, <1>5

LEMMA GameExists == ASSUME NEW p \in Pairing PROVE \E g : g \in Game
  <1>1. [by |-> "hand", nr |-> 1, pairing |-> p] \in Game
    BY DEF Game
  <1>2. QED BY <1>1

LEMMA Shown ==
  ASSUME TypeOK, NEW p \in Pairing
  PROVE  p \in Life!Waiting <=> Recordable(rows[p])
  <1>1. rows[p] \in RowOf(Game)
    BY DEF TypeOK
  <1>2. QED BY <1>1, StageIs DEF Life!Waiting

LEMMA GamesApart ==
  ASSUME GamesTheirs', NEW p \in Pairing, rows'[p].game # NoGame
  PROVE  Life!Gets(p)
  BY DEF GamesTheirs, Life!Gets

LEMMA SameWords ==
  ASSUME told' = told
  PROVE  UNCHANGED [p \in Pairing |-> LastWord(told[p])]
  BY DEF LastWord

LEMMA SameBulks ==
  ASSUME OrganiserBulks' = OrganiserBulks
  PROVE  UNCHANGED {g.pairing : g \in OrganiserBulks}
  OBVIOUS

LEMMA SameStages ==
  ASSUME TypeOK, \A p \in Pairing : /\ StageOf(rows'[p]) = StageOf(rows[p])
                                    /\ rows'[p].game = rows[p].game
  PROVE  /\ UNCHANGED [p \in Pairing |-> StageOf(rows[p])]
         /\ UNCHANGED [p \in Pairing |-> rows[p].game]
  BY DEF StageOf, Recordable

(* What a step that changes one row shows of it. *)
RowBecomes(p, row) == rows' = [rows EXCEPT ![p] = row]

LEMMA RowShown ==
  ASSUME TypeOK, NEW p \in Pairing, NEW row, RowBecomes(p, row)
  PROVE  /\ rows'[p] = row
         /\ \A q \in Pairing \ {p} : rows'[q] = rows[q]
         /\ [q \in Pairing |-> StageOf(rows[q])]'
               = [[q \in Pairing |-> StageOf(rows[q])] EXCEPT ![p] = StageOf(row)]
         /\ [q \in Pairing |-> rows[q].game]'
               = [[q \in Pairing |-> rows[q].game] EXCEPT ![p] = row.game]
  <1>1. rows'[p] = row /\ \A q \in Pairing \ {p} : rows'[q] = rows[q]
    BY DEF TypeOK, RowBecomes
  <1>2. \A q \in Pairing : StageOf(rows[q])' = StageOf(rows'[q])
    BY DEF StageOf, Recordable
  <1>3. [q \in Pairing |-> StageOf(rows[q])]'
               = [[q \in Pairing |-> StageOf(rows[q])] EXCEPT ![p] = StageOf(row)]
    BY <1>1, <1>2
  <1>4. [q \in Pairing |-> rows[q].game]'
               = [[q \in Pairing |-> rows[q].game] EXCEPT ![p] = row.game]
    BY <1>1
  <1>5. QED BY <1>1, <1>3, <1>4

LEMMA GameStays ==
  ASSUME TypeOK, NEW p \in Pairing, NEW row, RowBecomes(p, row), row.game = rows[p].game
  PROVE  UNCHANGED [q \in Pairing |-> rows[q].game]
  <1>1. \A q \in Pairing : rows'[q].game = rows[q].game
    <2>1. rows'[p] = row /\ \A q \in Pairing \ {p} : rows'[q] = rows[q]
      BY RowShown
    <2>2. QED BY <2>1
  <1>2. QED BY <1>1

LEMMA StageBecomes ==
  ASSUME TypeOK, NEW p \in Pairing, NEW row, RowBecomes(p, row),
         NEW s, StageOf(row) = s
  PROVE  [q \in Pairing |-> StageOf(rows[q])]'
            = [[q \in Pairing |-> StageOf(rows[q])] EXCEPT ![p] = s]
  <1>1. [q \in Pairing |-> StageOf(rows[q])]'
            = [[q \in Pairing |-> StageOf(rows[q])] EXCEPT ![p] = StageOf(row)]
    BY RowShown
  <1>2. QED BY <1>1

-----------------------------------------------------------------------------
(* Each step is one of PairingLife's. *)
Lives == Life!Next

(* A step that shows no more than that a search began, or went on. *)
LEMMA ShowsNothing ==
  ASSUME UNCHANGED <<told, creation>>, OrganiserBulks' = OrganiserBulks,
         UNCHANGED [p \in Pairing |-> StageOf(rows[p])],
         UNCHANGED [p \in Pairing |-> rows[p].game],
         SearchedFor' \subseteq SearchedFor \cup {p \in Pairing : Unmatched(rows[p])}
  PROVE  Lives
  <1>1. \A p \in Pairing :
           Unmatched(rows[p]) => StageOf(rows[p]) = "open" /\ rows[p].game = NoGame
    BY DEF Unmatched, StageOf, Recordable
  <1>2. Life!Seek
    BY <1>1, SameWords, SameBulks DEF Life!Seek
  <1>3. QED BY <1>2 DEF Lives, Life!Next

LEMMA LifeUnchanged ==
  ASSUME UNCHANGED <<rows, told, creation>>, OrganiserBulks' = OrganiserBulks, Going
  PROVE  Lives
  <1>1. UNCHANGED [p \in Pairing |-> StageOf(rows[p])]
    BY DEF StageOf, Recordable
  <1>2. QED BY <1>1, ShowsNothing DEF Going

LEMMA AttachFinds ==
  ASSUME LifeInv, GamesTheirs', NEW p \in Pairing, NEW g \in Game,
         p \in SearchedFor, Going,
         rows' = [rows EXCEPT ![p] = AttachGameToPairing(@, g, "in_progress")],
         UNCHANGED <<told, games, creation>>
  PROVE  Lives
  <1> DEFINE row == AttachGameToPairing(rows[p], g, "in_progress")
  <1>1. TypeOK /\ rows[p] \in RowOf(Game) /\ g # NoGame
    BY CreationAssumption DEF LifeInv, CInv, Typed, TypeOK
  <1>2. StageOf(row) = "playing" /\ row.game = g
    BY <1>1, StatementStages
  <1>3. RowBecomes(p, row)
    BY DEF RowBecomes
  <1> HIDE DEF row
  <1>4. Life!Gets(p)
    BY <1>1, <1>2, <1>3, RowShown, GamesApart
  <1>5. OrganiserBulks' = OrganiserBulks
    BY DEF OrganiserBulks
  <1>6. [q \in Pairing |-> StageOf(rows[q])]'
           = [[q \in Pairing |-> StageOf(rows[q])] EXCEPT ![p] = "playing"]
    BY <1>1, <1>2, <1>3, StageBecomes
  <1>a. [q \in Pairing |-> rows[q].game]'
           = [[q \in Pairing |-> rows[q].game] EXCEPT ![p] = row.game]
    BY <1>1, <1>3, RowShown
  <1>b. rows'[p] = row
    BY <1>1, <1>3, RowShown
  <1>7. Life!Find(p)
    BY <1>4, <1>a, <1>b, <1>5, <1>6, SameWords, SameBulks
    DEF Life!Find, Life!NoNewSearch, Going
  <1>8. QED BY <1>7 DEF Lives, Life!Next

LEMMA MarkDoubts ==
  ASSUME LifeInv, NEW p \in Pairing, p \in SearchedFor, Going,
         rows' = [rows EXCEPT ![p] = MarkPairingAmbiguous(@)],
         UNCHANGED <<told, games, creation>>
  PROVE  Lives
  <1> DEFINE row == MarkPairingAmbiguous(rows[p])
  <1>1. TypeOK /\ rows[p] \in RowOf(Game)
    BY DEF LifeInv, CInv, Typed, TypeOK
  <1>2. /\ StageOf(row) = IF Recordable(rows[p]) THEN "unclear" ELSE StageOf(rows[p])
        /\ row.game = rows[p].game
    <2>1. PICK g : g \in Game
      BY GameExists
    <2>2. QED BY <1>1, <2>1, StatementStages
  <1>3. RowBecomes(p, row)
    BY DEF RowBecomes
  <1> HIDE DEF row
  <1>4. OrganiserBulks' = OrganiserBulks
    BY DEF OrganiserBulks
  <1>5. PICK s : s = IF StageOf(rows[p]) = "open" THEN "unclear" ELSE StageOf(rows[p])
    OBVIOUS
  <1>6. StageOf(row) = s
    BY <1>1, <1>2, <1>5, StageIs
  <1>7. [q \in Pairing |-> StageOf(rows[q])]'
           = [[q \in Pairing |-> StageOf(rows[q])] EXCEPT ![p] = s]
    BY <1>1, <1>3, <1>6, StageBecomes
  <1>8. UNCHANGED [q \in Pairing |-> rows[q].game]
    BY <1>1, <1>2, <1>3, GameStays
  <1>9. Life!Doubt(p)
    BY <1>4, <1>5, <1>7, <1>8, SameWords, SameBulks DEF Life!Doubt, Life!NoNewSearch, Going
  <1>10. QED BY <1>9 DEF Lives, Life!Next

LEMMA MatchLives ==
  ASSUME LifeInv, GamesTheirs', NEW p \in Pairing, p \in SearchedFor, Going,
         MatchOne(p), UNCHANGED <<told, games, creation>>
  PROVE  Lives
  <1>1. games \subseteq Game
    BY DEF LifeInv, CInv, Typed, TypeOK
  <1>2. CASE \E g \in games :
                rows' = [rows EXCEPT ![p] = AttachGameToPairing(@, g, "in_progress")]
    BY <1>1, <1>2, AttachFinds
  <1>3. CASE rows' = [rows EXCEPT ![p] = MarkPairingAmbiguous(@)]
    BY <1>3, MarkDoubts
  <1>4. CASE rows' = rows
    BY <1>4, LifeUnchanged DEF OrganiserBulks
  <1>5. QED BY <1>2, <1>3, <1>4 DEF MatchOne

(* sync-games sees a game the league gave being played. *)
LEMMA RecheckStarts ==
  ASSUME LifeInv, NEW p \in Pairing, ToRecheck(rows[p]), rows[p].game \in games,
         rows' = [rows EXCEPT ![p] = AttachGameToPairing(@, @.game, "in_progress")],
         UNCHANGED <<told, games, creation>>, Going
  PROVE  Lives
  <1> DEFINE row == AttachGameToPairing(rows[p], rows[p].game, "in_progress")
  <1>1. TypeOK /\ rows[p] \in RowOf(Game) /\ rows[p].game \in Game
    BY DEF LifeInv, CInv, Typed, TypeOK
  <1>2. StageOf(row) = "playing" /\ row.game = rows[p].game
    BY <1>1, StatementStages
  <1>3. RowBecomes(p, row)
    BY DEF RowBecomes
  <1> HIDE DEF row
  <1>4. OrganiserBulks' = OrganiserBulks
    BY DEF OrganiserBulks
  <1>5. StageOf(rows[p]) \in {"given", "playing"}
    <2>1. rows[p].status \in {"pending", "created", "in_progress"} /\ ~Recordable(rows[p])
      BY <1>1 DEF ToRecheck, Recordable, RowOf, Status
    <2>2. QED BY <1>1, <2>1, StageIs
  <1>6. CASE StageOf(rows[p]) = "given"
    <2>1. [q \in Pairing |-> StageOf(rows[q])]'
             = [[q \in Pairing |-> StageOf(rows[q])] EXCEPT ![p] = "playing"]
      BY <1>1, <1>2, <1>3, StageBecomes
    <2>g. UNCHANGED [q \in Pairing |-> rows[q].game]
      BY <1>1, <1>2, <1>3, GameStays
    <2>2. Life!Start(p)
      BY <1>4, <1>6, <2>1, <2>g, SameWords, SameBulks
      DEF Life!Start, Life!NoNewSearch, Going
    <2>3. QED BY <2>2 DEF Lives, Life!Next
  <1>7. CASE StageOf(rows[p]) = "playing"
    <2>1. \A q \in Pairing : /\ StageOf(rows'[q]) = StageOf(rows[q])
                             /\ rows'[q].game = rows[q].game
      BY <1>1, <1>2, <1>3, <1>7, RowShown
    <2>2. QED
      BY <1>1, <1>4, <2>1, SameStages, ShowsNothing DEF Going
  <1>8. QED BY <1>5, <1>6, <1>7

(* Only a pairing that waits, or one with a challenge, is marked failed. *)
LEMMA MarkFails ==
  ASSUME LifeInv, NEW p \in Pairing, MarkFailed(p), Going
  PROVE  Lives
  <1> DEFINE row == MarkPublishedPairingFailed(rows[p])
  <1>1. TypeOK /\ rows[p] \in RowOf(Game) /\ rows[p].status = "pending"
    BY DEF LifeInv, CInv, Typed, TypeOK, MarkFailed
  <1>2. StageOf(row) = "failed" /\ row.game = rows[p].game
    <2>1. PICK g : g \in Game
      BY GameExists
    <2>2. QED BY <1>1, <2>1, StatementStages
  <1>3. RowBecomes(p, row)
    BY DEF MarkFailed, RowBecomes
  <1> HIDE DEF row
  <1>4. OrganiserBulks' = OrganiserBulks /\ UNCHANGED <<told, creation>>
    BY DEF OrganiserBulks, MarkFailed, onLichess
  <1>5. \/ p \in Life!Waiting
        \/ StageOf(rows[p]) = "given" /\ LastWord(told[p]) = "challenge"
    <2>1. CASE Recordable(rows[p])
      BY <1>1, <2>1, Shown
    <2>2. CASE ~Recordable(rows[p])
      <3>1. rows[p].method = "challenge"
        BY <1>1, <2>2 DEF Recordable, LifeInv, PendingIsChallenge
      <3>2. LastWord(told[p]) = "challenge"
        BY <3>1 DEF LifeInv, CInv, ToldOfGame
      <3>3. QED BY <1>1, <2>2, <3>2, StageIs
    <2>3. QED BY <2>1, <2>2
  <1>6. [q \in Pairing |-> StageOf(rows[q])]'
           = [[q \in Pairing |-> StageOf(rows[q])] EXCEPT ![p] = "failed"]
    BY <1>1, <1>2, <1>3, StageBecomes
  <1>g. UNCHANGED [q \in Pairing |-> rows[q].game]
    BY <1>1, <1>2, <1>3, GameStays
  <1>7. Life!Fail(p)
    BY <1>4, <1>5, <1>6, <1>g, SameWords, SameBulks
    DEF Life!Fail, Life!NoNewSearch, Going
  <1>8. QED BY <1>7 DEF Lives, Life!Next

LEMMA SameRowsShown ==
  ASSUME rows' = rows
  PROVE  /\ UNCHANGED [p \in Pairing |-> StageOf(rows[p])]
         /\ UNCHANGED [p \in Pairing |-> rows[p].game]
  BY DEF StageOf, Recordable

(* Lichess makes a bulk's games: for pairings it made none for. *)
LEMMA BulkSubmits ==
  ASSUME LifeInv, run.pc = "bulk", games' = games \cup BulkFor(run.todo),
         UNCHANGED <<rows, told, creation>>, Going
  PROVE  Lives
  <1> DEFINE bulked == {g.pairing : g \in OrganiserBulks}
  <1>1. PICK todo \in SUBSET Pairing : todo = run.todo
    BY DEF LifeInv, CInv, Typed, TypeOK, Run
  <1>2. creation = "creating" /\ Typed
    BY DEF LifeInv, CInv, CreatingWhileMaking, Making
  <1>3. \A g \in BulkFor(todo) : g.by = "bulk" /\ g.pairing \in todo
    BY <1>2, BulkForTyped
  <1>4. \A p \in todo : \E g \in BulkFor(todo) : g.pairing = p
    <2>1. TAKE p \in todo
    <2>2. PICK nr : nr = NextNr(OrganiserBulks)
      OBVIOUS
    <2>3. [by |-> "bulk", pairing |-> p, nr |-> nr] \in BulkFor(todo)
      BY <2>2 DEF BulkFor
    <2>4. QED BY <2>3
  <1>5. todo \cap bulked = {}
    BY <1>1 DEF LifeInv, CInv, NoBulkYet, OrganiserBulks
  <1>6. OrganiserBulks' = OrganiserBulks \cup BulkFor(todo)
    BY <1>1, <1>3 DEF OrganiserBulks
  <1>7. bulked' = bulked \cup todo
    <2>1. bulked' = {g.pairing : g \in OrganiserBulks \cup BulkFor(todo)}
      BY <1>6
    <2>2. QED BY <1>3, <1>4, <2>1
  <1>8. Life!Submit(todo)
    BY <1>2, <1>5, <1>7, SameRowsShown, SameWords
    DEF Life!Submit, Life!NoNewSearch, Going
  <1>9. QED BY <1>8 DEF Lives, Life!Next

(* Games of a bulk recorded: each with its word, to a pairing that waits. *)
LEMMA RecordGives ==
  ASSUME LifeInv, GamesTheirs', NEW made \in SUBSET OrganiserBulks, NEW todo,
         Record(made, todo), creation = "creating", UNCHANGED <<games, creation>>, Going
  PROVE  Lives
  <1> DEFINE takes == {p \in Pairing : /\ p \in todo /\ Recordable(rows[p])
                                       /\ \E g \in made : g.pairing = p}
  <1>1. TypeOK /\ made \in SUBSET Game /\ takes \in SUBSET Pairing
    BY DEF LifeInv, CInv, Typed, TypeOK, OrganiserBulks
  <1>2. ASSUME NEW p \in takes
        PROVE  /\ p \in Pairing /\ Recordable(rows[p])
               /\ StageOf(rows'[p]) = "given"
               /\ rows'[p].game # NoGame
               /\ LastWord(told'[p]) = "bulk"
    <2>1. PICK g \in Game : /\ rows'[p] = RecordCreatedGame(rows[p], g)
                            /\ told'[p] = TellMade(told[p], "bulk", job.retry)
      <3>1. p \in Pairing /\ p \in todo /\ Recordable(rows[p]) /\ \E g \in made : g.pairing = p
        BY <1>2
      <3> HIDE DEF takes
      <3>2. /\ \E g \in made : rows'[p] = RecordCreatedGame(rows[p], g)
            /\ told'[p] = TellMade(told[p], "bulk", job.retry)
        BY <1>1, <3>1, RecordRow
      <3>3. QED BY <1>1, <3>2
    <2>2. p \in Pairing /\ Recordable(rows[p]) /\ rows[p] \in RowOf(Game) /\ g # NoGame
      BY <1>1, <1>2, CreationAssumption DEF TypeOK
    <2>3. StageOf(rows'[p]) = "given" /\ rows'[p].game = g
      BY <2>1, <2>2, StatementStages
    <2>4. LastWord(told'[p]) = "bulk"
      BY <2>1, <2>2, MadeWord DEF LifeInv
    <2>5. QED BY <2>2, <2>3, <2>4
  <1>3. ASSUME NEW p \in Pairing, p \notin takes
        PROVE  rows'[p] = rows[p] /\ told'[p] = told[p]
    <2>1. ~(p \in todo /\ Recordable(rows[p]) /\ \E g \in made : g.pairing = p)
      BY <1>3
    <2> HIDE DEF takes
    <2>2. \/ rows'[p] = rows[p] /\ told'[p] = told[p]
          \/ /\ p \in todo /\ Recordable(rows[p])
             /\ \E g \in made : /\ g.pairing = p
                                /\ rows'[p] = RecordCreatedGame(rows[p], g)
      BY <1>1, RecordRows
    <2>3. QED BY <2>1, <2>2
  <1>4. takes \subseteq {g.pairing : g \in OrganiserBulks}
    BY <1>1
  <1>5. \A p \in takes : p \in Life!Waiting /\ Life!Gets(p)
    <2>1. ASSUME NEW p \in takes
          PROVE  p \in Life!Waiting /\ Life!Gets(p)
      <3>1. p \in Pairing /\ Recordable(rows[p]) /\ rows'[p].game # NoGame
        BY <1>2
      <3> HIDE DEF takes
      <3>2. QED BY <1>1, <3>1, Shown, GamesApart
    <2>2. QED BY <2>1
  <1> HIDE DEF takes
  <1>6. \A p \in Pairing : /\ StageOf(rows[p])' = StageOf(rows'[p])
                           /\ LastWord(told[p])' = LastWord(told'[p])
    BY DEF StageOf, Recordable, LastWord
  <1>7. [p \in Pairing |-> StageOf(rows[p])]'
           = [p \in Pairing |-> IF p \in takes THEN "given"
                                ELSE [q \in Pairing |-> StageOf(rows[q])][p]]
    BY <1>2, <1>3, <1>6
  <1>8. [p \in Pairing |-> rows[p].game]'
           = [p \in Pairing |-> IF p \in takes
                                THEN [q \in Pairing |-> rows[q].game]'[p]
                                ELSE [q \in Pairing |-> rows[q].game][p]]
    BY <1>3
  <1>9. [p \in Pairing |-> LastWord(told[p])]'
           = [p \in Pairing |-> IF p \in takes THEN "bulk"
                                ELSE [q \in Pairing |-> LastWord(told[q])][p]]
    BY <1>2, <1>3, <1>6
  <1>10. OrganiserBulks' = OrganiserBulks
    BY DEF OrganiserBulks
  <1>11. Life!Give(takes, "bulk")
    BY <1>4, <1>5, <1>7, <1>8, <1>9, <1>10, SameBulks
    DEF Life!Give, Life!NoNewSearch, Going
  <1>12. QED BY <1>1, <1>11 DEF Lives, Life!Next

(* A challenge recorded, unless its pairing was overtaken since it was sent. *)
LEMMA SentGives ==
  ASSUME LifeInv, GamesTheirs', RecordSent, Going
  PROVE  Lives
  <1>0. TypeOK /\ run.pc = "sent"
    BY DEF LifeInv, CInv, Typed, RecordSent
  <1>1. PICK g \in run.made :
          /\ rows' = [rows EXCEPT ![g.pairing] = RecordChallenge(@, g)]
          /\ told' = [told EXCEPT ![g.pairing] =
                IF Recordable(rows[g.pairing])
                THEN TellMade(@, "challenge", job.retry) ELSE @]
    BY DEF RecordSent
  <1>2. PICK p : p = g.pairing
    OBVIOUS
  <1>3. g \in Game /\ p \in Pairing /\ g # NoGame
    BY <1>0, <1>2, SetsTyped, CreationAssumption DEF Game
  <1>4. rows[p] \in RowOf(Game)
    BY <1>0, <1>3 DEF TypeOK
  <1>5. UNCHANGED creation /\ OrganiserBulks' = OrganiserBulks /\ creation = "creating"
    BY <1>0 DEF RecordSent, onLichess, OrganiserBulks, LifeInv, CInv, CreatingWhileMaking,
       Making
  <1>6. CASE ~Recordable(rows[p])
    <2>1. rows' = rows /\ told' = told
      BY <1>0, <1>1, <1>2, <1>6 DEF RecordChallenge, TypeOK
    <2>2. QED BY <1>5, <2>1, LifeUnchanged
  <1>7. CASE Recordable(rows[p])
    <2> DEFINE row == RecordChallenge(rows[p], g)
    <2>1. StageOf(row) = "given" /\ row.game = g
      BY <1>3, <1>4, <1>7, StatementStages
    <2>2. RowBecomes(p, row)
      BY <1>1, <1>2 DEF RowBecomes
    <2>3. LastWord(TellMade(told[p], "challenge", job.retry)) = "challenge"
      BY <1>3, <1>5, <1>7, MadeWord DEF LifeInv
    <2>4. \A q \in Pairing : told'[q] = IF q = p THEN TellMade(told[p], "challenge", job.retry)
                                        ELSE told[q]
      BY <1>0, <1>1, <1>2, <1>7 DEF TypeOK
    <2> HIDE DEF row
    <2>5. rows'[p] = row /\ \A q \in Pairing \ {p} : rows'[q] = rows[q]
      BY <1>0, <1>3, <2>2, RowShown
    <2>7. p \in Life!Waiting
      BY <1>0, <1>3, <1>7, Shown
    <2>8. Life!Gets(p)
      BY <1>3, <2>1, <2>5, GamesApart
    <2>9. \A q \in Pairing : /\ StageOf(rows[q])' = StageOf(rows'[q])
                             /\ LastWord(told[q])' = LastWord(told'[q])
      BY DEF StageOf, Recordable, LastWord
    <2>10. [q \in Pairing |-> StageOf(rows[q])]'
             = [q \in Pairing |-> IF q \in {p} THEN "given"
                                  ELSE [x \in Pairing |-> StageOf(rows[x])][q]]
      BY <2>1, <2>5, <2>9
    <2>11. [q \in Pairing |-> rows[q].game]'
             = [q \in Pairing |-> IF q \in {p}
                                  THEN [x \in Pairing |-> rows[x].game]'[q]
                                  ELSE [x \in Pairing |-> rows[x].game][q]]
      BY <2>5
    <2>12. [q \in Pairing |-> LastWord(told[q])]'
             = [q \in Pairing |-> IF q \in {p} THEN "challenge"
                                  ELSE [x \in Pairing |-> LastWord(told[x])][q]]
      BY <2>3, <2>4, <2>9
    <2>13. Life!Give({p}, "challenge")
      BY <1>5, <2>7, <2>8, <2>10, <2>11, <2>12, SameBulks
      DEF Life!Give, Life!NoNewSearch, Going
    <2>14. QED BY <1>3, <2>13 DEF Lives, Life!Next
  <1>8. QED BY <1>6, <1>7

(* The end of a creation: those who wait are told to start their games. *)
LEMMA FinishCloses ==
  ASSUME LifeInv, NEW outcome \in {"created", "gave_up"}, FinishGameCreation(outcome),
         UNCHANGED <<rows, games>>, Going
  PROVE  Lives
  <1>1. OrganiserBulks' = OrganiserBulks /\ TypeOK
    BY DEF OrganiserBulks, LifeInv, CInv, Typed
  <1>2. CASE UNCHANGED <<creation, told>>
    BY <1>1, <1>2, LifeUnchanged
  <1>3. CASE /\ creation = "creating"
             /\ creation' = outcome
             /\ told' = NotifyByHand
    <2>1. ASSUME NEW p \in Pairing
          PROVE  p \in Left <=> StageOf(rows[p]) = "open"
      <3>1. rows[p] \in RowOf(Game)
        BY <1>1 DEF TypeOK
      <3>2. Recordable(rows[p]) => rows[p].method = "manual_external"
        BY DEF LifeInv, CInv, Untold
      <3>3. p \in Left <=> Recordable(rows[p]) /\ ~rows[p].ambiguous
        BY <3>2 DEF Left, ToCreate, Unmatched, Recordable
      <3>4. QED BY <3>1, <3>3, StageIs
    <2>2. \A p \in Pairing :
            LastWord(told'[p]) = IF StageOf(rows[p]) = "open" THEN "by_hand"
                                 ELSE LastWord(told[p])
      BY <1>3, <2>1, ByHandWord DEF LifeInv
    <2>3. \A p \in Pairing : LastWord(told[p])' = LastWord(told'[p])
      BY DEF LastWord
    <2>4. [p \in Pairing |-> LastWord(told[p])]'
            = [p \in Pairing |-> IF [q \in Pairing |-> StageOf(rows[q])][p] = "open"
                                 THEN "by_hand"
                                 ELSE [q \in Pairing |-> LastWord(told[q])][p]]
      BY <2>2, <2>3
    <2>5. (creation = "creating") /\ (creation = "creating")' = FALSE
      BY <1>3
    <2>6. Life!Close
      BY <1>1, <2>4, <2>5, SameRowsShown, SameBulks
      DEF Life!Close, Life!NoNewSearch, Going
    <2>7. QED BY <2>6 DEF Lives, Life!Next
  <1>4. QED BY <1>2, <1>3 DEF FinishGameCreation

LEMMA RetryReopens ==
  ASSUME RetryGameCreation, Going
  PROVE  Lives
  <1>1. UNCHANGED <<rows, told>> /\ OrganiserBulks' = OrganiserBulks /\ creation' = "creating"
    BY DEF RetryGameCreation, onLichess, OrganiserBulks
  <1>2. CASE creation = "creating"
    BY <1>1, <1>2, LifeUnchanged
  <1>3. CASE creation # "creating"
    <2>1. (creation = "creating")' = TRUE
      BY <1>1
    <2>2. Life!Reopen
      BY <1>1, <1>3, <2>1, SameRowsShown, SameWords, SameBulks
      DEF Life!Reopen, Life!NoNewSearch, Going
    <2>3. QED BY <2>2 DEF Lives, Life!Next
  <1>4. QED BY <1>2, <1>3

LEMMA LifeStep == ASSUME LifeInv, [Next]_vars PROVE Lives
  <1>0. CInv /\ TypeOK /\ GamesTheirs'
    BY NextKeeps DEF LifeInv, CInv, Typed
  <1>g. CASE StartRun \/ SyncList
    <2>1. UNCHANGED <<rows, told, creation>> /\ OrganiserBulks' = OrganiserBulks
      BY <1>g DEF StartRun, SyncList, onLichess, OrganiserBulks
    <2>2. SearchedFor' \subseteq SearchedFor \cup {p \in Pairing : Unmatched(rows[p])}
      <3>1. CASE StartRun
        <4>1. listed' = listed
          BY <3>1 DEF StartRun
        <4>2. run'.todo \subseteq {p \in Pairing : Unmatched(rows[p])}
          BY <3>1 DEF StartRun, IdleRun
        <4>3. QED BY <4>1, <4>2 DEF SearchedFor
      <3>2. CASE SyncList
        BY <3>2, CreationAssumption DEF SyncList, SearchedFor
      <3>3. QED BY <1>g, <3>1, <3>2
    <2>3. QED BY <2>1, <2>2, SameRowsShown, ShowsNothing
  <1> SUFFICES ASSUME ~StartRun, ~SyncList PROVE Lives
    BY <1>g
  <1>a. Going
    BY <1>0, SearchesGoOn
  <1>1. ASSUME UNCHANGED <<rows, told, creation, games>> PROVE Lives
    BY <1>1, <1>a, LifeUnchanged DEF OrganiserBulks
  <1>2. CASE SearchByHand
    <2>1. UNCHANGED <<told, games, creation>> /\ run.pc = "search"
      BY <1>2 DEF SearchByHand, onLichess
    <2>2. CASE rows' = rows
      BY <1>1, <2>1, <2>2
    <2>3. CASE \E p \in run.todo : MatchOne(p)
      <3>1. PICK p \in run.todo : MatchOne(p)
        BY <2>3
      <3>2. p \in Pairing /\ p \in SearchedFor
        BY <1>0, <2>1, SetsTyped DEF SearchedFor
      <3>3. QED BY <1>0, <1>a, <2>1, <3>1, <3>2, MatchLives
    <2>4. QED BY <1>2, <2>2, <2>3 DEF SearchByHand
  <1>3. CASE Load \/ Finish \/ LastAttemptFails
    <2>1. UNCHANGED <<rows, games>>
      BY <1>3 DEF Load, Finish, LastAttemptFails, onLichess
    <2>2. \/ UNCHANGED <<creation, told>>
          \/ \E outcome \in {"created", "gave_up"} : FinishGameCreation(outcome)
      BY <1>3 DEF Load, Finish, LastAttemptFails, GiveUp
    <2>3. QED BY <1>1, <1>a, <2>1, <2>2, FinishCloses
  <1>4. CASE Adopt
    <2>1. /\ Record(OrganiserBulks \ AttachedGames, run.todo) /\ run.pc = "adopt"
          /\ UNCHANGED <<games, creation>>
      BY <1>4 DEF Adopt, onLichess
    <2>2. creation = "creating"
      BY <1>0, <2>1 DEF CInv, CreatingWhileMaking, Making
    <2>3. QED BY <1>0, <2>1, <1>a, <2>2, RecordGives
  <1>5. CASE RecordBulk
    <2>1. /\ Record(run.made, run.todo) /\ run.pc = "record"
          /\ UNCHANGED <<games, creation>>
      BY <1>5 DEF RecordBulk, onLichess
    <2>2. creation = "creating" /\ run.made \in SUBSET OrganiserBulks
      BY <1>0, <2>1 DEF CInv, CreatingWhileMaking, Making, LifeInv, RecordsMade
    <2>3. QED BY <1>0, <2>1, <1>a, <2>2, RecordGives
  <1>6. CASE RecordSent
    BY <1>0, <1>6, <1>a, SentGives
  <1>7. CASE BulkAccepted \/ BulkAnswerLost
    BY <1>7, <1>a, BulkSubmits DEF BulkAccepted, BulkAnswerLost
  <1>8. CASE RetryGameCreation
    BY <1>8, <1>a, RetryReopens
  <1>9. CASE \E p \in Failable : MarkFailed(p)
    BY <1>9, <1>a, MarkFails, CreationAssumption
  <1>10. CASE \E p \in Pairing : SyncMatch(p)
    <2>1. PICK p \in Pairing : SyncMatch(p)
      BY <1>10
    <2>2. UNCHANGED <<told, games, creation>> /\ p \in SearchedFor /\ MatchOne(p)
      BY <2>1 DEF SyncMatch, onLichess, SearchedFor
    <2>3. QED BY <1>0, <1>a, <2>2, MatchLives
  <1>s. CASE \E p \in Pairing : SyncRecheck(p)
    BY <1>a, <1>s, RecheckStarts DEF SyncRecheck, onLichess
  <1>11. CASE (\E p \in ByHand : StartByHand(p)) \/ AcceptChallenge
    <2>1. UNCHANGED <<rows, told, creation>>
      BY <1>11 DEF StartByHand, AcceptChallenge
    <2>2. \E g : games' = games \cup {g} /\ g.by # "bulk"
      <3>1. CASE \E p \in ByHand : StartByHand(p)
        BY <3>1 DEF StartByHand
      <3>2. CASE AcceptChallenge
        BY <1>0, <3>2 DEF AcceptChallenge, CInv, ChallengesWanted
      <3>3. QED BY <1>11, <3>1, <3>2
    <2>a. OrganiserBulks' = OrganiserBulks
      BY <2>2 DEF OrganiserBulks
    <2>3. QED BY <1>a, <2>1, <2>a, LifeUnchanged
  <1>12. CASE UNCHANGED <<rows, told, creation, games>>
    BY <1>1, <1>12
  <1>13. QED
    BY <1>2, <1>3, <1>4, <1>5, <1>6, <1>7, <1>8, <1>9, <1>10, <1>s, <1>11, <1>12
    DEF Next, RunStep, BadEnd, OtherStep, vars, onLichess, ProbeRead, ProbeAnswer,
        BulkRefused, ListChallenges, SendChallenge, ChallengesDone, JobCompleted,
        Interrupted, LastAttemptLost, SwitchSetting, TokenDies, SignIn

LEMMA LifeBegins == Init => Life!Init
  <1> SUFFICES ASSUME Init PROVE Life!Init
    OBVIOUS
  <1>1. FreshRow.game = NoGame /\ StageOf(FreshRow) = "open"
    BY DEF FreshRow, StageOf, Recordable
  <1>2. {g.pairing : g \in OrganiserBulks} = {}
    BY DEF Init, OrganiserBulks
  <1>3. QED BY <1>1, <1>2 DEF Init, Life!Init, LastWord, SearchedFor, IdleRun

(* The run with its lost answers, interruptions and stale lists, the retries, *)
(* sync-games, admins and players together keep what PairingLife promises     *)
(* each pairing: every step is one of its steps, or shows nothing.            *)
THEOREM KeepsPromises == Spec => KeepsPairings
  <1>1. LifeInv /\ [Next]_vars => [Life!Next]_(Life!vars)
    BY LifeStep DEF Lives
  <1>2. QED
    BY <1>1, LifeInvariant, LifeBegins, PTL DEF Spec, KeepsPairings, Life!Spec
=============================================================================
