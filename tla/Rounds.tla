------------------------------- MODULE Rounds -------------------------------
(***************************************************************************)
(* The round state machine of internal/rounds: generation, review of a     *)
(* draft, publication by whoever comes first, cancellation, and the        *)
(* admin's edits, over the database tables rounds, pairings, byes,         *)
(* double_games and round_exclusions and their unique indexes.             *)
(*                                                                         *)
(* What the code does in one transaction under the round's row lock is one *)
(* action.  A generation takes no lock: it reads the next number, then the *)
(* pool, and inserts last, so it is three steps.  A regeneration holds the *)
(* lock from its pool read to its write: two steps, with the round Locked. *)
(*                                                                         *)
(* The pairing engine is here by its contract, Seating.  A mutant is a way  *)
(* the code could be wrong; no action uses one.                            *)
(***************************************************************************)
EXTENDS Seating, Integers, FiniteSets

CONSTANTS
    Player,      \* the approved members
    Generator,   \* sessions that generate: the cron job, an admin's click, ic
    MaxRounds,   \* bound: how many round rows are ever inserted
    Cap,         \* Cap[p]: max_concurrent_games, or NoCap
    NoCap,       \* the NULL cap: unlimited
    Willing,     \* players with accepts_double_game
    OddPool,     \* pairing.odd_pool_strategy
    Modes,       \* the values pairing.mode takes
    Creations,   \* the values pairing.game_creation takes
    Restless,    \* bound: the players whose eligibility changes
    Reviewed     \* bound: the rounds the admin edits or regenerates

ASSUME RoundsAssumption ==
    /\ MaxRounds \in Nat
    /\ NoCap \notin Nat
    /\ Cap \in [Player -> Nat \cup {NoCap}]
    /\ Willing \subseteq Player
    /\ OddPool \in {"double_then_bye", "bye_only"}
    /\ Modes \subseteq {"review_window", "auto_publish"}
    /\ Modes # {}
    /\ Creations \subseteq {"manual", "lichess"}
    /\ Creations # {}
    /\ Restless \subseteq Player
    /\ Reviewed \subseteq 1..MaxRounds

RoundId == 1..MaxRounds

RoundState == {"none", "draft", "published", "cancelled"}
PairingStatus == {"pending", "completed", "failed", "cancelled"}
Reason == {"none", "ineligible", "at_capacity", "bye", "removed_by_admin"}

(* A row of pairings: pairings_round_white_black makes the two colours its key. *)
Pairing == [white : Player, black : Player, status : PairingStatus]

(* What one generation stores about a round besides the round row. *)
Content == [pairings : SUBSET Pairing,
            byes     : SUBSET Player,
            doubles  : SUBSET Player,
            excluded : [Player -> Reason],
            counted  : SUBSET RoundId]

NoContent == [pairings |-> {}, byes |-> {}, doubles |-> {},
              excluded |-> [p \in Player |-> "none"], counted |-> {}]

Round == [state : RoundState, number : Nat, due : BOOLEAN,
          creation : {"manual", "creating"}]

NoRound == [state |-> "none", number |-> 0, due |-> FALSE, creation |-> "manual"]

(* What the pool read of a generation keeps: who is out and why, who may   *)
(* take two games, and (auxiliary) the rounds whose games were counted.    *)
PoolRead == [excluded : [Player -> Reason], volunteers : SUBSET Player,
             counted : SUBSET RoundId]

NoPool == [excluded |-> [p \in Player |-> "none"], volunteers |-> {}, counted |-> {}]

Session == [pc : {"idle", "numbered", "paired", "regenerating"},
            round : 0..MaxRounds, number : Nat,
            mode : {"review_window", "auto_publish"},
            creation : {"manual", "lichess"}, pool : PoolRead]

IdleSession == [pc |-> "idle", round |-> 0, number |-> 0, mode |-> "review_window",
                creation |-> "manual", pool |-> NoPool]

VARIABLES
    rounds,       \* the rounds table
    content,      \* pairings, byes, double_games, round_exclusions of each round
    away,         \* players with is_active off, paused, or past their token grace
    cfg,          \* pairing.mode and pairing.game_creation
    publishJobs,  \* rounds with a publish-round job scheduled
    createJobs,   \* rounds for which a create-games job was queued
    session       \* the generations under way

vars == <<rounds, content, away, cfg, publishJobs, createJobs, session>>

Live == {r \in RoundId : rounds[r].state \in {"draft", "published"}}
Drafts == {r \in RoundId : rounds[r].state = "draft"}
Published == {r \in RoundId : rounds[r].state = "published"}

(* Mutant: Regenerate reads the round without FOR UPDATE. *)
NeverLocked(r) == FALSE

(* GetRoundForUpdate's lock, while a regeneration holds it across statements. *)
Locked(r) == \E g \in Generator : session[g].pc = "regenerating" /\ session[g].round = r

-----------------------------------------------------------------------------
(* The pool and the engine's contract. *)

(* CountInFlightGamesForUser: games of published rounds that are not over. *)
InFlight(p) ==
    UNION {{<<r, m>> : m \in {n \in GamesOf(content[r].pairings, p) : n.status = "pending"}} :
           r \in Published}

(* Mutant: buildPool's comparison off by one. *)
CapacityOffByOne(p, ongoing) == Cap[p] = NoCap \/ ongoing <= Cap[p]

CapacityAllows(p, ongoing) == Cap[p] = NoCap \/ ongoing < Cap[p]

(* loadPool with buildPool's two filters; chooseVolunteer asks that the cap  *)
(* still hold once both games exist.                                         *)
LoadPool ==
    LET Excluded(p) == IF p \in away THEN "ineligible"
                       ELSE IF ~CapacityAllows(p, Cardinality(InFlight(p)))
                            THEN "at_capacity" ELSE "none"
    IN  [excluded |-> [p \in Player |-> Excluded(p)],
         volunteers |-> {p \in Willing : /\ Excluded(p) = "none"
                                         /\ CapacityAllows(p, Cardinality(InFlight(p)) + 1)},
         counted |-> Published]

(* Sets of games between two different members of a pool. *)
GameSets == [pool \in SUBSET Player |->
                SUBSET {m \in [white : pool, black : pool] : m.white # m.black}]

OddChoices(pool, volunteers) == OddOutcomes(pool, volunteers, OddPool)

Draws(pool, volunteers) ==
    UNION {{[pairs |-> s, byes |-> odd.byes, doubles |-> odd.doubles] :
               s \in {x \in GameSets[pool] : Seated(x, pool, odd)}} :
           odd \in OddChoices(pool, volunteers)}

(* writeResult: the rows stored for a draw. *)
Written(read, d) ==
    [pairings |-> {[white |-> m.white, black |-> m.black, status |-> "pending"] : m \in d.pairs},
     byes |-> d.byes,
     doubles |-> d.doubles,
     excluded |-> [p \in Player |-> IF p \in d.byes THEN "bye" ELSE read.excluded[p]],
     counted |-> read.counted]

PoolOf(read) == {p \in Player : read.excluded[p] = "none"}

-----------------------------------------------------------------------------
Init ==
    /\ rounds = [r \in RoundId |-> NoRound]
    /\ content = [r \in RoundId |-> NoContent]
    /\ away = {}
    /\ cfg \in [mode : Modes, creation : Creations]
    /\ publishJobs = {}
    /\ createJobs = {}
    /\ session = [g \in Generator |-> IdleSession]

(* NextRoundNumber: one past the highest number a live round holds. *)
IsNextNumber(n) ==
    /\ \A r \in Live : rounds[r].number < n
    /\ n = 1 \/ \E r \in Live : rounds[r].number = n - 1

(* The serial id the next insert gets; none once the bound is reached. *)
IsNextId(r) == rounds[r].state = "none" /\ \A s \in 1..(r - 1) : rounds[s].state # "none"

(* Mutant: the setting's value stored as the round's state. *)
CreationAsSet(creation) == creation

(* startGameCreation: how the round's games will be made, with the job     *)
(* that makes them queued in the same transaction.                         *)
CreationOf(creation) == IF creation = "lichess" THEN "creating" ELSE "manual"

(* Mutant: the job is inserted after the transaction, which can then stop first. *)
StartWithoutJob(r, creation) == UNCHANGED createJobs

StartGameCreation(r, creation) ==
    createJobs' = IF creation = "lichess" THEN createJobs \cup {r} ELSE createJobs

-----------------------------------------------------------------------------
(* Generate: settings and number, then the pool, then one insert of it all. *)

GenerateNumber(g) ==
    /\ session[g].pc = "idle"
    /\ \E n \in 1..(MaxRounds + 1) :
          /\ IsNextNumber(n)
          /\ session' = [session EXCEPT ![g] = [IdleSession EXCEPT
                            !.pc = "numbered", !.number = n,
                            !.mode = cfg.mode, !.creation = cfg.creation]]
    /\ UNCHANGED <<rounds, content, away, cfg, publishJobs, createJobs>>

GeneratePool(g) ==
    /\ session[g].pc = "numbered"
    /\ session' = [session EXCEPT ![g].pc = "paired", ![g].pool = LoadPool]
    /\ UNCHANGED <<rounds, content, away, cfg, publishJobs, createJobs>>

(* Mutant: no rounds_one_draft index. *)
NoDraftConflict(mode) == FALSE

(* rounds_number_live and rounds_one_draft: the insert both would refuse. *)
NumberTaken(n) == \E r \in Live : rounds[r].number = n
DraftConflict(mode) == mode = "review_window" /\ Drafts # {}

(* The row of a generated round, with what startGameCreation makes of it. *)
CreateGeneratedRound(s, state) ==
    [state |-> state, number |-> s.number, due |-> state = "published",
     creation |-> IF state = "published" THEN CreationOf(s.creation) ELSE "manual"]

GenerateInsert(g) ==
    LET s == session[g]
        state == IF s.mode = "auto_publish" THEN "published" ELSE "draft"
    IN  /\ s.pc = "paired"
        /\ ~NumberTaken(s.number)
        /\ ~DraftConflict(s.mode)
        /\ \E r \in RoundId, d \in Draws(PoolOf(s.pool), s.pool.volunteers) :
              /\ IsNextId(r)
              /\ rounds' = [rounds EXCEPT ![r] = CreateGeneratedRound(s, state)]
              /\ content' = [content EXCEPT ![r] = Written(s.pool, d)]
              /\ IF state = "published"
                 THEN StartGameCreation(r, s.creation) /\ UNCHANGED publishJobs
                 ELSE publishJobs' = publishJobs \cup {r} /\ UNCHANGED createJobs
        /\ session' = [session EXCEPT ![g] = IdleSession]
        /\ UNCHANGED <<away, cfg>>

(* A unique index refused the round, or the transaction died: nothing is   *)
(* written and a regeneration's lock is released.                          *)
GenerateFails(g) ==
    /\ session[g].pc # "idle"
    /\ session' = [session EXCEPT ![g] = IdleSession]
    /\ UNCHANGED <<rounds, content, away, cfg, publishJobs, createJobs>>

(* Regenerate: lock, check it is a draft, read the pool; then replace it all. *)
RegenerateRead(g, r) ==
    /\ session[g].pc = "idle"
    /\ rounds[r].state = "draft"
    /\ ~Locked(r)
    /\ session' = [session EXCEPT ![g] = [IdleSession EXCEPT
                      !.pc = "regenerating", !.round = r, !.pool = LoadPool]]
    /\ UNCHANGED <<rounds, content, away, cfg, publishJobs, createJobs>>

RegenerateWrite(g) ==
    LET s == session[g] IN
    /\ s.pc = "regenerating"
    /\ \E d \in Draws(PoolOf(s.pool), s.pool.volunteers) :
          content' = [content EXCEPT ![s.round] = Written(s.pool, d)]
    /\ publishJobs' = publishJobs \cup {s.round}
    /\ session' = [session EXCEPT ![g] = IdleSession]
    /\ UNCHANGED <<rounds, away, cfg, createJobs>>

-----------------------------------------------------------------------------
(* Publication and cancellation. *)

(* Publish: guarded on draft, so a second publisher changes nothing. *)
Publish(r) ==
    /\ ~Locked(r)
    /\ rounds[r].state = "draft"
    /\ rounds' = [rounds EXCEPT ![r].state = "published",
                                ![r].creation = CreationOf(cfg.creation)]
    /\ StartGameCreation(r, cfg.creation)

(* An admin's Publish now. *)
PublishNow(r) ==
    /\ Publish(r)
    /\ UNCHANGED <<content, away, cfg, publishJobs, session>>

(* The publish-round job: a round no longer a draft is a no-op run. *)
PublishJob(r) ==
    /\ r \in publishJobs
    /\ rounds[r].due
    /\ publishJobs' = publishJobs \ {r}
    /\ \/ Publish(r)
       \/ /\ rounds[r].state # "draft"
          /\ UNCHANGED <<rounds, createJobs>>
    /\ UNCHANGED <<content, away, cfg, session>>

(* Every attempt of the job failed, or there never was one: ic generate-round *)
(* has no river client to schedule it with.                                  *)
PublishJobLost(r) ==
    /\ r \in publishJobs
    /\ publishJobs' = publishJobs \ {r}
    /\ UNCHANGED <<rounds, content, away, cfg, createJobs, session>>

(* ListDraftsDue. *)
DraftsDue == {r \in Drafts : rounds[r].due}

(* Mutant: the sweep takes only the rounds a job still waits for. *)
PublishDueWithJob(r) ==
    /\ r \in DraftsDue \cap publishJobs
    /\ Publish(r)
    /\ UNCHANGED <<content, away, cfg, publishJobs, session>>

(* PublishDue: the hourly sweep, on the one draft whose window has ended. *)
PublishDue(r) ==
    /\ r \in DraftsDue
    /\ Publish(r)
    /\ UNCHANGED <<content, away, cfg, publishJobs, session>>

(* publish_at passes. *)
WindowEnds(r) ==
    /\ rounds[r].state \in {"draft", "cancelled"}
    /\ ~rounds[r].due
    /\ rounds' = [rounds EXCEPT ![r].due = TRUE]
    /\ UNCHANGED <<content, away, cfg, publishJobs, createJobs, session>>

(* CancelRound and CancelPairings: the round's row, and its pairings'. *)
CancelRound(round) == [round EXCEPT !.state = "cancelled"]
CancelPairings(pairs) == {[m EXCEPT !.status = "cancelled"] : m \in pairs}

Cancel(r) ==
    /\ ~Locked(r)
    /\ rounds[r].state = "draft"
    /\ rounds' = [rounds EXCEPT ![r] = CancelRound(@)]
    /\ content' = [content EXCEPT ![r].pairings = CancelPairings(@)]
    /\ UNCHANGED <<away, cfg, publishJobs, createJobs, session>>

-----------------------------------------------------------------------------
(* The admin's edits of a draft. *)

Editable(r) == ~Locked(r) /\ rounds[r].state = "draft"

FlipPairingColours(m) == [m EXCEPT !.white = m.black, !.black = m.white]

FlipColours(r, m) ==
    /\ Editable(r)
    /\ \A n \in content[r].pairings : ~(n.white = m.black /\ n.black = m.white)
    /\ content' = [content EXCEPT ![r].pairings = (@ \ {m}) \cup {FlipPairingColours(m)}]
    /\ UNCHANGED <<rounds, away, cfg, publishJobs, createJobs, session>>

(* InsertRoundExclusion, for each of the players. *)
InsertExclusions(excluded, players) ==
    [p \in Player |-> IF p \in players THEN "removed_by_admin" ELSE excluded[p]]

(* Mutant: both players excluded, the volunteer with a game left too. *)
RemoveExcludingBoth(r, m) ==
    /\ Editable(r)
    /\ content' = [content EXCEPT
          ![r].pairings = @ \ {m},
          ![r].doubles = @ \ {m.white, m.black},
          ![r].excluded = InsertExclusions(@, {m.white, m.black})]
    /\ UNCHANGED <<rounds, away, cfg, publishJobs, createJobs, session>>

RemovePairing(r, m) ==
    /\ Editable(r)
    /\ content' = [content EXCEPT
          ![r].pairings = @ \ {m},
          ![r].doubles = @ \ {m.white, m.black},
          ![r].excluded = InsertExclusions(@, {m.white, m.black} \ content[r].doubles)]
    /\ UNCHANGED <<rounds, away, cfg, publishJobs, createJobs, session>>

InsertEditedPairing(p, q) == [white |-> p, black |-> q, status |-> "pending"]

(* AssignColours decides by the players' colour scores: either order here. *)
ColourChoices(p, q) == {InsertEditedPairing(p, q), InsertEditedPairing(q, p)}

(* A's white meets B's black and B's white A's black; the CHECK and the    *)
(* unique key of pairings refuse a player against himself and a duplicate. *)
SwapPairings(r, a, b) ==
    LET rest == content[r].pairings \ {a, b} IN
    /\ Editable(r)
    /\ a # b
    /\ a.white # b.black /\ b.white # a.black
    /\ \E x \in ColourChoices(a.white, b.black), y \in ColourChoices(b.white, a.black) :
          /\ <<x.white, x.black>> # <<y.white, y.black>>
          /\ \A n \in rest : /\ <<n.white, n.black>> # <<x.white, x.black>>
                             /\ <<n.white, n.black>> # <<y.white, y.black>>
          /\ content' = [content EXCEPT ![r].pairings = rest \cup {x, y}]
    /\ UNCHANGED <<rounds, away, cfg, publishJobs, createJobs, session>>

-----------------------------------------------------------------------------
(* A published round's pairings: Mark failed, and what sync-games and       *)
(* evaluate-activity make of them, seen only as "no longer in flight".      *)

SetStatus(r, m, status) ==
    /\ rounds[r].state = "published"
    /\ m.status = "pending"
    /\ content' = [content EXCEPT ![r].pairings = (@ \ {m}) \cup {[m EXCEPT !.status = status]}]
    /\ UNCHANGED <<rounds, away, cfg, publishJobs, createJobs, session>>

MarkFailed(r, m) == SetStatus(r, m, "failed")
GameOver(r, m) == SetStatus(r, m, "completed")

(* The surroundings: settings, and players leaving and coming back. *)
SetCfg(mode, creation) ==
    /\ cfg # [mode |-> mode, creation |-> creation]
    /\ cfg' = [mode |-> mode, creation |-> creation]
    /\ UNCHANGED <<rounds, content, away, publishJobs, createJobs, session>>

ToggleAway(p) ==
    /\ away' = IF p \in away THEN away \ {p} ELSE away \cup {p}
    /\ UNCHANGED <<rounds, content, cfg, publishJobs, createJobs, session>>

-----------------------------------------------------------------------------
GenerateStep(g) ==
    \/ GenerateNumber(g)
    \/ GeneratePool(g)
    \/ GenerateInsert(g)
    \/ GenerateFails(g)
    \/ \E r \in Reviewed : RegenerateRead(g, r)
    \/ RegenerateWrite(g)

RoundStep(r) ==
    \/ PublishNow(r)
    \/ PublishJob(r)
    \/ PublishJobLost(r)
    \/ PublishDue(r)
    \/ WindowEnds(r)
    \/ Cancel(r)

EditStep(r, m) ==
    \/ FlipColours(r, m)
    \/ RemovePairing(r, m)
    \/ \E n \in content[r].pairings : SwapPairings(r, m, n)

PairingStep(r, m) ==
    \/ MarkFailed(r, m)
    \/ GameOver(r, m)

Next ==
    \/ \E g \in Generator : GenerateStep(g)
    \/ \E r \in RoundId : RoundStep(r)
    \/ \E r \in Reviewed : \E m \in content[r].pairings : EditStep(r, m)
    \/ \E r \in RoundId : \E m \in content[r].pairings : PairingStep(r, m)
    \/ \E mode \in Modes, creation \in Creations : SetCfg(mode, creation)
    \/ \E p \in Restless : ToggleAway(p)

Spec == Init /\ [][Next]_vars

(* Time passes, river fires the hourly sweep and Postgres grants a waiting  *)
(* lock; a regeneration's transaction ends.  Nobody has to act.             *)
Fairness ==
    /\ \A r \in RoundId : WF_vars(WindowEnds(r)) /\ SF_vars(PublishDue(r))
    /\ \A g \in Generator : WF_vars(RegenerateWrite(g))

FairSpec == Spec /\ Fairness

-----------------------------------------------------------------------------
(* Properties. *)

TypeOK ==
    /\ rounds \in [RoundId -> Round]
    /\ content \in [RoundId -> Content]
    /\ away \subseteq Player
    /\ cfg \in [mode : {"review_window", "auto_publish"}, creation : {"manual", "lichess"}]
    /\ publishJobs \subseteq RoundId
    /\ createJobs \subseteq RoundId
    /\ session \in [Generator -> Session]

(* At most one draft waits, and no two live rounds share a number, however  *)
(* many sessions generate at once (spec 6.1, migration 00011).              *)
LiveRoundsDistinct ==
    \A r, s \in Live : r # s =>
        /\ rounds[r].number # rounds[s].number
        /\ ~(rounds[r].state = "draft" /\ rounds[s].state = "draft")

(* In a live round every member is in exactly one game, or in the two of    *)
(* the double-game volunteer against two opponents, or in none with a       *)
(* reason on record (spec 5.8: "exactly one new pairing per round"), and    *)
(* this survives every sequence of flips, swaps, removals, regenerations.   *)
EveryoneAccountedFor ==
    \A r \in Live, p \in Player :
        LET seats == content[r] IN
        IF p \in seats.doubles
        THEN PlaysTwice(seats.pairings, p) /\ seats.excluded[p] = "none"
        ELSE IF seats.excluded[p] = "none"
        THEN PlaysOnce(seats.pairings, p)
        ELSE GamesOf(seats.pairings, p) = {}

(* What a round tells its players: who meets whom, with which colour. *)
Announced(c) ==
    [games |-> {<<m.white, m.black>> : m \in c.pairings},
     byes |-> c.byes, doubles |-> c.doubles, excluded |-> c.excluded]

(* A published round is final and a cancelled one stays cancelled: no edit,  *)
(* regeneration, late job or second publisher changes what was announced,    *)
(* its number, or how its games are made (publish.go, Cancel).               *)
DecidedStep ==
    \A r \in RoundId : rounds[r].state \in {"published", "cancelled"} =>
        /\ rounds'[r] = [rounds[r] EXCEPT !.due = rounds'[r].due]
        /\ Announced(content[r])' = Announced(content[r])

DecidedIsFinal == [][DecidedStep]_vars

(* A capped player is over the cap only through rounds none of which saw     *)
(* the other published when its pool was read: a draft waiting while another *)
(* round is generated.  Otherwise the cap bounds the games in flight, the    *)
(* volunteer's two included (spec 5.8, chooseVolunteer).                     *)
CapBoundsGames ==
    \A p \in Player : LET R == {x[1] : x \in InFlight(p)} IN
        \/ Cap[p] = NoCap
        \/ \E r, s \in R : r # s /\ r \notin content[s].counted /\ s \notin content[r].counted
        \/ Cardinality(InFlight(p)) <= Cap[p]

(* The calendar the rounds implement: what each has announced, and the job *)
(* that makes its games.                                                    *)
Calendar == INSTANCE Schedule WITH
    Blank  <- Announced(NoContent),
    status <- [r \in RoundId |-> rounds[r].state],
    number <- [r \in RoundId |-> rounds[r].number],
    notice <- [r \in RoundId |-> Announced(content[r])],
    making <- [r \in RoundId |-> rounds[r].creation],
    queued <- createJobs

(* Seen from outside, concurrent generations, edits, publishers and          *)
(* cancellations are the calendar of Schedule: each of their steps opens,    *)
(* revises, announces or withdraws one round as it allows, with the job that *)
(* makes the games queued in the step that announces it, or shows nothing.   *)
KeepsCalendar == Calendar!Spec

(* Every draft is decided: published by its job, the sweep or an admin, or   *)
(* cancelled, even when its publish-round job is lost (spec 7).              *)
DraftsAreDecided ==
    \A r \in RoundId : rounds[r].state = "draft" ~> rounds[r].state # "draft"

(* publish.go on Cancel: the number of a cancelled draft is reused, "so the  *)
(* next generation reuses it and the sequence has no gaps".                  *)
NoGaps ==
    \A r \in Live : rounds[r].number = 1
        \/ \E s \in Live : rounds[s].number = rounds[r].number - 1
=============================================================================
