----------------------------- MODULE SyncGames -----------------------------
(***************************************************************************)
(* sync-games over the pairings of published rounds: the games already     *)
(* known fetched again by id, the others searched for among the players'   *)
(* games, and each written to the tables games, pairings and               *)
(* player_standings.                                                       *)
(*                                                                         *)
(* A run has no transaction: each statement commits on its own, so each    *)
(* is one action, and a run that stops between two leaves what the first   *)
(* wrote.  The hourly job never overlaps itself (one worker), but ic       *)
(* sync-games runs in a process of its own: Syncer.  Around it, admins     *)
(* mark pairings failed, evaluate-activity retires them, create-games      *)
(* records games and challenges, standings are rebuilt, and players play.  *)
(***************************************************************************)
EXTENDS PairingRows, Integers, Sequences, FiniteSets

CONSTANTS
    Player,
    Pairing,         \* pairings of published rounds
    Game,            \* games on Lichess, there or to come
    White, Black,    \* each pairing's two players
    Fits,            \* Fits[g]: the pairings matching.Match would take g for
    Syncer,          \* processes that run sync-games
    MaxFailures,     \* bound: runs cut short and Lichess calls failed
    Failable,        \* bound: pairings an admin or evaluate-activity fails
    Creatable,       \* bound: the games create-games records, each for a pairing
    Rebuilder        \* processes that recompute standings: the nightly job,
                     \* ic recompute, a request that changes a player's profile

ASSUME SyncAssumption ==
    /\ White \in [Pairing -> Player]
    /\ Black \in [Pairing -> Player]
    /\ Fits \in [Game -> SUBSET Pairing]
    /\ NoGame \notin Game
    /\ MaxFailures \in Nat
    /\ Failable \subseteq Pairing
    /\ Creatable \subseteq Pairing \X Game

(* A game on Lichess; "none" is also a challenge nobody has accepted. *)
Played == {"none", "ongoing", "over", "aborted"}

(* A row of games: pairing_id is unique, and never changes. *)
Stored == [pairing : SUBSET Pairing, status : {"none", "in_progress", "finished"}]
NotStored == [pairing |-> {}, status |-> "none"]

Run == [pc : {"idle", "fetch", "list", "match", "upsert", "attach", "read", "write",
              "delete", "fail"},
        phase : {"recheck", "match"},
        todo  : SUBSET (Pairing \X (Game \cup {NoGame})),   \* rows as they were listed
        taken : SUBSET Game,             \* ListAttachedGameIDs, as it was read
        at    : SUBSET (Pairing \X Game),                   \* the game at hand
        seen  : Played,                  \* how Lichess answered for it
        whose : Seq(Player),             \* the standings left to recompute
        games : SUBSET Game]             \* the finished games as Recompute read them

IdleRun == [pc |-> "idle", phase |-> "recheck", todo |-> {}, taken |-> {},
            at |-> {}, seen |-> "none", whose |-> <<>>, games |-> {}]

Rebuild == [todo : SUBSET Player, at : SUBSET Player, games : SUBSET Game]
NoRebuild == [todo |-> {}, at |-> {}, games |-> {}]

VARIABLES
    rows,        \* pairings
    stored,      \* games
    standing,    \* the finished games each player's standing counts
    played,      \* the games on Lichess
    run,         \* each syncer's run
    rebuild,     \* each rebuilder's players left, and the one at hand
    failures     \* auxiliary: runs cut short, and Lichess calls failed

vars == <<rows, stored, standing, played, run, rebuild, failures>>

PlayersOf(p) == {White[p], Black[p]}
AttachedGames == {rows[p].game : p \in Pairing} \ {NoGame}
StoredFor(p) == {g \in Game : p \in stored[g].pairing}

Init ==
    /\ rows = [p \in Pairing |-> FreshRow]
    /\ stored = [g \in Game |-> NotStored]
    /\ standing = [u \in Player |-> {}]
    /\ played = [g \in Game |-> "none"]
    /\ run = [s \in Syncer |-> IdleRun]
    /\ rebuild = [r \in Rebuilder |-> NoRebuild]
    /\ failures = 0

-----------------------------------------------------------------------------
(* A run: recheckInProgressGames, then matchPendingPairings. *)

StartSync(s) ==
    /\ run[s].pc = "idle"
    /\ run' = [run EXCEPT ![s] = [IdleRun EXCEPT !.pc = "fetch",
                  !.todo = {<<p, rows[p].game>> : p \in {q \in Pairing : ToRecheck(rows[q])}}]]
    /\ UNCHANGED <<rows, stored, standing, played, failures, rebuild>>

(* What is next after a pairing: the next one of the same phase. *)
After(phase) == IF phase = "recheck" THEN "fetch" ELSE "match"

(* syncOneGame's first branch, on Lichess's status for the game. *)
FirstStatement(seen) == IF seen = "aborted" THEN "delete" ELSE "upsert"

(* The next game GamesByID streams; a challenge not accepted is no game. *)
FetchById(s) ==
    /\ run[s].pc = "fetch"
    /\ \E x \in run[s].todo :
          run' = [run EXCEPT ![s] = IF played[x[2]] = "none"
             THEN [@ EXCEPT !.todo = run[s].todo \ {x}]
             ELSE [@ EXCEPT !.todo = run[s].todo \ {x}, !.at = {x}, !.seen = played[x[2]],
                            !.pc = FirstStatement(played[x[2]])]]
    /\ UNCHANGED <<rows, stored, standing, played, failures, rebuild>>

RecheckOver(s) ==
    /\ run[s].pc = "fetch"
    /\ run[s].todo = {}
    /\ run' = [run EXCEPT ![s].pc = "list"]
    /\ UNCHANGED <<rows, stored, standing, played, failures, rebuild>>

(* The stream of games broke, or could not be had: matching follows. *)
StreamBreaks(s) ==
    /\ run[s].pc = "fetch"
    /\ run[s].todo # {}
    /\ failures < MaxFailures
    /\ failures' = failures + 1
    /\ run' = [run EXCEPT ![s] = [@ EXCEPT !.pc = "list", !.todo = {}]]
    /\ UNCHANGED <<rows, stored, standing, played, rebuild>>

(* The pairings without a game, and the games taken: read once for the run. *)
ListUnmatched(s) ==
    /\ run[s].pc = "list"
    /\ run' = [run EXCEPT ![s] = [@ EXCEPT !.pc = "match", !.phase = "match",
                  !.todo = {<<p, NoGame>> : p \in {q \in Pairing : Unmatched(rows[q])}},
                  !.taken = AttachedGames]]
    /\ UNCHANGED <<rows, stored, standing, played, failures, rebuild>>

(* The white player's games read, and matching.Match on the pairing. *)
MatchNext(s) ==
    /\ run[s].pc = "match"
    /\ \E x \in run[s].todo :
          LET p == x[1]
              eligible == {g \in Game : p \in Fits[g] /\ played[g] # "none"} \ run[s].taken
          IN  \/ \E g \in eligible :
                    /\ MatchFound(eligible, g)
                    /\ run' = [run EXCEPT ![s] = [@ EXCEPT !.todo = run[s].todo \ {x}, !.at = {<<p, g>>},
                                  !.seen = played[g], !.pc = FirstStatement(played[g])]]
                    /\ UNCHANGED rows
              \/ /\ MatchAmbiguous(eligible)
                 /\ run' = [run EXCEPT ![s].todo = @ \ {x}]
                 /\ rows' = [rows EXCEPT ![p] = MarkPairingAmbiguous(@)]
              \/ /\ eligible = {}
                 /\ run' = [run EXCEPT ![s].todo = @ \ {x}]
                 /\ UNCHANGED rows
    /\ UNCHANGED <<stored, standing, played, failures, rebuild>>

(* Lichess cannot be asked about one white player: their pairings wait. *)
SearchFails(s) ==
    /\ run[s].pc = "match"
    /\ failures < MaxFailures
    /\ failures' = failures + 1
    /\ \E u \in Player :
          LET theirs == {x \in run[s].todo : White[x[1]] = u} IN
          /\ theirs # {}
          /\ run' = [run EXCEPT ![s].todo = @ \ theirs]
    /\ UNCHANGED <<rows, stored, standing, played, rebuild>>

SyncOver(s) ==
    /\ run[s].pc = "match"
    /\ run[s].todo = {}
    /\ run' = [run EXCEPT ![s] = IdleRun]
    /\ UNCHANGED <<rows, stored, standing, played, failures, rebuild>>

-----------------------------------------------------------------------------
(* syncOneGame, statement by statement. *)

(* A row for another game of the pairing: games.pairing_id refuses the insert. *)
UpsertRefused(p, g) == stored[g] = NotStored /\ StoredFor(p) # {}

(* Mutant: a row already there is left as it is. *)
UpsertedOnce(p, g, seen) ==
    IF stored[g] = NotStored
    THEN [pairing |-> {p}, status |-> IF seen = "over" THEN "finished" ELSE "in_progress"]
    ELSE stored[g]

(* Mutant: Lichess's status stored as it is. *)
UpsertedVerbatim(p, g, seen) == [pairing |-> {p}, status |-> seen]

Upserted(p, g, seen) ==
    [pairing |-> IF stored[g] = NotStored THEN {p} ELSE stored[g].pairing,
     status |-> IF seen = "over" THEN "finished" ELSE "in_progress"]

UpsertGame(s) ==
    /\ run[s].pc = "upsert"
    /\ \E x \in run[s].at :
          IF UpsertRefused(x[1], x[2])
          THEN run' = [run EXCEPT ![s] = IdleRun] /\ UNCHANGED stored
          ELSE /\ stored' = [stored EXCEPT ![x[2]] = Upserted(x[1], x[2], run[s].seen)]
               /\ run' = [run EXCEPT ![s].pc = "attach"]
    /\ UNCHANGED <<rows, standing, played, failures, rebuild>>

(* pairings.lichess_game_id is unique: another pairing's game fails the run. *)
Attach(s) ==
    /\ run[s].pc = "attach"
    /\ \E x \in run[s].at :
          IF \E q \in Pairing \ {x[1]} : rows[q].game = x[2]
          THEN run' = [run EXCEPT ![s] = IdleRun] /\ UNCHANGED rows
          ELSE /\ rows' = [rows EXCEPT ![x[1]] = AttachGameToPairing(@, x[2],
                              IF run[s].seen = "over" THEN "completed" ELSE "in_progress")]
               /\ run' = [run EXCEPT ![s] = IF run[s].seen = "over"
                     THEN [@ EXCEPT !.pc = "read", !.whose = <<White[x[1]], Black[x[1]]>>]
                     ELSE [@ EXCEPT !.pc = After(run[s].phase)]]
    /\ UNCHANGED <<stored, standing, played, failures, rebuild>>

(* Mutant: a game counted before it is over. *)
FinishedOrNot(u) ==
    {g \in Game : \E p \in stored[g].pairing : u \in PlayersOf(p)}

(* standings.Recompute: from scratch, from the finished games stored. *)
FinishedOf(u) ==
    {g \in Game : stored[g].status = "finished" /\ \E p \in stored[g].pairing : u \in PlayersOf(p)}

(* Recompute's reads, and later its upsert: nothing holds the row in between. *)
ReadFinished(s) ==
    /\ run[s].pc = "read"
    /\ run' = [run EXCEPT ![s] = [@ EXCEPT !.pc = "write", !.games = FinishedOf(Head(run[s].whose))]]
    /\ UNCHANGED <<rows, stored, standing, played, failures, rebuild>>

WriteStanding(s) ==
    LET whose == Tail(run[s].whose) IN
    /\ run[s].pc = "write"
    /\ standing' = [standing EXCEPT ![Head(run[s].whose)] = run[s].games]
    /\ run' = [run EXCEPT ![s] = [@ EXCEPT !.games = {}, !.whose = whose,
                  !.pc = IF whose = <<>> THEN After(run[s].phase) ELSE "read"]]
    /\ UNCHANGED <<rows, stored, played, failures, rebuild>>

(* An aborted game: its row goes first, then the pairing fails. *)
DeleteGame(s) ==
    /\ run[s].pc = "delete"
    /\ stored' = [g \in Game |-> IF g \in {x[2] : x \in run[s].at} THEN NotStored ELSE stored[g]]
    /\ run' = [run EXCEPT ![s].pc = "fail"]
    /\ UNCHANGED <<rows, standing, played, failures, rebuild>>

FailPairing(s) ==
    /\ run[s].pc = "fail"
    /\ rows' = [p \in Pairing |-> IF p \in {x[1] : x \in run[s].at}
                                  THEN MarkPairingFailed(rows[p]) ELSE rows[p]]
    /\ run' = [run EXCEPT ![s].pc = After(run[s].phase)]
    /\ UNCHANGED <<stored, standing, played, failures, rebuild>>

(* The process dies, the context ends or a statement fails. *)
SyncCutShort(s) ==
    /\ run[s].pc # "idle"
    /\ failures < MaxFailures
    /\ failures' = failures + 1
    /\ run' = [run EXCEPT ![s] = IdleRun]
    /\ UNCHANGED <<rows, stored, standing, played, rebuild>>

-----------------------------------------------------------------------------
(* The others. *)

(* recompute-aggregates: every player in turn, each read and then written. *)
StartRebuild(r) ==
    /\ rebuild[r] = NoRebuild
    /\ rebuild' = [rebuild EXCEPT ![r].todo = Player]
    /\ UNCHANGED <<rows, stored, standing, played, run, failures>>

RebuildRead(r) ==
    /\ rebuild[r].at = {}
    /\ \E u \in rebuild[r].todo :
          rebuild' = [rebuild EXCEPT ![r] = [todo |-> @.todo \ {u}, at |-> {u}, games |-> FinishedOf(u)]]
    /\ UNCHANGED <<rows, stored, standing, played, run, failures>>

RebuildWrite(r) ==
    /\ \E u \in rebuild[r].at : standing' = [standing EXCEPT ![u] = rebuild[r].games]
    /\ rebuild' = [rebuild EXCEPT ![r] = [NoRebuild EXCEPT !.todo = rebuild[r].todo]]
    /\ UNCHANGED <<rows, stored, played, run, failures>>

MarkFailed(p) ==
    /\ rows[p].status = "pending"
    /\ rows' = [rows EXCEPT ![p] = MarkPublishedPairingFailed(@)]
    /\ UNCHANGED <<stored, standing, played, run, failures, rebuild>>

(* RetireUnstartedPairing, of a row that has not changed since it was listed. *)
RetireUnstarted(p) ==
    /\ rows[p].status = "pending"
    /\ ~rows[p].ambiguous
    /\ rows[p].game = NoGame \/ rows[p].method = "challenge"
    /\ rows' = [rows EXCEPT ![p].status = "failed"]
    /\ UNCHANGED <<stored, standing, played, run, failures, rebuild>>

(* create-games records a bulk's game, or a challenge nobody has accepted. *)
CreationRecords(p, g) ==
    /\ Recordable(rows[p])
    /\ p \in Fits[g]
    /\ g \notin AttachedGames
    /\ rows' = [rows EXCEPT ![p] = IF played[g] = "none" THEN RecordChallenge(@, g)
                                                         ELSE RecordCreatedGame(@, g)]
    /\ UNCHANGED <<stored, standing, played, run, failures, rebuild>>

(* On Lichess: a game starts, by hand or as an accepted challenge, and ends. *)
Play(g) ==
    /\ \/ played[g] = "none" /\ played' = [played EXCEPT ![g] = "ongoing"]
       \/ played[g] = "ongoing" /\ \E end \in {"over", "aborted"} :
                                       played' = [played EXCEPT ![g] = end]
    /\ UNCHANGED <<rows, stored, standing, run, failures, rebuild>>

-----------------------------------------------------------------------------
SyncStep(s) ==
    \/ StartSync(s) \/ FetchById(s) \/ RecheckOver(s)
    \/ ListUnmatched(s) \/ MatchNext(s) \/ SyncOver(s)
    \/ UpsertGame(s) \/ Attach(s) \/ ReadFinished(s) \/ WriteStanding(s)
    \/ DeleteGame(s) \/ FailPairing(s)

Trouble(s) == StreamBreaks(s) \/ SearchFails(s) \/ SyncCutShort(s)

RebuildStep(r) == StartRebuild(r) \/ RebuildRead(r) \/ RebuildWrite(r)

OtherStep ==
    \/ \E r \in Rebuilder : RebuildStep(r)
    \/ \E p \in Failable : MarkFailed(p) \/ RetireUnstarted(p)
    \/ \E x \in Creatable : CreationRecords(x[1], x[2])
    \/ \E g \in Game : Play(g)

Next == (\E s \in Syncer : SyncStep(s) \/ Trouble(s)) \/ OtherStep

Spec == Init /\ [][Next]_vars

(* Every hour a run starts, its statements are executed and every pairing    *)
(* is come to, but for the bounded failures; the nightly recompute comes.    *)
Fairness ==
    /\ \A s \in Syncer : WF_vars(SyncStep(s))
    /\ \A r \in Rebuilder : WF_vars(RebuildStep(r))

FairSpec == Spec /\ Fairness

-----------------------------------------------------------------------------
(* Properties. *)

TypeOK ==
    /\ rows \in [Pairing -> RowOf(Game)]
    /\ stored \in [Game -> Stored]
    /\ standing \in [Player -> SUBSET Game]
    /\ played \in [Game -> Played]
    /\ run \in [Syncer -> Run]
    /\ rebuild \in [Rebuilder -> Rebuild]
    /\ failures \in 0..MaxFailures

(* A completed pairing's game is stored as finished, so that its result can  *)
(* count: sync-games never fetches it again (ListPairingsToRecheck: "worth   *)
(* re-fetching ... hasn't reached a terminal pairing status").               *)
CompletedIsStored ==
    \A p \in Pairing : rows[p].status = "completed" =>
        stored[rows[p].game].status = "finished"

(* However the reads and the writes of the runs and the rebuilds fall, and    *)
(* wherever one is cut short, the standings end as the finished games stored  *)
(* say ("self-healing backstop against incremental drift", standings.go): a   *)
(* stale write is repaired, and a game counted twice or never does not stay.  *)
StandingsSettle ==
    <>[](\A u \in Player : standing[u] =
            {g \in Game : stored[g].status = "finished"
                          /\ \E p \in stored[g].pairing : u \in {White[p], Black[p]}})

(* The result of every game a pairing holds reaches both players' standings, *)
(* whatever runs are cut short between two statements, unless the pairing is *)
(* failed first.                                                             *)
ResultsCount ==
    []<>(\A p \in Pairing, g \in Game :
            (rows[p].game = g /\ played[g] = "over") =>
                rows[p].status = "failed" \/ \A u \in PlayersOf(p) : g \in standing[u])

(* Spec 6.3: "A pairing's status only ever moves with a guarded update        *)
(* (WHERE status = 'pending' AND lichess_game_id IS NULL), so an admin's Mark *)
(* failed in the meantime wins": a pairing once failed stays failed.          *)
FailedStep ==
    \A p \in Pairing : rows[p].status = "failed" => rows'[p].status = "failed"

MarkFailedWins == [][FailedStep]_vars
=============================================================================
