# Verification of the infinite correspondence league

This directory holds TLA+ specifications of the league's program (the Go module
under `src/`), TLC configurations that model-check them, and theorems about them
with proofs checked by TLAPS. Paths below are relative to `src/`.

Two databases of facts meet in this program: its own Postgres tables, and what
exists on Lichess. No transaction spans both, jobs are retried, admins and players
act between any two statements. The specifications are about exactly that.

## 1. Inventory

| Component | Code | State it keeps | Operations |
|---|---|---|---|
| Rounds | `internal/rounds/{generate,publish,edit,rounds}.go` | `rounds`, `pairings`, `byes`, `double_games`, `round_exclusions`, two partial unique indexes | generate, regenerate, publish (an admin, the publish-round job, the hourly sweep), cancel, flip, swap, remove, mark failed |
| Game creation | `internal/rounds/create.go`, `cmd/ic/create_games.go` | `rounds.game_creation`, the pairings' game ids and methods, notices, tokens marked revoked, the job's attempts | adopt, probe, bulk, challenge, finish, give up, retry |
| sync-games | `cmd/ic/sync_games.go`, `internal/ingest`, `internal/matching` | `games`, the pairings' status and game id, standings | recheck by id, match, upsert, attach, delete, fail, recompute |
| Activity | `internal/activity`, `cmd/ic/cancel_challenge.go` | `missed_starts`, auto-pauses and resumes, notices, cancel-challenge jobs | list, ask Lichess, retire, record a miss, warn, pause, resume, withdraw a challenge |
| Pairing engine | `internal/pairing` | none (pure) | pool, odd pool, cost, solver, colours |
| Standings | `internal/standings` | `standings`, levels | recompute one player, recompute all |
| Scoring | `internal/scoring` | none (pure) | results to points and levels, capacity |
| Tokens | `cmd/ic/validate_tokens.go`, `internal/tokenhealth` | `oauth_tokens.revoked_at`, grace, notices | nightly test, revoke, tell |
| Registration | `internal/web/{auth,admin}.go` | `users.status`, roles, `oauth_tokens`, notices | join, sign in, approve, reject, bootstrap an admin |
| Jobs | `internal/jobs`, river | the queue, unique keys, attempts | schedule, run, retry, discard |
| Web | `internal/web`, `internal/session` | sessions, profiles | pages, admin actions, a player's own switches |
| Notifications | `internal/notify` | `notifications` with `dedupe_key` | notify once, mark read |
| Settings | `internal/settings` | `settings` | read, validate, write |
| Lichess client | `internal/lichess` | none | bulk, challenge, games by id, games of a player, token test |
| Command line | `cmd/ic` | none | the jobs by hand, imports, seeding |
| Encryption, configuration | `internal/tokencrypt`, `internal/config` | none | seal, open, parse |

How they interact:

* *Calls in one transaction.* A page handler or a job opens a transaction and calls
  `internal/rounds`; the round's row lock (`GetRoundForUpdate`) serialises whoever
  changes one round. Publication queues the create-games job in the same transaction.
* *Jobs.* river runs publish-round at the end of the review window, an hourly
  sync-games (with the sweep and evaluate-activity), create-games after publication
  and nightly recompute-aggregates and validate-tokens. Each kind has one worker in
  `ic serve`; `ic sync-games` and `ic generate-round` run in processes of their own.
* *Shared rows.* create-games, sync-games, evaluate-activity and the admin's *Mark
  failed* all update rows of `pairings`. Only some of the updates are guarded.
* *Lichess.* Calls can fail, be refused, or succeed with their answer lost.

What is hard: sessions that read and write in different statements
(`generate.go`); a job cut short between a call to Lichess and the transaction that
records it (`create.go`); updates without a guard after a slow call
(`sync_games.go`); a lost job; a token replaced while a run holds the old one; the
notices' once-only keys against an admin's retry. The hazards in `PROJECT.json`
list each at its line, with the property that would catch it.

What makes each component correct. Rounds: one draft, distinct numbers, decided
rounds final, each member seated exactly as recorded, caps, every draft decided; seen
from outside, a calendar. Game creation: no game made twice, nothing given to a
pairing that moved on, everybody told how their game starts, no good token revoked,
every creation ends. sync-games and standings: a completed pairing's result is stored
and counted, and standings settle on the stored games. Activity: nobody misses a start
they accepted or is paused too soon, and nothing that failed stays open. Pairing
engine: a matching with a certificate, a cheapest one, seated as promised, with byes
in rotation. Membership: only a dead token is marked, its grace is full, each lapse
and decision is told.

## 2. Plan

1. `Rounds`, the state machine all else hangs on, over `Seating`, the engine's promise;
   proofs in `RoundsProofs` and `SeatingProofs`, the caps among them. *Done.*
2. `PairingRows`, the rows and statements three jobs share. *Done.*
3. `GameCreation`, the create-games job; proofs in `CreationProofs`. *Done.*
4. `SyncGames`, statement by statement, with `Recompute` in its read and its write and
   the nightly rebuild beside it; proofs in `SyncProofs`. *Done.*
5. `Activity`, with evaluate-activity racing retries, acceptances and itself; proofs in
   `ActivityProofs`. *Done.*
6. `Membership`: sign-in, registration and token health; proofs in `MembershipProofs`.
   *Done.*
7. `PairingEngine`, the engine's pure steps, `Season`, the rounds one after another
   whatever the solver, and `Blossom`, the solver, which implements `Season`; proofs about
   the first two in `SeasonProofs`, and about the greedy solver and the certificate in
   `SolverProofs`. *Done; the blossom solver's recursion keeps `Blossom` itself out of the
   prover's reach.*
8. `Schedule`, what the rounds promise, with `Rounds` shown to implement it by TLC and by
   `RoundsProofs`. *Done.*
9. `PairingLife`, what the league promises the players of each pairing, with `GameCreation`
   shown to implement it by TLC and by `CreationProofs`. *Done.*

Parameters are CONSTANTS with named assumptions and each operation is one action. Only
`Blossom` declares RECURSIVE operators, and no module that is proved about reaches it.

## 3. The modules and the code

### Rounds

State: `rounds` and `content` are the tables; `session[g]` holds what one generation
has read and not yet written; `publishJobs` and `createJobs` are river's queue;
`cfg` is the two settings that matter; `away` is who `statusOf` finds ineligible.

A transaction under the row lock is one action. `Generate` takes no lock, and under
READ COMMITTED each of its statements sees what committed before it, so it is three
steps: `GenerateNumber` (`NextRoundNumber`), `GeneratePool` (`loadPool`) and
`GenerateInsert`, which the two partial unique indexes may refuse (`NumberTaken`,
`DraftConflict`). `Regenerate` holds the lock from its pool read to its write:
`RegenerateRead`, `RegenerateWrite`, with the round `Locked` between them for everyone
else. `GenerateFails` is the rolled-back transaction. Publication has its three
publishers as three actions over one `Publish`; each of them is the guarded update,
a no-op when the round is no longer a draft. The five edits have the code's guards
and the refusals of the `CHECK` and the unique key of `pairings`.

The pairing engine is here by its promise, `Seating!Seated`: the members of the pool
once, a volunteer twice with one of each colour against two opponents, a bye not at
all. Which matching, bye, volunteer or colours the engine picks is left open here;
`Blossom` checks that the engine keeps the promise. What
sync-games makes of a published pairing is here only as "no longer in flight".
The counted rounds of a pool read are auxiliary: the cap property speaks of them.

### PairingRows

The pairings row, the lists the jobs select by (`Unmatched`, `ToCreate`, `ToRecheck`)
and the UPDATEs as operators from row to row, guards included where the SQL has them.

### GameCreation

One round, published under `lichess`. `job` is river's row; `run` is the attempt under
way, its `pc` the step of `CreateGames` it has come to and its other fields what it
holds in memory. Actions follow the code's order: `StartRun` (reads the setting),
`SearchByHand` (a retry's first step), `Load`, `Adopt`, `ProbeRead`/`ProbeAnswer`,
`BulkAccepted`/`BulkRefused`/`BulkAnswerLost`, `RecordBulk`, `ListChallenges`,
`SendChallenge`/`RecordSent`, `Finish`, `JobCompleted`. `Interrupted` is any error,
cancelled context or crash with attempts left; `LastAttemptFails` gives up;
`LastAttemptLost` is the last attempt that cannot. Around it: an admin's retry,
*Mark failed* and setting switch; sync-games, which lists the pairings without a game
(`SyncList`), searches for each whatever became of it since (`SyncMatch`), and finds the
games the league gave by their ids (`SyncRecheck`); players who start a game, accept a
challenge, lose a token or sign in. A search, sync-games' or a retry's own, may have read
only some of the two players' games (`MatchOne`): those started later are missing. A
token's identity is its sealed bytes in the code; here `renewed` says that the bytes a run
read are stale.

### PairingLife

What the round page and the notices show of each pairing: its `stage`, its `game`, the last
`word` its players got, whether the league has had a game `made` for it, whether it is
`making` the round's games, and for which pairings games are `sought`. A game is made once;
only a pairing that waits is given one, while games are made, with the word that fits; a
search takes in only pairings that wait, and a found game replaces what the league gave only
if that search began before; when no more games are made, those who wait have been told to
start theirs. `GameCreation` implements it (`Life`, `KeepsPairings`) with `StageOf` a row,
the later of the two notices (`LastWord`), the games of the organiser's bulks, and
`SearchedFor`, the lists of sync-games and of a retry's search. Runs, attempts, tokens and
answers are gone from it.

### SyncGames

Each statement of `syncOneGame` commits on its own and is an action: `UpsertGame`
or `DeleteGame`, `Attach` or `FailPairing`, then `ReadFinished` and `WriteStanding`
for white and for black. `at` and `seen` are the answer the run acts on, which may be
stale by then; `taken` is the list of games in use, read once per run. The two unique
indexes, on `games.pairing_id` and on `pairings.lichess_game_id`, refuse as in the
schema and end the run. `StreamBreaks`, `SearchFails`, `SyncCutShort` are the failures.
`rebuild` is recompute-aggregates, player by player, each read before it is written. A
standing is the set of finished games it counts: its totals, level and rank are
arithmetic on that set. Games are none, ongoing, over and aborted.

### Activity

An evaluation is `EvaluateStart` (the draft check and `ListUnstartedPairings`),
`EvaluateAsk` (`accepted`, which asks Lichess) and `EvaluateCommit`, the one transaction
of retirements, missed starts, cancel-challenge jobs, warnings and pauses, in which
`Retirable` is the UPDATE's guard and `Streak` what `Current` computes. `job` is the
cancel-challenge job, unique per pairing whatever its end (`Queued`), with a refusal no
retry helps (`CannotWithdraw`) and failures that are retried (`CancelFails`). The making
of challenges, sync-games and the rounds are here in one step each: their own
interleavings are in the modules above. Time is a small counter, and a time of 0 is NULL.

### Membership

A sign-in is a conversation: `Authorise` (the redirect, Lichess's page and the exchange
of the code), `SignInRead` (who this is, and whether they are refused), then either
`GiveBack` or `SignInWrite`, the transaction of `register` or `signInExisting` with
`storeToken` and `bootstrapAdmin`. `SignInBlocked` is where a statement of it fails because
the row changed since the read. `Approve` decides several applications at once, `Reject`
one. A run that tests tokens is `ListTokens` or `ProbeTokens`, `AskLichess` with any part of
the tokens answered, and a `RevokeToken` for each refused one, guarded as in the SQL. A
token is a number in the order Lichess grants them: it stands for the sealed bytes and
`issued_at`. `InvalidSince`, `Valid` and `Excluded` are `tokenhealth.PlayerOf`'s rules.

### PairingEngine, Season and Blossom

`PairingEngine` has the pure steps of `pairing.Generate` as operators: the pool and its
reasons, the volunteer and the bye with their rotation (`Precedes`), the window of
repeats, costs, the greedy solver and the colours, the volunteer's apart. Sequences
stand for slices where their order decides.

`Blossom` is the solver, one action for each move of `run`: a new stage, a vertex taken
from the queue, an edge visited, the duals adjusted, the stage ended. `m` is the `matcher`
struct, with the fields of a blossom as a record; `AddBlossom`, `ExpandAll` (the end of a
stage), `ExpandT` (mid-stage) and `AugmentBlossom` are operators from matcher to matcher.
Iteration over a map in the code is sorted (`orderedIDs`), so the model's order is the
code's.

`Season` is the rounds around the solver, generated and published one after another:
`Assemble` reads the pool of a round (`loadPool`), and `PublishRound` appends what was
generated and gives the next round the byes, doubles and colours of the members (`Played`)
and the history the queries give (`Recent`). So the rotation of byes and the price of
repeats are checked over rounds, not on one call. `Season` leaves open who meets whom
beyond `SeatsThePool`, the seating any perfect matching of the slots leads to; `Outcome` is
the rest of what `Generate` returns: the bye, the volunteer, the reasons and each game's
diagnostics. `SolverSpec` has the same rounds made by `Generate` from some `Perfect`
matching of the graph, which is all that is assumed of a solver (`Solver.Match`: "every slot
paired exactly once", never a pair that is not allowed); it is for the proofs, since TLC
would have to list the matchings. `GreedySpec` has them made from `GreedyMatch`, the greedy
solver as a recursive function along `GreedyOrder`: first the volunteer's two slots, then
every slot. `Blossom` computes a matching between the two steps (`StartRound`,
which is `Assemble`, and `Publish`, which is `PublishRound` of `Generate`'s result) and
implements `SeasonSpec` with the same `league` and `results`.

### Schedule

The abstract specification of the rounds: a calendar whose rounds are opened, revised
while a draft, announced or withdrawn, once each, and whose create-games jobs are
queued exactly with the announcement. `Rounds!KeepsCalendar` is the refinement: status,
number, notice (who meets whom with which colour, who sits out and why), the way the
games are made and the queue, read off the tables. Sessions, locks, windows and
publish-round jobs are not in it.

## 4. The runs

Bounds: the number of players, pairings and games is set by the `.cfg`; the counters
`MaxRounds`, `MaxAttempts`, `MaxSubmissions`, `MaxRetries`, `MaxFailures`, `MaxClock` and
`MaxTokens` bound rounds, attempts, bulk submissions, retries, failures, time and
authorisations, and `Restless`, `Reviewed`, `Fickle`, `Failable`, `ByHand`, `Creatable`,
`Startable` say who or what the environment touches. Deadlock is not an error anywhere:
once its bounded rounds or games are over, and nobody acts, each system rests.

| Run | Instance | Shows |
|---|---|---|
| `rounds_edit` | 3 players, `a` and `b` volunteer, `a` capped at one game, 1 session, 1 round, all may leave and return, fairness | `EveryoneAccountedFor` through every mix of generation, regeneration and edits; `CapBoundsGames` at the boundary where a volunteer has room for one game and not for two; `DraftsAreDecided` although the job is lost and locks and edits come between. Three players are the least with a double game, and a swap next to a double needs no more |
| `rounds_race` | 2 players, `a` capped at one game, 2 sessions, 2 rounds, both modes | `LiveRoundsDistinct`, `CapBoundsGames`, `DecidedIsFinal`, `KeepsCalendar`: two sessions and two rounds are enough for every pairwise race of reads, inserts, locks and publishers. The two sessions are symmetric, which is sound: no action or property tells them apart, and none is a liveness property |
| `rounds_gaps` | 2 players, 2 rounds | violated: finding 1 |
| `creation_bulk` | two pairings that share a player, good tokens, 2 attempts, 1 retry, one failed and one by hand, last attempt may be lost | `BulkOnce`, `LeftAreTold`, `ToldOfGame`, `RecordsOnlyWaiting`, `KeepsPairings` |
| `creation_settles` | two pairings, `c` has no token, `b`'s comes and goes, so that bulks shrink and challenges are sent; 2 attempts, 1 retry, sync-games searches for `ca` only, fairness | `ChallengesExplained`, `WorkingTokensKept`, `CreationSettles`, and `KeepsPairings` with challenges |
| `creation_orphan` | good tokens, last attempt may be lost | violated: finding 2 |
| `sync_results` | two rounds' pairings of the same players, a game that fits both, a failed and a created pairing, 1 failure, the nightly rebuild, fairness | `CompletedIsStored`, `StandingsSettle`, `ResultsCount`. The second game is what makes a stale list or a taken game matter |
| `sync_failed` | one pairing, one game | violated: finding 3 |
| `sync_blocked` | one pairing, two games that fit it, 1 failure, fairness | violated: finding 4 |
| `engine` | six leagues of 6 or 8 players, one for each way the solver can expand a blossom, and sixteen clubs of 5 for three rounds each with players away, under both solvers and both odd-pool strategies | `Certificate`, `CheapestMatching`, `KeepsContract`, `ByesRotate`, `RepeatsArePriced`, `RoundsAreMade`, and `SeasonSpec`: what `Blossom` publishes is a season of `Season`, about which `SeasonProofs` is. Expansions are rare: the six leagues were found by searching random ones, and each takes a branch of `expandBlossom` the others do not |
| `activity` | `b` has two challenges to accept in one round and one in the next; 1 evaluator, pause after 2, 1 retry, 3 points of time, fairness | `MissesAreDeserved`, `PausesAreEarned`, `ChallengesAreWithdrawn`, `NothingWaitsForever`. Two challenges of one round must not make a pause, two rounds must |
| `membership` | an admin and an applicant, two browsers, a validator and a probe, 2 authorisations, a life and a grace of 1, 4 points of time, fairness | `RevokedIsDead`, `GraceHolds`, `LapsesAreTold`, `DecisionsAreTold`, `DeadTokensAreFound`. Two authorisations are one that is replaced and its replacement; 4 points of time reach past the grace |

Two attempts stand for the code's ten and two submissions for its three: what an
attempt finds is the rows, the games and the notices its predecessor left, and these
do not depend on how many went before; the boundary cases are the first, the next and
the last. One retry is enough for the second notice key to come into play.

### Fairness

* `Rounds`: weak fairness of `WindowEnds` (time passes) and of `RegenerateWrite` (a
  transaction ends), strong fairness of `PublishDue`: the sweep comes every hour and
  waits for a lock others may take in between, and Postgres queues for row locks. No
  admin, session or publish-round job has to act.
* `GameCreation`: weak fairness of a run's next step and of the end of a run that met
  an error: `ic serve` works its queue. The environment owes nothing. The run uses
  `Doomed = FALSE`; `creation_orphan` shows why that is needed.
* `SyncGames`: weak fairness of each syncer's next step and of each rebuild's, which
  river schedules hourly and nightly. Failures are bounded, because a Lichess that is
  always down refutes everything.
* `Activity`: weak fairness of an evaluation's steps (every generation evaluates), of the
  worker's `CancelChallenge`, of time, and of publication and the end of a creation, which
  `rounds_edit` and `creation_settles` show; strong fairness of `EvaluateAsk`, since Lichess
  may fail any number of times and does not fail for ever. Players and admins owe nothing.
* `Membership`: validate-tokens runs every night (weak fairness of `ListTokens`), and again
  and again a run is not cut and Lichess answers it in full (strong fairness of those steps).
* `Blossom`: the solver is a function that is called and computes: its next step comes.

## 5. What is proved

The only assumptions on the constants are the named ones (`RoundsAssumption`,
`MembershipAssumption`, `CreationAssumption`, `ActivityAssumption`, `SyncAssumption` and
`SeasonAssumption`), which say what they are (of a round's pairings and of a league's
members, that they are finitely many); nothing bounds the number of players, sessions,
rounds, pairings, games, browsers, runs, evaluations, authorisations, attempts, submissions
or retries. Two theorems have a hypothesis of their own, and without it TLC finds a
counterexample (section 6): `CompletedStored` is about one process that runs sync-games,
which is how `ic serve` runs it, and `RepeatsPriced` about rounds whose numbers skip none.

* `RoundsProofs!TypeCorrect`, `DistinctRounds`, `Finality`. The inductive invariant is
  `IInv == TypeOK /\ LockHeld /\ LiveRoundsDistinct`. `LockHeld` says that a session
  that regenerates has the lock of a draft to itself. Without it a round could be
  published between a regeneration's two statements, and `RegenerateWrite` would change
  a decided round; with it, `Finality` is a case split on `Next`. `DistinctRounds` rests
  on the two indexes at the insert, on `IsNextNumber` for nothing at all: even a stale
  number is safe, and the proof shows it.
* `SeatingProofs!Accounted`, for `EveryoneAccountedFor`, with
  `SeatInv == IInv /\ AllPlaced /\ PoolsSound`. `AllPlaced` adds to the property that
  no game is a player's own and that at most one member plays twice; both are needed to
  show a swap harmless next to the volunteer's two games. `PoolsSound` keeps a
  session's volunteers within its own pool across the steps between read and write.
  `WrittenPlaced` shows that a draw is placed, `ReplacePlaced` and its siblings that
  each edit keeps it.
* `SeatingProofs!CapsHold`, for `CapBoundsGames`, with
  `CapInv == SeatInv /\ ReadsNested /\ PoolsRoomy /\ SeatsRoomy`. A pool read counts the
  games of the rounds published by then, and published rounds only become more, so of two
  reads one counted all the rounds the other did (`ReadsNested`). What a read found room
  for stays true: games under way in the rounds it counted only end (`RoomKept`), and what
  a session writes, and an admin's edits make of it, is at most what it found room for. If
  of every two rounds a member plays in one counted the other, one counted all the others
  (`LastReader`), and had room for its own game, or a volunteer's two, beside theirs. The
  proof shows that the exception the property makes, two rounds of which neither counted
  the other, is the only one.
* `RoundsProofs!Implements`, for `KeepsCalendar`: the initial states map to the
  calendar's, and each step of `Rounds` to one of its steps or to a stutter. It rests on
  `IInv`: a regeneration's write is a `Revise` only because `LockHeld` says the round is
  still a draft. An insert is `OpenDraft` or `OpenPublished` by the two indexes
  (`InsertOpens`); edits and regenerations revise (`RevisionRevises`); a cancelled round's
  notice stays, since it does not speak of the pairings' status (`SameGames`).
* `MembershipProofs`: `TypeCorrect`, `NoLiveTokenRevoked`, `LapsesTold`, `GraceKept` and
  `DecisionsTold`, for `TypeOK`, `RevokedIsDead`, `LapsesAreTold`, `GraceHolds` and
  `DecisionsAreTold`. The inductive invariant `MInv` adds who holds what (`StoredGranted`,
  `SignInsGranted`, `RowsGranted`: a stored token, a sign-in under way and a row a run has
  read each name a token Lichess granted to that very player, and a refused row's is dead),
  that a mark comes no earlier than the death it records (`MarksLate`), that notices speak
  of dead tokens (`NoticesTrue`), and what an applicant has been told against where the
  application can be now (`DecisionsFinal`). Without `RowsGranted` a run that read its rows
  before a sign-in could mark the new token; with it, the guard of `MarkTokenRevoked` is
  seen to be exactly enough. A dead token stays dead, so a run's answer does not go stale.
* `CreationProofs`: `TypeCorrect`, `NeverTwoBulkGames`, `LeftPlayersAreTold`,
  `NoticesMatchGames`, `OrphansExplained`, `OnlyWaitingRecorded` and `TokensThatWorkStay`,
  for `TypeOK`, `BulkOnce`, `LeftAreTold`, `ToldOfGame`, `ChallengesExplained`,
  `RecordsOnlyWaiting` and `WorkingTokensKept`: all the safety properties the runs check of
  `GameCreation`. The inductive invariant is `CInv`. `BulkOnce` is safe because adoption
  looks at every pairing that could get a game (`AdoptSeesAll`), finds its bulk game under
  no other pairing (`GamesTheirs`), and so leaves to the next bulk only pairings without
  one (`NoBulkYet`); that lasts because `Left` never grows (`RowsKeep`), whatever
  sync-games and the admins do meanwhile. `ToldOfGame` needs `Untold`: a pairing that can
  still be given a game has no notice of one, and in a first run no notice of playing by
  hand, because that run ends the creation with it (`CreatingWhileMaking`).
  `ChallengesExplained` counts all but the challenge in the run's hands
  (`OrphansCounted`), which is for a pairing without a game (`ChallengesWanted`): its
  record either takes it or finds the pairing no longer pending. The steps are grouped by
  what they touch: `QuietRunKeeps`, `FinishKeeps`, `RecordKeeps`, `OutsideKeeps`.
  `KeepsPromises`, for `KeepsPairings`: every step of `GameCreation` is one of `PairingLife`
  or shows nothing. `LifeInv` adds to `CInv` that players the league gave nothing were told
  of nothing but to play by hand (`ToldOfNothing`), without which the end of a creation could
  change the word of a pairing it passes over; that what a run is about to record is on
  Lichess (`RecordsMade`); and that a pending pairing's game is its challenge
  (`PendingIsChallenge`), so that *Mark failed* never reaches a game made in bulk. A search
  only narrows once begun (`SearchesGoOn`), which is what lets a stale list be `sought`.

* `SyncProofs`: `TypeCorrect` (`TypeInv` adds that a run fetches by id only what has one),
  for any number of processes, and `CompletedStored`, for `CompletedIsStored`, with
  `StoredInv`. A completed pairing's game is over, and Lichess never says otherwise again
  (`CompletedIsOver`); what a run has listed is not completed (`TodoOpen`); and a game at
  hand between two statements is stored as finished before `Attach` completes its pairing,
  or was not over and is no completed pairing's (`AtHand`), so that neither a stale answer's
  upsert nor a delete reaches the row of a completed pairing. A second process breaks
  `AtHand`: it can complete a pairing while the first holds an older answer for its game.
* `ActivityProofs`: `TypeCorrect`, `MissesDeserved` and `PausesEarned`, for `TypeOK`,
  `MissesAreDeserved` and `PausesAreEarned`, for any number of evaluations at once.
  `AskedInTime` is what an evaluation still knows when it commits: a challenge it listed
  and did not find accepted had not been accepted when it began, because a later start is
  dated after that (`Dated`). With the guard of `RetireUnstartedPairing` this makes a miss
  deserved, and a failed pairing does not change again. A pause counts rows where the
  property counts rounds; they agree since there is one row for a player and a round
  (`MissesUnique`, the `ON CONFLICT` of `InsertMissedStart`, in `StreakCountsRounds`).
* `SeasonProofs`, about the engine without its solver. `OddAsPromised`: the bye or the
  volunteer `pairing.Generate` takes is one of those `Seating!OddOutcomes` promises, from
  which `Rounds` draws. `AnySolver`: whatever the solver matched, what `Generate` makes of it
  is an `Outcome`. `PerfectSeats`: if the matching is `Perfect`, the games seat the pool as
  the contract has it. Its argument follows `Generate`: the slots are the pool's players once
  and the volunteer twice (`SlotsMade`, on the sorting lemma `SortedOnce`); two matched pairs
  never have the same two players, since only one player has a second slot (`SidesDiffer`),
  so the display order is a total one that lists every pair once (`OrderedOnce`); colouring
  keeps who plays whom, and the volunteer's two games, which are two different ones
  (`TwoGames`), get a colour each (`ColouredOnce`); then everyone's games follow from their
  slots (`SeatedOnce`). `SolverImplements` makes of the two the refinement
  `SolverSpec => SeasonSpec`, so that what is proved of `Season` holds of the code's rounds
  with any solver that finds perfect matchings. `ContractKept`, for `KeepsContract`: every
  round of every season has the bye or the volunteer the strategy asks for, read off the
  stored reasons (`PoolOfReasons`), and the seating `Rounds` relies on. `ByesTaken`, for `ByesRotate`, with
  `ByeInv`: a member's last bye is no earlier than a round exactly if that round or a later
  one gave it (`LastByesTrue`), and the bye goes to one of the pool whose last bye is the
  longest ago (`ByeLeast`). `RepeatsPriced`, for `RepeatsArePriced`, with `RepeatInv`: as
  long as no number is skipped (`NoneSkipped`), the window by rank that `ListRecentOpponents`
  takes is the window by subtraction that `repeatOf` takes, and the meetings in it are still
  in the history (`Remembered`).

* `SolverProofs`, about the two solvers. `GreedyPerfect`: the greedy solver's matching is
  `Perfect` for every pool of every league. `Solvable` is what a league's graph has: an even
  number of slots, no player with more than two of them and one at most with two, nobody
  alone (`GraphSolvable`, on `EvenPool`). While it is matched, the free slots stay even in
  number and what is matched stays matched once (`MatchedSoFar`); once the volunteer's two
  slots have had their turn the free ones belong to different players (`Apart`), so whoever
  looks next finds one (`MatchOne`), and the panic of `cheapestPartner`, whose comment says
  "unreachable", is never reached. `GreedyImplements` then is the refinement
  `GreedySpec => SeasonSpec`, with nothing assumed of a solver. `CertifiedCheapest`: a perfect
  matching that has a certificate (`Certified`, what `verifyOptimum` checks) costs no more
  than any other perfect matching, for every pool, every family of blossoms and all duals.
  The argument is linear-programming duality: an edge's duals are at most twice its cost and
  twice the duals of the blossoms around it (`SlackIs`), with equality on the matched edges;
  added up over a perfect matching the slots' duals are always the same (`SumOverPairs`), and
  no perfect matching has more edges inside a full blossom than this one (`FullIsMost`,
  `DualsAtMost`). The sums are those of the community modules' folds, and `SumOfOneMore`
  shows that they do not depend on the order the fold takes. Where the code reads "full"
  off every other edge of a blossom's cycle, `Certified` asks that all of its slots but one
  are matched inside it, which is what the argument needs; `Certificate` has both, so the
  run shows that they hold together at every step. Induction over a recursive function or a
  finite set is a lemma about a set of numbers or of subsets (`NatSetInduction`,
  `AddingInduction`), since a theorem with an operator as its parameter cannot be used.

Only model-checked: the liveness properties (`DraftsAreDecided`, `CreationSettles`,
`StandingsSettle`, `ResultsCount`, `RoundsAreMade`, `ChallengesAreWithdrawn`,
`NothingWaitsForever`, `DeadTokensAreFound`), since fairness and ENABLED are out of the
prover's reach; and what is said of the blossom solver itself, whose operators are RECURSIVE
ones: that it keeps its `Certificate` from step to step, that what it returns is `Perfect` and
`CheapestMatching`, and that `Blossom` implements `SeasonSpec`. The theorems take over from
there: `CertifiedCheapest` from the certificate, `PerfectSeats` and `SolverImplements` from
`Perfect`.

## 6. What the violated runs show

1. `rounds_gaps`: `publish.go` says a cancelled draft's number is reused and "the
   sequence has no gaps". `NextRoundNumber` is the highest live number plus one, so once
   `pairing.mode` is switched and a later round is published past the draft, the
   cancelled number is never used again.
2. `creation_orphan`: migration 00013 says of a round `creating` that a job "is queued or
   running". A last attempt that dies, fails to create its job run, or fails to give up
   leaves it so with no job, and the page offers a retry only for the two other states.
3. `sync_failed`: the specification says an admin's *Mark failed* "in the meantime wins".
   `AttachGameToPairing` has no guard and undoes it.
4. `sync_blocked`: a game stored but not attached, because the run stopped between
   its two statements, blocks by `games.pairing_id` the game create-games records for
   the same pairing. Every later run's insert is refused and ends the run there.

Four more observations have no run of their own.

* A game the players started by hand can take the place of the one create-games made for
  them, or of the challenge it sent, after both were told of it: sync-games lists the pairing
  while it has none, and `AttachGameToPairing` has no guard. In `creation_bulk` this happens
  to a bulk game; `KeepsPairings` says that no search begun later does it.
* The games row of finding 4 also stays behind when the pairing is marked failed instead:
  no later run looks at it, so an aborted game keeps counting against its players' capacity.
* With `ic sync-games` beside the hourly job (`Syncer = {job, cli}` in `sync_results.cfg`)
  TLC finds `CompletedIsStored` violated: an older answer overwrites a finished game whose
  pairing the other process then marks completed. The runs check what the program
  promises with one sync at a time, which is how `ic serve` runs it.
* With numbers that are skipped (`Gaps = {0, 1}` in `engine.cfg`; finding 1 is how a number
  comes to be skipped) TLC finds `RepeatsArePriced` violated. `ListRecentOpponents` takes the last
  rounds by rank and says that subtraction "would silently shrink the window by counting
  the gap as if a round had happened" (`internal/db/queries/rounds.sql`); `repeatOf` then
  subtracts the numbers (`internal/pairing/cost.go:31`), and a meeting in the oldest round
  of the window is no repeat.

## 7. What is not modelled, and why

* Scoring beyond `CapacityAllows`, ratings, levels and ranks: arithmetic on values a single
  call has in hand; a standing is the set of results it counts.
* Notices of publication, the 48-hour reminder, level-up notices, the audit log: written
  in the same transaction as what they report, or wording. A level-up notice is lost when a
  run is cut between `Recompute` and it; nothing promises it.
* Sessions: a row says which user a request is from, in one statement. Opting out of
  notices, settings, a player's own switches: one statement each, seen by the models as
  constants, as variables that may change at any step, or as who is away.
* The check of the organiser's token for the admin's page: a cached answer on a page.
* Rendering, routing, forms, HTTP, throttling and JSON: input and output. The Lichess
  client appears as the outcomes its callers can see.
* Encryption, configuration, imports: no state, or one transaction by hand.
* river and Postgres: external, as the guarantees the code leans on (a committed job
  runs, unique indexes, row locks, READ COMMITTED).
