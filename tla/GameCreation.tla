---------------------------- MODULE GameCreation ----------------------------
(***************************************************************************)
(* create-games for one round published under pairing.game_creation =      *)
(* lichess: the job with its attempts, its run through internal/rounds/    *)
(* create.go, and what happens around it: admins who mark a pairing        *)
(* failed, retry or switch the setting, players who start a game by hand,  *)
(* accept a challenge or sign in again, and sync-games.                    *)
(*                                                                         *)
(* A transaction, or a call to Lichess, is one action.  Reads that nothing *)
(* else can tell from the write after them share its action.  sync-games   *)
(* is one run at a time here, which searches from a list of its own that   *)
(* goes stale, and reads a game the league gave in the step that attaches  *)
(* it: its other interleavings are in SyncGames.                           *)
(***************************************************************************)
EXTENDS PairingRows, Integers, FiniteSets

CONSTANTS
    Player,
    Pairing,          \* the round's pairings
    White, Black,     \* each pairing's two players
    Tokens,           \* Tokens[p]: p's stored token when the round is published
    Fickle,           \* bound: players whose token dies or who sign in again
    MaxAttempts,      \* createGamesAttempts: 10 in the code
    MaxSubmissions,   \* maxBulkSubmissions: 3 in the code
    MaxRetries,       \* bound: how often an admin retries
    Failable,         \* bound: pairings an admin marks failed
    ByHand,           \* bound: pairings whose players start a game themselves
    Searched,         \* bound: pairings sync-games searches for
    Doomed            \* whether the last attempt may end without giving up

TokenState == {"absent", "good", "dead", "revoked", "unreadable"}

(* Games and challenges on Lichess.  A challenge's id is its game's. *)
Game == [by : {"bulk", "challenge", "hand"}, nr : Nat, pairing : Pairing]

ASSUME CreationAssumption ==
    /\ IsFiniteSet(Pairing)
    /\ NoGame \notin Game
    /\ White \in [Pairing -> Player]
    /\ Black \in [Pairing -> Player]
    /\ Tokens \in [Player -> TokenState]
    /\ Fickle \subseteq Player
    /\ MaxAttempts \in Nat \ {0}
    /\ MaxSubmissions \in Nat \ {0}
    /\ MaxRetries \in Nat
    /\ Failable \subseteq Pairing
    /\ ByHand \subseteq Pairing
    /\ Searched \subseteq Pairing
    /\ Doomed \in BOOLEAN

(* How the players of a pairing were told their game is made: the notices  *)
(* with the pairing's "paired" key and with its "created" key.  The first  *)
(* notice with a key stays (notifications' dedupe_key).                    *)
Told == [paired : {"none", "by_hand", "bulk", "challenge"},
         created : {"none", "bulk", "challenge"}]

Run == [pc : {"idle", "search", "load", "adopt", "probe", "revoke", "bulk", "record",
              "list", "challenge", "sent", "finish", "done", "failed"},
        setting : {"manual", "lichess"},   \* as read when the run began
        todo    : SUBSET Pairing,          \* the pairings the step at hand is about
        stored  : SUBSET Player,           \* players with a stored token
        working : SUBSET Player,           \* players whose token is held to work
        renewed : SUBSET Player,           \* of those, who signed in since it was read
        tries   : Nat,                     \* bulks submitted
        made    : SUBSET Game]             \* what Lichess made, still to be recorded

IdleRun == [pc |-> "idle", setting |-> "lichess", todo |-> {}, stored |-> {},
            working |-> {}, renewed |-> {}, tries |-> 0, made |-> {}]

VARIABLES
    creation,    \* rounds.game_creation
    rows,        \* the round's pairings
    told,        \* the notices of each pairing
    token,       \* oauth_tokens, and whether Lichess still takes the token
    setting,     \* pairing.game_creation
    job,         \* the round's create-games job
    run,         \* the attempt under way
    games,       \* the games that exist on Lichess between the paired players
    challenges,  \* the challenges the league sent
    listed,      \* pairings a sync-games run listed and has still to search for
    failures,    \* auxiliary: attempts cut short, and challenge answers lost
    retries      \* auxiliary: how often an admin retried

vars == <<creation, rows, told, token, setting, job, run, games, challenges,
          listed, failures, retries>>
onLichess == <<games, challenges>>

PlayersOf(p) == {White[p], Black[p]}
AttachedGames == {rows[p].game : p \in Pairing} \ {NoGame}
Left == {p \in Pairing : ToCreate(rows[p])}
NextNr(made) == Cardinality({g.nr : g \in made}) + 1

(* InsertNotification: on a conflict with the key, nothing. *)
InsertNotification(stored, notice) == IF stored = "none" THEN notice ELSE stored

(* The notice that says how p's game is made, under the key a first run or *)
(* an admin's retry gives it.                                              *)
TellMade(t, how, retry) ==
    IF retry THEN [t EXCEPT !.created = InsertNotification(@, how)]
             ELSE [t EXCEPT !.paired = InsertNotification(@, how)]

(* What the players of a pairing were told last. *)
LastWord(t) == IF t.created = "none" THEN t.paired ELSE t.created

TellByHand(t) == [t EXCEPT !.paired = InsertNotification(@, "by_hand")]

(* notifyByHand, for the pairings left when it runs. *)
NotifyByHand == [p \in Pairing |-> IF p \in Left THEN TellByHand(told[p]) ELSE told[p]]

-----------------------------------------------------------------------------
Init ==
    /\ creation = "creating"
    /\ rows = [p \in Pairing |-> FreshRow]
    /\ told = [p \in Pairing |-> [paired |-> "none", created |-> "none"]]
    /\ token = Tokens
    /\ setting = "lichess"
    /\ job = [state |-> "waiting", attempt |-> 0, retry |-> FALSE]
    /\ run = IdleRun
    /\ games = {}
    /\ challenges = {}
    /\ listed = {}
    /\ failures = 0
    /\ retries = 0

(* runCreateGames begins: the settings are read here and not again. *)
StartRun ==
    /\ job.state = "waiting"
    /\ job' = [job EXCEPT !.state = "running", !.attempt = @ + 1]
    /\ run' = [IdleRun EXCEPT !.setting = setting,
                  !.pc = IF job.retry THEN "search" ELSE "load",
                  !.todo = IF job.retry THEN {p \in Pairing : Unmatched(rows[p])} ELSE {}]
    /\ UNCHANGED <<creation, rows, told, token, setting, onLichess, listed, failures,
                   retries>>

(* matchPairings for one pairing, by the list it comes from, in which it had *)
(* no game: of their games, those started when the search read them.         *)
MatchOne(p) ==
    \E eligible \in SUBSET {g \in games : g.pairing = p} :
        \/ \E g \in eligible :
              /\ MatchFound(eligible, g)
              /\ rows' = [rows EXCEPT ![p] = AttachGameToPairing(@, g, "in_progress")]
        \/ /\ MatchAmbiguous(eligible)
           /\ rows' = [rows EXCEPT ![p] = MarkPairingAmbiguous(@)]
        \/ eligible = {} /\ rows' = rows

(* searchByHand: a retry's first step, one listed pairing after the other. *)
SearchByHand ==
    /\ run.pc = "search"
    /\ IF run.todo = {}
       THEN run' = [run EXCEPT !.pc = "load"] /\ rows' = rows
       ELSE \E p \in run.todo : MatchOne(p) /\ run' = [run EXCEPT !.todo = @ \ {p}]
    /\ UNCHANGED <<creation, told, token, setting, job, onLichess, listed, failures,
                   retries>>

(* Mutants: the round given up in silence; its players told, the round not marked. *)
GiveUpSilently ==
    /\ creation' = IF creation = "creating" THEN "gave_up" ELSE creation
    /\ told' = told

GiveUpUnmarked == creation' = creation /\ told' = NotifyByHand

(* FinishGameCreation, with the notices of its transaction: a round no longer *)
(* creating its games is left as it is.                                       *)
FinishGameCreation(outcome) ==
    IF creation = "creating"
    THEN creation' = outcome /\ told' = NotifyByHand
    ELSE UNCHANGED <<creation, told>>

GiveUp == FinishGameCreation("gave_up")

(* CreateGames until it lists the pairings waiting for a game. *)
Load ==
    /\ run.pc = "load"
    /\ CASE creation # "creating" ->
              run' = [run EXCEPT !.pc = "done"] /\ UNCHANGED <<creation, told>>
         [] creation = "creating" /\ run.setting = "manual" ->
              run' = [run EXCEPT !.pc = "done"] /\ GiveUp
         [] OTHER ->
              /\ run' = [run EXCEPT !.pc = IF Left = {} THEN "finish" ELSE "adopt",
                                    !.todo = Left]
              /\ UNCHANGED <<creation, told>>
    /\ UNCHANGED <<rows, token, setting, job, onLichess, listed, failures, retries>>

(* record: the games of made that belong to a pairing of todo, in one      *)
(* transaction with their notices.                                         *)
Record(made, todo) ==
    LET of(p) == {g \in made : g.pairing = p}
        takes == {p \in todo : Recordable(rows[p]) /\ of(p) # {}}
    IN  /\ rows' = [p \in Pairing |-> IF p \in takes
                       THEN RecordCreatedGame(rows[p], CHOOSE g \in of(p) : TRUE)
                       ELSE rows[p]]
        /\ told' = [p \in Pairing |-> IF p \in takes
                       THEN TellMade(told[p], "bulk", job.retry) ELSE told[p]]

(* ListBulkPairings: the games of the organiser's bulks. *)
OrganiserBulks == {g \in games : g.by = "bulk"}

(* Mutant: a retried job does not look for an earlier attempt's bulk. *)
AdoptNothing ==
    /\ run.pc = "adopt"
    /\ run' = [run EXCEPT !.pc = IF Left = {} THEN "finish" ELSE "probe", !.todo = Left]
    /\ UNCHANGED <<rows, told, creation, token, setting, job, onLichess, listed,
                   failures, retries>>

(* adopt: the organiser's bulks searched for games an earlier attempt made *)
(* and never recorded; then the pairings still waiting are listed again.   *)
Adopt ==
    /\ run.pc = "adopt"
    /\ Record(OrganiserBulks \ AttachedGames, run.todo)
    /\ LET left == {p \in Pairing : ToCreate(rows'[p])} IN
          run' = [run EXCEPT !.pc = IF left = {} THEN "finish" ELSE "probe", !.todo = left]
    /\ UNCHANGED <<creation, token, setting, job, onLichess, listed, failures, retries>>

(* probe's read of the stored tokens of the players still waiting. *)
ProbeRead ==
    LET waiting == UNION {PlayersOf(p) : p \in run.todo} IN
    /\ run.pc = "probe"
    /\ run' = [run EXCEPT !.pc = "revoke",
                  !.stored = {u \in waiting : token[u] # "absent"},
                  !.working = {u \in waiting : token[u] \in {"good", "dead"}}]
    /\ UNCHANGED <<creation, rows, told, token, setting, job, onLichess, listed,
                   failures, retries>>

(* Mutant: MarkTokenRevoked without its guard on the sealed bytes. *)
RevokeWhatever(players) ==
    token' = [u \in Player |-> IF u \in players THEN "revoked" ELSE token[u]]

(* revokeToken: guarded on the sealed bytes the run read. *)
Revoke(players) ==
    token' = [u \in Player |-> IF u \in players \ run.renewed THEN "revoked" ELSE token[u]]

(* The tokens in the run's hands that Lichess refuses: surely the dead ones *)
(* not replaced since; one replaced since may have been alive or dead.      *)
MayRefuse == {u \in run.working : token[u] = "dead" \/ u \in run.renewed}

BothWorking(todo, working) == {p \in todo : PlayersOf(p) \subseteq working}

(* TestTokens' answer; a token it does not mention is kept. *)
ProbeAnswer ==
    /\ run.pc = "revoke"
    /\ \E refused \in SUBSET MayRefuse :
          LET working == run.working \ refused IN
          /\ Revoke(refused)
          /\ run' = [run EXCEPT !.working = working,
                        !.todo = BothWorking(run.todo, working),
                        !.pc = IF BothWorking(run.todo, working) = {} THEN "list" ELSE "bulk"]
    /\ UNCHANGED <<creation, rows, told, setting, job, onLichess, listed, failures,
                   retries>>

BulkFor(todo) ==
    {[by |-> "bulk", pairing |-> p, nr |-> NextNr(OrganiserBulks)] : p \in todo}

(* CreateBulkPairing, all or nothing: Lichess makes a game for every pairing. *)
BulkAccepted ==
    /\ run.pc = "bulk"
    /\ \A u \in run.working \ run.renewed :
          u \in UNION {PlayersOf(p) : p \in run.todo} => token[u] # "dead"
    /\ games' = games \cup BulkFor(run.todo)
    /\ run' = [run EXCEPT !.pc = "record", !.made = BulkFor(run.todo)]
    /\ UNCHANGED <<creation, rows, told, token, setting, job, challenges, listed,
                   failures, retries>>

(* A refusal that names tokens of this bulk: revokeRefused, and the bulk   *)
(* again without their pairings, maxBulkSubmissions times at most.         *)
BulkRefused ==
    /\ run.pc = "bulk"
    /\ \E refused \in (SUBSET MayRefuse) \ {{}} :
          LET working == run.working \ refused
              todo == BothWorking(run.todo, working)
          IN  /\ refused \subseteq UNION {PlayersOf(p) : p \in run.todo}
              /\ Revoke(refused)
              /\ run' = [run EXCEPT !.tries = @ + 1, !.working = working, !.todo = todo,
                            !.pc = CASE run.tries + 1 >= MaxSubmissions -> "failed"
                                     [] OTHER -> IF todo = {} THEN "list" ELSE "bulk"]
    /\ UNCHANGED <<creation, rows, told, setting, job, onLichess, listed, failures,
                   retries>>

(* The games are made and the answer is lost: to the run, an error. *)
BulkAnswerLost ==
    /\ run.pc = "bulk"
    /\ games' = games \cup BulkFor(run.todo)
    /\ run' = [run EXCEPT !.pc = "failed"]
    /\ UNCHANGED <<creation, rows, told, token, setting, job, challenges, listed,
                   failures, retries>>

RecordBulk ==
    /\ run.pc = "record"
    /\ Record(run.made, run.todo)
    /\ run' = [run EXCEPT !.pc = "list", !.made = {}]
    /\ UNCHANGED <<creation, token, setting, job, onLichess, listed, failures, retries>>

(* challengeSides: one working token, and an opponent who has authorised   *)
(* the league at least once.                                               *)
Challengeable(p) ==
    \E from, to \in PlayersOf(p) :
        from \in run.working /\ to \in run.stored \ run.working

(* challenge lists the pairings again, after the bulk's record. *)
ListChallenges ==
    /\ run.pc = "list"
    /\ run' = [run EXCEPT !.pc = "challenge", !.todo = {p \in Left : Challengeable(p)}]
    /\ UNCHANGED <<creation, rows, told, token, setting, job, onLichess, listed,
                   failures, retries>>

Challenge(p) == [by |-> "challenge", pairing |-> p,
                 nr |-> NextNr({g \in challenges : g.pairing = p})]

(* Mutant: the challenge not recorded right after its call. *)
SendUnrecorded ==
    /\ run.pc = "challenge"
    /\ \E p \in run.todo :
          /\ challenges' = challenges \cup {Challenge(p)}
          /\ run' = [run EXCEPT !.todo = @ \ {p}]
    /\ UNCHANGED <<creation, rows, told, token, setting, job, games, listed, failures,
                   retries>>

(* CreateChallenge for the next pairing: sent; refused; or sent with the   *)
(* answer lost, which the code cannot tell from a refusal.                 *)
SendChallenge ==
    /\ run.pc = "challenge"
    /\ \E p \in run.todo :
          \/ /\ challenges' = challenges \cup {Challenge(p)}
             /\ run' = [run EXCEPT !.pc = "sent", !.todo = @ \ {p}, !.made = {Challenge(p)}]
             /\ UNCHANGED failures
          \/ /\ run' = [run EXCEPT !.todo = @ \ {p}]
             /\ \/ UNCHANGED <<challenges, failures>>
                \/ challenges' = challenges \cup {Challenge(p)} /\ failures' = failures + 1
    /\ UNCHANGED <<creation, rows, told, token, setting, job, games, listed, retries>>

ChallengesDone ==
    /\ run.pc = "challenge"
    /\ run.todo = {}
    /\ run' = [run EXCEPT !.pc = "finish"]
    /\ UNCHANGED <<creation, rows, told, token, setting, job, onLichess, listed,
                   failures, retries>>

(* recordChallenge, in a transaction of its own with both notices. *)
RecordSent ==
    /\ run.pc = "sent"
    /\ \E g \in run.made :
          LET p == g.pairing IN
          /\ rows' = [rows EXCEPT ![p] = RecordChallenge(@, g)]
          /\ told' = [told EXCEPT ![p] = IF Recordable(rows[p])
                                         THEN TellMade(@, "challenge", job.retry) ELSE @]
    /\ run' = [run EXCEPT !.pc = "challenge", !.made = {}]
    /\ UNCHANGED <<creation, token, setting, job, onLichess, listed, failures, retries>>

(* finish: the pairings left are told, the round's games are created. *)
Finish ==
    /\ run.pc = "finish"
    /\ FinishGameCreation("created")
    /\ run' = [run EXCEPT !.pc = "done"]
    /\ UNCHANGED <<rows, token, setting, job, onLichess, listed, failures, retries>>

(* river marks the job completed. *)
JobCompleted ==
    /\ run.pc = "done"
    /\ job' = [job EXCEPT !.state = "none"]
    /\ run' = IdleRun
    /\ UNCHANGED <<creation, rows, told, token, setting, onLichess, listed, failures,
                   retries>>

-----------------------------------------------------------------------------
(* Attempts that end badly. *)

(* Mutant: the attempts not counted. *)
InterruptedAlways ==
    /\ run.pc # "idle"
    /\ job' = [job EXCEPT !.state = "waiting"]
    /\ run' = IdleRun
    /\ failures' = failures + 1
    /\ UNCHANGED <<creation, rows, told, token, setting, onLichess, listed, retries>>

(* An error at any step, a cancelled context or a dead process, with       *)
(* attempts left: river runs the job again.                                *)
Interrupted ==
    /\ run.pc # "idle"
    /\ job.attempt < MaxAttempts
    /\ job' = [job EXCEPT !.state = "waiting"]
    /\ run' = IdleRun
    /\ failures' = failures + 1
    /\ UNCHANGED <<creation, rows, told, token, setting, onLichess, listed, retries>>

(* An error on the last attempt: the round's games are given up. *)
LastAttemptFails ==
    /\ run.pc \notin {"idle", "done"}
    /\ job.attempt = MaxAttempts
    /\ GiveUp
    /\ job' = [job EXCEPT !.state = "none"]
    /\ run' = IdleRun
    /\ failures' = failures + 1
    /\ UNCHANGED <<rows, token, setting, onLichess, listed, retries>>

(* The process dies on the last attempt, its job run cannot be created, or *)
(* giving up fails too: river discards the job with the round as it is.    *)
LastAttemptLost ==
    /\ Doomed
    /\ run.pc # "idle"
    /\ job.attempt = MaxAttempts
    /\ job' = [job EXCEPT !.state = "none"]
    /\ run' = IdleRun
    /\ failures' = failures + 1
    /\ UNCHANGED <<creation, rows, told, token, setting, onLichess, listed, retries>>

-----------------------------------------------------------------------------
(* The others. *)

(* Mutant: the retry's job not marked as one. *)
RetryUnmarked ==
    /\ setting = "lichess"
    /\ job.state = "none"
    /\ retries < MaxRetries
    /\ creation' = "creating"
    /\ job' = [state |-> "waiting", attempt |-> 0, retry |-> FALSE]
    /\ retries' = retries + 1
    /\ UNCHANGED <<rows, told, token, setting, run, onLichess, listed, failures>>

(* RetryGameCreation, from the round page or ic create-games; refused while *)
(* a job for the round waits or runs (createGamesUnique).                   *)
RetryGameCreation ==
    /\ setting = "lichess"
    /\ job.state = "none"
    /\ retries < MaxRetries
    /\ creation' = "creating"
    /\ job' = [state |-> "waiting", attempt |-> 0, retry |-> TRUE]
    /\ retries' = retries + 1
    /\ UNCHANGED <<rows, told, token, setting, run, onLichess, listed, failures>>

MarkFailed(p) ==
    /\ rows[p].status = "pending"
    /\ rows' = [rows EXCEPT ![p] = MarkPublishedPairingFailed(@)]
    /\ UNCHANGED <<creation, told, token, setting, job, run, onLichess, listed,
                   failures, retries>>

SwitchSetting ==
    /\ setting' = IF setting = "lichess" THEN "manual" ELSE "lichess"
    /\ UNCHANGED <<creation, rows, told, token, job, run, onLichess, listed, failures,
                   retries>>

(* sync-games lists the pairings to search for, *)
SyncList ==
    /\ listed = {}
    /\ listed' = {p \in Searched : Unmatched(rows[p])}
    /\ UNCHANGED <<creation, rows, told, token, setting, job, run, onLichess, failures,
                   retries>>

(* and searches for each, whatever became of it since; when Lichess fails, *)
(* or the run stops, no game has been read.                                *)
SyncMatch(p) ==
    /\ p \in listed
    /\ listed' = listed \ {p}
    /\ MatchOne(p)
    /\ UNCHANGED <<creation, told, token, setting, job, run, onLichess, failures, retries>>

(* sync-games finds a game the league gave: the challenge has been accepted. *)
SyncRecheck(p) ==
    /\ ToRecheck(rows[p])
    /\ rows[p].game \in games
    /\ rows' = [rows EXCEPT ![p] = AttachGameToPairing(@, @.game, "in_progress")]
    /\ UNCHANGED <<creation, told, token, setting, job, run, onLichess, listed,
                   failures, retries>>

(* Players. *)
StartByHand(p) ==
    LET g == [by |-> "hand", nr |-> 1, pairing |-> p] IN
    /\ g \notin games
    /\ games' = games \cup {g}
    /\ UNCHANGED <<creation, rows, told, token, setting, job, run, challenges, listed,
                   failures, retries>>

AcceptChallenge ==
    /\ \E g \in challenges \ games : games' = games \cup {g}
    /\ UNCHANGED <<creation, rows, told, token, setting, job, run, challenges, listed,
                   failures, retries>>

TokenDies(u) ==
    /\ token[u] = "good"
    /\ token' = [token EXCEPT ![u] = "dead"]
    /\ UNCHANGED <<creation, rows, told, setting, job, run, onLichess, listed,
                   failures, retries>>

SignIn(u) ==
    /\ token[u] # "good"
    /\ token' = [token EXCEPT ![u] = "good"]
    /\ run' = [run EXCEPT !.renewed = @ \cup (run.working \cap {u})]
    /\ UNCHANGED <<creation, rows, told, setting, job, onLichess, listed, failures,
                   retries>>

-----------------------------------------------------------------------------
RunStep ==
    \/ StartRun \/ SearchByHand \/ Load \/ Adopt
    \/ ProbeRead \/ ProbeAnswer
    \/ BulkAccepted \/ BulkRefused \/ RecordBulk
    \/ ListChallenges \/ SendChallenge \/ RecordSent \/ ChallengesDone
    \/ Finish \/ JobCompleted

BadEnd == BulkAnswerLost \/ Interrupted \/ LastAttemptFails \/ LastAttemptLost

(* A run that met an error ends, with attempts left or without. *)
RunFails == run.pc = "failed" /\ (Interrupted \/ LastAttemptFails)

OtherStep ==
    \/ RetryGameCreation
    \/ SwitchSetting
    \/ \E p \in Failable : MarkFailed(p)
    \/ SyncList
    \/ \E p \in Pairing : SyncMatch(p) \/ SyncRecheck(p)
    \/ \E p \in ByHand : StartByHand(p)
    \/ AcceptChallenge
    \/ \E u \in Fickle : TokenDies(u) \/ SignIn(u)

Next == RunStep \/ BadEnd \/ OtherStep

Spec == Init /\ [][Next]_vars

(* serve is up and works its queue; a run's next step, or its end, comes. *)
Fairness == WF_vars(RunStep) /\ WF_vars(RunFails)

FairSpec == Spec /\ Fairness

-----------------------------------------------------------------------------
(* Properties. *)

TypeOK ==
    /\ creation \in {"creating", "created", "gave_up"}
    /\ rows \in [Pairing -> RowOf(Game)]
    /\ told \in [Pairing -> Told]
    /\ token \in [Player -> TokenState]
    /\ setting \in {"manual", "lichess"}
    /\ job \in [state : {"none", "waiting", "running"}, attempt : 0..MaxAttempts,
                retry : BOOLEAN]
    /\ run \in Run
    /\ games \subseteq Game
    /\ challenges \subseteq Game
    /\ listed \subseteq Pairing
    /\ failures \in Nat
    /\ retries \in 0..MaxRetries

(* However its run is cut short, its answers lost and the job retried, the   *)
(* league never creates two bulk games for one pairing (spec 6.3, "so a      *)
(* retried job never creates the games twice").                              *)
BulkOnce ==
    \A g, h \in games : g.by = "bulk" /\ h.by = "bulk" /\ g.pairing = h.pairing => g = h

(* A run cut short, or an answer lost, leaves at most one challenge that no  *)
(* pairing knows of ("a crash can at worst leave one duplicate challenge").  *)
ChallengesExplained ==
    LET unknown == {g \in challenges \ AttachedGames : rows[g.pairing].status = "pending"}
    IN  Cardinality(unknown) <= failures + (IF run.pc = "sent" THEN 1 ELSE 0)

(* When creation is over, the players of every pairing left without a game   *)
(* have been told how it is made: no pairing is silently nobody's.           *)
LeftAreTold ==
    creation \in {"created", "gave_up"} => \A p \in Left : told[p].paired # "none"

(* Players of a game or challenge the league recorded have been told of it,  *)
(* last, even those told before to start it by hand and then overtaken by an *)
(* admin's retry: the two notice keys and the retry mark fit together.       *)
ToldOfGame ==
    \A p \in Pairing : rows[p].method # "manual_external" =>
        rows[p].method = LastWord(told[p])

(* The league gives a game or a challenge only to a pairing still pending    *)
(* and without a game: one marked failed, or found by sync-games, while the  *)
(* run was under way keeps what it has (RecordCreatedGame's comment).        *)
RecordedStep ==
    \A p \in Pairing : rows'[p].method # rows[p].method =>
        rows[p].status = "pending" /\ rows[p].game = NoGame

RecordsOnlyWaiting == [][RecordedStep]_vars

(* A token Lichess takes is never marked revoked: a player who signed in     *)
(* while the run held their old token keeps the new one (revokeToken).       *)
RevokedStep == \A u \in Player : token[u] = "good" => token'[u] # "revoked"

WorkingTokensKept == [][RevokedStep]_vars

(* What the round page shows of a pairing. *)
StageOf(row) ==
    CASE Recordable(row) -> IF row.ambiguous THEN "unclear" ELSE "open"
      [] row.status = "failed" -> "failed"
      [] row.status \in {"in_progress", "completed"} -> "playing"
      [] OTHER -> "given"

(* The pairings on the lists of the searches under way. *)
SearchedFor == listed \cup (IF run.pc = "search" THEN run.todo ELSE {})

Life == INSTANCE PairingLife WITH
    stage <- [p \in Pairing |-> StageOf(rows[p])],
    game <- [p \in Pairing |-> rows[p].game],
    word <- [p \in Pairing |-> LastWord(told[p])],
    made <- {g.pairing : g \in OrganiserBulks},
    making <- creation = "creating",
    sought <- SearchedFor

(* The whole keeps what PairingLife promises each pairing: its game made     *)
(* once, given with the word that fits while the round's games are made, and *)
(* then replaced by no search that began after it was given, whatever runs   *)
(* stop, are retried or search from a list gone stale.                       *)
KeepsPairings == Life!Spec

(* Every creation ends, created or given up, whatever fails, provided the    *)
(* last attempt lives to give up (Doomed = FALSE).                           *)
CreationSettles == creation = "creating" ~> creation # "creating"

(* Migration 00013 on the state "creating": "published under lichess: a      *)
(* create-games job is queued or running".                                   *)
CreatingHasJob == creation = "creating" => job.state # "none"
=============================================================================
