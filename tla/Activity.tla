------------------------------ MODULE Activity ------------------------------
(***************************************************************************)
(* evaluate-activity (spec 6.4), the first step of every generation: the   *)
(* pairings of published rounds that never became a game are marked        *)
(* failed, a challenge left unanswered is a missed start for the player    *)
(* who had to accept it, a run of missed starts warns and then pauses that *)
(* player, and a cancel-challenge job withdraws the challenge on Lichess.  *)
(*                                                                         *)
(* An evaluation lists the pairings, asks Lichess about their challenges,  *)
(* and makes every change in one transaction: three actions, with players, *)
(* admins, create-games, sync-games and another evaluation (the cron job   *)
(* and an admin's Generate now) in between.  create-games and sync-games   *)
(* are one step a pairing here; GameCreation and SyncGames have theirs.    *)
(*                                                                         *)
(* Each pairing has one game on Lichess, with the pairing's name: begun by *)
(* hand, or a challenge by the white player that the black one accepts.    *)
(***************************************************************************)
EXTENDS PairingRows, Integers, FiniteSets, FiniteSetsExt

CONSTANTS
    Player,
    Pairing,         \* the pairings of the rounds to come
    White, Black,    \* each pairing's players
    RoundOf,
    Rounds,          \* the rounds are 1..Rounds
    Evaluator,       \* processes that evaluate: serve's worker, a web handler, ic
    PauseAfter,      \* the setting activity.missed_starts_to_pause
    Grace,           \* StartGrace
    MaxAttempts,     \* a cancel-challenge job's attempts
    MaxClock,        \* bound on time
    MaxRetries,      \* bound: an admin's Retry game creation
    Startable,       \* bound: pairings whose game is begun, by hand or by accepting
    Failable         \* bound: pairings an admin marks failed

ASSUME ActivityAssumption ==
    /\ White \in [Pairing -> Player]
    /\ Black \in [Pairing -> Player]
    /\ Rounds \in Nat
    /\ RoundOf \in [Pairing -> 1..Rounds]
    /\ NoGame \notin Pairing
    /\ PauseAfter \in Nat \ {0}
    /\ Grace \in Nat
    /\ MaxAttempts \in Nat \ {0}
    /\ MaxClock \in Nat \ {0}
    /\ MaxRetries \in Nat
    /\ Startable \subseteq Pairing
    /\ Failable \subseteq Pairing

VARIABLES
    clock,      \* the time, from 1: a time of 0 is NULL
    round,      \* each round: its state and pairings, when published, its game creation
    rows,       \* pairings
    missed,     \* missed_starts
    profile,    \* player_profiles: auto_paused_at, resumed_at
    notices,    \* notifications
    job,        \* each pairing's cancel-challenge job
    lichess,    \* each pairing's game: its state, and when it started
    stored,     \* games: when each stored game started
    eval,       \* each evaluation
    retries

league == <<round, rows, missed, profile, notices, job>>
world == <<clock, lichess, stored, retries>>
vars == <<clock, round, rows, missed, profile, notices, job, lichess, stored, eval, retries>>

Times == 0..MaxClock
Opened == {"accepted", "aborted"}   \* a game, and no longer a challenge

NoRound == [state |-> "none", pairs |-> {}, at |-> 0, creation |-> "none"]
NoJob == [state |-> "none", attempts |-> 0]
IdleEval == [pc |-> "idle", now |-> 0, listed |-> {}, accepted |-> {}]

(* A pairing its players see. *)
Live(p) == round[RoundOf[p]].state = "published" /\ p \in round[RoundOf[p]].pairs

Init ==
    /\ clock = 1
    /\ round = [r \in 1..Rounds |-> NoRound]
    /\ rows = [p \in Pairing |-> FreshRow]
    /\ missed = {}
    /\ profile = [u \in Player |-> [pausedAt |-> 0, resumedAt |-> 0]]
    /\ notices = {}
    /\ job = [p \in Pairing |-> NoJob]
    /\ lichess = [p \in Pairing |-> [state |-> "none", at |-> 0]]
    /\ stored = [p \in Pairing |-> 0]
    /\ eval = [e \in Evaluator |-> IdleEval]
    /\ retries = 0

-----------------------------------------------------------------------------
(* Statements. *)

Challenge(row) == row.method = "challenge" /\ row.game # NoGame

(* ListUnstartedPairings, with StartGrace. *)
Unstarted(p, now) ==
    LET r == round[RoundOf[p]]
    IN  /\ Live(p)
        /\ r.creation # "creating"
        /\ r.at + Grace <= now
        /\ rows[p].status = "pending" /\ ~rows[p].ambiguous
        /\ rows[p].game = NoGame \/ Challenge(rows[p])

(* Mutant: only a pairing nobody has a game or a challenge for. *)
RetirableNoGame(p, game) ==
    rows[p].status = "pending" /\ ~rows[p].ambiguous /\ rows[p].game = NoGame /\ game = NoGame

(* RetireUnstartedPairing's guard: as it was listed. *)
Retirable(p, game) ==
    rows[p].status = "pending" /\ ~rows[p].ambiguous /\ rows[p].game = game

(* ScheduleCancelChallenge: unique per pairing, a finished job included. *)
Queued(j) == IF j = NoJob THEN [state |-> "queued", attempts |-> 0] ELSE j

(* InsertMissedStart: one per player and round, and the first one is kept. *)
NewMisses(misses, unanswered, now) ==
    {[user |-> Black[p], round |-> RoundOf[p], at |-> now] : p \in
        {q \in unanswered : ~\E m \in misses : m.user = Black[q] /\ m.round = RoundOf[q]}}

(* The starts GetLatestGameStartForUser takes the latest of. *)
Starts(u) == {stored[p] : p \in {q \in Pairing : u \in {White[q], Black[q]}}}

(* Mutant: a miss as old as the latest game or resume still counts. *)
StreakFrom(misses, u) ==
    {m \in misses : m.user = u /\ m.at >= profile[u].resumedAt /\ \A t \in Starts(u) : m.at >= t}

(* Current and Streak: the misses after the latest stored start and resume. *)
Streak(misses, u) ==
    {m \in misses : m.user = u /\ m.at > profile[u].resumedAt /\ \A t \in Starts(u) : m.at > t}

Decide(streak) ==
    CASE streak >= PauseAfter -> "pause"
      [] streak >= 1 /\ streak = PauseAfter - 1 -> "warn"
      [] OTHER -> "none"

(* Of a player's profile: a pause keeps its first date; only a pause is resumed. *)
SetAutoPaused(prof, now) == IF prof.pausedAt = 0 THEN [prof EXCEPT !.pausedAt = now] ELSE prof
ClearAutoPause(prof, now) ==
    IF prof.pausedAt = 0 THEN prof ELSE [pausedAt |-> 0, resumedAt |-> now]

(* A notice, by its key: one per player and round. *)
PausedNotice(u, r) == <<u, "auto_pause", r>>
WarningNotice(u, r) == <<u, "missed_start", r>>

-----------------------------------------------------------------------------
(* An evaluation. *)

DraftWaits == \E r \in 1..Rounds : round[r].state = "draft"

(* The draft, then the list: nothing changes if there is a draft, or no pairing. *)
EvaluateStart(e) ==
    LET listed == {p \in Pairing : Unstarted(p, clock)} IN
    /\ eval[e].pc = "idle"
    /\ ~DraftWaits
    /\ listed # {}
    /\ eval' = [eval EXCEPT ![e] = [IdleEval EXCEPT !.pc = "ask", !.now = clock,
                                       !.listed = {<<p, rows[p].game>> : p \in listed}]]
    /\ UNCHANGED <<league, world>>

(* Mutant: Lichess not asked. *)
AcceptedUnasked(listed) == {}

(* accepted: which of the listed challenges are games by now. *)
Accepted(listed) == {p \in Pairing : <<p, p>> \in listed /\ lichess[p].state \in Opened}

EvaluateAsk(e) ==
    /\ eval[e].pc = "ask"
    /\ eval' = [eval EXCEPT ![e] = [@ EXCEPT !.pc = "commit", !.accepted = Accepted(eval[e].listed)]]
    /\ UNCHANGED <<league, world>>

EvaluateFails(e) ==
    /\ eval[e].pc = "ask"
    /\ \E x \in eval[e].listed : x[2] # NoGame
    /\ eval' = [eval EXCEPT ![e] = IdleEval]
    /\ UNCHANGED <<league, world>>

(* The pairings the transaction finds as they were listed. *)
Retired(e) ==
    {p \in Pairing : /\ \E game \in {p, NoGame} : <<p, game>> \in eval[e].listed /\ Retirable(p, game)
                     /\ p \notin eval[e].accepted}

(* One transaction; each player's consequence and notice follow their latest miss. *)
EvaluateCommit(e) ==
    LET retired == Retired(e)
        misses == NewMisses(missed, {p \in retired : Challenge(rows[p])}, eval[e].now)
        Latest(u) == Max({m.round : m \in {x \in misses : x.user = u}})
        outcome == [u \in {m.user : m \in misses} |->
                       Decide(Cardinality(Streak(missed \cup misses, u)))]
        pausing == {u \in DOMAIN outcome : outcome[u] = "pause" /\ profile[u].pausedAt = 0}
        warning == {u \in DOMAIN outcome : outcome[u] = "warn"}
    IN  /\ eval[e].pc = "commit"
        /\ rows' = [p \in Pairing |-> IF p \in retired
                       THEN [rows[p] EXCEPT !.status = "failed"] ELSE rows[p]]
        /\ job' = [p \in Pairing |-> IF p \in retired /\ Challenge(rows[p])
                       THEN Queued(job[p]) ELSE job[p]]
        /\ missed' = missed \cup misses
        /\ profile' = [u \in Player |-> IF u \in pausing
                          THEN SetAutoPaused(profile[u], eval[e].now) ELSE profile[u]]
        /\ notices' = notices \cup {PausedNotice(u, Latest(u)) : u \in pausing}
                              \cup {WarningNotice(u, Latest(u)) : u \in warning}
        /\ eval' = [eval EXCEPT ![e] = IdleEval]
        /\ UNCHANGED <<round, world>>

-----------------------------------------------------------------------------
(* cancel-challenge, on the worker. *)

Skipped(p) == rows[p].status # "failed" \/ rows[p].game = NoGame

(* What withdrawing leaves: a challenge withdrawn, a game aborted if nobody *)
(* has moved in it, and otherwise nothing of ours to withdraw (404).        *)
Withdrawn(state) ==
    CASE state = "open" -> {"withdrawn"} [] state = "accepted" -> {"aborted", "accepted"}
      [] OTHER -> {state}

CancelChallenge(p) ==
    /\ job[p].state = "queued"
    /\ \/ /\ Skipped(p)
          /\ job' = [job EXCEPT ![p].state = "done"]
          /\ UNCHANGED lichess
       \/ /\ ~Skipped(p)
          /\ job' = [job EXCEPT ![p].state = "done"]
          /\ \E state \in Withdrawn(lichess[p].state) : lichess' = [lichess EXCEPT ![p].state = state]
    /\ UNCHANGED <<clock, round, rows, missed, profile, notices, stored, eval, retries>>

(* errCannotWithdraw: the sender's token no longer works, and no retry helps. *)
CannotWithdraw(p) ==
    /\ job[p].state = "queued"
    /\ ~Skipped(p)
    /\ job' = [job EXCEPT ![p].state = "dropped"]
    /\ UNCHANGED <<round, rows, missed, profile, notices, eval, world>>

(* Mutant: the last attempt is not the last. *)
CancelFailsForever(p) ==
    /\ job[p].state = "queued"
    /\ ~Skipped(p)
    /\ job' = [job EXCEPT ![p].attempts = @ + 1]
    /\ UNCHANGED <<round, rows, missed, profile, notices, eval, world>>

(* Another failure is retried, up to the attempts river gives. *)
CancelFails(p) ==
    /\ job[p].state = "queued"
    /\ ~Skipped(p)
    /\ job' = [job EXCEPT ![p] = [attempts |-> @.attempts + 1,
                  state |-> IF @.attempts + 1 = MaxAttempts THEN "dropped" ELSE "queued"]]
    /\ UNCHANGED <<round, rows, missed, profile, notices, eval, world>>

-----------------------------------------------------------------------------
(* The rounds, and the making of their games. *)

(* Generate: who is paused is not in the pool. *)
Generate(r) ==
    /\ round[r].state = "none"
    /\ \A i \in 1..Rounds : IF i < r THEN round[i].state = "published" ELSE round[i].state = "none"
    /\ round' = [round EXCEPT ![r] = [@ EXCEPT !.state = "draft",
          !.pairs = {p \in Pairing : RoundOf[p] = r /\ profile[White[p]].pausedAt = 0
                                                   /\ profile[Black[p]].pausedAt = 0}]]
    /\ UNCHANGED <<rows, missed, profile, notices, job, eval, world>>

Publish(r) ==
    /\ round[r].state = "draft"
    /\ round' = [round EXCEPT ![r] = [@ EXCEPT !.state = "published", !.at = clock,
                                                !.creation = "creating"]]
    /\ UNCHANGED <<rows, missed, profile, notices, job, eval, world>>

(* create-games challenges the black player from the white one's account. *)
ChallengeFor(p) ==
    /\ Live(p) /\ round[RoundOf[p]].creation = "creating"
    /\ ToCreate(rows[p])
    /\ lichess[p].state = "none"
    /\ rows' = [rows EXCEPT ![p] = RecordChallenge(@, p)]
    /\ lichess' = [lichess EXCEPT ![p].state = "open"]
    /\ UNCHANGED <<clock, round, missed, profile, notices, job, stored, eval, retries>>

CreationEnds(r) ==
    /\ round[r].creation = "creating"
    /\ round' = [round EXCEPT ![r].creation = "created"]
    /\ UNCHANGED <<rows, missed, profile, notices, job, eval, world>>

RetryGameCreation(r) ==
    /\ round[r].creation = "created"
    /\ retries < MaxRetries
    /\ \E p \in round[r].pairs : ToCreate(rows[p])
    /\ round' = [round EXCEPT ![r].creation = "creating"]
    /\ retries' = retries + 1
    /\ UNCHANGED <<rows, missed, profile, notices, job, eval, clock, lichess, stored>>

(* Mutant: the challenge left open. *)
MarkFailedOnly(p) ==
    /\ Live(p) /\ rows[p].status = "pending"
    /\ rows' = [rows EXCEPT ![p] = MarkPublishedPairingFailed(@)]
    /\ UNCHANGED <<round, missed, profile, notices, job, eval, world>>

MarkFailed(p) ==
    /\ Live(p) /\ rows[p].status = "pending"
    /\ rows' = [rows EXCEPT ![p] = MarkPublishedPairingFailed(@)]
    /\ job' = [job EXCEPT ![p] = IF rows[p].method = "challenge" THEN Queued(@) ELSE @]
    /\ UNCHANGED <<round, missed, profile, notices, eval, world>>

-----------------------------------------------------------------------------
(* sync-games: a game found and stored, or one aborted. *)

SyncGame(p) ==
    /\ Live(p) /\ (ToRecheck(rows[p]) \/ Unmatched(rows[p]))
    /\ lichess[p].state \in Opened
    /\ IF lichess[p].state = "aborted"
       THEN /\ rows' = [rows EXCEPT ![p] = MarkPairingFailed(@)]
            /\ stored' = [stored EXCEPT ![p] = 0]
       ELSE /\ rows' = [rows EXCEPT ![p] = AttachGameToPairing(@, p, "in_progress")]
            /\ stored' = [stored EXCEPT ![p] = lichess[p].at]
    /\ UNCHANGED <<clock, round, missed, profile, notices, job, lichess, eval, retries>>

-----------------------------------------------------------------------------
(* Players. *)

(* A challenge accepted, or a game begun by hand. *)
Start(p) ==
    /\ lichess[p].state = "open" \/ (lichess[p].state = "none" /\ Live(p))
    /\ lichess' = [lichess EXCEPT ![p] = [state |-> "accepted", at |-> clock]]
    /\ UNCHANGED <<league, clock, stored, eval, retries>>

(* handleResume: only from an auto-pause. *)
Resume(u) ==
    /\ profile[u].pausedAt # 0
    /\ profile' = [profile EXCEPT ![u] = ClearAutoPause(@, clock)]
    /\ UNCHANGED <<round, rows, missed, notices, job, eval, world>>

Tick ==
    /\ clock < MaxClock
    /\ clock' = clock + 1
    /\ UNCHANGED <<league, lichess, stored, eval, retries>>

-----------------------------------------------------------------------------
EvaluateStep(e) == EvaluateStart(e) \/ EvaluateAsk(e) \/ EvaluateCommit(e)

Next ==
    \/ \E e \in Evaluator : EvaluateStep(e) \/ EvaluateFails(e)
    \/ \E p \in Pairing : \/ CancelChallenge(p) \/ CannotWithdraw(p) \/ CancelFails(p)
                          \/ ChallengeFor(p) \/ SyncGame(p)
    \/ \E p \in Startable : Start(p)
    \/ \E p \in Failable : MarkFailed(p)
    \/ \E r \in 1..Rounds : \/ Generate(r) \/ Publish(r)
                            \/ CreationEnds(r) \/ RetryGameCreation(r)
    \/ \E u \in Player : Resume(u)
    \/ Tick

Spec == Init /\ [][Next]_vars

(* The worker works its queue, every generation evaluates and Lichess answers *)
(* again and again, and time passes; a draft is published and a creation ends *)
(* (Rounds and GameCreation).                                                 *)
Fairness ==
    /\ WF_vars(\E e \in Evaluator : EvaluateStep(e))
    /\ SF_vars(\E e \in Evaluator : EvaluateAsk(e))
    /\ WF_vars(\E p \in Pairing : CancelChallenge(p))
    /\ WF_vars(\E r \in 1..Rounds : Publish(r) \/ CreationEnds(r))
    /\ WF_vars(Tick)

FairSpec == Spec /\ Fairness

-----------------------------------------------------------------------------
(* Properties. *)

TypeOK ==
    /\ clock \in 1..MaxClock
    /\ round \in [1..Rounds -> [state : {"none", "draft", "published"}, pairs : SUBSET Pairing,
                                at : Times, creation : {"none", "creating", "created"}]]
    /\ rows \in [Pairing -> RowOf(Pairing)]
    /\ missed \subseteq [user : Player, round : 1..Rounds, at : Times]
    /\ profile \in [Player -> [pausedAt : Times, resumedAt : Times]]
    /\ notices \subseteq Player \X {"auto_pause", "missed_start"} \X (1..Rounds)
    /\ job \in [Pairing -> [state : {"none", "queued", "done", "dropped"}, attempts : 0..MaxAttempts]]
    /\ lichess \in [Pairing -> [state : {"none", "open", "withdrawn"} \cup Opened, at : Times]]
    /\ stored \in [Pairing -> Times]
    /\ eval \in [Evaluator -> [pc : {"idle", "ask", "commit"}, now : Times,
                               listed : SUBSET (Pairing \X (Pairing \cup {NoGame})),
                               accepted : SUBSET Pairing]]

(* The challenges of round r that u had to accept. *)
Received(u, r) == {p \in Pairing : Black[p] = u /\ RoundOf[p] = r /\ Challenge(rows[p])}

(* A missed start is deserved: a challenge of that round to that player had   *)
(* not been accepted before the evaluation that recorded it began, whatever   *)
(* came between its list, Lichess's answer and its transaction.               *)
MissesAreDeserved ==
    \A m \in missed : \E p \in Received(m.user, m.round) :
        /\ rows[p].status = "failed"
        /\ lichess[p].at # 0 => lichess[p].at >= m.at

(* Misses of u in different rounds with no resume and no stored start since. *)
RoundsMissed(u, misses) ==
    {m.round : m \in {x \in misses : /\ x.user = u
                                     /\ x.at > profile[u].resumedAt
                                     /\ \A p \in Pairing : u \in {White[p], Black[p]} =>
                                           ~(stored[p] >= x.at)}}

(* A player is auto-paused only for PauseAfter rounds missed in a row: two    *)
(* challenges of one round are one miss, and a game started or a resume, at   *)
(* the very time of the miss too, begins a new run (spec 6.4).                *)
PauseStep ==
    \A u \in Player :
        (profile[u].pausedAt = 0 /\ profile'[u].pausedAt # 0) =>
            Cardinality(RoundsMissed(u, missed')) >= PauseAfter

PausesAreEarned == [][PauseStep]_vars

(* The challenge of a failed pairing does not stay open on Lichess, unless    *)
(* nothing can withdraw it: its sender's token died or every attempt failed   *)
(* (cancel_challenge.go: "so a late acceptance cannot create a game no        *)
(* pairing counts").                                                          *)
ChallengesAreWithdrawn ==
    []<>(\A p \in Pairing :
            (rows[p].status = "failed" /\ rows[p].game = p) =>
                lichess[p].state # "open" \/ job[p].state = "dropped")

(* No pairing waits for ever: each becomes a game or is retired, and stops    *)
(* counting towards its players' games in flight.                             *)
NothingWaitsForever ==
    []<>(\A p \in Pairing : Unstarted(p, clock) => lichess[p].state \in Opened)
=============================================================================
