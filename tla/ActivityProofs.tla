--------------------------- MODULE ActivityProofs ---------------------------
(***************************************************************************)
(* Theorems about Activity: its type invariant, that a missed start is     *)
(* deserved, and that a pause is earned, for every set of players,         *)
(* pairings and evaluations, and every value of the settings.              *)
(***************************************************************************)
EXTENDS Activity, FiniteSetTheorems, WellFoundedInduction, TLAPS

(* A cancel-challenge job that is queued has an attempt left. *)
AttemptsLeft == \A p \in Pairing : job[p].state \in {"none", "queued"} => job[p].attempts < MaxAttempts

(* missed_starts is unique by player and round. *)
MissesUnique ==
    \A m, n \in missed : m.user = n.user /\ m.round = n.round => m = n

(* Nothing is dated in the future, and only a game has a start. *)
Dated ==
    /\ \A m \in missed : m.at <= clock
    /\ \A e \in Evaluator : eval[e].now <= clock
    /\ \A p \in Pairing : /\ lichess[p].at <= clock
                          /\ lichess[p].at # 0 => lichess[p].state \in Opened

(* A pairing holds its own game or none. *)
OwnGame == \A p \in Pairing : rows[p].game \in {p, NoGame}

(* What an evaluation knows when it commits: a challenge it listed and did    *)
(* not find accepted had not been accepted when it began.                     *)
AskedInTime ==
    \A e \in Evaluator, p \in Pairing :
        (eval[e].pc = "commit" /\ <<p, p>> \in eval[e].listed /\ p \notin eval[e].accepted) =>
            (lichess[p].at # 0 => lichess[p].at >= eval[e].now)

JobType == [state : {"none", "queued", "done", "dropped"}, attempts : 0..MaxAttempts]
LichessType == [state : {"none", "open", "withdrawn"} \cup Opened, at : Times]
EvalType == [pc : {"idle", "ask", "commit"}, now : Times,
             listed : SUBSET (Pairing \X (Pairing \cup {NoGame})), accepted : SUBSET Pairing]

TypeInv == TypeOK /\ AttemptsLeft
DeservedInv == Dated /\ OwnGame /\ AskedInTime /\ MissesAreDeserved

-----------------------------------------------------------------------------
(* Lemmas on the operators. *)

(* A set of rounds has a largest one. *)
LEMMA MaxIsMember ==
    ASSUME NEW n \in Nat, NEW S, S \subseteq 1..n, S # {}
    PROVE  Max(S) \in S
  <1> DEFINE From(x) == x..n
             T == {From(x) : x \in S}
  <1>1. \A x \in S : From(x) \in SUBSET (1..n) /\ IsFiniteSet(From(x))
    BY FS_Interval, FS_Subset
  <1>2. T \subseteq FiniteSubsetsOf(1..n) /\ T # {}
    BY <1>1 DEF FiniteSubsetsOf
  <1> HIDE DEF T
  <1>3. PICK A \in T : \A B \in T : <<B, A>> \notin StrictSubsetOrdering(1..n)
    BY <1>2, FS_StrictSubsetOrderingWellFounded, WFMin
  <1>4. PICK x \in S : A = From(x)
    BY <1>3 DEF T
  <1>5. \A y \in S : x >= y
    <2>1. SUFFICES ASSUME NEW y \in S, ~(x >= y) PROVE FALSE
      OBVIOUS
    <2>2. From(y) \subseteq From(x) /\ From(y) # From(x)
      <3>1. x \in From(x) /\ x \notin From(y)
        BY <2>1
      <3>2. From(y) \subseteq From(x)
        BY <2>1
      <3> QED
        BY <3>1, <3>2
    <2>3. <<From(y), From(x)>> \in StrictSubsetOrdering(1..n)
      BY <1>1, <2>2 DEF StrictSubsetOrdering
    <2> QED
      BY <1>3, <1>4, <2>1, <2>3 DEF T
  <1> QED
    BY <1>4, <1>5 DEF Max

(* A statement on a row of this pairing leaves a row. *)
LEMMA RowStatements ==
    ASSUME NEW p \in Pairing, NEW row \in RowOf(Pairing)
    PROVE  /\ RecordChallenge(row, p) \in RowOf(Pairing)
           /\ MarkPublishedPairingFailed(row) \in RowOf(Pairing)
           /\ MarkPairingFailed(row) \in RowOf(Pairing)
           /\ AttachGameToPairing(row, p, "in_progress") \in RowOf(Pairing)
  <1> USE DEF RowOf, Method, Status
  <1>1. RecordChallenge(row, p) \in RowOf(Pairing)
    BY DEF RecordChallenge
  <1>2. MarkPublishedPairingFailed(row) \in RowOf(Pairing)
    BY DEF MarkPublishedPairingFailed
  <1>3. MarkPairingFailed(row) \in RowOf(Pairing)
    BY DEF MarkPairingFailed
  <1>4. AttachGameToPairing(row, p, "in_progress") \in RowOf(Pairing)
    BY DEF AttachGameToPairing
  <1> QED
    BY <1>1, <1>2, <1>3, <1>4

(* What a missed start records. *)
LEMMA NewMissesType ==
    ASSUME NEW now \in Times, NEW U \in SUBSET Pairing, NEW M
    PROVE  NewMisses(M, U, now) \subseteq [user : Player, round : 1..Rounds, at : Times]
  BY ActivityAssumption DEF NewMisses, ActivityAssumption

-----------------------------------------------------------------------------
(* Types, one lemma for each action that needs more than its definition. *)

(* What evaluations and jobs start from. *)
LEMMA Idle == IdleEval \in EvalType /\ NoJob \in JobType /\ FreshRow \in RowOf(Pairing)
  BY ActivityAssumption
  DEF ActivityAssumption, IdleEval, EvalType, NoJob, JobType, FreshRow, RowOf, Method, Status, Times

LEMMA TypeInit == Init => TypeInv
  <1> SUFFICES ASSUME Init PROVE TypeInv
    OBVIOUS
  <1>1. MaxClock \in Nat /\ clock \in 1..MaxClock /\ 0 \in Times
    BY ActivityAssumption DEF ActivityAssumption, Init, Times
  <1>2. eval \in [Evaluator -> EvalType] /\ job \in [Pairing -> JobType] /\ rows \in [Pairing -> RowOf(Pairing)]
    BY Idle DEF Init
  <1>3. AttemptsLeft
    BY ActivityAssumption DEF ActivityAssumption, Init, AttemptsLeft, NoJob
  <1>4. /\ round \in [1..Rounds -> [state : {"none", "draft", "published"}, pairs : SUBSET Pairing,
                                    at : Times, creation : {"none", "creating", "created"}]]
        /\ lichess \in [Pairing -> LichessType] /\ stored \in [Pairing -> Times]
        /\ profile \in [Player -> [pausedAt : Times, resumedAt : Times]]
    <2>1. NoRound \in [state : {"none", "draft", "published"}, pairs : SUBSET Pairing,
                        at : Times, creation : {"none", "creating", "created"}]
      BY <1>1 DEF NoRound
    <2>2. [state |-> "none", at |-> 0] \in LichessType /\ [pausedAt |-> 0, resumedAt |-> 0] \in [pausedAt : Times, resumedAt : Times]
      BY <1>1 DEF LichessType
    <2> QED
      BY <1>1, <2>1, <2>2 DEF Init
  <1>5. missed = {} /\ notices = {}
    BY DEF Init
  <1> QED
    BY <1>1, <1>2, <1>3, <1>4, <1>5 DEF TypeInv, TypeOK, EvalType, JobType, LichessType

(* A step that changes evaluations only. *)
LEMMA EvalStepType ==
    ASSUME TypeInv, UNCHANGED <<league, world>>, eval' \in [Evaluator -> EvalType] PROVE TypeInv'
  BY DEF TypeInv, TypeOK, AttemptsLeft, EvalType, league, world

LEMMA EvaluateStartType ==
    ASSUME TypeInv, NEW e \in Evaluator, EvaluateStart(e) PROVE TypeInv'
  <1>1. \A p \in Pairing : rows[p].game \in Pairing \cup {NoGame}
    BY DEF TypeInv, TypeOK, RowOf
  <1>2. {<<p, rows[p].game>> : p \in {q \in Pairing : Unstarted(q, clock)}}
            \in SUBSET (Pairing \X (Pairing \cup {NoGame}))
    BY <1>1
  <1>3. clock \in Times
    BY ActivityAssumption DEF ActivityAssumption, TypeInv, TypeOK, Times
  <1>4. eval' \in [Evaluator -> EvalType]
    <2> DEFINE listed == {<<p, rows[p].game>> : p \in {q \in Pairing : Unstarted(q, clock)}}
    <2> HIDE DEF listed
    <2>1. [IdleEval EXCEPT !.pc = "ask", !.now = clock, !.listed = listed] \in EvalType
      BY <1>2, <1>3 DEF EvalType, IdleEval, listed
    <2>2. eval' = [eval EXCEPT ![e] = [IdleEval EXCEPT !.pc = "ask", !.now = clock, !.listed = listed]]
      BY DEF EvaluateStart, listed
    <2> QED
      BY <2>1, <2>2 DEF TypeInv, TypeOK, EvalType
  <1> QED
    BY <1>4, EvalStepType DEF EvaluateStart

LEMMA EvaluateAskType ==
    ASSUME TypeInv, NEW e \in Evaluator, EvaluateAsk(e) PROVE TypeInv'
  <1>1. Accepted(eval[e].listed) \in SUBSET Pairing
    BY DEF Accepted
  <1>2. eval[e] \in EvalType /\ eval \in [Evaluator -> EvalType]
    BY DEF TypeInv, TypeOK, EvalType
  <1>3. [eval[e] EXCEPT !.pc = "commit", !.accepted = Accepted(eval[e].listed)] \in EvalType
    BY <1>1, <1>2 DEF EvalType
  <1> QED
    BY <1>2, <1>3, EvalStepType DEF EvaluateAsk

LEMMA EvaluateFailsType ==
    ASSUME TypeInv, NEW e \in Evaluator, EvaluateFails(e) PROVE TypeInv'
  <1>1. eval' \in [Evaluator -> EvalType]
    BY Idle DEF EvaluateFails, TypeInv, TypeOK, EvalType
  <1> QED
    BY <1>1, EvalStepType DEF EvaluateFails

LEMMA EvaluateCommitType ==
    ASSUME TypeInv, NEW e \in Evaluator, EvaluateCommit(e) PROVE TypeInv'
  <1> DEFINE retired == Retired(e)
             misses == NewMisses(missed, {p \in retired : Challenge(rows[p])}, eval[e].now)
             Latest(u) == Max({m.round : m \in {x \in misses : x.user = u}})
             outcome == [u \in {m.user : m \in misses} |->
                            Decide(Cardinality(Streak(missed \cup misses, u)))]
             pausing == {u \in DOMAIN outcome : outcome[u] = "pause" /\ profile[u].pausedAt = 0}
             warning == {u \in DOMAIN outcome : outcome[u] = "warn"}
  <1>1. eval[e].now \in Times
    BY DEF TypeInv, TypeOK
  <1>2. retired \subseteq Pairing
    BY DEF Retired
  <1>3. misses \subseteq [user : Player, round : 1..Rounds, at : Times]
    BY <1>1, <1>2, NewMissesType
  <1>4. rows' \in [Pairing -> RowOf(Pairing)]
    <2>1. \A p \in Pairing : [rows[p] EXCEPT !.status = "failed"] \in RowOf(Pairing)
      BY RowStatements DEF TypeInv, TypeOK, MarkPairingFailed
    <2> QED
      BY <2>1 DEF EvaluateCommit, TypeInv, TypeOK
  <1>5. job' \in [Pairing -> JobType] /\ AttemptsLeft'
    <2>1. \A p \in Pairing : /\ job[p] \in JobType
                             /\ job[p].state \in {"none", "queued"} => job[p].attempts < MaxAttempts
      BY DEF TypeInv, TypeOK, AttemptsLeft, JobType
    <2>2. \A p \in Pairing :
            /\ Queued(job[p]) \in JobType
            /\ Queued(job[p]).state \in {"none", "queued"} => Queued(job[p]).attempts < MaxAttempts
      BY <2>1, ActivityAssumption DEF ActivityAssumption, JobType, Queued
    <2>3. job' = [p \in Pairing |-> IF p \in retired /\ Challenge(rows[p])
                                       THEN Queued(job[p]) ELSE job[p]]
      BY DEF EvaluateCommit
    <2>4. \A p \in Pairing : job'[p] \in {job[p], Queued(job[p])}
      BY <2>3
    <2>5. AttemptsLeft'
      BY <2>1, <2>2, <2>4 DEF AttemptsLeft
    <2>6. job' \in [Pairing -> JobType]
      BY <2>1, <2>2, <2>3
    <2> QED
      BY <2>5, <2>6
  <1>6. missed' \subseteq [user : Player, round : 1..Rounds, at : Times]
    BY <1>3 DEF EvaluateCommit, TypeInv, TypeOK
  <1>7. profile' \in [Player -> [pausedAt : Times, resumedAt : Times]]
    <2>1. \A u \in Player : SetAutoPaused(profile[u], eval[e].now) \in [pausedAt : Times, resumedAt : Times]
      <3> SUFFICES ASSUME NEW u \in Player
                   PROVE  SetAutoPaused(profile[u], eval[e].now) \in [pausedAt : Times, resumedAt : Times]
        OBVIOUS
      <3>1. profile[u] \in [pausedAt : Times, resumedAt : Times]
        BY DEF TypeInv, TypeOK
      <3> QED
        BY <1>1, <3>1 DEF SetAutoPaused
    <2>2. \A u \in Player : profile[u] \in [pausedAt : Times, resumedAt : Times]
      BY DEF TypeInv, TypeOK
    <2>3. profile' = [u \in Player |-> IF u \in pausing THEN SetAutoPaused(profile[u], eval[e].now)
                                       ELSE profile[u]]
      BY DEF EvaluateCommit
    <2> HIDE DEF pausing
    <2> QED
      BY <2>1, <2>2, <2>3
  <1>8. notices' \subseteq Player \X {"auto_pause", "missed_start"} \X (1..Rounds)
    <2>1. \A u \in DOMAIN outcome : u \in Player /\ Latest(u) \in 1..Rounds
      <3> SUFFICES ASSUME NEW u \in {m.user : m \in misses}
                   PROVE  u \in Player /\ Latest(u) \in 1..Rounds
        OBVIOUS
      <3> DEFINE S == {m.round : m \in {x \in misses : x.user = u}}
      <3> HIDE DEF misses
      <3>1. S \subseteq 1..Rounds /\ S # {}
        BY <1>3
      <3>2. Max(S) \in S
        BY <3>1, MaxIsMember, ActivityAssumption DEF ActivityAssumption
      <3>3. u \in Player
        BY <1>3
      <3> QED
        BY <3>1, <3>2, <3>3
    <2>2. pausing \subseteq DOMAIN outcome /\ warning \subseteq DOMAIN outcome
      OBVIOUS
    <2>3. notices' = notices \cup {PausedNotice(u, Latest(u)) : u \in pausing}
                             \cup {WarningNotice(u, Latest(u)) : u \in warning}
      BY DEF EvaluateCommit
    <2> HIDE DEF Latest, outcome, pausing, warning
    <2> QED
      BY <2>1, <2>2, <2>3 DEF TypeInv, TypeOK, PausedNotice, WarningNotice
  <1>9. eval' \in [Evaluator -> EvalType]
    BY Idle DEF EvaluateCommit, TypeInv, TypeOK, EvalType
  <1> QED
    BY <1>4, <1>5, <1>6, <1>7, <1>8, <1>9
    DEF EvaluateCommit, TypeInv, TypeOK, JobType, EvalType, world

(* The worker's outcomes of a cancel-challenge job. *)
LEMMA JobStepType ==
    ASSUME TypeInv, NEW p \in Pairing, CancelChallenge(p) \/ CannotWithdraw(p) \/ CancelFails(p)
    PROVE  TypeInv'
  <1>1. /\ job[p] \in JobType /\ job \in [Pairing -> JobType] /\ job[p].state = "queued"
        /\ job[p].attempts < MaxAttempts /\ MaxAttempts \in Nat
    BY ActivityAssumption DEF ActivityAssumption, TypeInv, TypeOK, AttemptsLeft, JobType,
       CancelChallenge, CannotWithdraw, CancelFails
  <1>2. lichess \in [Pairing -> LichessType]
    BY DEF TypeInv, TypeOK, LichessType
  <1>3. lichess' \in [Pairing -> LichessType]
    <2>1. \A state \in Withdrawn(lichess[p].state) : [lichess[p] EXCEPT !.state = state] \in LichessType
      BY <1>2 DEF LichessType, Withdrawn, Opened
    <2>2. \/ lichess' = lichess
          \/ \E state \in Withdrawn(lichess[p].state) : lichess' = [lichess EXCEPT ![p].state = state]
      BY DEF CancelChallenge, CannotWithdraw, CancelFails, world
    <2> QED
      BY <1>2, <2>1, <2>2
  <1>4. PICK j : job' = [job EXCEPT ![p] = j] /\ j \in JobType
                   /\ (j.state \in {"none", "queued"} => j.attempts < MaxAttempts)
    <2>1. CASE CancelChallenge(p)
      <3> DEFINE j == [job[p] EXCEPT !.state = "done"]
      <3>1. job' = [job EXCEPT ![p] = j]
        BY <2>1 DEF CancelChallenge
      <3>2. j \in JobType /\ j.state = "done"
        BY <1>1 DEF JobType
      <3> QED
        BY <3>1, <3>2
    <2>2. CASE CannotWithdraw(p)
      <3> DEFINE j == [job[p] EXCEPT !.state = "dropped"]
      <3>1. job' = [job EXCEPT ![p] = j]
        BY <2>2 DEF CannotWithdraw
      <3>2. j \in JobType /\ j.state = "dropped"
        BY <1>1 DEF JobType
      <3> QED
        BY <3>1, <3>2
    <2>3. CASE CancelFails(p)
      <3> DEFINE j == [attempts |-> job[p].attempts + 1,
                       state |-> IF job[p].attempts + 1 = MaxAttempts THEN "dropped" ELSE "queued"]
      <3>1. job' = [job EXCEPT ![p] = j]
        BY <2>3 DEF CancelFails
      <3>2. job[p].attempts + 1 \in 0..MaxAttempts
        BY <1>1 DEF JobType
      <3>3. j \in JobType
        BY <3>2 DEF JobType
      <3>4. j.state \in {"none", "queued"} => j.attempts < MaxAttempts
        BY <1>1, <3>2
      <3> HIDE DEF j
      <3> QED
        BY <3>1, <3>3, <3>4
    <2> QED
      BY <2>1, <2>2, <2>3
  <1>5. job' \in [Pairing -> JobType]
    BY <1>1, <1>4
  <1>6. AttemptsLeft'
    BY <1>1, <1>4 DEF AttemptsLeft, TypeInv
  <1> QED
    BY <1>3, <1>5, <1>6
    DEF CancelChallenge, CannotWithdraw, CancelFails, TypeInv, TypeOK, JobType, LichessType, world

(* The generation and publication of a round, and its game creation. *)
LEMMA RoundStepType ==
    ASSUME TypeInv, NEW r \in 1..Rounds,
           Generate(r) \/ Publish(r) \/ CreationEnds(r) \/ RetryGameCreation(r)
    PROVE  TypeInv'
  <1> DEFINE RoundType == [state : {"none", "draft", "published"}, pairs : SUBSET Pairing,
                           at : Times, creation : {"none", "creating", "created"}]
  <1>1. clock \in Times /\ round \in [1..Rounds -> RoundType]
    BY ActivityAssumption DEF ActivityAssumption, TypeInv, TypeOK, Times
  <1>2. PICK s \in RoundType : round' = [round EXCEPT ![r] = s]
    <2>1. CASE Generate(r)
      <3> DEFINE P == {p \in Pairing : RoundOf[p] = r /\ profile[White[p]].pausedAt = 0
                                                      /\ profile[Black[p]].pausedAt = 0}
      <3>1. round' = [round EXCEPT ![r] = [round[r] EXCEPT !.state = "draft", !.pairs = P]]
        BY <2>1 DEF Generate
      <3> HIDE DEF P
      <3>2. P \in SUBSET Pairing
        BY DEF P
      <3>3. [round[r] EXCEPT !.state = "draft", !.pairs = P] \in RoundType
        BY <1>1, <3>2
      <3> QED
        BY <3>1, <3>3
    <2>2. CASE Publish(r)
      <3>1. round' = [round EXCEPT ![r] = [round[r] EXCEPT !.state = "published", !.at = clock,
                                                          !.creation = "creating"]]
        BY <2>2 DEF Publish
      <3>2. [round[r] EXCEPT !.state = "published", !.at = clock, !.creation = "creating"] \in RoundType
        BY <1>1
      <3> QED
        BY <3>1, <3>2
    <2>3. CASE CreationEnds(r) \/ RetryGameCreation(r)
      <3>1. \E c \in {"creating", "created"} :
              round' = [round EXCEPT ![r] = [round[r] EXCEPT !.creation = c]]
        BY <2>3 DEF CreationEnds, RetryGameCreation
      <3>2. \A c \in {"creating", "created"} : [round[r] EXCEPT !.creation = c] \in RoundType
        BY <1>1
      <3> QED
        BY <3>1, <3>2
    <2> QED
      BY <2>1, <2>2, <2>3
  <1>3. round' \in [1..Rounds -> RoundType]
    BY <1>1, <1>2
  <1> QED
    BY <1>3 DEF Generate, Publish, CreationEnds, RetryGameCreation, TypeInv, TypeOK, AttemptsLeft, world

(* What create-games, sync-games, the admin and the players do to a pairing. *)
LEMMA PairingStepType ==
    ASSUME TypeInv, NEW p \in Pairing, ChallengeFor(p) \/ MarkFailed(p) \/ SyncGame(p) \/ Start(p)
    PROVE  TypeInv'
  <1>1. /\ rows \in [Pairing -> RowOf(Pairing)] /\ job \in [Pairing -> JobType]
        /\ lichess \in [Pairing -> LichessType] /\ stored \in [Pairing -> Times]
        /\ clock \in Times /\ 0 \in Times
    <2>1. clock \in Times /\ 0 \in Times
      BY ActivityAssumption DEF ActivityAssumption, TypeInv, TypeOK, Times
    <2> QED
      BY <2>1 DEF TypeInv, TypeOK, JobType, LichessType
  <1>2. rows' \in [Pairing -> RowOf(Pairing)]
    <2>1. \/ rows' = rows
          \/ rows' = [rows EXCEPT ![p] = RecordChallenge(rows[p], p)]
          \/ rows' = [rows EXCEPT ![p] = MarkPublishedPairingFailed(rows[p])]
          \/ rows' = [rows EXCEPT ![p] = MarkPairingFailed(rows[p])]
          \/ rows' = [rows EXCEPT ![p] = AttachGameToPairing(rows[p], p, "in_progress")]
      BY DEF ChallengeFor, MarkFailed, SyncGame, Start, league
    <2> QED
      BY <1>1, <2>1, RowStatements
  <1>3. lichess' \in [Pairing -> LichessType]
    <2>1. [lichess[p] EXCEPT !.state = "open"] \in LichessType
      BY <1>1 DEF LichessType
    <2>2. [state |-> "accepted", at |-> clock] \in LichessType
      BY <1>1 DEF LichessType, Opened
    <2> QED
      BY <1>1, <2>1, <2>2 DEF ChallengeFor, MarkFailed, SyncGame, Start, world
  <1>4. stored' \in [Pairing -> Times]
    BY <1>1 DEF ChallengeFor, MarkFailed, SyncGame, Start, world, LichessType
  <1>5. job' \in [Pairing -> JobType] /\ AttemptsLeft'
    <2>1. /\ Queued(job[p]) \in JobType
          /\ Queued(job[p]).state \in {"none", "queued"} => Queued(job[p]).attempts < MaxAttempts
      BY <1>1, ActivityAssumption DEF ActivityAssumption, TypeInv, AttemptsLeft, JobType, Queued
    <2>2. job' = job \/ job' = [job EXCEPT ![p] = Queued(job[p])]
      BY <1>1 DEF ChallengeFor, MarkFailed, SyncGame, Start, league
    <2> QED
      BY <1>1, <2>1, <2>2 DEF TypeInv, AttemptsLeft
  <1> QED
    BY <1>2, <1>3, <1>4, <1>5
    DEF ChallengeFor, MarkFailed, SyncGame, Start, TypeInv, TypeOK, JobType, LichessType, league, world

LEMMA ResumeType ==
    ASSUME TypeInv, NEW u \in Player, Resume(u) PROVE TypeInv'
  <1>1. clock \in Times /\ 0 \in Times /\ profile \in [Player -> [pausedAt : Times, resumedAt : Times]]
    BY ActivityAssumption DEF ActivityAssumption, TypeInv, TypeOK, Times
  <1>2. ClearAutoPause(profile[u], clock) \in [pausedAt : Times, resumedAt : Times]
    BY <1>1 DEF ClearAutoPause
  <1>3. profile' \in [Player -> [pausedAt : Times, resumedAt : Times]]
    BY <1>1, <1>2 DEF Resume
  <1> QED
    BY <1>3 DEF Resume, TypeInv, TypeOK, AttemptsLeft, world

LEMMA TickType == ASSUME TypeInv, Tick PROVE TypeInv'
  <1>1. clock' \in 1..MaxClock
    BY ActivityAssumption DEF ActivityAssumption, TypeInv, TypeOK, Tick
  <1> QED
    BY <1>1 DEF Tick, TypeInv, TypeOK, AttemptsLeft, league

LEMMA TypeStep == TypeInv /\ [Next]_vars => TypeInv'
  <1> SUFFICES ASSUME TypeInv, [Next]_vars PROVE TypeInv'
    OBVIOUS
  <1>1. ASSUME NEW e \in Evaluator, EvaluateStep(e) \/ EvaluateFails(e) PROVE TypeInv'
    BY <1>1, EvaluateStartType, EvaluateAskType, EvaluateCommitType, EvaluateFailsType DEF EvaluateStep
  <1>2. ASSUME NEW p \in Pairing, CancelChallenge(p) \/ CannotWithdraw(p) \/ CancelFails(p)
        PROVE  TypeInv'
    BY <1>2, JobStepType
  <1>3. ASSUME NEW p \in Pairing, ChallengeFor(p) \/ MarkFailed(p) \/ SyncGame(p) \/ Start(p)
        PROVE  TypeInv'
    BY <1>3, PairingStepType
  <1>4. ASSUME NEW r \in 1..Rounds, Generate(r) \/ Publish(r) \/ CreationEnds(r) \/ RetryGameCreation(r)
        PROVE  TypeInv'
    BY <1>4, RoundStepType
  <1>5. ASSUME NEW u \in Player, Resume(u) PROVE TypeInv'
    BY <1>5, ResumeType
  <1>6. CASE Tick
    BY <1>6, TickType
  <1>7. CASE UNCHANGED vars
    BY <1>7 DEF vars, TypeInv, TypeOK, AttemptsLeft
  <1> QED
    BY <1>1, <1>2, <1>3, <1>4, <1>5, <1>6, <1>7, ActivityAssumption DEF Next, ActivityAssumption

(* Every table keeps its columns' ranges, no evaluation, job or notice names   *)
(* what does not exist, and no job is tried more often than river allows.      *)
THEOREM TypeCorrect == Spec => []TypeOK
  <1>1. TypeInv => TypeOK
    BY DEF TypeInv
  <1> QED
    BY <1>1, TypeInit, TypeStep, PTL DEF Spec

-----------------------------------------------------------------------------
(* Misses.                                                                    *)
(*                                                                            *)
(* A row that failed is not changed again, and a start is later than every    *)
(* evaluation under way: so a challenge that was not accepted when an         *)
(* evaluation asked stays, once retired, a challenge not accepted in time.    *)

(* What the steps other than an evaluation's commit do to a pairing that      *)
(* failed and to the starts.                                                  *)
Quiet ==
    /\ missed' = missed
    /\ clock' >= clock
    /\ \A p \in Pairing : rows[p].status = "failed" => rows'[p] = rows[p]
    /\ \A p \in Pairing : rows'[p].game \in {rows[p].game, p}
    /\ \A p \in Pairing : lichess'[p].at = lichess[p].at \/ lichess'[p].at >= clock
    /\ \A p \in Pairing : lichess'[p].at # 0 => lichess'[p].state \in Opened
    /\ \A p \in Pairing : lichess'[p].at <= clock'

LEMMA DeservedInit == Init => DeservedInv
  BY DEF Init, DeservedInv, Dated, OwnGame, AskedInTime, MissesAreDeserved, IdleEval, FreshRow, Opened

(* Steps on pairings and on their games. *)
LEMMA PairingQuiet ==
    ASSUME TypeInv, Dated, NEW p \in Pairing,
           \/ ChallengeFor(p) \/ MarkFailed(p) \/ SyncGame(p) \/ Start(p)
           \/ CancelChallenge(p) \/ CannotWithdraw(p) \/ CancelFails(p)
    PROVE  Quiet /\ eval' = eval
  <1>1. /\ rows \in [Pairing -> RowOf(Pairing)] /\ lichess \in [Pairing -> LichessType]
        /\ clock \in Nat /\ \A q \in Pairing : lichess[q].at \in Nat
    BY ActivityAssumption DEF ActivityAssumption, TypeInv, TypeOK, LichessType, Times
  <1>2. missed' = missed /\ clock' = clock /\ eval' = eval
    BY DEF ChallengeFor, MarkFailed, SyncGame, Start, CancelChallenge, CannotWithdraw, CancelFails, world, league
  <1>3. /\ \A q \in Pairing : rows[q].status = "failed" => rows'[q] = rows[q]
        /\ \A q \in Pairing : rows'[q].game \in {rows[q].game, q}
    <2>1. CASE rows' = rows
      BY <2>1
    <2>2. CASE ChallengeFor(p)
      BY <1>1, <2>2 DEF ChallengeFor, RecordChallenge, Recordable, ToCreate, Unmatched, RowOf
    <2>3. CASE MarkFailed(p)
      BY <1>1, <2>3 DEF MarkFailed, MarkPublishedPairingFailed, RowOf
    <2>4. CASE SyncGame(p)
      <3>1. rows[p].status # "failed"
        BY <2>4 DEF SyncGame, ToRecheck, Unmatched
      <3>2. PICK row : rows' = [rows EXCEPT ![p] = row] /\ row.game \in {rows[p].game, p}
        <4>1. MarkPairingFailed(rows[p]).game = rows[p].game
          BY <1>1 DEF MarkPairingFailed, RowOf
        <4>2. AttachGameToPairing(rows[p], p, "in_progress").game = p
          BY <1>1 DEF AttachGameToPairing, RowOf
        <4> QED
          BY <2>4, <4>1, <4>2 DEF SyncGame
      <3> QED
        BY <1>1, <3>1, <3>2
    <2> QED
      BY <2>1, <2>2, <2>3, <2>4 DEF Start, CancelChallenge, CannotWithdraw, CancelFails, league
  <1>4. /\ \A q \in Pairing : lichess'[q].at = lichess[q].at \/ lichess'[q].at >= clock
        /\ \A q \in Pairing : lichess'[q].at # 0 => lichess'[q].state \in Opened
        /\ \A q \in Pairing : lichess'[q].at <= clock'
    <2>1. CASE lichess' = lichess
      BY <1>1, <1>2, <2>1 DEF Dated
    <2>2. CASE ChallengeFor(p)
      BY <1>1, <1>2, <2>2 DEF ChallengeFor, Dated, Opened
    <2>3. CASE Start(p)
      BY <1>1, <1>2, <2>3 DEF Start, Dated, Opened, LichessType
    <2>4. ASSUME NEW state \in Withdrawn(lichess[p].state), lichess' = [lichess EXCEPT ![p].state = state]
          PROVE  <1>4
      BY <1>1, <1>2, <2>4 DEF Withdrawn, Dated, Opened, LichessType
    <2> QED
      BY <2>1, <2>2, <2>3, <2>4 DEF MarkFailed, SyncGame, CancelChallenge, CannotWithdraw, CancelFails, world
  <1> QED
    BY <1>1, <1>2, <1>3, <1>4 DEF Quiet

(* Rounds, resumes, time. *)
LEMMA OtherQuiet ==
    ASSUME TypeInv, Dated,
           \/ \E r \in 1..Rounds : Generate(r) \/ Publish(r) \/ CreationEnds(r) \/ RetryGameCreation(r)
           \/ \E u \in Player : Resume(u)
           \/ Tick
           \/ UNCHANGED vars
    PROVE  Quiet /\ eval' = eval
  <1>1. clock \in Nat /\ \A q \in Pairing : lichess[q].at \in Nat
    BY ActivityAssumption DEF ActivityAssumption, TypeInv, TypeOK, Times
  <1>2. /\ missed' = missed /\ eval' = eval /\ rows' = rows /\ lichess' = lichess
        /\ clock' \in {clock, clock + 1}
    BY DEF Generate, Publish, CreationEnds, RetryGameCreation, Resume, Tick, vars, league, world
  <1> QED
    BY <1>1, <1>2 DEF Quiet, Dated

(* The times are numbers. *)
LEMMA TimesAreNumbers ==
    ASSUME TypeInv
    PROVE  /\ clock \in Nat
           /\ \A p \in Pairing : lichess[p].at \in Nat /\ stored[p] \in Nat
           /\ \A m \in missed : m.at \in Nat
           /\ \A e \in Evaluator : eval[e].now \in Nat
           /\ \A u \in Player : profile[u].pausedAt \in Nat /\ profile[u].resumedAt \in Nat
  BY ActivityAssumption DEF ActivityAssumption, TypeInv, TypeOK, Times

(* What a quiet step keeps. *)
LEMMA QuietKeeps ==
    ASSUME TypeInv, TypeInv', DeservedInv, Quiet
    PROVE  MissesAreDeserved' /\ OwnGame' /\ (eval' = eval => Dated' /\ AskedInTime')
  <1>1. /\ clock \in Nat /\ clock' \in Nat
        /\ \A p \in Pairing : lichess[p].at \in Nat /\ lichess'[p].at \in Nat
        /\ \A m \in missed : m.at \in Nat
        /\ \A e \in Evaluator : eval[e].now \in Nat
    <2>1. clock' \in Nat /\ \A p \in Pairing : lichess'[p].at \in Nat
      BY ActivityAssumption DEF ActivityAssumption, TypeInv, TypeOK, Times
    <2> QED
      BY <2>1, TimesAreNumbers
  <1>2. MissesAreDeserved'
    <2> SUFFICES ASSUME NEW m \in missed
                 PROVE  \E p \in Received(m.user, m.round)' :
                            /\ rows'[p].status = "failed"
                            /\ lichess'[p].at # 0 => lichess'[p].at >= m.at
      BY DEF MissesAreDeserved, Quiet
    <2>1. PICK p \in Received(m.user, m.round) :
              /\ rows[p].status = "failed"
              /\ lichess[p].at # 0 => lichess[p].at >= m.at
      BY DEF DeservedInv, MissesAreDeserved
    <2>2. p \in Pairing /\ rows'[p] = rows[p] /\ m.at <= clock
      BY <2>1 DEF Received, Quiet, DeservedInv, Dated
    <2>3. p \in Received(m.user, m.round)'
      BY <2>1, <2>2 DEF Received, Challenge
    <2>4. lichess'[p].at # 0 => lichess'[p].at >= m.at
      BY <1>1, <2>1, <2>2 DEF Quiet
    <2> QED
      BY <2>1, <2>2, <2>3, <2>4
  <1>3. OwnGame'
    BY DEF DeservedInv, OwnGame, Quiet
  <1>4. eval' = eval => Dated'
    BY <1>1 DEF DeservedInv, Dated, Quiet
  <1>5. eval' = eval => AskedInTime'
    BY <1>1 DEF DeservedInv, Dated, AskedInTime, Quiet
  <1> QED
    BY <1>2, <1>3, <1>4, <1>5

(* What an evaluation has when it has listed. *)
LEMMA EvaluateStartKnows ==
    ASSUME TypeInv, NEW e \in Evaluator, EvaluateStart(e)
    PROVE  /\ eval'[e].pc = "ask" /\ eval'[e].now = clock
           /\ \A f \in Evaluator : f # e => eval'[f] = eval[f]
  <1> DEFINE listed == {<<p, rows[p].game>> : p \in {q \in Pairing : Unstarted(q, clock)}}
  <1>1. eval' = [eval EXCEPT ![e] = [IdleEval EXCEPT !.pc = "ask", !.now = clock, !.listed = listed]]
    BY DEF EvaluateStart
  <1> HIDE DEF listed
  <1>2. eval \in [Evaluator -> EvalType]
    BY DEF TypeInv, TypeOK, EvalType
  <1> QED
    BY <1>1, <1>2 DEF IdleEval

(* An evaluation that begins, asks or fails. *)
LEMMA EvaluateKeeps ==
    ASSUME TypeInv, TypeInv', DeservedInv, NEW e \in Evaluator,
           EvaluateStart(e) \/ EvaluateAsk(e) \/ EvaluateFails(e)
    PROVE  DeservedInv'
  <1>1. UNCHANGED <<league, world>>
    BY DEF EvaluateStart, EvaluateAsk, EvaluateFails
  <1>2. Quiet
    BY <1>1, TimesAreNumbers DEF Quiet, DeservedInv, Dated, OwnGame, league, world
  <1>3. eval \in [Evaluator -> EvalType] /\ clock \in Nat
    BY TimesAreNumbers DEF TypeInv, TypeOK, EvalType
  <1>4. \A f \in Evaluator : eval'[f].now <= clock'
    <2>1. \A f \in Evaluator : eval'[f].now \in {0, clock, eval[f].now}
      <3>1. CASE EvaluateStart(e)
        BY <1>3, <3>1, EvaluateStartKnows
      <3>2. CASE EvaluateAsk(e)
        BY <1>3, <3>2 DEF EvaluateAsk, EvalType
      <3>3. CASE EvaluateFails(e)
        BY <1>3, <3>3 DEF EvaluateFails, IdleEval
      <3> QED
        BY <3>1, <3>2, <3>3
    <2> QED
      BY <1>1, <1>3, <2>1 DEF DeservedInv, Dated, world
  <1>5. Dated'
    BY <1>1, <1>4 DEF DeservedInv, Dated, league, world
  <1>6. AskedInTime'
    <2>1. ASSUME NEW p \in Pairing, eval'[e].pc = "commit", <<p, p>> \in eval'[e].listed,
                 p \notin eval'[e].accepted
          PROVE  lichess[p].at = 0
      <3>1. EvaluateAsk(e)
        BY <1>3, <2>1, EvaluateStartKnows DEF EvaluateFails, IdleEval
      <3>2. eval'[e].listed = eval[e].listed /\ eval'[e].accepted = Accepted(eval[e].listed)
        BY <1>3, <3>1 DEF EvaluateAsk, EvalType
      <3>3. lichess[p].state \notin Opened
        BY <2>1, <3>2 DEF Accepted
      <3> QED
        BY <3>3 DEF DeservedInv, Dated
    <2>2. \A f \in Evaluator : f # e => eval'[f] = eval[f]
      BY <1>3 DEF EvaluateStart, EvaluateAsk, EvaluateFails
    <2>3. lichess' = lichess
      BY <1>1 DEF world
    <2> QED
      BY <2>1, <2>2, <2>3 DEF DeservedInv, AskedInTime
  <1> QED
    BY <1>2, <1>5, <1>6, QuietKeeps DEF DeservedInv

(* An evaluation's transaction: the new misses are of challenges it retires,  *)
(* as it listed them, and that it knows not to have been accepted in time.    *)
LEMMA CommitKeeps ==
    ASSUME TypeInv, TypeInv', DeservedInv, NEW e \in Evaluator, EvaluateCommit(e)
    PROVE  DeservedInv'
  <1> DEFINE retired == Retired(e)
             unanswered == {p \in retired : Challenge(rows[p])}
             misses == NewMisses(missed, unanswered, eval[e].now)
  <1>1. /\ missed' = missed \cup misses
        /\ rows' = [p \in Pairing |-> IF p \in retired THEN [rows[p] EXCEPT !.status = "failed"] ELSE rows[p]]
        /\ eval' = [eval EXCEPT ![e] = IdleEval]
        /\ eval[e].pc = "commit"
        /\ clock' = clock /\ lichess' = lichess
    BY DEF EvaluateCommit, world
  <1>2. rows \in [Pairing -> RowOf(Pairing)] /\ eval \in [Evaluator -> EvalType]
    BY DEF TypeInv, TypeOK, EvalType
  <1>3. \A p \in Pairing : /\ rows'[p].game = rows[p].game /\ rows'[p].method = rows[p].method
                           /\ rows'[p].status = IF p \in retired THEN "failed" ELSE rows[p].status
    BY <1>1, <1>2 DEF RowOf
  <1>4. \A p \in unanswered : /\ p \in Pairing /\ p \in retired /\ Challenge(rows[p])
                              /\ lichess[p].at # 0 => lichess[p].at >= eval[e].now
    <2> SUFFICES ASSUME NEW p \in unanswered
                 PROVE  /\ p \in Pairing /\ p \in retired /\ Challenge(rows[p])
                        /\ lichess[p].at # 0 => lichess[p].at >= eval[e].now
      OBVIOUS
    <2>1. p \in Pairing /\ p \in retired /\ Challenge(rows[p]) /\ p \notin eval[e].accepted
      BY DEF Retired
    <2>2. rows[p].game = p
      BY <2>1 DEF Challenge, DeservedInv, OwnGame
    <2>3. <<p, p>> \in eval[e].listed
      BY <2>1, <2>2 DEF Retired, Retirable
    <2> QED
      BY <1>1, <2>1, <2>3 DEF DeservedInv, AskedInTime
  <1>5. \A m \in misses : \E p \in unanswered : m.user = Black[p] /\ m.round = RoundOf[p] /\ m.at = eval[e].now
    BY DEF NewMisses
  <1> HIDE DEF retired, unanswered, misses
  <1>6. MissesAreDeserved'
    <2> SUFFICES ASSUME NEW m \in missed'
                 PROVE  \E p \in Received(m.user, m.round)' :
                            /\ rows'[p].status = "failed"
                            /\ lichess'[p].at # 0 => lichess'[p].at >= m.at
      BY DEF MissesAreDeserved
    <2>1. CASE m \in missed
      <3>1. PICK p \in Received(m.user, m.round) :
                /\ rows[p].status = "failed"
                /\ lichess[p].at # 0 => lichess[p].at >= m.at
        BY <2>1 DEF DeservedInv, MissesAreDeserved
      <3>2. p \in Received(m.user, m.round)'
        BY <1>3, <3>1 DEF Received, Challenge
      <3> QED
        BY <1>1, <1>3, <3>1, <3>2 DEF Received
    <2>2. CASE m \in misses
      <3>1. PICK p \in unanswered : m.user = Black[p] /\ m.round = RoundOf[p] /\ m.at = eval[e].now
        BY <1>5, <2>2
      <3>2. p \in Received(m.user, m.round)'
        BY <1>3, <1>4, <3>1 DEF Received, Challenge
      <3> QED
        BY <1>1, <1>3, <1>4, <3>1, <3>2
    <2> QED
      BY <1>1, <2>1, <2>2
  <1>7. Dated'
    BY <1>1, <1>2, <1>5, TimesAreNumbers DEF DeservedInv, Dated, IdleEval
  <1>8. OwnGame'
    BY <1>3 DEF DeservedInv, OwnGame
  <1>9. AskedInTime'
    BY <1>1, <1>2 DEF DeservedInv, AskedInTime, IdleEval
  <1> QED
    BY <1>6, <1>7, <1>8, <1>9 DEF DeservedInv

LEMMA DeservedStep == TypeInv /\ TypeInv' /\ DeservedInv /\ [Next]_vars => DeservedInv'
  <1> SUFFICES ASSUME TypeInv, TypeInv', DeservedInv, [Next]_vars PROVE DeservedInv'
    OBVIOUS
  <1>1. ASSUME NEW e \in Evaluator, EvaluateStep(e) \/ EvaluateFails(e) PROVE DeservedInv'
    BY <1>1, EvaluateKeeps, CommitKeeps DEF EvaluateStep
  <1>2. ASSUME NEW p \in Pairing,
               \/ ChallengeFor(p) \/ MarkFailed(p) \/ SyncGame(p) \/ Start(p)
               \/ CancelChallenge(p) \/ CannotWithdraw(p) \/ CancelFails(p)
        PROVE  DeservedInv'
    BY <1>2, PairingQuiet, QuietKeeps DEF DeservedInv
  <1>3. CASE \/ \E r \in 1..Rounds : Generate(r) \/ Publish(r) \/ CreationEnds(r) \/ RetryGameCreation(r)
             \/ \E u \in Player : Resume(u)
             \/ Tick
             \/ UNCHANGED vars
    BY <1>3, OtherQuiet, QuietKeeps DEF DeservedInv
  <1> QED
    BY <1>1, <1>2, <1>3, ActivityAssumption DEF Next, ActivityAssumption

(* A missed start is deserved, whatever happens between an evaluation's list,  *)
(* Lichess's answer and the transaction that records it, and whatever other    *)
(* evaluations, jobs, admins and players do in between.                        *)
THEOREM MissesDeserved == Spec => []MissesAreDeserved
  <1>1. Init => TypeInv /\ DeservedInv
    BY TypeInit, DeservedInit
  <1>2. TypeInv /\ DeservedInv /\ [Next]_vars => (TypeInv /\ DeservedInv)'
    BY TypeStep, DeservedStep
  <1>3. DeservedInv => MissesAreDeserved
    BY DEF DeservedInv
  <1> QED
    BY <1>1, <1>2, <1>3, PTL DEF Spec

-----------------------------------------------------------------------------
(* Pauses.                                                                    *)
(*                                                                            *)
(* The streak counts rows of missed_starts, the property counts rounds: they  *)
(* agree because a player has one row at most for a round.                    *)

(* One insert for each player and round, and none for what is there. *)
LEMMA NewMissesUnique ==
    ASSUME MissesUnique, NEW U, NEW now
    PROVE  \A m, n \in missed \cup NewMisses(missed, U, now) :
              m.user = n.user /\ m.round = n.round => m = n
  BY DEF MissesUnique, NewMisses

LEMMA MissesUniqueStep == MissesUnique /\ [Next]_vars => MissesUnique'
  <1> SUFFICES ASSUME MissesUnique, [Next]_vars PROVE MissesUnique'
    OBVIOUS
  <1>1. ASSUME NEW e \in Evaluator, EvaluateCommit(e) PROVE MissesUnique'
    <2>1. PICK U : missed' = missed \cup NewMisses(missed, U, eval[e].now)
      BY <1>1 DEF EvaluateCommit
    <2> QED
      BY <2>1, NewMissesUnique DEF MissesUnique
  <1>2. CASE missed' = missed
    BY <1>2 DEF MissesUnique
  <1>3. missed' = missed \/ \E e \in Evaluator : EvaluateCommit(e)
    BY DEF Next, EvaluateStep, EvaluateStart, EvaluateAsk, EvaluateFails, CancelChallenge,
           CannotWithdraw, CancelFails, ChallengeFor, SyncGame, Start, MarkFailed, Generate,
           Publish, CreationEnds, RetryGameCreation, Resume, Tick, vars, league
  <1> QED
    BY <1>1, <1>2, <1>3

(* The rows of a streak are as many as its rounds. *)
LEMMA StreakCountsRounds ==
    ASSUME TypeInv, NEW u \in Player, NEW M,
           M \subseteq [user : Player, round : 1..Rounds, at : Times],
           \A m, n \in M : m.user = n.user /\ m.round = n.round => m = n
    PROVE  /\ Cardinality(Streak(M, u)) \in Nat /\ Cardinality(RoundsMissed(u, M)) \in Nat
           /\ Cardinality(Streak(M, u)) <= Cardinality(RoundsMissed(u, M))
  <1> DEFINE S == Streak(M, u)
             R == RoundsMissed(u, M)
             RowFor == [r \in R |-> CHOOSE m \in S : m.round = r]
  <1>1. S \subseteq M /\ \A m \in S : m.user = u /\ m.round \in 1..Rounds
    BY DEF Streak
  <1>2. S = {x \in M : /\ x.user = u /\ x.at > profile[u].resumedAt
                       /\ \A p \in Pairing : u \in {White[p], Black[p]} => ~(stored[p] >= x.at)}
    <2>1. \A x \in M, p \in Pairing : x.at > stored[p] <=> ~(stored[p] >= x.at)
      <3>1. \A x \in M : x.at \in Nat
        BY ActivityAssumption DEF ActivityAssumption, Times
      <3> QED
        BY <3>1, TimesAreNumbers
    <2>2. \A x \in M : (\A t \in Starts(u) : x.at > t)
                          <=> \A p \in Pairing : u \in {White[p], Black[p]} => x.at > stored[p]
      BY DEF Starts
    <2> QED
      BY <2>1, <2>2 DEF Streak
  <1>3. R = {m.round : m \in S}
    BY <1>2 DEF RoundsMissed
  <1> HIDE DEF S, R
  <1>4. IsFiniteSet(R)
    <2>1. R \in SUBSET (1..Rounds)
      BY <1>1, <1>3
    <2>2. IsFiniteSet(1..Rounds)
      BY FS_Interval, ActivityAssumption DEF ActivityAssumption
    <2> QED
      BY <2>1, <2>2, FS_Subset
  <1>5. \A r \in R : RowFor[r] \in S /\ RowFor[r].round = r
    BY <1>3
  <1>6. RowFor \in Surjection(R, S)
    <2>1. \A m \in S : m.round \in R /\ RowFor[m.round] = m
      <3> SUFFICES ASSUME NEW m \in S PROVE m.round \in R /\ RowFor[m.round] = m
        OBVIOUS
      <3>1. m.round \in R
        BY <1>3
      <3>2. RowFor[m.round] \in S /\ RowFor[m.round].round = m.round
        BY <1>5, <3>1
      <3> QED
        BY <1>1, <3>1, <3>2
    <2>2. RowFor \in [R -> S]
      BY <1>5
    <2> QED
      BY <2>1, <2>2 DEF Surjection
  <1>7. IsFiniteSet(S) /\ Cardinality(S) <= Cardinality(R)
    BY <1>4, <1>6, FS_Surjection
  <1>8. Cardinality(S) \in Nat /\ Cardinality(R) \in Nat
    BY <1>4, <1>7, FS_CardinalityType
  <1> QED
    BY <1>7, <1>8 DEF S, R

(* The step that pauses a player. *)
LEMMA PauseStepHolds == TypeInv /\ TypeInv' /\ MissesUnique /\ [Next]_vars => [PauseStep]_vars
  <1> SUFFICES ASSUME TypeInv, TypeInv', MissesUnique, [Next]_vars PROVE PauseStep
    BY DEF vars
  <1> SUFFICES ASSUME NEW u \in Player, profile[u].pausedAt = 0, profile'[u].pausedAt # 0
               PROVE  Cardinality(RoundsMissed(u, missed')) >= PauseAfter
    BY DEF PauseStep
  <1>1. PICK e \in Evaluator : EvaluateCommit(e)
    <2>1. ASSUME NEW v \in Player, Resume(v) PROVE FALSE
      BY <2>1 DEF Resume, ClearAutoPause, TypeInv, TypeOK
    <2>2. profile' # profile
      OBVIOUS
    <2> QED
      BY <2>1, <2>2
      DEF Next, EvaluateStep, EvaluateStart, EvaluateAsk, EvaluateFails, CancelChallenge,
          CannotWithdraw, CancelFails, ChallengeFor, SyncGame, Start, MarkFailed, Generate,
          Publish, CreationEnds, RetryGameCreation, Tick, vars, league
  <1> DEFINE misses == NewMisses(missed, {p \in Retired(e) : Challenge(rows[p])}, eval[e].now)
             M == missed \cup misses
             outcome == [v \in {m.user : m \in misses} |-> Decide(Cardinality(Streak(M, v)))]
             pausing == {v \in DOMAIN outcome : outcome[v] = "pause" /\ profile[v].pausedAt = 0}
  <1>2. /\ missed' = M
        /\ profile' = [v \in Player |-> IF v \in pausing THEN SetAutoPaused(profile[v], eval[e].now)
                                                         ELSE profile[v]]
    BY <1>1 DEF EvaluateCommit
  <1>3. Decide(Cardinality(Streak(M, u))) = "pause"
    <2>1. u \in pausing
      BY <1>2
    <2> HIDE DEF misses, M
    <2> QED
      BY <2>1
  <1>4. M \subseteq [user : Player, round : 1..Rounds, at : Times]
    BY <1>2 DEF TypeInv, TypeOK
  <1>5. \A m, n \in M : m.user = n.user /\ m.round = n.round => m = n
    BY NewMissesUnique
  <1>6. /\ Cardinality(Streak(M, u)) \in Nat /\ Cardinality(RoundsMissed(u, M)) \in Nat
        /\ Cardinality(Streak(M, u)) <= Cardinality(RoundsMissed(u, M))
    BY <1>4, <1>5, StreakCountsRounds
  <1> HIDE DEF misses, M, outcome, pausing
  <1>7. Cardinality(Streak(M, u)) >= PauseAfter
    BY <1>3 DEF Decide
  <1> QED
    BY <1>2, <1>6, <1>7, ActivityAssumption DEF ActivityAssumption

(* Only a run of missed rounds pauses a player, with no stored game's start    *)
(* and no resume since the first of them.                                      *)
THEOREM PausesEarned == Spec => PausesAreEarned
  <1>1. Init => TypeInv /\ MissesUnique
    BY TypeInit DEF Init, MissesUnique
  <1>2. TypeInv /\ MissesUnique /\ [Next]_vars => (TypeInv /\ MissesUnique)' /\ [PauseStep]_vars
    BY TypeStep, MissesUniqueStep, PauseStepHolds
  <1> QED
    BY <1>1, <1>2, PTL DEF Spec, PausesAreEarned
=============================================================================
