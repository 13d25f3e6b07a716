----------------------------- MODULE SyncProofs -----------------------------
(***************************************************************************)
(* Theorems about SyncGames: its type invariant, for any processes that    *)
(* run sync-games, and, for one process, that the game of a completed      *)
(* pairing stays stored as finished, for every set of players, pairings    *)
(* and games.                                                              *)
(***************************************************************************)
EXTENDS SyncGames, TLAPS

(* What is fetched by id has an id, and Recompute is called for a player. *)
RunShape ==
    \A s \in Syncer :
        /\ run[s].phase = "recheck" => run[s].todo \subseteq Pairing \X Game
        /\ run[s].pc \in {"fetch", "list"} => run[s].phase = "recheck"
        /\ run[s].pc \in {"read", "write"} => run[s].whose # <<>>

TypeInv == TypeOK /\ RunShape

(* A completed pairing's game is over, and that is the last Lichess says. *)
CompletedIsOver ==
    \A q \in Pairing : rows[q].status = "completed" =>
        rows[q].game \in Game /\ played[rows[q].game] = "over"

(* The pairings a run still has to come to: one row each, none completed. *)
TodoOpen(s) ==
    /\ \A x \in run[s].todo : rows[x[1]].status # "completed"
    /\ \A x, y \in run[s].todo : x[1] = y[1] => x = y

(* The pairing and the game at hand between two statements of syncOneGame: if *)
(* the game was not over when Lichess answered, no completed pairing has it.  *)
AtHand(s) ==
    run[s].pc \in {"upsert", "attach", "delete", "fail"} =>
        /\ \A x, y \in run[s].at : x = y
        /\ \A x \in run[s].at :
            /\ rows[x[1]].status # "completed"
            /\ \A y \in run[s].todo : y[1] # x[1]
            /\ IF run[s].seen = "over" THEN played[x[2]] = "over"
               ELSE \A q \in Pairing : rows[q].status = "completed" => rows[q].game # x[2]
            /\ run[s].pc = "attach" /\ run[s].seen = "over" => stored[x[2]].status = "finished"
        /\ run[s].pc = "delete" => run[s].seen # "over"

StoredInv ==
    /\ CompletedIsOver
    /\ CompletedIsStored
    /\ \A s \in Syncer : TodoOpen(s) /\ AtHand(s)

-----------------------------------------------------------------------------
(* Types. *)

(* A statement on a row leaves a row. *)
LEMMA RowStatements ==
    ASSUME NEW row \in RowOf(Game), NEW g \in Game
    PROVE  /\ RecordCreatedGame(row, g) \in RowOf(Game)
           /\ RecordChallenge(row, g) \in RowOf(Game)
           /\ \A status \in {"completed", "in_progress"} :
                 AttachGameToPairing(row, g, status) \in RowOf(Game)
  <1> USE DEF RowOf, Method, Status
  <1>1. RecordCreatedGame(row, g) \in RowOf(Game)
    BY DEF RecordCreatedGame
  <1>2. RecordChallenge(row, g) \in RowOf(Game)
    BY DEF RecordChallenge
  <1>3. ASSUME NEW status \in {"completed", "in_progress"}
        PROVE  AttachGameToPairing(row, g, status) \in RowOf(Game)
    BY <1>3 DEF AttachGameToPairing
  <1> QED
    BY <1>1, <1>2, <1>3

LEMMA RowStatuses ==
    ASSUME NEW row \in RowOf(Game)
    PROVE  /\ MarkPairingAmbiguous(row) \in RowOf(Game)
           /\ MarkPairingFailed(row) \in RowOf(Game)
           /\ MarkPublishedPairingFailed(row) \in RowOf(Game)
           /\ [row EXCEPT !.status = "failed"] \in RowOf(Game)
  <1> USE DEF RowOf, Method, Status
  <1>1. MarkPairingAmbiguous(row) \in RowOf(Game)
    BY DEF MarkPairingAmbiguous
  <1>2. MarkPairingFailed(row) \in RowOf(Game)
    BY DEF MarkPairingFailed
  <1>3. MarkPublishedPairingFailed(row) \in RowOf(Game)
    BY DEF MarkPublishedPairingFailed
  <1>4. [row EXCEPT !.status = "failed"] \in RowOf(Game)
    OBVIOUS
  <1> QED
    BY <1>1, <1>2, <1>3, <1>4

(* A run of the right shape. *)
Shaped(new) ==
    /\ new \in Run
    /\ new.phase = "recheck" => new.todo \subseteq Pairing \X Game
    /\ new.pc \in {"fetch", "list"} => new.phase = "recheck"
    /\ new.pc \in {"read", "write"} => new.whose # <<>>

LEMMA IdleShaped == Shaped(IdleRun)
  BY DEF Shaped, IdleRun, Run, Played

LEMMA TypeInit == Init => TypeInv
  <1> SUFFICES ASSUME Init PROVE TypeInv
    OBVIOUS
  <1>1. rows \in [Pairing -> RowOf(Game)] /\ stored \in [Game -> Stored]
    <2>1. FreshRow \in RowOf(Game) /\ NotStored \in Stored
      BY DEF FreshRow, RowOf, Method, Status, NotStored, Stored
    <2> QED
      BY <2>1 DEF Init
  <1>2. run \in [Syncer -> Run] /\ RunShape
    BY IdleShaped DEF Init, Shaped, RunShape
  <1>3. /\ standing \in [Player -> SUBSET Game] /\ played \in [Game -> Played]
        /\ rebuild \in [Rebuilder -> Rebuild] /\ failures \in 0..MaxFailures
    BY SyncAssumption DEF SyncAssumption, Init, Played, NoRebuild, Rebuild
  <1> QED
    BY <1>1, <1>2, <1>3 DEF TypeInv, TypeOK

(* A step of one run, whose other changes keep their types. *)
LEMMA RunStepType ==
    ASSUME TypeInv, NEW s \in Syncer, NEW new, Shaped(new), run' = [run EXCEPT ![s] = new],
           rows' \in [Pairing -> RowOf(Game)], stored' \in [Game -> Stored],
           standing' \in [Player -> SUBSET Game], played' = played, rebuild' = rebuild,
           failures' \in 0..MaxFailures
    PROVE  TypeInv'
  <1>1. run' \in [Syncer -> Run]
    BY DEF TypeInv, TypeOK, Shaped
  <1>2. RunShape'
    BY DEF TypeInv, TypeOK, RunShape, Shaped
  <1> QED
    BY <1>1, <1>2 DEF TypeInv, TypeOK

(* What the invariant says of a run. *)
LEMMA RunFacts ==
    ASSUME TypeInv, NEW s \in Syncer
    PROVE  /\ Shaped(run[s]) /\ run[s] \in Run
           /\ run[s].pc \in {"idle", "fetch", "list", "match", "upsert", "attach", "read", "write",
                             "delete", "fail"}
           /\ run[s].phase \in {"recheck", "match"}
           /\ run[s].todo \subseteq Pairing \X (Game \cup {NoGame})
           /\ run[s].taken \subseteq Game /\ run[s].at \subseteq Pairing \X Game
           /\ run[s].seen \in Played /\ run[s].whose \in Seq(Player) /\ run[s].games \subseteq Game
  <1>1. run[s] \in Run
    BY DEF TypeInv, TypeOK
  <1>2. Shaped(run[s])
    BY <1>1 DEF TypeInv, RunShape, Shaped
  <1> QED
    BY <1>1, <1>2 DEF Run

LEMMA StartSyncType ==
    ASSUME TypeInv, NEW s \in Syncer, StartSync(s) PROVE TypeInv'
  <1> DEFINE listed == {<<p, rows[p].game>> : p \in {q \in Pairing : ToRecheck(rows[q])}}
             new == [IdleRun EXCEPT !.pc = "fetch", !.todo = listed]
  <1>1. listed \subseteq Pairing \X Game
    BY DEF TypeInv, TypeOK, RowOf, ToRecheck
  <1>2. run' = [run EXCEPT ![s] = new]
    BY DEF StartSync
  <1> HIDE DEF listed
  <1>3. Shaped(new)
    BY <1>1, IdleShaped DEF Shaped, Run, IdleRun
  <1> HIDE DEF new
  <1> QED
    BY <1>2, <1>3, RunStepType DEF StartSync, TypeInv, TypeOK

(* A run turns to a game Lichess answered for. *)
LEMMA TakesGame ==
    ASSUME NEW r, r \in Run, Shaped(r), NEW todo, todo \subseteq r.todo,
           NEW at, at \subseteq Pairing \X Game, NEW seen, seen \in Played,
           NEW pc, pc \in {"delete", "upsert"}
    PROVE  Shaped([r EXCEPT !.todo = todo, !.at = at, !.seen = seen, !.pc = pc])
  <1> DEFINE new == [r EXCEPT !.todo = todo, !.at = at, !.seen = seen, !.pc = pc]
  <1>1. /\ new.pc = pc /\ new.phase = r.phase /\ new.todo = todo /\ new.at = at
        /\ new.seen = seen /\ new.taken = r.taken /\ new.whose = r.whose /\ new.games = r.games
    BY DEF Run
  <1>2. todo \subseteq Pairing \X (Game \cup {NoGame})
    BY DEF Run
  <1>3. new \in Run
    BY <1>2 DEF Run
  <1> HIDE DEF new
  <1>4. Shaped(new)
    BY <1>1, <1>3 DEF Shaped
  <1> QED
    BY <1>4 DEF new

LEMMA FetchByIdType ==
    ASSUME TypeInv, NEW s \in Syncer, FetchById(s) PROVE TypeInv'
  <1>1. PICK x \in run[s].todo :
            run' = [run EXCEPT ![s] = IF played[x[2]] = "none"
               THEN [@ EXCEPT !.todo = run[s].todo \ {x}]
               ELSE [@ EXCEPT !.todo = run[s].todo \ {x}, !.at = {x}, !.seen = played[x[2]],
                              !.pc = FirstStatement(played[x[2]])]]
    BY DEF FetchById
  <1>2. x \in Pairing \X Game /\ played[x[2]] \in Played
    BY RunFacts DEF FetchById, Shaped, TypeInv, TypeOK
  <1>3. CASE played[x[2]] = "none"
    <2> DEFINE new == [run[s] EXCEPT !.todo = run[s].todo \ {x}]
    <2>1. run' = [run EXCEPT ![s] = new]
      BY <1>1, <1>3
    <2>2. Shaped(new)
      BY RunFacts DEF Shaped, Run
    <2> HIDE DEF new
    <2> QED
      BY <2>1, <2>2, RunStepType DEF FetchById, TypeInv, TypeOK
  <1>4. CASE played[x[2]] # "none"
    <2> DEFINE new == [run[s] EXCEPT !.todo = run[s].todo \ {x}, !.at = {x}, !.seen = played[x[2]],
                                     !.pc = FirstStatement(played[x[2]])]
    <2>1. run' = [run EXCEPT ![s] = new]
      BY <1>1, <1>4
    <2>2. FirstStatement(played[x[2]]) \in {"delete", "upsert"}
      BY DEF FirstStatement
    <2>3. Shaped(new)
      <3>1. run[s].todo \ {x} \subseteq run[s].todo /\ {x} \subseteq Pairing \X Game
        BY <1>2
      <3> QED
        BY <1>2, <2>2, <3>1, RunFacts, TakesGame
    <2> HIDE DEF new
    <2> QED
      BY <2>1, <2>3, RunStepType DEF FetchById, TypeInv, TypeOK
  <1> QED
    BY <1>3, <1>4

LEMMA ListUnmatchedType ==
    ASSUME TypeInv, NEW s \in Syncer, ListUnmatched(s) PROVE TypeInv'
  <1> DEFINE listed == {<<p, NoGame>> : p \in {q \in Pairing : Unmatched(rows[q])}}
             new == [run[s] EXCEPT !.pc = "match", !.phase = "match", !.todo = listed,
                                   !.taken = AttachedGames]
  <1>1. listed \subseteq Pairing \X (Game \cup {NoGame})
    OBVIOUS
  <1>2. AttachedGames \subseteq Game
    BY DEF AttachedGames, TypeInv, TypeOK, RowOf
  <1>3. run' = [run EXCEPT ![s] = new]
    BY DEF ListUnmatched
  <1> HIDE DEF listed
  <1>4. Shaped(new)
    <2>1. run[s] \in Run
      BY RunFacts
    <2>2. new \in Run
      BY <1>1, <1>2, <2>1 DEF Run
    <2>3. new.pc = "match" /\ new.phase = "match"
      BY <2>1 DEF Run
    <2> HIDE DEF new
    <2> QED
      BY <2>2, <2>3 DEF Shaped
  <1> HIDE DEF new
  <1> QED
    BY <1>3, <1>4, RunStepType DEF ListUnmatched, TypeInv, TypeOK

LEMMA MatchNextType ==
    ASSUME TypeInv, NEW s \in Syncer, MatchNext(s) PROVE TypeInv'
  <1>1. PICK x \in run[s].todo :
            LET p == x[1]
                eligible == {g \in Game : p \in Fits[g] /\ played[g] # "none"} \ run[s].taken
            IN  \/ \E g \in eligible :
                      /\ MatchFound(eligible, g)
                      /\ run' = [run EXCEPT ![s] = [@ EXCEPT !.todo = run[s].todo \ {x}, !.at = {<<p, g>>},
                                    !.seen = played[g], !.pc = FirstStatement(played[g])]]
                      /\ UNCHANGED rows
                \/ /\ MatchAmbiguous(eligible)
                   /\ run' = [run EXCEPT ![s].todo = @ \ {x}]
                   /\ rows' = [rows EXCEPT ![p] = MarkPairingAmbiguous(@)]
                \/ /\ eligible = {}
                   /\ run' = [run EXCEPT ![s].todo = @ \ {x}]
                   /\ UNCHANGED rows
    BY DEF MatchNext
  <1>2. x[1] \in Pairing
    BY RunFacts
  <1>3. ASSUME NEW g \in Game, rows' = rows,
               run' = [run EXCEPT ![s] = [@ EXCEPT !.todo = run[s].todo \ {x}, !.at = {<<x[1], g>>},
                                            !.seen = played[g], !.pc = FirstStatement(played[g])]]
        PROVE  TypeInv'
    <2> DEFINE new == [run[s] EXCEPT !.todo = run[s].todo \ {x}, !.at = {<<x[1], g>>}, !.seen = played[g],
                                     !.pc = FirstStatement(played[g])]
    <2>1. run' = [run EXCEPT ![s] = new]
      BY <1>3
    <2>2. FirstStatement(played[g]) \in {"delete", "upsert"} /\ played[g] \in Played
      BY DEF FirstStatement, TypeInv, TypeOK
    <2>3. Shaped(new)
      <3> DEFINE at == {<<x[1], g>>}
      <3>1. at \subseteq Pairing \X Game
        BY <1>2
      <3> HIDE DEF at
      <3>2. Shaped([run[s] EXCEPT !.todo = run[s].todo \ {x}, !.at = at, !.seen = played[g],
                                  !.pc = FirstStatement(played[g])])
        BY <2>2, <3>1, RunFacts, TakesGame
      <3> QED
        BY <3>2 DEF at
    <2> HIDE DEF new
    <2> QED
      BY <1>3, <2>1, <2>3, RunStepType DEF MatchNext, TypeInv, TypeOK
  <1>4. ASSUME run' = [run EXCEPT ![s].todo = @ \ {x}],
               \/ rows' = [rows EXCEPT ![x[1]] = MarkPairingAmbiguous(@)]
               \/ rows' = rows
        PROVE  TypeInv'
    <2> DEFINE new == [run[s] EXCEPT !.todo = run[s].todo \ {x}]
    <2>1. run' = [run EXCEPT ![s] = new]
      BY <1>4
    <2>2. Shaped(new)
      BY RunFacts DEF Shaped, Run
    <2>3. rows' \in [Pairing -> RowOf(Game)]
      <3>1. rows \in [Pairing -> RowOf(Game)] /\ MarkPairingAmbiguous(rows[x[1]]) \in RowOf(Game)
        BY <1>2, RowStatuses DEF TypeInv, TypeOK
      <3> QED
        BY <1>2, <1>4, <3>1
    <2> HIDE DEF new
    <2> QED
      BY <2>1, <2>2, <2>3, RunStepType DEF MatchNext, TypeInv, TypeOK
  <1> QED
    BY <1>1, <1>3, <1>4

(* Steps that move a run on and change no table. *)
LEMMA RunOnlyType ==
    ASSUME TypeInv, NEW s \in Syncer,
           RecheckOver(s) \/ SyncOver(s) \/ ReadFinished(s) \/ Trouble(s)
    PROVE  TypeInv'
  <1>1. failures' \in 0..MaxFailures
    BY SyncAssumption DEF SyncAssumption, TypeInv, TypeOK, RecheckOver, SyncOver, ReadFinished,
       Trouble, StreamBreaks, SearchFails, SyncCutShort
  <1>2. PICK new : Shaped(new) /\ run' = [run EXCEPT ![s] = new]
    <2>1. CASE RecheckOver(s)
      <3> DEFINE new == [run[s] EXCEPT !.pc = "list"]
      <3>1. Shaped(new)
        BY <2>1, RunFacts DEF RecheckOver, Shaped, Run
      <3>2. run' = [run EXCEPT ![s] = new]
        BY <2>1 DEF RecheckOver
      <3> HIDE DEF new
      <3> QED
        BY <3>1, <3>2
    <2>2. CASE SyncOver(s) \/ SyncCutShort(s)
      BY <2>2, IdleShaped DEF SyncOver, SyncCutShort
    <2>3. CASE ReadFinished(s)
      <3> DEFINE finished == FinishedOf(Head(run[s].whose))
                 new == [run[s] EXCEPT !.pc = "write", !.games = finished]
      <3>1. finished \subseteq Game
        BY DEF FinishedOf
      <3>2. run' = [run EXCEPT ![s] = new]
        BY <2>3 DEF ReadFinished
      <3> HIDE DEF finished
      <3>3. Shaped(new)
        BY <2>3, <3>1, RunFacts DEF ReadFinished, Shaped, Run
      <3> HIDE DEF new
      <3> QED
        BY <3>2, <3>3
    <2>4. CASE StreamBreaks(s)
      <3> DEFINE new == [run[s] EXCEPT !.pc = "list", !.todo = {}]
      <3>1. Shaped(new)
        BY <2>4, RunFacts DEF StreamBreaks, Shaped, Run
      <3>2. run' = [run EXCEPT ![s] = new]
        BY <2>4 DEF StreamBreaks
      <3> HIDE DEF new
      <3> QED
        BY <3>1, <3>2
    <2>5. CASE SearchFails(s)
      <3>1. PICK theirs : run' = [run EXCEPT ![s].todo = @ \ theirs]
        BY <2>5 DEF SearchFails
      <3> DEFINE new == [run[s] EXCEPT !.todo = @ \ theirs]
      <3>2. Shaped(new)
        BY RunFacts DEF Shaped, Run
      <3>3. run' = [run EXCEPT ![s] = new]
        BY <3>1
      <3> HIDE DEF new
      <3> QED
        BY <3>2, <3>3
    <2> QED
      BY <2>1, <2>2, <2>3, <2>4, <2>5 DEF Trouble
  <1> QED
    BY <1>1, <1>2, RunStepType
    DEF TypeInv, TypeOK, RecheckOver, SyncOver, ReadFinished, Trouble, StreamBreaks, SearchFails, SyncCutShort

(* syncOneGame's statements on games and pairings. *)
LEMMA StatementType ==
    ASSUME TypeInv, NEW s \in Syncer,
           UpsertGame(s) \/ Attach(s) \/ WriteStanding(s) \/ DeleteGame(s) \/ FailPairing(s)
    PROVE  TypeInv'
  <1> USE RunFacts
  <1>1. rows \in [Pairing -> RowOf(Game)] /\ stored \in [Game -> Stored] /\ standing \in [Player -> SUBSET Game]
        /\ failures \in 0..MaxFailures
    BY DEF TypeInv, TypeOK
  <1>2. After(run[s].phase) \in {"fetch", "match"} /\ (After(run[s].phase) = "fetch" => run[s].phase = "recheck")
    BY DEF After
  <1>3. CASE UpsertGame(s)
    <2>1. PICK x \in run[s].at :
          IF UpsertRefused(x[1], x[2])
          THEN run' = [run EXCEPT ![s] = IdleRun] /\ UNCHANGED stored
          ELSE /\ stored' = [stored EXCEPT ![x[2]] = Upserted(x[1], x[2], run[s].seen)]
               /\ run' = [run EXCEPT ![s].pc = "attach"]
      BY <1>3 DEF UpsertGame
    <2>2. x[1] \in Pairing /\ x[2] \in Game
      OBVIOUS
    <2>3. Upserted(x[1], x[2], run[s].seen) \in Stored
      BY <1>1, <2>2 DEF Upserted, Stored
    <2>4. stored' \in [Game -> Stored]
      BY <1>1, <2>1, <2>3
    <2>5. Shaped([run[s] EXCEPT !.pc = "attach"])
      BY DEF Shaped, Run
    <2>6. run' = [run EXCEPT ![s] = IdleRun] \/ run' = [run EXCEPT ![s] = [run[s] EXCEPT !.pc = "attach"]]
      BY <2>1
    <2> QED
      BY <1>1, <1>3, <2>4, <2>5, <2>6, IdleShaped, RunStepType DEF UpsertGame
  <1>4. CASE Attach(s)
    <2>1. PICK x \in run[s].at :
          IF \E q \in Pairing \ {x[1]} : rows[q].game = x[2]
          THEN run' = [run EXCEPT ![s] = IdleRun] /\ UNCHANGED rows
          ELSE /\ rows' = [rows EXCEPT ![x[1]] = AttachGameToPairing(@, x[2],
                              IF run[s].seen = "over" THEN "completed" ELSE "in_progress")]
               /\ run' = [run EXCEPT ![s] = IF run[s].seen = "over"
                     THEN [@ EXCEPT !.pc = "read", !.whose = <<White[x[1]], Black[x[1]]>>]
                     ELSE [@ EXCEPT !.pc = After(run[s].phase)]]
      BY <1>4 DEF Attach
    <2>2. x[1] \in Pairing /\ x[2] \in Game
      OBVIOUS
    <2>3. rows' \in [Pairing -> RowOf(Game)]
      <3> DEFINE row == AttachGameToPairing(rows[x[1]], x[2],
                           IF run[s].seen = "over" THEN "completed" ELSE "in_progress")
      <3>1. row \in RowOf(Game)
        BY <1>1, <2>2, RowStatements
      <3>2. rows' = rows \/ rows' = [rows EXCEPT ![x[1]] = row]
        BY <2>1
      <3> HIDE DEF row
      <3> QED
        BY <1>1, <2>2, <3>1, <3>2
    <2> DEFINE counted == [run[s] EXCEPT !.pc = "read", !.whose = <<White[x[1]], Black[x[1]]>>]
               went == [run[s] EXCEPT !.pc = After(run[s].phase)]
    <2>4. run' = [run EXCEPT ![s] = IdleRun] \/ run' = [run EXCEPT ![s] = counted]
             \/ run' = [run EXCEPT ![s] = went]
      BY <2>1
    <2>5. Shaped(counted)
      <3>1. <<White[x[1]], Black[x[1]]>> \in Seq(Player) /\ <<White[x[1]], Black[x[1]]>> # <<>>
        BY <2>2, SyncAssumption DEF SyncAssumption
      <3> QED
        BY <3>1 DEF Shaped, Run
    <2>6. Shaped(went)
      BY <1>2 DEF Shaped, Run
    <2> HIDE DEF counted, went
    <2> QED
      BY <1>1, <1>4, <2>3, <2>4, <2>5, <2>6, IdleShaped, RunStepType DEF Attach
  <1>5. CASE WriteStanding(s)
    <2> DEFINE rest == Tail(run[s].whose)
               new == [run[s] EXCEPT !.games = {}, !.whose = rest,
                          !.pc = IF rest = <<>> THEN After(run[s].phase) ELSE "read"]
    <2>1. standing' = [standing EXCEPT ![Head(run[s].whose)] = run[s].games]
          /\ run' = [run EXCEPT ![s] = new]
      BY <1>5 DEF WriteStanding
    <2>2. rest \in Seq(Player)
      BY <1>5 DEF WriteStanding, Shaped
    <2> HIDE DEF rest
    <2>3. Shaped(new)
      <3> DEFINE pc == IF rest = <<>> THEN After(run[s].phase) ELSE "read"
      <3>1. /\ pc \in {"fetch", "match", "read"} /\ (pc = "fetch" => run[s].phase = "recheck")
            /\ pc = "read" => rest # <<>>
        BY <1>2
      <3> HIDE DEF pc
      <3>2. new = [run[s] EXCEPT !.games = {}, !.whose = rest, !.pc = pc]
        BY DEF pc
      <3>3. run[s] \in Run /\ Shaped(run[s])
        BY RunFacts
      <3>4. new \in Run
        BY <2>2, <3>1, <3>2, <3>3 DEF Run
      <3>5. /\ new.phase = run[s].phase /\ new.todo = run[s].todo /\ new.whose = rest
            /\ new.pc = pc
        BY <3>2, <3>3 DEF Run
      <3> HIDE DEF new
      <3> QED
        BY <3>1, <3>3, <3>4, <3>5 DEF Shaped
    <2> HIDE DEF new
    <2>4. standing' \in [Player -> SUBSET Game]
      BY <1>1, <2>1
    <2> QED
      BY <1>1, <1>5, <2>1, <2>3, <2>4, RunStepType DEF WriteStanding
  <1>6. CASE DeleteGame(s)
    <2>1. stored' \in [Game -> Stored]
      BY <1>1, <1>6 DEF DeleteGame, NotStored, Stored
    <2>2. Shaped([run[s] EXCEPT !.pc = "fail"])
      BY DEF Shaped, Run
    <2>3. run' = [run EXCEPT ![s] = [run[s] EXCEPT !.pc = "fail"]]
      BY <1>6 DEF DeleteGame
    <2> QED
      BY <1>1, <1>6, <2>1, <2>2, <2>3, RunStepType DEF DeleteGame
  <1>7. CASE FailPairing(s)
    <2>1. rows' \in [Pairing -> RowOf(Game)]
      BY <1>1, <1>7, RowStatuses DEF FailPairing
    <2>2. Shaped([run[s] EXCEPT !.pc = After(run[s].phase)])
      BY <1>2 DEF Shaped, Run
    <2>3. run' = [run EXCEPT ![s] = [run[s] EXCEPT !.pc = After(run[s].phase)]]
      BY <1>7 DEF FailPairing
    <2> QED
      BY <1>1, <1>7, <2>1, <2>2, <2>3, RunStepType DEF FailPairing
  <1> QED
    BY <1>3, <1>4, <1>5, <1>6, <1>7

(* The other processes. *)
LEMMA OtherStepType ==
    ASSUME TypeInv, OtherStep PROVE TypeInv'
  <1>1. /\ rows \in [Pairing -> RowOf(Game)] /\ standing \in [Player -> SUBSET Game]
        /\ played \in [Game -> Played] /\ rebuild \in [Rebuilder -> Rebuild]
    BY DEF TypeInv, TypeOK
  <1>2. ASSUME NEW r \in Rebuilder, RebuildStep(r) PROVE TypeInv'
    <2>1. CASE StartRebuild(r)
      <3>1. [rebuild[r] EXCEPT !.todo = Player] \in Rebuild
        BY <1>1 DEF Rebuild
      <3> QED
        BY <1>1, <2>1, <3>1 DEF StartRebuild, TypeInv, TypeOK, RunShape
    <2>2. CASE RebuildRead(r)
      <3>1. PICK u \in rebuild[r].todo :
                rebuild' = [rebuild EXCEPT ![r] = [todo |-> rebuild[r].todo \ {u}, at |-> {u}, games |-> FinishedOf(u)]]
        BY <2>2 DEF RebuildRead
      <3>2. FinishedOf(u) \subseteq Game
        BY DEF FinishedOf
      <3>3. [todo |-> rebuild[r].todo \ {u}, at |-> {u}, games |-> FinishedOf(u)] \in Rebuild
        BY <1>1, <3>2 DEF Rebuild
      <3> QED
        BY <1>1, <2>2, <3>1, <3>3 DEF RebuildRead, TypeInv, TypeOK, RunShape
    <2>3. CASE RebuildWrite(r)
      <3>1. /\ [NoRebuild EXCEPT !.todo = rebuild[r].todo] \in Rebuild
            /\ rebuild[r].games \subseteq Game
        BY <1>1 DEF Rebuild, NoRebuild
      <3>2. standing' \in [Player -> SUBSET Game] /\ rebuild' \in [Rebuilder -> Rebuild]
        BY <1>1, <2>3, <3>1 DEF RebuildWrite
      <3> QED
        BY <2>3, <3>2 DEF RebuildWrite, TypeInv, TypeOK, RunShape
    <2> QED
      BY <1>2, <2>1, <2>2, <2>3 DEF RebuildStep
  <1>3. ASSUME NEW p \in Pairing, MarkFailed(p) \/ RetireUnstarted(p) PROVE TypeInv'
    <2>1. rows' \in [Pairing -> RowOf(Game)]
      <3>1. /\ MarkPublishedPairingFailed(rows[p]) \in RowOf(Game)
            /\ [rows[p] EXCEPT !.status = "failed"] \in RowOf(Game)
        BY <1>1, RowStatuses
      <3>2. \/ rows' = [rows EXCEPT ![p] = MarkPublishedPairingFailed(rows[p])]
            \/ rows' = [rows EXCEPT ![p] = [rows[p] EXCEPT !.status = "failed"]]
        BY <1>3 DEF MarkFailed, RetireUnstarted
      <3> QED
        BY <1>1, <3>1, <3>2
    <2> QED
      BY <1>3, <2>1 DEF MarkFailed, RetireUnstarted, TypeInv, TypeOK, RunShape
  <1>4. ASSUME NEW p \in Pairing, NEW g \in Game, CreationRecords(p, g) PROVE TypeInv'
    <2>1. rows' \in [Pairing -> RowOf(Game)]
      <3>1. RecordCreatedGame(rows[p], g) \in RowOf(Game) /\ RecordChallenge(rows[p], g) \in RowOf(Game)
        BY <1>1, RowStatements
      <3>2. \/ rows' = [rows EXCEPT ![p] = RecordCreatedGame(rows[p], g)]
            \/ rows' = [rows EXCEPT ![p] = RecordChallenge(rows[p], g)]
        BY <1>4 DEF CreationRecords
      <3> QED
        BY <1>1, <3>1, <3>2
    <2> QED
      BY <1>4, <2>1 DEF CreationRecords, TypeInv, TypeOK, RunShape
  <1>5. ASSUME NEW g \in Game, Play(g) PROVE TypeInv'
    <2>1. played' \in [Game -> Played]
      BY <1>1, <1>5 DEF Play, Played
    <2> QED
      BY <1>5, <2>1 DEF Play, TypeInv, TypeOK, RunShape
  <1> QED
    BY <1>2, <1>3, <1>4, <1>5, SyncAssumption DEF OtherStep, SyncAssumption

LEMMA TypeStep == TypeInv /\ [Next]_vars => TypeInv'
  <1> SUFFICES ASSUME TypeInv, [Next]_vars PROVE TypeInv'
    OBVIOUS
  <1>1. ASSUME NEW s \in Syncer, SyncStep(s) \/ Trouble(s) PROVE TypeInv'
    BY <1>1, StartSyncType, FetchByIdType, ListUnmatchedType, MatchNextType, RunOnlyType, StatementType
    DEF SyncStep
  <1>2. CASE OtherStep
    BY <1>2, OtherStepType
  <1>3. CASE UNCHANGED vars
    BY <1>3 DEF vars, TypeInv, TypeOK, RunShape
  <1> QED
    BY <1>1, <1>2, <1>3 DEF Next

(* Every table keeps its columns' ranges, whatever the processes that sync, a  *)
(* run fetches by id only what has one, and a standing is recomputed only for  *)
(* a player.                                                                   *)
THEOREM TypeCorrect == Spec => []TypeOK
  <1>1. TypeInv => TypeOK
    BY DEF TypeInv
  <1> QED
    BY <1>1, TypeInit, TypeStep, PTL DEF Spec

-----------------------------------------------------------------------------
(* Results, with one process that runs sync-games.                            *)
(*                                                                            *)
(* A run writes "completed" only after it stored the game as finished, and    *)
(* afterwards writes the game again only as finished: a game it has at hand   *)
(* that is not over belongs to no completed pairing, for theirs are over, and *)
(* no other run completes one meanwhile.                                      *)

(* Rows that complete nothing, and leave what is completed alone. *)
RowsCompleteNothing ==
    \A q \in Pairing : /\ rows'[q].status = "completed" <=> rows[q].status = "completed"
                       /\ rows[q].status = "completed" => rows'[q] = rows[q]

LEMMA StoredInit == Init => StoredInv
  BY DEF Init, StoredInv, CompletedIsOver, CompletedIsStored, TodoOpen, AtHand, FreshRow, IdleRun

LEMMA OtherQuiet ==
    ASSUME TypeInv, OtherStep
    PROVE  /\ RowsCompleteNothing
           /\ stored' = stored /\ run' = run
           /\ \A g \in Game : played[g] = "over" => played'[g] = "over"
  <1>1. rows \in [Pairing -> RowOf(Game)] /\ played \in [Game -> Played]
    BY DEF TypeInv, TypeOK
  <1>2. stored' = stored /\ run' = run
    BY DEF OtherStep, RebuildStep, StartRebuild, RebuildRead, RebuildWrite, MarkFailed,
           RetireUnstarted, CreationRecords, Play
  <1>3. \A g \in Game : played[g] = "over" => played'[g] = "over"
    BY <1>1 DEF OtherStep, RebuildStep, StartRebuild, RebuildRead, RebuildWrite, MarkFailed,
           RetireUnstarted, CreationRecords, Play
  <1>4. RowsCompleteNothing
    <2>1. CASE rows' = rows
      BY <2>1 DEF RowsCompleteNothing
    <2>2. ASSUME NEW p \in Pairing, MarkFailed(p) \/ RetireUnstarted(p) PROVE RowsCompleteNothing
      <3>1. rows[p].status = "pending" /\ \E row : rows' = [rows EXCEPT ![p] = row] /\ row.status = "failed"
        <4>1. MarkPublishedPairingFailed(rows[p]).status = "failed" \/ rows[p].status # "pending"
          BY <1>1 DEF MarkPublishedPairingFailed, RowOf
        <4>2. [rows[p] EXCEPT !.status = "failed"].status = "failed"
          BY <1>1 DEF RowOf
        <4>3. CASE MarkFailed(p)
          BY <4>1, <4>3 DEF MarkFailed
        <4>4. CASE RetireUnstarted(p)
          <5>1. rows' = [rows EXCEPT ![p] = [rows[p] EXCEPT !.status = "failed"]] /\ rows[p].status = "pending"
            BY <4>4 DEF RetireUnstarted
          <5> QED
            BY <4>2, <5>1
        <4> QED
          BY <2>2, <4>3, <4>4
      <3> QED
        BY <1>1, <3>1 DEF RowsCompleteNothing
    <2>3. ASSUME NEW p \in Pairing, NEW g \in Game, CreationRecords(p, g) PROVE RowsCompleteNothing
      <3>1. RecordChallenge(rows[p], g).status # "completed" /\ RecordCreatedGame(rows[p], g).status # "completed"
        BY <1>1, <2>3 DEF CreationRecords, Recordable, RecordChallenge, RecordCreatedGame, RowOf
      <3>2. rows[p].status = "pending"
        BY <2>3 DEF CreationRecords, Recordable
      <3>3. \E row : rows' = [rows EXCEPT ![p] = row] /\ row.status # "completed"
        BY <2>3, <3>1 DEF CreationRecords
      <3> QED
        BY <1>1, <3>2, <3>3 DEF RowsCompleteNothing
    <2>4. CASE \E g \in Game : Play(g)
      BY <2>1, <2>4 DEF Play
    <2>5. CASE \E r \in Rebuilder : RebuildStep(r)
      BY <2>1, <2>5 DEF RebuildStep, StartRebuild, RebuildRead, RebuildWrite
    <2> QED
      BY <2>2, <2>3, <2>4, <2>5, SyncAssumption DEF OtherStep, SyncAssumption
  <1> QED
    BY <1>2, <1>3, <1>4

LEMMA OtherKeeps ==
    ASSUME TypeInv, StoredInv, RowsCompleteNothing, stored' = stored, run' = run,
           \A g \in Game : played[g] = "over" => played'[g] = "over"
    PROVE  StoredInv'
  <1>1. CompletedIsOver' /\ CompletedIsStored'
    BY DEF StoredInv, CompletedIsOver, CompletedIsStored, RowsCompleteNothing
  <1>2. ASSUME NEW s \in Syncer PROVE TodoOpen(s)' /\ AtHand(s)'
    <2>1. \A x \in run[s].todo \cup run[s].at : x[1] \in Pairing
      BY RunFacts
    <2>2. \A x \in run[s].at : x[2] \in Game
      BY RunFacts
    <2>3. TodoOpen(s)'
      BY <2>1 DEF StoredInv, TodoOpen, RowsCompleteNothing
    <2>4. AtHand(s)'
      BY <2>1, <2>2 DEF StoredInv, AtHand, RowsCompleteNothing
    <2> QED
      BY <2>3, <2>4
  <1> QED
    BY <1>1, <1>2 DEF StoredInv

(* A run takes one pairing from its list, and has nothing at hand or the game *)
(* Lichess answered for.                                                      *)
LEMMA TakesOne ==
    ASSUME TypeInv, NEW s \in Syncer, FetchById(s) \/ MatchNext(s)
    PROVE  \E x \in run[s].todo :
              /\ run'[s].todo = run[s].todo \ {x}
              /\ \/ run'[s].pc = run[s].pc
                 \/ \E g \in Game : /\ run'[s].at = {<<x[1], g>>} /\ run'[s].seen = played[g]
                                   /\ run'[s].pc = FirstStatement(played[g])
  <1>1. run \in [Syncer -> Run] /\ run[s] \in Run
    BY DEF TypeInv, TypeOK
  <1>2. CASE FetchById(s)
    <2>1. PICK x \in run[s].todo :
              run' = [run EXCEPT ![s] = IF played[x[2]] = "none"
                 THEN [@ EXCEPT !.todo = run[s].todo \ {x}]
                 ELSE [@ EXCEPT !.todo = run[s].todo \ {x}, !.at = {x}, !.seen = played[x[2]],
                                !.pc = FirstStatement(played[x[2]])]]
      BY <1>2 DEF FetchById
    <2>2. x \in Pairing \X Game
      BY <1>2, RunFacts DEF FetchById, Shaped
    <2>3. x = <<x[1], x[2]>> /\ x[2] \in Game
      BY <2>2
    <2>4. run'[s].todo = run[s].todo \ {x}
      BY <1>1, <2>1 DEF Run
    <2>5. \/ run'[s].pc = run[s].pc
          \/ /\ run'[s].at = {x} /\ run'[s].seen = played[x[2]]
             /\ run'[s].pc = FirstStatement(played[x[2]])
      BY <1>1, <2>1 DEF Run
    <2> QED
      BY <2>3, <2>4, <2>5
  <1>3. CASE MatchNext(s)
    <2>1. PICK x \in run[s].todo :
              \/ run' = [run EXCEPT ![s].todo = @ \ {x}]
              \/ \E g \in Game :
                    run' = [run EXCEPT ![s] = [@ EXCEPT !.todo = run[s].todo \ {x}, !.at = {<<x[1], g>>},
                                  !.seen = played[g], !.pc = FirstStatement(played[g])]]
      BY <1>3 DEF MatchNext
    <2>2. CASE run' = [run EXCEPT ![s].todo = @ \ {x}]
      BY <1>1, <2>2 DEF Run
    <2>3. ASSUME NEW g \in Game,
                 run' = [run EXCEPT ![s] = [@ EXCEPT !.todo = run[s].todo \ {x}, !.at = {<<x[1], g>>},
                                  !.seen = played[g], !.pc = FirstStatement(played[g])]]
          PROVE  /\ run'[s].todo = run[s].todo \ {x} /\ run'[s].at = {<<x[1], g>>}
                 /\ run'[s].seen = played[g] /\ run'[s].pc = FirstStatement(played[g])
      BY <1>1, <2>3 DEF Run
    <2> QED
      BY <2>1, <2>2, <2>3
  <1> QED
    BY <1>2, <1>3

(* Where the other steps of a run leave it. *)
LEMMA RunMoves ==
    ASSUME TypeInv, NEW s \in Syncer,
           RecheckOver(s) \/ SyncOver(s) \/ ReadFinished(s) \/ WriteStanding(s) \/ Trouble(s)
    PROVE  /\ run'[s].todo \subseteq run[s].todo
           /\ run'[s].pc \in {"idle", "fetch", "list", "match", "read", "write"}
  <1>1. run \in [Syncer -> Run] /\ run[s] \in Run
    BY DEF TypeInv, TypeOK
  <1>2. CASE RecheckOver(s)
    BY <1>1, <1>2 DEF RecheckOver, Run
  <1>3. CASE SyncOver(s) \/ SyncCutShort(s)
    BY <1>1, <1>3 DEF SyncOver, SyncCutShort, IdleRun
  <1>4. CASE ReadFinished(s)
    BY <1>1, <1>4 DEF ReadFinished, Run
  <1>5. CASE WriteStanding(s)
    <2> DEFINE rest == Tail(run[s].whose)
               pc == IF rest = <<>> THEN After(run[s].phase) ELSE "read"
    <2>1. run' = [run EXCEPT ![s] = [@ EXCEPT !.games = {}, !.whose = rest, !.pc = pc]]
      BY <1>5 DEF WriteStanding
    <2>2. pc \in {"read", "fetch", "match"}
      BY DEF After
    <2> HIDE DEF rest, pc
    <2> QED
      BY <1>1, <2>1, <2>2 DEF Run
  <1>6. CASE StreamBreaks(s)
    BY <1>1, <1>6 DEF StreamBreaks, Run
  <1>7. CASE SearchFails(s)
    BY <1>1, <1>7 DEF SearchFails, Run
  <1> QED
    BY <1>2, <1>3, <1>4, <1>5, <1>6, <1>7 DEF Trouble

(* A run that begins, reads a list or a game, or stops. *)
LEMMA ReadingKeeps ==
    ASSUME TypeInv, StoredInv, NEW s \in Syncer, Syncer = {s},
           \/ StartSync(s) \/ FetchById(s) \/ RecheckOver(s) \/ ListUnmatched(s) \/ MatchNext(s)
           \/ SyncOver(s) \/ ReadFinished(s) \/ WriteStanding(s) \/ Trouble(s)
    PROVE  StoredInv'
  <1>1. /\ rows \in [Pairing -> RowOf(Game)] /\ run \in [Syncer -> Run]
        /\ stored' = stored /\ played' = played
    BY DEF TypeInv, TypeOK, StartSync, FetchById, RecheckOver, ListUnmatched, MatchNext, SyncOver,
           ReadFinished, WriteStanding, Trouble, StreamBreaks, SearchFails, SyncCutShort
  <1>2. /\ RowsCompleteNothing
        /\ \A q \in Pairing : rows'[q].status = rows[q].status /\ rows'[q].game = rows[q].game
    <2>1. \/ rows' = rows
          \/ \E p \in Pairing : rows' = [rows EXCEPT ![p] = MarkPairingAmbiguous(rows[p])] /\ rows[p].status # "completed"
      <3>1. CASE MatchNext(s)
        <4>1. \A x \in run[s].todo : x[1] \in Pairing /\ rows[x[1]].status # "completed"
          BY RunFacts DEF StoredInv, TodoOpen
        <4> QED
          BY <3>1, <4>1 DEF MatchNext
      <3> QED
        BY <3>1 DEF StartSync, FetchById, RecheckOver, ListUnmatched, SyncOver,
           ReadFinished, WriteStanding, Trouble, StreamBreaks, SearchFails, SyncCutShort
    <2>2. \A p \in Pairing : /\ MarkPairingAmbiguous(rows[p]).status = rows[p].status
                             /\ MarkPairingAmbiguous(rows[p]).game = rows[p].game
      BY <1>1 DEF MarkPairingAmbiguous, RowOf
    <2> QED
      BY <1>1, <2>1, <2>2 DEF RowsCompleteNothing
  <1>3. CompletedIsOver' /\ CompletedIsStored'
    BY <1>1, <1>2 DEF StoredInv, CompletedIsOver, CompletedIsStored
  <1>4. TodoOpen(s)'
    <2>1. CASE run'[s].todo \subseteq run[s].todo
      <3>1. \A x \in run[s].todo : x[1] \in Pairing
        BY RunFacts
      <3> QED
        BY <1>2, <2>1, <3>1 DEF StoredInv, TodoOpen
    <2>2. CASE StartSync(s)
      <3> DEFINE listed == {<<p, rows[p].game>> : p \in {q \in Pairing : ToRecheck(rows[q])}}
      <3>1. run'[s].todo = listed
        <4> HIDE DEF listed
        <4>1. run' = [run EXCEPT ![s] = [IdleRun EXCEPT !.pc = "fetch", !.todo = listed]]
          BY <2>2 DEF StartSync, listed
        <4> QED
          BY <1>1, <4>1 DEF IdleRun
      <3> QED
        BY <1>2, <3>1 DEF TodoOpen, ToRecheck
    <2>3. CASE ListUnmatched(s)
      <3> DEFINE listed == {<<p, NoGame>> : p \in {q \in Pairing : Unmatched(rows[q])}}
      <3>1. run'[s].todo = listed
        <4> HIDE DEF listed
        <4>1. run' = [run EXCEPT ![s] = [@ EXCEPT !.pc = "match", !.phase = "match", !.todo = listed, !.taken = AttachedGames]]
          BY <2>3 DEF ListUnmatched, listed
        <4> QED
          BY <1>1, <4>1 DEF Run
      <3> QED
        BY <1>2, <3>1 DEF TodoOpen, Unmatched
    <2>4. CASE FetchById(s) \/ MatchNext(s)
      BY <2>1, <2>4, TakesOne
    <2> QED
      BY <2>1, <2>2, <2>3, <2>4, RunMoves
  <1>5. AtHand(s)'
    <2>1. CASE run'[s].pc \notin {"upsert", "attach", "delete", "fail"}
      BY <2>1 DEF AtHand
    <2>2. CASE FetchById(s) \/ MatchNext(s)
      <3>1. PICK x \in run[s].todo :
              /\ run'[s].todo = run[s].todo \ {x}
              /\ \/ run'[s].pc = run[s].pc
                 \/ \E g \in Game : /\ run'[s].at = {<<x[1], g>>} /\ run'[s].seen = played[g]
                                   /\ run'[s].pc = FirstStatement(played[g])
        BY <2>2, TakesOne
      <3>2. CASE run'[s].pc = run[s].pc
        BY <2>1, <2>2, <3>2 DEF FetchById, MatchNext
      <3>3. ASSUME NEW g \in Game, run'[s].at = {<<x[1], g>>}, run'[s].seen = played[g],
                   run'[s].pc = FirstStatement(played[g])
            PROVE  AtHand(s)'
        <4>1. x[1] \in Pairing /\ rows[x[1]].status # "completed"
          BY RunFacts DEF StoredInv, TodoOpen
        <4>2. \A y \in run'[s].todo : y[1] # x[1]
          BY <3>1 DEF StoredInv, TodoOpen
        <4>3. played[g] # "over" =>
                 \A q \in Pairing : rows'[q].status = "completed" => rows'[q].game # g
          BY <1>2 DEF StoredInv, CompletedIsOver
        <4>4. \A y \in run'[s].at : y[1] = x[1] /\ y[2] = g
          BY <3>3
        <4>5. \A y, z \in run'[s].at : y = z
          BY <3>3
        <4>6. run'[s].pc # "attach" /\ (run'[s].pc = "delete" => run'[s].seen # "over")
          BY <3>3 DEF FirstStatement
        <4> QED
          BY <1>1, <1>2, <3>3, <4>1, <4>2, <4>3, <4>4, <4>5, <4>6 DEF AtHand
      <3> QED
        BY <3>1, <3>2, <3>3
    <2>3. CASE StartSync(s) \/ RecheckOver(s) \/ ListUnmatched(s)
      <3>1. run'[s].pc \in {"fetch", "list", "match"}
        <4>1. CASE StartSync(s)
          BY <1>1, <4>1 DEF StartSync, IdleRun
        <4>2. CASE RecheckOver(s)
          BY <1>1, <4>2 DEF RecheckOver, Run
        <4>3. CASE ListUnmatched(s)
          BY <1>1, <4>3 DEF ListUnmatched, Run
        <4> QED
          BY <2>3, <4>1, <4>2, <4>3
      <3> QED
        BY <2>1, <3>1
    <2> QED
      BY <2>1, <2>2, <2>3, RunMoves
  <1> QED
    BY <1>3, <1>4, <1>5 DEF StoredInv

(* UpsertGame writes "finished" or a game no completed pairing has. *)
LEMMA UpsertKeeps ==
    ASSUME TypeInv, StoredInv, NEW s \in Syncer, Syncer = {s}, UpsertGame(s) PROVE StoredInv'
  <1>1. /\ run \in [Syncer -> Run] /\ run[s] \in Run /\ stored \in [Game -> Stored]
        /\ rows' = rows /\ played' = played
    BY DEF TypeInv, TypeOK, UpsertGame
  <1>2. PICK x \in run[s].at :
          IF UpsertRefused(x[1], x[2])
          THEN run' = [run EXCEPT ![s] = IdleRun] /\ UNCHANGED stored
          ELSE /\ stored' = [stored EXCEPT ![x[2]] = Upserted(x[1], x[2], run[s].seen)]
               /\ run' = [run EXCEPT ![s].pc = "attach"]
    BY DEF UpsertGame
  <1>3. x[2] \in Game /\ run[s].pc = "upsert" /\ AtHand(s) /\ TodoOpen(s)
    BY RunFacts DEF UpsertGame, StoredInv
  <1>4. CompletedIsOver'
    BY <1>1 DEF StoredInv, CompletedIsOver
  <1>5. CASE UpsertRefused(x[1], x[2])
    <2>1. run'[s] = IdleRun /\ stored' = stored
      BY <1>1, <1>2, <1>5
    <2>2. TodoOpen(s)' /\ AtHand(s)'
      BY <2>1 DEF TodoOpen, AtHand, IdleRun
    <2> QED
      BY <1>1, <1>4, <2>1, <2>2 DEF StoredInv, CompletedIsStored
  <1>6. CASE ~UpsertRefused(x[1], x[2])
    <2>1. /\ run'[s].pc = "attach" /\ run'[s].todo = run[s].todo /\ run'[s].at = run[s].at
          /\ run'[s].seen = run[s].seen
      BY <1>1, <1>2, <1>6 DEF Run
    <2>2. stored'[x[2]].status = IF run[s].seen = "over" THEN "finished" ELSE "in_progress"
      BY <1>1, <1>2, <1>3, <1>6 DEF Upserted
    <2>3. \A g \in Game : g # x[2] => stored'[g] = stored[g]
      BY <1>1, <1>2, <1>6
    <2>4. CompletedIsStored'
      <3> SUFFICES ASSUME NEW q \in Pairing, rows[q].status = "completed"
                   PROVE  stored'[rows[q].game].status = "finished"
        BY <1>1 DEF CompletedIsStored
      <3>1. rows[q].game \in Game /\ stored[rows[q].game].status = "finished"
        BY DEF StoredInv, CompletedIsOver, CompletedIsStored
      <3>2. rows[q].game = x[2] => run[s].seen = "over"
        BY <1>3 DEF AtHand
      <3> QED
        BY <2>2, <2>3, <3>1, <3>2
    <2>5. TodoOpen(s)'
      BY <1>1, <1>3, <2>1 DEF TodoOpen
    <2>6. AtHand(s)'
      BY <1>1, <1>3, <2>1, <2>2 DEF AtHand
    <2> QED
      BY <1>4, <2>4, <2>5, <2>6 DEF StoredInv
  <1> QED
    BY <1>5, <1>6

(* AttachGameToPairing completes a pairing whose game was just stored as finished. *)
LEMMA AttachKeeps ==
    ASSUME TypeInv, StoredInv, NEW s \in Syncer, Syncer = {s}, Attach(s) PROVE StoredInv'
  <1>1. /\ run \in [Syncer -> Run] /\ run[s] \in Run /\ rows \in [Pairing -> RowOf(Game)]
        /\ stored' = stored /\ played' = played
    BY DEF TypeInv, TypeOK, Attach
  <1>2. PICK x \in run[s].at :
          IF \E q \in Pairing \ {x[1]} : rows[q].game = x[2]
          THEN run' = [run EXCEPT ![s] = IdleRun] /\ UNCHANGED rows
          ELSE /\ rows' = [rows EXCEPT ![x[1]] = AttachGameToPairing(@, x[2],
                              IF run[s].seen = "over" THEN "completed" ELSE "in_progress")]
               /\ run' = [run EXCEPT ![s] = IF run[s].seen = "over"
                     THEN [@ EXCEPT !.pc = "read", !.whose = <<White[x[1]], Black[x[1]]>>]
                     ELSE [@ EXCEPT !.pc = After(run[s].phase)]]
    BY DEF Attach
  <1>3. /\ x[1] \in Pairing /\ x[2] \in Game /\ run[s].pc = "attach" /\ AtHand(s) /\ TodoOpen(s)
        /\ \A y \in run[s].todo : y[1] \in Pairing /\ y[1] # x[1]
    BY RunFacts DEF Attach, StoredInv, AtHand
  <1>4. CASE \E q \in Pairing \ {x[1]} : rows[q].game = x[2]
    <2>1. run'[s] = IdleRun /\ rows' = rows
      BY <1>1, <1>2, <1>4
    <2>2. TodoOpen(s)' /\ AtHand(s)'
      BY <2>1 DEF TodoOpen, AtHand, IdleRun
    <2> QED
      BY <1>1, <2>1, <2>2 DEF StoredInv, CompletedIsOver, CompletedIsStored
  <1>5. CASE ~\E q \in Pairing \ {x[1]} : rows[q].game = x[2]
    <2>1. /\ run'[s].todo = run[s].todo
          /\ run'[s].pc \in {"read", "fetch", "match"}
      <3>1. After(run[s].phase) \in {"fetch", "match"}
        BY DEF After
      <3>2. CASE run[s].seen = "over"
        <4> DEFINE whose == <<White[x[1]], Black[x[1]]>>
        <4>1. run' = [run EXCEPT ![s] = [@ EXCEPT !.pc = "read", !.whose = whose]]
          BY <1>2, <1>5, <3>2
        <4> HIDE DEF whose
        <4> QED
          BY <1>1, <4>1 DEF Run
      <3>3. CASE run[s].seen # "over"
        BY <1>1, <1>2, <1>5, <3>1, <3>3 DEF Run
      <3> QED
        BY <3>2, <3>3
    <2>2. /\ rows'[x[1]].game = x[2]
          /\ rows'[x[1]].status = IF run[s].seen = "over" THEN "completed" ELSE "in_progress"
      <3> DEFINE status == IF run[s].seen = "over" THEN "completed" ELSE "in_progress"
      <3>1. rows' = [rows EXCEPT ![x[1]] = AttachGameToPairing(rows[x[1]], x[2], status)]
        BY <1>2, <1>5
      <3> HIDE DEF status
      <3>2. rows'[x[1]] = [rows[x[1]] EXCEPT !.game = x[2], !.status = status]
        BY <1>1, <1>3, <3>1 DEF AttachGameToPairing
      <3>3. rows[x[1]] \in RowOf(Game)
        BY <1>1, <1>3
      <3>4. rows'[x[1]].game = x[2] /\ rows'[x[1]].status = status
        BY <3>2, <3>3 DEF RowOf
      <3> QED
        BY <3>4 DEF status
    <2>3. \A q \in Pairing : q # x[1] => rows'[q] = rows[q]
      BY <1>1, <1>2, <1>5
    <2>4. run[s].seen = "over" => played[x[2]] = "over" /\ stored[x[2]].status = "finished"
      BY <1>3 DEF AtHand
    <2>5. CompletedIsOver' /\ CompletedIsStored'
      BY <1>1, <1>3, <2>2, <2>3, <2>4 DEF StoredInv, CompletedIsOver, CompletedIsStored
    <2>6. TodoOpen(s)'
      BY <1>3, <2>1, <2>3 DEF TodoOpen
    <2>7. AtHand(s)'
      BY <2>1 DEF AtHand
    <2> QED
      BY <2>5, <2>6, <2>7 DEF StoredInv
  <1> QED
    BY <1>4, <1>5

(* DeleteGame deletes no completed pairing's game, and FailPairing completes none. *)
LEMMA AbortKeeps ==
    ASSUME TypeInv, StoredInv, NEW s \in Syncer, Syncer = {s}, DeleteGame(s) \/ FailPairing(s)
    PROVE  StoredInv'
  <1>1. /\ run \in [Syncer -> Run] /\ run[s] \in Run /\ rows \in [Pairing -> RowOf(Game)]
        /\ stored \in [Game -> Stored] /\ played' = played /\ AtHand(s) /\ TodoOpen(s)
    BY DEF TypeInv, TypeOK, DeleteGame, FailPairing, StoredInv
  <1>2. CASE DeleteGame(s)
    <2>1. /\ run'[s].pc = "fail" /\ run'[s].todo = run[s].todo /\ run'[s].at = run[s].at
          /\ run'[s].seen = run[s].seen /\ rows' = rows
      BY <1>1, <1>2 DEF DeleteGame, Run
    <2>2. CompletedIsStored'
      <3> SUFFICES ASSUME NEW q \in Pairing, rows[q].status = "completed"
                   PROVE  stored'[rows[q].game].status = "finished"
        BY <2>1 DEF CompletedIsStored
      <3>1. rows[q].game \in Game /\ stored[rows[q].game].status = "finished"
        BY DEF StoredInv, CompletedIsOver, CompletedIsStored
      <3>2. \A x \in run[s].at : rows[q].game # x[2]
        BY <1>1, <1>2 DEF DeleteGame, AtHand
      <3> QED
        BY <1>2, <3>1, <3>2 DEF DeleteGame
    <2>3. TodoOpen(s)'
      BY <1>1, <2>1 DEF TodoOpen
    <2>4. AtHand(s)'
      BY <1>1, <1>2, <2>1 DEF AtHand, DeleteGame
    <2> QED
      BY <1>1, <2>1, <2>2, <2>3, <2>4 DEF StoredInv, CompletedIsOver
  <1>3. CASE FailPairing(s)
    <2>1. /\ run'[s].todo = run[s].todo /\ run'[s].pc \in {"fetch", "match"} /\ stored' = stored
      BY <1>1, <1>3 DEF FailPairing, Run, After
    <2>2. \A q \in Pairing : rows'[q] = rows[q] \/ rows'[q].status = "failed"
      BY <1>1, <1>3 DEF FailPairing, MarkPairingFailed, RowOf
    <2>3. CompletedIsOver' /\ CompletedIsStored'
      BY <1>1, <2>1, <2>2 DEF StoredInv, CompletedIsOver, CompletedIsStored
    <2>4. \A x \in run[s].todo : x[1] \in Pairing
      BY RunFacts
    <2>5. TodoOpen(s)'
      BY <1>1, <2>1, <2>2, <2>4 DEF TodoOpen
    <2>6. AtHand(s)'
      BY <2>1 DEF AtHand
    <2> QED
      BY <2>3, <2>5, <2>6 DEF StoredInv
  <1> QED
    BY <1>2, <1>3

LEMMA StoredStep ==
    ASSUME NEW one, Syncer = {one} PROVE TypeInv /\ StoredInv /\ [Next]_vars => StoredInv'
  <1> SUFFICES ASSUME TypeInv, StoredInv, [Next]_vars PROVE StoredInv'
    OBVIOUS
  <1>1. CASE SyncStep(one) \/ Trouble(one)
    BY <1>1, ReadingKeeps, UpsertKeeps, AttachKeeps, AbortKeeps DEF SyncStep
  <1>2. CASE OtherStep
    BY <1>2, OtherQuiet, OtherKeeps
  <1>3. CASE UNCHANGED vars
    BY <1>3 DEF vars, StoredInv, CompletedIsOver, CompletedIsStored, TodoOpen, AtHand
  <1> QED
    BY <1>1, <1>2, <1>3 DEF Next

(* While one process at a time runs sync-games, as the job's single worker     *)
(* does, a completed pairing's game stays stored as finished, wherever runs    *)
(* are cut short and whatever admins, evaluations and create-games do between  *)
(* two statements.                                                             *)
THEOREM CompletedStored ==
    ASSUME NEW one, Syncer = {one} PROVE Spec => []CompletedIsStored
  <1>1. Init => TypeInv /\ StoredInv
    BY TypeInit, StoredInit
  <1>2. TypeInv /\ StoredInv /\ [Next]_vars => (TypeInv /\ StoredInv)'
    BY TypeStep, StoredStep
  <1>3. StoredInv => CompletedIsStored
    BY DEF StoredInv
  <1> QED
    BY <1>1, <1>2, <1>3, PTL DEF Spec
=============================================================================
