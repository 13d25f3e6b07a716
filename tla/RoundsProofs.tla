---------------------------- MODULE RoundsProofs ----------------------------
(***************************************************************************)
(* Theorems about Rounds, for every set of members and sessions and every  *)
(* number of rounds: its types, its numbers, what is final, and that it    *)
(* implements Schedule.                                                    *)
(***************************************************************************)
EXTENDS Rounds, TLAPS

(* The statements' operators are transparent in every proof below. *)
USE DEF CreateGeneratedRound, CancelRound, CancelPairings, FlipPairingColours,
        InsertEditedPairing, InsertExclusions

(* A session that regenerates holds the lock of a draft, alone. *)
LockHeld ==
    \A g \in Generator : session[g].pc = "regenerating" =>
        /\ session[g].round \in RoundId
        /\ rounds[session[g].round].state = "draft"
        /\ \A h \in Generator \ {g} :
              session[h].pc = "regenerating" => session[h].round # session[g].round

IInv == TypeOK /\ LockHeld /\ LiveRoundsDistinct

-----------------------------------------------------------------------------
LEMMA IdleTyped == IdleSession \in Session
  BY RoundsAssumption DEF IdleSession, Session, NoPool, PoolRead, Reason

LEMMA PoolTyped == TypeOK => LoadPool \in PoolRead
  BY RoundsAssumption DEF LoadPool, PoolRead, Reason, Published

LEMMA DrawTyped ==
  ASSUME NEW pool \in SUBSET Player, NEW volunteers \in SUBSET Player,
         NEW d \in Draws(pool, volunteers)
  PROVE  /\ d.pairs \subseteq [white : Player, black : Player]
         /\ d.byes \subseteq Player
         /\ d.doubles \subseteq Player
  <1>1. PICK odd \in OddChoices(pool, volunteers), s \in GameSets[pool] :
            d = [pairs |-> s, byes |-> odd.byes, doubles |-> odd.doubles]
    BY DEF Draws
  <1>2. odd.byes \subseteq Player /\ odd.doubles \subseteq Player
    <2>1. CASE Cardinality(pool) % 2 = 0
      BY <2>1 DEF OddChoices, OddOutcomes
    <2>2. CASE Cardinality(pool) % 2 # 0
      BY <2>2 DEF OddChoices, OddOutcomes
    <2>3. QED BY <2>1, <2>2
  <1>3. s \subseteq [white : Player, black : Player]
    BY DEF GameSets
  <1>4. QED BY <1>1, <1>2, <1>3

LEMMA WrittenTyped ==
  ASSUME NEW read \in PoolRead, NEW d \in Draws(PoolOf(read), read.volunteers)
  PROVE  Written(read, d) \in Content
  <1>1. PoolOf(read) \subseteq Player /\ read.volunteers \subseteq Player
    BY DEF PoolOf, PoolRead
  <1>2. /\ d.pairs \subseteq [white : Player, black : Player]
        /\ d.byes \subseteq Player
        /\ d.doubles \subseteq Player
    BY <1>1, DrawTyped
  <1>3. {[white |-> m.white, black |-> m.black, status |-> "pending"] : m \in d.pairs}
            \subseteq Pairing
    BY <1>2 DEF Pairing, PairingStatus
  <1>4. QED BY <1>2, <1>3 DEF Written, Content, PoolRead, Reason

-----------------------------------------------------------------------------
(* The inductive step, one lemma per kind of action. *)

LEMMA GenerateKeeps ==
  ASSUME IInv, NEW g \in Generator,
         \/ GenerateNumber(g) \/ GeneratePool(g)
         \/ GenerateFails(g) \/ \E r \in Reviewed : RegenerateRead(g, r)
  PROVE  IInv'
  <1> USE DEF IInv
  <1>0. /\ IdleSession \in Session
        /\ LoadPool \in PoolRead
        /\ Reviewed \subseteq RoundId
    BY IdleTyped, PoolTyped, RoundsAssumption DEF RoundId
  <1>1. CASE GenerateNumber(g)
    <2>1. PICK n \in 1..(MaxRounds + 1) :
             session' = [session EXCEPT ![g] = [IdleSession EXCEPT
                            !.pc = "numbered", !.number = n,
                            !.mode = cfg.mode, !.creation = cfg.creation]]
      BY <1>1 DEF GenerateNumber
    <2>2. n \in Nat
      BY RoundsAssumption
    <2>3. session'[g] \in Session /\ session'[g].pc = "numbered"
      BY <1>0, <2>1, <2>2 DEF TypeOK, Session, IdleSession
    <2>4. \A h \in Generator \ {g} : session'[h] = session[h]
      BY <2>1 DEF TypeOK
    <2>5. session' \in [Generator -> Session]
      BY <2>1, <2>3, <2>4 DEF TypeOK
    <2>6. UNCHANGED <<rounds, content, away, cfg, publishJobs, createJobs>>
      BY <1>1 DEF GenerateNumber
    <2>7. QED
      BY <2>3, <2>4, <2>5, <2>6 DEF TypeOK, LockHeld, LiveRoundsDistinct, Live
  <1>2. CASE GeneratePool(g)
    <2>0. session[g] \in Session /\ LoadPool \in PoolRead
      BY <1>0 DEF TypeOK
    <2>a. /\ session' = [session EXCEPT ![g] =
                            [session[g] EXCEPT !.pc = "paired", !.pool = LoadPool]]
          /\ session \in [Generator -> Session]
      BY <1>2 DEF GeneratePool, TypeOK
    <2>b. session'[g] = [session[g] EXCEPT !.pc = "paired", !.pool = LoadPool]
      BY <2>a
    <2>c. session'[g] \in Session /\ session'[g].pc = "paired"
      BY <2>0, <2>b DEF Session
    <2>d. \A h \in Generator \ {g} : session'[h] = session[h]
      BY <2>a
    <2>1. /\ session'[g] \in Session /\ session'[g].pc = "paired"
          /\ \A h \in Generator \ {g} : session'[h] = session[h]
          /\ session' \in [Generator -> Session]
      BY <2>a, <2>c, <2>d
    <2>2. QED
      BY <1>2, <2>1 DEF GeneratePool, TypeOK, LockHeld, LiveRoundsDistinct, Live
  <1>3. CASE GenerateFails(g)
    <2>1. /\ session'[g] = IdleSession
          /\ \A h \in Generator \ {g} : session'[h] = session[h]
          /\ session' \in [Generator -> Session]
      BY <1>0, <1>3 DEF GenerateFails, TypeOK
    <2>2. QED
      BY <1>3, <2>1
         DEF GenerateFails, TypeOK, LockHeld, LiveRoundsDistinct, Live, IdleSession
  <1>4. ASSUME NEW r \in Reviewed, RegenerateRead(g, r)
        PROVE  IInv'
    <2>0. r \in RoundId /\ r \in 0..MaxRounds
      BY <1>0 DEF RoundId
    <2>1. session'[g] = [IdleSession EXCEPT
                            !.pc = "regenerating", !.round = r, !.pool = LoadPool]
      BY <1>4 DEF RegenerateRead, TypeOK
    <2>2. /\ session'[g] \in Session
          /\ session'[g].round = r
      BY <1>0, <2>0, <2>1 DEF Session, IdleSession
    <2>3. /\ \A h \in Generator \ {g} : session'[h] = session[h]
          /\ session' \in [Generator -> Session]
      BY <1>4, <2>2 DEF RegenerateRead, TypeOK
    <2>4. UNCHANGED <<rounds, content, away, cfg, publishJobs, createJobs>>
      BY <1>4 DEF RegenerateRead
    <2>5. \A h \in Generator : session[h].pc = "regenerating" => session[h].round # r
      BY <1>4 DEF RegenerateRead, Locked
    <2>6. rounds[r].state = "draft"
      BY <1>4 DEF RegenerateRead
    <2>7. LockHeld'
      BY <2>0, <2>2, <2>3, <2>4, <2>5, <2>6 DEF LockHeld
    <2>8. QED
      BY <2>3, <2>4, <2>7 DEF TypeOK, LiveRoundsDistinct, Live
  <1>5. QED BY <1>1, <1>2, <1>3, <1>4

LEMMA InsertKeeps ==
  ASSUME IInv, NEW g \in Generator, GenerateInsert(g)
  PROVE  IInv'
  <1> USE DEF IInv
  <1> DEFINE s == session[g]
             state == IF s.mode = "auto_publish" THEN "published" ELSE "draft"
             row == [state |-> state, number |-> s.number, due |-> state = "published",
                     creation |-> IF state = "published" THEN CreationOf(s.creation)
                                                         ELSE "manual"]
  <1>1. PICK r \in RoundId, d \in Draws(PoolOf(s.pool), s.pool.volunteers) :
            /\ IsNextId(r)
            /\ rounds' = [rounds EXCEPT ![r] = row]
            /\ content' = [content EXCEPT ![r] = Written(s.pool, d)]
            /\ IF state = "published"
               THEN StartGameCreation(r, s.creation) /\ UNCHANGED publishJobs
               ELSE publishJobs' = publishJobs \cup {r} /\ UNCHANGED createJobs
    BY DEF GenerateInsert
  <1>2. /\ session' = [session EXCEPT ![g] = IdleSession]
        /\ UNCHANGED <<away, cfg>>
        /\ s.pc = "paired" /\ ~NumberTaken(s.number) /\ ~DraftConflict(s.mode)
    BY DEF GenerateInsert
  <1>3. s \in Session /\ s.pool \in PoolRead /\ s.number \in Nat
    BY DEF TypeOK, Session
  <1>4. row \in Round
    BY <1>3 DEF Round, RoundState, CreationOf, Session
  <1>5. Written(s.pool, d) \in Content
    BY <1>3, WrittenTyped
  <1>6. /\ session'[g] = IdleSession
        /\ \A h \in Generator \ {g} : session'[h] = session[h]
        /\ session' \in [Generator -> Session]
    BY <1>2, IdleTyped DEF TypeOK
  <1>7. TypeOK'
    BY <1>1, <1>2, <1>4, <1>5, <1>6 DEF TypeOK, StartGameCreation
  <1>8. /\ rounds[r].state = "none"
        /\ rounds'[r] = row
        /\ \A q \in RoundId \ {r} : rounds'[q] = rounds[q]
    BY <1>1 DEF IsNextId, TypeOK
  <1>9. LockHeld'
    BY <1>6, <1>8 DEF LockHeld, IdleSession
  <1>10. LiveRoundsDistinct'
    <2>1. Live' \subseteq Live \cup {r}
      BY <1>8 DEF Live
    <2>2. \A q \in Live : rounds[q].number # row.number
      BY <1>2 DEF NumberTaken
    <2>3. row.state = "draft" => \A q \in Live : rounds[q].state # "draft"
      BY <1>2, <1>3 DEF DraftConflict, Drafts, Session, Live
    <2>4. r \notin Live
      BY <1>8 DEF Live
    <2>5. \A p, q \in Live : p # q =>
             /\ rounds'[p].number # rounds'[q].number
             /\ ~(rounds'[p].state = "draft" /\ rounds'[q].state = "draft")
      BY <1>8, <2>4 DEF LiveRoundsDistinct, Live
    <2>6. \A q \in Live :
             /\ rounds'[r].number # rounds'[q].number
             /\ ~(rounds'[r].state = "draft" /\ rounds'[q].state = "draft")
      <3> HIDE DEF row
      <3> QED BY <1>8, <2>2, <2>3, <2>4 DEF Live
    <2>7. QED
      BY <2>1, <2>5, <2>6 DEF LiveRoundsDistinct
  <1>11. QED BY <1>7, <1>9, <1>10

LEMMA RegenerateKeeps ==
  ASSUME IInv, NEW g \in Generator, RegenerateWrite(g)
  PROVE  IInv'
  <1> USE DEF IInv
  <1> DEFINE s == session[g]
  <1>1. PICK d \in Draws(PoolOf(s.pool), s.pool.volunteers) :
            content' = [content EXCEPT ![s.round] = Written(s.pool, d)]
    BY DEF RegenerateWrite
  <1>2. /\ publishJobs' = publishJobs \cup {s.round}
        /\ session' = [session EXCEPT ![g] = IdleSession]
        /\ UNCHANGED <<rounds, away, cfg, createJobs>>
        /\ s.pc = "regenerating"
    BY DEF RegenerateWrite
  <1>3. s.pool \in PoolRead /\ s.round \in RoundId
    BY <1>2 DEF TypeOK, Session, LockHeld
  <1>4. Written(s.pool, d) \in Content
    BY <1>3, WrittenTyped
  <1>5. /\ session'[g] = IdleSession
        /\ \A h \in Generator \ {g} : session'[h] = session[h]
        /\ session' \in [Generator -> Session]
    BY <1>2, IdleTyped DEF TypeOK
  <1>6. TypeOK'
    BY <1>1, <1>2, <1>3, <1>4, <1>5 DEF TypeOK
  <1>7. QED
    BY <1>2, <1>5, <1>6 DEF LockHeld, IdleSession, LiveRoundsDistinct, Live

(* What publishing, cancelling and the passing of time do to the rounds.    *)
LEMMA RoundStepKeeps ==
  ASSUME IInv, NEW r \in RoundId, RoundStep(r)
  PROVE  IInv'
  <1> USE DEF IInv
  <1>1. ASSUME Publish(r), UNCHANGED <<content, away, cfg, session>>,
               publishJobs' \subseteq publishJobs
        PROVE  IInv'
    <2>1. /\ rounds \in [RoundId -> Round] /\ ~Locked(r) /\ rounds[r].state = "draft"
          /\ rounds' = [rounds EXCEPT ![r] = [rounds[r] EXCEPT
                           !.state = "published", !.creation = CreationOf(cfg.creation)]]
      BY <1>1 DEF Publish, TypeOK
    <2>2. /\ \A s \in RoundId \ {r} : rounds'[s] = rounds[s]
          /\ rounds'[r].state = "published" /\ rounds'[r].number = rounds[r].number
      BY <2>1 DEF Round
    <2>3. TypeOK'
      <3>1. CreationOf(cfg.creation) \in {"manual", "creating"}
        BY DEF CreationOf
      <3>2. [rounds[r] EXCEPT !.state = "published",
                              !.creation = CreationOf(cfg.creation)] \in Round
        BY <2>1, <3>1 DEF Round, RoundState
      <3>3. rounds' \in [RoundId -> Round]
        BY <2>1, <3>2
      <3>4. createJobs' \subseteq RoundId
        BY <1>1 DEF Publish, StartGameCreation, TypeOK
      <3>5. QED BY <1>1, <3>3, <3>4 DEF TypeOK
    <2>4. LockHeld'
      <3>1. \A h \in Generator : session[h].pc = "regenerating" => session[h].round # r
        BY <2>1 DEF Locked
      <3>2. QED BY <1>1, <2>2, <3>1 DEF LockHeld
    <2>5. LiveRoundsDistinct'
      <3>1. Live' = Live
        BY <2>1, <2>2 DEF Live
      <3>2. QED BY <2>1, <2>2, <3>1 DEF LiveRoundsDistinct, Live
    <2>6. QED BY <2>3, <2>4, <2>5
  <1>2. ASSUME UNCHANGED <<rounds, content, away, cfg, createJobs, session>>,
               publishJobs' \subseteq publishJobs
        PROVE  IInv'
    BY <1>2 DEF TypeOK, LockHeld, LiveRoundsDistinct, Live
  <1>3. CASE PublishNow(r)
    BY <1>1, <1>3 DEF PublishNow
  <1>4. CASE PublishJob(r)
    BY <1>1, <1>2, <1>4 DEF PublishJob
  <1>5. CASE PublishJobLost(r)
    BY <1>2, <1>5 DEF PublishJobLost
  <1>6. CASE PublishDue(r)
    BY <1>1, <1>6 DEF PublishDue
  <1>7. CASE WindowEnds(r)
    <2>1. TypeOK'
      BY <1>7 DEF WindowEnds, TypeOK, Round
    <2>2. LockHeld' /\ LiveRoundsDistinct'
      BY <1>7 DEF WindowEnds, TypeOK, LockHeld, LiveRoundsDistinct, Live
    <2>3. QED BY <2>1, <2>2
  <1>8. CASE Cancel(r)
    <2>1. {[m EXCEPT !.status = "cancelled"] : m \in content[r].pairings} \subseteq Pairing
      BY DEF TypeOK, Content, Pairing, PairingStatus
    <2>2. TypeOK'
      <3>1. rounds' \in [RoundId -> Round]
        BY <1>8 DEF Cancel, TypeOK, Round, RoundState
      <3>2. /\ content \in [RoundId -> Content]
            /\ content' = [content EXCEPT ![r] = [content[r] EXCEPT !.pairings =
                   {[m EXCEPT !.status = "cancelled"] : m \in content[r].pairings}]]
        BY <1>8 DEF Cancel, TypeOK
      <3>3. [content[r] EXCEPT !.pairings =
                {[m EXCEPT !.status = "cancelled"] : m \in content[r].pairings}] \in Content
        BY <2>1, <3>2 DEF Content
      <3>4. content' \in [RoundId -> Content]
        BY <3>2, <3>3
      <3>5. QED BY <1>8, <3>1, <3>4 DEF Cancel, TypeOK
    <2>3. /\ rounds' = [rounds EXCEPT ![r].state = "cancelled"] /\ session' = session
          /\ rounds \in [RoundId -> Round] /\ ~Locked(r)
      BY <1>8 DEF Cancel, TypeOK
    <2>4. /\ \A s \in RoundId \ {r} : rounds'[s] = rounds[s]
          /\ rounds'[r].state = "cancelled"
      BY <2>3 DEF Round
    <2>5. LockHeld'
      <3>1. \A h \in Generator : session[h].pc = "regenerating" => session[h].round # r
        BY <2>3 DEF Locked
      <3>2. QED BY <2>3, <2>4, <3>1 DEF LockHeld
    <2>6. LiveRoundsDistinct'
      <3>1. Live' \subseteq Live \ {r}
        BY <2>4 DEF Live
      <3>2. QED BY <2>4, <3>1 DEF LiveRoundsDistinct, Live
    <2>7. QED BY <2>2, <2>5, <2>6
  <1>9. QED
    BY <1>3, <1>4, <1>5, <1>6, <1>7, <1>8 DEF RoundStep

(* Edits and status changes touch the content of one round only. *)
LEMMA ContentKeeps ==
  ASSUME IInv, NEW r \in RoundId, NEW m \in content[r].pairings,
         EditStep(r, m) \/ PairingStep(r, m)
  PROVE  IInv'
  <1> USE DEF IInv
  <1>0. /\ content[r] \in Content /\ m \in Pairing
        /\ content[r].pairings \subseteq Pairing
    BY DEF TypeOK, Content
  <1>1. ASSUME NEW c \in Content, content' = [content EXCEPT ![r] = c],
               UNCHANGED <<rounds, away, cfg, publishJobs, createJobs, session>>
        PROVE  IInv'
    BY <1>1 DEF TypeOK, LockHeld, LiveRoundsDistinct, Live
  <1>2. ASSUME NEW S \in SUBSET Pairing, content' = [content EXCEPT ![r].pairings = S],
               UNCHANGED <<rounds, away, cfg, publishJobs, createJobs, session>>
        PROVE  IInv'
    <2>1. [content[r] EXCEPT !.pairings = S] \in Content
      BY <1>0 DEF Content
    <2>2. content' = [content EXCEPT ![r] = [content[r] EXCEPT !.pairings = S]]
      BY <1>2 DEF TypeOK
    <2>3. QED BY <1>1, <1>2, <2>1, <2>2
  <1>3. CASE FlipColours(r, m)
    <2> DEFINE S == (content[r].pairings \ {m}) \cup {[m EXCEPT !.white = m.black, !.black = m.white]}
    <2>1. S \subseteq Pairing
      BY <1>0 DEF Pairing
    <2>2. content' = [content EXCEPT ![r].pairings = S]
      BY <1>3 DEF FlipColours, TypeOK
    <2>3. QED BY <1>2, <1>3, <2>1, <2>2 DEF FlipColours
  <1>4. CASE RemovePairing(r, m)
    <2> DEFINE c == [content[r] EXCEPT
                        !.pairings = @ \ {m},
                        !.doubles = @ \ {m.white, m.black},
                        !.excluded = [p \in Player |->
                            IF p \in {m.white, m.black} \ content[r].doubles
                            THEN "removed_by_admin" ELSE @[p]]]
    <2>1. c \in Content
      BY <1>0 DEF Content, Reason
    <2>2. content' = [content EXCEPT ![r] = c]
      BY <1>4 DEF RemovePairing, TypeOK
    <2>3. QED BY <1>1, <1>4, <2>1, <2>2 DEF RemovePairing
  <1>5. ASSUME NEW n \in content[r].pairings, SwapPairings(r, m, n)
        PROVE  IInv'
    <2>1. PICK x \in ColourChoices(m.white, n.black), y \in ColourChoices(n.white, m.black) :
             content' = [content EXCEPT ![r].pairings = (content[r].pairings \ {m, n}) \cup {x, y}]
      BY <1>5 DEF SwapPairings
    <2>2. x \in Pairing /\ y \in Pairing
      BY <1>0 DEF ColourChoices, Pairing, PairingStatus
    <2>3. (content[r].pairings \ {m, n}) \cup {x, y} \subseteq Pairing
      BY <1>0, <2>2
    <2>4. QED BY <1>2, <1>5, <2>1, <2>3 DEF SwapPairings
  <1>6. ASSUME NEW status \in PairingStatus, SetStatus(r, m, status)
        PROVE  IInv'
    <2> DEFINE S == (content[r].pairings \ {m}) \cup {[m EXCEPT !.status = status]}
    <2>1. S \subseteq Pairing
      BY <1>0 DEF Pairing
    <2>2. content' = [content EXCEPT ![r].pairings = S]
      BY <1>6 DEF SetStatus, TypeOK
    <2>3. QED BY <1>2, <1>6, <2>1, <2>2 DEF SetStatus
  <1>7. QED
    BY <1>3, <1>4, <1>5, <1>6
       DEF EditStep, PairingStep, MarkFailed, GameOver, PairingStatus

LEMMA NextKeeps == IInv /\ [Next]_vars => IInv'
  <1> SUFFICES ASSUME IInv, [Next]_vars PROVE IInv'
    OBVIOUS
  <1>0. Reviewed \subseteq RoundId
    BY RoundsAssumption DEF RoundId
  <1>1. ASSUME NEW g \in Generator, GenerateStep(g) PROVE IInv'
    BY <1>1, GenerateKeeps, InsertKeeps, RegenerateKeeps, RoundsAssumption
       DEF GenerateStep, RoundId
  <1>2. ASSUME NEW r \in RoundId, RoundStep(r) PROVE IInv'
    BY <1>2, RoundStepKeeps
  <1>3. ASSUME NEW r \in RoundId, NEW m \in content[r].pairings,
               EditStep(r, m) \/ PairingStep(r, m)
        PROVE  IInv'
    BY <1>3, ContentKeeps
  <1>4. ASSUME NEW mode \in Modes, NEW creation \in Creations, SetCfg(mode, creation)
        PROVE  IInv'
    BY <1>4, RoundsAssumption
       DEF SetCfg, IInv, TypeOK, LockHeld, LiveRoundsDistinct, Live
  <1>5. ASSUME NEW p \in Restless, ToggleAway(p) PROVE IInv'
    BY <1>5, RoundsAssumption
       DEF ToggleAway, IInv, TypeOK, LockHeld, LiveRoundsDistinct, Live
  <1>6. CASE UNCHANGED vars
    BY <1>6 DEF vars, IInv, TypeOK, LockHeld, LiveRoundsDistinct, Live
  <1>7. QED BY <1>0, <1>1, <1>2, <1>3, <1>4, <1>5, <1>6 DEF Next

LEMMA InitHolds == Init => IInv
  <1> SUFFICES ASSUME Init PROVE IInv
    OBVIOUS
  <1>1. NoContent \in Content /\ NoRound \in Round
    BY DEF NoContent, Content, NoRound, Round, RoundState, Reason
  <1>2. TypeOK
    BY <1>1, IdleTyped, RoundsAssumption DEF Init, TypeOK
  <1>3. LockHeld /\ LiveRoundsDistinct
    BY DEF Init, LockHeld, IdleSession, LiveRoundsDistinct, Live, NoRound
  <1>4. QED BY <1>2, <1>3 DEF IInv

(* TypeOK, and the lock discipline of regenerations, hold of every reachable *)
(* state, for every size of the league.                                      *)
THEOREM Inductive == Spec => []IInv
  BY InitHolds, NextKeeps, PTL DEF Spec

(* Every variable keeps the shape the tables give it. *)
THEOREM TypeCorrect == Spec => []TypeOK
  BY Inductive, PTL DEF IInv

(* However many sessions generate, publish and cancel at once, at most one   *)
(* draft waits and the live rounds' numbers are distinct.                    *)
THEOREM DistinctRounds == Spec => []LiveRoundsDistinct
  BY Inductive, PTL DEF IInv

-----------------------------------------------------------------------------
(* Finality: the lock keeps a regeneration off a round once it is decided.  *)

LEMMA AnnouncedKept ==
  ASSUME NEW c \in Content, NEW m \in c.pairings, NEW n,
         n.white = m.white, n.black = m.black
  PROVE  {<<x.white, x.black>> : x \in (c.pairings \ {m}) \cup {n}}
            = {<<x.white, x.black>> : x \in c.pairings}
  OBVIOUS

LEMMA StepDecided == IInv /\ [Next]_vars => [DecidedStep]_vars
  <1> SUFFICES ASSUME IInv, Next PROVE DecidedStep
    BY DEF vars
  <1> USE DEF IInv
  <1>0. Reviewed \subseteq RoundId
    BY RoundsAssumption DEF RoundId
  <1>1. ASSUME UNCHANGED <<rounds, content>> PROVE DecidedStep
    BY <1>1 DEF DecidedStep, Announced, TypeOK, Round
  <1>2. ASSUME NEW r \in RoundId, rounds[r].state \in {"none", "draft"},
               \A s \in RoundId \ {r} : rounds'[s] = rounds[s] /\ content'[s] = content[s]
        PROVE  DecidedStep
    BY <1>2 DEF DecidedStep, Announced, TypeOK, Round
  <1>3. ASSUME NEW g \in Generator, GenerateStep(g) PROVE DecidedStep
    <2>1. CASE GenerateInsert(g)
      <3>1. PICK r \in RoundId :
               /\ IsNextId(r)
               /\ \A s \in RoundId \ {r} : rounds'[s] = rounds[s] /\ content'[s] = content[s]
        BY <2>1 DEF GenerateInsert, TypeOK
      <3>2. QED BY <1>2, <3>1 DEF IsNextId
    <2>2. CASE RegenerateWrite(g)
      <3> DEFINE r == session[g].round
      <3>1. r \in RoundId /\ rounds[r].state = "draft"
        BY <2>2 DEF RegenerateWrite, LockHeld
      <3>2. \A s \in RoundId \ {r} : rounds'[s] = rounds[s] /\ content'[s] = content[s]
        BY <2>2 DEF RegenerateWrite, TypeOK
      <3>3. QED BY <1>2, <3>1, <3>2
    <2>3. CASE GenerateNumber(g) \/ GeneratePool(g) \/ GenerateFails(g)
                 \/ \E r \in Reviewed : RegenerateRead(g, r)
      BY <1>1, <2>3 DEF GenerateNumber, GeneratePool, GenerateFails, RegenerateRead
    <2>4. QED BY <1>3, <2>1, <2>2, <2>3 DEF GenerateStep
  <1>4. ASSUME NEW r \in RoundId, RoundStep(r) PROVE DecidedStep
    <2>1. CASE WindowEnds(r)
      BY <2>1 DEF WindowEnds, DecidedStep, Announced, TypeOK, Round
    <2>2. CASE Publish(r) /\ UNCHANGED content
      BY <1>2, <2>2 DEF Publish, TypeOK
    <2>3. CASE Cancel(r)
      BY <1>2, <2>3 DEF Cancel, TypeOK
    <2>4. CASE UNCHANGED <<rounds, content>>
      BY <1>1, <2>4
    <2>5. QED
      BY <1>4, <2>1, <2>2, <2>3, <2>4
         DEF RoundStep, PublishNow, PublishJob, PublishJobLost, PublishDue
  <1>5. ASSUME NEW r \in Reviewed, NEW m \in content[r].pairings, EditStep(r, m)
        PROVE  DecidedStep
    BY <1>0, <1>2, <1>5
       DEF EditStep, Editable, FlipColours, RemovePairing, SwapPairings, TypeOK
  <1>6. ASSUME NEW r \in RoundId, NEW m \in content[r].pairings, PairingStep(r, m)
        PROVE  DecidedStep
    <2>1. PICK status \in PairingStatus : SetStatus(r, m, status)
      BY <1>6 DEF PairingStep, MarkFailed, GameOver, PairingStatus
    <2> DEFINE n == [m EXCEPT !.status = status]
    <2>2. /\ UNCHANGED rounds
          /\ \A s \in RoundId \ {r} : content'[s] = content[s]
          /\ content'[r] = [content[r] EXCEPT !.pairings = (content[r].pairings \ {m}) \cup {n}]
      BY <2>1 DEF SetStatus, TypeOK
    <2>3. content[r] \in Content /\ m \in Pairing
      BY DEF TypeOK, Content
    <2>4. n.white = m.white /\ n.black = m.black
      BY <2>3 DEF Pairing
    <2>5. Announced(content'[r]) = Announced(content[r])
      <3> HIDE DEF n
      <3>1. {<<x.white, x.black>> : x \in (content[r].pairings \ {m}) \cup {n}}
               = {<<x.white, x.black>> : x \in content[r].pairings}
        BY <2>3, <2>4, AnnouncedKept
      <3>2. QED BY <2>2, <2>3, <3>1 DEF Announced, Content
    <2>6. QED BY <2>2, <2>5 DEF DecidedStep, Announced, TypeOK, Round
  <1>7. QED
    BY <1>1, <1>3, <1>4, <1>5, <1>6 DEF Next, SetCfg, ToggleAway

(* A round once published or cancelled keeps its number, its pairings and    *)
(* their colours, its byes, double game and exclusions, whatever publishers, *)
(* editors and regenerations do afterwards or were doing at the time.        *)
THEOREM Finality == Spec => DecidedIsFinal
  BY Inductive, StepDecided, PTL DEF Spec, DecidedIsFinal

-----------------------------------------------------------------------------
(* The calendar.  The inductive invariant is what the steps need: a          *)
(* regeneration writes only a round that its lock has kept a draft.          *)

(* Only round r changes, in its rows or in what was generated for it. *)
Touches(r) ==
    /\ rounds' = [rounds EXCEPT ![r] = rounds'[r]]
    /\ content' = [content EXCEPT ![r] = content'[r]]

LEMMA CalendarInit == Init => Calendar!Init
  BY DEF Init, Calendar!Init, NoRound

LEMMA NothingShown ==
  ASSUME TypeOK, UNCHANGED createJobs,
         \A r \in RoundId : /\ rounds'[r].state = rounds[r].state
                            /\ rounds'[r].number = rounds[r].number
                            /\ rounds'[r].creation = rounds[r].creation
                            /\ Announced(content[r])' = Announced(content[r])
  PROVE  UNCHANGED Calendar!vars
  BY DEF Calendar!vars

(* What a step that touches one round shows of it. *)
LEMMA OneShown ==
  ASSUME TypeOK, NEW r \in RoundId, Touches(r)
  PROVE  /\ [q \in RoundId |-> rounds[q].state]'
               = [[q \in RoundId |-> rounds[q].state] EXCEPT ![r] = rounds'[r].state]
         /\ [q \in RoundId |-> rounds[q].number]'
               = [[q \in RoundId |-> rounds[q].number] EXCEPT ![r] = rounds'[r].number]
         /\ [q \in RoundId |-> rounds[q].creation]'
               = [[q \in RoundId |-> rounds[q].creation] EXCEPT ![r] = rounds'[r].creation]
         /\ [q \in RoundId |-> Announced(content[q])]'
               = [[q \in RoundId |-> Announced(content[q])] EXCEPT
                     ![r] = Announced(content'[r])]
  <1>1. \A q \in RoundId \ {r} : rounds'[q] = rounds[q] /\ content'[q] = content[q]
    BY DEF Touches, TypeOK
  <1>2. \A q \in RoundId \ {r} : Announced(content[q])' = Announced(content[q])
    BY <1>1 DEF Announced
  <1>3. Announced(content[r])' = Announced(content'[r])
    BY DEF Announced
  <1>4. QED BY <1>1, <1>2, <1>3

-----------------------------------------------------------------------------
(* Each step that shows something is one of the calendar's. *)

LEMMA InsertOpens ==
  ASSUME IInv, NEW g \in Generator, GenerateInsert(g)
  PROVE  Calendar!Next
  <1> USE DEF IInv
  <1> DEFINE s == session[g]
             state == IF s.mode = "auto_publish" THEN "published" ELSE "draft"
             made == IF state = "published" THEN CreationOf(s.creation) ELSE "manual"
  <1>1. PICK r \in RoundId, d \in Draws(PoolOf(s.pool), s.pool.volunteers) :
            /\ IsNextId(r)
            /\ rounds' = [rounds EXCEPT ![r] =
                  [state |-> state, number |-> s.number, due |-> state = "published",
                   creation |-> made]]
            /\ content' = [content EXCEPT ![r] = Written(s.pool, d)]
            /\ IF state = "published"
               THEN StartGameCreation(r, s.creation) /\ UNCHANGED publishJobs
               ELSE publishJobs' = publishJobs \cup {r} /\ UNCHANGED createJobs
    BY DEF GenerateInsert
  <1>2. ~NumberTaken(s.number) /\ ~DraftConflict(s.mode) /\ s \in Session
    BY DEF GenerateInsert, TypeOK
  <1>3. /\ rounds[r].state = "none"
        /\ rounds'[r].state = state
        /\ rounds'[r].number = s.number
        /\ rounds'[r].creation = made
        /\ Touches(r)
    BY <1>1 DEF IsNextId, TypeOK, Touches
  <1>4. \A q \in Calendar!Live : rounds[q].number # s.number
    BY <1>2 DEF NumberTaken, Live, Calendar!Live
  <1>5. Calendar!Number(r)
    BY <1>3, <1>4, OneShown DEF Calendar!Number, Calendar!Live
  <1>6. CASE s.mode = "auto_publish"
    <2>1. /\ rounds'[r].creation = CreationOf(s.creation)
          /\ StartGameCreation(r, s.creation)
      BY <1>1, <1>3, <1>6
    <2>2. Calendar!Settle(r)
      <3> HIDE DEF s
      <3>1. QED
        BY <1>3, <2>1, OneShown DEF Calendar!Settle, StartGameCreation, CreationOf
    <2>3. Calendar!OpenPublished(r)
      BY <1>3, <1>5, <1>6, <2>2, OneShown DEF Calendar!OpenPublished
    <2>4. QED BY <2>3 DEF Calendar!Next
  <1>7. CASE s.mode = "review_window"
    <2>1. \A q \in RoundId : rounds[q].state # "draft"
      BY <1>2, <1>7 DEF DraftConflict, Drafts
    <2>2. UNCHANGED createJobs
      BY <1>1, <1>7
    <2>3. Calendar!OpenDraft(r)
      BY <1>3, <1>5, <1>7, <2>1, <2>2, OneShown DEF Calendar!OpenDraft
    <2>4. QED BY <2>3 DEF Calendar!Next
  <1>8. QED BY <1>2, <1>6, <1>7 DEF Session

LEMMA RevisionRevises ==
  ASSUME IInv, NEW r \in RoundId, rounds[r].state = "draft",
         UNCHANGED <<rounds, createJobs>>,
         content' = [content EXCEPT ![r] = content'[r]]
  PROVE  Calendar!Next
  <1>1. Touches(r)
    BY DEF IInv, TypeOK, Touches
  <1>2. Calendar!Revise(r)
    BY <1>1, OneShown DEF IInv, Calendar!Revise
  <1>3. QED BY <1>2 DEF Calendar!Next

LEMMA PublicationAnnounces ==
  ASSUME IInv, NEW r \in RoundId, Publish(r), UNCHANGED content
  PROVE  Calendar!Next
  <1> USE DEF IInv
  <1>1. /\ rounds[r].state = "draft"
        /\ rounds'[r].state = "published"
        /\ rounds'[r].number = rounds[r].number
        /\ rounds'[r].creation = CreationOf(cfg.creation)
        /\ StartGameCreation(r, cfg.creation)
    BY DEF Publish, TypeOK, Round
  <1>2. Touches(r)
    BY DEF Publish, TypeOK, Touches
  <1>3. Calendar!Settle(r)
    BY <1>1, <1>2, OneShown DEF Calendar!Settle, StartGameCreation, CreationOf
  <1>4. \A q \in RoundId : rounds'[q].number = rounds[q].number
    BY <1>1, <1>2 DEF Touches, TypeOK
  <1>5. UNCHANGED [q \in RoundId |-> Announced(content[q])]
    BY DEF Announced
  <1>6. Calendar!Announce(r)
    BY <1>1, <1>2, <1>3, <1>4, <1>5, OneShown DEF Calendar!Announce
  <1>7. QED BY <1>6 DEF Calendar!Next

LEMMA SameGames ==
  ASSUME NEW A, NEW B,
         \A x \in A : \E y \in B : x.white = y.white /\ x.black = y.black,
         \A y \in B : \E x \in A : x.white = y.white /\ x.black = y.black
  PROVE  {<<x.white, x.black>> : x \in A} = {<<y.white, y.black>> : y \in B}
  <1>1. ASSUME NEW x \in A PROVE <<x.white, x.black>> \in {<<y.white, y.black>> : y \in B}
    OBVIOUS
  <1>2. ASSUME NEW y \in B PROVE <<y.white, y.black>> \in {<<x.white, x.black>> : x \in A}
    OBVIOUS
  <1>3. QED BY <1>1, <1>2

LEMMA CancelWithdraws ==
  ASSUME IInv, NEW r \in RoundId, Cancel(r)
  PROVE  Calendar!Next
  <1> USE DEF IInv
  <1> DEFINE called == {[m EXCEPT !.status = "cancelled"] : m \in content[r].pairings}
  <1>1. /\ rounds[r].state = "draft"
        /\ rounds'[r].state = "cancelled"
        /\ rounds'[r].number = rounds[r].number
        /\ rounds'[r].creation = rounds[r].creation
        /\ UNCHANGED createJobs
    BY DEF Cancel, TypeOK, Round
  <1>2. /\ Touches(r)
        /\ content'[r] = [content[r] EXCEPT !.pairings = called]
    BY DEF Cancel, TypeOK, Touches
  <1>3. content[r] \in Content /\ content[r].pairings \subseteq Pairing
    BY DEF TypeOK, Content
  <1>4. {<<x.white, x.black>> : x \in called}
           = {<<x.white, x.black>> : x \in content[r].pairings}
    <2>1. ASSUME NEW m \in content[r].pairings
          PROVE  \E n \in called : n.white = m.white /\ n.black = m.black
      <3>1. [m EXCEPT !.status = "cancelled"] \in called
        OBVIOUS
      <3>2. QED BY <1>3, <3>1 DEF Pairing
    <2>2. ASSUME NEW n \in called
          PROVE  \E m \in content[r].pairings : n.white = m.white /\ n.black = m.black
      BY <1>3 DEF Pairing
    <2>3. QED
      <3> HIDE DEF called
      <3>1. QED BY <2>1, <2>2, SameGames
  <1>5. Announced(content'[r]) = Announced(content[r])
    <2> HIDE DEF called
    <2>1. QED BY <1>2, <1>3, <1>4 DEF Announced, Content
  <1>6. \A q \in RoundId :
           /\ rounds'[q].number = rounds[q].number
           /\ rounds'[q].creation = rounds[q].creation
           /\ Announced(content'[q]) = Announced(content[q])
    BY <1>1, <1>2, <1>5 DEF Touches, TypeOK
  <1>7. Calendar!Withdraw(r)
    BY <1>1, <1>2, <1>6, OneShown DEF Calendar!Withdraw
  <1>8. QED BY <1>7 DEF Calendar!Next

-----------------------------------------------------------------------------
LEMMA StepShown == IInv /\ [Next]_vars => [Calendar!Next]_(Calendar!vars)
  <1> SUFFICES ASSUME IInv, [Next]_vars
               PROVE  Calendar!Next \/ UNCHANGED Calendar!vars
    OBVIOUS
  <1> USE DEF IInv
  <1>0. Reviewed \subseteq RoundId
    BY RoundsAssumption DEF RoundId
  <1>1. ASSUME UNCHANGED <<rounds, content, createJobs>> PROVE UNCHANGED Calendar!vars
    BY <1>1, NothingShown DEF Announced
  <1>2. ASSUME NEW g \in Generator, GenerateStep(g)
        PROVE  Calendar!Next \/ UNCHANGED Calendar!vars
    <2>1. CASE GenerateInsert(g)
      BY <2>1, InsertOpens
    <2>2. CASE RegenerateWrite(g)
      <3> DEFINE r == session[g].round
      <3>1. r \in RoundId /\ rounds[r].state = "draft"
        BY <2>2 DEF RegenerateWrite, LockHeld
      <3>2. /\ UNCHANGED <<rounds, createJobs>>
            /\ content' = [content EXCEPT ![r] = content'[r]]
        BY <2>2, <3>1 DEF RegenerateWrite, TypeOK
      <3>3. QED BY <3>1, <3>2, RevisionRevises
    <2>3. CASE GenerateNumber(g) \/ GeneratePool(g) \/ GenerateFails(g)
                 \/ \E r \in Reviewed : RegenerateRead(g, r)
      BY <1>1, <2>3 DEF GenerateNumber, GeneratePool, GenerateFails, RegenerateRead
    <2>4. QED BY <1>2, <2>1, <2>2, <2>3 DEF GenerateStep
  <1>3. ASSUME NEW r \in RoundId, RoundStep(r)
        PROVE  Calendar!Next \/ UNCHANGED Calendar!vars
    <2>1. CASE WindowEnds(r)
      BY <2>1, NothingShown DEF WindowEnds, TypeOK, Round, Announced
    <2>2. CASE Publish(r) /\ UNCHANGED content
      BY <2>2, PublicationAnnounces
    <2>3. CASE Cancel(r)
      BY <2>3, CancelWithdraws
    <2>4. CASE UNCHANGED <<rounds, content, createJobs>>
      BY <1>1, <2>4
    <2>5. QED
      BY <1>3, <2>1, <2>2, <2>3, <2>4
         DEF RoundStep, PublishNow, PublishJob, PublishJobLost, PublishDue
  <1>4. ASSUME NEW r \in Reviewed, NEW m \in content[r].pairings, EditStep(r, m)
        PROVE  Calendar!Next
    <2>1. /\ r \in RoundId /\ rounds[r].state = "draft"
          /\ UNCHANGED <<rounds, createJobs>>
          /\ content' = [content EXCEPT ![r] = content'[r]]
      BY <1>0, <1>4 DEF EditStep, Editable, FlipColours, RemovePairing, SwapPairings, TypeOK
    <2>2. QED BY <2>1, RevisionRevises
  <1>5. ASSUME NEW r \in RoundId, NEW m \in content[r].pairings, PairingStep(r, m)
        PROVE  UNCHANGED Calendar!vars
    <2>0. Next
      BY <1>5 DEF Next
    <2>1. DecidedStep \/ UNCHANGED content
      BY <2>0, StepDecided DEF vars
    <2>2. /\ rounds[r].state = "published"
          /\ UNCHANGED <<rounds, createJobs>>
          /\ \A q \in RoundId \ {r} : content'[q] = content[q]
      BY <1>5 DEF PairingStep, MarkFailed, GameOver, SetStatus, TypeOK
    <2>3. Announced(content[r])' = Announced(content[r])
      BY <2>1, <2>2 DEF DecidedStep, Announced
    <2>4. \A q \in RoundId \ {r} : Announced(content[q])' = Announced(content[q])
      BY <2>2 DEF Announced
    <2>5. QED BY <2>2, <2>3, <2>4, NothingShown
  <1>6. ASSUME UNCHANGED vars PROVE UNCHANGED Calendar!vars
    BY <1>1, <1>6 DEF vars
  <1>7. QED
    BY <1>1, <1>2, <1>3, <1>4, <1>5, <1>6 DEF Next, SetCfg, ToggleAway

(* However many sessions generate, edit, publish and cancel at once, what    *)
(* the league sees is Schedule's calendar: the simulation by which one step  *)
(* of the rounds is one of the calendar's steps or none.                     *)
THEOREM Implements == Spec => KeepsCalendar
  <1>1. Spec => []IInv
    BY Inductive
  <1>2. QED
    BY <1>1, CalendarInit, StepShown, PTL DEF Spec, KeepsCalendar, Calendar!Spec
=============================================================================
