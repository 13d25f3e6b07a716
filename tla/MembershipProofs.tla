-------------------------- MODULE MembershipProofs --------------------------
(***************************************************************************)
(* Theorems about Membership, for every set of accounts, browsers and      *)
(* runs, every grace, lifetime and number of authorisations.               *)
(***************************************************************************)
EXTENDS Membership, TLAPS

(* Who holds what: a stored token, a sign-in under way and a row read by a  *)
(* run each name a token Lichess granted to that player; a sign-in that has      *)
(* found an account works on one that is there; and a run carries as refused *)
(* only tokens that no longer work.                                          *)
StoredGranted ==
    \A u \in Player :
        /\ token[u].secret = 0 => token[u].revoked = 0
        /\ token[u].secret # 0 =>
              /\ grant[token[u].secret].owner = u
              /\ grant[token[u].secret].expires = token[u].expires
              /\ token[u].expires # 0

SignInsGranted ==
    \A b \in Browser : browser[b].pc # "idle" =>
        /\ browser[b].who \in Player
        /\ browser[b].secret \in Secret
        /\ grant[browser[b].secret].owner = browser[b].who
        /\ grant[browser[b].secret].expires # 0
        /\ browser[b].seen # "none" => status[browser[b].who] # "none"

RowsGranted ==
    \A c \in Checker :
        /\ \A x \in check[c].listed \cup check[c].refused : grant[x[2]].owner = x[1]
        /\ \A x \in check[c].refused : Dead(x[2])

(* A mark comes no earlier than the death it records, and with its notice. *)
MarksLate ==
    \A u \in Player : token[u].revoked # 0 =>
        /\ DeadFrom(token[u].secret) <= token[u].revoked
        /\ token[u].revoked <= clock
        /\ TokenLapsed(u, token[u].secret) \in notices

NoticesTrue ==
    \A u \in Player, s \in Secret :
        TokenLapsed(u, s) \in notices => Dead(s) /\ grant[s].owner = u

(* What an applicant has been told fits only where the application can be now. *)
DecisionsFinal ==
    \A u \in Player \ Admins :
        /\ <<u, "approved">> \in notices => status[u] \in {"approved", "banned"}
        /\ <<u, "rejected">> \in notices => status[u] \in {"rejected", "approved", "banned"}

MInv ==
    /\ TypeOK
    /\ StoredGranted
    /\ SignInsGranted
    /\ RowsGranted
    /\ MarksLate
    /\ NoticesTrue
    /\ DecisionsFinal

-----------------------------------------------------------------------------
(* The notices' kinds. *)
LEMMA KindsDiffer ==
  ASSUME NEW u, NEW v, NEW s
  PROVE  /\ TokenLapsed(u, s) # <<v, "approved">>
         /\ TokenLapsed(u, s) # <<v, "rejected">>
         /\ <<u, "approved">> # <<v, "rejected">>
  <1>1. TokenLapsed(u, s)[2] = "lapsed"
    BY DEF TokenLapsed
  <1>2. <<v, "approved">>[2] = "approved" /\ <<v, "rejected">>[2] = "rejected"
    OBVIOUS
  <1>3. QED BY <1>1, <1>2

LEMMA DeadFromTyped ==
  ASSUME TypeOK, NEW s \in Secret
  PROVE  DeadFrom(s) \in Nat
  BY MembershipAssumption DEF TypeOK, DeadFrom, Min2, Times

(* What the League keeps while Lichess grants and revokes and time passes. *)
LEMMA LichessKeeps ==
  ASSUME MInv, TypeOK',
         UNCHANGED league,
         clock' >= clock,
         \A s \in Minted : /\ Dead(s) => grant'[s] = grant[s]
                           /\ grant'[s].owner = grant[s].owner
                           /\ grant'[s].expires = grant[s].expires
  PROVE  /\ StoredGranted' /\ MarksLate' /\ NoticesTrue' /\ DecisionsFinal'
         /\ \A s \in Minted : Dead(s) => Dead(s)'
  <1> USE DEF MInv
  <1>0. clock \in Nat /\ clock' \in Nat
    BY MembershipAssumption DEF TypeOK
  <1>1. ASSUME NEW s \in Minted, Dead(s)
        PROVE  DeadFrom(s)' = DeadFrom(s) /\ Dead(s)'
    <2>1. DeadFrom(s)' = DeadFrom(s)
      BY <1>1 DEF DeadFrom
    <2>2. QED BY <1>0, <1>1, <2>1, DeadFromTyped DEF Dead, Minted
  <1>2. ASSUME NEW u \in Player, token[u].secret # 0
        PROVE  token[u].secret \in Secret /\ token[u].secret \in Minted
    <2>1. token[u].secret \in Secret
      BY <1>2, MembershipAssumption DEF TypeOK, Secret
    <2>2. QED BY <1>2, <2>1, MembershipAssumption DEF StoredGranted, Minted
  <1>3. StoredGranted'
    BY <1>2 DEF StoredGranted, league
  <1>4. MarksLate'
    <2>1. ASSUME NEW u \in Player, token[u].revoked # 0
          PROVE  Dead(token[u].secret) /\ token[u].secret \in Minted
      <3>1. token[u].secret \in Secret /\ token[u].secret \in Minted
        BY <1>2, <2>1 DEF StoredGranted
      <3>2. token[u].revoked \in Nat
        BY MembershipAssumption DEF TypeOK, Times
      <3>3. QED
        BY <1>0, <2>1, <3>1, <3>2, DeadFromTyped DEF MarksLate, Dead
    <2>2. ASSUME NEW u \in Player, token[u].revoked # 0
          PROVE  /\ DeadFrom(token[u].secret)' <= token[u].revoked
                 /\ token[u].revoked <= clock'
                 /\ TokenLapsed(u, token[u].secret) \in notices
      <3>1. token[u].revoked \in Nat
        BY MembershipAssumption DEF TypeOK, Times
      <3>2. QED
        BY <1>0, <1>1, <2>1, <2>2, <3>1 DEF MarksLate, league, DeadFrom
    <2>3. QED
      BY <2>2 DEF MarksLate, league, DeadFrom, TokenLapsed
  <1>5. NoticesTrue'
    <2>1. ASSUME NEW u \in Player, NEW s \in Secret, TokenLapsed(u, s) \in notices
          PROVE  Dead(s)' /\ grant'[s].owner = u
      <3>1. s \in Minted /\ Dead(s) /\ grant[s].owner = u
        BY <2>1, MembershipAssumption DEF NoticesTrue, Minted
      <3>2. QED BY <1>1, <3>1
    <2>2. QED BY <2>1 DEF NoticesTrue, league, TokenLapsed
  <1>6. DecisionsFinal'
    BY DEF DecisionsFinal, league
  <1>7. QED BY <1>1, <1>3, <1>4, <1>5, <1>6

-----------------------------------------------------------------------------
(* Signing in. *)

LEMMA AuthoriseKeeps ==
  ASSUME MInv, NEW b \in Browser, NEW u \in Player, NEW intent \in {"join", "login"},
         Authorise(b, u, intent)
  PROVE  MInv'
  <1> USE DEF MInv
  <1>1. PICK s \in Secret :
            /\ s \notin Minted
            /\ grant' = [grant EXCEPT ![s] =
                  [owner |-> u, expires |-> clock + TokenLife, revoked |-> 0]]
            /\ browser' = [browser EXCEPT ![b] =
                  [pc |-> "callback", who |-> u, intent |-> intent, secret |-> s,
                   seen |-> "none"]]
    BY DEF Authorise, IsNextSecret
  <1>2. UNCHANGED <<league, clock, check>>
    BY DEF Authorise
  <1>3. clock + TokenLife \in Times /\ 0 \in Times
    BY MembershipAssumption DEF TypeOK, Times
  <1>4. s \in 0..MaxTokens /\ u \in Player \cup {NoPlayer} /\ "none" \in Status
    BY MembershipAssumption DEF Secret, Status
  <1>5. TypeOK'
    BY <1>1, <1>2, <1>3, <1>4 DEF TypeOK, league
  <1>a. clock + TokenLife # 0
    BY MembershipAssumption DEF TypeOK
  <1>6. /\ grant'[s].owner = u /\ grant'[s].expires # 0
        /\ \A t \in Secret \ {s} : grant'[t] = grant[t]
        /\ browser'[b].secret = s /\ browser'[b].who = u /\ browser'[b].seen = "none"
        /\ \A d \in Browser \ {b} : browser'[d] = browser[d]
    BY <1>1, <1>a DEF TypeOK
  <1>7. /\ StoredGranted' /\ MarksLate' /\ NoticesTrue' /\ DecisionsFinal'
        /\ \A t \in Minted : Dead(t) => Dead(t)'
    BY <1>1, <1>2, <1>5, <1>6, LichessKeeps, MembershipAssumption DEF TypeOK, Minted
  <1>8. SignInsGranted'
    <2>1. ASSUME NEW d \in Browser \ {b}, browser[d].pc # "idle"
          PROVE  browser[d].secret # s
      BY <1>1, <2>1, MembershipAssumption DEF SignInsGranted, Minted
    <2>2. QED BY <1>2, <1>6, <2>1 DEF SignInsGranted, league
  <1>9. RowsGranted'
    <2>1. ASSUME NEW c \in Checker, NEW x \in check[c].listed \cup check[c].refused
          PROVE  /\ x[2] \in Minted /\ x[2] # s
                 /\ grant'[x[2]].owner = x[1]
                 /\ x \in check[c].refused => Dead(x[2])'
      <3>1. x \in Player \X Secret
        BY DEF TypeOK
      <3>2. x[2] \in Minted
        BY <3>1, MembershipAssumption DEF RowsGranted, Minted
      <3>3. QED BY <1>1, <1>6, <1>7, <3>2 DEF RowsGranted, Minted
    <2>2. QED BY <1>2, <2>1 DEF RowsGranted
  <1>10. QED BY <1>5, <1>7, <1>8, <1>9

(* A token dies on Lichess: its player withdraws it, or a refused sign-in   *)
(* gives it back.                                                           *)
LEMMA WithdrawalKeeps ==
  ASSUME MInv, TypeOK', NEW s \in Minted, ~Dead(s),
         grant' = [grant EXCEPT ![s].revoked = clock],
         UNCHANGED <<league, clock, check>>,
         \A b \in Browser : browser'[b].pc # "idle" => browser'[b] = browser[b]
  PROVE  MInv'
  <1> USE DEF MInv
  <1>1. /\ \A t \in Secret \ {s} : grant'[t] = grant[t]
        /\ grant'[s].owner = grant[s].owner /\ grant'[s].expires = grant[s].expires
    BY DEF TypeOK, Minted
  <1>2. /\ StoredGranted' /\ MarksLate' /\ NoticesTrue' /\ DecisionsFinal'
        /\ \A t \in Minted : Dead(t) => Dead(t)'
    BY <1>1, LichessKeeps, MembershipAssumption DEF TypeOK, Minted
  <1>3. SignInsGranted'
    BY <1>1 DEF SignInsGranted, league
  <1>4. RowsGranted'
    <2>1. ASSUME NEW c \in Checker, NEW x \in check[c].listed \cup check[c].refused
          PROVE  /\ grant'[x[2]].owner = x[1]
                 /\ x \in check[c].refused => Dead(x[2])'
      <3>1. x \in Player \X Secret
        BY DEF TypeOK
      <3>2. x[2] \in Minted
        BY <3>1, MembershipAssumption DEF RowsGranted, Minted
      <3>3. QED BY <1>1, <1>2, <3>2 DEF RowsGranted, Minted
    <2>2. QED BY <2>1 DEF RowsGranted
  <1>5. QED BY <1>2, <1>3, <1>4

LEMMA QuietKeeps ==
  ASSUME MInv, TypeOK', UNCHANGED <<league, grant>>, clock' >= clock,
         SignInsGranted', RowsGranted'
  PROVE  MInv'
  BY LichessKeeps DEF MInv

LEMMA SignInKeeps ==
  ASSUME MInv, NEW b \in Browser,
         SignInRead(b) \/ SignInFails(b) \/ GiveBack(b)
  PROVE  MInv'
  <1> USE DEF MInv
  <1>1. clock \in Nat /\ clock \in Times
    BY MembershipAssumption DEF TypeOK, Times
  <1>2. CASE SignInRead(b)
    <2> DEFINE pc == IF Refused(b) THEN "refused" ELSE "write"
    <2>0. pc \in {"refused", "write"} /\ browser[b].who \in Player
      BY <1>2 DEF SignInsGranted, SignInRead
    <2>1. /\ browser' = [browser EXCEPT ![b] =
                [browser[b] EXCEPT !.seen = status[browser[b].who], !.intent = "login",
                                   !.pc = pc]]
          /\ browser[b].pc = "callback"
          /\ UNCHANGED <<league, clock, check, grant>>
      BY <1>2 DEF SignInRead, TypeOK
    <2>2. /\ browser'[b].who = browser[b].who
          /\ browser'[b].secret = browser[b].secret
          /\ browser'[b].seen = status[browser[b].who]
          /\ \A d \in Browser \ {b} : browser'[d] = browser[d]
      <3> HIDE DEF pc
      <3>1. /\ browser'[b] = [browser[b] EXCEPT !.seen = status[browser[b].who],
                                               !.intent = "login", !.pc = pc]
            /\ \A d \in Browser \ {b} : browser'[d] = browser[d]
        BY <2>1 DEF TypeOK
      <3>2. browser[b] \in [pc : {"idle", "callback", "refused", "write"},
                            who : Player \cup {NoPlayer}, intent : {"join", "login"},
                            secret : 0..MaxTokens, seen : Status]
        BY DEF TypeOK
      <3>3. QED BY <3>1, <3>2
    <2>3. TypeOK'
      <3> DEFINE now == [browser[b] EXCEPT !.seen = status[browser[b].who],
                                           !.intent = "login", !.pc = pc]
      <3> HIDE DEF pc
      <3>1. now \in [pc : {"idle", "callback", "refused", "write"},
                     who : Player \cup {NoPlayer}, intent : {"join", "login"},
                     secret : 0..MaxTokens, seen : Status]
        <4>1. browser[b] \in [pc : {"idle", "callback", "refused", "write"},
                              who : Player \cup {NoPlayer}, intent : {"join", "login"},
                              secret : 0..MaxTokens, seen : Status]
          BY DEF TypeOK
        <4>2. status[browser[b].who] \in Status
          BY <2>0 DEF TypeOK
        <4>3. QED BY <2>0, <4>1, <4>2
      <3>2. browser' = [browser EXCEPT ![b] = now]
        BY <2>1
      <3> HIDE DEF now
      <3>3. QED BY <2>1, <3>1, <3>2 DEF TypeOK, league
    <2>4. SignInsGranted' /\ RowsGranted'
      BY <2>1, <2>2 DEF SignInsGranted, RowsGranted, league, Dead, DeadFrom
    <2>5. QED BY <1>1, <2>1, <2>3, <2>4, QuietKeeps
  <1>3. ASSUME UNCHANGED <<league, clock, check>>,
               browser' = [browser EXCEPT ![b] = NoSignIn],
               grant' \in [Secret -> [owner : Player \cup {NoPlayer},
                                      expires : Times, revoked : Times]]
        PROVE  /\ TypeOK'
               /\ \A d \in Browser : browser'[d].pc # "idle" => browser'[d] = browser[d]
    <2>1. /\ NoSignIn.pc = "idle"
          /\ NoSignIn \in [pc : {"idle", "callback", "refused", "write"},
                           who : Player \cup {NoPlayer}, intent : {"join", "login"},
                           secret : 0..MaxTokens, seen : Status]
      BY MembershipAssumption DEF NoSignIn, Status
    <2>2. QED BY <1>3, <2>1 DEF TypeOK, league
  <1>4. CASE SignInFails(b)
    <2>1. /\ TypeOK' /\ UNCHANGED <<league, clock, check, grant>>
          /\ \A d \in Browser : browser'[d].pc # "idle" => browser'[d] = browser[d]
      BY <1>3, <1>4 DEF SignInFails, TypeOK
    <2>2. SignInsGranted' /\ RowsGranted'
      BY <2>1 DEF SignInsGranted, RowsGranted, league, Dead, DeadFrom
    <2>3. QED BY <1>1, <2>1, <2>2, QuietKeeps
  <1>5. CASE GiveBack(b)
    <2> DEFINE s == browser[b].secret
    <2>0. s \in Minted /\ UNCHANGED <<league, clock, check>>
      BY <1>5, MembershipAssumption DEF SignInsGranted, GiveBack, Minted
    <2>1. CASE UNCHANGED grant
      <3>1. /\ TypeOK'
            /\ \A d \in Browser : browser'[d].pc # "idle" => browser'[d] = browser[d]
        BY <1>3, <1>5, <2>1 DEF GiveBack, TypeOK
      <3>2. SignInsGranted' /\ RowsGranted'
        BY <2>0, <2>1, <3>1 DEF SignInsGranted, RowsGranted, league, Dead, DeadFrom
      <3>3. QED BY <1>1, <2>0, <2>1, <3>1, <3>2, QuietKeeps
    <2>2. CASE ~Dead(s) /\ grant' = [grant EXCEPT ![s].revoked = clock]
      <3>1. grant' \in [Secret -> [owner : Player \cup {NoPlayer},
                                   expires : Times, revoked : Times]]
        BY <1>1, <2>0, <2>2 DEF TypeOK, Minted
      <3>2. /\ TypeOK'
            /\ \A d \in Browser : browser'[d].pc # "idle" => browser'[d] = browser[d]
        BY <1>3, <1>5, <3>1 DEF GiveBack
      <3>3. QED BY <2>0, <2>2, <3>2, WithdrawalKeeps
    <2>3. QED BY <1>5, <2>1, <2>2 DEF GiveBack
  <1>6. QED BY <1>2, <1>4, <1>5

LEMMA SignInWriteKeeps ==
  ASSUME MInv, NEW b \in Browser, SignInWrite(b)
  PROVE  MInv' /\ DecisionStep
  <1> USE DEF MInv
  <1> DEFINE u == browser[b].who
             s == browser[b].secret
             new == CASE Listed(u) /\ browser[b].seen # "approved" -> "approved"
                      [] browser[b].seen = "none" -> "pending"
                      [] OTHER -> status[u]
  <1>1. /\ status' = [status EXCEPT ![u] = new]
        /\ admins' = IF Listed(u) THEN admins \cup {u} ELSE admins
        /\ token' = [token EXCEPT ![u] = Upsert(token[u], s)]
        /\ browser' = [browser EXCEPT ![b] = NoSignIn]
        /\ UNCHANGED <<clock, notices, check, grant>>
        /\ browser[b].pc = "write" /\ ~SignInBlocked(b)
    BY DEF SignInWrite
  <1>2. /\ u \in Player /\ s \in Secret /\ s # 0 /\ grant[s].owner = u
        /\ browser[b].seen # "none" => status[u] # "none"
    BY <1>1, MembershipAssumption DEF SignInsGranted, Secret
  <1>a. grant[s].expires # 0
    BY <1>1 DEF SignInsGranted
  <1>3. new \in Status /\ new # "none" /\ (status[u] # "none" => new # "none")
    BY <1>2 DEF TypeOK, Status
  <1>4. Upsert(token[u], s) \in [secret : 0..MaxTokens, revoked : Times, expires : Times]
    BY <1>2, MembershipAssumption DEF Upsert, Secret, TypeOK, Times
  <1>5. /\ NoSignIn.pc = "idle"
        /\ NoSignIn \in [pc : {"idle", "callback", "refused", "write"},
                         who : Player \cup {NoPlayer}, intent : {"join", "login"},
                         secret : 0..MaxTokens, seen : Status]
    BY MembershipAssumption DEF NoSignIn, Status
  <1>6. /\ status'[u] = new /\ \A v \in Player \ {u} : status'[v] = status[v]
        /\ token'[u] = Upsert(token[u], s) /\ \A v \in Player \ {u} : token'[v] = token[v]
        /\ \A d \in Browser \ {b} : browser'[d] = browser[d]
        /\ browser'[b].pc = "idle"
    BY <1>1, <1>2, <1>5 DEF TypeOK
  <1> HIDE DEF new
  <1>7. TypeOK'
    <2>1. admins' \subseteq Admins /\ \A v \in Player \ {u} : v \in admins' => v \in admins
      BY <1>1 DEF Listed, TypeOK
    <2>2. \A v \in Player : status'[v] = "none" => token'[v] = NoToken /\ v \notin admins'
      BY <1>3, <1>6, <2>1 DEF TypeOK
    <2>3. status' \in [Player -> Status]
      BY <1>1, <1>3 DEF TypeOK
    <2>4. token' \in [Player -> [secret : 0..MaxTokens, revoked : Times, expires : Times]]
      BY <1>1, <1>4 DEF TypeOK
    <2>5. browser' \in [Browser -> [pc : {"idle", "callback", "refused", "write"},
                                    who : Player \cup {NoPlayer}, intent : {"join", "login"},
                                    secret : 0..MaxTokens, seen : Status]]
      BY <1>1, <1>5 DEF TypeOK
    <2>6. QED BY <1>1, <2>1, <2>2, <2>3, <2>4, <2>5 DEF TypeOK
  <1>8. StoredGranted'
    BY <1>1, <1>2, <1>a, <1>6 DEF StoredGranted, Upsert
  <1>9. SignInsGranted'
    BY <1>1, <1>3, <1>6 DEF SignInsGranted
  <1>10. RowsGranted' /\ NoticesTrue'
    BY <1>1 DEF RowsGranted, NoticesTrue, Dead, DeadFrom, TokenLapsed
  <1>11. MarksLate'
    BY <1>1, <1>6 DEF MarksLate, Upsert, DeadFrom, TokenLapsed
  <1>12. u \in Player \ Admins =>
            new = status[u] \/ (new = "pending" /\ status[u] = "none")
    <2>1. browser[b].seen = "none" => status[u] = "none"
      BY <1>1 DEF SignInBlocked
    <2>2. u \in Player \ Admins => ~Listed(u)
      BY DEF Listed
    <2>3. QED BY <2>1, <2>2 DEF new
  <1>13. DecisionsFinal'
    BY <1>1, <1>6, <1>12 DEF DecisionsFinal
  <1>14. DecisionStep
    BY <1>6, <1>12 DEF DecisionStep
  <1>15. QED BY <1>7, <1>8, <1>9, <1>10, <1>11, <1>13, <1>14

-----------------------------------------------------------------------------
(* The registration queue: no decision is told twice. *)

LEMMA QueueKeeps ==
  ASSUME MInv, TypeOK', NEW us \in SUBSET Player, NEW decision \in {"approved", "rejected"},
         \A u \in us : status[u] \in IF decision = "approved" THEN {"pending", "rejected"}
                                                             ELSE {"pending"},
         \A u \in Player : status'[u] = IF u \in us THEN decision ELSE status[u],
         notices' = notices \cup {<<u, decision>> : u \in us},
         UNCHANGED <<clock, admins, token, browser, check, grant>>
  PROVE  MInv' /\ DecisionStep
  <1> USE DEF MInv
  <1>1. StoredGranted' /\ RowsGranted'
    BY DEF StoredGranted, RowsGranted, Dead, DeadFrom
  <1>2. SignInsGranted'
    BY DEF SignInsGranted
  <1>3. MarksLate'
    BY DEF MarksLate, DeadFrom, TokenLapsed
  <1>4. NoticesTrue'
    <2>1. ASSUME NEW u \in Player, NEW s \in Secret, TokenLapsed(u, s) \in notices'
          PROVE  TokenLapsed(u, s) \in notices
      BY <2>1, KindsDiffer
    <2>2. QED BY <2>1 DEF NoticesTrue, TokenLapsed, Dead, DeadFrom
  <1>5. ASSUME NEW u \in Player, NEW told \in {"approved", "rejected"},
               <<u, told>> \in notices'
        PROVE  <<u, told>> \in notices \/ (u \in us /\ told = decision)
    BY <1>5
  <1>6. DecisionsFinal'
    BY <1>5 DEF DecisionsFinal
  <1>7. DecisionStep
    BY DEF DecisionStep, DecisionsFinal
  <1>8. QED BY <1>1, <1>2, <1>3, <1>4, <1>6, <1>7

LEMMA DecideKeeps ==
  ASSUME MInv, (\E us \in SUBSET Player \ {{}} : Approve(us)) \/ \E u \in Player : Reject(u)
  PROVE  MInv' /\ DecisionStep
  <1> USE DEF MInv
  <1>1. ASSUME NEW us \in SUBSET Player, Approve(us) PROVE MInv' /\ DecisionStep
    <2>1. TypeOK'
      BY <1>1 DEF Approve, TypeOK, Status
    <2>2. \A u \in Player : status'[u] = IF u \in us THEN "approved" ELSE status[u]
      BY <1>1 DEF Approve
    <2>3. QED BY <1>1, <2>1, <2>2, QueueKeeps DEF Approve
  <1>2. ASSUME NEW u \in Player, Reject(u) PROVE MInv' /\ DecisionStep
    <2>1. TypeOK'
      BY <1>2 DEF Reject, TypeOK, Status
    <2>2. /\ \A v \in Player : status'[v] = IF v \in {u} THEN "rejected" ELSE status[v]
          /\ \A v \in {u} : status[v] \in {"pending"}
          /\ notices' = notices \cup {<<v, "rejected">> : v \in {u}}
          /\ UNCHANGED <<clock, admins, token, browser, check, grant>>
      BY <1>2 DEF Reject, Rejectable, TypeOK
    <2>3. {u} \in SUBSET Player
      OBVIOUS
    <2>4. QED BY <2>1, <2>2, <2>3, QueueKeeps
  <1>3. QED BY <1>1, <1>2

LEMMA BanKeeps ==
  ASSUME MInv, NEW u \in Player, Ban(u)
  PROVE  MInv' /\ DecisionStep
  <1> USE DEF MInv
  <1>1. /\ status[u] = "approved" /\ status'[u] = "banned"
        /\ \A v \in Player \ {u} : status'[v] = status[v]
        /\ UNCHANGED <<clock, admins, token, notices, browser, check, grant>>
    BY DEF Ban, TypeOK
  <1>2. TypeOK'
    BY <1>1 DEF Ban, TypeOK, Status
  <1>3. /\ StoredGranted' /\ RowsGranted' /\ SignInsGranted'
        /\ MarksLate' /\ NoticesTrue'
    BY <1>1 DEF StoredGranted, RowsGranted, SignInsGranted, MarksLate, NoticesTrue,
                Dead, DeadFrom, TokenLapsed
  <1>4. DecisionsFinal' /\ DecisionStep
    BY <1>1 DEF DecisionsFinal, DecisionStep
  <1>5. QED BY <1>2, <1>3, <1>4

-----------------------------------------------------------------------------
(* The runs that test tokens. *)

LEMMA CheckKeeps ==
  ASSUME MInv, NEW c \in Checker,
         \/ ListTokens(c) \/ ProbeTokens(c) \/ CheckStops(c)
         \/ \E answered \in SUBSET check[c].listed : AskLichess(c, answered)
  PROVE  MInv'
  <1> USE DEF MInv
  <1>1. clock \in Nat
    BY MembershipAssumption DEF TypeOK
  <1>2. ASSUME NEW us \in SUBSET Player, \A u \in us : token[u].secret # 0
        PROVE  \A x \in Rows(us) : x \in Player \X Secret /\ grant[x[2]].owner = x[1]
    <2>1. ASSUME NEW u \in us PROVE token[u].secret \in Secret
      <3>1. u \in Player /\ token[u].secret \in 0..MaxTokens
        BY DEF TypeOK
      <3>2. QED BY <1>2, <3>1, MembershipAssumption DEF Secret
    <2>2. QED BY <1>2, <2>1 DEF Rows, StoredGranted
  <1>3. ASSUME NEW next \in [pc : {"idle", "ask", "mark"}, listed : SUBSET (Player \X Secret),
                             refused : SUBSET (Player \X Secret)],
               check' = [check EXCEPT ![c] = next],
               \A x \in next.listed \cup next.refused : grant[x[2]].owner = x[1],
               \A x \in next.refused : Dead(x[2]),
               UNCHANGED <<league, clock, browser, grant>>
        PROVE  MInv'
    <2>1. TypeOK'
      BY <1>3 DEF TypeOK, league
    <2>2. SignInsGranted' /\ RowsGranted'
      BY <1>3 DEF SignInsGranted, RowsGranted, league, Dead, DeadFrom, TypeOK
    <2>3. QED BY <1>1, <1>3, <2>1, <2>2, QuietKeeps
  <1>4. NoCheck \in [pc : {"idle", "ask", "mark"}, listed : SUBSET (Player \X Secret),
                     refused : SUBSET (Player \X Secret)]
    BY DEF NoCheck
  <1>5. ASSUME NEW us \in SUBSET Player, \A u \in us : token[u].secret # 0,
               check' = [check EXCEPT ![c] =
                            [pc |-> "ask", listed |-> Rows(us), refused |-> {}]],
               UNCHANGED <<league, clock, browser, grant>>
        PROVE  MInv'
    <2> DEFINE next == [pc |-> "ask", listed |-> Rows(us), refused |-> {}]
    <2>2. Rows(us) \in SUBSET (Player \X Secret)
      BY <1>2, <1>5
    <2>3. next \in [pc : {"idle", "ask", "mark"}, listed : SUBSET (Player \X Secret),
                    refused : SUBSET (Player \X Secret)]
      BY <2>2
    <2>4. \A x \in next.listed \cup next.refused : grant[x[2]].owner = x[1]
      BY <1>2, <1>5
    <2>5. \A x \in next.refused : Dead(x[2])
      OBVIOUS
    <2>6. check' = [check EXCEPT ![c] = next]
      BY <1>5
    <2> HIDE DEF next
    <2>7. QED BY <1>3, <1>5, <2>3, <2>4, <2>5, <2>6
  <1>6. CASE ListTokens(c)
    <2> DEFINE us == {u \in Player : ToValidate(u)}
    <2>1. us \in SUBSET Player /\ \A u \in us : token[u].secret # 0
      BY DEF ToValidate
    <2>2. /\ check' = [check EXCEPT ![c] =
                          [pc |-> "ask", listed |-> Rows(us), refused |-> {}]]
          /\ UNCHANGED <<league, clock, browser, grant>>
      BY <1>6 DEF ListTokens
    <2> HIDE DEF us
    <2>3. QED BY <1>5, <2>1, <2>2
  <1>7. CASE ProbeTokens(c)
    BY <1>5, <1>7 DEF ProbeTokens, Valid
  <1>8. CASE CheckStops(c)
    BY <1>3, <1>4, <1>8 DEF CheckStops, NoCheck
  <1>9. ASSUME NEW answered \in SUBSET check[c].listed, AskLichess(c, answered)
        PROVE  MInv'
    <2> DEFINE refused == RefusedTokens(c, answered)
               next == IF refused = {} THEN NoCheck
                       ELSE [pc |-> "mark", listed |-> {}, refused |-> refused]
    <2>1. refused \subseteq answered /\ \A x \in refused : Dead(x[2])
      BY DEF RefusedTokens
    <2>2. refused \in SUBSET (Player \X Secret)
      BY <2>1 DEF TypeOK
    <2>3. \A x \in refused : grant[x[2]].owner = x[1]
      BY <2>1 DEF RowsGranted
    <2>4. check' = [check EXCEPT ![c] = next]
      BY <1>9 DEF AskLichess
    <2> HIDE DEF refused
    <2>5. CASE refused = {}
      BY <1>3, <1>4, <1>9, <2>4, <2>5 DEF AskLichess, NoCheck
    <2>6. CASE refused # {}
      <3>1. next = [pc |-> "mark", listed |-> {}, refused |-> refused]
        BY <2>6
      <3>2. /\ next \in [pc : {"idle", "ask", "mark"}, listed : SUBSET (Player \X Secret),
                         refused : SUBSET (Player \X Secret)]
            /\ \A x \in next.listed \cup next.refused : grant[x[2]].owner = x[1]
            /\ \A x \in next.refused : Dead(x[2])
        BY <2>1, <2>2, <2>3, <3>1
      <3>3. UNCHANGED <<league, clock, browser, grant>>
        BY <1>9 DEF AskLichess
      <3> HIDE DEF next
      <3>4. QED BY <1>3, <2>4, <3>2, <3>3
    <2>7. QED BY <2>5, <2>6
  <1>10. QED BY <1>6, <1>7, <1>8, <1>9

LEMMA MarkKeeps ==
  ASSUME MInv, NEW c \in Checker, NEW u \in Player, NEW s \in Secret, RevokeToken(c, u, s)
  PROVE  MInv'
  <1> USE DEF MInv
  <1> DEFINE left == check[c].refused \ {<<u, s>>}
             next == IF left = {} THEN NoCheck
                     ELSE [pc |-> "mark", listed |-> {}, refused |-> left]
  <1>1. clock \in Nat /\ clock # 0 /\ clock \in Times
    BY MembershipAssumption DEF TypeOK, Times
  <1>a. Dead(s) /\ grant[s].owner = u
    <2>1. <<u, s>> \in check[c].refused
      BY DEF RevokeToken
    <2>2. Dead(<<u, s>>[2]) /\ grant[<<u, s>>[2]].owner = <<u, s>>[1]
      BY <2>1 DEF RowsGranted
    <2>3. QED BY <2>2
  <1>2. /\ Dead(s) /\ grant[s].owner = u
        /\ check' = [check EXCEPT ![c] = next]
        /\ UNCHANGED <<clock, status, admins, browser, grant>>
    <2>1. check' = [check EXCEPT ![c] = next]
      BY DEF RevokeToken
    <2>2. UNCHANGED <<clock, status, admins, browser, grant>>
      BY DEF RevokeToken
    <2>3. QED BY <1>a, <2>1, <2>2
  <1>3. /\ next \in [pc : {"idle", "ask", "mark"}, listed : SUBSET (Player \X Secret),
                     refused : SUBSET (Player \X Secret)]
        /\ next.listed \subseteq check[c].listed /\ next.refused \subseteq check[c].refused
    <2>1. left \in SUBSET (Player \X Secret) /\ left \subseteq check[c].refused
      BY DEF TypeOK
    <2> HIDE DEF left
    <2>2. QED BY <2>1 DEF NoCheck
  <1> HIDE DEF next
  <1>4. /\ check' \in [Checker -> [pc : {"idle", "ask", "mark"},
                                   listed : SUBSET (Player \X Secret),
                                   refused : SUBSET (Player \X Secret)]]
        /\ RowsGranted'
    BY <1>2, <1>3 DEF TypeOK, RowsGranted, Dead, DeadFrom
  <1>5. SignInsGranted'
    BY <1>2 DEF SignInsGranted
  <1>6. CASE UNCHANGED <<token, notices>>
    <2>1. TypeOK'
      BY <1>2, <1>4, <1>6 DEF TypeOK
    <2>2. QED BY <1>1, <1>2, <1>4, <1>5, <1>6, <2>1, QuietKeeps DEF league
  <1>7. CASE /\ Markable(u, s)
             /\ token' = [token EXCEPT ![u].revoked = clock]
             /\ notices' = notices \cup {TokenLapsed(u, s)}
    <2>1. /\ token[u].secret = s
          /\ token'[u].secret = s /\ token'[u].revoked = clock
          /\ token'[u].expires = token[u].expires
          /\ \A v \in Player \ {u} : token'[v] = token[v]
          /\ token' \in [Player -> [secret : 0..MaxTokens, revoked : Times, expires : Times]]
      BY <1>1, <1>7 DEF Markable, TypeOK
    <2>2. s # 0 /\ DeadFrom(s) <= clock
      BY <1>2, MembershipAssumption DEF Secret, Dead
    <2>3. TypeOK'
      <3>1. \A v \in Player : status'[v] = "none" => token'[v] = NoToken /\ v \notin admins'
        BY <1>2, <2>1, <2>2 DEF TypeOK, NoToken
      <3>2. notices' \subseteq (Player \X {"approved", "rejected"})
                                \cup (Player \X {"lapsed"} \X Secret)
        BY <1>7 DEF TypeOK, TokenLapsed
      <3>3. QED BY <1>2, <1>4, <2>1, <3>1, <3>2 DEF TypeOK
    <2>4. StoredGranted'
      BY <1>2, <2>1, <2>2 DEF StoredGranted
    <2>5. MarksLate'
      BY <1>1, <1>2, <1>7, <2>1, <2>2 DEF MarksLate, DeadFrom, TokenLapsed
    <2>6. NoticesTrue'
      <3>1. ASSUME NEW v \in Player, NEW t \in Secret, TokenLapsed(v, t) \in notices',
                   TokenLapsed(v, t) \notin notices
            PROVE  v = u /\ t = s
        BY <1>7, <3>1 DEF TokenLapsed
      <3>2. QED BY <1>2, <3>1 DEF NoticesTrue, TokenLapsed, Dead, DeadFrom
    <2>7. DecisionsFinal'
      <3>1. \A v \in Player, told \in {"approved", "rejected"} :
               <<v, told>> \in notices' => <<v, told>> \in notices
        BY <1>7, KindsDiffer
      <3>2. QED BY <1>2, <3>1 DEF DecisionsFinal
    <2>8. QED BY <1>4, <1>5, <2>3, <2>4, <2>5, <2>6, <2>7
  <1>8. QED BY <1>6, <1>7 DEF RevokeToken

-----------------------------------------------------------------------------
LEMMA TickKeeps ==
  ASSUME MInv, Tick
  PROVE  MInv'
  <1> USE DEF MInv
  <1>1. /\ clock \in Nat /\ clock' = clock + 1
        /\ UNCHANGED <<league, browser, check, grant>>
    BY MembershipAssumption DEF Tick, TypeOK
  <1>2. TypeOK'
    BY <1>1, MembershipAssumption DEF Tick, TypeOK, league
  <1>3. SignInsGranted'
    BY <1>1 DEF SignInsGranted, league
  <1>4. \A s \in Minted : Dead(s) => Dead(s)'
    BY <1>1, <1>2, LichessKeeps
  <1>5. RowsGranted'
    <2>1. ASSUME NEW c \in Checker, NEW x \in check[c].refused
          PROVE  Dead(x[2])'
      <3>1. x \in Player \X Secret /\ Dead(x[2]) /\ grant[x[2]].owner = x[1]
        BY DEF TypeOK, RowsGranted
      <3>2. x[2] \in Minted
        BY <3>1, MembershipAssumption DEF Minted
      <3>3. QED BY <1>4, <3>1, <3>2
    <2>2. QED BY <1>1, <2>1 DEF RowsGranted
  <1>6. QED BY <1>1, <1>2, <1>3, <1>5, QuietKeeps

LEMMA WithdrawGrantKeeps ==
  ASSUME MInv, NEW s \in Secret, WithdrawGrant(s)
  PROVE  MInv'
  <1> USE DEF MInv
  <1>1. /\ s \in Minted /\ ~Dead(s)
        /\ grant' = [grant EXCEPT ![s].revoked = clock]
        /\ UNCHANGED <<league, clock, browser, check>>
    BY DEF WithdrawGrant, Minted
  <1>2. clock \in Times
    BY MembershipAssumption DEF TypeOK, Times
  <1>3. TypeOK'
    BY <1>1, <1>2 DEF TypeOK, league
  <1>4. QED BY <1>1, <1>3, WithdrawalKeeps

LEMMA NextKeeps == MInv /\ [Next]_vars => MInv' /\ [DecisionStep]_vars
  <1> SUFFICES ASSUME MInv, [Next]_vars PROVE MInv' /\ (DecisionStep \/ UNCHANGED vars)
    OBVIOUS
  <1>1. ASSUME UNCHANGED status PROVE DecisionStep
    BY <1>1 DEF DecisionStep
  <1>2. ASSUME NEW b \in Browser, SignInStep(b) PROVE MInv' /\ DecisionStep
    <2>1. ASSUME NEW u \in Player, NEW intent \in {"join", "login"}, Authorise(b, u, intent)
          PROVE  MInv' /\ DecisionStep
      BY <1>1, <2>1, AuthoriseKeeps DEF Authorise, league
    <2>2. CASE SignInRead(b) \/ SignInFails(b) \/ GiveBack(b)
      BY <1>1, <2>2, SignInKeeps DEF SignInRead, SignInFails, GiveBack, league
    <2>3. CASE SignInWrite(b)
      BY <2>3, SignInWriteKeeps
    <2>4. QED BY <1>2, <2>1, <2>2, <2>3 DEF SignInStep
  <1>3. CASE (\E us \in SUBSET Player \ {{}} : Approve(us)) \/ \E u \in Player : Reject(u)
    BY <1>3, DecideKeeps
  <1>4. ASSUME NEW u \in Player, Ban(u) PROVE MInv' /\ DecisionStep
    BY <1>4, BanKeeps
  <1>5. ASSUME NEW s \in Secret, WithdrawGrant(s) PROVE MInv' /\ DecisionStep
    BY <1>1, <1>5, WithdrawGrantKeeps DEF WithdrawGrant, league
  <1>6. ASSUME NEW c \in Checker, CheckStep(c) PROVE MInv' /\ DecisionStep
    <2>1. CASE MarkStep(c)
      BY <1>1, <2>1, MarkKeeps DEF MarkStep, RevokeToken
    <2>2. CASE \/ ListTokens(c) \/ ProbeTokens(c) \/ CheckStops(c)
               \/ \E answered \in SUBSET check[c].listed : AskLichess(c, answered)
      BY <1>1, <2>2, CheckKeeps DEF ListTokens, ProbeTokens, CheckStops, AskLichess, league
    <2>3. QED BY <1>6, <2>1, <2>2 DEF CheckStep
  <1>7. CASE Tick
    BY <1>1, <1>7, TickKeeps DEF Tick, league
  <1>8. CASE UNCHANGED vars
    <2>1. /\ UNCHANGED <<clock, league, browser, check, grant>>
          /\ UNCHANGED <<status, admins, token, notices>>
      BY <1>8 DEF vars, league
    <2>2. TypeOK'
      BY <2>1 DEF MInv, TypeOK
    <2>3. SignInsGranted' /\ RowsGranted'
      BY <2>1 DEF MInv, SignInsGranted, RowsGranted, Dead, DeadFrom
    <2>4. clock \in Nat
      BY MembershipAssumption DEF MInv, TypeOK
    <2>5. QED BY <1>8, <2>1, <2>2, <2>3, <2>4, QuietKeeps
  <1>9. QED
    BY <1>2, <1>3, <1>4, <1>5, <1>6, <1>7, <1>8 DEF Next

LEMMA InitHolds == Init => MInv
  <1> SUFFICES ASSUME Init PROVE MInv
    OBVIOUS
  <1>1. TypeOK
    <2>1. /\ NoToken \in [secret : 0..MaxTokens, revoked : Times, expires : Times]
          /\ NoSignIn \in [pc : {"idle", "callback", "refused", "write"},
                           who : Player \cup {NoPlayer}, intent : {"join", "login"},
                           secret : 0..MaxTokens, seen : Status]
          /\ NoCheck \in [pc : {"idle", "ask", "mark"}, listed : SUBSET (Player \X Secret),
                          refused : SUBSET (Player \X Secret)]
          /\ NotGranted \in [owner : Player \cup {NoPlayer}, expires : Times, revoked : Times]
      BY MembershipAssumption DEF NoToken, NoSignIn, NoCheck, NotGranted, Times, Status
    <2>2. QED BY <2>1, MembershipAssumption DEF Init, TypeOK, Status
  <1>2. StoredGranted /\ SignInsGranted /\ RowsGranted
    BY DEF Init, StoredGranted, SignInsGranted, RowsGranted, NoToken, NoSignIn, NoCheck
  <1>3. MarksLate /\ NoticesTrue /\ DecisionsFinal
    BY DEF Init, MarksLate, NoticesTrue, DecisionsFinal, NoToken
  <1>4. QED BY <1>1, <1>2, <1>3 DEF MInv

-----------------------------------------------------------------------------
(* Who holds which token, and what has been told of it, is never confused,   *)
(* for any number of browsers, runs and authorisations.                      *)
THEOREM Inductive == Spec => []MInv
  BY InitHolds, NextKeeps, PTL DEF Spec

(* The tables keep their shape, and only a user with a row has a token or a  *)
(* role.                                                                     *)
THEOREM TypeCorrect == Spec => []TypeOK
  BY Inductive, PTL DEF MInv

LEMMA MarkedDead == MInv => RevokedIsDead
  <1> SUFFICES ASSUME MInv, NEW u \in Player, token[u].revoked # 0
               PROVE  Dead(token[u].secret)
    BY DEF RevokedIsDead
  <1>1. /\ token[u].revoked \in Nat /\ clock \in Nat
        /\ token[u].secret \in Secret
    BY MembershipAssumption DEF MInv, TypeOK, StoredGranted, Times, Secret
  <1>2. DeadFrom(token[u].secret) \in Nat
    BY <1>1, DeadFromTyped DEF MInv
  <1>3. QED BY <1>1, <1>2 DEF MInv, MarksLate, Dead

(* A token is marked revoked only once Lichess no longer accepts it, whatever *)
(* sign-ins replaced while a run was testing.                                 *)
THEOREM NoLiveTokenRevoked == Spec => []RevokedIsDead
  BY Inductive, MarkedDead, PTL

(* Whichever run finds a token dead, its player is told of that token, and    *)
(* nobody is told of a token that works or is another's.                      *)
THEOREM LapsesTold == Spec => []LapsesAreTold
  <1>1. MInv => LapsesAreTold
    BY DEF MInv, LapsesAreTold, MarksLate, NoticesTrue, TokenLapsed, TypeOK
  <1>2. QED BY <1>1, Inductive, PTL

LEMMA GraceInFull == MInv => GraceHolds
  <1> SUFFICES ASSUME MInv, NEW u \in Player, token[u].secret # 0
               PROVE  /\ Excluded(token[u], clock) => DeadFrom(token[u].secret) + Grace < clock
                      /\ grant[token[u].secret].expires + Grace < clock
                            => Excluded(token[u], clock)
    BY DEF GraceHolds
  <1> DEFINE t == token[u]
             s == token[u].secret
  <1>1. /\ t.revoked \in Nat /\ t.expires \in Nat /\ clock \in Nat /\ s \in Secret
        /\ clock # 0 /\ grant[s].expires = t.expires
    BY MembershipAssumption DEF MInv, TypeOK, StoredGranted, Times, Secret
  <1>2. DeadFrom(s) \in Nat /\ DeadFrom(s) <= t.expires
    <2>1. grant[s].revoked \in Nat
      BY <1>1, MembershipAssumption DEF MInv, TypeOK, Times
    <2>2. QED BY <1>1, <2>1 DEF DeadFrom, Min2
  <1>3. t.revoked # 0 => DeadFrom(s) <= t.revoked
    BY DEF MInv, MarksLate
  <1> HIDE DEF t, s
  <1>0. t.expires # 0
    BY DEF MInv, StoredGranted, t
  <1>4. Grace \in Nat
    BY MembershipAssumption
  <1>5. InvalidSince(t, clock) # 0 => DeadFrom(s) <= InvalidSince(t, clock)
    BY <1>1, <1>2, <1>3 DEF InvalidSince, Min2
  <1>6. t.expires + Grace < clock => InvalidSince(t, clock) <= t.expires
    BY <1>1, <1>4 DEF InvalidSince, Min2
  <1>7. InvalidSince(t, clock) \in Nat
    BY <1>1 DEF InvalidSince, Min2
  <1>8. t.expires + Grace < clock => InvalidSince(t, clock) # 0
    BY <1>1, <1>4, <1>0 DEF InvalidSince, Min2
  <1>9. QED
    BY <1>1, <1>2, <1>4, <1>5, <1>6, <1>7, <1>8 DEF Excluded, Valid, t, s

(* A player is left out of pairing no sooner than the grace after their token *)
(* died on Lichess, and no later than the grace after it expired.             *)
THEOREM GraceKept == Spec => []GraceHolds
  BY Inductive, GraceInFull, PTL

(* An applicant is never told the same decision twice, so no decision is      *)
(* dropped as a repeat.                                                       *)
THEOREM DecisionsTold == Spec => DecisionsAreTold
  BY Inductive, NextKeeps, PTL DEF Spec, DecisionsAreTold
=============================================================================
