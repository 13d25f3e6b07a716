----------------------------- MODULE Membership -----------------------------
(***************************************************************************)
(* Who is in the league, and with which Lichess authorisation: signing in  *)
(* and joining through Lichess (spec 8.2), the registration queue (8.5),   *)
(* sessions, and token health (3.3).                                       *)
(*                                                                         *)
(* A sign-in is a conversation of a browser, Lichess and the database,     *)
(* and a validate-tokens run or create-games' probe one of the job,        *)
(* Lichess and the database: what each read may be old when it writes, and *)
(* any of them may stop between two steps.                                 *)
(*                                                                         *)
(* Each authorisation is a new token; tokens are numbered in the order     *)
(* Lichess grants them.  The number stands for the sealed bytes and for    *)
(* issued_at, which no two stored tokens share.                            *)
(***************************************************************************)
EXTENDS Integers

CONSTANTS
    Player,          \* Lichess accounts
    NoPlayer,
    Admins,          \* ADMIN_LICHESS_USERNAMES
    Members,         \* members seeded with no authorisation (ic seed-players)
    Browser,         \* browsers
    Validator,       \* validate-tokens runs: serve's job, an operator's ic
    Probe,           \* create-games' probes
    Grace,           \* the setting token.invalid_grace_days
    TokenLife,       \* how long Lichess honours a token
    MaxTokens,       \* bound on authorisations
    MaxClock         \* bound on time

ASSUME MembershipAssumption ==
    /\ Admins \subseteq Player
    /\ Members \subseteq Player
    /\ NoPlayer \notin Player
    /\ Grace \in Nat
    /\ TokenLife \in Nat \ {0}
    /\ MaxTokens \in Nat
    /\ MaxClock \in Nat \ {0}
    /\ Validator \cap Probe = {}

VARIABLES
    clock,      \* the time, from 1: a time of 0 is NULL
    status,     \* users: none is no row
    admins,     \* users whose role is admin
    token,      \* oauth_tokens: which token, revoked_at, expires_at
    notices,    \* notifications: decisions on applications, lapsed tokens
    browser,    \* each browser's sign-in
    check,      \* each run that tests tokens
    grant       \* Lichess: the tokens it granted, and when one was revoked

league == <<status, admins, token, notices>>
vars == <<clock, status, admins, token, notices, browser, check, grant>>

Checker == Validator \cup Probe
Secret == 1..MaxTokens
Times == 0..(MaxClock + TokenLife)
Status == {"none", "pending", "approved", "rejected", "banned"}

NoToken == [secret |-> 0, revoked |-> 0, expires |-> 0]
NotGranted == [owner |-> NoPlayer, expires |-> 0, revoked |-> 0]
NoSignIn == [pc |-> "idle", who |-> NoPlayer, intent |-> "login", secret |-> 0, seen |-> "none"]
NoCheck == [pc |-> "idle", listed |-> {}, refused |-> {}]

Init ==
    /\ clock = 1
    /\ status = [u \in Player |-> IF u \in Members THEN "approved" ELSE "none"]
    /\ admins = {}
    /\ token = [u \in Player |-> NoToken]
    /\ notices = {}
    /\ browser = [b \in Browser |-> NoSignIn]
    /\ check = [c \in Checker |-> NoCheck]
    /\ grant = [s \in Secret |-> NotGranted]

-----------------------------------------------------------------------------
(* Token health: what the league knows of a token. *)

Min2(s, t) == IF s < t THEN s ELSE t

(* Mutant: the revocation hides an earlier expiry. *)
InvalidSinceRevoked(t, now) ==
    IF t.revoked # 0 THEN t.revoked ELSE IF t.expires <= now THEN t.expires ELSE 0

(* PlayerOf: when a stored token stopped working, and 0 while it works. *)
InvalidSince(t, now) ==
    CASE t.expires <= now /\ t.revoked # 0 -> Min2(t.expires, t.revoked)
      [] t.expires <= now -> t.expires
      [] OTHER -> t.revoked

Valid(t, now) == t.secret # 0 /\ InvalidSince(t, now) = 0

(* Left out of pairing: at once with no token, after the grace with a lapsed one. *)
Excluded(t, now) ==
    \/ t.secret = 0
    \/ ~Valid(t, now) /\ now > InvalidSince(t, now) + Grace

-----------------------------------------------------------------------------
(* Lichess. *)

(* When token s stopped working, or will: the first of its revocation and its expiry. *)
DeadFrom(s) ==
    IF grant[s].revoked = 0 THEN grant[s].expires ELSE Min2(grant[s].revoked, grant[s].expires)

Dead(s) == DeadFrom(s) <= clock

(* A player withdraws an authorisation, on Lichess. *)
WithdrawGrant(s) ==
    /\ grant[s].owner # NoPlayer /\ ~Dead(s)
    /\ grant' = [grant EXCEPT ![s].revoked = clock]
    /\ UNCHANGED <<league, clock, browser, check>>

-----------------------------------------------------------------------------
(* Signing in, and joining. *)

Minted == {s \in Secret : grant[s].owner # NoPlayer}

IsNextSecret(s) == s \notin Minted /\ 1..(s - 1) \subseteq Minted

(* /login or /join, Lichess's page, and the exchange of its code: a token. *)
Authorise(b, u, intent) ==
    /\ browser[b].pc = "idle"
    /\ \E s \in Secret :
          /\ IsNextSecret(s)
          /\ grant' = [grant EXCEPT ![s] =
                [owner |-> u, expires |-> clock + TokenLife, revoked |-> 0]]
          /\ browser' = [browser EXCEPT ![b] =
                [pc |-> "callback", who |-> u, intent |-> intent, secret |-> s, seen |-> "none"]]
    /\ UNCHANGED <<league, clock, check>>

(* outcomeBanned and outcomeNotMember. *)
Refused(b) ==
    \/ status[browser[b].who] = "banned"
    \/ status[browser[b].who] = "none" /\ browser[b].intent = "login"

(* completeSignIn's read: who this is. *)
SignInRead(b) ==
    /\ browser[b].pc = "callback"
    /\ browser' = [browser EXCEPT ![b].seen = status[browser[b].who], ![b].intent = "login",
                                  ![b].pc = IF Refused(b) THEN "refused" ELSE "write"]
    /\ UNCHANGED <<league, clock, check, grant>>

(* revokeQuietly: tried once. *)
GiveBack(b) ==
    /\ browser[b].pc = "refused"
    /\ browser' = [browser EXCEPT ![b] = NoSignIn]
    /\ \/ /\ ~Dead(browser[b].secret)
          /\ grant' = [grant EXCEPT ![browser[b].secret].revoked = clock]
       \/ UNCHANGED grant
    /\ UNCHANGED <<league, clock, check>>

(* UpsertOAuthToken: the new token, and nothing against it. *)
Upsert(old, s) == [secret |-> s, revoked |-> 0, expires |-> grant[s].expires]

(* Mutant: any applicant while there is no admin yet. *)
ListedOrFirst(u) == u \in Admins \/ admins = {}

(* adminIDs. *)
Listed(u) == u \in Admins

(* The statements fail if the row is no longer as read: an applicant who has *)
(* joined meanwhile, an account bootstrapAdmin finds approved or banned.     *)
SignInBlocked(b) ==
    LET u == browser[b].who IN
    \/ browser[b].seen = "none" /\ status[u] # "none"
    \/ Listed(u) /\ browser[b].seen \notin {"none", "approved"} /\ status[u] \notin {"pending", "rejected"}

(* The transaction: register or signInExisting, storeToken, bootstrapAdmin. *)
SignInWrite(b) ==
    LET u == browser[b].who IN
    /\ browser[b].pc = "write"
    /\ ~SignInBlocked(b)
    /\ status' = [status EXCEPT ![u] =
          CASE Listed(u) /\ browser[b].seen # "approved" -> "approved"
            [] browser[b].seen = "none" -> "pending"
            [] OTHER -> @]
    /\ admins' = IF Listed(u) THEN admins \cup {u} ELSE admins
    /\ token' = [token EXCEPT ![u] = Upsert(@, browser[b].secret)]
    /\ browser' = [browser EXCEPT ![b] = NoSignIn]
    /\ UNCHANGED <<clock, notices, check, grant>>

(* An error or a stop at any step: nothing is written, and the token stays as *)
(* it is on Lichess.                                                          *)
SignInFails(b) ==
    /\ browser[b].pc \in {"callback", "write"}
    /\ browser' = [browser EXCEPT ![b] = NoSignIn]
    /\ UNCHANGED <<league, clock, check, grant>>

-----------------------------------------------------------------------------
(* The registration queue. *)

(* An admin's requests, from a page that may be old; the admin who decides has *)
(* signed in before.                                                          *)

(* Every one selected is approved, or none if one is no longer to be decided. *)
Approve(us) ==
    /\ \A u \in us : status[u] \in {"pending", "rejected"}
    /\ status' = [u \in Player |-> IF u \in us THEN "approved" ELSE status[u]]
    /\ notices' = notices \cup {<<u, "approved">> : u \in us}
    /\ UNCHANGED <<clock, admins, token, browser, check, grant>>

(* Mutant: a decided application can be rejected, from a page loaded before. *)
RejectableKnown(u) == status[u] \notin {"none", "banned"}

(* RejectUser's guard. *)
Rejectable(u) == status[u] = "pending"

Reject(u) ==
    /\ Rejectable(u)
    /\ status' = [status EXCEPT ![u] = "rejected"]
    /\ notices' = notices \cup {<<u, "rejected">>}
    /\ UNCHANGED <<clock, admins, token, browser, check, grant>>

(* An operator bans an account, by hand in the database. *)
Ban(u) ==
    /\ u \notin Admins
    /\ status[u] = "approved"
    /\ status' = [status EXCEPT ![u] = "banned"]
    /\ UNCHANGED <<clock, admins, token, notices, browser, check, grant>>

-----------------------------------------------------------------------------
(* validate-tokens, and create-games' probe. *)

(* Mutant: only the tokens of players who can be paired now. *)
ToValidateApproved(u) == status[u] = "approved" /\ token[u].secret # 0 /\ token[u].revoked = 0

(* ListTokensToValidate. *)
ToValidate(u) == status[u] \in {"pending", "approved"} /\ token[u].secret # 0 /\ token[u].revoked = 0

Rows(us) == {<<u, token[u].secret>> : u \in us}

ListTokens(c) ==
    /\ c \in Validator /\ check[c].pc = "idle"
    /\ \E u \in Player : ToValidate(u)
    /\ check' = [check EXCEPT ![c] =
          [pc |-> "ask", listed |-> Rows({u \in Player : ToValidate(u)}), refused |-> {}]]
    /\ UNCHANGED <<league, clock, browser, grant>>

(* The players of a round's pairings still to create, with a token that works; *)
(* one of them may have been banned since.                                     *)
ProbeTokens(c) ==
    /\ c \in Probe /\ check[c].pc = "idle"
    /\ \E us \in SUBSET {u \in Player : status[u] \in {"approved", "banned"} /\ Valid(token[u], clock)} :
          /\ us # {}
          /\ check' = [check EXCEPT ![c] =
                [pc |-> "ask", listed |-> Rows(us), refused |-> {}]]
    /\ UNCHANGED <<league, clock, browser, grant>>

(* Lichess refuses a dead token it answers for; one it leaves out is kept. *)
RefusedTokens(c, answered) == {x \in answered : Dead(x[2])}

AskLichess(c, answered) ==
    /\ check[c].pc = "ask"
    /\ check' = [check EXCEPT ![c] =
          IF RefusedTokens(c, answered) = {} THEN NoCheck
          ELSE [pc |-> "mark", listed |-> {}, refused |-> RefusedTokens(c, answered)]]
    /\ UNCHANGED <<league, clock, browser, grant>>

(* Mutant: whatever token the player has now. *)
MarkableWhatever(u, s) == token[u].secret # 0 /\ token[u].revoked = 0

(* MarkTokenRevoked's guard: the token as read, and not marked yet. *)
Markable(u, s) == token[u].secret = s /\ token[u].revoked = 0

(* Mutant: one notice a player. *)
TokenLapsedOnce(u, s) == <<u, "lapsed", 1>>

(* The notice, keyed by the token's issue. *)
TokenLapsed(u, s) == <<u, "lapsed", s>>

(* revokeToken: the mark and its notice, a transaction a token. *)
RevokeToken(c, u, s) ==
    /\ check[c].pc = "mark"
    /\ <<u, s>> \in check[c].refused
    /\ IF Markable(u, s)
       THEN /\ token' = [token EXCEPT ![u].revoked = clock]
            /\ notices' = notices \cup {TokenLapsed(u, s)}
       ELSE UNCHANGED <<token, notices>>
    /\ LET left == check[c].refused \ {<<u, s>>} IN
       check' = [check EXCEPT ![c] =
          IF left = {} THEN NoCheck ELSE [pc |-> "mark", listed |-> {}, refused |-> left]]
    /\ UNCHANGED <<clock, status, admins, browser, grant>>

(* Lichess fails, or the run is cut. *)
CheckStops(c) ==
    /\ check[c].pc # "idle"
    /\ check' = [check EXCEPT ![c] = NoCheck]
    /\ UNCHANGED <<league, clock, browser, grant>>

Tick ==
    /\ clock < MaxClock
    /\ clock' = clock + 1
    /\ UNCHANGED <<league, browser, check, grant>>

-----------------------------------------------------------------------------
SignInStep(b) ==
    \/ \E u \in Player, intent \in {"join", "login"} : Authorise(b, u, intent)
    \/ SignInRead(b) \/ GiveBack(b) \/ SignInWrite(b) \/ SignInFails(b)

MarkStep(c) == \E u \in Player, s \in Secret : RevokeToken(c, u, s)

CheckStep(c) ==
    \/ ListTokens(c) \/ ProbeTokens(c) \/ MarkStep(c) \/ CheckStops(c)
    \/ \E answered \in SUBSET check[c].listed : AskLichess(c, answered)

Next ==
    \/ \E b \in Browser : SignInStep(b)
    \/ \E us \in SUBSET Player \ {{}} : Approve(us)
    \/ \E u \in Player : Reject(u) \/ Ban(u)
    \/ \E s \in Secret : WithdrawGrant(s)
    \/ \E c \in Checker : CheckStep(c)
    \/ Tick

Spec == Init /\ [][Next]_vars

(* validate-tokens runs again and again (jobs.go), and again and again one of *)
(* its runs is not cut and Lichess answers it for every token.                *)
Fairness ==
    /\ WF_vars(\E c \in Validator : ListTokens(c))
    /\ SF_vars(\E c \in Validator : AskLichess(c, check[c].listed))
    /\ SF_vars(\E c \in Validator : MarkStep(c))

FairSpec == Spec /\ Fairness

-----------------------------------------------------------------------------
(* Properties. *)

(* The rows of tokens and roles belong to a user with a row. *)
TypeOK ==
    /\ clock \in 1..MaxClock
    /\ status \in [Player -> Status]
    /\ admins \subseteq Admins
    /\ token \in [Player -> [secret : 0..MaxTokens, revoked : Times, expires : Times]]
    /\ notices \subseteq (Player \X {"approved", "rejected"}) \cup (Player \X {"lapsed"} \X Secret)
    /\ browser \in [Browser -> [pc : {"idle", "callback", "refused", "write"},
                                who : Player \cup {NoPlayer}, intent : {"join", "login"},
                                secret : 0..MaxTokens, seen : Status]]
    /\ check \in [Checker -> [pc : {"idle", "ask", "mark"}, listed : SUBSET (Player \X Secret),
                              refused : SUBSET (Player \X Secret)]]
    /\ grant \in [Secret -> [owner : Player \cup {NoPlayer}, expires : Times, revoked : Times]]
    /\ \A u \in Player : status[u] = "none" => token[u] = NoToken /\ u \notin admins

(* A token is marked revoked only if Lichess no longer accepts it: a sign-in   *)
(* stores a new one, and neither a run that tested the one before, nor an      *)
(* answer that leaves it out, nor its own past touches it (validate_tokens.go). *)
RevokedIsDead ==
    \A u \in Player : token[u].revoked # 0 => Dead(token[u].secret)

(* A stored authorisation has its grace in full, from when it stopped working  *)
(* on Lichess, and an expired one not a moment more, whenever the runs that    *)
(* mark it come (spec 3.3; player.go).                                         *)
GraceHolds ==
    \A u \in Player : token[u].secret # 0 =>
        /\ Excluded(token[u], clock) => DeadFrom(token[u].secret) + Grace < clock
        /\ grant[token[u].secret].expires + Grace < clock => Excluded(token[u], clock)

(* Whichever run finds a token dead, its player is told of that token, and     *)
(* nobody is told of one that works ("once per token whichever finds it first", *)
(* notify.go).                                                                 *)
LapsesAreTold ==
    /\ \A u \in Player : token[u].revoked # 0 => TokenLapsed(u, token[u].secret) \in notices
    /\ \A s \in Secret : (\E u \in Player : <<u, "lapsed", s>> \in notices) =>
           Dead(s) /\ <<grant[s].owner, "lapsed", s>> \in notices

(* An admin's decision on an application is told by a notice of its own: none  *)
(* is dropped as a repeat, since nobody is approved, or rejected, twice        *)
(* (admin.go); bootstrapAdmin approves without a notice.                       *)
DecisionStep ==
    \A u \in Player \ Admins :
        (status'[u] # status[u] /\ status'[u] \in {"approved", "rejected"}) =>
            <<u, status'[u]>> \in notices' \ notices

DecisionsAreTold == [][DecisionStep]_vars

(* A dead token that could still be used to pair its player does not go        *)
(* unnoticed: validate-tokens finds it, however often Lichess leaves tokens    *)
(* out, fails, or the run is cut.                                              *)
DeadTokensAreFound ==
    []<>(\A u \in Player :
            /\ status[u] \in {"pending", "approved"}
            /\ token[u].secret # 0 /\ Dead(token[u].secret)
            => token[u].revoked # 0)
=============================================================================
