------------------------------ MODULE Schedule ------------------------------
(***************************************************************************)
(* What the rounds promise the league, whoever generates, edits, publishes *)
(* and cancels them, and in whatever order: a calendar in which a round is *)
(* opened once, is revised only while it is the one draft, is decided      *)
(* once, and then never changes; and in which the job that makes a round's *)
(* games is queued exactly when the round is announced, if it is to be.    *)
(* It knows no session, lock, window or job that publishes.                *)
(***************************************************************************)
EXTENDS Naturals

CONSTANTS
    RoundId,   \* the rounds there can be
    Blank      \* the notice of a round not opened yet

VARIABLES
    status,    \* none, draft, published or cancelled
    number,    \* the number the round is known by
    notice,    \* who meets whom, who sits out and why
    making,    \* how its games are made: by hand, or by a job
    queued     \* the rounds whose games a job was asked to make

vars == <<status, number, notice, making, queued>>

Live == {r \in RoundId : status[r] \in {"draft", "published"}}

Init ==
    /\ status = [r \in RoundId |-> "none"]
    /\ number = [r \in RoundId |-> 0]
    /\ notice = [r \in RoundId |-> Blank]
    /\ making = [r \in RoundId |-> "manual"]
    /\ queued = {}

(* How the games are made is settled in the step that announces the round. *)
Settle(r) ==
    /\ making' = [making EXCEPT ![r] = making'[r]]
    /\ making'[r] \in {"manual", "creating"}
    /\ queued' = IF making'[r] = "creating" THEN queued \cup {r} ELSE queued

(* A new round takes a number no live round has, whatever its notice. *)
Number(r) ==
    /\ number' = [number EXCEPT ![r] = number'[r]]
    /\ \A q \in Live : number[q] # number'[r]

OpenDraft(r) ==
    /\ status[r] = "none"
    /\ \A q \in RoundId : status[q] # "draft"
    /\ status' = [status EXCEPT ![r] = "draft"]
    /\ Number(r)
    /\ notice' = [notice EXCEPT ![r] = notice'[r]]
    /\ making' = [making EXCEPT ![r] = "manual"]
    /\ UNCHANGED queued

OpenPublished(r) ==
    /\ status[r] = "none"
    /\ status' = [status EXCEPT ![r] = "published"]
    /\ Number(r)
    /\ notice' = [notice EXCEPT ![r] = notice'[r]]
    /\ Settle(r)

Revise(r) ==
    /\ status[r] = "draft"
    /\ notice' = [notice EXCEPT ![r] = notice'[r]]
    /\ UNCHANGED <<status, number, making, queued>>

Announce(r) ==
    /\ status[r] = "draft"
    /\ status' = [status EXCEPT ![r] = "published"]
    /\ Settle(r)
    /\ UNCHANGED <<number, notice>>

Withdraw(r) ==
    /\ status[r] = "draft"
    /\ status' = [status EXCEPT ![r] = "cancelled"]
    /\ UNCHANGED <<number, notice, making, queued>>

Next ==
    \E r \in RoundId :
        OpenDraft(r) \/ OpenPublished(r) \/ Revise(r) \/ Announce(r) \/ Withdraw(r)

Spec == Init /\ [][Next]_vars
=============================================================================
