--------------------------------- MODULE Api ---------------------------------
(***************************************************************************)
(* A write that must not happen twice (lib/api, lib/member/endpoint.ts,    *)
(* lib/member/transactions.ts; the idempotency of recordDeposit,           *)
(* recordWithdrawal and recordTransfer; docs/api.md).                      *)
(*                                                                         *)
(* A client sends a request under a key of its own until it is answered.   *)
(* The request passes the endpoint's wrapper, of one of three kinds, is    *)
(* looked up by its key, judged, and recorded in one transaction. Review   *)
(* and Fees say what is judged; here it may be refused. The app's requests *)
(* are all recorded by the one system user.                                *)
(***************************************************************************)
EXTENDS Integers, FiniteSets

CONSTANTS
    Wish,       \* what clients want done, once each
    Fingerprint,      \* fingerprints of what a request asks for
    Key,        \* Idempotency-Key headers
    Attempt,    \* requests, one for each time one is sent
    MaxRequests,\* RATE_LIMIT_MAX_REQUESTS
    MaxFailures \* bound: increments that fail

ASSUME RateAssumption == MaxRequests \in Nat /\ MaxFailures \in Nat

VARIABLES
    wish,       \* each client's: by whom, how, under which key, what it was told
    attempt,    \* requests under way
    row,        \* transaction rows, by the request that recorded each
    number,     \* the receipt number each request drew
    window,     \* rate_limit_window, by subject, of this minute
    served,     \* requests let through this minute, by subject
    failures,   \* increments that failed this minute
    switchedOn, \* whether members may start it from the app
    credential  \* of the machine callers: whether it stands

api == <<wish, attempt, row, number, window, served, failures, switchedOn, credential>>

Channel == {"staff", "member"}
Subject == Channel \cup {"machine", "unknown"}
NoAttempt == [at |-> "unsent"]
NoRow == [there |-> FALSE]

ApiInit ==
    /\ wish \in [Wish -> [by : Channel, key : Key, asks : Fingerprint, told : {"nothing"}]]
    /\ attempt = [a \in Attempt |-> NoAttempt]
    /\ row = [a \in Attempt |-> NoRow]
    /\ number = [a \in Attempt |-> "none"]
    /\ window = [s \in Subject |-> 0]
    /\ served = [s \in Subject |-> 0]
    /\ failures = 0
    /\ switchedOn \in BOOLEAN
    /\ credential = "active"

Of(a) == wish[attempt[a].wish]
Continues(a, at) == attempt' = [attempt EXCEPT ![a].at = at]
Still == UNCHANGED <<row, number, window, served, failures, switchedOn, credential>>

----------------------------------------------------------------------------
(* The client: the same key until it is told                               *)

Unanswered(w) == wish[w].told \in {"nothing", "later"}

Request(a, w) ==
    /\ attempt[a] = NoAttempt /\ Unanswered(w)
    /\ attempt' = [attempt EXCEPT ![a] = [at |-> "arrives", wish |-> w]]
    /\ UNCHANGED wish /\ Still

\* A machine's: it reads, and has no key.
SendMachine(a) ==
    /\ attempt[a] = NoAttempt
    /\ attempt' = [attempt EXCEPT ![a] = [at |-> "guess"]]
    /\ UNCHANGED wish /\ Still

\* What the client hears, or never does.
Told(a, what) ==
    /\ wish' = [wish EXCEPT ![attempt[a].wish].told = IF Unanswered(attempt[a].wish) THEN what ELSE @]
    /\ Continues(a, "over")

Answer(a) ==
    /\ attempt[a].at = "answers"
    /\ Told(a, attempt[a].what)
    /\ Still

\* The answer is lost, or the process dies before it has one.
Lost(a) ==
    /\ attempt[a].at \notin {"unsent", "over"}
    /\ Continues(a, "over")
    /\ UNCHANGED wish /\ Still

Answers(a, what) == attempt' = [attempt EXCEPT ![a] = [at |-> "answers", wish |-> attempt[a].wish, what |-> what]]

----------------------------------------------------------------------------
(* The wrappers                                                            *)

\* Mutant of Number: the count as it was before this request.
NumberBefore(s) == window[s]

\* INCREMENT adds this request and reports the result, in one statement.
Number(s) == window[s] + 1

\* checkRateLimit lets through what it cannot count.
Within(s, max, a, next) ==
    \/ /\ window' = [window EXCEPT ![s] = @ + 1]
       /\ Number(s) <= max
       /\ served' = [served EXCEPT ![s] = @ + 1]
       /\ Continues(a, next)
       /\ UNCHANGED failures
    \/ /\ failures < MaxFailures
       /\ failures' = failures + 1
       /\ served' = [served EXCEPT ![s] = @ + 1]
       /\ Continues(a, next)
       /\ UNCHANGED window

Over(s, max) ==
    /\ window' = [window EXCEPT ![s] = @ + 1]
    /\ Number(s) > max
    /\ UNCHANGED <<served, failures>>

\* Staff: whoever the middleware resolved, with the permission (Access).
StaffEndpoint(a) ==
    /\ attempt[a].at = "arrives" /\ Of(a).by = "staff"
    /\ \/ Within("staff", MaxRequests, a, "lookup")
       \/ Over("staff", MaxRequests) /\ Answers(a, "later")
    /\ UNCHANGED <<wish, row, number, switchedOn, credential>>

\* A member: a session that is live (Identity), counted by session.
MemberEndpoint(a) ==
    /\ attempt[a].at = "arrives" /\ Of(a).by = "member"
    /\ \/ Within("member", MaxRequests, a, "eligible")
       \/ Over("member", MaxRequests) /\ Answers(a, "later")
    /\ UNCHANGED <<wish, row, number, switchedOn, credential>>

\* A machine: guesses are counted before its credential is looked up, and
\* what the credential asks for after.
IntegrationEndpoint(a) ==
    /\ attempt[a].at = "guess"
    /\ \/ Within("unknown", MaxRequests, a, "presents")
       \/ Over("unknown", MaxRequests) /\ Continues(a, "over")
    /\ UNCHANGED <<wish, row, number, switchedOn, credential>>

CredentialForToken(a) ==
    /\ attempt[a].at = "presents"
    /\ Continues(a, IF credential = "active" THEN "presented" ELSE "over")
    /\ UNCHANGED wish /\ Still

ServeMachine(a) ==
    /\ attempt[a].at = "presented"
    /\ \/ Within("machine", MaxRequests, a, "over")
       \/ Over("machine", MaxRequests) /\ Continues(a, "over")
    /\ UNCHANGED <<wish, row, number, switchedOn, credential>>

RevokeCredential ==
    /\ credential = "active" /\ credential' = "revoked"
    /\ UNCHANGED <<wish, attempt, row, number, window, served, failures, switchedOn>>

\* A minute passes: counts are of the window.
WindowPasses ==
    /\ window # [s \in Subject |-> 0]
    /\ window' = [s \in Subject |-> 0] /\ served' = [s \in Subject |-> 0] /\ failures' = 0
    /\ UNCHANGED <<wish, attempt, row, number, switchedOn, credential>>

----------------------------------------------------------------------------
(* recordMemberDeposit, recordMemberWithdrawal, recordMemberTransfer       *)

\* Switched on, within reach, by a way the app offers: asked before the key.
RequireEnabled(a) ==
    /\ attempt[a].at = "eligible"
    /\ IF switchedOn THEN Continues(a, "lookup") \/ Answers(a, "refused") ELSE Answers(a, "refused")
    /\ UNCHANGED wish /\ Still

SetMemberOperations ==
    /\ switchedOn' = ~switchedOn
    /\ UNCHANGED <<wish, attempt, row, number, window, served, failures, credential>>

----------------------------------------------------------------------------
(* recordDeposit, recordWithdrawal, recordTransfer                         *)

\* The rows of whoever is recorded as having captured it, under the key.
Recorded(a) == {b \in Attempt : row[b].there /\ row[b].by = Of(a).by /\ row[b].key = Of(a).key}

\* The same request, by its fingerprint.
Replays(b, a) == row[b].print = Of(a).asks

\* "A retry is answered before it is judged."
ExistingForKey(a) ==
    /\ attempt[a].at = "lookup"
    /\ IF Recorded(a) = {} THEN Continues(a, "judged")
       ELSE \E b \in Recorded(a) : Answers(a, IF Replays(b, a) THEN "done" ELSE "conflict")
    /\ UNCHANGED wish /\ Still

\* The ledger's own checks and the matrix; the app never posts.
Judge(a) ==
    /\ attempt[a].at = "judged"
    /\ \/ Answers(a, "refused") \/ Continues(a, "waits")
       \/ Of(a).by = "staff" /\ Continues(a, "posts")
    /\ UNCHANGED wish /\ Still

\* A receipt number, before the transaction and apart from it.
AllocateForPosting(a) ==
    /\ attempt[a].at = "posts" /\ number[a] = "none"
    /\ number' = [number EXCEPT ![a] = "allocated"]
    /\ UNCHANGED <<wish, attempt, row, window, served, failures, switchedOn, credential>>

\* Mutant of KeyTaken: only the look-up keeps a key to one row.
KeyNeverTaken(a) == FALSE

\* transaction_idempotency_idx
KeyTaken(a) == Recorded(a) # {}

\* The row, its submission and its receipt, together.
RecordTransaction(a) ==
    /\ \/ attempt[a].at = "waits"
       \/ attempt[a].at = "posts" /\ number[a] = "allocated"
    /\ ~KeyTaken(a)
    /\ row' = [row EXCEPT ![a] = [there |-> TRUE, by |-> Of(a).by, key |-> Of(a).key, print |-> Of(a).asks]]
    /\ number' = [number EXCEPT ![a] = IF @ = "allocated" THEN "issued" ELSE @]
    /\ Answers(a, "done")
    /\ UNCHANGED <<wish, window, served, failures, switchedOn, credential>>

\* The index decides, or anything else fails: the number is given up.
RollBack(a) ==
    /\ \/ attempt[a].at = "waits"
       \/ attempt[a].at = "posts" /\ number[a] = "allocated"
    /\ number' = [number EXCEPT ![a] = IF @ = "allocated" THEN "void" ELSE @]
    /\ Answers(a, IF KeyTaken(a) THEN "later" ELSE "refused")
    /\ UNCHANGED <<wish, row, window, served, failures, switchedOn, credential>>

----------------------------------------------------------------------------

ApiNext ==
    \/ \E a \in Attempt :
         \/ Answer(a) \/ Lost(a)
         \/ StaffEndpoint(a) \/ MemberEndpoint(a) \/ IntegrationEndpoint(a)
         \/ CredentialForToken(a) \/ ServeMachine(a) \/ RequireEnabled(a)
         \/ ExistingForKey(a) \/ Judge(a) \/ AllocateForPosting(a) \/ RecordTransaction(a) \/ RollBack(a)
         \/ SendMachine(a) \/ \E w \in Wish : Request(a, w)
    \/ RevokeCredential \/ WindowPasses \/ SetMemberOperations

----------------------------------------------------------------------------

\* A client that sends its request until it is told does it once, whatever was
\* lost, and is told it is done only of what it asked for: a deposit, a
\* withdrawal or a transfer recorded under its key and like its own, by it or
\* by another in the same name (docs/api.md, Idempotent writes).
RecordedOnce ==
    \A w \in Wish :
        LET rows == {a \in Attempt : row[a].there /\ row[a].by = wish[w].by /\ row[a].key = wish[w].key}
        IN  /\ Cardinality(rows) <= 1
            /\ wish[w].told = "done" => \E a \in rows : row[a].print = wish[w].asks

\* However many arrive together, no more than the ceiling are let through in
\* a minute, but for those that could not be counted (rate-limit.ts).
WithinTheCeiling == \A s \in Subject : served[s] <= MaxRequests + failures
=============================================================================
