------------------------------ MODULE Identity ------------------------------
(***************************************************************************)
(* How a phone signs in to the member app (lib/member/identity, otp) and   *)
(* what it is sent afterwards (lib/notifications/push): codes asked for,   *)
(* resent and entered, the session a code opens, its refresh, its end, and *)
(* the devices registered on it. The codes here are those of one person.   *)
(***************************************************************************)
EXTENDS Naturals, FiniteSets

CONSTANTS
    Challenge,    \* rows of member_login_challenge
    Session,      \* rows of member_session
    Phone,        \* push tokens
    MaxAttempts,  \* wrong codes a challenge takes
    MaxRefresh,   \* bound: refreshes of a session
    Caller        \* requests and sends that may be under way at once

ASSUME AttemptsAssumption == MaxAttempts \in Nat \ {0}

VARIABLES
    challenge,  \* the challenges issued
    recent,     \* those younger than the resend cooldown
    session,    \* the sessions opened
    token,      \* the refresh token each app holds, by how many came before
    device,     \* member_device
    mayUse,     \* whether the person may still use the app
    caller      \* requests under way

identity == <<challenge, recent, session, token, device, mayUse, caller>>

NotIssued == [issued |-> FALSE]
NotOpened == [opened |-> FALSE]
NoDevice == [registered |-> FALSE]
NotCalling == [does |-> "nothing"]

IdentityInit ==
    /\ challenge = [c \in Challenge |-> NotIssued]
    /\ recent = {}
    /\ session = [s \in Session |-> NotOpened]
    /\ token = [s \in Session |-> 0]
    /\ device = [p \in Phone |-> NoDevice]
    /\ mayUse = TRUE
    /\ caller = [q \in Caller |-> NotCalling]

Calls(q, request) == caller' = [caller EXCEPT ![q] = request]

-----------------------------------------------------------------------------
(* Codes                                                                   *)

\* linkMember and startSignUp: no code for this person within the cooldown,
\* and a record that may use the app. Read before the challenge is inserted.
AskForACode(q) ==
    /\ caller[q] = NotCalling
    /\ recent = {}
    /\ mayUse
    /\ Calls(q, [does |-> "issue"])
    /\ UNCHANGED <<challenge, recent, session, token, device, mayUse>>

\* resendOtp up to the statement that ends the code before. A refused resend
\* leaves that one as it is.
BeginResend(q, c) ==
    /\ caller[q] = NotCalling
    /\ challenge[c].issued
    /\ recent = {}
    /\ Calls(q, [does |-> "issue"])
    /\ challenge' = [challenge EXCEPT ![c].consumed = TRUE]
    /\ UNCHANGED <<recent, session, token, device, mayUse>>

\* issueChallenge: the row is there before the code is sent.
IssueChallenge(q, c) ==
    /\ caller[q].does = "issue"
    /\ ~challenge[c].issued
    /\ challenge' = [challenge EXCEPT ![c] = [issued |-> TRUE, consumed |-> FALSE, expired |-> FALSE,
                                              attempts |-> 0, arrived |-> FALSE]]
    /\ recent' = recent \cup {c}
    /\ Calls(q, [does |-> "send", challenge |-> c])
    /\ UNCHANGED <<session, token, device, mayUse>>

\* The send: it arrives, or it fails and takes the challenge with it.
DeliverCode(q, arrives) ==
    LET c == caller[q].challenge
    IN  /\ caller[q].does = "send"
        /\ challenge' = IF arrives THEN [challenge EXCEPT ![c].arrived = TRUE]
                        ELSE [challenge EXCEPT ![c].consumed = TRUE]
        /\ Calls(q, NotCalling)
        /\ UNCHANGED <<recent, session, token, device, mayUse>>

CooldownPasses ==
    /\ recent # {}
    /\ recent' = {}
    /\ UNCHANGED <<challenge, session, token, device, mayUse, caller>>

CodeExpires(c) ==
    /\ challenge[c].issued /\ ~challenge[c].expired
    /\ challenge' = [challenge EXCEPT ![c].expired = TRUE]
    /\ UNCHANGED <<recent, session, token, device, mayUse, caller>>

\* Mutant of Live: by its time alone.
LiveByTime(c) == challenge[c].issued /\ ~challenge[c].expired

Live(c) == challenge[c].issued /\ ~challenge[c].consumed /\ ~challenge[c].expired

\* verifyOtp with the code that was sent, the challenge locked: it is used up
\* and a session opens.
EnterCode(c, s) ==
    /\ Live(c)
    /\ challenge[c].arrived
    /\ mayUse
    /\ ~session[s].opened
    /\ challenge' = [challenge EXCEPT ![c].consumed = TRUE]
    /\ session' = [session EXCEPT ![s] = [opened |-> TRUE, from |-> c, revoked |-> FALSE, refreshed |-> 0]]
    /\ UNCHANGED <<recent, token, device, mayUse, caller>>

\* verifyOtp with another code: found live under the lock, counted after it.
BeginMistype(q, c) ==
    /\ caller[q] = NotCalling
    /\ Live(c)
    /\ Calls(q, [does |-> "count", challenge |-> c])
    /\ UNCHANGED <<challenge, recent, session, token, device, mayUse>>

\* One statement adds one and ends the challenge at the limit.
Counted(row) ==
    [row EXCEPT !.attempts = @ + 1, !.consumed = @ \/ row.attempts + 1 >= MaxAttempts]

CommitMistype(q) ==
    /\ caller[q].does = "count"
    /\ challenge' = [challenge EXCEPT ![caller[q].challenge] = Counted(@)]
    /\ Calls(q, NotCalling)
    /\ UNCHANGED <<recent, session, token, device, mayUse>>

-----------------------------------------------------------------------------
(* Sessions                                                                *)

Stands(s) == session[s].opened /\ ~session[s].revoked

\* disableSessionDevices.
Silenced(s) ==
    [p \in Phone |-> IF device[p].registered /\ device[p].session = s
                     THEN [device[p] EXCEPT !.enabled = FALSE] ELSE device[p]]

\* refreshSession, in one database transaction: the token presented is the
\* one the session holds, and another takes its place; the answer with it may
\* be lost. Someone who may no longer use the app is signed out here.
RefreshSession(s, answered) ==
    /\ Stands(s)
    /\ token[s] = session[s].refreshed
    /\ session[s].refreshed < MaxRefresh
    /\ IF mayUse
       THEN /\ session' = [session EXCEPT ![s].refreshed = @ + 1]
            /\ token' = [token EXCEPT ![s] = IF answered THEN @ + 1 ELSE @]
            /\ UNCHANGED device
       ELSE /\ session' = [session EXCEPT ![s].revoked = TRUE]
            /\ device' = Silenced(s)
            /\ UNCHANGED token
    /\ UNCHANGED <<challenge, recent, mayUse, caller>>

\* revokeSession: the session, then its devices, in two statements.
BeginRevoke(q, s) ==
    /\ caller[q] = NotCalling
    /\ Stands(s)
    /\ session' = [session EXCEPT ![s].revoked = TRUE]
    /\ Calls(q, [does |-> "silence", session |-> s])
    /\ UNCHANGED <<challenge, recent, token, device, mayUse>>

CommitRevoke(q) ==
    /\ caller[q].does = "silence"
    /\ device' = Silenced(caller[q].session)
    /\ Calls(q, NotCalling)
    /\ UNCHANGED <<challenge, recent, session, token, mayUse>>

\* The person resigns or dies, at a branch.
LeavesTheApp ==
    /\ mayUse
    /\ mayUse' = FALSE
    /\ UNCHANGED <<challenge, recent, session, token, device, caller>>

-----------------------------------------------------------------------------
(* Devices and pushes                                                      *)

\* registerDevice: the session is resolved before the row is written, and a
\* phone moves to the session that registers it.
BeginRegister(q, s, p) ==
    /\ caller[q] = NotCalling
    /\ Stands(s)
    /\ Calls(q, [does |-> "register", session |-> s, phone |-> p])
    /\ UNCHANGED <<challenge, recent, session, token, device, mayUse>>

CommitRegister(q) ==
    /\ caller[q].does = "register"
    /\ device' = [device EXCEPT ![caller[q].phone] =
                    [registered |-> TRUE, enabled |-> TRUE, session |-> caller[q].session]]
    /\ Calls(q, NotCalling)
    /\ UNCHANGED <<challenge, recent, session, token, mayUse>>

UnregisterDevice(s, p) ==
    /\ Stands(s)
    /\ device[p].registered /\ device[p].session = s /\ device[p].enabled
    /\ device' = [device EXCEPT ![p].enabled = FALSE]
    /\ UNCHANGED <<challenge, recent, session, token, mayUse, caller>>

\* Mutant of Listening: the devices alone.
EnabledOnly == {p \in Phone : device[p].registered /\ device[p].enabled}

\* devicesFor: enabled, on a session that stands.
Listening == {p \in Phone : device[p].registered /\ device[p].enabled /\ Stands(device[p].session)}

BeginPush(q) ==
    /\ caller[q] = NotCalling
    /\ Listening # {}
    /\ Calls(q, [does |-> "push", phones |-> Listening])
    /\ UNCHANGED <<challenge, recent, session, token, device, mayUse>>

\* sendToAll: each phone is written to; one whose token the provider calls
\* dead is disabled, whoever it is registered to by then.
PushTo(q, p, dead) ==
    LET left == caller[q].phones \ {p}
    IN  /\ caller[q].does = "push"
        /\ p \in caller[q].phones
        /\ device' = IF dead THEN [device EXCEPT ![p].enabled = FALSE] ELSE device
        /\ Calls(q, IF left = {} THEN NotCalling ELSE [does |-> "push", phones |-> left])
        /\ UNCHANGED <<challenge, recent, session, token, mayUse>>

\* The process dies with its requests.
CallDies(q) ==
    /\ caller[q] # NotCalling
    /\ Calls(q, NotCalling)
    /\ UNCHANGED <<challenge, recent, session, token, device, mayUse>>

IdentityNext ==
    \/ \E q \in Caller :
        \/ AskForACode(q) \/ CommitMistype(q) \/ CommitRevoke(q) \/ CommitRegister(q) \/ BeginPush(q)
        \/ CallDies(q)
        \/ \E c \in Challenge : BeginResend(q, c) \/ IssueChallenge(q, c) \/ BeginMistype(q, c)
        \/ \E arrives \in BOOLEAN : DeliverCode(q, arrives)
        \/ \E s \in Session : BeginRevoke(q, s)
        \/ \E s \in Session, p \in Phone : BeginRegister(q, s, p)
        \/ \E p \in Phone, dead \in BOOLEAN : PushTo(q, p, dead)
    \/ CooldownPasses \/ LeavesTheApp
    \/ \E c \in Challenge : CodeExpires(c)
    \/ \E c \in Challenge, s \in Session : EnterCode(c, s)
    \/ \E s \in Session, answered \in BOOLEAN : RefreshSession(s, answered)
    \/ \E s \in Session, p \in Phone : UnregisterDevice(s, p)

-----------------------------------------------------------------------------
(* A code opens one session at most, however many requests carry it, and   *)
(* the last wrong code a challenge takes ends it although the count is     *)
(* made after the lock on the row is gone (identity.ts, verifyOtp).        *)
CodesUsedUp ==
    \A c \in Challenge :
        /\ Cardinality({s \in Session : session[s].opened /\ session[s].from = c}) <= 1
        /\ challenge[c].issued /\ challenge[c].attempts >= MaxAttempts => challenge[c].consumed

(* A send that begins after a session has ended reaches none of its        *)
(* phones, although one may have been registered on it by a request that   *)
(* found it standing and wrote after its devices were silenced (push.ts,   *)
(* devicesFor and registerDevice).                                         *)
SilentOnceSignedOut ==
    [][\A q \in Caller :
        caller[q].does # "push" /\ caller'[q].does = "push" =>
            \A p \in caller'[q].phones :
                \E s \in Session : device[p].session = s /\ session[s].opened /\ ~session[s].revoked]_identity
=============================================================================
