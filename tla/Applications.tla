--------------------------- MODULE Applications ---------------------------
(***************************************************************************)
(* The workflow of a membership application, with its fees and its papers  *)
(* (lib/applications/workflow.ts; lib/config/reference.ts for the chain;   *)
(* migrations 0009, 0010 and 0024 for the steps and who is kept apart).    *)
(*                                                                         *)
(* As in Fees and Documents, a handler reads and refuses, then writes in   *)
(* one transaction that reads nothing of the application again: the status *)
(* it writes may be that of a pass that is over.  A Board member's         *)
(* decision is three: the reads, the count of the sign-offs that its       *)
(* transaction sees, and its commit.                                       *)
(***************************************************************************)
EXTENDS Fees, Documents

CONSTANTS
    RolesOf,  \* the steps each officer has the configured role of
    Online,   \* officers who may handle what the member app sent in
    Quorum,   \* quorum_count of the President's step
    Switched  \* steps an administrator may switch on and off

ASSUME QuorumAssumption == Quorum \in Nat \ {0}

VARIABLES
    enabled,   \* the enabled steps
    passed,    \* the steps passed since the last submission
    signoffs,  \* application_step_signoff rows
    trail      \* audit: who did what to which application

flow == <<enabled, passed, signoffs, trail>>
vars == <<status, desk, opened, money, papers, flow>>

Step == {"capture", "regional_review", "secretary_review", "president_decision"}
ASSUME RolesAssumption == RolesOf \in [Officer -> SUBSET Step] /\ Switched \subseteq Step

Gate == {"regional_review"}
Moves == <<"capture", "secretary_review", "president_decision">>
Stage == <<"draft", "new", "submitted_for_approval", "approved">>
DidAt == [capture |-> "captured", regional_review |-> "regional_reviewed",
          secretary_review |-> "reviewed", president_decision |-> "approved"]

----------------------------------------------------------------------------
(* The chain *)

\* Where a record that would stand at the i-th stage stands, when the steps
\* that would have brought it there are switched off: bridgeDisabledSteps.
Stands[i \in DOMAIN Stage] ==
    IF i = 1 THEN 1 ELSE IF Moves[i - 1] \in enabled THEN i ELSE Stands[i - 1]

Place(s) == IF s \in Gate THEN 2 ELSE CHOOSE i \in DOMAIN Moves : Moves[i] = s
FromStatus(s) == Stage[Stands[Place(s)]]
ToStatus(s) == IF s \in Gate THEN Stage[Place(s)] ELSE Stage[Place(s) + 1]

\* A step that moves nothing.
IsGate(s) == FromStatus(s) = ToStatus(s)

\* Every gate on the status a later step acts at, still to be passed on this
\* pass.
UnmetGates(s, a) ==
    {g \in (Gate \cap enabled) \ passed[a] :
        /\ s \in {"secretary_review", "president_decision"}
        /\ IsGate(g) /\ FromStatus(s) = FromStatus(g)}

----------------------------------------------------------------------------
(* Who may act *)

DidTo(o, did, a) == <<o, did, a>> \in trail

\* segregation_rule, as seeded: who did the first may not do the second.
Rules ==
    {<<"captured", did>> : did \in {"regional_reviewed", "reviewed", "approved"}}
    \cup {<<"regional_reviewed", "reviewed">>, <<"regional_reviewed", "approved">>, <<"reviewed", "approved">>}

\* Mutant of KeptApart: the rules of migration 0024 alone.
KeptFromOversight(o, did, a) ==
    \A earlier \in {"captured", "regional_reviewed"} :
        <<earlier, did>> \in Rules => ~DidTo(o, earlier, a)

\* checkSegregation
KeptApart(o, did, a) == \A rule \in Rules : rule[2] = did => ~DidTo(o, rule[1], a)

\* A Regional Manager may capture: mayActAsCapturer.
HasRole(o, s) ==
    \/ s \in RolesOf[o]
    \/ s = "capture" /\ "regional_review" \in RolesOf[o]

\* assertMayAct
MayAct(o, s, a) ==
    /\ s \in enabled /\ HasRole(o, s)
    /\ status[a] = FromStatus(s) \/ (s = "capture" /\ status[a] \in Editable)
    /\ (s = "capture" /\ status[a] = "received") => o \in Online
    /\ IsGate(s) => s \notin passed[a]
    /\ UnmetGates(s, a) = {}
    /\ KeptApart(o, DidAt[s], a)

----------------------------------------------------------------------------
(* What must be ready *)

\* A payment that stands counts, whatever was given back on it.
Paid(a) == Takings(payment, a) # {}
Paying(a) == \E x \in LiveTransfers(a) : fees[x].status # "returned"

\* submissionReadiness: filed, and paid or being paid.
SubmissionReady(a) ==
    /\ \A d \in PapersOf(a) : Checklist(d) # "missing"
    /\ Paid(a) \/ Paying(a)

AllVerified(a) == \A d \in PapersOf(a) : Checklist(d) = "verified"

BoardReady(a) == AllVerified(a) /\ Paid(a)

\* What each forward checks of its own.
ForwardReady(s, a) ==
    /\ \A d \in PapersOf(a) : Checklist(d) # "rejected"
    /\ s = "regional_review" => AllVerified(a)
    /\ s = "secretary_review" => BoardReady(a)

----------------------------------------------------------------------------
(* Submission *)

\* Who has had the application in hand already, if the Regional Manager's
\* step is on: the one who submits it, or the one who captured it.
Oversight(o, a) ==
    IF "regional_review" \notin enabled THEN {}
    ELSE IF "regional_review" \in RolesOf[o] THEN {o}
    ELSE IF "regional_review" \in RolesOf[CapturedBy[a]] THEN {CapturedBy[a]} ELSE {}

BeginSubmit(q, a, o) ==
    /\ desk[q] = Idle /\ MayAct(o, "capture", a) /\ SubmissionReady(a)
    /\ Sits(q, [does |-> "submit", app |-> a, by |-> o, to |-> ToStatus("capture"),
                oversight |-> Oversight(o, a)])
    /\ UNCHANGED <<status, opened, money, papers, flow>>

\* Whoever had a hand in the capture.
Capturers(o, a) == {o, CapturedBy[a]}

CommitSubmit(q) ==
    LET a == desk[q].app
    IN  /\ desk[q].does = "submit"
        /\ status' = [status EXCEPT ![a] = desk[q].to]
        /\ passed' = [passed EXCEPT ![a] =
                        {"capture"} \cup (IF desk[q].oversight = {} THEN {} ELSE {"regional_review"})]
        /\ trail' = trail \cup {<<o, "captured", a>> : o \in Capturers(desk[q].by, a)}
                          \cup {<<o, "regional_reviewed", a>> : o \in desk[q].oversight}
        /\ Sits(q, Idle)
        /\ UNCHANGED <<opened, money, papers, enabled, signoffs>>

----------------------------------------------------------------------------
(* Review *)

\* reviewApplication, at either step; a return needs nothing to be ready.
BeginReview(q, a, o, s, forward) ==
    /\ desk[q] = Idle /\ s \in {"regional_review", "secretary_review"}
    /\ MayAct(o, s, a)
    /\ s = "secretary_review" => LiveTransfers(a) = {}
    /\ forward => ForwardReady(s, a)
    /\ Sits(q, [does |-> "review", app |-> a, by |-> o, step |-> s,
                to |-> IF forward THEN ToStatus(s) ELSE "returned"])
    /\ UNCHANGED <<status, opened, money, papers, flow>>

CommitReview(q) ==
    LET a == desk[q].app
    IN  /\ desk[q].does = "review"
        /\ status' = [status EXCEPT ![a] = desk[q].to]
        /\ passed' = [passed EXCEPT ![a] = @ \cup {desk[q].step}]
        /\ trail' = trail \cup {<<desk[q].by, DidAt[desk[q].step], a>>}
        /\ Sits(q, Idle)
        /\ UNCHANGED <<opened, money, papers, enabled, signoffs>>

----------------------------------------------------------------------------
(* The Board's decision *)

BeginDecide(q, a, o, outcome) ==
    /\ desk[q] = Idle /\ MayAct(o, "president_decision", a)
    /\ outcome = "approve" => LiveTransfers(a) = {}
    /\ Sits(q, [does |-> "decide", app |-> a, by |-> o, outcome |-> outcome,
                to |-> ToStatus("president_decision")])
    /\ UNCHANGED <<status, opened, money, papers, flow>>

\* Mutant of Voted: nothing keeps a person to one sign-off.
NeverVoted(o, a) == FALSE

\* application_step_signoff is append-only: one a person, on every pass.
Voted(o, a) == \E vote \in {"approve", "reject"} : <<o, vote, a>> \in signoffs

Approvals(a) == {o \in Officer : <<o, "approve", a>> \in signoffs}

\* Mutant of Enough: a vote to reject counts toward the quorum too.
EnoughOfAny(q) ==
    Cardinality({o \in Officer : Voted(o, desk[q].app)} \cup {desk[q].by}) >= Quorum

\* The sign-offs this transaction sees are those committed, and its own.
Enough(q) == Cardinality(Approvals(desk[q].app) \cup {desk[q].by}) >= Quorum

\* In its transaction: one sign-off a person, then the count.
Count(q) ==
    /\ desk[q].does = "decide"
    /\ ~Voted(desk[q].by, desk[q].app)
    /\ Sits(q, [does |-> "sign", app |-> desk[q].app, by |-> desk[q].by, outcome |-> desk[q].outcome,
                to |-> desk[q].to, done |-> desk[q].outcome = "reject" \/ Enough(q)])
    /\ UNCHANGED <<status, opened, money, papers, flow>>

\* One sign-off a person, whatever else commits meanwhile.
Signs(q) ==
    /\ desk[q].does = "sign"
    /\ ~Voted(desk[q].by, desk[q].app)
    /\ signoffs' = signoffs \cup {<<desk[q].by, desk[q].outcome, desk[q].app>>}
    /\ trail' = trail \cup {<<desk[q].by, "approved", desk[q].app>>}
    /\ Sits(q, Idle)
    /\ UNCHANGED <<receipt, fees, drawer, papers, enabled>>

Settles(q, to) ==
    /\ status' = [status EXCEPT ![desk[q].app] = to]
    /\ passed' = [passed EXCEPT ![desk[q].app] = @ \cup {"president_decision"}]

\* Recorded, and not enough yet.
CommitSignoff(q) == Signs(q) /\ ~desk[q].done /\ UNCHANGED <<status, passed, opened, payment>>

CommitReject(q) ==
    /\ Signs(q) /\ desk[q].done /\ desk[q].outcome = "reject"
    /\ Settles(q, "rejected")
    /\ UNCHANGED <<opened, payment>>

\* The member and the accounts are made, and the receipts carried onto them,
\* in the same transaction; an application makes one member.
CommitApprove(q) ==
    /\ Signs(q) /\ desk[q].done /\ desk[q].outcome = "approve"
    /\ desk[q].app \notin opened
    /\ Settles(q, desk[q].to)
    /\ opened' = opened \cup {desk[q].app}
    /\ payment' = Carried(payment, desk[q].app)

----------------------------------------------------------------------------
(* The rest *)

\* reopenRejectedApplication
BeginReopen(q, a, o) ==
    /\ desk[q] = Idle /\ HasRole(o, "capture") /\ status[a] = "rejected"
    /\ Sits(q, [does |-> "reopen", app |-> a])
    /\ UNCHANGED <<status, opened, money, papers, flow>>

CommitReopen(q) ==
    /\ desk[q].does = "reopen"
    /\ status' = [status EXCEPT ![desk[q].app] = "returned"]
    /\ Sits(q, Idle)
    /\ UNCHANGED <<opened, money, papers, flow>>

\* setStepEnabled: never the last one.
Switch(s) ==
    /\ s \in Switched
    /\ enabled' = IF s \in enabled THEN enabled \ {s} ELSE enabled \cup {s}
    /\ enabled' # {}
    /\ UNCHANGED <<status, desk, opened, money, papers, passed, signoffs, trail>>

FlowStep ==
    \/ \E q \in Request, a \in Application, o \in Officer :
        \/ BeginSubmit(q, a, o) \/ BeginReopen(q, a, o)
        \/ \E outcome \in {"approve", "reject"} : BeginDecide(q, a, o, outcome)
        \/ \E s \in Step, forward \in BOOLEAN : BeginReview(q, a, o, s, forward)
    \/ \E q \in Request : \/ CommitSubmit(q) \/ CommitReview(q) \/ Count(q) \/ CommitSignoff(q)
                          \/ CommitReject(q) \/ CommitApprove(q) \/ CommitReopen(q)
    \/ \E s \in Step : Switch(s)

Init ==
    /\ EmptyTill /\ NoPapers
    /\ status \in [Application -> {"draft", "received"}]
    /\ opened = {}
    /\ enabled = Step \ Gate
    /\ passed = [a \in Application |-> {}]
    /\ signoffs = {} /\ trail = {}

Next ==
    \/ FeeStep /\ UNCHANGED <<papers, flow>>
    \/ PaperStep /\ UNCHANGED <<opened, money, flow>>
    \/ FlowStep

Spec == Init /\ [][Next]_vars

----------------------------------------------------------------------------
(* Properties *)

\* A member is made, once, by as many people as the quorum asks for, each of
\* whom approved; an application reads approved only with its member made,
\* through any returns, rejections and reopenings before (workflow.ts,
\* decideApplication).
AdmittedByQuorum ==
    /\ \A a \in opened : Cardinality(Approvals(a)) >= Quorum
    /\ \A a \in Application : status[a] = "approved" => a \in opened

\* Nobody's review or decision lands on an application they had captured or
\* overseen by then, nor a decision on one they had reviewed (0009, 0024),
\* the officer whose draft it was included, though somebody else submitted it:
\* not when they looked, and not after what came in between.
PeopleKeptApart ==
    [][\A a \in Application, o \in Officer, rule \in Rules :
         (~DidTo(o, rule[2], a) /\ <<o, rule[2], a>> \in trail' /\ rule[2] \in {"reviewed", "approved"}) =>
            /\ ~DidTo(o, rule[1], a)
            /\ ~(rule[1] = "captured" /\ o = CapturedBy[a])]_vars
=============================================================================
