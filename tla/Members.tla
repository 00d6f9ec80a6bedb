------------------------------ MODULE Members ------------------------------
(***************************************************************************)
(* A member's record once admitted (lib/members): details a member asks to *)
(* change from the app and staff verify, corrections at a branch meanwhile *)
(* (lib/member/profile, details-requests, contact), the guardian of a      *)
(* minor, and the nightly jobs for dormancy and for majority.              *)
(*                                                                         *)
(* What a handler reads before its database transaction is carried to it   *)
(* in a request, so anything may come between.                             *)
(***************************************************************************)
CONSTANTS
    Holder,          \* those whose record this is: minors to begin with
    Adult,           \* members who may be a guardian
    Field,           \* fields of the applicant's details
    SignInField,     \* the mobile and the email a member signs in with
    AlwaysEditable,  \* fields a counter edit may change once filled
    Value,           \* what a field may hold
    Empty,           \* an empty field
    Verifier,        \* staff
    Counter          \* requests that may be under way at once

ASSUME FieldAssumption == SignInField \subseteq Field /\ AlwaysEditable \subseteq Field /\ Empty \in Value

VARIABLES
    details,   \* application_party.values of the applicant
    form,      \* what the app shows and the member has typed
    asked,     \* member_details_request, the one last sent; its contents
               \* while it is pending
    guardian,  \* the guardian block: who it names
    change,    \* guardian_change, while it is submitted
    minor,     \* whether the membership type is the minor's
    standing,  \* member.status of the adults
    quiet,     \* no activity for the configured months
    counter    \* requests under way

people == <<details, form, asked, guardian, change, minor, standing, quiet, counter>>

NoForm == [open |-> FALSE]
NotAsked == [status |-> "none"]
NoChange == [open |-> FALSE]
NobodyThere == [does |-> "nothing"]

MembersInit ==
    /\ details = [h \in Holder |-> [f \in Field |-> Empty]]
    /\ form = [h \in Holder |-> NoForm]
    /\ asked = [h \in Holder |-> NotAsked]
    /\ guardian \in [Holder -> Adult]
    /\ change = [h \in Holder |-> NoChange]
    /\ minor = [h \in Holder |-> TRUE]
    /\ standing = [a \in Adult |-> "active"]
    /\ quiet = [a \in Adult |-> FALSE]
    /\ counter = [q \in Counter |-> NobodyThere]

Serve(q, request) == counter' = [counter EXCEPT ![q] = request]

-----------------------------------------------------------------------------
(* Details                                                                 *)

\* GET profile: the form carries the record as it stands.
OpenForm(h) ==
    /\ form' = [form EXCEPT ![h] = [open |-> TRUE, values |-> details[h]]]
    /\ UNCHANGED <<details, asked, guardian, change, minor, standing, quiet, counter>>

TypeIn(h, f, v) ==
    /\ form[h].open
    /\ form[h].values[f] # v
    /\ form' = [form EXCEPT ![h].values[f] = v]
    /\ UNCHANGED <<details, asked, guardian, change, minor, standing, quiet, counter>>

\* The fields in which what a member sends differs from what they had.
DiffersFrom(values, previous) == {f \in Field : values[f] # previous[f]}

\* submitDetails: the whole form comes back; the mobile and the email are
\* what the record says, whatever was typed.
BeginSubmitDetails(q, h) ==
    /\ counter[q] = NobodyThere
    /\ form[h].open
    /\ Serve(q, [does |-> "submit", holder |-> h,
                 parties |-> [f \in Field |-> IF f \in SignInField THEN details[h][f] ELSE form[h].values[f]]])
    /\ form' = [form EXCEPT ![h] = NoForm]
    /\ UNCHANGED <<details, asked, guardian, change, minor, standing, quiet>>

\* What the record holds right now, read again; a form that changes nothing
\* is not a request.
ReadPrevious(q) ==
    LET h == counter[q].holder
    IN  /\ counter[q].does = "submit"
        /\ IF DiffersFrom(counter[q].parties, details[h]) = {} THEN Serve(q, NobodyThere)
           ELSE Serve(q, [does |-> "request", holder |-> h, parties |-> counter[q].parties, previous |-> details[h]])
        /\ UNCHANGED <<details, form, asked, guardian, change, minor, standing, quiet>>

\* One pending request a member, by a unique index.
CommitSubmitDetails(q) ==
    LET h == counter[q].holder
    IN  /\ counter[q].does = "request"
        /\ asked' = IF asked[h].status = "pending" THEN asked
                    ELSE [asked EXCEPT ![h] = [status |-> "pending", parties |-> counter[q].parties,
                                               previous |-> counter[q].previous]]
        /\ Serve(q, NobodyThere)
        /\ UNCHANGED <<details, form, guardian, change, minor, standing, quiet>>

\* Mutant of ChangesIn: against the record as it stands.
ChangesNow(request, now) == DiffersFrom(request.parties, now)

\* changesIn: measured against what the record held when they submitted.
ChangesIn(request, now) == DiffersFrom(request.parties, request.previous)

\* Only what changed is written, onto the record as it stands.
ApplyDetailsRequest(h) ==
    /\ asked[h].status = "pending"
    /\ details' = [details EXCEPT ![h] = [f \in Field |->
                     IF f \in ChangesIn(asked[h], details[h]) THEN asked[h].parties[f] ELSE @[f]]]
    /\ asked' = [asked EXCEPT ![h] = [status |-> "applied"]]
    /\ UNCHANGED <<form, guardian, change, minor, standing, quiet, counter>>

DeclineDetailsRequest(h) ==
    /\ asked[h].status = "pending"
    /\ asked' = [asked EXCEPT ![h] = [status |-> "declined"]]
    /\ UNCHANGED <<details, form, guardian, change, minor, standing, quiet, counter>>

\* updateContactDetails, the party locked: a filled field outside the ones
\* always editable is locked unless the officer may edit all.
UpdateContactDetails(h, f, v, all) ==
    /\ all \/ f \in AlwaysEditable \/ details[h][f] = Empty
    /\ details[h][f] # v
    /\ details' = [details EXCEPT ![h][f] = v]
    /\ UNCHANGED <<form, asked, guardian, change, minor, standing, quiet, counter>>

-----------------------------------------------------------------------------
(* Guardians                                                               *)

\* recordGuardianChange: the minor, the guardian they have and the new one
\* are read before the insert.
BeginGuardianChange(q, h, a, by) ==
    /\ counter[q] = NobodyThere
    /\ minor[h]
    /\ standing[guardian[h]] = "demised"
    /\ standing[a] = "active"
    /\ Serve(q, [does |-> "guardian", holder |-> h, to |-> a, by |-> by])
    /\ UNCHANGED <<details, form, asked, guardian, change, minor, standing, quiet>>

CommitGuardianChange(q) ==
    LET h == counter[q].holder
    IN  /\ counter[q].does = "guardian"
        /\ change' = IF change[h].open THEN change
                     ELSE [change EXCEPT ![h] = [open |-> TRUE, to |-> counter[q].to, by |-> counter[q].by]]
        /\ Serve(q, NobodyThere)
        /\ UNCHANGED <<details, form, asked, guardian, minor, standing, quiet>>

\* decideGuardianChange, the change locked: by someone else, and the new
\* guardian still active.
ApproveGuardianChange(h, by) ==
    /\ change[h].open
    /\ change[h].by # by
    /\ standing[change[h].to] = "active"
    /\ guardian' = [guardian EXCEPT ![h] = change[h].to]
    /\ change' = [change EXCEPT ![h] = NoChange]
    /\ UNCHANGED <<details, form, asked, minor, standing, quiet, counter>>

RejectGuardianChange(h, by) ==
    /\ change[h].open
    /\ change[h].by # by
    /\ change' = [change EXCEPT ![h] = NoChange]
    /\ UNCHANGED <<details, form, asked, guardian, minor, standing, quiet, counter>>

CancelGuardianChange(h, by) ==
    /\ change[h].open
    /\ change[h].by = by
    /\ change' = [change EXCEPT ![h] = NoChange]
    /\ UNCHANGED <<details, form, asked, guardian, minor, standing, quiet, counter>>

-----------------------------------------------------------------------------
(* The nightly jobs                                                        *)

\* Time passes over an account nobody uses; and an entry ends the wait.
GrowQuiet(a) ==
    /\ standing[a] = "active" /\ ~quiet[a]
    /\ quiet' = [quiet EXCEPT ![a] = TRUE]
    /\ UNCHANGED <<details, form, asked, guardian, change, minor, standing, counter>>

Stir(a) ==
    /\ standing[a] \in {"active", "dormant"} /\ quiet[a]
    /\ quiet' = [quiet EXCEPT ![a] = FALSE]
    /\ UNCHANGED <<details, form, asked, guardian, change, minor, standing, counter>>

\* detectDormancy: who is due is read first; each is marked if still active.
BeginDormancy(q) ==
    /\ counter[q] = NobodyThere
    /\ \A p \in Counter : counter[p].does # "dormancy"
    /\ Serve(q, [does |-> "dormancy", due |-> {a \in Adult : standing[a] = "active" /\ quiet[a]}])
    /\ UNCHANGED <<details, form, asked, guardian, change, minor, standing, quiet>>

CommitDormancy(q) ==
    /\ counter[q].does = "dormancy"
    /\ standing' = [a \in Adult |-> IF a \in counter[q].due /\ standing[a] = "active" THEN "dormant" ELSE standing[a]]
    /\ Serve(q, NobodyThere)
    /\ UNCHANGED <<details, form, asked, guardian, change, minor, quiet>>

\* Reactivating counts as activity.
ReactivateMember(a) ==
    /\ standing[a] = "dormant"
    /\ standing' = [standing EXCEPT ![a] = "active"]
    /\ quiet' = [quiet EXCEPT ![a] = FALSE]
    /\ UNCHANGED <<details, form, asked, guardian, change, minor, counter>>

\* transitionMinorsAtMajority.
ComesOfAge(h) ==
    /\ minor[h]
    /\ minor' = [minor EXCEPT ![h] = FALSE]
    /\ UNCHANGED <<details, form, asked, guardian, change, standing, quiet, counter>>

\* A resignation or a death, posted (Exits).
Leaves(a, how) ==
    /\ standing[a] \in {"active", "dormant"}
    /\ standing' = [standing EXCEPT ![a] = how]
    /\ UNCHANGED <<details, form, asked, guardian, change, minor, quiet, counter>>

ServerDies(q) ==
    /\ counter[q] # NobodyThere
    /\ Serve(q, NobodyThere)
    /\ UNCHANGED <<details, form, asked, guardian, change, minor, standing, quiet>>

DetailsNext ==
    \/ \E h \in Holder :
         \/ OpenForm(h) \/ ApplyDetailsRequest(h) \/ DeclineDetailsRequest(h)
         \/ \E f \in Field, v \in Value : TypeIn(h, f, v) \/ \E all \in BOOLEAN : UpdateContactDetails(h, f, v, all)
    \/ \E q \in Counter :
         ReadPrevious(q) \/ CommitSubmitDetails(q) \/ \E h \in Holder : BeginSubmitDetails(q, h)

GuardianNext ==
    \/ \E h \in Holder, by \in Verifier :
         \/ ApproveGuardianChange(h, by) \/ RejectGuardianChange(h, by) \/ CancelGuardianChange(h, by)
         \/ \E q \in Counter, a \in Adult : BeginGuardianChange(q, h, a, by)
    \/ \E q \in Counter : CommitGuardianChange(q) \/ BeginDormancy(q) \/ CommitDormancy(q)
    \/ \E a \in Adult :
         GrowQuiet(a) \/ Stir(a) \/ ReactivateMember(a) \/ \E how \in {"resigned", "demised"} : Leaves(a, how)
    \/ \E h \in Holder : ComesOfAge(h)

MembersNext == DetailsNext \/ GuardianNext \/ \E q \in Counter : ServerDies(q)

MembersSpec == MembersInit /\ [][MembersNext]_people

-----------------------------------------------------------------------------
(* Properties                                                              *)

Applied(h) == asked[h].status = "pending" /\ asked'[h].status = "applied"

\* A correction made at a branch while a request waits survives applying it:
\* a field that, when the request was sent, said what the record said is left
\* as it stands now.
CorrectionsSurvive ==
    [][\A h \in Holder : Applied(h) =>
         \A f \in Field : asked[h].parties[f] = asked[h].previous[f] => details'[h][f] = details[h][f]]_people
=============================================================================
