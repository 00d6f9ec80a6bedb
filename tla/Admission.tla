----------------------------- MODULE Admission -----------------------------
(***************************************************************************)
(* What an application stands for and what its approval makes: captured    *)
(* for somebody new, for a further account, for a customer who joins, for  *)
(* a member who comes back, at the branch, in the member app or on the     *)
(* website (lib/applications/capture, lib/member/applications,             *)
(* lib/api/public-applications), and turned into a member or a customer    *)
(* and their accounts (lib/members/create).                                *)
(*                                                                         *)
(* A person is their NIC.  A member and a customer are named by the        *)
(* application that made them, an account by the application that opened   *)
(* it and its type.  What the reviewers do in between is in Applications.  *)
(***************************************************************************)
EXTENDS FiniteSets

CONSTANTS
    App,      \* applications
    Nic,      \* persons
    Blank,    \* an NIC not entered
    Default,  \* account types opened on a membership's approval
    Further,  \* the others
    Clerk     \* requests that may be under way at once

ASSUME TypesAssumption == Default \cap Further = {}

VARIABLES
    file,      \* membership_application
    member,    \* member, by the application that made it
    customer,  \* customer, likewise
    held,      \* account, by who opened it and its type
    clerk      \* requests under way

admission == <<file, member, customer, held, clerk>>

None == [kind |-> "none"]
NoFile == [status |-> "absent"]
Deleted == [status |-> "deleted"]
NotAMember == [status |-> "absent"]
NotACustomer == [status |-> "absent"]
NotHeld == [open |-> FALSE, owner |-> None]
Away == [does |-> "nothing"]

AsMember(m) == [kind |-> "member", of |-> m]
AsCustomer(c) == [kind |-> "customer", of |-> c]

AdmissionInit ==
    /\ file = [a \in App |-> NoFile]
    /\ member = [a \in App |-> NotAMember]
    /\ customer = [a \in App |-> NotACustomer]
    /\ held = [x \in App \X (Default \cup Further) |-> NotHeld]
    /\ clerk = [q \in Clerk |-> Away]

At(q, request) == clerk' = [clerk EXCEPT ![q] = request]

Exists(a) == file[a] \notin {NoFile, Deleted}
OnItsWay(a) == Exists(a) /\ file[a].status \notin {"approved", "rejected"}

\* A request at its next write; one that finds its row gone fails (ClerkGone).
Doing(q, what) == clerk[q].does = what /\ Exists(clerk[q].app)

\* What an officer, or an applicant, may still edit.
MayEdit(a) == file[a].status \in {"draft", "returned", "received"}
ApplicantMayEdit(a) == file[a].status \in {"draft", "returned"}

-----------------------------------------------------------------------------
(* Starting                                                                *)

\* A row with nothing in it but who it is about; it is its own folder's root
\* unless somebody has one already.
NewFile(a) ==
    [status |-> "draft", kind |-> "membership", nic |-> Blank, opens |-> {},
     source |-> None, rejoins |-> None, holder |-> None, root |-> a, online |-> FALSE]

Inserts(a, row) ==
    /\ file[a] = NoFile
    /\ file' = [file EXCEPT ![a] = row]

\* startApplication and startApplicationWithValues: nothing exists until a
\* value does.
StartApplication(a) ==
    /\ Inserts(a, NewFile(a))
    /\ UNCHANGED <<member, customer, held, clerk>>

StartApplicationWithValues(a, n) ==
    /\ Inserts(a, [NewFile(a) EXCEPT !.nic = n])
    /\ UNCHANGED <<member, customer, held, clerk>>

\* canOpenAccount: a member who resigned keeps what was never the
\* membership's, and may open more of it.
CanOpenAccount(m) == member[m].status \in {"active", "resigned"}
MayHaveMore(c) == customer[c].status \in {"active", "closed"}

\* startAdditionalAccountApplication: never one of the types a membership's
\* approval opens; checked and written in one transaction.
StartAdditional(a, m, t) ==
    /\ CanOpenAccount(m)
    /\ Inserts(a, [NewFile(a) EXCEPT !.kind = "additional", !.opens = {t}, !.holder = AsMember(m),
                                     !.root = file[member[m].filed].root])
    /\ UNCHANGED <<member, customer, held, clerk>>

StartCustomerAdditional(a, c, t) ==
    /\ MayHaveMore(c)
    /\ Inserts(a, [NewFile(a) EXCEPT !.kind = "additional", !.opens = {t}, !.holder = AsCustomer(c),
                                     !.root = file[c].root])
    /\ UNCHANGED <<member, customer, held, clerk>>

StartCustomerAccount(a, t) ==
    /\ Inserts(a, [NewFile(a) EXCEPT !.kind = "customer", !.opens = {t}])
    /\ UNCHANGED <<member, customer, held, clerk>>

\* startMembershipApplicationFromCustomer: the customer is read before the
\* transaction, their values and their folder are copied in it.
BeginStartFromCustomer(q, c) ==
    /\ clerk[q] = Away
    /\ MayHaveMore(c)
    /\ At(q, [does |-> "convert", customer |-> c])
    /\ UNCHANGED <<file, member, customer, held>>

CommitStartFromCustomer(q, a) ==
    LET c == clerk[q].customer
    IN  /\ clerk[q].does = "convert"
        /\ Inserts(a, [NewFile(a) EXCEPT !.nic = file[c].nic, !.source = AsCustomer(c), !.root = file[c].root])
        /\ At(q, Away)
        /\ UNCHANGED <<member, customer, held>>

\* startRejoinApplication: so are the member, and that no rejoin of theirs
\* is on its way.
BeginStartRejoin(q, m) ==
    /\ clerk[q] = Away
    /\ member[m].status = "resigned"
    /\ \A a \in App : OnItsWay(a) => file[a].rejoins # AsMember(m)
    /\ At(q, [does |-> "rejoin", member |-> m])
    /\ UNCHANGED <<file, member, customer, held>>

CommitStartRejoin(q, a) ==
    LET m == clerk[q].member
        founding == file[member[m].filed]
    IN  /\ clerk[q].does = "rejoin"
        /\ Inserts(a, [NewFile(a) EXCEPT !.nic = founding.nic, !.rejoins = AsMember(m), !.root = founding.root])
        /\ At(q, Away)
        /\ UNCHANGED <<member, customer, held>>

\* startMemberApplication: none in progress for this mobile, read before;
\* the row is tied to the mobile after it was inserted.
InProgressOnline == \E a \in App : OnItsWay(a) /\ file[a].online

BeginStartOnline(q) ==
    /\ clerk[q] = Away
    /\ ~InProgressOnline
    /\ At(q, [does |-> "insert"])
    /\ UNCHANGED <<file, member, customer, held>>

InsertOnline(q, a) ==
    /\ clerk[q].does = "insert"
    /\ Inserts(a, NewFile(a))
    /\ At(q, [does |-> "tie", app |-> a])
    /\ UNCHANGED <<member, customer, held>>

TieOnline(q) ==
    /\ Doing(q, "tie")
    /\ file' = [file EXCEPT ![clerk[q].app].online = TRUE]
    /\ At(q, Away)
    /\ UNCHANGED <<member, customer, held>>

-----------------------------------------------------------------------------
(* Who an NIC is on file for                                               *)

\* Every application of one person shares a folder.
OwnRoots(a) == {file[a].root}
    \cup {file[o].root : o \in {x \in App :
            /\ Exists(x) /\ file[a].rejoins # None
            /\ x = member[file[a].rejoins.of].filed \/ file[a].rejoins \in {file[x].rejoins, file[x].holder}}}
    \cup {file[o].root : o \in {x \in App :
            /\ Exists(x) /\ file[a].source # None
            /\ x = file[a].source.of \/ file[x].holder = file[a].source}}

MemberHolds(a) ==
    \E m \in App :
        /\ member[m] # NotAMember /\ AsMember(m) # file[a].rejoins
        /\ member[m].filed # a /\ file[member[m].filed].nic = file[a].nic

CustomerHolds(a) ==
    \E c \in App \ {a} :
        /\ customer[c] # NotACustomer /\ AsCustomer(c) # file[a].source
        /\ file[a].rejoins # None => customer[c].status # "converted"
        /\ file[c].nic = file[a].nic

\* Mutant of Carries: an application carries an NIC once it is submitted.
CarriesSubmitted(x) == file[x].status \in {"submitted", "approved"}

\* "An application already carrying this NIC": a draft as well as one before
\* the Board; only a rejected one frees it.
Carries(x) == Exists(x) /\ file[x].status # "rejected"

\* findNicHolder
NicTaken(a) ==
    /\ file[a].nic # Blank
    /\ \/ MemberHolds(a) \/ CustomerHolds(a)
       \/ \E x \in App \ {a} : Carries(x) /\ file[x].nic = file[a].nic /\ file[x].root \notin OwnRoots(a)

\* problemsBlockingSubmission: a further account has no applicant to check.
NoProblems(a) == file[a].kind = "additional" \/ (file[a].nic # Blank /\ ~NicTaken(a))

-----------------------------------------------------------------------------
(* Capture                                                                 *)

\* saveDraft: the status is read before the transaction that writes what was
\* typed; an application for a further account has nothing to save.
BeginSave(q, a, n) ==
    /\ clerk[q] = Away
    /\ MayEdit(a) /\ file[a].kind # "additional"
    /\ At(q, [does |-> "save", app |-> a, nic |-> n])
    /\ UNCHANGED <<file, member, customer, held>>

\* saveMemberApplication: an applicant no longer edits what the branch has
\* received.
BeginSaveOnline(q, a, n) ==
    /\ ApplicantMayEdit(a) /\ file[a].online
    /\ BeginSave(q, a, n)

CommitSave(q) ==
    /\ Doing(q, "save")
    /\ file' = [file EXCEPT ![clerk[q].app].nic = clerk[q].nic]
    /\ At(q, Away)
    /\ UNCHANGED <<member, customer, held>>

\* deleteDraftApplication and deleteMemberDraft: the status under a lock,
\* and nobody having acted on it.
DeleteDraft(a) ==
    /\ file[a].status = "draft"
    /\ file' = [file EXCEPT ![a] = Deleted]
    /\ UNCHANGED <<member, customer, held, clerk>>

\* submitApplication at the branch, and submitMemberApplication: the problems
\* are looked for first, the status is written afterwards.
BeginSubmit(q, a) ==
    /\ clerk[q] = Away
    /\ MayEdit(a) /\ NoProblems(a)
    /\ At(q, [does |-> "submit", app |-> a, to |-> "submitted"])
    /\ UNCHANGED <<file, member, customer, held>>

BeginSubmitOnline(q, a) ==
    /\ clerk[q] = Away
    /\ ApplicantMayEdit(a) /\ file[a].online /\ NoProblems(a)
    /\ At(q, [does |-> "submit", app |-> a, to |-> "received"])
    /\ UNCHANGED <<file, member, customer, held>>

CommitSubmit(q) ==
    /\ Doing(q, "submit")
    /\ file' = [file EXCEPT ![clerk[q].app].status = clerk[q].to]
    /\ At(q, Away)
    /\ UNCHANGED <<member, customer, held>>

\* submitPublicApplication: nobody applying from this number, then the row,
\* the form, and the problems: with any of those nothing is left behind.
BeginPublic(q, n) ==
    /\ clerk[q] = Away
    /\ ~InProgressOnline
    /\ At(q, [does |-> "apply", nic |-> n])
    /\ UNCHANGED <<file, member, customer, held>>

InsertPublic(q, a) ==
    /\ clerk[q].does = "apply"
    /\ Inserts(a, NewFile(a))
    /\ At(q, [does |-> "fill", app |-> a, nic |-> clerk[q].nic])
    /\ UNCHANGED <<member, customer, held>>

FillPublic(q) ==
    /\ Doing(q, "fill")
    /\ file' = [file EXCEPT ![clerk[q].app].nic = clerk[q].nic]
    /\ At(q, [does |-> "check", app |-> clerk[q].app])
    /\ UNCHANGED <<member, customer, held>>

CheckPublic(q) ==
    LET a == clerk[q].app
    IN  /\ Doing(q, "check")
        /\ IF NoProblems(a)
           THEN At(q, [does |-> "receive", app |-> a]) /\ UNCHANGED file
           ELSE At(q, Away) /\ file' = IF file[a].status = "draft" THEN [file EXCEPT ![a] = Deleted] ELSE file
        /\ UNCHANGED <<member, customer, held>>

ReceivePublic(q) ==
    /\ Doing(q, "receive")
    /\ file' = [file EXCEPT ![clerk[q].app] = [@ EXCEPT !.status = "received", !.online = TRUE]]
    /\ At(q, Away)
    /\ UNCHANGED <<member, customer, held>>

-----------------------------------------------------------------------------
(* Decision (Applications has who may, and when)                           *)

Return(a) ==
    /\ file[a].status = "submitted"
    /\ file' = [file EXCEPT ![a].status = "returned"]
    /\ UNCHANGED <<member, customer, held, clerk>>

Reject(a) ==
    /\ file[a].status = "submitted"
    /\ file' = [file EXCEPT ![a].status = "rejected"]
    /\ UNCHANGED <<member, customer, held, clerk>>

\* reopenRejectedApplication
Reopen(a) ==
    /\ file[a].status = "rejected"
    /\ file' = [file EXCEPT ![a].status = "returned"]
    /\ UNCHANGED <<member, customer, held, clerk>>

Approves(a, kind) ==
    /\ file[a].status = "submitted" /\ file[a].kind = kind
    /\ file' = [file EXCEPT ![a].status = "approved"]

AccountsOf(owner) == {x \in DOMAIN held : held[x].owner = owner}
OpenOf(owner) == {x \in AccountsOf(owner) : held[x].open}

\* Mutant of ClosedOf: a closed account stays closed.
NeverClosedOf(owner, t) == {}

\* closedAccountsOf
ClosedOf(owner, t) == {x \in AccountsOf(owner) : x[2] = t /\ ~held[x].open}

\* A closed account of the type comes back as itself (reopenClosedAccount);
\* otherwise one opens.
Opened(a, owner, types) ==
    [x \in DOMAIN held |->
        IF \E t \in types : ClosedOf(owner, t) # {} /\ x = CHOOSE y \in ClosedOf(owner, t) : TRUE
        THEN [held[x] EXCEPT !.open = TRUE]
        ELSE IF x[1] = a /\ x[2] \in types /\ ClosedOf(owner, x[2]) = {} THEN [open |-> TRUE, owner |-> owner]
        ELSE held[x]]

AlreadyOpen(owner, types) == \E x \in OpenOf(owner) : x[2] \in types

\* createMemberFromApplication for somebody new.
CreateMember(a) ==
    /\ Approves(a, "membership") /\ Default # {}
    /\ file[a].rejoins = None /\ file[a].source = None
    /\ member' = [member EXCEPT ![a] = [status |-> "active", filed |-> a]]
    /\ held' = Opened(a, AsMember(a), Default)
    /\ UNCHANGED <<customer, clerk>>

\* And for a customer: the accounts they hold are read in the transaction
\* that moves them, and none is locked.
BeginCreateFromCustomer(q, a) ==
    /\ clerk[q] = Away
    /\ file[a].status = "submitted" /\ file[a].kind = "membership" /\ file[a].source # None
    /\ At(q, [does |-> "admit", app |-> a, moves |-> AccountsOf(file[a].source)])
    /\ UNCHANGED <<file, member, customer, held>>

CommitCreateFromCustomer(q) ==
    LET a == clerk[q].app
        fresh == Opened(a, AsMember(a), Default)
    IN  /\ clerk[q].does = "admit"
        /\ Approves(a, "membership")
        /\ member' = [member EXCEPT ![a] = [status |-> "active", filed |-> a]]
        /\ held' = [x \in DOMAIN held |->
                      IF x \in clerk[q].moves THEN [fresh[x] EXCEPT !.owner = AsMember(a)] ELSE fresh[x]]
        /\ customer' = [customer EXCEPT ![file[a].source.of].status = "converted"]
        /\ At(q, Away)

\* rejoinMember
RejoinMember(a) ==
    LET m == file[a].rejoins.of
    IN  /\ Approves(a, "membership") /\ Default # {}
        /\ file[a].rejoins # None /\ member[m].status = "resigned"
        /\ ~AlreadyOpen(AsMember(m), Default)
        /\ member' = [member EXCEPT ![m] = [status |-> "active", filed |-> a]]
        /\ held' = Opened(a, AsMember(m), Default)
        /\ UNCHANGED <<customer, clerk>>

\* openAccountsForApplication
OpenForMember(a) ==
    LET m == file[a].holder.of
    IN  /\ Approves(a, "additional") /\ file[a].holder = AsMember(m)
        /\ CanOpenAccount(m)
        /\ ~AlreadyOpen(AsMember(m), file[a].opens)
        /\ held' = Opened(a, AsMember(m), file[a].opens)
        /\ UNCHANGED <<member, customer, clerk>>

\* openAccountsUnderCustomer: a customer whose every account was closed is
\* active again.
OpenUnderCustomer(a) ==
    LET c == file[a].holder.of
    IN  /\ Approves(a, "additional") /\ file[a].holder = AsCustomer(c)
        /\ MayHaveMore(c)
        /\ ~AlreadyOpen(AsCustomer(c), file[a].opens)
        /\ held' = Opened(a, AsCustomer(c), file[a].opens)
        /\ customer' = [customer EXCEPT ![c].status = "active"]
        /\ UNCHANGED <<member, clerk>>

\* openAccountsForCustomerApplication
OpenForNewCustomer(a) ==
    /\ Approves(a, "customer")
    /\ customer' = [customer EXCEPT ![a] = [status |-> "active"]]
    /\ held' = Opened(a, AsCustomer(a), file[a].opens)
    /\ UNCHANGED <<member, clerk>>

-----------------------------------------------------------------------------
(* What the exits do (Exits has how)                                       *)

\* A resignation closes the accounts that were the membership's.
Resign(m) ==
    /\ member[m].status = "active"
    /\ member' = [member EXCEPT ![m].status = "resigned"]
    /\ held' = [x \in DOMAIN held |->
                  IF x \in AccountsOf(AsMember(m)) /\ x[2] \in Default THEN [held[x] EXCEPT !.open = FALSE]
                  ELSE held[x]]
    /\ UNCHANGED <<file, customer, clerk>>

\* A closure; a customer's last one leaves them closed.
CloseAccount(x) ==
    LET owner == held[x].owner
    IN  /\ held[x].open /\ x[2] \in Further
        /\ held' = [held EXCEPT ![x].open = FALSE]
        /\ customer' = IF owner.kind = "customer" /\ OpenOf(owner) = {x} /\ customer[owner.of].status = "active"
                       THEN [customer EXCEPT ![owner.of].status = "closed"] ELSE customer
        /\ UNCHANGED <<file, member, clerk>>

\* A server dies between two of its steps, or a step fails.
ClerkGone(q) ==
    /\ clerk[q] # Away
    /\ At(q, Away)
    /\ UNCHANGED <<file, member, customer, held>>

Captures ==
    \/ \E a \in App, n \in Nic : StartApplicationWithValues(a, n)
    \/ \E a \in App : StartApplication(a) \/ DeleteDraft(a)
    \/ \E a, x \in App, t \in Further : StartAdditional(a, x, t) \/ StartCustomerAdditional(a, x, t)
    \/ \E a \in App, t \in Further : StartCustomerAccount(a, t)
    \/ \E q \in Clerk, a \in App, n \in Nic : BeginSave(q, a, n) \/ BeginSaveOnline(q, a, n)
    \/ \E q \in Clerk, a \in App :
        \/ BeginStartFromCustomer(q, a) \/ CommitStartFromCustomer(q, a)
        \/ BeginStartRejoin(q, a) \/ CommitStartRejoin(q, a)
        \/ InsertOnline(q, a) \/ InsertPublic(q, a)
        \/ BeginSubmit(q, a) \/ BeginSubmitOnline(q, a)
    \/ \E q \in Clerk, n \in Nic : BeginPublic(q, n)
    \/ \E q \in Clerk : \/ BeginStartOnline(q) \/ TieOnline(q) \/ CommitSave(q) \/ CommitSubmit(q)
                        \/ FillPublic(q) \/ CheckPublic(q) \/ ReceivePublic(q) \/ ClerkGone(q)

Decides ==
    \/ \E a \in App : \/ Return(a) \/ Reject(a) \/ Reopen(a)
                      \/ CreateMember(a) \/ RejoinMember(a) \/ OpenForMember(a)
                      \/ OpenUnderCustomer(a) \/ OpenForNewCustomer(a)
    \/ \E q \in Clerk, a \in App : BeginCreateFromCustomer(q, a)
    \/ \E q \in Clerk : CommitCreateFromCustomer(q)

Goes ==
    \/ \E m \in App : Resign(m)
    \/ \E x \in App \X (Default \cup Further) : CloseAccount(x)

AdmissionNext == Captures \/ Decides \/ Goes

AdmissionSpec == AdmissionInit /\ [][AdmissionNext]_admission

-----------------------------------------------------------------------------
(* Properties                                                              *)

\* What the two invariants suppose: an application is open in one tab.  From a
\* second, a submission begun earlier is written over an approval.
OneTab ==
    \A p, q \in Clerk : p # q /\ "app" \in DOMAIN clerk[p] /\ "app" \in DOMAIN clerk[q] =>
        clerk[p].app # clerk[q].app

InTheChain(a) == file[a].status \in {"submitted", "approved"}

\* Two applications that are not of one folder are never both before the
\* Board, or approved, under one NIC: each looks for the other before it is
\* submitted, and one of the two looks second (capture.ts, findNicHolder).
OneApplicationAnNIC ==
    \A a, b \in App :
        (InTheChain(a) /\ InTheChain(b) /\ file[a].root # file[b].root /\ file[a].nic = file[b].nic) =>
            file[a].nic = Blank

\* Nobody ever has two accounts of one type, closed ones included: not when
\* they come back, not when they ask again, not when they take their
\* accounts with them into a membership (create.ts, closedAccountsOf).
OneAccountAType ==
    \A x, y \in DOMAIN held :
        (x # y /\ x[2] = y[2] /\ held[x].owner # None) => held[x].owner # held[y].owner

\* "An NIC identifies one person" (capture.ts:1950): no two members, whatever
\* their standing, are one person.
OnePersonOneMember ==
    \A m, o \in App :
        (member[m] # NotAMember /\ member[o] # NotAMember /\ m # o) =>
            file[member[m].filed].nic # file[member[o].filed].nic
=============================================================================
