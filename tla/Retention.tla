----------------------------- MODULE Retention -----------------------------
(***************************************************************************)
(* What is kept, and for how long (lib/retention; the deletions of         *)
(* lib/documents/documents.ts and lib/applications/capture.ts).            *)
(*                                                                         *)
(* A scan is one file in the drive. Rows name it: those of the application *)
(* or of the person it was filed for, and those of each application it was *)
(* carried onto since, which hold the same file. An application files into *)
(* a folder of its own, or into that of its person's first one; what is    *)
(* filed for a person goes into a third place.                             *)
(*                                                                         *)
(* One pass of the job is on at a time (Jobs). It reads, asks the drive,   *)
(* and writes, and everybody else's requests come in between.              *)
(***************************************************************************)
EXTENDS Integers, FiniteSets

CONSTANTS
    Dossier,  \* applications
    Person,   \* members, each with the application that founded them
    Founding,
    Scan,
    Class     \* what has a period of its own

ASSUME FoundingAssumption == Founding \in [Person -> Dossier] /\ Person \cap Dossier = {}

VARIABLES
    dossier,  \* membership_application
    person,   \* member
    rows,     \* document rows: the scans that name each holder's
    drive,    \* where each scan lies
    log,      \* notification rows: how many, how many past the period
    period,   \* the classes that have one
    pass      \* the job

retention == <<dossier, person, rows, drive, log, period, pass>>

Holder == Dossier \cup Person
NotStarted == [status |-> "absent"]
Nowhere == "nowhere"
NoPass == [does |-> "nothing"]
MaxLog == 2  \* bound

RetentionInit ==
    /\ dossier = [d \in Dossier |->
                    IF \E p \in Person : Founding[p] = d
                    THEN [status |-> "approved", due |-> FALSE, disposed |-> FALSE, folder |-> d,
                          of |-> {p \in Person : Founding[p] = d}]
                    ELSE NotStarted]
    /\ person = [p \in Person |-> [status |-> "active", due |-> FALSE, disposed |-> FALSE]]
    /\ rows = [h \in Holder |-> {}]
    /\ drive = [s \in Scan |-> Nowhere]
    /\ log = [there |-> 0, old |-> 0]
    /\ period = {}
    /\ pass = NoPass

Started(d) == dossier[d] # NotStarted
Editing(d) == Started(d) /\ dossier[d].status \in {"draft", "returned"}

----------------------------------------------------------------------------
(* What fills the folders                                                  *)

Others == UNCHANGED <<log, period, pass>>

\* A scan never filed yet is put where its holder's papers are.
Files(h, s, place) ==
    /\ drive[s] = Nowhere /\ \A o \in Holder : s \notin rows[o]
    /\ drive' = [drive EXCEPT ![s] = place]
    /\ rows' = [rows EXCEPT ![h] = @ \cup {s}]
    /\ UNCHANGED <<dossier, person>> /\ Others

FileForDossier(d, s) == Editing(d) /\ Files(d, s, dossier[d].folder)
FileForPerson(p, s) == Files(p, s, p)

\* A new application carries what those before it have: the same scans.
StartsDossier(d, folder, of, sources) ==
    /\ ~Started(d)
    /\ dossier' = [dossier EXCEPT ![d] =
                    [status |-> "draft", due |-> FALSE, disposed |-> FALSE, folder |-> folder, of |-> of]]
    /\ rows' = [rows EXCEPT ![d] = UNION {rows[h] : h \in sources}]
    /\ UNCHANGED <<person, drive>> /\ Others

StartAlone(d) == StartsDossier(d, d, {}, {})

\* Somebody refused before: known by the NIC they give.
StartAgain(d, refused) ==
    /\ Started(refused) /\ dossier[refused].status = "rejected"
    /\ StartsDossier(d, d, {}, {refused})

\* The applications of a member, whose papers a further account carries; an
\* application to rejoin does too, and is not among them.
OfPerson(p) == {d \in Dossier : Started(d) /\ p \in dossier[d].of}
StartFor(d, p) ==
    StartsDossier(d, Founding[p], IF person[p].status = "active" THEN {p} ELSE {}, {p} \cup OfPerson(p))

Moves(d, from, to) ==
    /\ Started(d) /\ dossier[d].status = from
    /\ dossier' = [dossier EXCEPT ![d].status = to, ![d].due = FALSE]
    /\ UNCHANGED <<person, rows, drive>> /\ Others

Submitted(d) == Moves(d, "draft", "new")
Refuse(d) == Moves(d, "new", "rejected")
ReopenRefused(d) == Moves(d, "rejected", "new")

Resigns(p) ==
    /\ person[p].status = "active"
    /\ person' = [person EXCEPT ![p].status = "resigned"]
    /\ UNCHANGED <<dossier, rows, drive>> /\ Others

Sends ==
    /\ log.there < MaxLog
    /\ log' = [log EXCEPT !.there = @ + 1]
    /\ UNCHANGED <<dossier, person, rows, drive, period, pass>>

\* The period passes.
Ages ==
    \/ /\ \E d \in Dossier : Started(d) /\ ~dossier[d].due /\ dossier[d].status \in {"draft", "rejected"}
                             /\ dossier' = [dossier EXCEPT ![d].due = TRUE]
       /\ UNCHANGED <<person, log>>
    \/ /\ \E p \in Person : person[p].status = "resigned" /\ ~person[p].due
                            /\ person' = [person EXCEPT ![p].due = TRUE]
       /\ UNCHANGED <<dossier, log>>
    \/ /\ log.old < log.there /\ log' = [log EXCEPT !.old = log.there]
       /\ UNCHANGED <<dossier, person>>
PeriodPasses == Ages /\ UNCHANGED <<rows, drive, period, pass>>

SetRetentionPeriod(c, on) ==
    /\ period' = IF on THEN period \cup {c} ELSE period \ {c}
    /\ UNCHANGED <<dossier, person, rows, drive, log, pass>>

----------------------------------------------------------------------------
(* What a pass disposes of                                                 *)

DueRefused == {d \in Dossier : Started(d) /\ dossier[d].status = "rejected"
                               /\ ~dossier[d].disposed /\ dossier[d].due}
DueFormer == {p \in Person : person[p].status = "resigned" /\ ~person[p].disposed /\ person[p].due}
DueDrafts == {d \in Dossier : Started(d) /\ dossier[d].status = "draft" /\ dossier[d].due}

\* The scans of a holder's that no row of another's names.
SoleScans(h) == {s \in rows[h] : \A o \in Holder \ {h} : s \notin rows[o]}

Now(next) == pass' = next

\* disposeDueRecords: the periods are read once, and the classes that have
\* one are taken in turn.
BeginPass ==
    /\ pass = NoPass /\ period # {}
    /\ Now([does |-> "notifications", periods |-> period])
    /\ UNCHANGED <<dossier, person, rows, drive, log, period>>

DisposeNotifications ==
    /\ pass.does = "notifications"
    /\ log' = IF "notifications" \in pass.periods
              THEN [there |-> log.there - log.old, old |-> 0] ELSE log
    /\ Now([does |-> "refused", periods |-> pass.periods,
            todo |-> IF "refused" \in pass.periods THEN DueRefused ELSE {}])
    /\ UNCHANGED <<dossier, person, rows, drive, period>>

\* The next record, all whose files go before its rows do.
Takes(class, of, left) ==
    Now([does |-> "discard", class |-> class, todo |-> pass.todo \ {of}, of |-> of, left |-> left,
         at |-> of, scans |-> {}, read |-> FALSE, periods |-> pass.periods])

BeginRefused ==
    /\ pass.does = "refused"
    /\ \E d \in pass.todo : Takes("refused", d, {})
    /\ UNCHANGED <<dossier, person, rows, drive, log, period>>

RefusedDone ==
    /\ pass.does = "refused" /\ pass.todo = {}
    /\ Now([does |-> "former", periods |-> pass.periods,
            todo |-> IF "former" \in pass.periods THEN DueFormer ELSE {}])
    /\ UNCHANGED <<dossier, person, rows, drive, log, period>>

BeginFormer ==
    /\ pass.does = "former"
    /\ \E p \in pass.todo : Takes("former", p, OfPerson(p))
    /\ UNCHANGED <<dossier, person, rows, drive, log, period>>

FormerDone ==
    /\ pass.does = "former" /\ pass.todo = {}
    /\ Now([does |-> "drafts", periods |-> pass.periods,
            todo |-> IF "drafts" \in pass.periods THEN DueDrafts ELSE {}])
    /\ UNCHANGED <<dossier, person, rows, drive, log, period>>

----------------------------------------------------------------------------
(* discardApplicationDocuments and discardMemberFiles                      *)

Discarding == pass.does = "discard"

\* What is its own is read...
ReadFiles ==
    /\ Discarding /\ ~pass.read
    /\ Now([pass EXCEPT !.read = TRUE, !.scans = SoleScans(pass.at)])
    /\ UNCHANGED <<dossier, person, rows, drive, log, period>>

\* ... and goes, one file after another...
DiscardFile ==
    /\ Discarding /\ pass.read
    /\ \E s \in pass.scans :
       /\ drive' = [drive EXCEPT ![s] = Nowhere]
       /\ Now([pass EXCEPT !.scans = @ \ {s}])
    /\ UNCHANGED <<dossier, person, rows, log, period>>

\* ... and the folder, whole, of an application that files into its own. A
\* former member's applications follow, one after another.
Emptied(folder) == [s \in Scan |-> IF drive[s] = folder THEN Nowhere ELSE drive[s]]
OwnsFolder(d) == Started(d) /\ dossier[d].folder = d
DiscardFolder ==
    /\ Discarding /\ pass.read /\ pass.scans = {}
    /\ drive' = IF pass.at \in Dossier /\ OwnsFolder(pass.at) THEN Emptied(pass.at) ELSE drive
    /\ IF pass.left = {}
       THEN Now([pass EXCEPT !.does = "erase"])
       ELSE \E d \in pass.left : Now([pass EXCEPT !.at = d, !.read = FALSE, !.left = @ \ {d}])
    /\ UNCHANGED <<dossier, person, rows, log, period>>

\* Back to the rest of its class.
Rest == [does |-> pass.class, todo |-> pass.todo, periods |-> pass.periods]

\* Mutant of NextAfterFailure: the rows go whatever became of the files.
ErasesAnyway == [pass EXCEPT !.does = "erase"]

\* The drive fails: the record stays as it is, for another pass.
NextAfterFailure == Rest
DriveFails ==
    /\ Discarding /\ pass.read
    /\ Now(NextAfterFailure)
    /\ UNCHANGED <<dossier, person, rows, drive, log, period>>

\* The rows, and what was typed; the record itself stays.
Redact ==
    /\ pass.does = "erase" /\ pass.class = "refused"
    /\ rows' = [rows EXCEPT ![pass.of] = {}]
    /\ dossier' = [dossier EXCEPT ![pass.of].disposed = TRUE]
    /\ Now(Rest)
    /\ UNCHANGED <<person, drive, log, period>>

DisposeFormer ==
    /\ pass.does = "erase" /\ pass.class = "former"
    /\ rows' = [h \in Holder |-> IF h \in {pass.of} \cup OfPerson(pass.of) THEN {} ELSE rows[h]]
    /\ person' = [person EXCEPT ![pass.of].disposed = TRUE]
    /\ Now(Rest)
    /\ UNCHANGED <<dossier, drive, log, period>>

\* deleteDraftApplication: one transaction, the folder named after the draft
\* going within it.
DeletesDraft(d) ==
    /\ Started(d) /\ dossier[d].status = "draft"
    /\ dossier' = [dossier EXCEPT ![d] = NotStarted]
    /\ rows' = [rows EXCEPT ![d] = {}]
    /\ drive' = IF rows[d] = {} THEN drive ELSE Emptied(d)
    /\ UNCHANGED <<person, log, period>>

DisposeDraft ==
    /\ pass.does = "drafts"
    /\ \E d \in pass.todo : /\ Now([pass EXCEPT !.todo = @ \ {d}])
                            /\ \/ DeletesDraft(d)
                               \/ /\ dossier[d] = NotStarted \/ dossier[d].status # "draft"
                                  /\ UNCHANGED <<dossier, person, rows, drive, log, period>>

EndPass ==
    /\ pass.does = "drafts" /\ pass.todo = {}
    /\ Now(NoPass)
    /\ UNCHANGED <<dossier, person, rows, drive, log, period>>

\* Between two statements; another run starts over.
PassDies ==
    /\ pass # NoPass
    /\ Now(NoPass)
    /\ UNCHANGED <<dossier, person, rows, drive, log, period>>

DeleteDraftApplication(d) == DeletesDraft(d) /\ UNCHANGED pass

----------------------------------------------------------------------------

TheJob ==
    \/ BeginPass \/ DisposeNotifications \/ BeginRefused \/ RefusedDone \/ BeginFormer \/ FormerDone
    \/ ReadFiles \/ DiscardFile \/ DiscardFolder \/ DriveFails \/ Redact \/ DisposeFormer
    \/ DisposeDraft \/ EndPass \/ PassDies

TheCounter ==
    \/ \E d \in Dossier :
         \/ StartAlone(d) \/ Submitted(d) \/ Refuse(d) \/ ReopenRefused(d) \/ DeleteDraftApplication(d)
         \/ \E r \in Dossier : StartAgain(d, r)
         \/ \E p \in Person : StartFor(d, p)
         \/ \E s \in Scan : FileForDossier(d, s)
    \/ \E p \in Person : Resigns(p) \/ \E s \in Scan : FileForPerson(p, s)
    \/ \E c \in Class, on \in BOOLEAN : SetRetentionPeriod(c, on)
    \/ Sends \/ PeriodPasses

RetentionNext == TheJob \/ TheCounter

----------------------------------------------------------------------------

\* A bound some runs keep to: no draft is deleted by hand during a pass.
NoneDeletedMeanwhile == pass = NoPass \/ ~ \E d \in Dossier : DeleteDraftApplication(d)

Named(s) == \E h \in Holder : s \in rows[h]
Erasing(class) == pass.does = "erase" /\ pass.class = class /\ pass'.does = class

\* A refused application is emptied only once its files are gone: a scan that
\* loses its last row to the disposal of a refused application is not in the
\* drive any more, whatever failed or was filed meanwhile (disposal.ts: the
\* files go first).
RefusedPapersGoFirst ==
    [][\A s \in Scan : Erasing("refused") /\ Named(s) /\ ~Named(s)' =>
           drive'[s] = Nowhere]_retention

\* A disposal never takes a file that a row of somebody else's names: theirs
\* to keep, however they came to share it (discardApplicationDocuments).
SharedFilesStay ==
    [][\A s \in Scan, h \in Holder :
           /\ Discarding /\ pass' # pass /\ drive[s] # Nowhere /\ s \in rows[h]
           /\ h # pass.of /\ (pass.class = "former" => h \notin OfPerson(pass.of))
           => drive'[s] # Nowhere]_retention
=============================================================================
