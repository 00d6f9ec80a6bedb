----------------------------- MODULE Documents -----------------------------
(***************************************************************************)
(* The papers of an application (lib/documents/documents.ts, upload.ts).   *)
(*                                                                         *)
(* An upload is two requests with the drive in between: the first records  *)
(* a pending version and the file name it is to have, the browser sends    *)
(* the bytes to the drive itself, and the second looks for them there and  *)
(* commits the version.  The drive renames a file whose name is taken      *)
(* (conflictBehavior 'rename'), so such bytes are not found again.         *)
(*                                                                         *)
(* Whether a file is the one looked for is told by its size alone (Size).  *)
(* A name is its number: the first file of a document is 1, the next 2.    *)
(***************************************************************************)
EXTENDS Intake, Integers, FiniteSets, FiniteSetsExt

CONSTANTS
    Document,   \* documents the checklists ask for
    PaperOf,    \* the application of each
    Expiring,   \* those with an expiry date
    Version,    \* ids a row of document_version may take
    NoFile,     \* a name the drive holds nothing under
    Size,       \* size_bytes of each
    Uploaders,  \* officers with document.upload
    Checkers    \* officers with document.verify

ASSUME PaperAssumption == PaperOf \in [Document -> Application] /\ Expiring \subseteq Document
ASSUME VersionAssumption == IsFiniteSet(Version) /\ NoFile \notin Version /\ Size \in [Version -> Nat]
ASSUME CheckerAssumption == Uploaders \subseteq Officer /\ Checkers \subseteq Officer

VARIABLES
    paper,    \* document rows: their state, and whose verdict it is
    version,  \* document_version rows
    drive,    \* the version whose bytes each name of a document holds
    filed     \* audit: who filed a version of which document

papers == <<paper, version, drive, filed>>
paperVars == <<status, papers, desk>>

NoVersion == [state |-> "none"]
Name == 1..(Cardinality(Version) + 1)

VersionRow == [doc : Document, by : Officer, state : {"pending", "committed", "failed"},
               name : Name, superseded : BOOLEAN, sent : BOOLEAN]

NoPapers ==
    /\ paper = [d \in Document |-> [state |-> "uploaded", by |-> "nobody"]]
    /\ version = [v \in Version |-> NoVersion]
    /\ drive = [d \in Document |-> [n \in Name |-> NoFile]]
    /\ filed = {}

----------------------------------------------------------------------------
(* Reading *)

Filings(d) == {v \in Version : version[v].state = "committed" /\ version[v].doc = d}
LiveFilings(d) == {v \in Filings(d) : ~version[v].superseded}

\* checklistFor: a document with no live version reads missing.
Checklist(d) == IF LiveFilings(d) = {} THEN "missing" ELSE paper[d].state

PapersOf(a) == {d \in Document : PaperOf[d] = a}

MayEdit(d) == status[PaperOf[d]] \in Editable

\* The next name that no filed version has, counted from how many there are.
NextName(d) ==
    Min({n \in Name : /\ n > Cardinality(Filings(d))
                      /\ \A v \in Filings(d) : version[v].name # n})

----------------------------------------------------------------------------
(* Filing *)

\* beginUpload
BeginUpload(v, d, o) ==
    /\ o \in Uploaders /\ MayEdit(d)
    /\ version[v] = NoVersion
    /\ version' = [version EXCEPT ![v] =
                    [doc |-> d, by |-> o, state |-> "pending", name |-> NextName(d),
                     superseded |-> FALSE, sent |-> FALSE]]
    /\ UNCHANGED <<status, paper, drive, filed, desk>>

\* The browser's upload session ends, however late: the drive keeps a file
\* that has the name already.
Arrives(v) ==
    /\ version[v] # NoVersion /\ ~version[v].sent
    /\ version' = [version EXCEPT ![v].sent = TRUE]
    /\ drive' = [drive EXCEPT ![version[v].doc][version[v].name] = IF @ = NoFile THEN v ELSE @]
    /\ UNCHANGED <<status, paper, filed, desk>>

\* commitUpload, as far as its first reads: its own uploader, an application
\* that may be edited.
BeginCommit(q, v) ==
    /\ desk[q] = Idle
    /\ version[v].state \in {"pending", "failed"} /\ MayEdit(version[v].doc)
    /\ Sits(q, [does |-> "look", v |-> v, by |-> version[v].by])
    /\ UNCHANGED <<status, papers>>

\* Mutant of Found: any file at the path will do.
FoundOfAnySize(v) == drive[version[v].doc][version[v].name] # NoFile

\* What the drive has under the name, of the size asked for.
Found(v) ==
    LET file == drive[version[v].doc][version[v].name]
    IN  file # NoFile /\ Size[file] = Size[v]

\* The drive is asked, more than once: found, or marked failed.
Look(q) ==
    LET v == desk[q].v
    IN  /\ desk[q].does = "look"
        /\ IF Found(v)
           THEN Sits(q, [desk[q] EXCEPT !.does = "file"]) /\ UNCHANGED version
           ELSE /\ Sits(q, Idle)
                /\ version' = [version EXCEPT ![v].state = IF @ = "pending" THEN "failed" ELSE @]
        /\ UNCHANGED <<status, paper, drive, filed>>

\* Mutant of Supersedes: what was live stays live.
SupersedesNothing(v) == [version EXCEPT ![v].state = "committed"]

Supersedes(v) ==
    [w \in Version |->
        IF w = v THEN [version[v] EXCEPT !.state = "committed"]
        ELSE IF w \in LiveFilings(version[v].doc) THEN [version[w] EXCEPT !.superseded = TRUE]
        ELSE version[w]]

Afresh(d) == [state |-> "under_review", by |-> "nobody"]

\* The rest of commitUpload, in one transaction: the status of the
\* application is not read again.
CommitUpload(q) ==
    LET v == desk[q].v
        d == version[v].doc
    IN  /\ desk[q].does = "file"
        /\ version' = Supersedes(v)
        /\ paper' = [paper EXCEPT ![d] = Afresh(d)]
        /\ filed' = filed \cup {<<version[v].by, d>>}
        /\ Sits(q, Idle)
        /\ UNCHANGED <<status, drive>>

\* removeFiledDocument: its transaction locks the version, and only reads
\* the status of the application.
BeginRemove(q, d, o) ==
    /\ desk[q] = Idle /\ o \in Uploaders /\ MayEdit(d)
    /\ \E v \in LiveFilings(d) : Sits(q, [does |-> "remove", v |-> v, by |-> o])
    /\ UNCHANGED <<status, papers>>

\* The checklist reads missing from here on.
CommitRemove(q) ==
    LET v == desk[q].v
    IN  /\ desk[q].does = "remove" /\ ~version[v].superseded
        /\ version' = [version EXCEPT ![v].superseded = TRUE]
        /\ Sits(q, [desk[q] EXCEPT !.does = "delete"])
        /\ UNCHANGED <<status, paper, drive, filed>>

\* Then the file, which may not go: best effort.
DeleteFile(q) ==
    /\ desk[q].does = "delete"
    /\ drive' = [drive EXCEPT ![version[desk[q].v].doc][version[desk[q].v].name] = NoFile]
    /\ Sits(q, Idle)
    /\ UNCHANGED <<status, paper, version, filed>>

----------------------------------------------------------------------------
(* Checking *)

\* Neither whose application it is, nor who ever filed a version of it.
MayCheck(o, d) ==
    /\ o \in Checkers
    /\ o # CapturedBy[PaperOf[d]]
    /\ <<o, d>> \notin filed

\* reviewDocument reads, then writes its verdict on the document whatever
\* has been filed since.
BeginCheck(q, d, o, verdict) ==
    /\ desk[q] = Idle /\ MayCheck(o, d) /\ LiveFilings(d) # {}
    /\ Sits(q, [does |-> "check", doc |-> d, by |-> o, verdict |-> verdict])
    /\ UNCHANGED <<status, papers>>

CommitCheck(q) ==
    /\ desk[q].does = "check"
    /\ paper' = [paper EXCEPT ![desk[q].doc] = [state |-> desk[q].verdict, by |-> desk[q].by]]
    /\ Sits(q, Idle)
    /\ UNCHANGED <<status, version, drive, filed>>

\* expireDocuments, the job.
Expire(d) ==
    /\ d \in Expiring /\ paper[d].state = "verified"
    /\ paper' = [paper EXCEPT ![d].state = "expired"]
    /\ UNCHANGED <<status, version, drive, filed, desk>>

PaperStep ==
    \/ \E v \in Version, d \in Document, o \in Officer : BeginUpload(v, d, o)
    \/ \E v \in Version : Arrives(v)
    \/ \E q \in Request, v \in Version : BeginCommit(q, v)
    \/ \E q \in Request : Look(q) \/ CommitUpload(q) \/ CommitRemove(q) \/ DeleteFile(q) \/ CommitCheck(q)
    \/ \E q \in Request, d \in Document, o \in Officer : BeginRemove(q, d, o)
    \/ \E q \in Request, d \in Document, o \in Officer, verdict \in {"verified", "rejected"} :
        BeginCheck(q, d, o, verdict)
    \/ \E d \in Document : Expire(d)

----------------------------------------------------------------------------
(* The applications these papers are for, submitted and returned at any    *)
(* moment.                                                                 *)

PapersInit == NoPapers /\ status = [a \in Application |-> "draft"] /\ desk = [q \in Request |-> Idle]

Submits(a) ==
    /\ status[a] \in Editable /\ \A d \in PapersOf(a) : Checklist(d) # "missing"
    /\ status' = [status EXCEPT ![a] = "new"]
    /\ UNCHANGED <<papers, desk>>

Returns(a) ==
    /\ status[a] = "new"
    /\ status' = [status EXCEPT ![a] = "returned"]
    /\ UNCHANGED <<papers, desk>>

PapersNext ==
    \/ PaperStep
    \/ \E a \in Application : Submits(a) \/ Returns(a)
    \/ \E q \in Request : Dies(q) /\ UNCHANGED <<status, papers>>

PapersSpec == PapersInit /\ [][PapersNext]_paperVars

----------------------------------------------------------------------------
(* Properties *)

\* A document has one live version at most, however many uploads of it end
\* together (documents.ts, commitUpload; document_version_current_idx).
OneLiveVersion == \A d \in Document : \A v, w \in LiveFilings(d) : v = w

\* What the checklist calls filed is in the drive, and is what its uploader
\* sent: another upload of the same document, an unfinished one, or the file
\* of a version taken off may be there under the same name instead.  It
\* needs files of different sizes (Size).
LiveFileIsItsOwn == \A d \in Document : \A v \in LiveFilings(d) : drive[d][version[v].name] = v

=============================================================================
