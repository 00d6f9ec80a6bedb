----------------------------- MODULE Migration -----------------------------
(***************************************************************************)
(* The old register brought in a chunk at a time (lib/migration): an       *)
(* upload is checked whole, stored as a batch, imported a few rows per     *)
(* request, and cancellable while it runs; then balances are set and the   *)
(* history restored behind them.                                           *)
(*                                                                         *)
(* A Person is a code of the register: an AB number if they are a member.  *)
(* One record on file has it at most.  A record holds a membership account *)
(* (Shares and the MSA, opened and closed together) and a savings account, *)
(* or not.  A request may die between any two of its statements, and a row *)
(* claimed long enough ago is swept as failed by the next request, whether *)
(* its own died or is only slow.                                           *)
(***************************************************************************)
EXTENDS Integers, FiniteSets

CONSTANTS
    Person,      \* codes of the register
    Place,       \* where a sheet has each
    Nobody,      \* the guardian of those who need none
    Register,    \* what a sheet may say of each
    OnFileFirst, \* what may be on file before any import here
    Batch,       \* uploads
    Importer,    \* requests that may be under way at once
    Chunk,       \* rows a request claims at most
    Branch       \* marks what no import here put on file

Kinds == {"member", "customer"}
Standings == {"active", "resigned", "demised"}
Accounts == {"membership", "savings"}
Sayings == [kind : Kinds, status : Standings, guardian : Person \cup {Nobody},
            savings : {"none", "open", "closed"}, money : SUBSET Accounts]

ASSUME ChunkAssumption == Chunk \in Nat \ {0}
ASSUME PlaceAssumption ==
    Place \in [Person -> Nat] /\ \A p, r \in Person : Place[p] = Place[r] => p = r
ASSUME BranchAssumption ==
    /\ Branch \notin Batch
    /\ \A f \in OnFileFirst : \A p \in DOMAIN f :
         f[p] \in [by : {Branch}, kind : Kinds, status : Standings \cup {"closed"}]
ASSUME RegisterAssumption == Nobody \notin Person /\ Register \in [Person -> SUBSET Sayings]

VARIABLES
    batch,    \* migration_batch.status, or "unused"
    row,      \* migration_batch_row, by batch and code
    record,   \* the member or customer: absent, or who put it on file, and how it stands
    account,  \* its accounts: absent, or who opened it, what it holds and whether it is open
    stray,    \* applications inserted by rows, <<batch, person>>, holder or not
    number,   \* receipt numbers rows allocated, by batch and person
    importing \* requests under way

migration == <<batch, row, record, account, stray, number, importing>>

Absent == [by |-> "nobody"]
NoRowYet == [state |-> "none"]
NotImporting == [does |-> "nothing"]

OnFile(p) == record[p] # Absent
Holds(p, k) == account[p][k] # Absent
Opened(by, holds) == [by |-> by, holds |-> holds, open |-> TRUE]

MigrationInit ==
    /\ batch = [b \in Batch |-> "unused"]
    /\ row = [b \in Batch |-> [p \in Person |-> NoRowYet]]
    /\ \E f \in OnFileFirst : record = [p \in Person |-> IF p \in DOMAIN f THEN f[p] ELSE Absent]
    /\ account = [p \in Person |-> [k \in Accounts |->
                    IF k = "membership" /\ OnFile(p) /\ record[p].kind = "member"
                    THEN [Opened(Branch, "nothing") EXCEPT !.open = record[p].status = "active"]
                    ELSE Absent]]
    /\ stray = {}
    /\ number = [b \in Batch |-> [p \in Person |-> "none"]]
    /\ importing = [q \in Importer |-> NotImporting]

\* runningBatch, which the uploads of balances and of history ask too.
Running == \E b \in Batch : batch[b] = "running"

Import(q, request) == importing' = [importing EXCEPT ![q] = request]

-----------------------------------------------------------------------------
(* The check of a file: a function from the codes on it to what it says of *)
(* each, no code being on it twice. One problem refuses it whole.          *)

FilesOn(codes) ==
    {f \in [codes -> UNION {Register[p] : p \in codes}] : \A p \in codes : f[p] \in Register[p]}
Files == UNION {FilesOn(codes) : codes \in SUBSET Person \ {{}}}

\* What is on file under a code, with the savings account if it carries a
\* number: a member's own, opened at a branch, goes without.
Existing(p) ==
    IF ~OnFile(p) THEN Absent
    ELSE [by |-> record[p].by, kind |-> record[p].kind, status |-> record[p].status,
          savings |-> IF ~Holds(p, "savings") \/ (account[p]["savings"].by = Branch /\ record[p].kind = "member")
                      THEN "none" ELSE IF account[p]["savings"].open THEN "open" ELSE "closed"]

\* Rows are taken in the order of the sheet, those of minors after the rest.
Before(f, p, r) ==
    IF f[p].guardian = Nobody <=> f[r].guardian = Nobody THEN Place[p] < Place[r]
    ELSE f[p].guardian = Nobody

\* A row updates the record on file under its code if it is of the same
\* kind, and of the same AB number.
SameRecord(s, e) == e # Absent => s.kind = e.kind

\* Where the person stands: only a member resigns, and an update changes
\* nothing of it. One who is neither resigned nor demised reads as active.
SameStanding(s, e) ==
    /\ s.status = "resigned" => s.kind = "member"
    /\ e # Absent => s.status = IF e.status \in {"resigned", "demised"} THEN e.status ELSE "active"

\* findGuardian: a member on file under the number. (An application that
\* has no number of its own yet is not in the register.)
GuardianOnFile(g) == OnFile(g) /\ record[g].kind = "member"

\* A minor's guardian is an active member on file, or else one of an earlier
\* row.
GuardianFits(f, p) ==
    LET g == f[p].guardian
    IN  g # Nobody =>
          IF GuardianOnFile(g) THEN record[g].status = "active"
          ELSE /\ g \in DOMAIN f /\ Before(f, g, p)
               /\ f[g].kind = "member" /\ f[g].status = "active"

\* Whoever left was paid out, and so was a closed account; only a member has
\* Shares and an MSA.
BalancesAddUp(s) ==
    /\ "membership" \in s.money => s.kind = "member" /\ s.status = "active"
    /\ "savings" \in s.money => s.savings = "open"

\* A savings account already held is on file as the row has it, and is not
\* opened again; the deceased have none open.
SavingsFit(s, e) ==
    /\ s.status = "demised" => s.savings # "open"
    /\ e # Absent /\ e.savings # "none" /\ s.savings # "none" => e.savings = s.savings

\* One who is no member has an account, or a guardian.
IsSomebody(s) == s.kind = "member" \/ s.savings # "none" \/ s.guardian # Nobody

\* A row of a checked file: the record it updates, if any, by who put it on
\* file, and the savings account it opens, or opens and closes.
Checked(s, e) ==
    [state |-> "pending", says |-> s, known |-> e.by,
     opens |-> IF e # Absent /\ e.savings # "none" THEN "none" ELSE s.savings,
     since |-> {}, created |-> FALSE, left |-> FALSE]

\* validateRows
RowsOf(f) == [p \in Person |-> IF p \in DOMAIN f THEN Checked(f[p], Existing(p)) ELSE NoRowYet]

BeginUpload(q, b) ==
    /\ importing[q] = NotImporting
    /\ batch[b] = "unused"
    /\ \E f \in Files :
         /\ \A p \in DOMAIN f :
              /\ SameRecord(f[p], Existing(p)) /\ SameStanding(f[p], Existing(p)) /\ GuardianFits(f, p)
              /\ BalancesAddUp(f[p]) /\ SavingsFit(f[p], Existing(p)) /\ IsSomebody(f[p])
         /\ Import(q, [does |-> "start", batch |-> b, rows |-> RowsOf(f)])
    /\ UNCHANGED <<batch, row, record, account, stray, number>>

\* startMigrationBatch: one running batch at a time, asked and then a unique
\* index.
CommitUpload(q) ==
    /\ importing[q].does = "start"
    /\ Import(q, NotImporting)
    /\ IF Running \/ batch[importing[q].batch] # "unused"
       THEN UNCHANGED <<batch, row>>
       ELSE /\ batch' = [batch EXCEPT ![importing[q].batch] = "running"]
            /\ row' = [row EXCEPT ![importing[q].batch] = importing[q].rows]
    /\ UNCHANGED <<record, account, stray, number>>

-----------------------------------------------------------------------------
(* A chunk                                                                 *)

\* importNextRows: the status is read once, at the start.
BeginChunk(q, b) ==
    /\ importing[q] = NotImporting
    /\ batch[b] = "running"
    /\ Import(q, [does |-> "sweep", batch |-> b])
    /\ UNCHANGED <<batch, row, record, account, stray, number>>

\* Rows claimed ten minutes ago and not finished are failed.  Which have
\* waited that long is open.
Sweep(q) ==
    /\ importing[q].does = "sweep"
    /\ LET b == importing[q].batch
       IN  \E late \in SUBSET {p \in Person : row[b][p].state = "importing"} :
             row' = [row EXCEPT ![b] = [p \in Person |->
                       IF p \in late THEN [row[b][p] EXCEPT !.state = "failed"] ELSE row[b][p]]]
    /\ Import(q, [importing[q] EXCEPT !.does = "claim"])
    /\ UNCHANGED <<batch, record, account, stray, number>>

Claimable(b) == {p \in Person : row[b][p].state = "pending"}
Says(b) == [p \in {r \in Person : row[b][r] # NoRowYet} |-> row[b][p].says]
Held(p) == {k \in Accounts : Holds(p, k)}

\* The claim, in the order of the file, skipping rows another request has
\* locked; "since" is what the code held when the row was started
\* (started_at against created_at).
Claim(q) ==
    /\ importing[q].does = "claim"
    /\ LET b == importing[q].batch
           next == {p \in Claimable(b) : Cardinality({r \in Claimable(b) : Before(Says(b), r, p)}) < Chunk}
       IN  /\ row' = [row EXCEPT ![b] = [p \in Person |->
                        IF p \in next THEN [row[b][p] EXCEPT !.state = "importing", !.since = Held(p)]
                                      ELSE row[b][p]]]
           /\ Import(q, [does |-> "rows", batch |-> b, rows |-> next])
    /\ UNCHANGED <<batch, record, account, stray, number>>

RowAt(q) == row[importing[q].batch][importing[q].person]
Known(q) == RowAt(q).known # "nobody"
AtRow(q, does) == importing[q].does = does
Becomes(q, does) == Import(q, [importing[q] EXCEPT !.does = does])

\* importMembers, one row of the chunk: a guardian whose own row failed is
\* not on file.
BeginRow(q, p) ==
    /\ AtRow(q, "rows")
    /\ LET b == importing[q].batch
           guardian == row[b][p].says.guardian
           missing == guardian # Nobody /\ ~GuardianOnFile(guardian)
       IN  /\ p \in importing[q].rows
           /\ \A r \in importing[q].rows \ {p} : Before(Says(b), p, r)
           /\ Import(q, [does |-> IF missing THEN "refused"
                                  ELSE IF row[b][p].known = "nobody" THEN "new" ELSE "row",
                         batch |-> b, rows |-> importing[q].rows \ {p}, person |-> p, inserted |-> FALSE])
    /\ UNCHANGED <<batch, row, record, account, stray, number>>

\* A new record's application is inserted, and committed, first.
InsertsApplication(q, kind) ==
    /\ AtRow(q, "new")
    /\ RowAt(q).says.kind = kind
    /\ stray' = stray \cup {<<importing[q].batch, importing[q].person>>}
    /\ Import(q, [importing[q] EXCEPT !.does = "row", !.inserted = TRUE])
    /\ UNCHANGED <<batch, row, record, account, number>>

InsertMembership(q) == InsertsApplication(q, "member")
InsertCustomerAccount(q) == InsertsApplication(q, "customer")

\* hasMigrationBalance: what takes a receipt. A new member's balances do, if
\* there are any; a line for an account that is opened does, of 0 too.
TakesReceipt(r) ==
    \/ r.opens = "open"
    \/ r.known = "nobody" /\ r.says.kind = "member" /\ "membership" \in r.says.money

AllocateForRow(q) ==
    LET b == importing[q].batch  p == importing[q].person
    IN  /\ AtRow(q, "row")
        /\ TakesReceipt(RowAt(q))
        /\ number[b][p] = "none"
        /\ number' = [number EXCEPT ![b][p] = "allocated"]
        /\ UNCHANGED <<batch, row, record, account, stray, importing>>

\* openMigrationAccount, for the account a row opens.
Carried(s, k) == IF k \in s.money THEN "opening" ELSE "nothing"
OpensAccount(r, b) == [Opened(b, Carried(r.says, "savings")) EXCEPT !.open = r.opens = "open"]

\* recordStatusAndClosures: a resignation closes the membership's account, a
\* death every one.
Closes(s, k) == s.status = "demised" \/ (s.status = "resigned" /\ k = "membership")
Left(accounts, s) ==
    [k \in Accounts |-> IF accounts[k] = Absent THEN Absent
                        ELSE [accounts[k] EXCEPT !.open = @ /\ ~Closes(s, k)]]

\* What becomes of the holder: a member who left has left, and a customer all
\* of whose accounts are closed is closed, or demised.
StandsAs(s, status, accounts) ==
    IF s.kind = "member" THEN IF s.status = "active" THEN status ELSE s.status
    ELSE IF status = "active" /\ (\E k \in Accounts : accounts[k] # Absent)
            /\ \A k \in Accounts : accounts[k] # Absent => ~accounts[k].open
         THEN IF s.status = "demised" THEN "demised" ELSE "closed"
         ELSE status

\* recordMigrationOpeningBalances: the payment, its lines, and its receipt.
RecordOpeningBalances(q) ==
    LET b == importing[q].batch  p == importing[q].person
    IN  /\ TakesReceipt(RowAt(q)) => number[b][p] # "none"
        /\ number' = IF TakesReceipt(RowAt(q)) THEN [number EXCEPT ![b][p] = "issued"] ELSE number

\* The row's database transaction: record, accounts, opening balances and
\* receipt together, or none of them, whatever the batch says by now.
Writes(q, kind, by, status, accounts) ==
    LET b == importing[q].batch  p == importing[q].person  r == RowAt(q)
        opened == IF r.opens = "none" THEN accounts
                  ELSE [accounts EXCEPT !["savings"] = OpensAccount(r, b)]
    IN  /\ r.says.kind = kind
        /\ r.opens # "none" => ~Holds(p, "savings")
        /\ RecordOpeningBalances(q)
        /\ account' = [account EXCEPT ![p] = Left(opened, r.says)]
        /\ record' = [record EXCEPT ![p] = [by |-> by, kind |-> kind,
                                             status |-> StandsAs(r.says, status, Left(opened, r.says))]]
        /\ Becomes(q, "written")
        /\ UNCHANGED <<batch, row, stray>>

\* The record the row was checked against, if it is still on file.
IsStill(p, by) == OnFile(p) /\ record[p].by = by

Updates(q, kind) ==
    LET p == importing[q].person
    IN  /\ AtRow(q, "row") /\ Known(q)
        /\ IsStill(p, RowAt(q).known)
        /\ Writes(q, kind, record[p].by, record[p].status, account[p])

\* One that no longer is ends a member's row...
UpdateMember(q) == Updates(q, "member")

\* ... and a customer's only if there is something to hang on it.
UpdateCustomer(q) ==
    /\ AtRow(q, "row") /\ Known(q) /\ RowAt(q).says.kind = "customer"
    /\ IF ~IsStill(importing[q].person, RowAt(q).known) /\ RowAt(q).opens = "none" /\ RowAt(q).says.guardian = Nobody
       THEN /\ Becomes(q, "written")
            /\ UNCHANGED <<batch, row, record, account, stray, number>>
       ELSE Updates(q, "customer")

\* createMemberFromApplication opens the membership's accounts; a code still
\* free is a unique index.
CreateMember(q) ==
    LET p == importing[q].person  b == importing[q].batch
    IN  /\ AtRow(q, "row") /\ ~Known(q) /\ ~OnFile(p)
        /\ Writes(q, "member", b, "active",
                  [account[p] EXCEPT !["membership"] = Opened(b, Carried(RowAt(q).says, "membership"))])

\* createMigratedCustomer
CreateCustomer(q) ==
    LET p == importing[q].person
    IN  /\ AtRow(q, "row") /\ ~Known(q) /\ ~OnFile(p)
        /\ Writes(q, "customer", importing[q].batch, "active", account[p])

\* The row's statements fail: a row may be refused for reasons of its own, and
\* a number it took is void.
RefuseRow(q) ==
    LET b == importing[q].batch  p == importing[q].person
    IN  /\ importing[q].does \in {"new", "row"}
        /\ number' = [number EXCEPT ![b][p] = IF @ = "allocated" THEN "void" ELSE @]
        /\ Becomes(q, "refused")
        /\ UNCHANGED <<batch, row, record, account, stray>>

\* The row keeps what it wrote to, or the application it left behind, whatever
\* it says by now.
RecordRow(q) ==
    LET b == importing[q].batch  p == importing[q].person
        written == importing[q].does = "written"
    IN  /\ importing[q].does \in {"written", "refused"}
        /\ row' = [row EXCEPT ![b][p].state = IF written THEN "imported" ELSE "failed",
                              ![b][p].created = written /\ ~Known(q),
                              ![b][p].left = ~written /\ importing[q].inserted]
        /\ Import(q, [does |-> "rows", batch |-> b, rows |-> importing[q].rows])
        /\ UNCHANGED <<batch, record, account, stray, number>>

Processed(b) == \A p \in Person : row[b][p].state \in {"none", "imported", "failed"}

FinishChunk(q) ==
    /\ AtRow(q, "rows")
    /\ importing[q].rows = {}
    /\ LET b == importing[q].batch
       IN  batch' = IF Processed(b) /\ batch[b] = "running" THEN [batch EXCEPT ![b] = "completed"] ELSE batch
    /\ Import(q, NotImporting)
    /\ UNCHANGED <<row, record, account, stray, number>>

\* The request's process is gone, a closed tab or a restarted server.
ChunkDies(q) ==
    /\ importing[q] # NotImporting
    /\ Import(q, NotImporting)
    /\ UNCHANGED <<batch, row, record, account, stray, number>>

-----------------------------------------------------------------------------
(* Cancelling                                                              *)

\* Mutant of ItsRecords: of rows that only updated a record too.
AllItsRecords(b) == {p \in Person : row[b][p].state = "imported" /\ OnFile(p)}

\* What cancel_migration_batch takes to be the batch's: the records its
\* imported rows created, and the accounts on them; and on a record already
\* on file, an account opened since its row began.
ItsRecords(b) == {p \in Person : row[b][p].state = "imported" /\ row[b][p].created /\ IsStill(p, b)}
ItsAccounts(b) ==
    {a \in Person \X Accounts :
        LET r == row[b][a[1]]
        IN  /\ Holds(a[1], a[2])
            /\ \/ a[1] \in ItsRecords(b)
               \/ r.state = "imported" /\ ~r.created /\ IsStill(a[1], r.known) /\ a[2] \notin r.since}

\* Applications: of the records it created, and those failed rows left.
ItsApplications(b) ==
    {s \in stray : s[1] = b /\ (s[2] \in ItsRecords(b) \/ (row[b][s[2]].state = "failed" /\ row[b][s[2]].left))}

MoneyMoved(b) == \E a \in ItsAccounts(b) : account[a[1]][a[2]].holds = "own"

\* An application taken at a branch names the holder, who cannot be deleted.
NamedAtBranch(b) == \E p \in ItsRecords(b) : Holds(p, "savings") /\ account[p]["savings"].holds = "receipt"

CancelBatch(b) ==
    /\ batch[b] = "running"
    /\ \A p \in Person : row[b][p].state # "importing"
    /\ ~MoneyMoved(b)
    /\ ~NamedAtBranch(b)
    /\ batch' = [batch EXCEPT ![b] = "cancelled"]
    /\ record' = [p \in Person |-> IF p \in ItsRecords(b) THEN Absent ELSE record[p]]
    /\ account' = [p \in Person |-> [k \in Accounts |->
                     IF <<p, k>> \in ItsAccounts(b) THEN Absent ELSE account[p][k]]]
    /\ stray' = stray \ ItsApplications(b)
    /\ number' = [number EXCEPT ![b] = [p \in Person |->
                    IF row[b][p].state = "imported" /\ @[p] = "issued" THEN "void" ELSE @[p]]]
    /\ UNCHANGED <<row, importing>>

-----------------------------------------------------------------------------
(* Balances                                                                *)

\* An account that holds no more than what an import said it did.
Settable(p, k) == Holds(p, k) /\ account[p][k].holds \in {"nothing", "opening"}

\* validateBalanceRows, an account once in a file; applyBalances then asks
\* whether an import is running.
BeginBalances(q) ==
    /\ importing[q] = NotImporting
    /\ ~Running
    /\ \E named \in SUBSET {a \in Person \X Accounts : Settable(a[1], a[2]) /\ account[a[1]][a[2]].open} :
         /\ named # {}
         /\ Import(q, [does |-> "balances", accounts |-> named])
    /\ UNCHANGED <<batch, row, record, account, stray, number>>

\* set_opening_balances: each account is locked and looked at again, and one
\* refusal refuses the file.  A balance of zero takes the opening off.
CommitBalances(q) ==
    LET named == importing[q].accounts
    IN  /\ importing[q].does = "balances"
        /\ Import(q, NotImporting)
        /\ IF \A a \in named : Settable(a[1], a[2])
           THEN \E some \in SUBSET named :
                  account' = [p \in Person |-> [k \in Accounts |->
                      IF <<p, k>> \in named
                      THEN [account[p][k] EXCEPT !.holds = IF <<p, k>> \in some THEN "opening" ELSE "nothing"]
                      ELSE account[p][k]]]
           ELSE UNCHANGED account
        /\ UNCHANGED <<batch, row, record, stray, number>>

-----------------------------------------------------------------------------
(* History                                                                 *)

\* Anything here but the members import: a transaction, a transfer, or a
\* receipt number that is not the import's.
Busy ==
    \/ \E p \in Person, k \in Accounts : Holds(p, k) /\ account[p][k].holds \notin {"nothing", "opening"}
    \/ \E b \in Batch, p \in Person : number[b][p] \notin {"none", "issued"}

\* The accounts a file must speak of, and may: their entries add up to what
\* each holds.
HoldingMoney == {a \in Person \X Accounts : Holds(a[1], a[2]) /\ account[a[1]][a[2]].holds = "opening"}
HoldingNone == {a \in Person \X Accounts : Holds(a[1], a[2]) /\ account[a[1]][a[2]].holds = "nothing"}

\* Where the import carried an opening it becomes the account's original
\* one, and an account whose history is that opening alone has no other
\* entry; every other account of the file gets what the file has.
Plan(more, none) ==
    [entries |-> more \cup none, held |-> [a \in HoldingMoney \cup none |-> account[a[1]][a[2]]]]

\* planHistory
BeginRestore(q) ==
    /\ importing[q] = NotImporting
    /\ ~Running
    /\ ~Busy
    /\ \E more \in SUBSET HoldingMoney, none \in SUBSET HoldingNone :
         Import(q, [does |-> "restore", plan |-> Plan(more, none)])
    /\ UNCHANGED <<batch, row, record, account, stray, number>>

\* restore_transaction_history: nothing here but the import, still, and
\* every account comes out where it was when the file was read.
CommitRestore(q) ==
    LET plan == importing[q].plan
    IN  /\ importing[q].does = "restore"
        /\ Import(q, NotImporting)
        /\ account' = IF ~Busy /\ \A a \in DOMAIN plan.held : account[a[1]][a[2]] = plan.held[a]
                      THEN [p \in Person |-> [k \in Accounts |->
                              IF <<p, k>> \in plan.entries THEN [account[p][k] EXCEPT !.holds = "own"] ELSE account[p][k]]]
                      ELSE account
        /\ UNCHANGED <<batch, row, record, stray, number>>

-----------------------------------------------------------------------------
(* The business that goes on meanwhile                                     *)

\* An additional account approved at a branch, with its opening receipt: a
\* new one, or the closed one opened again.
OpenedAgain(a) == [a EXCEPT !.open = TRUE, !.holds = IF a.holds = "own" THEN "own" ELSE "receipt"]

OpenAtBranch(p) ==
    /\ OnFile(p) /\ record[p].status \in {"active", "resigned", "closed"}
    /\ Holds(p, "savings") => ~account[p]["savings"].open
    /\ account' = [account EXCEPT ![p]["savings"] =
                     IF Holds(p, "savings") THEN OpenedAgain(account[p]["savings"]) ELSE Opened(Branch, "receipt")]
    /\ record' = [record EXCEPT ![p].status = IF @ = "closed" THEN "active" ELSE @]
    /\ UNCHANGED <<batch, row, stray, number, importing>>

\* A deposit posted.
Trade(p, k) ==
    /\ Holds(p, k)
    /\ account[p][k].open /\ record[p].status \in {"active", "resigned"}
    /\ account[p][k].holds # "own"
    /\ account' = [account EXCEPT ![p][k].holds = "own"]
    /\ UNCHANGED <<batch, row, record, stray, number, importing>>

\* A resignation posted.
Resign(p) ==
    /\ OnFile(p) /\ record[p].kind = "member" /\ record[p].status = "active"
    /\ record' = [record EXCEPT ![p].status = "resigned"]
    /\ account' = [account EXCEPT ![p]["membership"].open = FALSE, ![p]["membership"].holds = "own"]
    /\ UNCHANGED <<batch, row, stray, number, importing>>

MigrationNext ==
    \/ \E q \in Importer, b \in Batch : BeginUpload(q, b) \/ BeginChunk(q, b)
    \/ \E q \in Importer, p \in Person : BeginRow(q, p)
    \/ \E q \in Importer :
         \/ CommitUpload(q) \/ Sweep(q) \/ Claim(q)
         \/ InsertMembership(q) \/ InsertCustomerAccount(q) \/ AllocateForRow(q)
         \/ UpdateMember(q) \/ CreateMember(q) \/ UpdateCustomer(q) \/ CreateCustomer(q) \/ RefuseRow(q)
         \/ RecordRow(q) \/ FinishChunk(q) \/ ChunkDies(q)
         \/ BeginBalances(q) \/ CommitBalances(q) \/ BeginRestore(q) \/ CommitRestore(q)
    \/ \E b \in Batch : CancelBatch(b)
    \/ \E p \in Person : OpenAtBranch(p) \/ Resign(p) \/ \E k \in Accounts : Trade(p, k)

MigrationSpec == MigrationInit /\ [][MigrationNext]_migration

-----------------------------------------------------------------------------
(* Properties                                                              *)

\* Cancelling an import never removes an account its holder has used, nor a
\* record that was on file before it; and it leaves no account without a
\* holder.
Keeps(p) ==
    /\ \A k \in Accounts : (Holds(p, k) /\ account[p][k].holds = "own") => Holds(p, k)'
    /\ (OnFile(p) /\ record[p].by = Branch) => OnFile(p)'
    /\ ~OnFile(p)' => \A k \in Accounts : ~Holds(p, k)'
OthersKept == [][\A p \in Person : Keeps(p)]_migration
=============================================================================
